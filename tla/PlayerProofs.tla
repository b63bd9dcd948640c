------------------------------ MODULE PlayerProofs ------------------------------
(***************************************************************************)
(* The Player module for every set of files with any numbers of frames, every *)
(* playlist and every sequence of commands and signals.  The inductive       *)
(* invariant PlayerInv adds to the checked properties which file is open with *)
(* which tables (FileInv), where the decoder is in it (PlaceInv), what the    *)
(* limit has counted (CountInv), which file the remote control has asked for  *)
(* (RemoteInv), and in which of its places the last command's position is     *)
(* kept from one decoder to the next (GoalInv).  OrderInv, for lists of which *)
(* PlainList says what they must not have, is where the last file went.      *)
(***************************************************************************)
EXTENDS Player, SequenceTheorems, TLAPS

\* what main() decodes again, and the frames that are not heard before the next

Rewinds == status = "REWINDING" /\ ~playbuf.stream
ToSkip == IF status = "SEEKING" THEN seek ELSE 0

\* the goal and the reason of hist
Goals == [file : Names, pos : Int]
GoalType == {None} \cup Goals
Reasons == {None, "tables", "rewound stream", "rewound past estimate", "list"}
HistType == [carried : Nat, rewound : BOOLEAN, goal : GoalType, why : Reasons]

\* the file that is open, and its tables
FileInv ==
  /\ pc \in {"feed", "frame", "stopped"} => playbuf.filename \in Names
  /\ pc \in {"feed", "frame", "stopped"} /\ ~playbuf.stream =>
       tables = "allocated" /\ playbuf.num_frames = Estimate[playbuf.filename]
  /\ at.current_frame <= Len(playbuf.times) \/ Len(playbuf.times) = playbuf.num_frames

\* where the decoder is
PlaceInv ==
  /\ pc = "frame" => /\ at.current_frame <= at.pos /\ at.pos < Real[playbuf.filename]
                     /\ playbuf.stream \/ (playbuf.done /\ status \in {"PLAYING", "SEEKING"})
  /\ pc \in {"feed", "stopped"} /\ Rewinds => at.current_frame < Real[playbuf.filename]
  /\ pc = "stopped" /\ Rewinds => hist.rewound /\ playbuf.done
  /\ pc = "feed" => IF playbuf.done THEN Rewinds => hist.rewound
                    ELSE at.current_frame = 0 /\ at.current_time = 0 /\ at.pos = 0

\* the limit
CountInv ==
  /\ frames_played <= opt.maxframes + 1
  /\ Counts => playbuf.max_frames = opt.maxframes
  /\ pc \in {"feed", "frame"} /\ ~hist.rewound /\ Counts => frames_played = hist.carried + at.pos

\* what the remote control has asked for
RemoteInv ==
  /\ opt.remote /\ (pc \in {"feed", "frame"} \/ (pc = "stopped" /\ Rewinds)) =>
       remote_file = playbuf.filename
  /\ paused.file # None => /\ opt.remote /\ status = "PAUSED" /\ remote_file = None
                           /\ pc \notin {"feed", "frame"}
  /\ opt.remote => pc \notin {"add", "shuffle"}

\* the goal of the last command will be reached, or the file was given up
Loaded == remote_file = hist.goal.file /\ status # "STOPPED" /\ hist.goal.pos = ToSkip
OnHold == /\ remote_file = None /\ status = "PAUSED" /\ paused.file = hist.goal.file
          /\ paused.seek = hist.goal.pos
GivenUp == remote_file = None /\ paused.file = None
GoalInv ==
  hist.goal # None =>
    /\ opt.remote
    /\ pc \in {"feed", "frame"} \/ (pc = "stopped" /\ Rewinds) =>
         hist.goal.file = playbuf.filename
    /\ pc = "frame" => hist.goal.pos = at.pos + ToSkip
    /\ pc \in {"feed", "stopped"} /\ Rewinds => hist.goal.pos = at.current_frame
    /\ pc = "feed" /\ ~Rewinds /\ ~playbuf.done => hist.goal.pos = ToSkip
    /\ pc = "next" \/ (pc = "stopped" /\ ~Rewinds) =>
         sig.quit_now \/ Loaded \/ OnHold \/ GivenUp

PlayerInv ==
  /\ TypeOK /\ files_size > 0 /\ hist \in HistType
  /\ FileInv /\ PlaceInv /\ CountInv /\ RemoteInv /\ GoalInv
  /\ KnownUnlessRewound /\ CrashesKnown

-----------------------------------------------------------------------------
(* The list.                                                               *)
LEMMA Removed ==
  ASSUME NEW S, NEW s \in Seq(S), NEW p \in 1 .. Len(s)
  PROVE  /\ RemoveAt(s, p) \in Seq(S) /\ Len(RemoveAt(s, p)) = Len(s) - 1
         /\ \A j \in 1 .. Len(s) - 1 : RemoveAt(s, p)[j] = IF j < p THEN s[j] ELSE s[j + 1]
<1> DEFINE l == SubSeq(s, 1, p - 1)
           r == SubSeq(s, p + 1, Len(s))
<1>1. Len(s) \in Nat /\ \A j \in 1 .. Len(s) : s[j] \in S
  BY LenProperties, SMT
<1>2. l \in Seq(S) /\ Len(l) = p - 1 /\ \A j \in 1 .. p - 1 : l[j] = s[j]
  BY <1>1, SMT
<1>3. r \in Seq(S) /\ Len(r) = Len(s) - p /\ \A j \in 1 .. Len(s) - p : r[j] = s[j + p]
  BY <1>1, SMT
<1> HIDE DEF l, r
<1>4. /\ l \o r \in Seq(S) /\ Len(l \o r) = Len(l) + Len(r)
      /\ \A j \in 1 .. Len(l) + Len(r) : (l \o r)[j] = IF j <= Len(l) THEN l[j] ELSE r[j - Len(l)]
  BY <1>2, <1>3, ConcatProperties, Zenon
<1>5. RemoveAt(s, p) = l \o r
  BY DEF RemoveAt, l, r
<1>6. Len(l) + Len(r) = Len(s) - 1
  BY <1>1, <1>2, <1>3, SMT
<1>7. ASSUME NEW j \in 1 .. Len(s) - 1
      PROVE  (l \o r)[j] = IF j < p THEN s[j] ELSE s[j + 1]
  <2>1. (l \o r)[j] = IF j <= Len(l) THEN l[j] ELSE r[j - Len(l)]
    BY <1>4, <1>6, Zenon
  <2>2. CASE j < p
    BY <1>1, <1>2, <2>1, <2>2, SMT
  <2>3. CASE ~(j < p)
    <3>1. j - (p - 1) \in 1 .. Len(s) - p /\ j - (p - 1) + p = j + 1 /\ ~(j <= p - 1)
      BY <1>1, <2>3, SMT
    <3>2. r[j - (p - 1)] = s[j + 1]
      BY <1>3, <3>1, SMT
    <3>3. QED
      BY <1>2, <2>1, <2>3, <3>1, <3>2, SMT
  <2>4. QED
    BY <2>2, <2>3
<1>8. QED
  BY <1>4, <1>5, <1>6, <1>7, Zenon

AllSongs == {Songs[k] : k \in DOMAIN Songs}

LEMMA ListSet ==
  ListTypeOK <=> /\ files \in Seq(AllSongs) /\ files_size \in Nat /\ Len(files) <= files_size
                 /\ {files[k] : k \in DOMAIN files} = {Songs[k] : k \in 1 .. Len(files)}
                 /\ i \in Nat /\ loop_remaining \in Nat /\ random_play \in BOOLEAN
  BY Zenon DEF ListTypeOK, ToSet, AllSongs

LEMMA ListNext ==
  ASSUME files' \in Seq(AllSongs), files_size' \in Nat, Len(files') <= files_size',
         {files'[k] : k \in DOMAIN files'} = {Songs[k] : k \in 1 .. Len(files')},
         i' \in Nat, loop_remaining' \in Nat, random_play' \in BOOLEAN
  PROVE  ListTypeOK'
  BY Zenon DEF ListTypeOK, ToSet, AllSongs

LEMMA FilesLen ==
  ASSUME NEW S, NEW s \in Seq(S)
  PROVE  /\ Len(s) \in Nat /\ DOMAIN s = 1 .. Len(s) /\ \A k \in 1 .. Len(s) : s[k] \in S
  BY LenProperties, SMT

LEMMA ListAdd ==
  ASSUME ListTypeOK, files_size > 0, add_file
  PROVE  ListTypeOK' /\ files_size' > 0
<1>1. files \in Seq(AllSongs) /\ Songs \in Seq(AllSongs)
  BY PlaylistAssumption, ListSet, Zenon DEF AllSongs
<1> DEFINE n == Len(files)
<1>2. /\ n \in Nat /\ Len(Songs) \in Nat /\ DOMAIN files = 1 .. n /\ DOMAIN Songs = 1 .. Len(Songs)
      /\ \A k \in DOMAIN Songs : Songs[k] \in AllSongs
  BY <1>1, FilesLen, Zenon
<1>3. n + 1 \in DOMAIN Songs /\ Songs[n + 1] \in AllSongs /\ files' = Append(files, Songs[n + 1])
  BY <1>2, SMT DEF add_file, numfiles
<1>4. /\ files' \in Seq(AllSongs) /\ Len(files') = n + 1 /\ files'[n + 1] = Songs[n + 1]
      /\ DOMAIN files' = 1 .. n + 1 /\ \A k \in 1 .. n : files'[k] = files[k]
  BY <1>1, <1>2, <1>3, SMT
<1>5. {files'[k] : k \in DOMAIN files'} = {Songs[k] : k \in 1 .. n + 1}
  <2>1. {files[k] : k \in DOMAIN files} = {Songs[k] : k \in 1 .. n}
    BY ListSet
  <2>2. 1 .. n + 1 = (1 .. n) \cup {n + 1}
    BY <1>2, SMT
  <2>3. {files'[k] : k \in DOMAIN files'} = {files[k] : k \in 1 .. n} \cup {Songs[n + 1]}
    BY <1>2, <1>4, <2>2, SMT
  <2>4. {Songs[k] : k \in 1 .. n + 1} = {Songs[k] : k \in 1 .. n} \cup {Songs[n + 1]}
    BY <2>2, Zenon
  <2>5. QED
    BY <1>2, <2>1, <2>3, <2>4, Zenon
<1>6. files_size' \in Nat /\ n + 1 <= files_size' /\ files_size' > 0
  BY <1>2, ListSet, SMT DEF add_file, numfiles
<1>7. QED
  BY <1>4, <1>5, <1>6, ListSet, ListNext, Zenon DEF add_file

\* a round of shuffle_files() swaps two files
LEMMA ShuffledFiles ==
  ASSUME ListTypeOK, shuffle_files
  PROVE  /\ files' \in Seq(AllSongs) /\ Len(files') = Len(files) /\ DOMAIN files' = DOMAIN files
         /\ \E a, b \in DOMAIN files : \A k \in DOMAIN files :
              files'[k] = IF k = b THEN files[a] ELSE IF k = a THEN files[b] ELSE files[k]
<1>1. files \in Seq(AllSongs) /\ i \in Nat
  BY ListSet, Zenon
<1> DEFINE n == Len(files)
<1>2. n \in Nat /\ DOMAIN files = 1 .. n /\ \A k \in 1 .. n : files[k] \in AllSongs
  BY <1>1, FilesLen, Zenon
<1>3. PICK r \in i .. n - 1 : files' = Swapped(i + 1, r + 1)
  BY Zenon DEF shuffle_files, numfiles
<1>4. PICK a \in 1 .. n, b \in 1 .. n : files' = Swapped(a, b)
  <2>1. i + 1 \in 1 .. n /\ r + 1 \in 1 .. n
    <3>1. i < n
      BY Zenon DEF shuffle_files, numfiles
    <3> HIDE DEF n
    <3>2. QED
      BY <1>1, <1>2, <1>3, <3>1, SMT
  <2>2. QED
    BY <1>3, <2>1
<1>5. /\ files' \in Seq(AllSongs) /\ Len(files') = n /\ DOMAIN files' = 1 .. n
      /\ \A k \in 1 .. n : files'[k] = IF k = b THEN files[a]
                                       ELSE IF k = a THEN files[b] ELSE files[k]
  <2>1. files' = [[files EXCEPT ![a] = files[b]] EXCEPT ![b] = files[a]]
    BY <1>4, Zenon DEF Swapped
  <2>2. files[a] \in AllSongs /\ files[b] \in AllSongs
    BY <1>2
  <2>3. PICK f : f = [files EXCEPT ![a] = files[b]]
    OBVIOUS
  <2>4. /\ f \in Seq(AllSongs) /\ Len(f) = n
        /\ \A k \in 1 .. n : f[k] = IF k = a THEN files[b] ELSE files[k]
    BY <1>1, <1>2, <2>2, <2>3, ExceptSeq, SMT
  <2>5. /\ files' \in Seq(AllSongs) /\ Len(files') = n
        /\ \A k \in 1 .. n : files'[k] = IF k = b THEN files[a] ELSE f[k]
    BY <1>1, <1>2, <2>1, <2>2, <2>3, <2>4, ExceptSeq, SMT
  <2>6. QED
    BY <2>4, <2>5, FilesLen, SMT
<1>6. QED
  BY <1>2, <1>5, Zenon

LEMMA ListShuffle ==
  ASSUME ListTypeOK, shuffle_files PROVE ListTypeOK' /\ i' \in Nat
<1>1. files \in Seq(AllSongs) /\ i \in Nat
  BY ListSet, Zenon
<1> DEFINE n == Len(files)
<1>2. n \in Nat /\ DOMAIN files = 1 .. n /\ \A k \in 1 .. n : files[k] \in AllSongs
  BY <1>1, FilesLen, Zenon
<1>3. /\ files' \in Seq(AllSongs) /\ Len(files') = n /\ DOMAIN files' = DOMAIN files
      /\ \E a, b \in DOMAIN files : \A k \in DOMAIN files :
           files'[k] = IF k = b THEN files[a] ELSE IF k = a THEN files[b] ELSE files[k]
  BY ShuffledFiles, Zenon
<1>4. PICK a \in DOMAIN files, b \in DOMAIN files :
        \A k \in DOMAIN files : files'[k] = IF k = b THEN files[a]
                                             ELSE IF k = a THEN files[b] ELSE files[k]
  BY <1>3, Zenon
<1>5. Len(files') = n /\ DOMAIN files' = 1 .. n /\ files' \in Seq(AllSongs)
  BY <1>2, <1>3, Zenon
<1>6. {files'[k] : k \in DOMAIN files'} = {files[k] : k \in DOMAIN files}
  BY <1>2, <1>4, <1>5, SMT
<1>7. i' \in Nat
  BY <1>1, SMT DEF shuffle_files
<1>8. QED
  BY <1>2, <1>5, <1>6, <1>7, ListSet, ListNext, Zenon DEF shuffle_files

LEMMA ListInOrder ==
  ASSUME ListTypeOK, NEW f, InOrder(f) PROVE ListTypeOK' /\ files_size' = files_size
<1>1. files \in Seq(AllSongs) /\ i \in Nat /\ loop_remaining \in Nat /\ Len(files) \in Nat
  BY ListSet, FilesLen, Zenon
<1>2. i' \in Nat /\ loop_remaining' \in Nat
  BY <1>1, SMT DEF InOrder, numfiles
<1>3. QED
  BY <1>2, ListSet, ListNext, Zenon DEF InOrder

LEMMA ListNoMore ==
  ASSUME ListTypeOK, NoMoreFiles PROVE ListTypeOK' /\ files_size' = files_size
<1>1. i' \in Nat /\ loop_remaining' \in Nat
  BY ListSet, SMT DEF NoMoreFiles
<1>2. QED
  BY <1>1, ListSet, ListNext, Zenon DEF NoMoreFiles

\* a file drawn at random goes to the end of the list
LEMMA DrawnFiles ==
  ASSUME ListTypeOK, NEW f, AtRandom(f)
  PROVE  \E m \in 1 .. Len(files) :
           /\ m <= Eligible + 1 /\ f = files[m] /\ i' \in Nat
           /\ files' \in Seq(AllSongs) /\ Len(files') = Len(files) /\ DOMAIN files' = DOMAIN files
           /\ files'[Len(files)] = files[m]
           /\ \A j \in 1 .. Len(files) - 1 : files'[j] = IF j < m THEN files[j] ELSE files[j + 1]
<1>1. files \in Seq(AllSongs)
  BY ListSet, Zenon
<1> DEFINE n == Len(files)
<1>2. n \in Nat /\ DOMAIN files = 1 .. n /\ \A k \in 1 .. n : files[k] \in AllSongs
  BY <1>1, FilesLen, Zenon
<1>3. PICK k \in 0 .. Eligible : /\ k < n /\ f = files[k + 1] /\ i' = k
                                 /\ files' = Append(RemoveAt(files, k + 1), f)
  BY Zenon DEF AtRandom, numfiles
<1>4. Eligible \in Nat
  BY <1>2, SMT DEF Eligible, numfiles
<1>5. PICK m \in 1 .. n : m = k + 1
  BY <1>2, <1>3, <1>4, SMT
<1>6. /\ RemoveAt(files, m) \in Seq(AllSongs) /\ Len(RemoveAt(files, m)) = n - 1
      /\ \A j \in 1 .. n - 1 : RemoveAt(files, m)[j] = IF j < m THEN files[j] ELSE files[j + 1]
  BY <1>1, Removed, Zenon
<1>7. files' = Append(RemoveAt(files, m), files[m]) /\ files[m] \in AllSongs
  BY <1>2, <1>3, <1>5, SMT
<1>8. /\ files' \in Seq(AllSongs) /\ Len(files') = n /\ DOMAIN files' = 1 .. n
      /\ files'[n] = files[m] /\ \A j \in 1 .. n - 1 : files'[j] = RemoveAt(files, m)[j]
  <2>1. PICK s : s = RemoveAt(files, m)
    OBVIOUS
  <2>2. s \in Seq(AllSongs) /\ Len(s) = n - 1 /\ files' = Append(s, files[m])
    BY <1>6, <1>7, <2>1, Zenon
  <2> HIDE DEF n
  <2>3. QED
    BY <1>2, <1>7, <2>1, <2>2, SMT
<1>9. i' \in Nat /\ m <= Eligible + 1
  BY <1>3, <1>4, <1>5, SMT
<1>10. QED
  BY <1>2, <1>3, <1>5, <1>6, <1>8, <1>9, Zenon

LEMMA ListAtRandom ==
  ASSUME ListTypeOK, NEW f, AtRandom(f) PROVE ListTypeOK' /\ files_size' = files_size
<1>1. files \in Seq(AllSongs)
  BY ListSet, Zenon
<1> DEFINE n == Len(files)
<1>2. n \in Nat /\ DOMAIN files = 1 .. n /\ \A k \in 1 .. n : files[k] \in AllSongs
  BY <1>1, FilesLen, Zenon
<1>3. PICK m \in 1 .. n :
        /\ i' \in Nat /\ files' \in Seq(AllSongs) /\ Len(files') = n /\ DOMAIN files' = 1 .. n
        /\ files'[n] = files[m]
        /\ \A j \in 1 .. n - 1 : files'[j] = IF j < m THEN files[j] ELSE files[j + 1]
  BY <1>2, DrawnFiles, Zenon
<1>4. {files'[j] : j \in DOMAIN files'} = {files[j] : j \in DOMAIN files}
  <2>1. ASSUME NEW j \in 1 .. n PROVE files'[j] \in {files[l] : l \in 1 .. n}
    <3>1. CASE j = n
      BY <1>3, <3>1, Zenon
    <3>2. CASE j # n
      <4>1. j \in 1 .. n - 1 /\ j + 1 \in 1 .. n
        <5> HIDE DEF n
        <5>1. QED
          BY <1>2, <3>2, SMT
      <4>2. files'[j] = IF j < m THEN files[j] ELSE files[j + 1]
        BY <1>3, <4>1, Zenon
      <4>3. QED
        BY <4>1, <4>2, Zenon
    <3>3. QED
      BY <3>1, <3>2
  <2>2. ASSUME NEW j \in 1 .. n PROVE files[j] \in {files'[l] : l \in 1 .. n}
    <3>1. CASE j = m
      <4>1. n \in 1 .. n
        BY <1>2, SMT
      <4>2. QED
        BY <1>3, <3>1, <4>1, Zenon
    <3>2. CASE j < m
      <4>1. j \in 1 .. n - 1
        BY <1>2, <3>2, SMT
      <4>2. files'[j] = files[j]
        BY <1>3, <3>2, <4>1, Zenon
      <4>3. QED
        BY <4>2, Zenon
    <3>3. CASE j > m
      <4>1. j - 1 \in 1 .. n - 1 /\ ~(j - 1 < m) /\ j - 1 + 1 = j /\ j - 1 \in 1 .. n
        BY <1>2, <3>3, SMT
      <4>2. files'[j - 1] = files[j]
        BY <1>3, <4>1, Zenon
      <4>3. QED
        BY <4>1, <4>2, Zenon
    <3>4. QED
      BY <1>2, <3>1, <3>2, <3>3, SMT
  <2>3. QED
    BY <1>2, <1>3, <2>1, <2>2, Zenon
<1>5. QED
  BY <1>2, <1>3, <1>4, ListSet, ListNext, Zenon DEF AtRandom

-----------------------------------------------------------------------------
(* The types of the parts.                                                 *)
OptType == [remote : BOOLEAN, restart : BOOLEAN, maxframes : Limits]
SigType == [quit_now : BOOLEAN, stop_playing_file : BOOLEAN, handled : BOOLEAN,
            received : 0 .. MaxSignals]
FileType == [filename : Names \cup {None}, stream : BOOLEAN, num_frames : Nat,
             max_frames : Limits \cup {-1}, done : BOOLEAN, times : Seq(Nat)]
AtType == [current_frame : Nat, current_time : Nat, pos : Nat]
PausedType == [file : Names \cup {None}, seek : Nat]
Steps == {"add", "shuffle", "next", "feed", "frame", "stopped", "exited", "crashed"}
Tables == {"null", "allocated", "freed"}

LEMMA Typed ==
  TypeOK <=> /\ ListTypeOK /\ opt \in OptType /\ pc \in Steps /\ status \in Statuses
             /\ seek \in Int /\ tables \in Tables /\ sig \in SigType /\ playbuf \in FileType
             /\ Len(playbuf.times) <= playbuf.num_frames /\ at \in AtType
             /\ remote_file \in Names \cup {None} /\ paused \in PausedType /\ frames_played \in Nat
  BY Zenon DEF TypeOK, OptType, SigType, FileType, AtType, PausedType, Steps, Tables

\* what is constant while a file is decoded, and what a step may do to the rest
LEMMA TypedNext ==
  ASSUME ListTypeOK', opt' \in OptType, pc' \in Steps, status' \in Statuses,
         seek' \in Int, tables' \in Tables, sig' \in SigType, playbuf' \in FileType,
         Len(playbuf'.times) <= playbuf'.num_frames, at' \in AtType,
         remote_file' \in Names \cup {None}, paused' \in PausedType, frames_played' \in Nat
  PROVE  TypeOK'
  BY Zenon DEF TypeOK, OptType, SigType, FileType, AtType, PausedType, Steps, Tables

LEMMA ListKept == ListTypeOK /\ UNCHANGED listVars => ListTypeOK'
  BY Zenon DEF ListTypeOK, listVars

LEMMA Assumed ==
  /\ \A l \in Limits : l \in Int /\ l >= -1
  /\ \A f \in Names : Real[f] \in Nat /\ Real[f] > 0 /\ Estimate[f] \in Nat
  /\ Loads \subseteq Names /\ AllSongs \subseteq Names /\ None \notin Names
  /\ MaxSignals \in Nat /\ \A n \in Jumps : n \in Nat /\ n > 0
<1>1. \A l \in Limits : l \in Nat \/ l = -1
  BY PlayerAssumption, Zenon
<1>2. \A f \in Names : Real[f] \in Nat \ {0} /\ Estimate[f] \in Nat
  BY PlayerAssumption, SMT
<1>3. /\ Loads \subseteq Names /\ AllSongs \subseteq Names /\ None \notin Names
      /\ MaxSignals \in Nat /\ Jumps \subseteq Nat \ {0}
  BY PlayerAssumption, Zenon DEF AllSongs
<1>4. QED
  BY <1>1, <1>2, <1>3, SMT

LEMMA NoFileType ==
  /\ NoFile \in FileType /\ NoFile.times = <<>> /\ NoFile.num_frames = 0
  /\ NoFile.max_frames = -1
<1>1. PICK no \in BOOLEAN : no = FALSE
  OBVIOUS
<1>2. <<>> \in Seq(Nat)
  BY EmptySeq, Zenon
<1>3. PICK e \in Seq(Nat) : e = <<>>
  BY <1>2
<1>4. NoFile = [filename |-> None, stream |-> no, num_frames |-> 0, max_frames |-> -1,
                done |-> no, times |-> e]
  BY <1>1, <1>3, Zenon DEF NoFile
<1>5. QED
  BY <1>3, <1>4, SMT DEF FileType

LEMMA PlayerInit == Init => PlayerInv
<1> SUFFICES ASSUME Init PROVE PlayerInv
  OBVIOUS
<1>1. /\ opt \in OptType /\ pc \in {"next", "add"} /\ seek \in Nat
      /\ status \in {"PLAYING", "SEEKING"}
      /\ tables \in Tables /\ frames_played = 0 /\ remote_file = None /\ paused = NotPaused
      /\ at = Beginning
  BY PlayerAssumption, SMT DEF Init, OptType, Tables
<1>2. ListTypeOK /\ files_size > 0
  <2>1. files = <<>> /\ files_size \in Nat \ {0} /\ i = 0 /\ loop_remaining \in Nat
        /\ random_play \in BOOLEAN
    BY PlaylistAssumption, SMT DEF Init, new_playlist
  <2>2. files \in Seq(AllSongs) /\ Len(files) = 0 /\ DOMAIN files = {} /\ 1 .. Len(files) = {}
    BY <2>1, EmptySeq, SMT
  <2>3. QED
    BY <2>1, <2>2, ListSet, SMT
<1>3. /\ hist \in HistType /\ hist.goal = None /\ ~hist.rewound
  BY SMT DEF Init, HistType, GoalType, Reasons
<1>4. sig \in SigType
  BY PlayerAssumption, SMT DEF Init, SigType
<1>5. /\ playbuf \in FileType /\ Len(playbuf.times) = 0 /\ playbuf.max_frames = -1
      /\ playbuf.num_frames \in Nat
  <2>1. PICK f \in {None} \cup {g \in Names : Kind[g] = "missing"}, n \in {0, 2} :
          playbuf = [NoFile EXCEPT !.filename = f, !.num_frames = n]
    BY Zenon DEF Init
  <2>2. PICK p : p = [NoFile EXCEPT !.filename = f]
    OBVIOUS
  <2>3. p \in FileType /\ p.times = <<>> /\ p.max_frames = -1
    BY <2>2, NoFileType, SMT DEF FileType
  <2>4. playbuf = [p EXCEPT !.num_frames = n]
    BY <2>1, <2>2, Zenon
  <2>5. QED
    BY <2>3, <2>4, SMT DEF FileType
<1>6. TypeOK
  <2>1. at \in AtType /\ paused \in PausedType
    BY <1>1, SMT DEF Beginning, NotPaused, AtType, PausedType
  <2>2. pc \in Steps /\ status \in Statuses
    BY <1>1, SMT DEF Steps, Statuses
  <2>3. Len(playbuf.times) <= playbuf.num_frames /\ seek \in Int /\ frames_played \in Nat
    BY <1>1, <1>5, SMT
  <2>4. QED
    BY <1>1, <1>2, <1>4, <1>5, <2>1, <2>2, <2>3, Typed, Zenon
<1>7. at.current_frame = 0 /\ paused.file = None
  BY <1>1, SMT DEF Beginning, NotPaused
<1>8. FileInv
  BY <1>1, <1>5, <1>7, SMT DEF FileInv
<1>9. PlaceInv /\ KnownUnlessRewound /\ CrashesKnown
  <2>1. pc # "frame" /\ pc # "feed" /\ pc # "stopped" /\ pc # "crashed"
    BY <1>1, SMT
  <2>2. QED
    BY <2>1, Zenon DEF PlaceInv, KnownUnlessRewound, CrashesKnown
<1>10. RemoteInv /\ GoalInv
  <2>1. pc \notin {"feed", "frame", "stopped"}
    BY <1>1, SMT
  <2>2. ASSUME opt.remote PROVE pc \notin {"add", "shuffle"}
    <3>1. pc = "next"
      BY <2>2, Zenon DEF Init
    <3>2. QED
      BY <3>1, SMT
  <2>3. RemoteInv
    <3>1. pc # "feed" /\ pc # "frame" /\ pc # "stopped"
      BY <2>1, SMT
    <3>2. QED
      BY <1>7, <2>2, <3>1, SMT DEF RemoteInv
  <2>4. GoalInv
    BY <1>3, Zenon DEF GoalInv
  <2>5. QED
    BY <2>3, <2>4
<1>11. CountInv
  <2>1. opt.maxframes + 1 >= 0
    BY <1>1, Assumed, SMT DEF OptType
  <2>2. QED
    BY <1>1, <1>5, <2>1, SMT DEF CountInv, Counts
<1>12. QED
  BY <1>2, <1>3, <1>6, <1>8, <1>9, <1>10, <1>11 DEF PlayerInv

-----------------------------------------------------------------------------
(* What the commands change.                                               *)
Commanded ==
  /\ status' \in Statuses /\ seek' \in Int /\ sig' \in SigType /\ at' \in AtType
  /\ remote_file' \in Names \cup {None} /\ paused' \in PausedType /\ hist' \in HistType
  /\ at'.current_frame <= at.current_frame
  /\ sig'.stop_playing_file = sig.stop_playing_file /\ hist'.carried = hist.carried

LEMMA HeardType ==
  ASSUME hist \in HistType, NEW g \in GoalType, Heard(g)
  PROVE  /\ hist' \in HistType /\ hist'.goal = g /\ hist'.rewound = hist.rewound
         /\ hist'.carried = hist.carried /\ hist'.why = hist.why
  BY SMT DEF Heard, HistType

LEMMA FrameSet ==
  ASSUME at \in AtType, NEW n \in Nat, at' = [at EXCEPT !.current_frame = n]
  PROVE  /\ at' \in AtType /\ at'.current_frame = n /\ at'.current_time = at.current_time
         /\ at'.pos = at.pos
  BY SMT DEF AtType

LEMMA LoadFields ==
  ASSUME TypeOK, hist \in HistType, NEW f \in Loads, LoadCommand(f)
  PROVE  /\ Commanded
         /\ status' = "PLAYING" /\ remote_file' = f /\ f \in Names /\ paused'.file = None
         /\ hist'.goal # None => hist'.goal.file = f /\ hist'.goal.pos = 0
         /\ hist'.rewound = hist.rewound
<1>1. f \in Names /\ at \in AtType
  BY Assumed, Typed, Zenon
<1>2. PICK g : g = [file |-> f, pos |-> 0]
  OBVIOUS
<1>3. g \in Goals /\ g.file = f /\ g.pos = 0
  BY <1>1, <1>2, SMT DEF Goals
<1>4. /\ hist' \in HistType /\ hist'.goal = g /\ hist'.rewound = hist.rewound
      /\ hist'.carried = hist.carried
  BY <1>2, <1>3, HeardType, Zenon DEF LoadCommand, GoalType
<1>5. at' \in AtType /\ at'.current_frame = 0 /\ 0 <= at.current_frame
  BY <1>1, SMT DEF LoadCommand, AtType
<1>6. paused' \in PausedType /\ paused'.file = None
  BY SMT DEF LoadCommand, NotPaused, PausedType
<1>7. status' = "PLAYING" /\ remote_file' = f /\ seek' = 0 /\ sig' = sig /\ sig \in SigType
  BY Typed, Zenon DEF LoadCommand
<1>8. status' \in Statuses /\ seek' \in Int
  BY <1>7, SMT DEF Statuses
<1>9. QED
  BY <1>1, <1>3, <1>4, <1>5, <1>6, <1>7, <1>8, Zenon DEF Commanded

LEMMA StopFields ==
  ASSUME TypeOK, hist \in HistType, RemoteInv, StopCommand
  PROVE  /\ Commanded /\ status' = "STOPPED" /\ hist'.goal = None /\ hist'.rewound = hist.rewound
         /\ paused'.file = None
<1>1. /\ hist' \in HistType /\ hist'.goal = None /\ hist'.rewound = hist.rewound
      /\ hist'.carried = hist.carried
  BY HeardType, Zenon DEF StopCommand, GoalType
<1>2. /\ seek' = seek /\ sig' = sig /\ seek \in Int /\ sig \in SigType /\ at \in AtType
      /\ paused \in PausedType /\ remote_file \in Names \cup {None}
  BY Typed, Zenon DEF StopCommand
<1>3. CASE status = "STOPPED"
  <2>1. /\ status' = status /\ remote_file' = remote_file /\ paused' = paused /\ at' = at
    BY <1>3, Zenon DEF StopCommand
  <2>2. paused.file = None
    BY <1>3, SMT DEF RemoteInv
  <2>3. at.current_frame <= at.current_frame /\ status \in Statuses
    BY <1>2, <1>3, SMT DEF AtType, Statuses
  <2>4. QED
    BY <1>1, <1>2, <1>3, <2>1, <2>2, <2>3, Zenon DEF Commanded
<1>4. CASE status # "STOPPED"
  <2>1. /\ status' = "STOPPED" /\ remote_file' = None /\ paused' = NotPaused
        /\ at' = [at EXCEPT !.current_frame = 0]
    BY <1>4, Zenon DEF StopCommand
  <2>2. at' \in AtType /\ at'.current_frame = 0 /\ 0 <= at.current_frame
    BY <1>2, <2>1, SMT DEF AtType
  <2>3. paused' \in PausedType /\ paused'.file = None /\ "STOPPED" \in Statuses
    BY <2>1, SMT DEF NotPaused, PausedType, Statuses
  <2>4. QED
    BY <1>1, <1>2, <2>1, <2>2, <2>3, Zenon DEF Commanded
<1>5. QED
  BY <1>3, <1>4

LEMMA QuitFields ==
  ASSUME TypeOK, hist \in HistType, QuitCommand
  PROVE  /\ Commanded /\ sig'.quit_now = TRUE /\ hist' = hist
         /\ UNCHANGED <<status, seek, at, remote_file, paused>>
<1>1. PICK yes \in BOOLEAN : yes = TRUE
  OBVIOUS
<1>2. sig' = [sig EXCEPT !.quit_now = yes] /\ sig \in SigType
  BY <1>1, Typed, Zenon DEF QuitCommand
<1>3. sig' \in SigType /\ sig'.quit_now = yes /\ sig'.stop_playing_file = sig.stop_playing_file
  BY <1>2, SMT DEF SigType
<1>4. at.current_frame <= at.current_frame
  BY Typed, SMT DEF AtType
<1>5. UNCHANGED <<status, seek, at, remote_file, paused, hist>>
  BY Zenon DEF QuitCommand
<1>6. QED
  BY <1>1, <1>3, <1>4, <1>5, Typed, Zenon DEF Commanded

LEMMA HereType ==
  ASSUME TypeOK, playbuf.filename \in Names, NEW n \in Int
  PROVE  /\ Here(n) \in GoalType
         /\ Here(n) # None => /\ Here(n).file = playbuf.filename /\ Here(n).pos = n
                              /\ ~hist.rewound /\ ~playbuf.stream
<1>1. PICK g : g = [file |-> playbuf.filename, pos |-> n]
  OBVIOUS
<1>2. g \in Goals /\ g.file = playbuf.filename /\ g.pos = n
  BY <1>1, SMT DEF Goals
<1>3. Here(n) = IF hist.rewound \/ playbuf.stream THEN None ELSE g
  BY <1>1, Zenon DEF Here
<1>4. QED
  BY <1>2, <1>3, Zenon DEF GoalType

\* pause_play() in read_header() and while the player waits
LEMMA PauseFields ==
  ASSUME TypeOK, hist \in HistType, FileInv, KnownUnlessRewound, Pause
  PROVE  /\ Commanded /\ status' = "PAUSED" /\ remote_file' = None /\ hist'.rewound = hist.rewound
         /\ paused'.file = playbuf.filename /\ sig' = sig
         /\ hist'.goal # None => /\ pc = "frame" /\ hist'.goal.file = playbuf.filename
                                 /\ hist'.goal.pos = paused'.seek
<1> DEFINE g == IF pc = "frame" THEN Here(at.pos) ELSE None
<1>1. /\ sig \in SigType /\ at \in AtType /\ seek \in Int /\ at.pos \in Int
      /\ at.current_frame <= at.current_frame /\ playbuf.filename \in Names \cup {None}
  BY Typed, SMT DEF AtType, FileType
<1>2. paused' \in PausedType /\ paused'.file = playbuf.filename /\ paused'.seek = at.current_frame
  BY <1>1, SMT DEF Pause, PausedType, AtType
<1>3. g \in GoalType
  BY <1>1, HereType, Zenon DEF FileInv, GoalType
<1>4. Heard(g)
  BY Zenon DEF Pause
<1>5. g # None => /\ pc = "frame" /\ g.file = playbuf.filename /\ g.pos = at.current_frame
  <2> SUFFICES ASSUME g # None
               PROVE  pc = "frame" /\ g.file = playbuf.filename /\ g.pos = at.current_frame
    OBVIOUS
  <2>1. pc = "frame" /\ g = Here(at.pos)
    BY Zenon
  <2>2. g.file = playbuf.filename /\ g.pos = at.pos /\ ~hist.rewound
    BY <1>1, <2>1, HereType, Zenon DEF FileInv
  <2>3. at.current_frame = at.pos
    BY <2>1, <2>2, Zenon DEF KnownUnlessRewound
  <2>4. QED
    BY <2>1, <2>2, <2>3, Zenon
<1> HIDE DEF g
<1>6. /\ hist' \in HistType /\ hist'.goal = g /\ hist'.rewound = hist.rewound
      /\ hist'.carried = hist.carried
  BY <1>3, <1>4, HeardType, Zenon
<1>7. /\ status' = "PAUSED" /\ "PAUSED" \in Statuses /\ remote_file' = None /\ seek' = seek
      /\ at' = at /\ sig' = sig
  BY SMT DEF Pause, Statuses
<1>8. QED
  BY <1>1, <1>2, <1>5, <1>6, <1>7, Zenon DEF Commanded

LEMMA UnpauseFields ==
  ASSUME TypeOK, hist \in HistType, Unpause
  PROVE  /\ Commanded /\ status' = "SEEKING" /\ remote_file' = paused.file /\ paused.file # None
         /\ seek' = paused.seek /\ paused'.file = None /\ hist' = hist /\ sig' = sig
<1>1. /\ sig \in SigType /\ at \in AtType /\ paused \in PausedType
  BY Typed
<1>2. /\ paused' \in PausedType /\ paused'.file = None
      /\ paused.seek \in Int /\ paused.file \in Names \cup {None}
  BY <1>1, SMT DEF Unpause, PausedType
<1>3. at' \in AtType /\ 0 <= at.current_frame /\ at'.current_frame = 0
  BY <1>1, SMT DEF Unpause, AtType
<1>4. /\ status' = "SEEKING" /\ "SEEKING" \in Statuses /\ remote_file' = paused.file
      /\ paused.file # None /\ seek' = paused.seek /\ hist' = hist /\ sig' = sig
  BY SMT DEF Unpause, Statuses, ResumeAt
<1>5. QED
  BY <1>1, <1>2, <1>3, <1>4, Zenon DEF Commanded

LEMMA JumpFields ==
  ASSUME TypeOK, hist \in HistType, FileInv, NEW n \in Jumps, JumpCommand(n)
  PROVE  /\ Commanded /\ status = "PLAYING" /\ status' = "SEEKING"
         /\ UNCHANGED <<remote_file, paused, sig>> /\ hist'.rewound = hist.rewound
         /\ hist'.goal # None => /\ pc = "frame" /\ hist'.goal.file = playbuf.filename
                                 /\ hist'.goal.pos = seek'
<1>1. /\ sig \in SigType /\ at \in AtType /\ paused \in PausedType /\ n \in Nat
      /\ playbuf.num_frames \in Nat /\ remote_file \in Names \cup {None}
  BY Typed, Assumed, SMT DEF FileType
<1>2. PICK s \in Nat : s = Clamped(n)
  BY <1>1, Zenon DEF Clamped
<1>3. at' \in AtType /\ 0 <= at.current_frame /\ at'.current_frame = 0
  BY <1>1, SMT DEF JumpCommand, AtType
<1>4. PICK g : g = IF pc = "frame" THEN [file |-> playbuf.filename, pos |-> s] ELSE None
  OBVIOUS
<1>5. /\ g \in GoalType
      /\ g # None => pc = "frame" /\ g.file = playbuf.filename /\ g.pos = s
  <2>1. CASE pc = "frame"
    <3>1. playbuf.filename \in Names
      BY <2>1, SMT DEF FileInv
    <3>2. QED
      BY <1>4, <2>1, <3>1, SMT DEF Goals, GoalType
  <2>2. CASE pc # "frame"
    BY <1>4, <2>2, Zenon DEF GoalType
  <2>3. QED
    BY <2>1, <2>2
<1>6. Heard(g)
  BY <1>2, <1>4, Zenon DEF JumpCommand
<1>7. /\ hist' \in HistType /\ hist'.goal = g /\ hist'.rewound = hist.rewound
      /\ hist'.carried = hist.carried
  BY <1>5, <1>6, HeardType, Zenon
<1>8. /\ status = "PLAYING" /\ status' = "SEEKING" /\ "SEEKING" \in Statuses
      /\ seek' = s /\ s \in Int
      /\ UNCHANGED <<remote_file, paused, sig>>
  BY <1>2, SMT DEF JumpCommand, Statuses
<1>9. QED
  BY <1>1, <1>3, <1>5, <1>7, <1>8, Zenon DEF Commanded

LEMMA BackFields ==
  ASSUME TypeOK, hist \in HistType, FileInv, NEW n \in Jumps, BackCommand(n)
  PROVE  /\ Commanded /\ status = "PLAYING" /\ status' = "REWINDING"
         /\ UNCHANGED <<remote_file, paused, sig>> /\ hist'.rewound = TRUE
         /\ hist'.goal # None => /\ pc = "frame" /\ hist'.goal.file = playbuf.filename
                                 /\ hist'.goal.pos = at'.current_frame /\ ~playbuf.stream
<1>1. /\ sig \in SigType /\ at \in AtType /\ paused \in PausedType /\ n \in Nat /\ n > 0
      /\ playbuf.num_frames \in Nat /\ remote_file \in Names \cup {None}
      /\ playbuf.times \in Seq(Nat)
  BY Typed, Assumed, SMT DEF FileType
<1>2. PICK r \in Nat : r = RewoundTo(n)
  BY <1>1, SMT DEF RewoundTo, AtType
<1>3. r <= at.current_frame
  BY <1>1, <1>2, SMT DEF RewoundTo, AtType
<1>4. PICK t \in Nat : t = IF NeedsTime(r) THEN playbuf.times[r] ELSE 0
  <2>1. NeedsTime(r) => playbuf.times[r] \in Nat
    BY <1>1, <1>2, SMT DEF BackCommand, Known
  <2>2. QED
    BY <2>1, Zenon
<1>5. PICK a : a = [at EXCEPT !.current_frame = r]
  OBVIOUS
<1>6. a \in AtType /\ a.current_frame = r
  BY <1>1, <1>5, SMT DEF AtType
<1>7. at' = [a EXCEPT !.current_time = t]
  BY <1>2, <1>4, <1>5, Zenon DEF BackCommand
<1>8. at' \in AtType /\ at'.current_frame = r
  BY <1>6, <1>7, SMT DEF AtType
<1>9. seek' \in Int
  BY <1>1, SMT DEF BackCommand, MoveSeek, AtType
<1>10. PICK g : g = IF pc = "frame" THEN Here(r) ELSE None
  OBVIOUS
<1>11. /\ g \in GoalType
       /\ g # None => /\ pc = "frame" /\ g.file = playbuf.filename /\ g.pos = r /\ ~playbuf.stream
  BY <1>1, <1>10, HereType, SMT DEF FileInv, GoalType
<1>12. PICK yes \in BOOLEAN : yes = TRUE
  OBVIOUS
<1>13. PICK h : h = [hist EXCEPT !.rewound = yes]
  OBVIOUS
<1>14. h \in HistType /\ h.rewound = yes /\ h.carried = hist.carried
  BY <1>13, SMT DEF HistType
<1>15. hist' = [h EXCEPT !.goal = g]
  BY <1>2, <1>10, <1>12, <1>13, Zenon DEF BackCommand
<1>16. hist' \in HistType /\ hist'.rewound = yes /\ hist'.goal = g /\ hist'.carried = hist.carried
  BY <1>11, <1>14, <1>15, SMT DEF HistType
<1>17. /\ status = "PLAYING" /\ status' = "REWINDING" /\ "REWINDING" \in Statuses
       /\ UNCHANGED <<remote_file, paused, sig>>
  BY SMT DEF BackCommand, Statuses
<1>18. QED
  BY <1>1, <1>3, <1>8, <1>9, <1>11, <1>12, <1>16, <1>17, Zenon DEF Commanded

-----------------------------------------------------------------------------
(* What every command leaves behind, in read_header() and while the player   *)
(* waits: a goal is kept where the next decoder will find it.               *)
CommandLeaves ==
  /\ Commanded
  /\ pc = "frame" /\ Rewinds' => hist'.rewound /\ remote_file' = remote_file
  /\ paused'.file # None => status' = "PAUSED" /\ remote_file' = None
  /\ hist'.goal # None =>
       IF pc = "frame" /\ Rewinds'
       THEN hist'.goal.file = playbuf.filename /\ hist'.goal.pos = at'.current_frame
       ELSE sig'.quit_now \/ Loaded' \/ OnHold' \/ GivenUp'

LEMMA GoalFields ==
  ASSUME hist \in HistType, hist.goal # None
  PROVE  hist.goal.file \in Names /\ hist.goal.pos \in Int
<1>1. hist.goal \in GoalType
  BY SMT DEF HistType
<1>2. hist.goal \in Goals
  BY <1>1, Zenon DEF GoalType
<1>3. QED
  BY <1>2, SMT DEF Goals

LEMMA LoadLeaves ==
  ASSUME PlayerInv, NEW f \in Loads, LoadCommand(f)
  PROVE  CommandLeaves
<1>1. /\ Commanded /\ status' = "PLAYING" /\ remote_file' = f /\ f \in Names /\ paused'.file = None
      /\ hist'.goal # None => (hist'.goal.file = f /\ hist'.goal.pos = 0)
  BY LoadFields, Zenon DEF PlayerInv
<1>2. ~Rewinds' /\ ToSkip' = 0 /\ status' # "STOPPED"
  BY <1>1, SMT DEF Rewinds, ToSkip
<1>3. QED
  BY <1>1, <1>2, Zenon DEF CommandLeaves, Loaded

LEMMA StopLeaves == ASSUME PlayerInv, StopCommand PROVE CommandLeaves
<1>1. /\ Commanded /\ status' = "STOPPED" /\ hist'.goal = None /\ paused'.file = None
  BY StopFields, Zenon DEF PlayerInv
<1>2. ~Rewinds'
  BY <1>1, SMT DEF Rewinds
<1>3. QED
  BY <1>1, <1>2, Zenon DEF CommandLeaves

LEMMA FrameNotRewinding == PlaceInv /\ pc = "frame" => ~Rewinds
  BY SMT DEF PlaceInv, Rewinds

LEMMA QuitLeaves ==
  ASSUME PlayerInv, QuitCommand, playbuf' = playbuf
  PROVE  CommandLeaves
<1>1. Commanded /\ sig'.quit_now = TRUE /\ UNCHANGED <<status, remote_file, paused>>
  BY QuitFields, Zenon DEF PlayerInv
<1>2. pc = "frame" => ~Rewinds'
  BY <1>1, FrameNotRewinding, Zenon DEF PlayerInv, Rewinds
<1>3. paused'.file # None => status' = "PAUSED" /\ remote_file' = None
  BY <1>1, Zenon DEF PlayerInv, RemoteInv
<1>4. QED
  BY <1>1, <1>2, <1>3, Zenon DEF CommandLeaves

LEMMA PauseLeaves ==
  ASSUME PlayerInv, pc \in {"frame", "next"}, PauseCommand, playbuf' = playbuf
  PROVE  CommandLeaves
<1>1. CASE Pause
  <2>1. /\ Commanded /\ status' = "PAUSED" /\ remote_file' = None
        /\ paused'.file = playbuf.filename
        /\ hist'.goal # None => /\ pc = "frame" /\ hist'.goal.file = playbuf.filename
                                /\ hist'.goal.pos = paused'.seek
    BY <1>1, PauseFields, Zenon DEF PlayerInv
  <2>2. ~Rewinds'
    BY <2>1, SMT DEF Rewinds
  <2>3. QED
    BY <2>1, <2>2, Zenon DEF CommandLeaves, OnHold
<1>2. CASE Unpause
  <2>1. /\ Commanded /\ status' = "SEEKING" /\ remote_file' = paused.file /\ paused.file # None
        /\ seek' = paused.seek /\ paused'.file = None /\ hist' = hist /\ sig' = sig
    BY <1>2, UnpauseFields, Zenon DEF PlayerInv
  <2>2. ~Rewinds' /\ ToSkip' = seek' /\ status' # "STOPPED"
    BY <2>1, SMT DEF Rewinds, ToSkip
  <2>3. pc = "next" /\ remote_file = None
    BY <2>1, SMT DEF PlayerInv, RemoteInv
  <2>4. ASSUME hist.goal # None PROVE sig'.quit_now \/ Loaded'
    <3>1. sig.quit_now \/ Loaded \/ OnHold \/ GivenUp
      BY <2>3, <2>4, Zenon DEF PlayerInv, GoalInv
    <3>2. hist.goal.file # None
      BY <2>4, GoalFields, Assumed, Zenon DEF PlayerInv
    <3>3. sig.quit_now \/ OnHold
      BY <2>1, <2>3, <3>1, <3>2, Zenon DEF Loaded, GivenUp
    <3>4. QED
      BY <2>1, <2>2, <3>3, Zenon DEF OnHold, Loaded
  <2>5. QED
    BY <2>1, <2>2, <2>4, Zenon DEF CommandLeaves
<1>3. CASE Heard(None) /\ UNCHANGED <<status, seek, at, remote_file, paused, sig>>
  <2>1. /\ hist' \in HistType /\ hist'.goal = None /\ hist'.rewound = hist.rewound
        /\ hist'.carried = hist.carried
    BY <1>3, HeardType, Zenon DEF PlayerInv, GoalType
  <2>2. at.current_frame <= at.current_frame
    BY Typed, SMT DEF PlayerInv, AtType
  <2>3. Commanded
    BY <1>3, <2>1, <2>2, Typed, Zenon DEF PlayerInv, Commanded
  <2>4. pc = "frame" => ~Rewinds'
    BY <1>3, FrameNotRewinding, Zenon DEF PlayerInv, Rewinds
  <2>5. paused'.file # None => status' = "PAUSED" /\ remote_file' = None
    BY <1>3, Zenon DEF PlayerInv, RemoteInv
  <2>6. QED
    BY <2>1, <2>3, <2>4, <2>5, Zenon DEF CommandLeaves
<1>4. QED
  BY <1>1, <1>2, <1>3, Zenon DEF PauseCommand

LEMMA JumpLeaves ==
  ASSUME PlayerInv, opt.remote, NEW n \in Jumps, JumpCommand(n)
  PROVE  CommandLeaves
<1>1. /\ Commanded /\ status = "PLAYING" /\ status' = "SEEKING"
      /\ remote_file' = remote_file /\ paused' = paused
      /\ hist'.goal # None => /\ pc = "frame" /\ hist'.goal.file = playbuf.filename
                              /\ hist'.goal.pos = seek'
  BY JumpFields, Zenon DEF PlayerInv
<1>2. ~Rewinds' /\ ToSkip' = seek' /\ status' # "STOPPED"
  BY <1>1, SMT DEF Rewinds, ToSkip
<1>3. paused'.file = None
  BY <1>1, SMT DEF PlayerInv, RemoteInv
<1>4. pc = "frame" => remote_file = playbuf.filename
  BY Zenon DEF PlayerInv, RemoteInv
<1>5. QED
  BY <1>1, <1>2, <1>3, <1>4, Zenon DEF CommandLeaves, Loaded

LEMMA BackLeaves ==
  ASSUME PlayerInv, NEW n \in Jumps, BackCommand(n), playbuf' = playbuf
  PROVE  CommandLeaves
<1>1. /\ Commanded /\ status = "PLAYING" /\ status' = "REWINDING"
      /\ remote_file' = remote_file /\ paused' = paused /\ hist'.rewound = TRUE
      /\ hist'.goal # None => /\ pc = "frame" /\ hist'.goal.file = playbuf.filename
                              /\ hist'.goal.pos = at'.current_frame /\ ~playbuf.stream
  BY BackFields, Zenon DEF PlayerInv
<1>2. paused'.file = None
  BY <1>1, SMT DEF PlayerInv, RemoteInv
<1>3. QED
  BY <1>1, <1>2, Zenon DEF CommandLeaves, Rewinds

LEMMA CommandLeft ==
  ASSUME PlayerInv, opt.remote, pc \in {"frame", "next"}, Command, playbuf' = playbuf
  PROVE  CommandLeaves
  BY LoadLeaves, StopLeaves, QuitLeaves, PauseLeaves, JumpLeaves, BackLeaves, Zenon DEF Command

LEMMA HeaderCommandStep == PlayerInv /\ HeaderCommand => PlayerInv'
<1> SUFFICES ASSUME PlayerInv, HeaderCommand PROVE PlayerInv'
  OBVIOUS
<1>1. /\ pc = "frame" /\ opt.remote /\ pc' = "stopped" /\ Command
      /\ opt' = opt /\ playbuf' = playbuf /\ tables' = tables /\ frames_played' = frames_played
      /\ UNCHANGED listVars
  BY Zenon DEF HeaderCommand
<1>2. CommandLeaves
  BY <1>1, CommandLeft, Zenon
<1>3. /\ at \in AtType /\ at' \in AtType /\ at'.current_frame <= at.current_frame
      /\ playbuf \in FileType /\ hist' \in HistType /\ frames_played \in Nat
  BY <1>2, Typed, Zenon DEF PlayerInv, CommandLeaves, Commanded
<1>4. TypeOK' /\ files_size' > 0
  <2>1. ListTypeOK' /\ files_size' = files_size
    BY <1>1, ListKept, Typed, Zenon DEF PlayerInv, listVars
  <2>2. pc' \in Steps
    BY <1>1, SMT DEF Steps
  <2>3. QED
    BY <1>1, <1>2, <2>1, <2>2, Typed, TypedNext, Zenon DEF PlayerInv, CommandLeaves, Commanded
<1>5. FileInv'
  <2>1. at'.current_frame <= Len(playbuf.times) \/ Len(playbuf.times) = playbuf.num_frames
    <3>1. Len(playbuf.times) \in Nat
      BY <1>3, LenProperties, SMT DEF FileType
    <3>2. QED
      BY <1>3, <3>1, SMT DEF PlayerInv, FileInv, AtType
  <2>2. QED
    BY <1>1, <2>1, SMT DEF PlayerInv, FileInv
<1>6. PlaceInv'
  <2>1. at.current_frame < Real[playbuf.filename]
    <3>1. Real[playbuf.filename] \in Nat
      BY <1>1, Assumed, SMT DEF PlayerInv, FileInv
    <3>2. QED
      BY <1>1, <1>3, <3>1, SMT DEF PlayerInv, PlaceInv, AtType
  <2>2. at'.current_frame < Real[playbuf.filename]
    <3>1. Real[playbuf.filename] \in Nat
      BY <1>1, Assumed, SMT DEF PlayerInv, FileInv
    <3>2. QED
      BY <1>3, <2>1, <3>1, SMT DEF AtType
  <2>3. Rewinds' => hist'.rewound
    BY <1>1, <1>2, Zenon DEF CommandLeaves
  <2>4. Rewinds' => playbuf'.done
    BY <1>1, SMT DEF PlayerInv, PlaceInv, Rewinds
  <2>5. QED
    BY <1>1, <2>2, <2>3, <2>4, SMT DEF PlaceInv
<1>7. CountInv' /\ KnownUnlessRewound' /\ CrashesKnown'
  BY <1>1, SMT DEF PlayerInv, CountInv, Counts, KnownUnlessRewound, CrashesKnown
<1>8. RemoteInv'
  <2>1. Rewinds' => remote_file' = playbuf'.filename
    BY <1>1, <1>2, Zenon DEF CommandLeaves, PlayerInv, RemoteInv
  <2>2. QED
    BY <1>1, <1>2, <2>1, SMT DEF CommandLeaves, RemoteInv
<1>9. GoalInv'
  BY <1>1, <1>2, SMT DEF CommandLeaves, GoalInv
<1>10. QED
  BY <1>3, <1>4, <1>5, <1>6, <1>7, <1>8, <1>9 DEF PlayerInv

LEMMA WaitCommandStep == PlayerInv /\ WaitCommand => PlayerInv'
<1> SUFFICES ASSUME PlayerInv, WaitCommand PROVE PlayerInv'
  OBVIOUS
<1>1. /\ pc = "next" /\ opt.remote /\ pc' = pc /\ Command
      /\ opt' = opt /\ playbuf' = playbuf /\ tables' = tables /\ frames_played' = frames_played
      /\ UNCHANGED listVars
  BY Zenon DEF WaitCommand
<1>2. CommandLeaves
  BY <1>1, CommandLeft, Zenon
<1>3. /\ at \in AtType /\ at' \in AtType /\ at'.current_frame <= at.current_frame
      /\ playbuf \in FileType /\ hist' \in HistType /\ frames_played \in Nat
  BY <1>2, Typed, Zenon DEF PlayerInv, CommandLeaves, Commanded
<1>4. TypeOK' /\ files_size' > 0
  <2>1. ListTypeOK' /\ files_size' = files_size
    BY <1>1, ListKept, Typed, Zenon DEF PlayerInv, listVars
  <2>2. pc' \in Steps
    BY <1>1, SMT DEF Steps
  <2>3. QED
    BY <1>1, <1>2, <2>1, <2>2, Typed, TypedNext, Zenon DEF PlayerInv, CommandLeaves, Commanded
<1>5. FileInv'
  <2>1. at'.current_frame <= Len(playbuf.times) \/ Len(playbuf.times) = playbuf.num_frames
    <3>1. Len(playbuf.times) \in Nat
      BY <1>3, LenProperties, SMT DEF FileType
    <3>2. QED
      BY <1>3, <3>1, SMT DEF PlayerInv, FileInv, AtType
  <2>2. QED
    BY <1>1, <2>1, SMT DEF PlayerInv, FileInv
<1>6. PlaceInv' /\ CountInv' /\ KnownUnlessRewound' /\ CrashesKnown'
  BY <1>1, SMT DEF PlayerInv, PlaceInv, CountInv, Counts, KnownUnlessRewound, CrashesKnown
<1>7. RemoteInv'
  BY <1>1, <1>2, SMT DEF CommandLeaves, RemoteInv
<1>8. GoalInv'
  BY <1>1, <1>2, SMT DEF CommandLeaves, GoalInv
<1>9. QED
  BY <1>3, <1>4, <1>5, <1>6, <1>7, <1>8 DEF PlayerInv

-----------------------------------------------------------------------------
(* Before the first file, between two files, and at the end.               *)
LEMMA IdleStep ==
  ASSUME PlayerInv, pc \in {"add", "shuffle", "next"}, pc' \in {"add", "shuffle", "next", "exited"},
         pc' \in {"add", "shuffle"} => pc \in {"add", "shuffle"},
         ListTypeOK', files_size' > 0, Idle
  PROVE  PlayerInv'
<1>1. /\ opt' = opt /\ sig' = sig /\ tables' = tables /\ playbuf' = playbuf
      /\ frames_played' = frames_played /\ status' = status /\ seek' = seek /\ at' = at
      /\ remote_file' = remote_file /\ paused' = paused /\ hist' = hist
  BY Zenon DEF Idle, main
<1>2. TypeOK'
  <2>1. pc' \in Steps
    BY SMT DEF Steps
  <2>2. QED
    BY <1>1, <2>1, Typed, TypedNext, Zenon DEF PlayerInv
<1>3. hist' \in HistType
  BY <1>1, Zenon DEF PlayerInv
<1>4. FileInv' /\ PlaceInv' /\ CountInv' /\ KnownUnlessRewound' /\ CrashesKnown'
  <2>1. pc' # "feed" /\ pc' # "frame" /\ pc' # "stopped" /\ pc' # "crashed"
    BY SMT
  <2>2. PlaceInv' /\ KnownUnlessRewound' /\ CrashesKnown'
    BY <2>1, Zenon DEF PlaceInv, KnownUnlessRewound, CrashesKnown
  <2>3. FileInv' /\ CountInv'
    BY <1>1, <2>1, SMT DEF PlayerInv, FileInv, CountInv, Counts
  <2>4. QED
    BY <2>2, <2>3
<1>5. RemoteInv'
  BY <1>1, SMT DEF PlayerInv, RemoteInv
<1>6. GoalInv'
  <2> SUFFICES ASSUME hist'.goal # None PROVE GoalInv'
    BY Zenon DEF GoalInv
  <2>1. opt.remote /\ hist.goal # None
    BY <1>1, Zenon DEF PlayerInv, GoalInv
  <2>2. pc = "next"
    BY <2>1, SMT DEF PlayerInv, RemoteInv
  <2>3. sig.quit_now \/ Loaded \/ OnHold \/ GivenUp
    BY <2>1, <2>2, Zenon DEF PlayerInv, GoalInv
  <2>4. sig'.quit_now \/ Loaded' \/ OnHold' \/ GivenUp'
    BY <1>1, <2>3, Zenon DEF Loaded, OnHold, GivenUp, ToSkip
  <2>5. pc' \notin {"feed", "frame", "stopped"}
    BY SMT
  <2>6. QED
    BY <1>1, <2>1, <2>4, <2>5, SMT DEF GoalInv
<1>7. QED
  BY <1>2, <1>3, <1>4, <1>5, <1>6 DEF PlayerInv

\* the player crashes
LEMMA CrashStep ==
  ASSUME PlayerInv, NEW why \in Reasons, Crash(why), tables' = tables,
         remote_file' \in {None, remote_file}, CrashesKnown',
         UNCHANGED <<listVars, opt, sig, playbuf, frames_played, status, seek, at, paused>>
  PROVE  PlayerInv'
<1>1. /\ opt' = opt /\ sig' = sig /\ playbuf' = playbuf /\ frames_played' = frames_played
      /\ status' = status /\ seek' = seek /\ at' = at /\ paused' = paused
      /\ UNCHANGED listVars /\ files_size' = files_size /\ pc' = "crashed"
  BY Zenon DEF Crash, listVars
<1>2. hist' \in HistType /\ hist'.goal = hist.goal
  BY SMT DEF Crash, PlayerInv, HistType
<1>3. TypeOK'
  <2>1. pc' \in Steps
    BY <1>1, SMT DEF Steps
  <2>2. ListTypeOK' /\ remote_file' \in Names \cup {None}
    BY <1>1, ListKept, Typed, Zenon DEF PlayerInv
  <2>3. QED
    BY <1>1, <2>1, <2>2, Typed, TypedNext, Zenon DEF PlayerInv
<1>4. FileInv' /\ PlaceInv' /\ CountInv' /\ KnownUnlessRewound'
  BY <1>1, SMT DEF PlayerInv, FileInv, PlaceInv, CountInv, Counts, KnownUnlessRewound
<1>5. RemoteInv'
  BY <1>1, SMT DEF PlayerInv, RemoteInv
<1>6. GoalInv'
  BY <1>1, <1>2, SMT DEF PlayerInv, GoalInv
<1>7. QED
  BY <1>1, <1>2, <1>3, <1>4, <1>5, <1>6, SMT DEF PlayerInv

LEMMA ListOverrunStep == PlayerInv /\ ListOverrun => PlayerInv'
<1> SUFFICES ASSUME PlayerInv, ListOverrun PROVE PlayerInv'
  OBVIOUS
<1>1. /\ Crash("list") /\ PastTheEnd /\ tables' = tables /\ remote_file' \in {None, remote_file}
      /\ UNCHANGED <<listVars, opt, sig, playbuf, frames_played, status, seek, at, paused>>
  BY Zenon DEF ListOverrun, main
<1>2. "list" \in Reasons
  BY SMT DEF Reasons
<1>3. CrashesKnown'
  <2>1. hist'.why = "list"
    BY <1>1, SMT DEF Crash, PlayerInv, HistType
  <2>2. Len(files) \in Nat
    BY ListSet, FilesLen, Typed, Zenon DEF PlayerInv
  <2>3. numfiles \in 1 .. 2 /\ random_play
    <3>1. PICK n \in Nat : n = numfiles
      BY <2>2, Zenon DEF numfiles
    <3>2. random_play /\ n > 0 /\ n <= (IF n = 2 THEN 2 ELSE (n + 1) \div 2)
      BY <1>1, <3>1, SMT DEF PastTheEnd, Eligible
    <3>3. n <= 2
      BY <3>2, SMT
    <3>4. QED
      BY <3>1, <3>2, <3>3, SMT
  <2>4. files' = files /\ random_play' = random_play
    BY <1>1, Zenon DEF listVars
  <2>5. QED
    BY <2>1, <2>3, <2>4, Zenon DEF CrashesKnown, numfiles
<1>4. QED
  BY <1>1, <1>2, <1>3, CrashStep, Zenon

LEMMA BackOverrunStep == PlayerInv /\ BackOverrun => PlayerInv'
<1> SUFFICES ASSUME PlayerInv, BackOverrun PROVE PlayerInv'
  OBVIOUS
<1>1. PICK n \in Jumps :
        /\ NeedsTime(RewoundTo(n)) /\ ~Known(RewoundTo(n))
        /\ Crash(IF playbuf.stream THEN "rewound stream" ELSE "rewound past estimate")
  BY Zenon DEF BackOverrun
<1>2. PICK why \in Reasons :
        why = IF playbuf.stream THEN "rewound stream" ELSE "rewound past estimate"
  BY SMT DEF Reasons
<1>3. /\ Crash(why) /\ pc = "frame" /\ tables' = tables /\ remote_file' \in {None, remote_file}
      /\ UNCHANGED <<listVars, opt, sig, playbuf, frames_played, status, seek, at, paused>>
  BY <1>1, <1>2, Zenon DEF BackOverrun, main
<1>4. hist'.why = why /\ playbuf' = playbuf
  BY <1>3, SMT DEF Crash, PlayerInv, HistType
<1>5. ~playbuf.stream => Estimate[playbuf.filename] < Real[playbuf.filename]
  <2> SUFFICES ASSUME ~playbuf.stream PROVE Estimate[playbuf.filename] < Real[playbuf.filename]
    OBVIOUS
  <2>1. /\ playbuf.filename \in Names /\ tables = "allocated"
        /\ playbuf.num_frames = Estimate[playbuf.filename]
        /\ at.current_frame <= Len(playbuf.times) \/ Len(playbuf.times) = playbuf.num_frames
    BY <1>3, SMT DEF PlayerInv, FileInv
  <2>2. at.current_frame <= at.pos /\ at.pos < Real[playbuf.filename]
    BY <1>3, SMT DEF PlayerInv, PlaceInv
  <2>3. /\ at.current_frame \in Nat /\ at.pos \in Nat /\ playbuf.times \in Seq(Nat)
        /\ playbuf.num_frames \in Nat /\ n \in Nat /\ n > 0
    BY Typed, Assumed, SMT DEF PlayerInv, AtType, FileType
  <2>4. Real[playbuf.filename] \in Nat
    BY <2>1, Assumed, Zenon
  <2>5. Len(playbuf.times) \in Nat /\ DOMAIN playbuf.times = 1 .. Len(playbuf.times)
    BY <2>3, LenProperties, Zenon
  <2>6. PICK r \in Nat : r = RewoundTo(n)
    BY <2>3, SMT DEF RewoundTo
  <2>7. r # 0 /\ r \notin DOMAIN playbuf.times
    BY <1>1, <2>1, <2>6, Zenon DEF NeedsTime, Known
  <2>8. r < at.current_frame
    BY <2>3, <2>6, <2>7, SMT DEF RewoundTo
  <2>9. r > Len(playbuf.times)
    BY <2>5, <2>7, SMT
  <2>10. QED
    BY <2>1, <2>2, <2>3, <2>4, <2>5, <2>8, <2>9, SMT
<1>6. CrashesKnown'
  BY <1>2, <1>4, <1>5, Zenon DEF CrashesKnown
<1>7. QED
  BY <1>3, <1>6, CrashStep, Zenon

LEMMA ForwardWaitingStep == PlayerInv /\ ForwardWaiting => PlayerInv'
<1> SUFFICES ASSUME PlayerInv, ForwardWaiting PROVE PlayerInv'
  OBVIOUS
<1>1. /\ opt' = opt /\ sig' = sig /\ tables' = tables /\ playbuf' = playbuf
      /\ frames_played' = frames_played /\ at' = at /\ paused' = paused /\ hist' = hist
      /\ remote_file' = remote_file /\ UNCHANGED listVars /\ files_size' = files_size
      /\ pc = "next" /\ pc' = "next" /\ remote_file = None
      /\ status = "PLAYING" /\ status' = "SEEKING"
  BY Zenon DEF ForwardWaiting, main, listVars
<1>2. seek' \in Int
  <2>1. PICK n \in Jumps : seek' = MoveSeek(n)
    BY Zenon DEF ForwardWaiting
  <2>2. n \in Int /\ playbuf.num_frames \in Int /\ at.current_frame \in Int
    BY Typed, Assumed, SMT DEF PlayerInv, FileType, AtType
  <2>3. QED
    BY <2>1, <2>2, SMT DEF MoveSeek
<1>3. TypeOK'
  <2>1. pc' \in Steps /\ status' \in Statuses
    BY <1>1, SMT DEF Steps, Statuses
  <2>2. ListTypeOK'
    BY <1>1, ListKept, Typed, Zenon DEF PlayerInv
  <2>3. QED
    BY <1>1, <1>2, <2>1, <2>2, Typed, TypedNext, Zenon DEF PlayerInv
<1>4. FileInv' /\ PlaceInv' /\ CountInv' /\ KnownUnlessRewound' /\ CrashesKnown'
  BY <1>1, SMT DEF PlayerInv, FileInv, PlaceInv, CountInv, Counts, KnownUnlessRewound, CrashesKnown
<1>5. RemoteInv' /\ paused.file = None
  BY <1>1, SMT DEF PlayerInv, RemoteInv
<1>6. GoalInv'
  <2>1. GivenUp'
    BY <1>1, <1>5, Zenon DEF GivenUp
  <2>2. QED
    BY <1>1, <2>1, SMT DEF PlayerInv, GoalInv
<1>7. QED
  BY <1>1, <1>3, <1>4, <1>5, <1>6, SMT DEF PlayerInv

-----------------------------------------------------------------------------
(* Opening a file.                                                         *)
LEMMA OpenedFields ==
  ASSUME opt \in OptType, NEW f \in Names
  PROVE  /\ Opened(f) \in FileType /\ Opened(f).filename = f
         /\ Opened(f).stream = (Kind[f] = "stream") /\ ~Opened(f).done
         /\ Opened(f).times = <<>>
         /\ Kind[f] = "local" => Opened(f).num_frames = Estimate[f]
         /\ Opened(f).max_frames # -1 => Opened(f).max_frames = opt.maxframes
<1>1. PICK no \in BOOLEAN : no = FALSE
  OBVIOUS
<1>2. PICK s \in BOOLEAN : s = (Kind[f] = "stream")
  OBVIOUS
<1>3. PICK n \in Nat : n = IF Kind[f] = "local" THEN Estimate[f] ELSE 0
  <2>1. Estimate[f] \in Nat /\ 0 \in Nat
    BY Assumed, SMT
  <2>2. QED
    BY <2>1, Zenon
<1>4. PICK m \in Limits \cup {-1} : m = IF Kind[f] = "local" THEN Limit(f) ELSE -1
  <2>1. opt.maxframes \in Limits
    BY SMT DEF OptType
  <2>2. QED
    BY <2>1, Zenon DEF Limit
<1>5. m # -1 => m = opt.maxframes
  BY <1>4, Zenon DEF Limit
<1>6. PICK a : a = [NoFile EXCEPT !.filename = f]
  OBVIOUS
<1>7. a \in FileType /\ a.filename = f /\ a.times = <<>> /\ a.done = no
  <2>1. NoFile.done = no
    BY <1>1, Zenon DEF NoFile
  <2>2. QED
    BY <1>6, <2>1, NoFileType, SMT DEF FileType
<1>8. PICK b : b = [a EXCEPT !.stream = s]
  OBVIOUS
<1>9. b \in FileType /\ b.filename = f /\ b.times = <<>> /\ b.done = no /\ b.stream = s
  BY <1>7, <1>8, SMT DEF FileType
<1>10. PICK c : c = [b EXCEPT !.num_frames = n]
  OBVIOUS
<1>11. /\ c \in FileType /\ c.filename = f /\ c.times = <<>> /\ c.done = no /\ c.stream = s
       /\ c.num_frames = n
  BY <1>9, <1>10, SMT DEF FileType
<1>12. PICK d : d = [c EXCEPT !.max_frames = m]
  OBVIOUS
<1>13. /\ d \in FileType /\ d.filename = f /\ d.times = <<>> /\ d.done = no /\ d.stream = s
       /\ d.num_frames = n /\ d.max_frames = m
  BY <1>11, <1>12, SMT DEF FileType
<1>14. Opened(f) = d
  BY <1>2, <1>3, <1>4, <1>6, <1>8, <1>10, <1>12, Zenon DEF Opened
<1>15. QED
  BY <1>1, <1>2, <1>3, <1>5, <1>13, <1>14, Zenon

LEMMA OpenFileStep ==
  ASSUME PlayerInv, pc = "next", NEW f \in Names, OpenFile(f),
         ListTypeOK', files_size' > 0, ~sig.quit_now, opt.remote => f = remote_file
  PROVE  PlayerInv'
<1>1. /\ opt \in OptType /\ sig \in SigType /\ frames_played \in Nat /\ seek \in Int
      /\ tables \in Tables /\ remote_file \in Names \cup {None} /\ hist \in HistType
  BY Typed, Zenon DEF PlayerInv
<1>2. /\ opt' = opt /\ status' = status /\ seek' = seek /\ paused' = paused
      /\ frames_played' = frames_played /\ playbuf' = Opened(f) /\ at' = Beginning
      /\ tables' = IF Kind[f] = "local" THEN "allocated" ELSE tables
  BY Zenon DEF OpenFile, Reset
<1>3. /\ playbuf' \in FileType /\ playbuf'.filename = f /\ playbuf'.times = <<>>
      /\ playbuf'.stream = (Kind[f] = "stream") /\ ~playbuf'.done
      /\ (Kind[f] = "local" => playbuf'.num_frames = Estimate[f])
      /\ (playbuf'.max_frames # -1 => playbuf'.max_frames = opt.maxframes)
  BY <1>1, <1>2, OpenedFields, Zenon
<1>4. at' \in AtType /\ at'.current_frame = 0 /\ at'.current_time = 0 /\ at'.pos = 0
  BY <1>2, SMT DEF Beginning, AtType
<1>5. /\ hist' \in HistType /\ hist'.rewound = FALSE /\ hist'.carried = frames_played
      /\ hist'.goal = hist.goal
  <2>1. PICK no \in BOOLEAN : no = FALSE
    OBVIOUS
  <2>2. PICK h : h = [hist EXCEPT !.rewound = no]
    OBVIOUS
  <2>3. h \in HistType /\ h.rewound = no /\ h.goal = hist.goal
    BY <1>1, <2>2, SMT DEF HistType
  <2>4. hist' = [h EXCEPT !.carried = frames_played]
    BY <2>1, <2>2, Zenon DEF OpenFile
  <2>5. /\ hist' \in HistType /\ hist'.rewound = no /\ hist'.carried = frames_played
        /\ hist'.goal = h.goal
    BY <1>1, <2>3, <2>4, SMT DEF HistType
  <2>6. QED
    BY <2>1, <2>3, <2>5, Zenon
<1>6. sig' \in SigType
  <2> DEFINE P == Kind[f] \in {"local", "stream"}
  <2>1. PICK b \in BOOLEAN : b = P
    <3>1. P \in BOOLEAN
      BY SMT
    <3> HIDE DEF P
    <3>2. QED
      BY <3>1, Zenon
  <2>2. sig' = [sig EXCEPT !.handled = b]
    BY <2>1, Zenon DEF OpenFile
  <2>3. QED
    BY <1>1, <2>2, SMT DEF SigType
<1>7. /\ pc' \in {"feed", "next", "exited"} /\ remote_file' \in {remote_file, None}
      /\ pc' = "feed" => Kind[f] \in {"local", "stream"} /\ remote_file' = remote_file
  BY SMT DEF OpenFile, Cleared
<1>8. paused.file = None
  BY <1>1, Assumed, Zenon DEF PlayerInv, RemoteInv
<1>9. TypeOK'
  <2>1. pc' \in Steps /\ tables' \in Tables
    BY <1>1, <1>2, <1>7, SMT DEF Steps, Tables
  <2>2. remote_file' \in Names \cup {None}
    BY <1>1, <1>7, Zenon
  <2>3. Len(playbuf'.times) <= playbuf'.num_frames
    <3>1. playbuf'.num_frames \in Nat /\ Len(playbuf'.times) = 0
      BY <1>3, SMT DEF FileType
    <3>2. QED
      BY <3>1, SMT
  <2>4. QED
    BY <1>1, <1>2, <1>3, <1>4, <1>6, <2>1, <2>2, <2>3, Typed, TypedNext, Zenon DEF PlayerInv
<1>10. FileInv'
  <2>1. at'.current_frame <= Len(playbuf'.times)
    BY <1>3, <1>4, SMT
  <2>2. pc' \notin {"frame", "stopped"}
    BY <1>7, SMT
  <2>3. pc' = "feed" /\ ~playbuf'.stream => Kind[f] = "local"
    BY <1>3, <1>7, Zenon
  <2>4. QED
    BY <1>2, <1>3, <2>1, <2>2, <2>3, SMT DEF FileInv
<1>11. PlaceInv'
  <2>1. 0 < Real[playbuf'.filename]
    BY <1>3, Assumed, Zenon
  <2>2. pc' \notin {"frame", "stopped"}
    BY <1>7, SMT
  <2>3. QED
    BY <1>3, <1>4, <2>1, <2>2, SMT DEF PlaceInv
<1>12. CountInv'
  <2>1. frames_played = frames_played + at'.pos
    BY <1>1, <1>4, SMT
  <2>2. QED
    BY <1>2, <1>3, <1>5, <2>1, Zenon DEF PlayerInv, CountInv, Counts
<1>13. KnownUnlessRewound' /\ CrashesKnown'
  <2>1. pc' # "frame" /\ pc' # "crashed"
    BY <1>7, SMT
  <2>2. QED
    BY <2>1, Zenon DEF KnownUnlessRewound, CrashesKnown
<1>14. RemoteInv'
  <2>1. pc' \notin {"frame", "stopped", "add", "shuffle"}
    BY <1>7, SMT
  <2>2. QED
    BY <1>2, <1>3, <1>7, <1>8, <2>1, SMT DEF RemoteInv
<1>15. GoalInv'
  <2> SUFFICES ASSUME hist'.goal # None PROVE GoalInv'
    BY Zenon DEF GoalInv
  <2>1. hist.goal # None /\ opt.remote /\ f = remote_file /\ remote_file # None
    BY <1>5, Assumed, Zenon DEF PlayerInv, GoalInv
  <2>2. hist.goal.file = f /\ status # "STOPPED" /\ hist.goal.pos = ToSkip
    BY <2>1, Zenon DEF PlayerInv, GoalInv, Loaded, OnHold, GivenUp
  <2>3. pc' = "next" => Loaded' \/ GivenUp'
    BY <1>2, <1>5, <1>7, <1>8, <2>1, <2>2, Zenon DEF Loaded, GivenUp, ToSkip
  <2>4. Rewinds' => ToSkip = 0
    BY <1>2, SMT DEF Rewinds, ToSkip
  <2>5. ToSkip' = ToSkip
    BY <1>2, Zenon DEF ToSkip
  <2>6. pc' \notin {"frame", "stopped"}
    BY <1>7, SMT
  <2>7. QED
    BY <1>2, <1>3, <1>4, <1>5, <2>1, <2>2, <2>3, <2>4, <2>5, <2>6, SMT DEF GoalInv
<1>16. QED
  BY <1>5, <1>9, <1>10, <1>11, <1>12, <1>13, <1>14, <1>15 DEF PlayerInv

LEMMA NextListedStep == PlayerInv /\ NextListed => PlayerInv'
<1> SUFFICES ASSUME PlayerInv, NextListed PROVE PlayerInv'
  OBVIOUS
<1>1. PICK f \in Names : /\ InOrder(f) \/ AtRandom(f)
                         /\ IF sig.quit_now THEN pc' = "exited" /\ Idle ELSE OpenFile(f)
  BY Zenon DEF NextListed
<1>2. pc = "next" /\ ~opt.remote
  BY Zenon DEF NextListed
<1>3. ListTypeOK' /\ files_size' > 0
  <2>1. ListTypeOK' /\ files_size' = files_size
    BY <1>1, ListInOrder, ListAtRandom, Typed, Zenon DEF PlayerInv
  <2>2. QED
    BY <2>1, Zenon DEF PlayerInv
<1>4. CASE sig.quit_now
  <2>1. pc' = "exited" /\ Idle
    BY <1>1, <1>4, Zenon
  <2>2. pc \in {"add", "shuffle", "next"} /\ pc' \in {"add", "shuffle", "next", "exited"}
        /\ pc' \notin {"add", "shuffle"}
    BY <1>2, <2>1, SMT
  <2>3. QED
    BY <1>3, <2>1, <2>2, IdleStep, Zenon
<1>5. CASE ~sig.quit_now
  <2>1. OpenFile(f)
    BY <1>1, <1>5, Zenon
  <2>2. QED
    BY <1>2, <1>3, <1>5, <2>1, OpenFileStep, Zenon
<1>6. QED
  BY <1>4, <1>5

LEMMA NextRemoteStep == PlayerInv /\ NextRemote => PlayerInv'
<1> SUFFICES ASSUME PlayerInv, NextRemote PROVE PlayerInv'
  OBVIOUS
<1>1. /\ pc = "next" /\ opt.remote /\ (remote_file # None \/ sig.quit_now) /\ UNCHANGED listVars
      /\ IF sig.quit_now THEN pc' = "exited" /\ Idle ELSE OpenFile(remote_file)
  BY Zenon DEF NextRemote
<1>2. ListTypeOK' /\ files_size' > 0
  BY <1>1, ListKept, Typed, Zenon DEF PlayerInv, listVars
<1>3. CASE sig.quit_now
  <2>1. pc' = "exited" /\ Idle
    BY <1>1, <1>3, Zenon
  <2>2. pc \in {"add", "shuffle", "next"} /\ pc' \in {"add", "shuffle", "next", "exited"}
        /\ pc' \notin {"add", "shuffle"}
    BY <1>1, <2>1, SMT
  <2>3. QED
    BY <1>2, <2>1, <2>2, IdleStep, Zenon
<1>4. CASE ~sig.quit_now
  <2>1. OpenFile(remote_file) /\ remote_file \in Names
    BY <1>1, <1>4, Typed, Zenon DEF PlayerInv
  <2>2. QED
    BY <1>1, <1>2, <1>4, <2>1, OpenFileStep, Zenon
<1>5. QED
  BY <1>3, <1>4

LEMMA BeforeStep ==
  ASSUME PlayerInv, AddFile \/ StartPlaying \/ Shuffle \/ EndOfList
  PROVE  PlayerInv'
<1>1. ListTypeOK /\ files_size > 0
  BY Typed, Zenon DEF PlayerInv
<1>2. CASE AddFile
  <2>1. ListTypeOK' /\ files_size' > 0
    BY <1>1, <1>2, ListAdd, Zenon DEF AddFile
  <2>2. pc = "add" /\ pc' = "add" /\ Idle
    BY <1>2, Zenon DEF AddFile
  <2>3. pc \in {"add", "shuffle", "next"} /\ pc' \in {"add", "shuffle", "next", "exited"}
        /\ pc \in {"add", "shuffle"}
    BY <2>2, SMT
  <2>4. QED
    BY <2>1, <2>2, <2>3, IdleStep, Zenon
<1>3. CASE StartPlaying
  <2>1. ListTypeOK' /\ files_size' > 0
    BY <1>1, <1>3, ListKept, Zenon DEF StartPlaying, listVars
  <2>2. Idle /\ pc = "add" /\ pc' \in {"shuffle", "next", "exited"}
    BY <1>3, SMT DEF StartPlaying
  <2>3. pc \in {"add", "shuffle", "next"} /\ pc' \in {"add", "shuffle", "next", "exited"}
        /\ pc \in {"add", "shuffle"}
    BY <2>2, SMT
  <2>4. QED
    BY <2>1, <2>2, <2>3, IdleStep, Zenon
<1>4. CASE Shuffle
  <2>1. ListTypeOK' /\ files_size' > 0
    <3>1. ListTypeOK' /\ files_size' = files_size
      BY <1>1, <1>4, ListShuffle, Zenon DEF Shuffle, shuffle_files
    <3>2. QED
      BY <1>1, <3>1, Zenon
  <2>2. Idle /\ pc = "shuffle" /\ pc' \in {"shuffle", "next"}
    BY <1>4, SMT DEF Shuffle
  <2>3. pc \in {"add", "shuffle", "next"} /\ pc' \in {"add", "shuffle", "next", "exited"}
        /\ pc \in {"add", "shuffle"}
    BY <2>2, SMT
  <2>4. QED
    BY <2>1, <2>2, <2>3, IdleStep, Zenon
<1>5. CASE EndOfList
  <2>1. ListTypeOK' /\ files_size' > 0
    <3>1. ListTypeOK' /\ files_size' = files_size
      BY <1>1, <1>5, ListNoMore, Zenon DEF EndOfList
    <3>2. QED
      BY <1>1, <3>1, Zenon
  <2>2. Idle /\ pc = "next" /\ pc' = "exited"
    BY <1>5, Zenon DEF EndOfList
  <2>3. pc \in {"add", "shuffle", "next"} /\ pc' \in {"add", "shuffle", "next", "exited"}
        /\ pc' \notin {"add", "shuffle"}
    BY <2>2, SMT
  <2>4. QED
    BY <2>1, <2>2, <2>3, IdleStep, Zenon
<1>6. QED
  BY <1>2, <1>3, <1>4, <1>5

-----------------------------------------------------------------------------
(* The decoder: what ends it, and what it reads.                           *)
LEMMA StoppedStep ==
  ASSUME PlayerInv, pc \in {"feed", "frame"}, status' = "STOPPED", pc' = "stopped", Heard(None),
         sig' \in SigType, frames_played' \in Nat, frames_played' <= opt.maxframes + 1,
         UNCHANGED <<listVars, opt, seek, at, playbuf, tables, remote_file, paused>>
  PROVE  PlayerInv'
<1>1. /\ opt' = opt /\ seek' = seek /\ at' = at /\ playbuf' = playbuf /\ tables' = tables
      /\ remote_file' = remote_file /\ paused' = paused /\ UNCHANGED listVars
      /\ files_size' = files_size
  BY Zenon DEF listVars
<1>2. hist' \in HistType /\ hist'.goal = None
  BY HeardType, Zenon DEF PlayerInv, GoalType
<1>3. ~Rewinds'
  BY SMT DEF Rewinds
<1>4. TypeOK'
  <2>1. pc' \in Steps /\ status' \in Statuses
    BY SMT DEF Steps, Statuses
  <2>2. ListTypeOK'
    BY <1>1, ListKept, Typed, Zenon DEF PlayerInv
  <2>3. QED
    BY <1>1, <2>1, <2>2, Typed, TypedNext, Zenon DEF PlayerInv
<1>5. FileInv' /\ PlaceInv' /\ CountInv' /\ KnownUnlessRewound' /\ CrashesKnown'
  <2>1. FileInv'
    BY <1>1, SMT DEF PlayerInv, FileInv
  <2>2. PlaceInv' /\ KnownUnlessRewound' /\ CrashesKnown'
    BY <1>3, SMT DEF PlaceInv, KnownUnlessRewound, CrashesKnown
  <2>3. CountInv'
    BY <1>1, SMT DEF PlayerInv, CountInv, Counts
  <2>4. QED
    BY <2>1, <2>2, <2>3
<1>6. RemoteInv'
  BY <1>1, <1>3, SMT DEF PlayerInv, RemoteInv
<1>7. GoalInv'
  BY <1>2, Zenon DEF GoalInv
<1>8. QED
  BY <1>1, <1>2, <1>4, <1>5, <1>6, <1>7, SMT DEF PlayerInv

LEMMA PlayedEnough == PlayerInv => /\ frames_played \in Nat /\ frames_played <= opt.maxframes + 1
                                   /\ 0 <= opt.maxframes + 1 /\ sig \in SigType
<1>1. PlayerInv => opt \in OptType /\ frames_played \in Nat /\ sig \in SigType
  BY Typed, Zenon DEF PlayerInv
<1>2. opt \in OptType => opt.maxframes + 1 >= 0
  BY Assumed, SMT DEF OptType
<1>3. QED
  BY <1>1, <1>2, SMT DEF PlayerInv, CountInv

LEMMA NoMoreDataStep == PlayerInv /\ NoMoreData => PlayerInv'
<1> SUFFICES ASSUME PlayerInv, NoMoreData PROVE PlayerInv'
  OBVIOUS
<1>1. /\ pc \in {"feed", "frame"} /\ status' = "STOPPED" /\ pc' = "stopped" /\ Heard(None)
      /\ sig' = sig /\ frames_played' = frames_played
      /\ UNCHANGED <<listVars, opt, seek, at, playbuf, tables, remote_file, paused>>
  BY Zenon DEF NoMoreData, Decoding
<1>2. QED
  BY <1>1, PlayedEnough, StoppedStep, Zenon

LEMMA HeaderStoppedStep == PlayerInv /\ HeaderStopped => PlayerInv'
<1> SUFFICES ASSUME PlayerInv, HeaderStopped PROVE PlayerInv'
  OBVIOUS
<1>1. /\ pc \in {"feed", "frame"} /\ status' = "STOPPED" /\ pc' = "stopped" /\ Heard(None)
      /\ frames_played' = frames_played
      /\ UNCHANGED <<listVars, opt, seek, at, playbuf, tables, remote_file, paused>>
  BY Zenon DEF HeaderStopped, Decoding
<1>2. sig' \in SigType
  <2>1. PICK no \in BOOLEAN : no = FALSE
    OBVIOUS
  <2>2. sig' = [sig EXCEPT !.stop_playing_file = no] /\ sig \in SigType
    BY <2>1, PlayedEnough, Zenon DEF HeaderStopped
  <2>3. QED
    BY <2>2, SMT DEF SigType
<1>3. QED
  BY <1>1, <1>2, PlayedEnough, StoppedStep, Zenon

LEMMA LimitStep ==
  ASSUME PlayerInv, pc = "frame", LimitHit, UNCHANGED <<playbuf, sig, tables>>, Decoding
  PROVE  PlayerInv'
<1>1. /\ pc \in {"feed", "frame"} /\ status' = "STOPPED" /\ pc' = "stopped" /\ Heard(None)
      /\ frames_played' = 0 /\ sig' = sig
      /\ UNCHANGED <<listVars, opt, seek, at, playbuf, tables, remote_file, paused>>
  BY Zenon DEF LimitHit, Decoding
<1>2. frames_played' \in Nat /\ frames_played' <= opt.maxframes + 1 /\ sig' \in SigType
  BY <1>1, PlayedEnough, SMT
<1>3. QED
  BY <1>1, <1>2, StoppedStep, Zenon

\* the table of times has no gap, and has the current frame unless it is full
LEMMA TimesLengthen ==
  ASSUME playbuf \in FileType, at \in AtType, Len(playbuf.times) <= playbuf.num_frames,
         at.current_frame <= Len(playbuf.times) \/ Len(playbuf.times) = playbuf.num_frames
  PROVE  /\ Times \in Seq(Nat) /\ Len(Times) <= playbuf.num_frames
         /\ at.current_frame + 1 <= Len(Times) \/ Len(Times) = playbuf.num_frames
<1>1. PICK s \in Seq(Nat), m \in Nat, k \in Nat, t \in Nat :
        /\ s = playbuf.times /\ m = playbuf.num_frames /\ k = at.current_frame + 1
        /\ t = at.current_time + 1
  BY SMT DEF FileType, AtType
<1>2. PICK n \in Nat : n = Len(s) /\ DOMAIN s = 1 .. n /\ \A j \in 1 .. n : s[j] \in Nat
  BY FilesLen, Zenon
<1>3. n <= m /\ (k <= n + 1 \/ n = m) /\ k > 0
  BY <1>1, <1>2, SMT DEF AtType
<1>4. CASE ~(k <= m)
  <2>1. Times = s
    BY <1>1, <1>4, Zenon DEF Times
  <2>2. QED
    BY <1>1, <1>2, <1>3, <1>4, <2>1, SMT
<1>5. CASE k <= m
  <2>1. Times = [j \in DOMAIN s \cup {k} |-> IF j = k THEN t ELSE s[j]]
    BY <1>1, <1>5, Zenon DEF Times
  <2>2. PICK l \in Nat : l = IF k <= n THEN n ELSE k
    OBVIOUS
  <2>3. DOMAIN s \cup {k} = 1 .. l /\ l <= m /\ k <= l
    BY <1>2, <1>3, <1>5, <2>2, SMT
  <2>4. \A j \in 1 .. l : (IF j = k THEN t ELSE s[j]) \in Nat
    <3> SUFFICES ASSUME NEW j \in 1 .. l PROVE (IF j = k THEN t ELSE s[j]) \in Nat
      OBVIOUS
    <3>1. j # k => j \in 1 .. n
      BY <1>2, <1>3, <1>5, <2>2, SMT
    <3>2. QED
      BY <1>2, <3>1, Zenon
  <2>5. PICK z : z = [j \in 1 .. l |-> IF j = k THEN t ELSE s[j]]
    OBVIOUS
  <2>6. z \in Seq(Nat) /\ Len(z) = l
    BY <2>4, <2>5, SMT
  <2>7. Times = z
    BY <2>1, <2>3, <2>5, Zenon
  <2>8. QED
    BY <1>1, <2>3, <2>6, <2>7, Zenon
<1>6. QED
  BY <1>4, <1>5

LEMMA PassFrameStep ==
  ASSUME PlayerInv, pc = "frame", NEW st, NEW sk \in Int, NEW g \in GoalType,
         PassFrame(st, sk, g), UNCHANGED <<sig, tables>>, Decoding,
         st = "SEEKING" /\ g # None =>
           opt.remote /\ g.file = playbuf.filename /\ g.pos = at.pos + sk
  PROVE  PlayerInv'
<1>1. /\ opt' = opt /\ sig' = sig /\ tables' = tables /\ remote_file' = remote_file
      /\ paused' = paused /\ UNCHANGED listVars /\ files_size' = files_size
  BY Zenon DEF Decoding, listVars
<1>2. /\ opt \in OptType /\ at \in AtType /\ playbuf \in FileType /\ frames_played \in Nat
      /\ Len(playbuf.times) <= playbuf.num_frames /\ hist \in HistType
  BY Typed, Zenon DEF PlayerInv
<1>3. /\ playbuf.filename \in Names
      /\ (~playbuf.stream =>
            tables = "allocated" /\ playbuf.num_frames = Estimate[playbuf.filename])
      /\ at.current_frame <= Len(playbuf.times) \/ Len(playbuf.times) = playbuf.num_frames
  BY SMT DEF PlayerInv, FileInv
<1>4. /\ at.current_frame <= at.pos /\ at.pos < Real[playbuf.filename]
      /\ playbuf.stream \/ playbuf.done
  BY SMT DEF PlayerInv, PlaceInv
<1>5. paused.file = None /\ (opt.remote => remote_file = playbuf.filename)
  BY SMT DEF PlayerInv, RemoteInv
<1>6. /\ at' \in AtType /\ at'.current_frame = at.current_frame + 1
      /\ at'.current_time = at.current_time + 1 /\ at'.pos = at.pos + 1
  BY <1>2, SMT DEF PassFrame, AtType
<1>7. PICK end \in BOOLEAN : end = (at.pos + 1 = Real[playbuf.filename])
  OBVIOUS
<1>8. pc' = (IF end THEN "feed" ELSE "frame")
  BY <1>7, Zenon DEF PassFrame
<1>9. PICK skipped \in BOOLEAN : skipped = (st = "SEEKING" /\ sk # 0)
  OBVIOUS
<1>10. /\ seek' = IF skipped THEN sk - 1 ELSE sk
       /\ status' = IF skipped /\ sk # 1 THEN st ELSE "PLAYING"
       /\ hist' = [hist EXCEPT !.goal = IF skipped THEN g ELSE None]
  BY <1>9, Zenon DEF PassFrame
<1>11. seek' \in Int /\ status' \in {"PLAYING", "SEEKING"} /\ ~Rewinds'
  <2>1. CASE skipped
    <3>1. st = "SEEKING"
      BY <1>9, <2>1, Zenon
    <3>2. QED
      BY <1>10, <2>1, <3>1, SMT DEF Rewinds
  <2>2. CASE ~skipped
    BY <1>10, <2>2, SMT DEF Rewinds
  <2>3. QED
    BY <2>1, <2>2
<1>12. /\ hist' \in HistType /\ hist'.goal = (IF skipped THEN g ELSE None)
       /\ hist'.rewound = hist.rewound /\ hist'.carried = hist.carried
  <2>1. PICK h \in GoalType : h = IF skipped THEN g ELSE None
    BY Zenon DEF GoalType
  <2>2. hist' = [hist EXCEPT !.goal = h]
    BY <1>10, <2>1, Zenon
  <2>3. QED
    BY <1>2, <2>1, <2>2, SMT DEF HistType
<1>13. PICK t \in Seq(Nat) : /\ t = Times /\ Len(t) <= playbuf.num_frames
                             /\ at'.current_frame <= Len(t) \/ Len(t) = playbuf.num_frames
  BY <1>2, <1>3, <1>6, TimesLengthen, Zenon
<1>14. /\ playbuf' \in FileType /\ playbuf'.times = t /\ playbuf'.filename = playbuf.filename
       /\ playbuf'.stream = playbuf.stream /\ playbuf'.num_frames = playbuf.num_frames
       /\ playbuf'.max_frames = playbuf.max_frames /\ playbuf'.done = (playbuf.done \/ end)
  <2>1. PICK d \in BOOLEAN : d = (playbuf.done \/ end)
    OBVIOUS
  <2>2. PICK p : p = [playbuf EXCEPT !.times = t]
    OBVIOUS
  <2>3. /\ p \in FileType /\ p.times = t /\ p.filename = playbuf.filename /\ p.done = playbuf.done
        /\ p.stream = playbuf.stream /\ p.num_frames = playbuf.num_frames
        /\ p.max_frames = playbuf.max_frames
    <3>1. playbuf \in FileType /\ t \in Seq(Nat)
      BY <1>2, <1>13
    <3>2. p \in FileType
      BY <2>2, <3>1, Zenon DEF FileType
    <3>5. p.times = t
      BY <2>2, <3>1, SMT DEF FileType
    <3>3. /\ p.filename = playbuf.filename /\ p.done = playbuf.done
          /\ p.stream = playbuf.stream /\ p.num_frames = playbuf.num_frames
          /\ p.max_frames = playbuf.max_frames
      BY <2>2, <3>1, SMT DEF FileType
    <3>4. QED
      BY <3>2, <3>3, <3>5
  <2>4. playbuf' = [p EXCEPT !.done = d]
    BY <1>7, <1>13, <2>1, <2>2, Zenon DEF PassFrame
  <2>5. /\ playbuf' \in FileType /\ playbuf'.times = p.times /\ playbuf'.filename = p.filename
        /\ playbuf'.stream = p.stream /\ playbuf'.num_frames = p.num_frames
        /\ playbuf'.max_frames = p.max_frames /\ playbuf'.done = d
    BY <2>3, <2>4, SMT DEF FileType
  <2>6. QED
    BY <2>1, <2>3, <2>5, Zenon
<1>15. /\ frames_played' \in Nat /\ frames_played' <= opt.maxframes + 1
       /\ (Counts => frames_played' = frames_played + 1)
  <2>1. Counts => playbuf.max_frames = opt.maxframes
    BY Zenon DEF PlayerInv, CountInv
  <2>2. /\ frames_played' = IF Counts THEN frames_played + 1 ELSE frames_played
        /\ Counts => ~(frames_played > playbuf.max_frames)
    BY Zenon DEF PassFrame, OverLimit
  <2>3. opt.maxframes \in Int
    BY <1>2, Assumed, SMT DEF OptType
  <2>4. QED
    BY <1>2, <2>1, <2>2, <2>3, PlayedEnough, SMT
<1>16. TypeOK'
  <2>1. pc' \in Steps /\ status' \in Statuses
    BY <1>8, <1>11, SMT DEF Steps, Statuses
  <2>2. ListTypeOK'
    BY <1>1, ListKept, Typed, Zenon DEF PlayerInv
  <2>3. Len(playbuf'.times) <= playbuf'.num_frames
    BY <1>13, <1>14, Zenon
  <2>4. QED
    BY <1>1, <1>6, <1>11, <1>14, <1>15, <2>1, <2>2, <2>3, Typed, TypedNext, Zenon DEF PlayerInv
<1>17. FileInv'
  BY <1>1, <1>3, <1>13, <1>14, Zenon DEF FileInv
<1>18. PlaceInv'
  <2>1. ASSUME pc' = "frame"
        PROVE  /\ at'.current_frame <= at'.pos /\ at'.pos < Real[playbuf'.filename]
               /\ playbuf'.stream \/ (playbuf'.done /\ status' \in {"PLAYING", "SEEKING"})
    <3>1. ~end
      BY <1>8, <2>1, SMT
    <3>2. Real[playbuf.filename] \in Nat /\ at.pos + 1 # Real[playbuf.filename]
      BY <1>3, <1>7, <3>1, Assumed, Zenon
    <3>3. at'.current_frame <= at'.pos /\ at'.pos < Real[playbuf'.filename]
      BY <1>2, <1>4, <1>6, <1>14, <3>2, SMT DEF AtType
    <3>4. QED
      BY <1>4, <1>11, <1>14, <3>3, Zenon
  <2>2. pc' = "feed" => playbuf'.done
    BY <1>8, <1>14, SMT
  <2>3. pc' # "stopped"
    BY <1>8, SMT
  <2>4. QED
    BY <1>11, <2>1, <2>2, <2>3, Zenon DEF PlaceInv
<1>19. CountInv'
  <2>1. ~hist.rewound /\ Counts => frames_played = hist.carried + at.pos
    BY SMT DEF PlayerInv, CountInv
  <2>2. Counts' <=> Counts
    BY <1>14, Zenon DEF Counts
  <2>3. Counts => playbuf'.max_frames = opt'.maxframes
    BY <1>1, <1>14, Zenon DEF PlayerInv, CountInv
  <2>4. hist.carried \in Nat
    BY <1>2, SMT DEF HistType
  <2>5. ASSUME ~hist'.rewound, Counts PROVE frames_played' = hist'.carried + at'.pos
    <3>1. frames_played = hist.carried + at.pos /\ frames_played' = frames_played + 1
      BY <1>12, <1>15, <2>1, <2>5, Zenon
    <3>2. at.pos \in Nat /\ at'.pos = at.pos + 1 /\ hist'.carried = hist.carried
      BY <1>2, <1>6, <1>12, SMT DEF AtType
    <3>3. QED
      BY <2>4, <3>1, <3>2, SMT
  <2>6. QED
    BY <1>1, <1>15, <2>2, <2>3, <2>5, Zenon DEF CountInv
<1>20. KnownUnlessRewound' /\ CrashesKnown'
  <2>1. ~hist.rewound => at.current_frame = at.pos /\ at.current_time = at.pos
    BY Zenon DEF PlayerInv, KnownUnlessRewound
  <2>2. pc' # "crashed"
    BY <1>8, SMT
  <2>3. QED
    BY <1>6, <1>12, <2>1, <2>2, Zenon DEF KnownUnlessRewound, CrashesKnown
<1>21. RemoteInv'
  <2>1. pc' \in {"feed", "frame"}
    BY <1>8, SMT
  <2>2. QED
    BY <1>1, <1>5, <1>14, <2>1, SMT DEF RemoteInv
<1>22. GoalInv'
  <2> SUFFICES ASSUME hist'.goal # None PROVE GoalInv'
    BY Zenon DEF GoalInv
  <2>1. skipped /\ hist'.goal = g /\ g # None
    BY <1>12, Zenon
  <2>2. st = "SEEKING" /\ sk # 0
    BY <1>9, <2>1, Zenon
  <2>3. opt.remote /\ g.file = playbuf.filename /\ g.pos = at.pos + sk
    BY <2>1, <2>2, Zenon
  <2>4. ToSkip' = sk - 1
    BY <1>10, <2>1, <2>2, SMT DEF ToSkip
  <2>5. hist'.goal.pos = at'.pos + ToSkip'
    BY <1>2, <1>6, <2>1, <2>3, <2>4, SMT DEF AtType
  <2>6. pc' = "frame" \/ (pc' = "feed" /\ playbuf'.done)
    BY <1>8, <1>14, Zenon
  <2>7. QED
    BY <1>1, <1>11, <1>14, <2>1, <2>3, <2>5, <2>6, SMT DEF GoalInv
<1>23. QED
  BY <1>1, <1>12, <1>16, <1>17, <1>18, <1>19, <1>20, <1>21, <1>22, SMT DEF PlayerInv

-----------------------------------------------------------------------------
(* libmad's callbacks one by one.                                          *)
LEMMA ReadMmapStep == PlayerInv /\ read_from_mmap => PlayerInv'
<1> SUFFICES ASSUME PlayerInv, read_from_mmap PROVE PlayerInv'
  OBVIOUS
<1>1. /\ opt' = opt /\ sig' = sig /\ tables' = tables /\ remote_file' = remote_file /\ hist' = hist
      /\ frames_played' = frames_played /\ paused' = paused /\ UNCHANGED listVars
      /\ files_size' = files_size /\ pc = "feed" /\ pc' = "frame" /\ ~playbuf.stream
      /\ (status = "REWINDING" \/ ~playbuf.done)
  BY Zenon DEF read_from_mmap, Decoding, listVars
<1>2. /\ opt \in OptType /\ at \in AtType /\ playbuf \in FileType /\ hist \in HistType
      /\ frames_played \in Nat /\ seek \in Int
  BY Typed, Zenon DEF PlayerInv
<1>3. /\ playbuf' \in FileType /\ playbuf'.filename = playbuf.filename /\ playbuf'.done
      /\ playbuf'.stream = playbuf.stream /\ playbuf'.num_frames = playbuf.num_frames
      /\ playbuf'.max_frames = playbuf.max_frames /\ playbuf'.times = playbuf.times
  <2>1. PICK yes \in BOOLEAN : yes = TRUE
    OBVIOUS
  <2>2. playbuf' = [playbuf EXCEPT !.done = yes]
    BY <2>1, Zenon DEF read_from_mmap
  <2>3. /\ playbuf' \in FileType /\ playbuf'.filename = playbuf.filename /\ playbuf'.done = yes
        /\ playbuf'.stream = playbuf.stream /\ playbuf'.num_frames = playbuf.num_frames
        /\ playbuf'.max_frames = playbuf.max_frames /\ playbuf'.times = playbuf.times
    BY <1>2, <2>2, SMT DEF FileType
  <2>4. QED
    BY <2>1, <2>3, Zenon
<1> DEFINE n == IF status = "REWINDING" THEN at.current_frame ELSE 0
<1>4. /\ at' = [current_frame |-> 0, current_time |-> at.current_time, pos |-> n]
      /\ IF status = "REWINDING" THEN status' = "PLAYING" /\ seek' = 0
         ELSE status' = (IF status = "SEEKING" THEN status ELSE "PLAYING") /\ seek' = seek
  BY SMT DEF read_from_mmap, Restarted
<1>5. /\ status' \in {"PLAYING", "SEEKING"} /\ seek' \in Int
      /\ ToSkip' = IF status = "REWINDING" THEN 0 ELSE ToSkip
  BY <1>2, <1>4, SMT DEF ToSkip
<1>6. /\ playbuf.filename \in Names /\ tables = "allocated"
      /\ playbuf.num_frames = Estimate[playbuf.filename]
  BY <1>1, SMT DEF PlayerInv, FileInv
<1>7. /\ status = "REWINDING" => at.current_frame < Real[playbuf.filename]
      /\ ~playbuf.done => at.current_frame = 0 /\ at.current_time = 0 /\ at.pos = 0
      /\ playbuf.done => hist.rewound
  BY <1>1, SMT DEF PlayerInv, PlaceInv, Rewinds
<1>8. /\ n \in Nat /\ n < Real[playbuf.filename] /\ (~hist.rewound => n = 0)
  BY <1>2, <1>6, <1>7, Assumed, SMT DEF AtType
<1> HIDE DEF n
<1>9. at' \in AtType /\ at'.current_frame = 0 /\ at'.current_time = at.current_time /\ at'.pos = n
  BY <1>2, <1>4, <1>8, SMT DEF AtType
<1>10. TypeOK'
  <2>1. pc' \in Steps /\ status' \in Statuses
    BY <1>1, <1>5, SMT DEF Steps, Statuses
  <2>2. ListTypeOK' /\ Len(playbuf'.times) <= playbuf'.num_frames
    BY <1>1, <1>3, ListKept, Typed, Zenon DEF PlayerInv
  <2>3. QED
    BY <1>1, <1>3, <1>5, <1>9, <2>1, <2>2, Typed, TypedNext, Zenon DEF PlayerInv
<1>11. FileInv'
  <2>1. Len(playbuf.times) \in Nat
    BY <1>2, LenProperties, SMT DEF FileType
  <2>2. at'.current_frame <= Len(playbuf'.times)
    BY <1>3, <1>9, <2>1, SMT
  <2>3. QED
    BY <1>1, <1>3, <1>6, <2>2, Zenon DEF FileInv
<1>12. PlaceInv'
  <2>1. at'.current_frame <= at'.pos
    BY <1>8, <1>9, SMT
  <2>2. pc' # "feed" /\ pc' # "stopped"
    BY <1>1, SMT
  <2>3. QED
    BY <1>3, <1>5, <1>8, <1>9, <2>1, <2>2, Zenon DEF PlaceInv
<1>13. CountInv'
  <2>1. frames_played <= opt.maxframes + 1 /\ (Counts => playbuf.max_frames = opt.maxframes)
    BY Zenon DEF PlayerInv, CountInv
  <2>2. ASSUME ~hist.rewound, Counts PROVE frames_played = hist.carried + n
    <3>1. frames_played = hist.carried + at.pos
      BY <1>1, <2>2, SMT DEF PlayerInv, CountInv
    <3>2. QED
      BY <1>7, <1>8, <2>2, <3>1, Zenon
  <2>3. QED
    BY <1>1, <1>3, <1>9, <2>1, <2>2, Zenon DEF CountInv, Counts
<1>14. KnownUnlessRewound' /\ CrashesKnown'
  <2>1. pc' # "crashed"
    BY <1>1, SMT
  <2>2. ~hist.rewound => at.current_time = 0 /\ n = 0
    BY <1>7, <1>8, Zenon
  <2>3. QED
    BY <1>1, <1>9, <2>1, <2>2, Zenon DEF KnownUnlessRewound, CrashesKnown
<1>15. RemoteInv'
  <2>1. paused.file = None /\ (opt.remote => remote_file = playbuf.filename)
    BY <1>1, SMT DEF PlayerInv, RemoteInv
  <2>2. pc' # "add" /\ pc' # "shuffle"
    BY <1>1, SMT
  <2>3. QED
    BY <1>1, <1>3, <2>1, <2>2, SMT DEF RemoteInv
<1>16. GoalInv'
  <2> SUFFICES ASSUME hist.goal # None PROVE GoalInv'
    BY <1>1, Zenon DEF GoalInv
  <2>1. /\ opt.remote /\ hist.goal.file = playbuf.filename
        /\ status = "REWINDING" => hist.goal.pos = at.current_frame
        /\ status # "REWINDING" => hist.goal.pos = ToSkip
    BY <1>1, SMT DEF PlayerInv, GoalInv, Rewinds
  <2>2. hist.goal.pos \in Int /\ ToSkip \in Int
    BY <1>2, GoalFields, SMT DEF ToSkip
  <2>3. hist.goal.pos = n + ToSkip'
    BY <1>2, <1>5, <2>1, <2>2, SMT DEF n, AtType
  <2>4. QED
    BY <1>1, <1>3, <1>9, <2>1, <2>3, SMT DEF GoalInv
<1>17. QED
  BY <1>1, <1>2, <1>10, <1>11, <1>12, <1>13, <1>14, <1>15, <1>16, Zenon DEF PlayerInv

LEMMA ReadFdStep == PlayerInv /\ read_from_fd => PlayerInv'
<1> SUFFICES ASSUME PlayerInv, read_from_fd PROVE PlayerInv'
  OBVIOUS
<1>1. /\ opt' = opt /\ sig' = sig /\ tables' = tables /\ remote_file' = remote_file /\ hist' = hist
      /\ frames_played' = frames_played /\ paused' = paused /\ UNCHANGED listVars
      /\ status' = status /\ seek' = seek /\ at' = at /\ playbuf' = playbuf
      /\ files_size' = files_size /\ pc = "feed" /\ pc' = "frame" /\ playbuf.stream /\ ~playbuf.done
  BY Zenon DEF read_from_fd, Decoding, listVars
<1>2. at.current_frame = 0 /\ at.current_time = 0 /\ at.pos = 0 /\ ~Rewinds
  BY <1>1, SMT DEF PlayerInv, PlaceInv, Rewinds
<1>3. TypeOK'
  <2>1. pc' \in Steps
    BY <1>1, SMT DEF Steps
  <2>2. ListTypeOK'
    BY <1>1, ListKept, Typed, Zenon DEF PlayerInv
  <2>3. QED
    BY <1>1, <2>1, <2>2, Typed, TypedNext, Zenon DEF PlayerInv
<1>4. FileInv' /\ CountInv'
  BY <1>1, SMT DEF PlayerInv, FileInv, CountInv, Counts
<1>5. PlaceInv' /\ KnownUnlessRewound' /\ CrashesKnown'
  <2>1. 0 < Real[playbuf.filename]
    BY <1>1, Assumed, SMT DEF PlayerInv, FileInv
  <2>2. QED
    BY <1>1, <1>2, <2>1, SMT DEF PlaceInv, KnownUnlessRewound, CrashesKnown
<1>6. RemoteInv'
  BY <1>1, SMT DEF PlayerInv, RemoteInv
<1>7. GoalInv'
  <2> SUFFICES ASSUME hist.goal # None PROVE GoalInv'
    BY <1>1, Zenon DEF GoalInv
  <2>1. opt.remote /\ hist.goal.file = playbuf.filename /\ hist.goal.pos = ToSkip
    BY <1>1, <1>2, SMT DEF PlayerInv, GoalInv
  <2>2. ToSkip' = ToSkip
    BY <1>1, Zenon DEF ToSkip
  <2>3. ToSkip \in Int
    BY Typed, SMT DEF PlayerInv, ToSkip
  <2>4. hist'.goal.pos = at'.pos + ToSkip'
    BY <1>1, <1>2, <2>1, <2>2, <2>3, SMT
  <2>5. QED
    BY <1>1, <2>1, <2>4, SMT DEF GoalInv
<1>8. QED
  BY <1>1, <1>3, <1>4, <1>5, <1>6, <1>7, SMT DEF PlayerInv

LEMMA GoalAtFrame ==
  ASSUME PlayerInv, pc = "frame", hist.goal # None
  PROVE  /\ opt.remote /\ hist.goal.file = playbuf.filename /\ hist.goal.pos = at.pos + ToSkip
         /\ hist.goal \in Goals
<1>1. opt.remote /\ hist.goal.file = playbuf.filename /\ hist.goal.pos = at.pos + ToSkip
  BY SMT DEF PlayerInv, GoalInv
<1>2. hist.goal \in GoalType
  BY SMT DEF PlayerInv, HistType
<1>3. QED
  BY <1>1, <1>2, Zenon DEF GoalType

LEMMA ReadHeaderStep == PlayerInv /\ read_header => PlayerInv'
<1> SUFFICES ASSUME PlayerInv, read_header PROVE PlayerInv'
  OBVIOUS
<1>1. pc = "frame" /\ UNCHANGED <<sig, tables>> /\ Decoding
  BY Zenon DEF read_header
<1>2. CASE LimitHit /\ UNCHANGED playbuf
  <2>1. UNCHANGED <<playbuf, sig, tables>>
    BY <1>1, <1>2, Zenon
  <2>2. QED
    BY <1>1, <1>2, <2>1, LimitStep, Zenon
<1>3. CASE PassFrame(status, seek, hist.goal)
  <2>1. seek \in Int
    BY Typed, Zenon DEF PlayerInv
  <2>2. hist.goal \in GoalType
    BY SMT DEF PlayerInv, HistType
  <2>3. status = "SEEKING" /\ hist.goal # None =>
          opt.remote /\ hist.goal.file = playbuf.filename /\ hist.goal.pos = at.pos + seek
    BY <1>1, GoalAtFrame, Zenon DEF ToSkip
  <2>4. QED
    BY <1>1, <1>3, <2>1, <2>2, <2>3, PassFrameStep, Zenon
<1>4. QED
  BY <1>2, <1>3, Zenon DEF read_header

LEMMA ForwardFields ==
  ASSUME PlayerInv, HeaderForward
  PROVE  /\ pc = "frame" /\ UNCHANGED <<sig, tables>> /\ Decoding /\ opt.remote
         /\ status = "PLAYING"
         /\ \E sk \in Int, g \in GoalType :
              /\ PassFrame("SEEKING", sk, g)
              /\ g # None => g.file = playbuf.filename /\ g.pos = at.pos + sk
<1>1. pc = "frame" /\ UNCHANGED <<sig, tables>> /\ Decoding /\ opt.remote /\ status = "PLAYING"
  BY Zenon DEF HeaderForward
<1>2. PICK n \in Jumps : PassFrame("SEEKING", MoveSeek(n), Here(at.pos + MoveSeek(n)))
  BY Zenon DEF HeaderForward
<1>3. /\ n \in Int /\ playbuf.num_frames \in Int /\ at.current_frame \in Int /\ at.pos \in Int
  BY Typed, Assumed, SMT DEF PlayerInv, FileType, AtType
<1>4. PICK sk \in Int : sk = MoveSeek(n)
  BY <1>3, SMT DEF MoveSeek
<1>5. at.pos + sk \in Int
  BY <1>3, SMT
<1>6. playbuf.filename \in Names
  BY <1>1, SMT DEF PlayerInv, FileInv
<1>7. /\ Here(at.pos + sk) \in GoalType
      /\ Here(at.pos + sk) # None => /\ Here(at.pos + sk).file = playbuf.filename
                                     /\ Here(at.pos + sk).pos = at.pos + sk
  BY <1>5, <1>6, HereType, Zenon DEF PlayerInv
<1>8. PassFrame("SEEKING", sk, Here(at.pos + sk))
  BY <1>2, <1>4
<1>9. QED
  BY <1>1, <1>7, <1>8

LEMMA HeaderForwardStep == PlayerInv /\ HeaderForward => PlayerInv'
<1> SUFFICES ASSUME PlayerInv, HeaderForward PROVE PlayerInv'
  OBVIOUS
<1>1. /\ pc = "frame" /\ UNCHANGED <<sig, tables>> /\ Decoding /\ opt.remote
  BY ForwardFields, Zenon
<1>2. PICK sk \in Int, g \in GoalType :
        /\ PassFrame("SEEKING", sk, g)
        /\ g # None => g.file = playbuf.filename /\ g.pos = at.pos + sk
  BY ForwardFields, Zenon
<1>3. QED
  BY <1>1, <1>2, PassFrameStep, Zenon

-----------------------------------------------------------------------------
(* After the decoder, and signals.                                         *)
LEMMA DecoderDoneStep == PlayerInv /\ DecoderDone => PlayerInv'
<1> SUFFICES ASSUME PlayerInv, DecoderDone PROVE PlayerInv'
  OBVIOUS
<1>1. /\ opt' = opt /\ sig' = sig /\ playbuf' = playbuf /\ at' = at /\ status' = status
      /\ seek' = seek /\ frames_played' = frames_played /\ paused' = paused /\ UNCHANGED listVars
      /\ files_size' = files_size /\ pc = "stopped"
  BY Zenon DEF DecoderDone, listVars
<1>2. CASE Rewinds
  <2>1. pc' = "feed" /\ remote_file' = remote_file /\ tables' = tables /\ hist' = hist
    BY <1>2, Zenon DEF DecoderDone, Rewinds
  <2>2. TypeOK'
    <3>1. pc' \in Steps
      BY <2>1, SMT DEF Steps
    <3>2. ListTypeOK'
      BY <1>1, ListKept, Typed, Zenon DEF PlayerInv
    <3>3. QED
      BY <1>1, <2>1, <3>1, <3>2, Typed, TypedNext, Zenon DEF PlayerInv
  <2>3. hist.rewound /\ playbuf.done /\ Rewinds'
    BY <1>1, <1>2, Zenon DEF PlayerInv, PlaceInv, Rewinds
  <2>4. FileInv' /\ PlaceInv'
    BY <1>1, <1>2, <2>1, <2>3, SMT DEF PlayerInv, FileInv, PlaceInv
  <2>5. CountInv' /\ KnownUnlessRewound' /\ CrashesKnown'
    BY <1>1, <2>1, <2>3, SMT DEF PlayerInv, CountInv, Counts, KnownUnlessRewound, CrashesKnown
  <2>6. RemoteInv' /\ GoalInv'
    <3>1. RemoteInv'
      <4>1. paused.file = None
        BY <1>2, SMT DEF PlayerInv, RemoteInv, Rewinds
      <4>2. opt.remote => remote_file = playbuf.filename
        BY <1>1, <1>2, Zenon DEF PlayerInv, RemoteInv
      <4>3. QED
        BY <1>1, <2>1, <4>1, <4>2, SMT DEF RemoteInv
    <3>2. hist.goal # None => /\ opt.remote /\ hist.goal.file = playbuf.filename
                              /\ hist.goal.pos = at.current_frame
      BY <1>1, <1>2, Zenon DEF PlayerInv, GoalInv
    <3>3. GoalInv'
      BY <1>1, <2>1, <2>3, <3>2, SMT DEF GoalInv
    <3>4. QED
      BY <3>1, <3>3
  <2>7. QED
    BY <1>1, <2>1, <2>2, <2>4, <2>5, <2>6, Zenon DEF PlayerInv
<1>3. CASE ~Rewinds
  <2>1. /\ remote_file' = IF opt.remote /\ status = "STOPPED" THEN None ELSE remote_file
        /\ IF tables = "freed" THEN Crash("tables") /\ UNCHANGED tables
           ELSE /\ pc' = "next" /\ tables' = IF tables = "allocated" THEN "freed" ELSE tables
                /\ UNCHANGED hist
    BY <1>3, Zenon DEF DecoderDone, Rewinds
  <2>2. remote_file' \in {None, remote_file}
    BY <2>1, SMT
  <2>3. CASE tables = "freed"
    <3>1. Crash("tables") /\ tables' = tables
      BY <2>1, <2>3, Zenon
    <3>2. "tables" \in Reasons
      BY SMT DEF Reasons
    <3>3. CrashesKnown'
      <4>1. hist'.why = "tables"
        BY <3>1, SMT DEF Crash, PlayerInv, HistType
      <4>2. playbuf.stream
        BY <1>1, <2>3, SMT DEF PlayerInv, FileInv
      <4>3. QED
        BY <1>1, <4>1, <4>2, Zenon DEF CrashesKnown
    <3>4. QED
      BY <1>1, <2>2, <3>1, <3>2, <3>3, CrashStep, Zenon
  <2>4. CASE tables # "freed"
    <3>1. /\ pc' = "next" /\ hist' = hist
          /\ tables' = IF tables = "allocated" THEN "freed" ELSE tables
      BY <2>1, <2>4, Zenon
    <3>2. TypeOK'
      <4>1. pc' \in Steps /\ tables' \in Tables
        BY <3>1, Typed, SMT DEF PlayerInv, Steps, Tables
      <4>2. ListTypeOK' /\ remote_file' \in Names \cup {None}
        BY <1>1, <2>2, ListKept, Typed, Zenon DEF PlayerInv
      <4>3. QED
        BY <1>1, <3>1, <4>1, <4>2, Typed, TypedNext, Zenon DEF PlayerInv
    <3>3. pc' \notin {"feed", "frame", "stopped", "crashed", "add", "shuffle"}
      BY <3>1, SMT
    <3>4. FileInv' /\ PlaceInv' /\ CountInv' /\ KnownUnlessRewound' /\ CrashesKnown'
      BY <1>1, <3>1, SMT DEF PlayerInv, FileInv, PlaceInv, CountInv, Counts, KnownUnlessRewound,
                             CrashesKnown
    <3>5. RemoteInv'
      BY <1>1, <2>2, <3>1, SMT DEF PlayerInv, RemoteInv
    <3>6. GoalInv'
      <4> SUFFICES ASSUME hist.goal # None PROVE GoalInv'
        BY <3>1, Zenon DEF GoalInv
      <4>1. opt.remote /\ (sig.quit_now \/ Loaded \/ OnHold \/ GivenUp)
        BY <1>1, <1>3, Zenon DEF PlayerInv, GoalInv
      <4>2. sig'.quit_now \/ Loaded' \/ OnHold' \/ GivenUp'
        <5>1. CASE status = "STOPPED"
          <6>1. remote_file' = None
            BY <2>1, <4>1, <5>1, Zenon
          <6>2. sig.quit_now \/ GivenUp
            <7>1. status # "PAUSED"
              BY <5>1, SMT
            <7>2. QED
              BY <4>1, <5>1, <7>1, Zenon DEF Loaded, OnHold
          <6>3. QED
            BY <1>1, <6>1, <6>2, Zenon DEF GivenUp
        <5>2. CASE status # "STOPPED"
          <6>1. remote_file' = remote_file
            BY <2>1, <5>2, Zenon
          <6>2. QED
            BY <1>1, <3>1, <4>1, <6>1, Zenon DEF Loaded, OnHold, GivenUp, ToSkip
        <5>3. QED
          BY <5>1, <5>2
      <4>3. QED
        BY <1>1, <3>1, <4>1, <4>2, SMT DEF GoalInv
    <3>7. QED
      BY <1>1, <3>1, <3>2, <3>4, <3>5, <3>6, Zenon DEF PlayerInv
  <2>5. QED
    BY <2>3, <2>4
<1>4. QED
  BY <1>2, <1>3

LEMMA SignalStep == PlayerInv /\ handle_signals => PlayerInv'
<1> SUFFICES ASSUME PlayerInv, handle_signals PROVE PlayerInv'
  OBVIOUS
<1>1. /\ opt' = opt /\ playbuf' = playbuf /\ at' = at /\ status' = status /\ seek' = seek
      /\ frames_played' = frames_played /\ paused' = paused /\ UNCHANGED listVars /\ hist' = hist
      /\ tables' = tables /\ remote_file' = remote_file /\ files_size' = files_size
  BY Zenon DEF handle_signals, listVars
<1>2. pc \in {"feed", "frame", "stopped", "next"} /\ pc' \in {pc, "exited"}
  BY SMT DEF handle_signals
<1>3. sig' \in SigType /\ (sig.quit_now => sig'.quit_now)
  <2>1. PICK quit \in BOOLEAN :
          sig' = [sig EXCEPT !.quit_now = @ \/ (quit /\ sig.handled),
                             !.stop_playing_file = @ \/ sig.handled, !.received = @ + 1]
    BY Zenon DEF handle_signals
  <2>2. sig \in SigType /\ sig.received < MaxSignals
    BY PlayedEnough, Zenon DEF handle_signals
  <2>3. PICK q \in BOOLEAN : q = (sig.quit_now \/ (quit /\ sig.handled))
    OBVIOUS
  <2>4. PICK s \in BOOLEAN : s = (sig.stop_playing_file \/ sig.handled)
    OBVIOUS
  <2>5. PICK r \in 0 .. MaxSignals : r = sig.received + 1
    <3>1. MaxSignals \in Nat /\ sig.received \in 0 .. MaxSignals
      BY <2>2, Assumed, SMT DEF SigType
    <3>2. QED
      BY <2>2, <3>1, SMT
  <2>6. PICK a : a = [sig EXCEPT !.quit_now = q]
    OBVIOUS
  <2>7. a \in SigType /\ a.quit_now = q
    BY <2>2, <2>6, SMT DEF SigType
  <2>8. PICK b : b = [a EXCEPT !.stop_playing_file = s]
    OBVIOUS
  <2>9. b \in SigType /\ b.quit_now = q
    BY <2>7, <2>8, SMT DEF SigType
  <2>10. sig' = [sig EXCEPT !.quit_now = q, !.stop_playing_file = s, !.received = r]
    BY <2>1, <2>3, <2>4, <2>5, Zenon
  <2>11. sig' = [b EXCEPT !.received = r]
    BY <2>6, <2>8, <2>10, Zenon
  <2>12. sig' \in SigType /\ sig'.quit_now = q
    BY <2>9, <2>11, SMT DEF SigType
  <2>13. QED
    BY <2>3, <2>12, Zenon
<1>4. TypeOK'
  <2>1. pc' \in Steps
    BY <1>2, SMT DEF Steps
  <2>2. ListTypeOK'
    BY <1>1, ListKept, Typed, Zenon DEF PlayerInv
  <2>3. QED
    BY <1>1, <1>3, <2>1, <2>2, Typed, TypedNext, Zenon DEF PlayerInv
<1>5. Rewinds' = Rewinds /\ ToSkip' = ToSkip
  BY <1>1, Zenon DEF Rewinds, ToSkip
<1>6. FileInv' /\ PlaceInv'
  BY <1>1, <1>2, <1>5, SMT DEF PlayerInv, FileInv, PlaceInv
<1>7. CountInv' /\ KnownUnlessRewound' /\ CrashesKnown'
  <2>1. CountInv'
    BY <1>1, <1>2, SMT DEF PlayerInv, CountInv, Counts
  <2>2. KnownUnlessRewound'
    BY <1>1, <1>2, SMT DEF PlayerInv, KnownUnlessRewound
  <2>3. CrashesKnown'
    <3>1. pc' # "crashed"
      BY <1>2, SMT
    <3>2. QED
      BY <3>1, Zenon DEF CrashesKnown
  <2>4. QED
    BY <2>1, <2>2, <2>3
<1>8. RemoteInv'
  BY <1>1, <1>2, <1>5, SMT DEF PlayerInv, RemoteInv
<1>9. GoalInv'
  <2> SUFFICES ASSUME hist.goal # None PROVE GoalInv'
    BY <1>1, Zenon DEF GoalInv
  <2>1. Loaded' = Loaded /\ OnHold' = OnHold /\ GivenUp' = GivenUp
    BY <1>1, <1>5, Zenon DEF Loaded, OnHold, GivenUp
  <2>2. CASE pc' = pc
    BY <1>1, <1>3, <1>5, <2>1, <2>2, Zenon DEF PlayerInv, GoalInv
  <2>3. CASE pc' = "exited"
    BY <1>1, <2>3, SMT DEF PlayerInv, GoalInv
  <2>4. QED
    BY <1>2, <2>2, <2>3
<1>10. QED
  BY <1>1, <1>4, <1>6, <1>7, <1>8, <1>9, Zenon DEF PlayerInv

LEMMA StutterStep == PlayerInv /\ UNCHANGED vars => PlayerInv'
<1> SUFFICES ASSUME PlayerInv, UNCHANGED vars PROVE PlayerInv'
  OBVIOUS
<1>1. /\ opt' = opt /\ sig' = sig /\ tables' = tables /\ playbuf' = playbuf
      /\ frames_played' = frames_played /\ status' = status /\ seek' = seek /\ at' = at
      /\ remote_file' = remote_file /\ paused' = paused /\ hist' = hist /\ pc' = pc
      /\ UNCHANGED listVars /\ files_size' = files_size /\ files' = files
      /\ random_play' = random_play
  BY Zenon DEF vars, main, listVars
<1>2. TypeOK'
  BY <1>1, ListKept, Typed, TypedNext, Zenon DEF PlayerInv
<1>3. FileInv' /\ PlaceInv' /\ CountInv' /\ KnownUnlessRewound' /\ CrashesKnown'
  BY <1>1, Zenon DEF PlayerInv, FileInv, PlaceInv, Rewinds, CountInv, Counts, KnownUnlessRewound,
                     CrashesKnown, numfiles
<1>4. RemoteInv' /\ GoalInv'
  BY <1>1, Zenon DEF PlayerInv, RemoteInv, Rewinds, GoalInv, Loaded, OnHold, GivenUp, ToSkip
<1>5. QED
  BY <1>1, <1>2, <1>3, <1>4, Zenon DEF PlayerInv

-----------------------------------------------------------------------------
(* The theorems.                                                           *)
LEMMA PlayerStep == PlayerInv /\ [Next]_vars => PlayerInv'
<1> SUFFICES ASSUME PlayerInv, [Next]_vars PROVE PlayerInv'
  OBVIOUS
<1>1. CASE AddFile \/ StartPlaying \/ Shuffle \/ EndOfList
  BY <1>1, BeforeStep
<1>2. CASE NextListed \/ NextRemote \/ ListOverrun
  BY <1>2, NextListedStep, NextRemoteStep, ListOverrunStep
<1>3. CASE WaitCommand \/ ForwardWaiting
  BY <1>3, WaitCommandStep, ForwardWaitingStep
<1>4. CASE read_from_mmap \/ read_from_fd \/ NoMoreData
  BY <1>4, ReadMmapStep, ReadFdStep, NoMoreDataStep
<1>5. CASE HeaderStopped \/ HeaderCommand \/ BackOverrun \/ HeaderForward \/ read_header
  BY <1>5, HeaderStoppedStep, HeaderCommandStep, BackOverrunStep, HeaderForwardStep, ReadHeaderStep
<1>6. CASE DecoderDone \/ handle_signals
  BY <1>6, DecoderDoneStep, SignalStep
<1>7. CASE UNCHANGED vars
  BY <1>7, StutterStep
<1>8. QED
  BY <1>1, <1>2, <1>3, <1>4, <1>5, <1>6, <1>7, Zenon DEF Next

(* The inductive invariant holds in every state.                            *)
THEOREM PlayerInvariant == Spec => []PlayerInv
  BY PlayerInit, PlayerStep, PTL DEF Spec

(* The variables have their types; the table of times never outgrows         *)
(* num_frames, and the playlist, grown, shuffled and played at random, has   *)
(* the files that were added.                                               *)
THEOREM TypesCorrect == Spec => []TypeOK
<1>1. PlayerInv => TypeOK
  BY DEF PlayerInv
<1>2. QED
  BY <1>1, PlayerInvariant, PTL

(* current_frame and current_time are those of the frame that libmad comes   *)
(* to, until the file is rewound: commands that set them end the decoder.    *)
THEOREM PositionKnown == Spec => []KnownUnlessRewound
<1>1. PlayerInv => KnownUnlessRewound
  BY DEF PlayerInv
<1>2. QED
  BY <1>1, PlayerInvariant, PTL

(* Nothing but the four known causes crashes the player: a table is read     *)
(* where it is not written only if the file exceeds its estimate, and freed  *)
(* twice only after a stream.                                               *)
THEOREM CrashesExplained == Spec => []CrashesKnown
<1>1. PlayerInv => CrashesKnown
  BY DEF PlayerInv
<1>2. QED
  BY <1>1, PlayerInvariant, PTL

\* what a frame does to the goal and to the count, whether it is heard or not
LEMMA PassFields ==
  ASSUME hist \in HistType, frames_played \in Nat, NEW st \in Statuses, NEW sk \in Int,
         NEW g \in GoalType, PassFrame(st, sk, g)
  PROVE  /\ frames_played' >= frames_played
         /\ st = "SEEKING" /\ sk # 0 => hist'.goal = g
<1>1. frames_played' >= frames_played
  BY SMT DEF PassFrame
<1>2. PICK h \in GoalType : h = IF st = "SEEKING" /\ sk # 0 THEN g ELSE None
  BY Zenon DEF GoalType
<1>3. hist' = [hist EXCEPT !.goal = h]
  BY <1>2, Zenon DEF PassFrame
<1>4. QED
  BY <1>1, <1>2, <1>3, SMT DEF HistType

\* the steps of a decoded frame, and what they do to the goal and to the count
LEMMA FrameSteps ==
  ASSUME PlayerInv, [Next]_vars, pc = "frame"
  PROVE  \/ hist'.goal = hist.goal /\ frames_played' = frames_played
         \/ pc' \notin {"frame", "feed"} /\ frames_played' = frames_played
         \/ LimitHit
         \/ frames_played' >= frames_played /\ (hist.goal # None /\ hist'.goal = None => ToSkip = 0)
<1>1. frames_played \in Nat /\ hist \in HistType
  BY PlayedEnough, Zenon DEF PlayerInv
<1>2. hist.goal \in GoalType
  BY <1>1, SMT DEF HistType
<1>3. CASE Next
  <2>1. CASE HeaderStopped \/ HeaderCommand \/ BackOverrun
    <3>1. pc' = "stopped" \/ pc' = "crashed"
      BY <2>1, Zenon DEF HeaderStopped, HeaderCommand, BackOverrun, Crash
    <3>2. frames_played' = frames_played
      BY <2>1, Zenon DEF HeaderStopped, HeaderCommand, BackOverrun, main
    <3>3. QED
      BY <3>1, <3>2, SMT
  <2>2. CASE read_header
    <3>1. CASE PassFrame(status, seek, hist.goal)
      <4>1. /\ frames_played' >= frames_played
            /\ status = "SEEKING" /\ seek # 0 => hist'.goal = hist.goal
        <5>1. status \in Statuses /\ seek \in Int
          BY Typed, Zenon DEF PlayerInv
        <5>2. QED
          BY <1>1, <1>2, <3>1, <5>1, PassFields, Zenon
      <4>2. hist.goal # None /\ hist'.goal = None => ToSkip = 0
        BY <4>1, Zenon DEF ToSkip
      <4>3. QED
        BY <4>1, <4>2
    <3>2. QED
      BY <2>2, <3>1, Zenon DEF read_header
  <2>3. CASE HeaderForward
    <3>1. PICK sk \in Int, g \in GoalType : PassFrame("SEEKING", sk, g)
      BY <2>3, ForwardFields, Zenon
    <3>2. frames_played' >= frames_played
      <4>1. "SEEKING" \in Statuses
        BY SMT DEF Statuses
      <4>2. QED
        BY <1>1, <3>1, <4>1, PassFields, Zenon
    <3>3. ToSkip = 0
      BY <2>3, SMT DEF HeaderForward, ToSkip
    <3>4. QED
      BY <3>2, <3>3
  <2>4. CASE handle_signals
    BY <2>4, Zenon DEF handle_signals
  <2>5. QED
    BY <1>3, <2>1, <2>2, <2>3, <2>4, SMT DEF Next, AddFile, StartPlaying, Shuffle, NextListed,
       EndOfList, NextRemote, ListOverrun, WaitCommand, ForwardWaiting, read_from_mmap,
       read_from_fd, NoMoreData, DecoderDone
<1>4. CASE UNCHANGED vars
  BY <1>4, Zenon DEF vars, main
<1>5. QED
  BY <1>3, <1>4

(* The frame that is heard after LOAD, JUMP and PAUSE is the one asked for:  *)
(* at every frame the goal is the position plus what is left to skip.        *)
THEOREM GoalsReached == Spec => GoalReached
<1>1. ASSUME PlayerInv, [Next]_vars, pc = "frame", pc' \in {"frame", "feed"},
             hist.goal # None, hist'.goal = None
      PROVE  hist.goal = [file |-> playbuf.filename, pos |-> at.pos]
  <2>1. ToSkip = 0
    <3>1. ~LimitHit
      BY <1>1, SMT DEF LimitHit
    <3>2. QED
      BY <1>1, <3>1, FrameSteps, Zenon
  <2>2. /\ hist.goal \in Goals /\ hist.goal.file = playbuf.filename
        /\ hist.goal.pos = at.pos + ToSkip
    BY <1>1, GoalAtFrame, Zenon
  <2>3. at.pos \in Int
    BY <1>1, Typed, SMT DEF PlayerInv, AtType
  <2>4. QED
    BY <2>1, <2>2, <2>3, SMT DEF Goals
<1>2. PlayerInv /\ [Next]_vars =>
        [pc = "frame" /\ pc' \in {"frame", "feed"} /\ hist.goal # None /\ hist'.goal = None =>
           hist.goal = [file |-> playbuf.filename, pos |-> at.pos]]_vars
  BY <1>1, Zenon
<1>3. QED
  BY <1>2, PlayerInvariant, PTL DEF Spec, GoalReached

(* -n cuts no file short but for the frames that were carried over.        *)
THEOREM LimitsKept == Spec => LimitKept
<1>1. ASSUME PlayerInv, [Next]_vars, pc = "frame", frames_played' < frames_played, ~hist.rewound
      PROVE  at.pos + hist.carried >= playbuf.max_frames
  <2>1. /\ opt \in OptType /\ frames_played \in Nat /\ at.pos \in Nat /\ hist.carried \in Nat
    BY <1>1, Typed, SMT DEF PlayerInv, AtType, HistType
  <2>2. LimitHit
    <3>1. frames_played' \in Nat
      BY <1>1, PlayerStep, Zenon DEF PlayerInv, TypeOK
    <3>2. frames_played' # frames_played /\ ~(frames_played' >= frames_played)
      BY <1>1, <2>1, <3>1, SMT
    <3>3. QED
      BY <1>1, <3>2, FrameSteps, Zenon
  <2>3. Counts /\ frames_played > playbuf.max_frames
    BY <2>2, Zenon DEF LimitHit, OverLimit
  <2>4. /\ frames_played <= opt.maxframes + 1 /\ playbuf.max_frames = opt.maxframes
        /\ frames_played = hist.carried + at.pos
    BY <1>1, <2>3, SMT DEF PlayerInv, CountInv
  <2>5. opt.maxframes \in Int
    BY <2>1, Assumed, SMT DEF OptType
  <2>6. QED
    BY <2>1, <2>3, <2>4, <2>5, SMT
<1>2. PlayerInv /\ [Next]_vars =>
        [pc = "frame" /\ frames_played' < frames_played /\ ~hist.rewound =>
           at.pos + hist.carried >= playbuf.max_frames]_vars
  BY <1>1, Zenon
<1>3. QED
  BY <1>2, PlayerInvariant, PTL DEF Spec, LimitKept

-----------------------------------------------------------------------------
(* The order at random.                                                    *)

\* every file is named once, and none is missing: before the first file, filename is what
\* main()'s stack holds, which may be a missing file's name
PlainList ==
  /\ \A a, b \in DOMAIN Songs : a # b => Songs[a] # Songs[b]
  /\ \A k \in DOMAIN Songs : Kind[Songs[k]] # "missing"

\* the file that is played was put at the end of the list
Placed(f) ==
  random_play /\ f \in AllSongs => Len(files) > 0 /\ f = files[Len(files)]
OrderInv ==
  /\ \A a, b \in DOMAIN files : a # b => files[a] # files[b]
  /\ pc # "exited" /\ ~opt.remote => Placed(playbuf.filename)
  /\ pc \in {"add", "shuffle"} => playbuf.filename \notin AllSongs

LEMMA AddDistinct ==
  ASSUME PlainList, OrderInv, ListTypeOK, add_file
  PROVE  \A a, b \in DOMAIN files' : a # b => files'[a] # files'[b]
<1>1. files \in Seq(AllSongs) /\ Songs \in Seq(AllSongs)
  BY PlaylistAssumption, ListSet, Zenon DEF AllSongs
<1> DEFINE n == Len(files)
<1>2. /\ n \in Nat /\ Len(Songs) \in Nat /\ DOMAIN files = 1 .. n /\ DOMAIN Songs = 1 .. Len(Songs)
      /\ \A k \in DOMAIN Songs : Songs[k] \in AllSongs
  BY <1>1, FilesLen, Zenon
<1>3. n + 1 \in DOMAIN Songs /\ Songs[n + 1] \in AllSongs /\ files' = Append(files, Songs[n + 1])
  BY <1>2, SMT DEF add_file, numfiles
<1>4. /\ files'[n + 1] = Songs[n + 1] /\ DOMAIN files' = 1 .. n + 1
      /\ \A k \in 1 .. n : files'[k] = files[k]
  BY <1>1, <1>2, <1>3, SMT
<1>5. \A a \in 1 .. n : files[a] # Songs[n + 1]
  <2> SUFFICES ASSUME NEW a \in 1 .. n PROVE files[a] # Songs[n + 1]
    OBVIOUS
  <2>1. files[a] \in {Songs[k] : k \in 1 .. n}
    <3>1. {files[k] : k \in DOMAIN files} = {Songs[k] : k \in 1 .. n}
      BY ListSet
    <3>2. QED
      BY <1>2, <3>1, Zenon
  <2>2. PICK k \in 1 .. n : files[a] = Songs[k]
    BY <2>1, Zenon
  <2>3. k \in DOMAIN Songs /\ k # n + 1
    BY <1>2, <1>3, SMT
  <2>4. QED
    BY <1>3, <2>2, <2>3, Zenon DEF PlainList
<1>6. \A a, b \in 1 .. n : a # b => files[a] # files[b]
  BY <1>2, Zenon DEF OrderInv
<1>7. \A a \in 1 .. n + 1 : a \in 1 .. n \/ a = n + 1
  BY <1>2, SMT
<1>8. QED
  BY <1>4, <1>5, <1>6, <1>7, Zenon

LEMMA ShuffleDistinct ==
  ASSUME OrderInv, ListTypeOK, shuffle_files
  PROVE  \A a, b \in DOMAIN files' : a # b => files'[a] # files'[b]
<1>1. /\ DOMAIN files' = DOMAIN files
      /\ \E a, b \in DOMAIN files : \A k \in DOMAIN files :
           files'[k] = IF k = b THEN files[a] ELSE IF k = a THEN files[b] ELSE files[k]
  BY ShuffledFiles, Zenon
<1>2. PICK a \in DOMAIN files, b \in DOMAIN files :
        \A k \in DOMAIN files : files'[k] = IF k = b THEN files[a]
                                             ELSE IF k = a THEN files[b] ELSE files[k]
  BY <1>1, Zenon
<1>3. QED
  BY <1>1, <1>2, Zenon DEF OrderInv

LEMMA DrawDistinct ==
  ASSUME OrderInv, ListTypeOK, NEW f, AtRandom(f)
  PROVE  /\ \A a, b \in DOMAIN files' : a # b => files'[a] # files'[b]
         /\ Len(files') > 0 /\ f = files'[Len(files')]
         /\ numfiles >= 4 => f # files[Len(files)]
<1>1. files \in Seq(AllSongs)
  BY ListSet, Zenon
<1> DEFINE n == Len(files)
<1>2. n \in Nat /\ DOMAIN files = 1 .. n
  BY <1>1, FilesLen, Zenon
<1>3. PICK m \in 1 .. n :
        /\ m <= Eligible + 1 /\ f = files[m]
        /\ Len(files') = n /\ DOMAIN files' = DOMAIN files /\ files'[n] = files[m]
        /\ \A j \in 1 .. n - 1 : files'[j] = IF j < m THEN files[j] ELSE files[j + 1]
  BY DrawnFiles, Zenon
<1>4. \A a, b \in 1 .. n : a # b => files[a] # files[b]
  BY <1>2, Zenon DEF OrderInv
<1>5. PICK o \in [1 .. n -> 1 .. n] :
        o = [j \in 1 .. n |-> IF j = n THEN m ELSE IF j < m THEN j ELSE j + 1]
  <2> HIDE DEF n
  <2>1. \A j \in 1 .. n : (IF j = n THEN m ELSE IF j < m THEN j ELSE j + 1) \in 1 .. n
    BY <1>2, SMT
  <2>2. QED
    BY <2>1, Zenon
<1>6. \A j \in 1 .. n : o[j] \in 1 .. n /\ files'[j] = files[o[j]]
  <2> SUFFICES ASSUME NEW j \in 1 .. n PROVE o[j] \in 1 .. n /\ files'[j] = files[o[j]]
    OBVIOUS
  <2>1. o[j] \in 1 .. n /\ o[j] = IF j = n THEN m ELSE IF j < m THEN j ELSE j + 1
    BY <1>5, Zenon
  <2>2. j = n \/ j \in 1 .. n - 1
    <3> HIDE DEF n
    <3>1. QED
      BY <1>2, SMT
  <2>3. ~(n \in 1 .. n - 1)
    <3> HIDE DEF n
    <3>1. QED
      BY <1>2, SMT
  <2>4. QED
    BY <1>3, <2>1, <2>2, <2>3, Zenon
<1>7. \A a, b \in 1 .. n : a # b => o[a] # o[b]
  <2> HIDE DEF n
  <2>1. QED
    BY <1>2, <1>5, SMT
<1>8. ASSUME NEW a \in 1 .. n, NEW b \in 1 .. n, a # b
      PROVE  files'[a] # files'[b]
  <2>1. /\ files'[a] = files[o[a]] /\ files'[b] = files[o[b]]
        /\ o[a] \in 1 .. n /\ o[b] \in 1 .. n /\ o[a] # o[b]
    BY <1>6, <1>7, <1>8, Zenon
  <2>2. files[o[a]] # files[o[b]]
    BY <1>4, <2>1, Zenon
  <2>3. QED
    BY <2>1, <2>2, Zenon
<1>9. n > 0 /\ n \in 1 .. n
  <2> HIDE DEF n
  <2>1. QED
    BY <1>2, SMT
<1>10. n >= 4 => m # n
  <2>1. n >= 4 => Eligible + 1 < n
    BY <1>2, SMT DEF Eligible, numfiles
  <2>2. Eligible \in Nat
    BY <1>2, SMT DEF Eligible, numfiles
  <2> HIDE DEF n
  <2>3. QED
    BY <1>2, <1>3, <2>1, <2>2, SMT
<1>11. \A a, b \in DOMAIN files' : a # b => files'[a] # files'[b]
  BY <1>2, <1>3, <1>8, Zenon
<1>12. numfiles >= 4 => f # files[n]
  BY <1>3, <1>4, <1>9, <1>10, Zenon DEF numfiles
<1>13. QED
  BY <1>3, <1>9, <1>11, <1>12, Zenon

LEMMA SongsNamed == AllSongs \subseteq Names /\ None \notin Names
  BY PlayerAssumption, Zenon DEF AllSongs

LEMMA OrderInit == PlainList /\ Init => OrderInv
<1> SUFFICES ASSUME PlainList, Init PROVE OrderInv
  OBVIOUS
<1>1. files = <<>>
  BY Zenon DEF Init, new_playlist
<1>2. DOMAIN files = {}
  BY <1>1, SMT
<1>3. PICK f \in {None} \cup {g \in Names : Kind[g] = "missing"}, n \in {0, 2} :
        playbuf = [NoFile EXCEPT !.filename = f, !.num_frames = n]
  BY Zenon DEF Init
<1>4. playbuf.filename = f
  BY <1>3, SMT DEF NoFile
<1>5. f \notin AllSongs
  <2>1. \A s \in AllSongs : Kind[s] # "missing"
    BY Zenon DEF PlainList, AllSongs
  <2>2. QED
    BY <1>3, <2>1, SongsNamed, Zenon
<1>6. QED
  BY <1>2, <1>4, <1>5, Zenon DEF OrderInv, Placed

\* steps that leave the list and the file alone
LEMMA OrderKept ==
  ASSUME OrderInv, UNCHANGED <<files, random_play, opt>>, playbuf'.filename = playbuf.filename,
         pc # "exited", pc' \in {"add", "shuffle"} => pc \in {"add", "shuffle"}
  PROVE  OrderInv'
<1>1. Placed(playbuf.filename)' = Placed(playbuf.filename)
  BY Zenon DEF Placed
<1>2. QED
  BY <1>1, Zenon DEF OrderInv

LEMMA NextListedOrder == PlainList /\ PlayerInv /\ OrderInv /\ NextListed => OrderInv'
<1> SUFFICES ASSUME PlainList, PlayerInv, OrderInv, NextListed PROVE OrderInv'
  OBVIOUS
<1>1. PICK f \in Names : /\ InOrder(f) \/ AtRandom(f)
                         /\ IF sig.quit_now THEN pc' = "exited" /\ Idle ELSE OpenFile(f)
  BY Zenon DEF NextListed
<1>2. /\ \A a, b \in DOMAIN files' : a # b => files'[a] # files'[b]
      /\ Placed(f)'
  <2>1. CASE InOrder(f)
    <3>1. files' = files /\ ~random_play'
      BY <2>1, Zenon DEF InOrder
    <3>2. QED
      BY <3>1, Zenon DEF OrderInv, Placed
  <2>2. CASE AtRandom(f)
    <3>1. ListTypeOK
      BY Typed, Zenon DEF PlayerInv
    <3>2. QED
      BY <2>2, <3>1, DrawDistinct, Zenon DEF Placed
  <2>3. QED
    BY <1>1, <2>1, <2>2
<1>3. pc' \notin {"add", "shuffle"} /\ (pc' # "exited" => playbuf'.filename = f)
  <2>1. CASE sig.quit_now
    BY <1>1, <2>1, SMT
  <2>2. CASE ~sig.quit_now
    <3>1. OpenFile(f)
      BY <1>1, <2>2, Zenon
    <3>2. pc' \in {"feed", "next", "exited"}
      BY <3>1, SMT DEF OpenFile
    <3>3. playbuf' = Opened(f)
      BY <3>1, Zenon DEF OpenFile
    <3>4. playbuf'.filename = f
      BY <3>3, SMT DEF Opened, NoFile
    <3>5. QED
      BY <3>2, <3>4, SMT
  <2>3. QED
    BY <2>1, <2>2
<1>4. QED
  BY <1>2, <1>3, Zenon DEF OrderInv

LEMMA OrderStep == PlainList /\ PlayerInv /\ OrderInv /\ [Next]_vars => OrderInv'
<1> SUFFICES ASSUME PlainList, PlayerInv, OrderInv, [Next]_vars PROVE OrderInv'
  OBVIOUS
<1>1. ListTypeOK /\ playbuf \in FileType
  BY Typed, Zenon DEF PlayerInv
<1>2. CASE AddFile \/ Shuffle
  <2>1. \A a, b \in DOMAIN files' : a # b => files'[a] # files'[b]
    BY <1>1, <1>2, AddDistinct, ShuffleDistinct, Zenon DEF AddFile, Shuffle
  <2>2. playbuf' = playbuf /\ Idle
    BY <1>2, Zenon DEF AddFile, Shuffle, Idle, main
  <2>3. pc \in {"add", "shuffle"}
    BY <1>2, SMT DEF AddFile, Shuffle
  <2>4. playbuf'.filename \notin AllSongs
    BY <2>2, <2>3, Zenon DEF OrderInv
  <2>5. QED
    BY <2>1, <2>4, Zenon DEF OrderInv, Placed
<1>3. CASE StartPlaying \/ ListOverrun \/ WaitCommand \/ ForwardWaiting
  <2>1. UNCHANGED <<files, random_play, opt, playbuf>>
    BY <1>3, Zenon DEF StartPlaying, ListOverrun, WaitCommand, ForwardWaiting, Idle, listVars, main
  <2>2. pc # "exited" /\ (pc' \in {"add", "shuffle"} => pc \in {"add", "shuffle"})
    BY <1>3, SMT DEF StartPlaying, ListOverrun, WaitCommand, ForwardWaiting, Crash
  <2>3. QED
    BY <2>1, <2>2, OrderKept, Zenon
<1>4. CASE NextListed
  BY <1>4, NextListedOrder
<1>5. CASE EndOfList
  <2>1. files' = files /\ pc' = "exited"
    BY <1>5, Zenon DEF EndOfList, NoMoreFiles
  <2>2. pc' \notin {"add", "shuffle"}
    BY <2>1, SMT
  <2>3. QED
    BY <2>1, <2>2, Zenon DEF OrderInv
<1>6. CASE NextRemote
  <2>1. UNCHANGED <<files, opt>> /\ opt.remote
    BY <1>6, Zenon DEF NextRemote, Idle, OpenFile, listVars, main
  <2>2. pc' \notin {"add", "shuffle"}
    BY <1>6, SMT DEF NextRemote, OpenFile
  <2>3. QED
    BY <2>1, <2>2, Zenon DEF OrderInv
<1>7. CASE read_from_mmap \/ read_header \/ HeaderForward
  <2>1. UNCHANGED <<files, random_play, opt>>
    BY <1>7, Zenon DEF read_from_mmap, read_header, HeaderForward, Decoding, listVars
  <2>2. pc # "exited" /\ pc' \notin {"add", "shuffle"}
    BY <1>7, SMT DEF read_from_mmap, read_header, HeaderForward, LimitHit, PassFrame
  <2>3. playbuf'.filename = playbuf.filename
    <3>1. CASE read_from_mmap
      <4>1. PICK yes \in BOOLEAN : yes = TRUE
        OBVIOUS
      <4>2. playbuf' = [playbuf EXCEPT !.done = yes]
        BY <3>1, <4>1, Zenon DEF read_from_mmap
      <4>3. QED
        BY <1>1, <4>2, SMT DEF FileType
    <3>2. CASE read_header \/ HeaderForward
      <4>1. \/ playbuf' = playbuf
            \/ \E t, done : playbuf' = [playbuf EXCEPT !.times = t, !.done = done]
        BY <3>2, Zenon DEF read_header, HeaderForward, PassFrame
      <4>2. ASSUME NEW t, NEW done, playbuf' = [playbuf EXCEPT !.times = t, !.done = done]
            PROVE  playbuf'.filename = playbuf.filename
        BY <1>1, <4>2, SMT DEF FileType
      <4>3. QED
        BY <4>1, <4>2, Zenon
    <3>3. QED
      BY <1>7, <3>1, <3>2
  <2>4. QED
    BY <2>1, <2>2, <2>3, OrderKept, Zenon
<1>8. CASE \/ read_from_fd \/ NoMoreData \/ HeaderStopped \/ HeaderCommand \/ BackOverrun
           \/ DecoderDone \/ handle_signals
  <2>1. UNCHANGED <<files, random_play, opt, playbuf>>
    BY <1>8, Zenon DEF read_from_fd, NoMoreData, HeaderStopped, HeaderCommand, BackOverrun,
       DecoderDone, handle_signals, Decoding, listVars, main
  <2>2. pc # "exited" /\ pc' \notin {"add", "shuffle"}
    <3>1. CASE handle_signals
      <4>1. pc \in {"feed", "frame", "stopped", "next"} /\ (pc' = pc \/ pc' = "exited")
        BY <3>1, Zenon DEF handle_signals
      <4>2. QED
        BY <4>1, SMT
    <3>2. CASE DecoderDone
      <4>1. pc = "stopped" /\ (pc' = "feed" \/ pc' = "crashed" \/ pc' = "next")
        BY <3>2, Zenon DEF DecoderDone, Crash
      <4>2. QED
        BY <4>1, SMT
    <3>3. CASE \/ read_from_fd \/ NoMoreData \/ HeaderStopped \/ HeaderCommand
               \/ BackOverrun
      <4>1. /\ pc = "feed" \/ pc = "frame"
            /\ pc' = "frame" \/ pc' = "stopped" \/ pc' = "crashed"
        BY <3>3, Zenon DEF read_from_fd, NoMoreData, HeaderStopped, HeaderCommand,
           BackOverrun, Crash
      <4>2. QED
        BY <4>1, SMT
    <3>4. QED
      BY <1>8, <3>1, <3>2, <3>3
  <2>3. QED
    BY <2>1, <2>2, OrderKept, Zenon
<1>9. CASE UNCHANGED vars
  <2>1. UNCHANGED <<files, random_play, opt, playbuf, pc>>
    BY <1>9, Zenon DEF vars, listVars, main
  <2>2. Placed(playbuf.filename)' = Placed(playbuf.filename)
    BY <2>1, Zenon DEF Placed
  <2>3. QED
    BY <2>1, <2>2, Zenon DEF OrderInv
<1>10. QED
  BY <1>2, <1>3, <1>4, <1>5, <1>6, <1>7, <1>8, <1>9, Zenon DEF Next

(* A list played at random that names every file once, none of them missing, *)
(* plays no file twice in a row, if it has four: the last one played is at   *)
(* the end of the list and so never among the eligible.                      *)
THEOREM NeverTwice == PlainList => (Spec => NotTwiceInARow)
<1> SUFFICES ASSUME PlainList PROVE Spec => NotTwiceInARow
  OBVIOUS
<1>1. ASSUME PlayerInv, OrderInv, NextListed, random_play, numfiles >= 4, ~sig.quit_now
      PROVE  playbuf'.filename # playbuf.filename
  <2>1. PICK f \in Names : (InOrder(f) \/ AtRandom(f)) /\ OpenFile(f)
    BY <1>1, Zenon DEF NextListed
  <2>2. AtRandom(f)
    BY <1>1, <2>1, Zenon DEF InOrder
  <2>3. ListTypeOK
    BY <1>1, Typed, Zenon DEF PlayerInv
  <2>4. f # files[Len(files)]
    BY <1>1, <2>2, <2>3, DrawDistinct, Zenon
  <2>5. playbuf' = Opened(f)
    BY <2>1, Zenon DEF OpenFile
  <2>6. playbuf'.filename = f
    BY <2>5, SMT DEF Opened, NoFile
  <2>7. f \in AllSongs
    <3>1. files \in Seq(AllSongs)
      BY <2>3, ListSet, Zenon
    <3>2. \E m \in 1 .. Len(files) : f = files[m]
      BY <2>2, <2>3, DrawnFiles, Zenon
    <3>3. \A k \in 1 .. Len(files) : files[k] \in AllSongs
      BY <3>1, FilesLen, Zenon
    <3>4. QED
      BY <3>2, <3>3, Zenon
  <2>8. pc = "next" /\ ~opt.remote
    BY <1>1, Zenon DEF NextListed
  <2>9. Placed(playbuf.filename)
    <3>1. pc # "exited"
      BY <2>8, SMT
    <3>2. QED
      BY <1>1, <2>8, <3>1, Zenon DEF OrderInv
  <2>10. QED
    BY <1>1, <2>4, <2>6, <2>7, <2>9, Zenon DEF Placed
<1>2. PlayerInv /\ OrderInv /\ [Next]_vars =>
        [NextListed /\ random_play /\ numfiles >= 4 /\ ~sig.quit_now =>
           playbuf'.filename # playbuf.filename]_vars
  BY <1>1, Zenon
<1>3. Init => OrderInv
  BY OrderInit
<1>4. PlayerInv /\ OrderInv /\ [Next]_vars => OrderInv'
  BY OrderStep
<1>5. QED
  BY <1>2, <1>3, <1>4, PlayerInvariant, PTL DEF Spec, NotTwiceInARow

=============================================================================
