------------------------------- MODULE Playlist -------------------------------
(***************************************************************************)
(* The playlist of mpg321 (playlist.c) of a player that is not remote        *)
(* controlled: files are added, perhaps shuffled, and handed out one after   *)
(* the other, in order and several times over, or at random for ever.  A     *)
(* component of Player, which decides when the next file is asked for.       *)
(***************************************************************************)
EXTENDS Integers, Sequences, SequencesExt

CONSTANTS
  Songs,    \* the files, in the order in which they are added
  Loops,    \* values of --loop
  DefaultPlaylistSize  \* DEFAULT_PLAYLIST_SIZE

ASSUME PlaylistAssumption ==
  /\ Songs \in Seq({Songs[k] : k \in DOMAIN Songs})
  /\ Loops \subseteq Nat \ {0} /\ DefaultPlaylistSize \in Nat \ {0}

VARIABLES
  files,           \* pl->files, its first numfiles entries
  files_size,      \* the entries allocated
  i,               \* the static of get_next_file(); while shuffling, that of shuffle_files()
  loop_remaining,
  random_play

listVars == <<files, files_size, i, loop_remaining, random_play>>

\* and no file is lost or doubled by growing, shuffling and playing the list at random
ListTypeOK ==
  /\ files \in Seq({Songs[k] : k \in DOMAIN Songs})
  /\ files_size \in Nat /\ Len(files) <= files_size
  /\ ToSet(files) = {Songs[k] : k \in 1 .. Len(files)}
  /\ i \in Nat /\ loop_remaining \in Nat /\ random_play \in BOOLEAN

new_playlist ==
  /\ files = <<>> /\ files_size = DefaultPlaylistSize /\ i = 0
  /\ loop_remaining \in Loops /\ random_play \in BOOLEAN

numfiles == Len(files)

\* resize_playlist() copies what there is into twice the space
add_file ==
  /\ numfiles < Len(Songs)
  /\ files_size' = IF numfiles = files_size THEN 2 * files_size ELSE files_size
  /\ files' = Append(files, Songs[numfiles + 1])
  /\ UNCHANGED <<i, loop_remaining, random_play>>

\* one round of shuffle_files(): r = i + (numfiles-i-1) * x, and x may be 1; the variant
\* does not put the file away that it overwrites
Overwritten(a, b) == [files EXCEPT ![a] = files[b]]
Swapped(a, b) == [files EXCEPT ![a] = files[b], ![b] = files[a]]
shuffle_files ==
  /\ i < numfiles
  /\ \E r \in i .. numfiles - 1 : files' = Swapped(i + 1, r + 1)
  /\ i' = IF i + 1 = numfiles THEN 0 ELSE i + 1
  /\ UNCHANGED <<files_size, loop_remaining, random_play>>

\* the rounds left at the end of the list
InOrder(f) ==
  LET wraps == i = numfiles
      left  == IF wraps THEN loop_remaining - 1 ELSE loop_remaining
      at    == IF wraps THEN 0 ELSE i
  IN /\ ~random_play /\ left > 0 /\ at < numfiles /\ f = files[at + 1]
     /\ i' = at + 1 /\ loop_remaining' = left
     /\ UNCHANGED <<files, files_size, random_play>>
NoMoreFiles ==
  /\ \/ ~random_play /\ i = numfiles /\ loop_remaining = 1
     \/ random_play /\ numfiles = 0
  /\ i' = 0 /\ loop_remaining' = IF random_play THEN loop_remaining ELSE 0
  /\ UNCHANGED <<files, files_size, random_play>>

\* the eligible files at the start of the list: with two files, both; the variant takes
\* all of every list
EligibleAll == numfiles
Eligible == IF numfiles = 2 THEN 2 ELSE (numfiles + 1) \div 2

\* i = n * square(x) is n when rand() is RAND_MAX; the file goes to the end of the list
AtRandom(f) ==
  \E k \in 0 .. Eligible :
    /\ random_play /\ k < numfiles
    /\ f = files[k + 1] /\ i' = k
    /\ files' = Append(RemoveAt(files, k + 1), f)
    /\ UNCHANGED <<files_size, loop_remaining, random_play>>
\* what is behind the last file is handed out
PastTheEnd == random_play /\ numfiles > 0 /\ numfiles \in 0 .. Eligible
=============================================================================
