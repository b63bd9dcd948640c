-------------------------------- MODULE Player --------------------------------
(***************************************************************************)
(* mpg321 without a frame buffer: the loop of main() over the files, libmad's *)
(* callbacks read_from_mmap(), read_from_fd() and read_header(), and the     *)
(* commands of the remote control, which change the position, the status and  *)
(* the file from inside read_header().  libmad asks for data at the start and *)
(* at the end of a file, and calls read_header() for every frame.            *)
(*                                                                         *)
(* A position is a number of frames.  Bit rates are constant, so frames[n] is *)
(* where frame n starts and current_time is counted in frames; num_frames is *)
(* an estimate, which a file may exceed.                                    *)
(***************************************************************************)
EXTENDS Playlist, FiniteSets

CONSTANTS
  Kind,     \* of a file: "local", "stream", "missing", "directory" or "corrupt"
  Real,     \* the frames a local file or a stream has
  Estimate, \* num_frames as scan() finds it
  Loads,    \* files that LOAD names
  Jumps,    \* numbers of JUMP
  Limits, Skips,  \* values of -n (-1: none) and -k
  MaxSignals, \* bound: signals received
  MaxTime,    \* bound: the file is rewound up to this current_time
  MaxBelow,   \* bound: PAUSE comes until seek is so far below 0
  None

Names == DOMAIN Kind
ASSUME PlayerAssumption ==
  /\ {Songs[k] : k \in DOMAIN Songs} \cup Loads \subseteq Names /\ None \notin Names
  /\ Real \in [Names -> Nat \ {0}] /\ Estimate \in [Names -> Nat]
  /\ MaxSignals \in Nat /\ MaxTime \in Nat /\ MaxBelow \in Nat
  /\ Jumps \subseteq Nat \ {0} /\ Limits \subseteq Nat \cup {-1} /\ Skips \subseteq Nat

VARIABLES
  opt,          \* options: remote, restart (remote_restart), maxframes
  pc, status, seek,  \* seek: options.seek
  sig,          \* quit_now, stop_playing_file, whether SIGINT is handled, signals received
  playbuf,      \* filename, num_frames, max_frames, done, times; whether it is a stream
  tables,       \* playbuf.frames and playbuf.times: "null", "allocated", "freed"
  at,           \* current_frame, current_time; pos: the frame libmad comes to next
  remote_file,
  paused,       \* the statics of pause_play(): file and seek
  frames_played,  \* the static of read_header()
  hist          \* history: frames_played when the file was opened, whether it was rewound
                \* since; goal: the file and frame to be heard next; what crashed

main == <<opt, sig, tables, playbuf, frames_played>>
vars == <<listVars, main, pc, status, seek, at, remote_file, paused, hist>>

Statuses == {"PLAYING", "SEEKING", "REWINDING", "STOPPED", "PAUSED"}
TypeOK ==
  /\ ListTypeOK
  /\ opt \in [remote : BOOLEAN, restart : BOOLEAN, maxframes : Limits]
  /\ pc \in {"add", "shuffle", "next", "feed", "frame", "stopped", "exited", "crashed"}
  /\ status \in Statuses /\ seek \in Int /\ tables \in {"null", "allocated", "freed"}
  /\ sig \in [quit_now : BOOLEAN, stop_playing_file : BOOLEAN, handled : BOOLEAN,
              received : 0 .. MaxSignals]
  /\ playbuf \in [filename : Names \cup {None}, stream : BOOLEAN, num_frames : Nat,
                  max_frames : Limits \cup {-1}, done : BOOLEAN, times : Seq(Nat)]
  /\ Len(playbuf.times) <= playbuf.num_frames
  /\ at \in [current_frame : Nat, current_time : Nat, pos : Nat]
  /\ remote_file \in Names \cup {None}
  /\ paused \in [file : Names \cup {None}, seek : Nat] /\ frames_played \in Nat

NoFile == [filename |-> None, stream |-> FALSE, num_frames |-> 0, max_frames |-> -1,
           done |-> FALSE, times |-> <<>>]
Beginning == [current_frame |-> 0, current_time |-> 0, pos |-> 0]
NotPaused == [file |-> None, seek |-> 0]

\* -k starts with the status of a seek; playbuf is a local of main() that is not set: its
\* name may be a file's that does not exist, its tables addresses that were never allocated
Init ==
  /\ new_playlist
  /\ opt \in [remote : BOOLEAN, restart : BOOLEAN, maxframes : Limits]
  /\ seek \in Skips /\ status = IF seek > 0 THEN "SEEKING" ELSE "PLAYING"
  /\ IF opt.remote THEN seek = 0 /\ loop_remaining = 1 /\ ~random_play ELSE ~opt.restart
  /\ pc = IF opt.remote THEN "next" ELSE "add"
  /\ sig = [quit_now |-> FALSE, stop_playing_file |-> FALSE, handled |-> FALSE, received |-> 0]
  /\ \E f \in {None} \cup {g \in Names : Kind[g] = "missing"}, n \in {0, 2} :
       playbuf = [NoFile EXCEPT !.filename = f, !.num_frames = n]
  /\ tables \in {"null", "freed"} /\ at = Beginning
  /\ remote_file = None /\ paused = NotPaused /\ frames_played = 0
  /\ hist = [carried |-> 0, rewound |-> FALSE, goal |-> None, why |-> None]

-----------------------------------------------------------------------------
(* Before the first file, and the next file.                               *)

Idle == UNCHANGED <<main, status, seek, at, remote_file, paused, hist>>
AddFile == pc = "add" /\ add_file /\ UNCHANGED pc /\ Idle
StartPlaying ==
  /\ pc = "add" /\ UNCHANGED listVars /\ Idle
  /\ pc' \in IF numfiles > 0 THEN {"shuffle", "next"} ELSE {"exited"}
Shuffle == pc = "shuffle" /\ shuffle_files /\ pc' = (IF i' = 0 THEN "next" ELSE pc) /\ Idle

\* -n counts when the estimate says that the file has so many frames
Limit(f) == IF opt.maxframes <= Estimate[f] THEN opt.maxframes ELSE -1
Opened(f) ==
  [NoFile EXCEPT !.filename = f, !.stream = Kind[f] = "stream",
                 !.num_frames = IF Kind[f] = "local" THEN Estimate[f] ELSE 0,
                 !.max_frames = IF Kind[f] = "local" THEN Limit(f) ELSE -1]

\* the variant leaves current_time, and clear_remote_file() out
ResetTimeKept == [at EXCEPT !.current_frame = 0, !.pos = 0]
Reset == Beginning
NotCleared == remote_file
Cleared == None

\* playbuf is reset, but not its tables.  A missing file ends the player, a corrupt one a
\* remote controlled one, unless it restarts; a directory is passed over without clearing
\* what the remote control asked for.
OpenFile(f) ==
  /\ playbuf' = Opened(f) /\ at' = Reset
  /\ hist' = [hist EXCEPT !.rewound = FALSE, !.carried = frames_played]
  /\ tables' = IF Kind[f] = "local" THEN "allocated" ELSE tables
  /\ sig' = [sig EXCEPT !.handled = Kind[f] \in {"local", "stream"}]
  /\ \/ Kind[f] \in {"local", "stream"} /\ pc' = "feed" /\ UNCHANGED remote_file
     \/ Kind[f] = "directory" /\ pc' = "next" /\ UNCHANGED remote_file
     \/ /\ Kind[f] \in {"missing", "corrupt"} /\ opt.restart
        /\ pc' = "next" /\ remote_file' = Cleared
     \/ /\ Kind[f] \in {"missing", "corrupt"} /\ ~opt.restart
        /\ pc' = IF opt.remote \/ Kind[f] = "missing" THEN "exited" ELSE "next"
        /\ UNCHANGED remote_file
  /\ UNCHANGED <<opt, status, seek, paused, frames_played>>

NextListed ==
  /\ pc = "next" /\ ~opt.remote
  /\ \E f \in Names :
       /\ InOrder(f) \/ AtRandom(f)
       /\ IF sig.quit_now THEN pc' = "exited" /\ Idle ELSE OpenFile(f)
EndOfList == pc = "next" /\ ~opt.remote /\ NoMoreFiles /\ pc' = "exited" /\ Idle
NextRemote ==
  /\ pc = "next" /\ opt.remote /\ (remote_file # None \/ sig.quit_now)
  /\ IF sig.quit_now THEN pc' = "exited" /\ Idle ELSE OpenFile(remote_file)
  /\ UNCHANGED listVars

\* the player is at the mercy of what it reads or frees
Crash(why) == pc' = "crashed" /\ hist' = [hist EXCEPT !.why = why]
ListOverrun ==
  /\ pc = "next" /\ ~opt.remote /\ PastTheEnd /\ Crash("list")
  /\ UNCHANGED <<listVars, main, status, seek, at, remote_file, paused>>

-----------------------------------------------------------------------------
(* The commands of the remote control.                                     *)

Heard(goal) == hist' = [hist EXCEPT !.goal = goal]
Here(n) == IF hist.rewound \/ playbuf.stream THEN None ELSE [file |-> playbuf.filename, pos |-> n]

LoadCommand(f) ==
  /\ status' = "PLAYING" /\ remote_file' = f /\ seek' = 0 /\ paused' = NotPaused
  /\ at' = [at EXCEPT !.current_frame = 0]
  /\ Heard([file |-> f, pos |-> 0]) /\ UNCHANGED sig

StopCommand ==
  /\ IF status = "STOPPED" THEN UNCHANGED <<status, remote_file, paused, at>>
     ELSE /\ status' = "STOPPED" /\ remote_file' = None /\ paused' = NotPaused
          /\ at' = [at EXCEPT !.current_frame = 0]
  /\ Heard(None) /\ UNCHANGED <<seek, sig>>

QuitCommand ==
  /\ sig' = [sig EXCEPT !.quit_now = TRUE]
  /\ UNCHANGED <<status, seek, at, remote_file, paused, hist>>

\* pause_play()
Pause ==
  /\ paused.file = None
  /\ status' = "PAUSED" /\ remote_file' = None
  /\ paused' = [file |-> playbuf.filename, seek |-> at.current_frame]
  /\ Heard(IF pc = "frame" THEN Here(at.pos) ELSE None) /\ UNCHANGED <<seek, at, sig>>
\* the variant goes on from the start
ResumeAtStart(s) == 0
ResumeAt(s) == s
Unpause ==
  /\ paused.file # None
  /\ status' = "SEEKING" /\ remote_file' = paused.file /\ seek' = ResumeAt(paused.seek)
  /\ paused' = [paused EXCEPT !.file = None] /\ at' = [at EXCEPT !.current_frame = 0]
  /\ UNCHANGED <<sig, hist>>
\* while frames are skipped PAUSE does nothing but stop the decoder: the file is opened
\* again, and what was left to skip is skipped from its start
PauseCommand ==
  IF status \in {"PLAYING", "PAUSED"} THEN Pause \/ Unpause
  ELSE seek >= -MaxBelow /\ Heard(None) /\ UNCHANGED <<status, seek, at, remote_file, paused, sig>>

\* seek()
Clamped(n) == IF n > playbuf.num_frames THEN playbuf.num_frames ELSE n
JumpCommand(n) ==
  /\ status = "PLAYING" /\ status' = "SEEKING" /\ seek' = Clamped(n)
  /\ at' = [at EXCEPT !.current_frame = 0]
  /\ Heard(IF pc = "frame" THEN [file |-> playbuf.filename, pos |-> Clamped(n)] ELSE None)
  /\ UNCHANGED <<remote_file, paused, sig>>

\* move(): the sum is unsigned, so a negative one is above num_frames
MoveSeek(n) ==
  IF at.current_frame + n \notin 0 .. playbuf.num_frames
  THEN playbuf.num_frames - at.current_frame ELSE n
RewoundTo(n) == IF at.current_frame < n THEN 0 ELSE at.current_frame - n

\* a time is looked up unless it is the first frame's; the variant always does
\* the entry of "times" exists and has been written
Known(n) == tables = "allocated" /\ ~playbuf.stream /\ n \in DOMAIN playbuf.times
NeedsTimeAlways(n) == TRUE
NeedsTime(n) == n # 0
BackCommand(n) ==
  /\ status = "PLAYING" /\ at.current_time <= MaxTime
  /\ status' = "REWINDING" /\ seek' = MoveSeek(-n)
  /\ NeedsTime(RewoundTo(n)) => Known(RewoundTo(n))
  /\ at' = [at EXCEPT !.current_frame = RewoundTo(n),
                      !.current_time = IF NeedsTime(RewoundTo(n))
                                       THEN playbuf.times[RewoundTo(n)] ELSE 0]
  /\ hist' = [hist EXCEPT !.rewound = TRUE,
                          !.goal = IF pc = "frame" THEN Here(RewoundTo(n)) ELSE None]
  /\ UNCHANGED <<remote_file, paused, sig>>
\* playbuf.times is NULL or freed, or shorter
BackOverrun ==
  /\ pc = "frame" /\ opt.remote /\ ~sig.stop_playing_file /\ status = "PLAYING"
  /\ \E n \in Jumps :
       /\ NeedsTime(RewoundTo(n)) /\ ~Known(RewoundTo(n))
       /\ Crash(IF playbuf.stream THEN "rewound stream" ELSE "rewound past estimate")
  /\ UNCHANGED <<listVars, main, status, seek, at, remote_file, paused>>

Command ==
  \/ \E f \in Loads : LoadCommand(f)
  \/ StopCommand \/ QuitCommand \/ PauseCommand
  \/ \E n \in Jumps : JumpCommand(n) \/ BackCommand(n)

\* remote_get_input_wait(): what the command returns is not looked at
WaitCommand ==
  /\ pc = "next" /\ opt.remote /\ remote_file = None /\ ~sig.quit_now
  /\ Command
  /\ UNCHANGED <<listVars, opt, pc, playbuf, tables, frames_played>>
ForwardWaiting ==
  /\ pc = "next" /\ opt.remote /\ remote_file = None /\ ~sig.quit_now
  /\ status = "PLAYING" /\ status' = "SEEKING"
  /\ \E n \in Jumps : seek' = MoveSeek(n)
  /\ UNCHANGED <<listVars, main, pc, at, remote_file, paused, hist>>

-----------------------------------------------------------------------------
(* libmad's callbacks.                                                     *)

Decoding == UNCHANGED <<listVars, opt, remote_file, paused>>

\* read_from_mmap(): at the start, or where the file was rewound to
Restarted(n) == [current_frame |-> 0, current_time |-> at.current_time, pos |-> n]
read_from_mmap ==
  /\ pc = "feed" /\ ~playbuf.stream /\ (status = "REWINDING" \/ ~playbuf.done)
  /\ pc' = "frame" /\ playbuf' = [playbuf EXCEPT !.done = TRUE]
  /\ IF status = "REWINDING"
     THEN status' = "PLAYING" /\ seek' = 0 /\ at' = Restarted(at.current_frame)
     ELSE /\ status' = IF status = "SEEKING" THEN status ELSE "PLAYING"
          /\ at' = Restarted(0) /\ UNCHANGED seek
  /\ UNCHANGED <<sig, tables, frames_played, hist>> /\ Decoding
\* read_from_fd(): the first read of a stream
read_from_fd ==
  /\ pc = "feed" /\ playbuf.stream /\ ~playbuf.done /\ pc' = "frame"
  /\ UNCHANGED <<status, seek, at, sig, playbuf, tables, frames_played, hist>> /\ Decoding
\* no more data: both read callbacks
NoMoreData ==
  /\ pc = "feed" /\ playbuf.done /\ (status # "REWINDING" \/ playbuf.stream)
  /\ status' = "STOPPED" /\ pc' = "stopped" /\ Heard(None)
  /\ UNCHANGED <<seek, at, sig, playbuf, tables, frames_played>> /\ Decoding

\* read_header(): a signal first
HeaderStopped ==
  /\ pc = "frame" /\ sig.stop_playing_file
  /\ sig' = [sig EXCEPT !.stop_playing_file = FALSE]
  /\ status' = "STOPPED" /\ pc' = "stopped" /\ Heard(None)
  /\ UNCHANGED <<seek, at, playbuf, tables, frames_played>> /\ Decoding

\* then a command, all of which but JUMP + stop the decoder
HeaderCommand ==
  /\ pc = "frame" /\ opt.remote /\ ~sig.stop_playing_file
  /\ Command /\ pc' = "stopped"
  /\ UNCHANGED <<listVars, opt, playbuf, tables, frames_played>>

\* then the limit, which is compared before it is counted; the variant stops a frame early
Counts == playbuf.max_frames # -1
OverLimitEarly == Counts /\ frames_played + 1 >= playbuf.max_frames
OverLimit == Counts /\ frames_played > playbuf.max_frames
LimitHit ==
  /\ OverLimit /\ frames_played' = 0
  /\ status' = "STOPPED" /\ pc' = "stopped" /\ Heard(None)
  /\ UNCHANGED <<seek, at>>

\* then the tables and the frame, which is played unless frames are skipped
TimesLonger == Append(playbuf.times, at.current_time + 1)
Times == IF at.current_frame + 1 <= playbuf.num_frames
         THEN [n \in DOMAIN playbuf.times \cup {at.current_frame + 1} |->
                 IF n = at.current_frame + 1 THEN at.current_time + 1 ELSE playbuf.times[n]]
         ELSE playbuf.times
PassFrame(st, sk, goal) ==
  /\ ~OverLimit
  /\ frames_played' = IF Counts THEN frames_played + 1 ELSE frames_played
  /\ at' = [current_frame |-> at.current_frame + 1, current_time |-> at.current_time + 1,
            pos |-> at.pos + 1]
  /\ LET skipped == st = "SEEKING" /\ sk # 0
     IN /\ seek' = IF skipped THEN sk - 1 ELSE sk
        /\ status' = IF skipped /\ sk # 1 THEN st ELSE "PLAYING"
        /\ hist' = [hist EXCEPT !.goal = IF skipped THEN goal ELSE None]
  /\ LET end == at.pos + 1 = Real[playbuf.filename]
     IN /\ pc' = IF end THEN "feed" ELSE pc
        /\ playbuf' = [playbuf EXCEPT !.times = Times, !.done = @ \/ end]

read_header ==
  /\ pc = "frame" /\ ~sig.stop_playing_file
  /\ (LimitHit /\ UNCHANGED playbuf) \/ PassFrame(status, seek, hist.goal)
  /\ UNCHANGED <<sig, tables>> /\ Decoding
HeaderForward ==
  /\ pc = "frame" /\ opt.remote /\ ~sig.stop_playing_file /\ status = "PLAYING"
  /\ \E n \in Jumps : PassFrame("SEEKING", MoveSeek(n), Here(at.pos + MoveSeek(n)))
  /\ UNCHANGED <<sig, tables>> /\ Decoding

-----------------------------------------------------------------------------
(* main(): after the decoder, and signals.                                 *)

\* a local file that was rewound is decoded again; a stream's tables are those of the last
\* local file, which are freed once more
DecoderDone ==
  /\ pc = "stopped"
  /\ \/ /\ status = "REWINDING" /\ ~playbuf.stream /\ pc' = "feed"
        /\ UNCHANGED <<remote_file, tables, hist>>
     \/ /\ ~(status = "REWINDING" /\ ~playbuf.stream)
        /\ remote_file' = IF opt.remote /\ status = "STOPPED" THEN None ELSE remote_file
        /\ IF tables = "freed" THEN Crash("tables") /\ UNCHANGED tables
           ELSE /\ pc' = "next" /\ tables' = IF tables = "allocated" THEN "freed" ELSE tables
                /\ UNCHANGED hist
  /\ UNCHANGED <<listVars, opt, status, seek, sig, playbuf, at, paused, frames_played>>

\* handle_signals(): a second Ctrl-C within a second quits.  Until the first file is open,
\* and after one that could not be opened, nothing handles the signal.
handle_signals ==
  /\ pc \in {"feed", "frame", "stopped", "next"} /\ sig.received < MaxSignals
  /\ \E quit \in BOOLEAN :
       sig' = [sig EXCEPT !.quit_now = @ \/ (quit /\ sig.handled),
                          !.stop_playing_file = @ \/ sig.handled, !.received = @ + 1]
  /\ pc' = IF sig.handled THEN pc ELSE "exited"
  /\ UNCHANGED <<listVars, opt, status, seek, playbuf, tables, at, remote_file, paused,
                 frames_played, hist>>

Next ==
  \/ AddFile \/ StartPlaying \/ Shuffle
  \/ NextListed \/ EndOfList \/ NextRemote \/ ListOverrun
  \/ WaitCommand \/ ForwardWaiting
  \/ read_from_mmap \/ read_from_fd \/ NoMoreData
  \/ HeaderStopped \/ HeaderCommand \/ BackOverrun \/ HeaderForward \/ read_header
  \/ DecoderDone \/ handle_signals
Program ==
  \/ NextListed \/ EndOfList \/ NextRemote \/ read_from_mmap \/ read_from_fd \/ NoMoreData
  \/ HeaderStopped \/ read_header \/ DecoderDone
Spec == Init /\ [][Next]_vars
FairSpec == Spec /\ WF_vars(Program)

-----------------------------------------------------------------------------
(* Properties.                                                             *)

\* current_frame, which @F prints and JUMP and PAUSE start from, is the frame that libmad
\* comes to: "Rewinding doesn't correct for frames on its own, so we must do so"
\* (mad.c:672).
FrameIsKnown == pc = "frame" => at.current_frame = at.pos

\* So it is, with the time, as long as the file has not been rewound since it was opened.
KnownUnlessRewound ==
  pc = "frame" /\ ~hist.rewound => at.current_frame = at.pos /\ at.current_time = at.pos

\* LOAD, JUMP and PAUSE, in any order and across the decoder's ends and restarts: the frame
\* that is heard next is the one asked for, unless JUMP and PAUSE counted from a frame of a
\* rewound file, or PAUSE came while frames were skipped.
GoalReached ==
  [][pc = "frame" /\ pc' \in {"frame", "feed"} /\ hist.goal # None /\ hist'.goal = None =>
       hist.goal = [file |-> playbuf.filename, pos |-> at.pos]]_vars

\* "Decode only the first N frames of the stream" (mpg321.1:55): with -n no frame after the
\* N-th is decoded.
FirstFramesOnly == pc = "frame" /\ Counts => at.pos <= playbuf.max_frames

\* -n cuts no file short: the limit stops it after its first N frames, less what an earlier
\* file that ended before its limit has left in frames_played (mad.c:243), over skipped
\* frames, pauses and files in between.
LimitKept ==
  [][pc = "frame" /\ frames_played' < frames_played /\ ~hist.rewound =>
       at.pos + hist.carried >= playbuf.max_frames]_vars

\* What crashes the player, and nothing else does: a stream after a local file, whose
\* tables are freed again (mpg321.c:1133), rewinding a stream (mad.c:681) or beyond the
\* estimated length, and the random number RAND_MAX with one or two files (playlist.c:179).
CrashesKnown ==
  pc = "crashed" =>
    \/ hist.why = "tables" /\ playbuf.stream
    \/ hist.why = "rewound stream" /\ playbuf.stream
    \/ hist.why = "rewound past estimate" /\ Estimate[playbuf.filename] < Real[playbuf.filename]
    \/ hist.why = "list" /\ random_play /\ numfiles \in 1 .. 2

\* "This way no file gets repeated too early" (playlist.c:160): with four files or more,
\* none is played twice in a row.
NotTwiceInARow ==
  [][NextListed /\ random_play /\ numfiles >= 4 /\ ~sig.quit_now =>
       playbuf'.filename # playbuf.filename]_vars

\* However it is loaded, paused, rewound and stopped, the remote control comes to read
\* commands again, until it ends; but a directory is opened for ever (mpg321.c:956).
KeepsReading ==
  opt.remote =>
    []<>(\/ pc = "frame" \/ (pc = "next" /\ remote_file = None)
         \/ pc \in {"exited", "crashed"}
         \/ (remote_file # None /\ Kind[remote_file] = "directory"))
=============================================================================
