----------------------------- MODULE FrameBuffer -----------------------------
(***************************************************************************)
(* Buffered playback of mpg321 ("-b N").  The program forks an output      *)
(* process; the parent decodes frames into a ring of N slots in shared     *)
(* memory and the child plays them.  Three System V semaphores order the   *)
(* two: sem0 counts free slots, sem1 filled slots, sem2 is the rendezvous  *)
(* at the end of a file.  Everything else they share (the counters and     *)
(* flags of Decoded_Frames) is read and written without any lock.          *)
(*                                                                         *)
(* Decoder actions carry the control point dpc, output actions opc; each   *)
(* semaphore operation and each access to the unlocked words is an action  *)
(* of its own.  A frame is represented by its number in decoding order.    *)
(***************************************************************************)
EXTENDS Naturals, Integers, Sequences

CONSTANTS
  N,          \* buffer_size, the argument of -b
  Sources,    \* the inputs a playlist or LOAD may name, see SourceType
  MaxFrames,  \* options.maxframes, the argument of -n; -1 when absent
  Events,     \* what the user and the devices may do, see EventNames
  MaxFiles,   \* bound: inputs opened in one run
  MaxSigints  \* bound: SIGINTs the user sends in one run

(* "load" is LOAD and absolute JUMP, "stop" is STOP and PAUSE: alike here. *)
EventNames == {"load", "rewind", "stop", "quit", "idlestop", "seek",
               "corrupt", "device", "sigint"}

SourceKinds == {"file", "http", "stdin", "fifo", "missing", "bad"}

(* len: frames libmad finds in the stream; est: the length calc_length     *)
(* estimates for a regular file, 0 for every other kind.                   *)
SourceType == [kind : SourceKinds, len : Nat, est : Nat]

ASSUME FrameBufferAssumption ==
  /\ N \in Nat /\ N >= 2
  /\ Sources \subseteq SourceType
  /\ Sources # {}
  /\ MaxFrames \in Nat \cup {-1}
  /\ Events \subseteq EventNames
  /\ MaxFiles \in Nat
  /\ MaxSigints \in Nat

VARIABLES
  sem0, sem1, sem2,          \* the semaphore array
  data,                      \* slot -> number of the frame whose samples it holds
  info,                      \* slot -> what read_header wrote for the output
  decoded, done,             \* Decoded_Frames->total_decoded_frames, ->done
  isHttp, isFile,            \* Decoded_Frames->is_http, ->is_file
  stopShared, quitShared,    \* Decoded_Frames->stop_playing_file, ->quit_now
  dpc, decPos, reg,          \* decoder: control, mad_decoder_position, register
  src, fd, fallback,         \* the input, playbuf.fd # -1, main's sticky fallback
  pbDone, cur, pos,          \* playbuf.done, current_frame, frames consumed
  framesPlayed, rewinding,   \* read_header's static, status = MPG321_REWINDING
  stopD, quitD,              \* the decoder's own stop_playing_file and quit_now
  opc, outPos, played,       \* output: control, output_buffer_position, total_played_frames
  handlerD, handlerO,        \* SIGINT handler installed (else SIG_DFL)
  pending,                   \* signals sent and not yet delivered
  opened, sigints,           \* inputs opened, SIGINTs sent (bounds)
  seq, runStart, heard       \* history: frames decoded, at the start of this run, last heard

semVars  == <<sem0, sem1, sem2>>
ringVars == <<data, info>>
flagVars == <<decoded, done, isHttp, isFile, stopShared, quitShared>>
fileVars == <<src, fd, fallback, pbDone, cur, pos, framesPlayed, rewinding>>
decVars  == <<dpc, decPos, reg, stopD, quitD>>
outVars  == <<opc, outPos, played>>
sigVars  == <<handlerD, handlerO, pending, sigints>>
histVars == <<opened, seq, runStart, heard>>
vars == <<sem0, sem1, sem2, data, info, decoded, done, isHttp, isFile,
          stopShared, quitShared, dpc, decPos, reg, src, fd, fallback, pbDone,
          cur, pos, framesPlayed, rewinding, stopD, quitD, opc, outPos, played,
          handlerD, handlerO, pending, opened, sigints, seq, runStart, heard>>

Slots == 0 .. N - 1

\* what main and, at the end of a file, the output put into the semaphore of
\* free slots; the variants leave no slot between the two positions
InitialTokensAll == N
InitialTokens == N - 1
ResetTokensAll == N
ResetTokens == N - 1

\* getnext_place(): the ring position after p; the variant wraps one early
GetNextPlaceShort(p) == IF p < N - 2 THEN p + 1 ELSE 0
GetNextPlace(p) == IF p < N - 1 THEN p + 1 ELSE 0

DecoderPCs == {"next", "open", "start", "input", "release", "header", "acquire",
               "fill", "post", "count", "store", "wait", "reset", "out", "exit",
               "killed"}
OutputPCs  == {"wait", "look", "play", "free", "set0", "set1", "flags",
               "signal", "dead"}

\* what a slot's header part holds: num_frames = 0, seconds <= 0, and the
\* frame (history) it was written for
InfoType == [frame : Nat, last : BOOLEAN, tail : BOOLEAN]

FlagTypes ==
  /\ done \in BOOLEAN /\ isHttp \in BOOLEAN /\ isFile \in BOOLEAN
  /\ stopShared \in BOOLEAN /\ quitShared \in BOOLEAN
  /\ fd \in BOOLEAN /\ fallback \in BOOLEAN
  /\ pbDone \in BOOLEAN /\ rewinding \in BOOLEAN
  /\ stopD \in BOOLEAN /\ quitD \in BOOLEAN
  /\ handlerD \in BOOLEAN /\ handlerO \in BOOLEAN

DataTypes ==
  /\ sem0 \in Nat /\ sem1 \in Nat /\ sem2 \in Nat
  /\ data \in [Slots -> Nat]
  /\ info \in [Slots -> InfoType]
  /\ decoded \in Nat /\ played \in Nat /\ reg \in Nat
  /\ dpc \in DecoderPCs /\ decPos \in Slots
  /\ opc \in OutputPCs /\ outPos \in Slots
  /\ src \in Sources /\ cur \in Nat /\ pos \in Nat /\ framesPlayed \in Nat
  /\ pending \subseteq {"D", "O", "USR1", "CHLD"}
  /\ opened \in Nat /\ sigints \in Nat
  /\ seq \in Nat /\ runStart \in Nat /\ heard \in Nat

TypeOK == FlagTypes /\ DataTypes

(* main, before and at the fork: the semaphores get N-1, 0 and 0, the slots *)
(* are cleared, both positions are 0.                                      *)
Init ==
  /\ sem0 = InitialTokens /\ sem1 = 0 /\ sem2 = 0
  /\ data = [i \in Slots |-> 0]
  /\ info = [i \in Slots |-> [frame |-> 0, last |-> TRUE, tail |-> TRUE]]
  /\ decoded = 0 /\ done = FALSE /\ isHttp = FALSE /\ isFile = FALSE
  /\ stopShared = FALSE /\ quitShared = FALSE
  /\ dpc = "next" /\ decPos = 0 /\ reg = 0
  /\ src \in Sources /\ fd = FALSE /\ fallback = FALSE
  /\ pbDone = FALSE /\ cur = 0 /\ pos = 0 /\ framesPlayed = 0
  /\ rewinding = FALSE /\ stopD = FALSE /\ quitD = FALSE
  /\ opc = "wait" /\ outPos = 0 /\ played = 0
  /\ handlerD = FALSE /\ handlerO = FALSE /\ pending = {}
  /\ opened = 0 /\ sigints = 0
  /\ seq = 0 /\ runStart = 0 /\ heard = 0

-----------------------------------------------------------------------------
(* The decoder: main's loop over the playlist and libmad's callbacks.      *)

\* get_next_file() returned an input; the fields of playbuf are reset
NextFile(s) ==
  /\ dpc = "next" /\ ~quitD /\ opened < MaxFiles
  /\ dpc' = "open" /\ opened' = opened + 1 /\ src' = s
  /\ fd' = FALSE /\ pbDone' = FALSE /\ cur' = 0 /\ pos' = 0
  /\ handlerD' = FALSE
  /\ UNCHANGED <<semVars, ringVars, flagVars, fallback, framesPlayed, rewinding,
                 decPos, reg, stopD, quitD, outVars, handlerO, pending, sigints,
                 seq, runStart, heard>>

\* quit_now, or nothing left to play
Finish ==
  /\ dpc = "next" /\ (quitD \/ opened = MaxFiles)
  /\ dpc' = "out"
  /\ UNCHANGED <<semVars, ringVars, flagVars, fileVars, decPos, reg, stopD, quitD,
                 outVars, sigVars, histVars>>

\* the kind of input decides is_http and is_file, and the callback used
OpenFile ==
  /\ dpc = "open"
  /\ \/ /\ src.kind = "http"
        /\ isHttp' = TRUE /\ isFile' = FALSE /\ fd' = TRUE /\ dpc' = "start"
        /\ UNCHANGED fallback
     \/ /\ src.kind = "stdin"
        /\ fd' = TRUE /\ dpc' = "start"
        /\ UNCHANGED <<isHttp, isFile, fallback>>
     \/ /\ src.kind \in {"file", "fifo"}
        /\ isHttp' = FALSE /\ isFile' = TRUE /\ dpc' = "start"
        /\ fallback' = (fallback \/ src.kind = "fifo")
        /\ fd' = fallback'
     \/ /\ src.kind = "bad"           \* not a regular file, or no length
        /\ isHttp' = FALSE /\ isFile' = TRUE /\ dpc' \in {"next", "out"}
        /\ UNCHANGED <<fd, fallback>>
     \/ /\ src.kind = "missing"       \* out, unless the remote shell restarts
        /\ dpc' \in {"out", "next"}
        /\ UNCHANGED <<isHttp, isFile, fd, fallback>>
  /\ UNCHANGED <<semVars, ringVars, decoded, done, stopShared, quitShared,
                 src, pbDone, cur, pos, framesPlayed, rewinding, decPos, reg,
                 stopD, quitD, outVars, sigVars, histVars>>

StartDecode ==
  /\ dpc = "start"
  /\ dpc' = "input" /\ decoded' = 0 /\ done' = FALSE
  /\ handlerD' = TRUE /\ runStart' = seq
  /\ UNCHANGED <<semVars, ringVars, isHttp, isFile, stopShared, quitShared, fileVars,
                 decPos, reg, stopD, quitD, outVars, handlerO, pending, sigints,
                 opened, seq, heard>>

\* read_from_mmap(): the whole file at once, from the target of a rewind
ReadMmap ==
  /\ dpc = "input" /\ ~fd
  /\ IF pbDone /\ ~rewinding
     THEN /\ done' = TRUE /\ dpc' = "wait"
          /\ UNCHANGED <<pbDone, cur, pos, rewinding>>
     ELSE /\ pos' = IF rewinding THEN cur ELSE 0
          /\ cur' = 0 /\ pbDone' = TRUE /\ rewinding' = FALSE
          /\ dpc' = "header"
          /\ UNCHANGED done
  /\ UNCHANGED <<semVars, ringVars, decoded, isHttp, isFile, stopShared, quitShared,
                 src, fd, fallback, framesPlayed, decPos, reg, stopD, quitD,
                 outVars, sigVars, histVars>>

\* read_from_fd(): data, or end of stream, noted once and acted on next time
ReadFd ==
  /\ dpc = "input" /\ fd
  /\ \/ /\ pbDone
        /\ done' = TRUE /\ rewinding' = FALSE /\ dpc' = "release"
        /\ UNCHANGED pbDone
     \/ /\ ~pbDone /\ pos < src.len
        /\ dpc' = "header"
        /\ UNCHANGED <<pbDone, done, rewinding>>
     \/ /\ ~pbDone /\ pos = src.len
        /\ pbDone' = TRUE /\ done' = TRUE
        /\ UNCHANGED <<dpc, rewinding>>
  /\ UNCHANGED <<semVars, ringVars, decoded, isHttp, isFile, stopShared, quitShared,
                 src, fd, fallback, cur, pos, framesPlayed, decPos, reg, stopD, quitD,
                 outVars, sigVars, histVars>>

\* read_from_fd(): with no frame decoded, wake the output up (the variant
\* does not)
ReleaseNobody ==
  /\ dpc = "release" /\ dpc' = "wait"
  /\ UNCHANGED <<semVars, ringVars, flagVars, fileVars, decPos, reg, stopD, quitD,
                 outVars, sigVars, histVars>>
Release ==
  /\ dpc = "release"
  /\ sem1' = IF decoded = 0 THEN sem1 + 1 ELSE sem1
  /\ dpc' = "wait"
  /\ UNCHANGED <<sem0, sem2, ringVars, flagVars, fileVars, decPos, reg, stopD, quitD,
                 outVars, sigVars, histVars>>

\* libmad ran out of data: it calls the input callback again
NeedData ==
  /\ dpc = "header" /\ pos = src.len
  /\ dpc' = "input"
  /\ UNCHANGED <<semVars, ringVars, flagVars, fileVars, decPos, reg, stopD, quitD,
                 outVars, sigVars, histVars>>

\* read_header(): stop_playing_file was set by a signal
HeaderStopped ==
  /\ dpc = "header" /\ pos < src.len /\ stopD
  /\ stopD' = FALSE /\ rewinding' = FALSE /\ dpc' = "wait"
  /\ UNCHANGED <<semVars, ringVars, flagVars, src, fd, fallback, pbDone, cur, pos,
                 framesPlayed, decPos, reg, quitD, outVars, sigVars, histVars>>

\* remote_parse_input() and what it calls: the commands answered with
\* MAD_FLOW_STOP
LoadCommand ==
  /\ "load" \in Events
  /\ cur' = 0 /\ rewinding' = FALSE
  /\ UNCHANGED <<quitD, quitShared, stopShared>>
StopCommand ==
  /\ "stop" \in Events
  /\ stopShared' = TRUE /\ rewinding' = FALSE
  /\ UNCHANGED <<quitD, quitShared, cur>>
QuitCommand ==
  /\ "quit" \in Events
  /\ quitD' = TRUE /\ quitShared' = TRUE
  /\ UNCHANGED <<stopShared, cur, rewinding>>
RewindCommand ==
  /\ "rewind" \in Events
  /\ \E target \in 0 .. cur : cur' = target
  /\ rewinding' = TRUE
  /\ UNCHANGED <<quitD, quitShared, stopShared>>

\* read_header(): a command of the remote shell ends decoding
HeaderCommand ==
  /\ dpc = "header" /\ pos < src.len /\ ~stopD
  /\ dpc' = "wait"
  /\ LoadCommand \/ StopCommand \/ QuitCommand \/ RewindCommand
  /\ UNCHANGED <<semVars, ringVars, decoded, done, isHttp, isFile, src, fd, fallback,
                 pbDone, pos, framesPlayed, decPos, reg, stopD, outVars, sigVars,
                 histVars>>

\* playbuf.max_frames: -n holds only for files at least that long
FrameLimit ==
  IF src.kind = "file" /\ MaxFrames <= src.est THEN MaxFrames ELSE -1

\* read_header(): the limit of -n is passed
HeaderLimit ==
  /\ dpc = "header" /\ pos < src.len /\ ~stopD
  /\ FrameLimit # -1 /\ framesPlayed > FrameLimit
  /\ framesPlayed' = 0 /\ done' = TRUE /\ rewinding' = FALSE /\ dpc' = "wait"
  /\ UNCHANGED <<semVars, ringVars, decoded, isHttp, isFile, stopShared, quitShared,
                 src, fd, fallback, pbDone, cur, pos, decPos, reg, stopD, quitD,
                 outVars, sigVars, histVars>>

\* read_header(): the frame goes on.  Its header part is written to the slot
\* at decPos before output() has waited for that slot; seconds only for a
\* file, and from a variable that is unset in the default mode.
HeaderPassed ==
  /\ dpc = "header" /\ pos < src.len /\ ~stopD
  /\ FrameLimit = -1 \/ framesPlayed <= FrameLimit
  /\ framesPlayed' = IF FrameLimit = -1 THEN framesPlayed ELSE framesPlayed + 1
  /\ cur' = cur + 1 /\ pos' = pos + 1
  /\ \/ /\ "seek" \in Events            \* SEEKING: the frame is skipped
        /\ UNCHANGED <<dpc, info, rewinding>>
     \/ /\ \E t \in BOOLEAN :
              info' = [info EXCEPT ![decPos] =
                         [frame |-> seq + 1,
                          last  |-> src.est = cur + 1,
                          tail  |-> IF isFile THEN t ELSE @.tail]]
        /\ rewinding' = FALSE
        /\ \/ dpc' = "acquire"
           \/ "corrupt" \in Events /\ dpc' = "header"   \* handle_error(): skipped
  /\ UNCHANGED <<semVars, data, flagVars, src, fd, fallback, pbDone, decPos, reg,
                 stopD, quitD, outVars, sigVars, histVars>>

\* output(): wait for a free slot (the variant does not wait)
AcquireSlotAnyway ==
  /\ dpc = "acquire"
  /\ sem0' = sem0 - 1 /\ dpc' = "fill"
  /\ UNCHANGED <<sem1, sem2, ringVars, flagVars, fileVars, decPos, reg, stopD, quitD,
                 outVars, sigVars, histVars>>
AcquireSlot ==
  /\ dpc = "acquire" /\ sem0 > 0
  /\ sem0' = sem0 - 1 /\ dpc' = "fill"
  /\ UNCHANGED <<sem1, sem2, ringVars, flagVars, fileVars, decPos, reg, stopD, quitD,
                 outVars, sigVars, histVars>>

FillSlot ==
  /\ dpc = "fill"
  /\ data' = [data EXCEPT ![decPos] = seq + 1] /\ seq' = seq + 1
  /\ decPos' = GetNextPlace(decPos) /\ dpc' = "post"
  /\ UNCHANGED <<semVars, info, flagVars, fileVars, reg, stopD, quitD, outVars,
                 sigVars, opened, runStart, heard>>

PostFrame ==
  /\ dpc = "post"
  /\ sem1' = sem1 + 1 /\ dpc' = "count"
  /\ UNCHANGED <<sem0, sem2, ringVars, flagVars, fileVars, decPos, reg, stopD, quitD,
                 outVars, sigVars, histVars>>

\* total_decoded_frames += 1, after the post and without a lock
LoadCount ==
  /\ dpc = "count"
  /\ reg' = decoded /\ dpc' = "store"
  /\ UNCHANGED <<semVars, ringVars, flagVars, fileVars, decPos, stopD, quitD,
                 outVars, sigVars, histVars>>

StoreCount ==
  /\ dpc = "store"
  /\ decoded' = reg + 1 /\ dpc' = "header"
  /\ UNCHANGED <<semVars, ringVars, done, isHttp, isFile, stopShared, quitShared,
                 fileVars, decPos, reg, stopD, quitD, outVars, sigVars, histVars>>

\* main: wait for the output's end of file
AwaitEnd ==
  /\ dpc = "wait" /\ sem2 > 0
  /\ sem2' = sem2 - 1 /\ dpc' = "reset"
  /\ UNCHANGED <<sem0, sem1, ringVars, flagVars, fileVars, decPos, reg, stopD, quitD,
                 outVars, sigVars, histVars>>

\* main: reset for the next file, or run the decoder again after a rewind
ResetDecoder ==
  /\ dpc = "reset"
  /\ decPos' = 0 /\ sem2' = 0
  /\ decoded' = 0 /\ done' = FALSE /\ isHttp' = FALSE /\ isFile' = FALSE
  /\ IF rewinding /\ ~fd
     THEN dpc' = "input" /\ runStart' = seq
     ELSE dpc' = "next" /\ UNCHANGED runStart
  /\ UNCHANGED <<sem0, sem1, ringVars, stopShared, quitShared, fileVars, reg,
                 stopD, quitD, outVars, sigVars, opened, seq, heard>>

\* main, at out: stop the output process, wait for it, release the resources
Shutdown ==
  /\ dpc = "out"
  /\ dpc' = "exit" /\ opc' = "dead"
  /\ UNCHANGED <<semVars, ringVars, flagVars, fileVars, decPos, reg, stopD, quitD,
                 outPos, played, sigVars, histVars>>

\* the remote shell while no file plays: STOP (when status is not STOPPED,
\* say after PAUSE) and QUIT
IdleStop ==
  /\ dpc = "next" /\ "idlestop" \in Events /\ opened > 0
  /\ stopShared' = TRUE
  /\ UNCHANGED <<semVars, ringVars, decoded, done, isHttp, isFile, quitShared, fileVars,
                 decVars, outVars, sigVars, histVars>>

IdleQuit ==
  /\ dpc = "next" /\ "quit" \in Events /\ ~quitD
  /\ quitD' = TRUE /\ quitShared' = TRUE
  /\ UNCHANGED <<semVars, ringVars, decoded, done, isHttp, isFile, stopShared, fileVars,
                 dpc, decPos, reg, stopD, outVars, sigVars, histVars>>

-----------------------------------------------------------------------------
(* The output process: frame_buffer_p().                                   *)

TakeFrame ==
  /\ opc = "wait" /\ sem1 > 0
  /\ sem1' = sem1 - 1 /\ opc' = "look"
  /\ UNCHANGED <<sem0, sem2, ringVars, flagVars, fileVars, decVars, outPos, played,
                 sigVars, histVars>>

\* the condition under which the frame just taken ends the file; the
\* variants forget one term of it
EndRequestedQuit == quitShared
EndRequested == quitShared \/ stopShared
FileTailEarly == isFile /\ info[outPos].tail
FileTail == isFile /\ done /\ info[outPos].tail
FileDrainedNever == FALSE
FileDrainedEarly == isFile /\ decoded - 1 = played
FileDrained == isFile /\ done /\ decoded - 1 = played
EndOfFile ==
  \/ info[outPos].last \/ EndRequested
  \/ isHttp /\ done /\ decoded - played \in {0, 1}
  \/ FileTail \/ FileDrained
  \/ done /\ decoded = 0

\* the header is read and the device opened, which leaves SIGINT handled
LookPlay ==
  /\ opc = "look" /\ ~EndOfFile
  /\ opc' = "play" /\ handlerO' = TRUE
  /\ UNCHANGED <<semVars, ringVars, flagVars, fileVars, decVars, outPos, played,
                 handlerD, pending, sigints, histVars>>

LookEnd ==
  /\ opc = "look" /\ EndOfFile
  /\ opc' = "set0" /\ handlerO' = TRUE
  /\ UNCHANGED <<semVars, ringVars, flagVars, fileVars, decVars, outPos, played,
                 handlerD, pending, sigints, histVars>>

\* the device cannot be opened: the parent is told, and this file ends (in
\* the variant the output goes on to the next frame)
DeviceFailsQuietly ==
  /\ opc = "look" /\ "device" \in Events /\ ~handlerO
  /\ stopShared' = TRUE /\ quitShared' = TRUE
  /\ pending' = pending \cup {"USR1"} /\ opc' = "wait"
  /\ UNCHANGED <<semVars, ringVars, decoded, done, isHttp, isFile, fileVars, decVars,
                 outPos, played, handlerD, handlerO, sigints, histVars>>
DeviceFails ==
  /\ opc = "look" /\ "device" \in Events /\ ~handlerO
  /\ stopShared' = TRUE /\ quitShared' = TRUE
  /\ pending' = pending \cup {"USR1"} /\ opc' = "set0"
  /\ UNCHANGED <<semVars, ringVars, decoded, done, isHttp, isFile, fileVars, decVars,
                 outPos, played, handlerD, handlerO, sigints, histVars>>

\* ao_play(), the counters and the position
PlayFrame ==
  /\ opc = "play"
  /\ heard' = data[outPos] /\ played' = played + 1
  /\ outPos' = GetNextPlace(outPos) /\ opc' = "free"
  /\ UNCHANGED <<semVars, ringVars, flagVars, fileVars, decVars, sigVars,
                 opened, seq, runStart>>

FreeSlot ==
  /\ opc = "free"
  /\ sem0' = sem0 + 1 /\ opc' = "wait"
  /\ UNCHANGED <<sem1, sem2, ringVars, flagVars, fileVars, decVars, outPos, played,
                 sigVars, histVars>>

\* the end of a file: two SETVALs, the shared words, the rendezvous
EndSetFree ==
  /\ opc = "set0"
  /\ sem0' = ResetTokens /\ opc' = "set1"
  /\ UNCHANGED <<sem1, sem2, ringVars, flagVars, fileVars, decVars, outPos, played,
                 sigVars, histVars>>

EndSetFilledStay ==                   \* the variant keeps its position
  /\ opc = "set1"
  /\ sem1' = 0 /\ opc' = "flags"
  /\ UNCHANGED <<sem0, sem2, ringVars, flagVars, fileVars, decVars, outPos, played,
                 sigVars, histVars>>
EndSetFilled ==
  /\ opc = "set1"
  /\ sem1' = 0 /\ outPos' = 0 /\ opc' = "flags"
  /\ UNCHANGED <<sem0, sem2, ringVars, flagVars, fileVars, decVars, played,
                 sigVars, histVars>>

EndResetFlags ==
  /\ opc = "flags"
  /\ decoded' = 0 /\ done' = FALSE /\ isHttp' = FALSE /\ isFile' = FALSE
  /\ stopShared' = FALSE /\ played' = 0 /\ opc' = "signal"
  /\ UNCHANGED <<semVars, ringVars, quitShared, fileVars, decVars, outPos,
                 sigVars, histVars>>

EndSignal ==
  /\ opc = "signal"
  /\ sem2' = sem2 + 1 /\ opc' = "wait"
  /\ UNCHANGED <<sem0, sem1, ringVars, flagVars, fileVars, decVars, outPos, played,
                 sigVars, histVars>>

-----------------------------------------------------------------------------
(* Signals.  A process runs the handler of a pending signal before its     *)
(* next instruction (Next below).  semop() is never restarted after a      *)
(* handler: a process blocked in it goes on as if it had succeeded, since  *)
(* its result is not looked at.                                            *)

\* the 'n' key or kill reach the decoder, Ctrl-C reaches both processes
UserSigint ==
  /\ "sigint" \in Events /\ sigints < MaxSigints /\ dpc \notin {"exit", "killed"}
  /\ sigints' = sigints + 1
  /\ \E to \in {{"D"}, {"D", "O"}} : pending' = pending \cup to
  /\ UNCHANGED <<semVars, ringVars, flagVars, fileVars, decVars, outVars,
                 handlerD, handlerO, histVars>>

DecoderInterrupted ==
  \/ dpc = "acquire" /\ sem0 = 0 /\ dpc' = "fill"
  \/ dpc = "wait" /\ sem2 = 0 /\ dpc' = "reset"
  \/ UNCHANGED dpc

\* handle_signals(SIGINT) in the decoder; a second one within a second quits
SigintDecoder ==
  /\ "D" \in pending /\ dpc \notin {"exit", "killed"}
  /\ pending' = pending \ {"D"}
  /\ IF handlerD
     THEN /\ stopD' = TRUE /\ stopShared' = TRUE
          /\ \/ quitD' = TRUE /\ quitShared' = TRUE
             \/ UNCHANGED <<quitD, quitShared>>
          /\ DecoderInterrupted
     ELSE /\ dpc' = "killed"
          /\ UNCHANGED <<stopD, stopShared, quitD, quitShared>>
  /\ UNCHANGED <<semVars, ringVars, decoded, done, isHttp, isFile, fileVars, decPos,
                 reg, outVars, handlerD, handlerO, sigints, histVars>>

\* handle_signals(SIGUSR1) in the decoder: the output could not open the device
Usr1Decoder ==
  /\ "USR1" \in pending /\ dpc \notin {"exit", "killed"}
  /\ pending' = pending \ {"USR1"}
  /\ stopD' = TRUE /\ stopShared' = TRUE /\ quitD' = TRUE /\ quitShared' = TRUE
  /\ DecoderInterrupted
  /\ UNCHANGED <<semVars, ringVars, decoded, done, isHttp, isFile, fileVars, decPos,
                 reg, outVars, handlerD, handlerO, sigints, histVars>>

\* handle_sigchld(): only the interruption matters
ChldDecoder ==
  /\ "CHLD" \in pending /\ dpc \notin {"exit", "killed"}
  /\ pending' = pending \ {"CHLD"}
  /\ IF handlerD THEN DecoderInterrupted ELSE UNCHANGED dpc
  /\ UNCHANGED <<semVars, ringVars, flagVars, fileVars, decPos, reg, stopD, quitD,
                 outVars, handlerD, handlerO, sigints, histVars>>

SigintOutput ==
  /\ "O" \in pending /\ opc # "dead"
  /\ IF handlerO
     THEN /\ stopShared' = TRUE
          /\ (quitShared' = TRUE \/ UNCHANGED quitShared)
          /\ \/ opc = "wait" /\ sem1 = 0 /\ opc' = "look"
             \/ UNCHANGED opc
          /\ pending' = pending \ {"O"}
     ELSE /\ opc' = "dead" /\ pending' = (pending \ {"O"}) \cup {"CHLD"}
          /\ UNCHANGED <<stopShared, quitShared>>
  /\ UNCHANGED <<semVars, ringVars, decoded, done, isHttp, isFile, fileVars, decVars,
                 outPos, played, handlerD, handlerO, sigints, histVars>>

-----------------------------------------------------------------------------
ReadHeader == HeaderStopped \/ HeaderCommand \/ HeaderLimit \/ HeaderPassed

DecoderStep ==
  \/ \E s \in Sources : NextFile(s)
  \/ Finish \/ OpenFile \/ StartDecode \/ ReadMmap \/ ReadFd \/ Release
  \/ NeedData \/ ReadHeader
  \/ AcquireSlot \/ FillSlot \/ PostFrame \/ LoadCount \/ StoreCount
  \/ AwaitEnd \/ ResetDecoder \/ Shutdown

OutputStep ==
  \/ TakeFrame \/ LookPlay \/ LookEnd \/ DeviceFails \/ PlayFrame \/ FreeSlot
  \/ EndSetFree \/ EndSetFilled \/ EndResetFlags \/ EndSignal

Delivery == SigintDecoder \/ Usr1Decoder \/ ChldDecoder \/ SigintOutput

\* what runs while no signal waits for the process
Decoder == pending \cap {"D", "USR1", "CHLD"} = {} /\ DecoderStep
Output  == "O" \notin pending /\ OutputStep

Next == Decoder \/ Output \/ Delivery \/ IdleStop \/ IdleQuit \/ UserSigint

Spec == Init /\ [][Next]_vars

(* Both processes are scheduled, and a signal sent is delivered.  Nothing   *)
(* is assumed of the user.                                                  *)
FairSpec ==
  Spec /\ WF_vars(Decoder) /\ WF_vars(Output) /\ WF_vars(Delivery)

-----------------------------------------------------------------------------
(* What keeps the two processes apart.                                     *)

DecoderHolds == dpc \in {"fill", "post"}          \* a slot token is in its hands
OutputHolds  == opc \in {"look", "play", "free"}
Ending       == opc \in {"set0", "set1", "flags", "signal"}

\* slots handed to the output and not yet played, from outPos on
InFlight == sem1 + (IF opc \in {"look", "play"} THEN 1 ELSE 0)
InFlightSlot(k) == IF outPos + k < N THEN outPos + k ELSE outPos + k - N

(* Between two ends of file no slot token is lost or invented: free,       *)
(* filled and held slots always add up to the buffer_size - 1 that main    *)
(* put into the first semaphore.                                           *)
TokensConserved ==
  ~Ending => sem0 + sem1 + (IF DecoderHolds THEN 1 ELSE 0)
                         + (IF OutputHolds THEN 1 ELSE 0) = N - 1

(* The slot the decoder writes, samples in output() or header part in      *)
(* read_header() before it owns any token, is never the one the output     *)
(* reads.                                                                  *)
SlotExclusive ==
  dpc \in {"header", "acquire", "fill"} /\ opc \in {"look", "play"}
    => decPos # outPos

(* Every frame on its way to the output carries its own num_frames and     *)
(* seconds: read_header() of a later frame has not overwritten them.       *)
HeaderMatchesFrame ==
  ~Ending => \A k \in 0 .. N - 1 :
    k < InFlight => info[InFlightSlot(k)].frame = data[InFlightSlot(k)]

(* The output resets the semaphores and counters of a file only when the   *)
(* decoder has posted its last frame of that file.                         *)
ResetAfterLastPost ==
  Ending => \/ dpc \in {"count", "store", "wait"}
            \/ dpc \in {"header", "input"} /\ pos = src.len

(* After the rendezvous and until the next input is decoded the ring is    *)
(* as main made it: no token out, nothing queued, the output waiting at    *)
(* slot 0, so that both sides start the next file in the same place.       *)
Clean == /\ sem0 = N - 1 /\ sem1 = 0 /\ sem2 = 0
         /\ opc = "wait" /\ outPos = 0 /\ played = 0
CleanBetweenFiles ==
  dpc \in {"reset", "next", "open", "start"}
    => Clean /\ (dpc # "reset" => decPos = 0)

(* The frames of a run of the decoder are heard in decoding order, without *)
(* a gap, from its first one; nothing of an earlier run is heard again.    *)
HeardInOrder ==
  [][opc = "play" /\ opc' = "free"
       => heard' = IF heard > runStart THEN heard + 1 ELSE runStart + 1]_vars

(* When the decoder has announced the end of a file and the output has yet *)
(* to look at a frame of it, the output ends the file: the decoder does    *)
(* not wait for ever.                                                      *)
EofNoticed ==
  (dpc = "wait" /\ done /\ isFile /\ (sem1 > 0 \/ opc = "look")) ~> dpc # "wait"

(* A stop or quit request that the output has yet to see, with a frame on  *)
(* its way, releases a decoder that already waits for the end of the file; *)
(* whatever signals, commands and device failures come in between.         *)
StopNoticed ==
  (dpc = "wait" /\ (stopShared \/ quitShared) /\ (sem1 > 0 \/ opc = "look"))
    ~> (dpc # "wait" \/ opc = "dead")

(* When the output process could not open the audio device, the program    *)
(* ends, unless a SIGINT kills the output before it has said so to the end *)
(* of the file: the decoder it leaves behind may then wait.                *)
DeviceFailureExits ==
  "USR1" \in pending ~> (dpc \in {"exit", "killed"} \/ opc = "dead")

(* A stream in which no frame was found still ends: the decoder wakes the  *)
(* output up itself.  Only an output killed by a SIGINT before it has      *)
(* opened the device leaves the decoder waiting.                           *)
EmptyStreamEnds ==
  (dpc = "wait" /\ fd /\ done /\ seq = runStart)
    ~> (dpc # "wait" \/ opc = "dead")

(* The promise of PlaybackQueue: the queue is what the output has been     *)
(* handed and has not played, and it is closed from the decoder's last     *)
(* post of a file to its next header.                                      *)
Queued == IF Ending THEN <<>>
          ELSE [k \in 1 .. InFlight |-> data[InFlightSlot(k - 1)]]
Closed == \/ dpc \in {"wait", "reset", "next", "open", "start", "out", "exit"}
          \/ dpc \in {"count", "store", "header", "input"} /\ pos = src.len

Playback == INSTANCE PlaybackQueue
              WITH Capacity <- N - 1, queue <- Queued, heard <- heard,
                   next <- IF dpc = "post" THEN seq ELSE seq + 1,
                   closed <- Closed
ImplementsPlayback == Playback!Spec

-----------------------------------------------------------------------------
(* What the documents say of this program and the code does not do.        *)

(* README.remote: "LOAD <file>: Loads and starts playing <file>."  A       *)
(* decoder stopped by LOAD gets on to the new file.                        *)
LoadTakesEffect ==
  (dpc = "wait" /\ ~done /\ ~stopShared /\ ~quitShared) ~> dpc # "wait"

-----------------------------------------------------------------------------
(* The inductive strengthening of the safety properties above, for runs in *)
(* which nothing but regular files is played, no estimate falls short, and *)
(* only the remote shell's commands during playback disturb the decoder.   *)

RegularRun ==
  /\ \A s \in Sources : s.kind \in {"file", "bad", "missing"}
  /\ \A s \in Sources : s.kind = "file" => s.est >= s.len
  /\ Events \cap {"idlestop", "device", "sigint"} = {}

Running == dpc \in {"input", "header", "acquire", "fill", "post", "count", "store",
                    "wait"}
LastPosted == \/ dpc = "wait"
              \/ dpc \in {"count", "store", "header", "input"} /\ pos = src.len
Ended == Ending \/ sem2 > 0

\* no signal, no stream, and where each flag may be set
QuietInv ==
  /\ pending = {} /\ ~stopD /\ ~fd /\ ~fallback /\ ~isHttp
  /\ dpc \notin {"release", "killed"}
  /\ dpc \in {"start", "reset"} \/ Running => src.kind = "file"
  /\ done => dpc \in {"wait", "reset"}
  /\ stopShared => dpc = "wait" /\ sem2 = 0 /\ opc # "signal"
  /\ quitShared => quitD
  /\ quitD => dpc \in {"wait", "reset", "next", "out", "exit"} /\ ~rewinding
  /\ rewinding => dpc \in {"wait", "reset", "input"}
  /\ cur <= pos
  /\ dpc \in {"open", "start"} => pos = 0
  /\ dpc = "reset" \/ Running => pos <= src.len
  /\ Running /\ dpc # "input" => pbDone

\* the stages of the rendezvous
PhaseInv ==
  /\ sem2 \in {0, 1}
  /\ Ended => LastPosted
  /\ dpc = "input" /\ (rewinding \/ ~pbDone) => Clean
  /\ sem2 = 1 => /\ opc = "wait" /\ sem0 = N - 1 /\ sem1 = 0
                 /\ outPos = 0 /\ played = 0
  /\ opc \in {"set1", "flags", "signal"} => sem0 = N - 1
  /\ opc \in {"flags", "signal"} => sem1 = 0 /\ outPos = 0
  /\ opc = "signal" => played = 0
  /\ dpc \in {"out", "exit"} => sem0 = N - 1 /\ sem1 = 0 /\ sem2 = 0
  /\ dpc = "out" => opc = "wait"
  /\ opc = "dead" => dpc = "exit"
  /\ dpc = "exit" => opc = "dead"

\* the slots from outPos on, the one just filled included, hold consecutive
\* frames with their own headers; the next one to hear comes first
Occupied == InFlight + (IF dpc = "post" THEN 1 ELSE 0)
RingInv ==
  /\ Running /\ ~Ended =>
       /\ decPos = InFlightSlot(Occupied)
       /\ seq - Occupied = IF heard > runStart THEN heard ELSE runStart
       /\ \A k \in 0 .. N - 1 : k < Occupied =>
            /\ data[InFlightSlot(k)] = (seq - Occupied) + 1 + k
            /\ info[InFlightSlot(k)].frame = data[InFlightSlot(k)]
            /\ info[InFlightSlot(k)].last =>
                 LastPosted \/ (dpc = "post" /\ pos = src.len /\ k = InFlight)
  /\ dpc \in {"acquire", "fill"} =>
       /\ info[decPos].frame = seq + 1
       /\ info[decPos].last => pos = src.len
  /\ heard <= seq

FilesInv == QuietInv /\ PhaseInv /\ TokensConserved /\ CleanBetweenFiles /\ RingInv

=============================================================================
