---------------------------- MODULE PlaybackQueue ----------------------------
(***************************************************************************)
(* What buffered playback promises a listener, without semaphores, slots   *)
(* or shared counters: a bounded first-in first-out queue of frames.       *)
(* Frames are heard in the order they were decoded.  A frame is dropped    *)
(* only once the decoder is closed, that is when it has posted the last    *)
(* frame of the file or was told to give up, and then everything queued    *)
(* is dropped at once.  A closed queue is reused only when it is empty.    *)
(***************************************************************************)
EXTENDS Naturals, Sequences

CONSTANT Capacity   \* frames it holds, at least one

VARIABLES queue,   \* frames decoded and not yet heard
          next,    \* the number of the next frame
          heard,   \* the number of the last frame heard
          closed   \* no more frames come until the queue is reused
qvars == <<queue, next, heard, closed>>

Init == queue = <<>> /\ next = 1 /\ heard = 0 /\ closed = TRUE

\* the frame may be the last one, which closes the queue
Put == /\ ~closed /\ Len(queue) < Capacity
       /\ queue' = Append(queue, next) /\ next' = next + 1
       /\ closed' \in BOOLEAN
       /\ UNCHANGED heard

Play == /\ queue # <<>>
        /\ heard' = Head(queue) /\ queue' = Tail(queue)
        /\ UNCHANGED <<next, closed>>

Close == /\ ~closed /\ closed' = TRUE
         /\ UNCHANGED <<queue, next, heard>>

Drop == /\ closed /\ queue # <<>> /\ queue' = <<>>
        /\ UNCHANGED <<next, heard, closed>>

Reuse == /\ closed /\ queue = <<>> /\ closed' = FALSE
         /\ UNCHANGED <<queue, next, heard>>

Next == Put \/ Play \/ Close \/ Drop \/ Reuse
Spec == Init /\ [][Next]_qvars
=============================================================================
