---------------------------- MODULE MCFrameBuffer ----------------------------
(* Instances of FrameBuffer for TLC: the inputs of each run.               *)
EXTENDS FrameBuffer

NoLimit == -1

File(n, e) == [kind |-> "file", len |-> n, est |-> e]
Stream(k, n) == [kind |-> k, len |-> n, est |-> 0]

\* Regular files whose estimated length is exact or too long: what
\* calc_length gives for a constant bit rate and for a Xing header.
RegularSources == {File(0, 1), File(1, 2), File(2, 2), File(4, 5),
                   Stream("bad", 0), Stream("missing", 0)}

\* Streams without a frame, a FIFO and a file, which is read from a
\* descriptor when it comes after the FIFO.
FaultSources == {Stream("http", 0), Stream("stdin", 0), Stream("fifo", 0),
                 File(2, 3)}

TwoFiles == {File(2, 3), File(3, 4)}
=============================================================================
