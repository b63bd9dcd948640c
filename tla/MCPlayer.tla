------------------------------- MODULE MCPlayer -------------------------------
(* An instance of Player for TLC: a file whose estimate is right, one that is    *)
(* longer than its estimate, a stream, and what cannot be played.                *)
EXTENDS Player

SomeKinds ==
  [a |-> "local", b |-> "local", c |-> "corrupt", d |-> "directory", m |-> "missing",
   s |-> "stream"]
SomeReal == [SomeKinds EXCEPT !.a = 4, !.b = 4, !.c = 1, !.d = 1, !.m = 1, !.s = 3]
SomeEstimate == [SomeKinds EXCEPT !.a = 4, !.b = 1, !.c = 0, !.d = 0, !.m = 0, !.s = 0]
SomeSongs == <<"a", "c", "s", "b">>
SomeLimits == {-1, 1, 3}
=============================================================================
