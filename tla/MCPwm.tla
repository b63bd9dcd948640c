--------------------------------- MODULE MCPwm ---------------------------------
(* An instance of Pwm for TLC.  One channel is given several settings, the   *)
(* other one, which only matters for the list, a single one.                *)
EXTENDS Pwm

CONSTANTS a, b

\* two periods, of which one is odd, a frequency above 1e9, and a wrong duty cycle; the
\* setters take period and duty cycle from different ones, so all pairs of them come up
Setting(k, p, d, pol) == [key |-> k, period |-> p, duty |-> d, polarity |-> pol]
SomeSettings ==
  {Setting(a, 0, 50, 0), Setting(a, 2, 50, 0), Setting(a, 3, 100, 0), Setting(a, 3, 100, 1),
   Setting(b, 3, 100, 1), Setting(b, 3, 101, 0)}
=============================================================================
