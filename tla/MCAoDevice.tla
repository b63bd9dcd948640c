------------------------------- MODULE MCAoDevice -------------------------------
(* An instance of AoDevice for TLC: no or one -o option, the options that name a *)
(* file, and some pairs of -o.                                                    *)
EXTENDS AoDevice

EveryRequest ==
  {{}, {"alsa"}, {"alsa09"}, {"oss"}, {"sun"}, {"esd"}, {"arts"}, {"null"}, {"wav"},
   {"au", "wav"}, {"cdr"}, {"stdout"}, {"userdef"},
   {"alsa", "esd"}, {"sun", "oss"}, {"alsa", "userdef"}}
SomeInstallations ==
  {{}, {"alsa"}, {"oss", "sun"}, {"sun", "esd"}, {"arts"}, {"alsa09", "sun", "arts"}, Chain}
=============================================================================
