--------------------------------- MODULE MCSpi ---------------------------------
(* Instances of Spi for TLC.  The values include one that fits the narrower *)
(* C type only after truncation.                                           *)
EXTENDS Spi, TLC

\* the two objects are alike
Symmetric == Permutations(Objects)
=============================================================================
