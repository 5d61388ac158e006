-------------------------------- MODULE MCDNS --------------------------------
(***************************************************************************)
(* DNS for TLC.  Ids up to 257: the 256th hostname is the first whose      *)
(* id & 65280 is not 0, and the 257th the first whose low byte repeats an  *)
(* earlier hostname's.                                                     *)
(***************************************************************************)
EXTENDS DNS

MCMaxId == 257
====
