---------------------------- MODULE MCNumlTools ----------------------------
(* Model-checking instance of NumlTools: one metaid, an input file that   *)
(* may exist and an output file that does not at first; the output file  *)
(* is the one createExample52 always writes.                               *)
EXTENDS NumlTools

MCMetaIds == {"m1"}
MCFiles == {"data", "example5_2.xml"}
MCInputs == {"data"}
====
