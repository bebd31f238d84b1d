--------------------------- MODULE MCCombineSetup ---------------------------
(* Model-checking instance of CombineSetup: the platforms, interpreters   *)
(* and generated scripts the cfg files substitute for the constants.      *)
EXTENDS CombineSetup

MCPlatforms == {"linux", "osx"}
MCLinux == {"linux"}
MCPythons == {3}
MCGenerated == {"libcombine.py", "libcombine3.py"}
====
