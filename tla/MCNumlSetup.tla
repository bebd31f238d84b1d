---------------------------- MODULE MCNumlSetup ----------------------------
(* Instantiates NumlSetup for TLC: single-configuration generators (Linux  *)
(* and macOS), Python 3, a SWIG build that writes both the generic and the *)
(* Python 3 script, and four consecutive setup.py processes.              *)
EXTENDS NumlSetup

MCPlatforms == {"linux", "osx"}
MCLinux == {"linux"}
MCWinPlatforms == {"win64"}
MCPythons == {3}
MCGenerated == {"libnuml.py", "libnuml3.py"}
====
