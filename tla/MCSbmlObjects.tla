---------------------------- MODULE MCSbmlObjects ----------------------------
EXTENDS SbmlObjects

(* The classes of the reaction tests (TestSBMLParentObject's Reaction,      *)
(* KineticLaw, KineticLaw_Parameter and Model tests; TestL3KineticLaw),     *)
(* each of which the tests also construct directly.                         *)
MCClasses == {"Document", "Model", "Reaction", "KineticLaw", "Parameter"}

(* The classes of the Event tests that hold single children: an Event has *)
(* two slots (Trigger and Delay), so setting one must leave the other.     *)
MCEventClasses == {"Document", "Model", "Event", "Trigger", "Delay"}
====
