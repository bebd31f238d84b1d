---------------------------- MODULE MCOwnedValues ----------------------------
EXTENDS OwnedValues

(* Two contents, so that a copy of a different value and a copy of the    *)
(* same value can be told apart.                                           *)
MCContents == {"c1", "c2"}
====
