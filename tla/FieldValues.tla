----------------------------- MODULE FieldValues -----------------------------
(***************************************************************************)
(* What the object-valued setters of Constraint, InitialAssignment and    *)
(* ModelHistory promise a Python program, as TestConstraint,              *)
(* TestInitialAssignment and TestModelHistory_newSetters assert it, with  *)
(* nothing about memory: a field holds, by value, what the last           *)
(* successful setX gave it (isSetX tells whether it holds anything);      *)
(* setX(None) and unsetX() clear it, except that setModifiedDate(None)    *)
(* fails; an invalid date or creator is refused; a refused call changes   *)
(* nothing; addCreator appends a creator. The Python program's own        *)
(* values are not part of this state: constructing or dropping one        *)
(* changes no field.                                                       *)
(*                                                                         *)
(* OwnedValues implements this with memory cells and deep copies; its     *)
(* FieldValuesSpec checks the refinement.                                  *)
(***************************************************************************)
EXTENDS Sequences

CONSTANTS
    Contents,    \* valid contents: formulas, messages, dates, creators
    Bad,         \* an invalid date or a creator without family name
    None

VARIABLES
    value,       \* field -> the value it holds, None when unset
    creators,    \* the creators' values, in the order they were added
    rc,          \* the code the last call returned
    last         \* the last call; a setter is recorded as the field it sets

vars == <<value, creators, rc, last>>

Kind == [f \in {"C.math", "IA.math", "C.message", "MH.created", "MH.modified"} |->
           CASE f \in {"C.math", "IA.math"} -> "math"
             [] f = "C.message"             -> "message"
             [] OTHER                       -> "date"]
Fields == DOMAIN Kind
Kinds == {"math", "message", "date", "creator"}
Value == [kind : Kinds, content : Contents]
         \cup [kind : {"date", "creator"}, content : {Bad}]

(* The arguments a setter of kind k accepts in Python: a value or None.    *)
ArgsOf(k) == {v \in Value : v.kind = k} \cup {None}

Refused(code) == rc' = code /\ UNCHANGED <<value, creators>>

(* setMath, setMessage, setCreatedDate, setModifiedDate with argument a.  *)
Set(f, a) ==
    /\ last' = f
    /\ CASE a = None /\ f = "MH.modified" -> Refused("operation_failed")
         [] a # None /\ a.content = Bad  -> Refused("invalid_object")
         [] OTHER -> /\ value' = [value EXCEPT ![f] = a]
                     /\ rc' = "success"
                     /\ UNCHANGED creators

SetValue == \E f \in Fields : \E a \in ArgsOf(Kind[f]) : Set(f, a)

UnsetMessage ==
    /\ last' = "unsetMessage"
    /\ value' = [value EXCEPT !["C.message"] = None]
    /\ rc' = "success"
    /\ UNCHANGED creators

AddCreator ==
    /\ last' = "addCreator"
    /\ \E a \in ArgsOf("creator") :
         CASE a = None         -> Refused("operation_failed")
           [] a.content = Bad  -> Refused("invalid_object")
           [] OTHER -> /\ creators' = Append(creators, a)
                       /\ rc' = "success"
                       /\ UNCHANGED value

(* The program constructs a value or drops one of its own.                 *)
ProgramStep ==
    /\ last' \in {"make", "drop"}
    /\ rc' = "success"
    /\ UNCHANGED <<value, creators>>

Init ==
    /\ value = [f \in Fields |-> None]
    /\ creators = << >>
    /\ rc = "success"
    /\ last = "constructor"

Next == SetValue \/ UnsetMessage \/ AddCreator \/ ProgramStep

Spec == Init /\ [][Next]_vars
====
