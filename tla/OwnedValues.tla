----------------------------- MODULE OwnedValues -----------------------------
(***************************************************************************)
(* The object-valued fields of libSBML elements, as the binding tests     *)
(* drive them: Constraint.math and .message, InitialAssignment.math, and   *)
(* ModelHistory's created date, modified date and creators.                *)
(*                                                                         *)
(* A field owns its value. setX(v) stores a deep copy of v (the tests     *)
(* check getX() != v), so the Python program keeps owning v; setX(getX()) *)
(* passes the field its own value back and must keep it; setX(None) and   *)
(* unsetX() delete the value. ModelHistory refuses an invalid date or     *)
(* creator with LIBSBML_INVALID_OBJECT and a None modified date or        *)
(* creator with LIBSBML_OPERATION_FAILED.                                  *)
(*                                                                         *)
(* Memory is the cells 1..MaxCells; a cell holds a value or None (free).  *)
(* A value is a record of its kind and either a valid content or Bad.     *)
(***************************************************************************)
EXTENDS Naturals, Sequences, FiniteSets

CONSTANTS
    Contents,    \* valid contents: formulas, messages, dates, creators
    Bad,         \* an invalid date ("Jan 12") or a creator without family name
    Garbage,     \* what a read of a freed cell may return
    MaxCells,    \* cells of memory
    MaxCalls,    \* calls in one behaviour
    None

Cells == 1..MaxCells

(* The fields and the kind of value each holds.                            *)
Kind == [f \in {"C.math", "IA.math", "C.message", "MH.created", "MH.modified"} |->
           CASE f \in {"C.math", "IA.math"} -> "math"
             [] f = "C.message"             -> "message"
             [] OTHER                       -> "date"]
Fields == DOMAIN Kind
Kinds == {"math", "message", "date", "creator"}

(* The values a program can construct: parseFormula, XMLNode, Date and    *)
(* ModelCreator; only a Date or a ModelCreator can be invalid.             *)
Value == [kind : Kinds, content : Contents]
         \cup [kind : {"date", "creator"}, content : {Bad}]

VARIABLES
    heap,        \* cell -> the value stored there, None when free
    py,          \* the cells the Python program owns
    field,       \* field -> the cell it owns, None when unset
    creators,    \* ModelHistory's creator list, cells in order
    rc,          \* the code the last call returned
    last,        \* the last call; a setter is recorded as the field it sets
    calls

vars == <<heap, py, field, creators, rc, last, calls>>
state == <<heap, py, field, creators>>

Codes == {"success", "invalid_object", "operation_failed"}

FreeCells == {c \in Cells : heap[c] = None}
(* new: the lowest free cell, as an allocator would hand it out.           *)
NewCell == CHOOSE c \in FreeCells : \A d \in FreeCells : c <= d

Call(name) == /\ calls < MaxCalls /\ calls' = calls + 1 /\ last' = name

(* The values a Python program can pass for a field of kind k: one it     *)
(* made, what a field of that kind returns from getX() now, or None.      *)
Args(k) ==
    {c \in py : heap[c].kind = k}
    \cup {field[g] : g \in {g \in Fields : Kind[g] = k /\ field[g] # None}}
    \cup {None}

-----------------------------------------------------------------------------
(* The Python program constructs a value: parseFormula, XMLNode, Date,    *)
(* ModelCreator.                                                           *)
Make ==
    /\ Call("make")
    /\ FreeCells # {}
    /\ \E v \in Value :
         /\ heap' = [heap EXCEPT ![NewCell] = v]
         /\ py' = py \cup {NewCell}
    /\ rc' = "success"
    /\ UNCHANGED <<field, creators>>

(* The Python program drops the last reference to a value it owns.        *)
Drop ==
    /\ Call("drop")
    /\ \E c \in py :
         /\ heap' = [heap EXCEPT ![c] = None]
         /\ py' = py \ {c}
    /\ rc' = "success"
    /\ UNCHANGED <<field, creators>>

(* Variant: the old value kept when a new one is stored.                  *)
StoreKeepOld(f, v) ==
    IF v = None
    THEN heap' = heap /\ field' = [field EXCEPT ![f] = None]
    ELSE /\ FreeCells # {}
         /\ heap' = [heap EXCEPT ![NewCell] = v]
         /\ field' = [field EXCEPT ![f] = NewCell]

(* Delete the old value, then store a deep copy of v in a new cell (v is  *)
(* None to leave the field unset).                                         *)
Store(f, v) ==
    LET freed == IF field[f] = None THEN heap ELSE [heap EXCEPT ![field[f]] = None]
        free == {c \in Cells : freed[c] = None}
        new == CHOOSE c \in free : \A d \in free : c <= d
    IN IF v = None
       THEN heap' = freed /\ field' = [field EXCEPT ![f] = None]
       ELSE /\ free # {}
            /\ heap' = [freed EXCEPT ![new] = v]
            /\ field' = [field EXCEPT ![f] = new]

Refuse(f) == rc' = "invalid_object" /\ UNCHANGED state

Done(f, v) == Store(f, v) /\ rc' = "success" /\ UNCHANGED <<py, creators>>

(* Variant: no check for the field's own value, so the old value is       *)
(* deleted before the copy reads it; the read of the freed cell returns   *)
(* its old bytes or garbage.                                               *)
SetFieldNoSelfCheck(f, a) ==
    IF a = None /\ f = "MH.modified" THEN rc' = "operation_failed" /\ UNCHANGED state
    ELSE IF a = None THEN Done(f, None)
    ELSE IF heap[a].content = Bad THEN Refuse(f)
    ELSE \E read \in {heap[a], [heap[a] EXCEPT !.content = Garbage]} :
           Done(f, IF a = field[f] THEN read ELSE heap[a])

(* Variant: the setter's own-value check comes before the None check, so *)
(* setModifiedDate(None) on an unset modified date reports success.        *)
SetFieldSelfFirst(f, a) ==
    IF a = field[f] THEN rc' = "success" /\ UNCHANGED state
    ELSE IF a = None /\ f = "MH.modified" THEN rc' = "operation_failed" /\ UNCHANGED state
    ELSE IF a = None THEN Done(f, None)
    ELSE IF heap[a].content = Bad THEN Refuse(f)
    ELSE Done(f, heap[a])

(* One setter on field f with argument a, in the order of its early       *)
(* returns: None for the modified date fails; the field's own value (None *)
(* for an unset field) is a success that changes nothing; None unsets;    *)
(* an invalid date is refused; anything else is copied in.                 *)
SetField(f, a) ==
    IF a = None /\ f = "MH.modified" THEN rc' = "operation_failed" /\ UNCHANGED state
    ELSE IF a = field[f] THEN rc' = "success" /\ UNCHANGED state
    ELSE IF a = None THEN Done(f, None)
    ELSE IF heap[a].content = Bad THEN Refuse(f)
    ELSE Done(f, heap[a])

(* setMath, setMessage, setCreatedDate, setModifiedDate.                   *)
SetValue ==
    \E f \in Fields : \E a \in Args(Kind[f]) :
       Call(f) /\ SetField(f, a)

(* unsetMessage().                                                         *)
UnsetMessage ==
    /\ Call("unsetMessage")
    /\ Store("C.message", None)
    /\ rc' = "success"
    /\ UNCHANGED <<py, creators>>

(* Variant: no null check; None is appended to the list.                 *)
AddCreatorNoNullCheck ==
    /\ Call("addCreator")
    /\ FreeCells # {}
    /\ \E a \in {c \in py : heap[c].kind = "creator"} \cup {None} :
         \/ /\ a = None
            /\ creators' = Append(creators, None)
            /\ rc' = "success" /\ UNCHANGED <<heap, py, field>>
         \/ /\ a # None /\ heap[a].content = Bad
            /\ rc' = "invalid_object" /\ UNCHANGED state
         \/ /\ a # None /\ heap[a].content # Bad
            /\ creators' = Append(creators, NewCell)
            /\ heap' = [heap EXCEPT ![NewCell] = heap[a]]
            /\ rc' = "success"
            /\ UNCHANGED <<py, field>>

(* addCreator(mc): None fails, a creator without a family name is         *)
(* refused, a valid one is copied to the end of the list.                  *)
AddCreator ==
    /\ Call("addCreator")
    /\ FreeCells # {}
    /\ \E a \in {c \in py : heap[c].kind = "creator"} \cup {None} :
         \/ a = None /\ rc' = "operation_failed" /\ UNCHANGED state
         \/ /\ a # None /\ heap[a].content = Bad
            /\ rc' = "invalid_object" /\ UNCHANGED state
         \/ /\ a # None /\ heap[a].content # Bad
            /\ creators' = Append(creators, NewCell)
            /\ heap' = [heap EXCEPT ![NewCell] = heap[a]]
            /\ rc' = "success"
            /\ UNCHANGED <<py, field>>

Init ==
    /\ heap = [c \in Cells |-> None]
    /\ py = {}
    /\ field = [f \in Fields |-> None]
    /\ creators = << >>
    /\ rc = "success" /\ last = "constructor" /\ calls = 0

Next == Make \/ Drop \/ SetValue \/ UnsetMessage \/ AddCreator

Spec == Init /\ [][Next]_vars

(* The refinement mapping: what each field and each creator slot holds,    *)
(* read through the cells.                                                 *)
Values == INSTANCE FieldValues WITH
    value <- [f \in Fields |-> IF field[f] = None THEN None ELSE heap[field[f]]],
    creators <- [k \in DOMAIN creators |-> heap[creators[k]]]
-----------------------------------------------------------------------------
(* Every variable holds a value of its type; a cell may hold a value with *)
(* garbage content, which FieldsValid rules out where it matters.          *)
TypeOK ==
    /\ heap \in [Cells -> [kind : Kinds, content : Contents \cup {Bad, Garbage}] \cup {None}]
    /\ py \subseteq Cells
    /\ field \in [Fields -> Cells \cup {None}]
    /\ creators \in Seq(Cells) /\ Len(creators) <= MaxCells
    /\ rc \in Codes
    /\ calls \in 0..MaxCalls

(* How many owners cell c has: the Python program, fields, creator slots. *)
Owners(c) ==
    (IF c \in py THEN 1 ELSE 0)
    + Cardinality({f \in Fields : field[f] = c})
    + Cardinality({i \in DOMAIN creators : creators[i] = c})

(* Every allocated value has exactly one owner and every free cell none:  *)
(* no set, unset or add leaks the value it replaces, shares the caller's  *)
(* value instead of copying it, or leaves a field pointing at freed       *)
(* memory, over any sequence of calls (setX(other.getX()) included).      *)
OwnershipExact ==
    \A c \in Cells : Owners(c) = IF heap[c] = None THEN 0 ELSE 1

(* A set field and every listed creator hold a valid value of their kind: *)
(* setX(getX()), which the tests call on math and message, keeps the      *)
(* value, and an invalid date or creator is never stored.                 *)
FieldsValid ==
    /\ \A f \in Fields :
          field[f] # None => heap[field[f]] \in [kind : {Kind[f]}, content : Contents]
    /\ \A i \in DOMAIN creators :
          heap[creators[i]] \in [kind : {"creator"}, content : Contents]

(* The cells implement the value semantics the tests assert: every call, *)
(* read through the cells, is a step of FieldValues. A field holds the    *)
(* last value a successful setter copied in, whatever the program later   *)
(* does with its own values; setModifiedDate(None) fails, set date or    *)
(* unset (test_ModelHistory_setModifiedDate1), so a modified date once   *)
(* set stays set, unlike a created date; a refusal returns its code and  *)
(* changes nothing; creators append.                                      *)
FieldValuesSpec == Values!Spec
====
