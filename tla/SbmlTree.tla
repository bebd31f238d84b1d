------------------------------ MODULE SbmlTree ------------------------------
(***************************************************************************)
(* What the libSBML object model promises a Python program, as the        *)
(* binding tests under src/libSBML/src/bindings/python/test/sbml assert   *)
(* it: SBML elements form a forest. Each element has at most one parent   *)
(* element (getParentSBMLObject, with ListOf containers looked through),  *)
(* which owns it; a new element created in a container hangs below it;    *)
(* adding, setting and cloning copy a whole subtree to fresh elements;    *)
(* dropping the Python reference to a root frees its whole tree.          *)
(*                                                                         *)
(* Elements are the ids 1..N, handed out in increasing order, so the      *)
(* order of ids is the order of creation, and a copy keeps the order of   *)
(* what it copies.                                                         *)
(***************************************************************************)
EXTENDS Naturals, FiniteSets

CONSTANTS
    N,           \* how many elements a behaviour may create
    Classes,     \* the SBML classes in play
    RootKinds,   \* the classes a program constructs directly
    None

Ids == 1..N

(* Where an element of each class belongs, as the tests create, add, set  *)
(* and look it up: <<holder class, ListOf or slot, class>>. A ListOf       *)
(* holds any number of members, in order; a slot at most one.              *)
ListOfTable ==
    {<<"Model", "compartmentTypes", "CompartmentType">>,
     <<"Model", "compartments", "Compartment">>,
     <<"Model", "constraints", "Constraint">>,
     <<"Model", "events", "Event">>,
     <<"Model", "functionDefinitions", "FunctionDefinition">>,
     <<"Model", "initialAssignments", "InitialAssignment">>,
     <<"Model", "parameters", "Parameter">>,
     <<"Model", "reactions", "Reaction">>,
     <<"Model", "rules", "AlgebraicRule">>,
     <<"Model", "rules", "AssignmentRule">>,
     <<"Model", "rules", "RateRule">>,
     <<"Model", "speciesTypes", "SpeciesType">>,
     <<"Model", "species", "Species">>,
     <<"Model", "unitDefinitions", "UnitDefinition">>,
     <<"Event", "eventAssignments", "EventAssignment">>,
     <<"KineticLaw", "parameters", "Parameter">>,
     <<"KineticLaw", "parameters", "LocalParameter">>,
     <<"Reaction", "reactants", "SpeciesReference">>,
     <<"Reaction", "products", "SpeciesReference">>,
     <<"Reaction", "modifiers", "ModifierSpeciesReference">>,
     <<"UnitDefinition", "units", "Unit">>}
SlotTable ==
    {<<"Document", "model", "Model">>,
     <<"Reaction", "kineticLaw", "KineticLaw">>,
     <<"Event", "trigger", "Trigger">>,
     <<"Event", "delay", "Delay">>,
     <<"SpeciesReference", "stoichiometryMath", "StoichiometryMath">>}

AllClasses ==
    {"Document"} \cup {t[3] : t \in ListOfTable \cup SlotTable}
ListSlots == {<<t[1], t[3]>> : t \in ListOfTable}
SingleSlots == {<<t[1], t[3]>> : t \in SlotTable}
Kinds == Classes

ASSUME Classes \subseteq AllClasses /\ RootKinds \subseteq Classes

VARIABLES
    node,        \* id -> the class of the live element, None if not live
    up,          \* id -> the element it belongs to, None for a root
    next         \* the next id to hand out

vars == <<node, up, next>>

Live == {x \in Ids : node[x] # None}
Holds(p, k) == k \in Kinds /\ <<node[p], k>> \in ListSlots \cup SingleSlots

(* The elements at and below x.                                           *)
RECURSIVE Below(_)
Below(x) == {x} \cup UNION {Below(y) : y \in {z \in Live : up[z] = x}}

(* The child of p in the single slot for class k, if any.                  *)
SlotHolder(p, k) ==
    {y \in Live : up[y] = p /\ node[y] = k /\ <<node[p], k>> \in SingleSlots}

(* The subtree S copied to ids next.., keeping the order of ids; the copy *)
(* of its top is placed below p (None: a new root); what `gone` held is   *)
(* freed.                                                                  *)
Rank(S, x) == Cardinality({y \in S : y < x})
CopyOf(S, x) == next + Rank(S, x)
CopyTo(S, top, p, gone) ==
    LET new(y) == y >= next /\ y < next + Cardinality(S)
        orig(y) == CHOOSE x \in S : CopyOf(S, x) = y
    IN /\ next + Cardinality(S) <= N + 1
       /\ next' = next + Cardinality(S)
       /\ node' = [y \in Ids |-> IF new(y) THEN node[orig(y)]
                                 ELSE IF y \in gone THEN None ELSE node[y]]
       /\ up' = [y \in Ids |-> IF new(y)
                                 THEN IF orig(y) = top THEN p ELSE CopyOf(S, up[orig(y)])
                               ELSE IF y \in gone THEN None ELSE up[y]]

-----------------------------------------------------------------------------
(* A program constructs an element: a new root.                            *)
NewRoot ==
    /\ next \in Ids
    /\ next' = next + 1
    /\ \E k \in RootKinds :
         /\ node' = [node EXCEPT ![next] = k]
         /\ up' = [up EXCEPT ![next] = None]

(* A new element is created below p; in a single slot it replaces (and    *)
(* frees) what was there.                                                  *)
AttachNew ==
    /\ next \in Ids
    /\ next' = next + 1
    /\ \E p \in Live, k \in Kinds :
         /\ Holds(p, k)
         /\ LET gone == UNION {Below(y) : y \in SlotHolder(p, k)}
            IN /\ node' = [y \in Ids |-> IF y = next THEN k
                                         ELSE IF y \in gone THEN None ELSE node[y]]
               /\ up' = [y \in Ids |-> IF y = next THEN p
                                       ELSE IF y \in gone THEN None ELSE up[y]]

(* A copy of the subtree of src is placed below p.                         *)
AttachCopy ==
    \E src \in Live :
       LET S == Below(src) IN
       /\ next' = next + Cardinality(S)
       /\ \E p \in Live :
          /\ Holds(p, node[src])
          /\ CopyTo(S, src, p, UNION {Below(y) : y \in SlotHolder(p, node[src])})

(* A copy of the subtree of src becomes a new root.                        *)
CopyRoot ==
    \E src \in Live :
       LET S == Below(src) IN
       /\ next' = next + Cardinality(S)
       /\ CopyTo(S, src, None, {})

(* A root and everything below it are freed.                               *)
FreeRoot ==
    /\ UNCHANGED next
    /\ \E r \in Live :
         /\ up[r] = None
         /\ LET B == Below(r) IN
              /\ node' = [y \in Ids |-> IF y \in B THEN None ELSE node[y]]
              /\ up' = [y \in Ids |-> IF y \in B THEN None ELSE up[y]]

Init ==
    /\ node = [x \in Ids |-> None]
    /\ up = [x \in Ids |-> None]
    /\ next = 1

Next == NewRoot \/ AttachNew \/ AttachCopy \/ CopyRoot \/ FreeRoot

Spec == Init /\ [][Next]_vars

-----------------------------------------------------------------------------
TypeOK ==
    /\ node \in [Ids -> Kinds \cup {None}]
    /\ up \in [Ids -> Ids \cup {None}]
    /\ next \in 1..N + 1

(* Every live element belongs to a live element that may hold it, or is a *)
(* root, and no element is below itself.                                   *)
Forest ==
    \A x \in Live :
       /\ up[x] # None => up[x] \in Live /\ Holds(up[x], node[x])
       /\ x \notin UNION {Below(y) : y \in {z \in Live : up[z] = x}}
====
