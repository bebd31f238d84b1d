----------------------------- MODULE SbmlObjects -----------------------------
(***************************************************************************)
(* The libSBML object graph a Python program works on, as the binding     *)
(* tests TestSBMLParentObject.py and TestL3KineticLaw.py drive and assert *)
(* it. Each object keeps pointers both ways: its ListOf members and       *)
(* single-child slots (getListOfReactions, getKineticLaw, getModel...)    *)
(* and its parent pointer (getParentSBMLObject), which for a ListOf       *)
(* member is the ListOf, itself a member object of its owner; each object *)
(* also caches the document it belongs to (getSBMLDocument). Operations:  *)
(* constructors, setId, createX (also Model's convenience createX on the  *)
(* last reaction), addX (copies; refused without an id), setX            *)
(* (copies, replacing), clone (deep copy, detached) and dropping the      *)
(* Python reference to a root (the whole tree is deleted).                *)
(*                                                                         *)
(* SbmlTree is what this promises; TreeSpec checks the refinement.        *)
(***************************************************************************)
EXTENDS Naturals, Sequences, FiniteSets, Functions

CONSTANTS
    N,           \* how many objects a behaviour may create
    Classes,     \* the SBML classes in play
    RootKinds,   \* the classes the program constructs directly
    None

VARIABLES
    kind,        \* id -> class of the live object, None if not live
    parent,      \* id -> the object that owns it, or None
    listOf,      \* id -> the owner's ListOf it is a member of, or None (a slot)
    items,       \* id -> ListOf name -> its members, in order
    slot,        \* id -> slot name -> the single child, or None
    ready,       \* id -> the attributes addX / setX check are set
    doc,         \* id -> the cached getSBMLDocument()
    next         \* next id to hand out

vars == <<kind, parent, listOf, items, slot, ready, doc, next>>

(* The abstract object model, seen through the owner pointers.             *)
Tree == INSTANCE SbmlTree WITH node <- kind, up <- parent, next <- next

Ids == 1..N

(* The ListOfs and slots of the classes in play: <<holder, name, class>>.  *)
Lists == {t \in Tree!ListOfTable : t[3] \in Classes}
Slots == {t \in Tree!SlotTable : t[3] \in Classes}
Places == Lists \cup Slots
ListNames == {t[2] : t \in Lists}
SlotNames == {t[2] : t \in Slots}

(* Where an object of class c may hold children.                            *)
PlacesOf(c) == {t \in Places : t[1] = kind[c]}

(* The classes whose addX / setX refuse an object (LIBSBML_INVALID_OBJECT) *)
(* until the attributes the tests set first are set: the id (setId), the  *)
(* math, variable, symbol, species or kind.                                 *)
Checked == Tree!AllClasses \ {"Document", "Model", "Event"}

NoItems == [n \in ListNames |-> << >>]
NoSlots == [s \in SlotNames |-> None]

Live == {x \in Ids : kind[x] # None}

(* getParentSBMLObject(x): the ListOf x is a member of (a ListOf is       *)
(* designated by its owner and name), else the owner.                      *)
ParentSBMLObject(x) ==
    IF listOf[x] # None THEN <<parent[x], listOf[x]>> ELSE parent[x]

Children(x) ==
    UNION {Range(items[x][n]) : n \in ListNames}
      \cup ({slot[x][s] : s \in SlotNames} \ {None})

RECURSIVE Subtree(_)
Subtree(x) == {x} \cup UNION {Subtree(c) : c \in Children(x)}

(* getAncestorOfType(x, k): the nearest owner of class k.                 *)
RECURSIVE AncestorOfType(_, _)
AncestorOfType(x, k) ==
    IF parent[x] = None THEN None
    ELSE IF kind[parent[x]] = k THEN parent[x]
    ELSE AncestorOfType(parent[x], k)

(* The document at the root of x's owner chain, if the root is one.       *)
DocumentAbove(x) ==
    IF kind[x] = "Document" THEN x ELSE AncestorOfType(x, "Document")

(* The last member of a ListOf, which Model's convenience createX act on. *)
LastOf(s) == IF s = << >> THEN None ELSE s[Len(s)]

(* The per-object state with `gone` deleted: every pointer of a deleted    *)
(* object is cleared, as its destructor leaves nothing behind.             *)
Freed(gone) ==
    [kind |-> [y \in Ids |-> IF y \in gone THEN None ELSE kind[y]],
     parent |-> [y \in Ids |-> IF y \in gone THEN None ELSE parent[y]],
     listOf |-> [y \in Ids |-> IF y \in gone THEN None ELSE listOf[y]],
     items |-> [y \in Ids |-> IF y \in gone THEN NoItems ELSE items[y]],
     slot |-> [y \in Ids |-> IF y \in gone THEN NoSlots ELSE slot[y]],
     ready |-> [y \in Ids |-> IF y \in gone THEN FALSE ELSE ready[y]],
     doc |-> [y \in Ids |-> IF y \in gone THEN None ELSE doc[y]]]

(* A new object of class k with document pointer d, `gone` deleted.       *)
Fresh(k, d, gone) ==
    [Freed(gone) EXCEPT !.kind[next] = k, !.doc[next] = d]

(* Copy constructor: the subtree S of top copied to ids next.., in order, *)
(* the copy's own pointers remapped, its top detached, every copy given   *)
(* document pointer d; `gone` deleted.                                      *)
Rank(S, x) == Cardinality({y \in S : y < x})
CopyOf(S, x) == next + Rank(S, x)
Copied(S, top, d, gone) ==
    LET new(y) == y >= next /\ y < next + Cardinality(S)
        orig(y) == CHOOSE x \in S : CopyOf(S, x) = y
        ref(r) == IF r = None THEN None ELSE CopyOf(S, r)
        base == Freed(gone)
    IN [kind |-> [y \in Ids |-> IF new(y) THEN kind[orig(y)] ELSE base.kind[y]],
        parent |-> [y \in Ids |-> IF new(y) /\ orig(y) # top THEN ref(parent[orig(y)])
                                  ELSE IF new(y) THEN None ELSE base.parent[y]],
        listOf |-> [y \in Ids |-> IF new(y) /\ orig(y) # top THEN listOf[orig(y)]
                                  ELSE IF new(y) THEN None ELSE base.listOf[y]],
        items |-> [y \in Ids |-> IF new(y)
                                   THEN [n \in ListNames |->
                                           [i \in DOMAIN items[orig(y)][n] |->
                                              CopyOf(S, items[orig(y)][n][i])]]
                                 ELSE base.items[y]],
        slot |-> [y \in Ids |-> IF new(y)
                                  THEN [s \in SlotNames |-> ref(slot[orig(y)][s])]
                                ELSE base.slot[y]],
        ready |-> [y \in Ids |-> IF new(y) THEN ready[orig(y)] ELSE base.ready[y]],
        doc |-> [y \in Ids |-> IF new(y) THEN d ELSE base.doc[y]]]

(* Mutant: setting one slot deletes what every slot of c holds.           *)
GoneEverySlot(c, t) ==
    IF t \in Slots
    THEN UNION {Subtree(slot[c][s]) : s \in {s \in SlotNames : slot[c][s] # None}}
    ELSE {}

(* Mutant: recreating or setting a filled slot leaves the old child alive. *)
GoneNothing(c, t) == {}

(* What the slot t of c holds now, deleted when the slot is created or   *)
(* set again.                                                              *)
Gone(c, t) ==
    IF t \in Slots /\ slot[c][t[2]] # None THEN Subtree(slot[c][t[2]]) ELSE {}

(* Mutant: a slot child records the slot as if it were a ListOf.          *)
ListOfInBySlot(t) == t[2]

(* The ListOf a child placed at t is a member of; None for a slot.         *)
ListOfIn(t) == IF t \in Lists THEN t[2] ELSE None

(* The new state: `base`, with y appended to c's ListOf t or put in c's   *)
(* slot t, and y's parent pointer set (connectToParent).                   *)
Install(base, c, t, y) ==
    /\ kind' = base.kind
    /\ parent' = [base.parent EXCEPT ![y] = c]
    /\ listOf' = [base.listOf EXCEPT ![y] = ListOfIn(t)]
    /\ items' = IF t \in Lists
                  THEN [base.items EXCEPT ![c][t[2]] = Append(@, y)]
                  ELSE base.items
    /\ slot' = IF t \in Slots THEN [base.slot EXCEPT ![c][t[2]] = y] ELSE base.slot
    /\ ready' = base.ready
    /\ doc' = base.doc

(* The new state is exactly the per-object values r.                      *)
Become(r) ==
    /\ kind' = r.kind /\ parent' = r.parent /\ listOf' = r.listOf
    /\ items' = r.items /\ slot' = r.slot /\ ready' = r.ready /\ doc' = r.doc

-----------------------------------------------------------------------------
(* libsbml.K(level, version): a new detached object; a document is its    *)
(* own getSBMLDocument().                                                  *)
Construct ==
    /\ next \in Ids
    /\ \E k \in RootKinds :
         /\ kind' = [kind EXCEPT ![next] = k]
         /\ doc' = [doc EXCEPT ![next] = IF k = "Document" THEN next ELSE None]
    /\ next' = next + 1
    /\ UNCHANGED <<parent, listOf, items, slot, ready>>

(* x.setId / setMath / setVariable / setSymbol / setSpecies / setKind:   *)
(* the attribute addX and setX check becomes set.                          *)
SetRequired ==
    /\ \E x \in Live :
         /\ kind[x] \in Checked
         /\ ~ready[x]
         /\ ready' = [ready EXCEPT ![x] = TRUE]
    /\ UNCHANGED <<kind, parent, listOf, items, slot, doc, next>>

(* c.createX(): a new object in c's ListOf, or in c's slot, deleting what *)
(* the slot held.                                                          *)
CreateChild ==
    /\ next \in Ids
    /\ \E c \in Live, t \in Places :
         /\ t \in PlacesOf(c)
         /\ Install(Fresh(t[3], doc[c], Gone(c, t)), c, t, next)
    /\ next' = next + 1

(* Model's convenience createX(): createKineticLaw, createReactant,        *)
(* createProduct and createModifier act on the last reaction,             *)
(* createEventAssignment on the last event, createUnit on the last unit   *)
(* definition: <<Model ListOf, place in its last member>>.                 *)
ConvenienceTable ==
    {<<"reactions", <<"Reaction", "kineticLaw", "KineticLaw">> >>,
     <<"reactions", <<"Reaction", "reactants", "SpeciesReference">> >>,
     <<"reactions", <<"Reaction", "products", "SpeciesReference">> >>,
     <<"reactions", <<"Reaction", "modifiers", "ModifierSpeciesReference">> >>,
     <<"events", <<"Event", "eventAssignments", "EventAssignment">> >>,
     <<"unitDefinitions", <<"UnitDefinition", "units", "Unit">> >>}

(* The Model convenience calls; with no such last member (or, for         *)
(* createKineticLawParameter, no kinetic law in it) they return None and  *)
(* change nothing.                                                         *)
CreateOnLast ==
    /\ next \in Ids
    /\ \E m \in Live :
         /\ kind[m] = "Model"
         /\ \/ \E e \in ConvenienceTable :
                 /\ e[1] \in ListNames /\ e[2] \in Places
                 /\ LET r == LastOf(items[m][e[1]]) IN
                      /\ r # None
                      /\ Install(Fresh(e[2][3], doc[r], Gone(r, e[2])), r, e[2], next)
            \/ LET t == <<"KineticLaw", "parameters", "Parameter">>
                   r == IF "reactions" \in ListNames
                          THEN LastOf(items[m]["reactions"]) ELSE None
                   kl == IF r # None /\ "kineticLaw" \in SlotNames
                           THEN slot[r]["kineticLaw"] ELSE None
               IN /\ t \in Places /\ kl # None
                  /\ Install(Fresh("Parameter", doc[kl], {}), kl, t, next)
    /\ next' = next + 1

(* Mutant: addX takes o itself into the ListOf instead of a copy.          *)
AddNoCopy ==
    /\ \E c, o \in Live, t \in Lists :
         /\ t \in PlacesOf(c) /\ t[3] = kind[o]
         /\ kind[o] \in Checked => ready[o]
         /\ Install(Freed({}), c, t, o)
    /\ UNCHANGED next

(* c.addX(o): a deep copy of o is appended to c's ListOf; o stays the     *)
(* caller's. If o lacks a checked attribute it returns                     *)
(* LIBSBML_INVALID_OBJECT and changes nothing, a stuttering step.           *)
Add ==
    /\ \E c, o \in Live, t \in Lists :
         /\ t \in PlacesOf(c) /\ t[3] = kind[o]
         /\ kind[o] \in Checked => ready[o]
         /\ LET S == Subtree(o) IN
              /\ next + Cardinality(S) <= N + 1
              /\ Install(Copied(S, o, doc[c], {}), c, t, CopyOf(S, o))
              /\ next' = next + Cardinality(S)

(* c.setX(o): a deep copy of o replaces (and deletes) what c's slot held; *)
(* o itself may not be what the slot holds.                                *)
SetSingle ==
    /\ \E c, o \in Live, t \in Slots :
         /\ t \in PlacesOf(c) /\ t[3] = kind[o]
         /\ kind[o] \in Checked => ready[o]
         /\ o \notin Gone(c, t)
         /\ LET S == Subtree(o) IN
              /\ next + Cardinality(S) <= N + 1
              /\ Install(Copied(S, o, doc[c], Gone(c, t)), c, t, CopyOf(S, o))
              /\ next' = next + Cardinality(S)

(* Mutant: the clone keeps the original's document pointer.               *)
CloneKeepDoc ==
    /\ \E o \in Live :
         LET S == Subtree(o)
             r == Copied(S, o, doc[o], {})
         IN /\ next + Cardinality(S) <= N + 1
            /\ Become(r)
            /\ next' = next + Cardinality(S)

(* o.clone(): a detached deep copy; its document pointer is the copy's    *)
(* own for a document, else None.                                          *)
Clone ==
    /\ \E o \in Live :
         LET S == Subtree(o)
             d == IF kind[o] = "Document" THEN CopyOf(S, o) ELSE None
             r == Copied(S, o, d, {})
         IN /\ next + Cardinality(S) <= N + 1
            /\ Become(r)
            /\ next' = next + Cardinality(S)

(* x = None on the last Python reference to a detached object: the        *)
(* object and everything it owns are deleted.                              *)
DropRoot ==
    /\ \E x \in Live :
         /\ parent[x] = None
         /\ Become(Freed(Subtree(x)))
    /\ UNCHANGED next

Init ==
    /\ kind = [x \in Ids |-> None]
    /\ parent = [x \in Ids |-> None]
    /\ listOf = [x \in Ids |-> None]
    /\ items = [x \in Ids |-> NoItems]
    /\ slot = [x \in Ids |-> NoSlots]
    /\ ready = [x \in Ids |-> FALSE]
    /\ doc = [x \in Ids |-> None]
    /\ next = 1

Next ==
    \/ Construct \/ SetRequired \/ CreateChild \/ CreateOnLast
    \/ Add \/ SetSingle \/ Clone \/ DropRoot

Spec == Init /\ [][Next]_vars

-----------------------------------------------------------------------------
TypeOK ==
    /\ kind \in [Ids -> Classes \cup {None}]
    /\ parent \in [Ids -> Ids \cup {None}]
    /\ listOf \in [Ids -> ListNames \cup {None}]
    /\ items \in [Ids -> [ListNames -> Seq(Ids)]]
    /\ slot \in [Ids -> [SlotNames -> Ids \cup {None}]]
    /\ ready \in [Ids -> BOOLEAN]
    /\ doc \in [Ids -> Ids \cup {None}]
    /\ next \in 1..N + 1

(* The two directions of every link agree, as the tests assert after each *)
(* create, add and set (lo == m.getX(0).getParentSBMLObject(), m ==       *)
(* lo.getParentSBMLObject()): each member of a ListOf is live, listed     *)
(* once and has that ListOf as parent; each slot child has the slot's     *)
(* owner as parent; and each live object with a parent is found there.    *)
ParentChildAgree ==
    \A c \in Live :
       /\ \A n \in ListNames : \A i \in DOMAIN items[c][n] :
             LET y == items[c][n][i] IN
               /\ y \in Live /\ parent[y] = c /\ listOf[y] = n
               /\ \A j \in DOMAIN items[c][n] : items[c][n][j] = y => j = i
       /\ \A s \in SlotNames :
             slot[c][s] # None => slot[c][s] \in Live /\ parent[slot[c][s]] = c
                                /\ listOf[slot[c][s]] = None
       /\ parent[c] # None =>
             IF listOf[c] # None THEN c \in Range(items[parent[c]][listOf[c]])
             ELSE c \in {slot[parent[c]][s] : s \in SlotNames}

(* getSBMLDocument(), a pointer each object caches, is the document at    *)
(* the top of its owner chain, or None: after a create, an add or set     *)
(* into a document's tree, and after a clone (c1.getSBMLDocument() ==     *)
(* None), whatever was deleted on the way.                                 *)
DocumentCacheAccurate ==
    \A x \in Live : doc[x] = DocumentAbove(x)

(* Seen through the owner pointers, the objects behave as SbmlTree says:  *)
(* add, set and clone copy whole subtrees to new objects and leave the    *)
(* original where it was; dropping a root deletes exactly its tree.       *)
TreeSpec == Tree!Spec
====
