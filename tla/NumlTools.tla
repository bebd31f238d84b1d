------------------------------ MODULE NumlTools ------------------------------
(***************************************************************************)
(* The libNuML example tools, src/libnuml/examples/python: append_annotation*)
(* and append_notes (read a document, find the element with a metaid,     *)
(* annotate it, write the result), echoNUML (read and write back) and     *)
(* printNUML (read and report). A user runs them one after the other on a *)
(* few files; the files are the state that one run hands to the next.     *)
(*                                                                         *)
(* A document is abstracted to what the tools look at: the error flag of  *)
(* the read, the metaid and marks (annotation, notes) of the document     *)
(* element, of its top-level result components, and of the elements below *)
(* them (ontology terms, dimension descriptions), which the append tools  *)
(* never search. A file is missing (None), unparsable (Garbage) or a    *)
(* document. `lost` records, for each file, whether its content was       *)
(* written from a read that failed.                                        *)
(***************************************************************************)
EXTENDS Naturals, Sequences, FiniteSets

CONSTANTS
    MetaIds,     \* metaid values of the documents' elements
    Files,       \* file names the tools are given
    MaxComps,    \* most top-level result components in a document
    MaxCalls,    \* tool invocations in one behaviour
    Inputs,      \* files that may exist before the first tool runs
    Garbage,     \* an unparsable file
    None         \* a missing file; also "no report yet"

ASSUME MaxComps \in Nat /\ MaxCalls \in Nat

VARIABLES
    files,       \* file name -> None, Garbage or a document
    lost,        \* file name -> its content was written from a failed read
    pc,          \* "idle" between tool runs, else where the running tool is
    tool,        \* the append tool running: "append_annotation" or "append_notes"
    args,        \* its command line: input file, output file, meta_id
    doc,         \* the document in memory
    origin,      \* the document as read, before the tool changed it
    i,           \* the result component the loop is at
    added,       \* the tool's `added`
    report,      \* the last printNUML run: the file and its exit code
    calls        \* tool invocations so far

vars == <<files, lost, pc, tool, args, doc, origin, i, added, report, calls>>

(* getMetaId() of an element without a metaid is the empty string.         *)
Unset == ""
MetaValues == MetaIds \cup {Unset}
Element == [meta : MetaValues, marks : SUBSET {"annotation", "notes"}]
Elements(n) == [1..n -> Element]
Docs == [errors : BOOLEAN, top : Element,
         comps : UNION {Elements(n) : n \in 0..MaxComps},
         nested : UNION {Elements(n) : n \in 0..1}]

(* readNUML / readNUMLFromFile never raise: a missing or unparsable file  *)
(* gives an empty document whose error log holds the failure.             *)
EmptyDoc == [errors |-> TRUE, top |-> [meta |-> Unset, marks |-> {}],
             comps |-> << >>, nested |-> << >>]
ReadNUML(f) == IF files[f] \in {None, Garbage} THEN EmptyDoc ELSE files[f]

(* writeNUML serialises the document in memory; the error log is not part *)
(* of it, so the file written reads back without errors.                   *)
WriteNUML(d) == [d EXCEPT !.errors = FALSE]

(* The field each append tool sets: setAnnotation or setNotes.            *)
MarkOf == [append_annotation |-> "annotation", append_notes |-> "notes"]

(* The metaids a document's elements carry, set ones only.                *)
DocMetaIds(d) ==
    {d.top.meta} \cup {d.comps[k].meta : k \in DOMAIN d.comps}
      \cup {d.nested[k].meta : k \in DOMAIN d.nested}

(* A document on disk as the user starts with it: read without errors,   *)
(* no element marked, and each set metaid on one element only.            *)
InputDocs ==
    {d \in Docs :
        /\ ~d.errors
        /\ d.top.marks = {}
        /\ \A k \in DOMAIN d.comps : d.comps[k].marks = {}
        /\ \A k \in DOMAIN d.nested : d.nested[k].marks = {}
        /\ LET metas == <<d.top.meta>> \o
                        [k \in DOMAIN d.comps |-> d.comps[k].meta] \o
                        [k \in DOMAIN d.nested |-> d.nested[k].meta]
           IN \A a, b \in DOMAIN metas :
                 a # b /\ metas[a] # Unset => metas[a] # metas[b]}

-----------------------------------------------------------------------------
(* Any tool called with too few arguments prints its usage and exits 1.   *)
UsageError ==
    /\ pc = "idle"
    /\ calls < MaxCalls
    /\ calls' = calls + 1
    /\ UNCHANGED <<files, lost, pc, tool, args, doc, origin, i, added, report>>

(* add_annotation / add_notes: read the input; the isinstance assertion   *)
(* holds for any file, readable or not.                                   *)
StartAppend ==
    /\ pc = "idle"
    /\ calls < MaxCalls
    /\ \E t \in DOMAIN MarkOf, in, out \in Files, m \in MetaValues :
         /\ tool' = t
         /\ args' = [in |-> in, out |-> out, meta |-> m]
         /\ doc' = ReadNUML(in)
         /\ origin' = ReadNUML(in)
    /\ pc' = "match_doc"
    /\ added' = FALSE
    /\ calls' = calls + 1
    /\ UNCHANGED <<files, lost, i, report>>

(* setAnnotation / setNotes on one element.                               *)
Mark(e) == [e EXCEPT !.marks = @ \cup {MarkOf[tool]}]

(* Mutant: the component loop is started at index 0.                      *)
MatchDocScanFromZero ==
    /\ pc = "match_doc"
    /\ IF doc.top.meta = args.meta
         THEN /\ doc' = [doc EXCEPT !.top = Mark(@)]
              /\ added' = TRUE
              /\ pc' = "write"
              /\ UNCHANGED i
         ELSE /\ pc' = "scan"
              /\ i' = 0
              /\ UNCHANGED <<doc, added>>
    /\ UNCHANGED <<files, lost, tool, args, origin, report, calls>>

(* Mutant: the component loop skips the first result component.           *)
MatchDocSkipFirst ==
    /\ pc = "match_doc"
    /\ IF doc.top.meta = args.meta
         THEN /\ doc' = [doc EXCEPT !.top = Mark(@)]
              /\ added' = TRUE
              /\ pc' = "write"
              /\ UNCHANGED i
         ELSE /\ pc' = "scan"
              /\ i' = 2
              /\ UNCHANGED <<doc, added>>
    /\ UNCHANGED <<files, lost, tool, args, origin, report, calls>>

(* add_*_for_metaid(doc, ...): the document element itself is tried      *)
(* first; only if it does not match are the result components scanned.   *)
MatchDoc ==
    /\ pc = "match_doc"
    /\ IF doc.top.meta = args.meta
         THEN /\ doc' = [doc EXCEPT !.top = Mark(@)]
              /\ added' = TRUE
              /\ pc' = "write"
              /\ UNCHANGED i
         ELSE /\ pc' = "scan"
              /\ i' = 1
              /\ UNCHANGED <<doc, added>>
    /\ UNCHANGED <<files, lost, tool, args, origin, report, calls>>

(* One iteration of `for i in range(doc.getNumResultComponents())`: the   *)
(* first component whose metaid matches is marked and the loop breaks.    *)
ScanComponent ==
    /\ pc = "scan"
    /\ i \in DOMAIN doc.comps
    /\ IF doc.comps[i].meta = args.meta
         THEN /\ doc' = [doc EXCEPT !.comps[i] = Mark(@)]
              /\ added' = TRUE
              /\ pc' = "write"
              /\ UNCHANGED i
         ELSE /\ i' = i + 1
              /\ UNCHANGED <<doc, added, pc>>
    /\ UNCHANGED <<files, lost, tool, args, origin, report, calls>>

(* The loop runs out of components without a match.                       *)
ScanEnd ==
    /\ pc = "scan"
    /\ i \notin DOMAIN doc.comps
    /\ pc' = "write"
    /\ UNCHANGED <<files, lost, tool, args, doc, origin, i, added, report, calls>>

(* writeNUML(doc, output_file), whether or not anything was added and     *)
(* whether or not the read succeeded.                                      *)
WriteResult ==
    /\ pc = "write"
    /\ files' = [files EXCEPT ![args.out] = WriteNUML(doc)]
    /\ lost' = [lost EXCEPT ![args.out] = origin.errors \/ lost[args.in]]
    /\ pc' = "idle"
    /\ UNCHANGED <<tool, args, doc, origin, i, added, report, calls>>

(* echoNUML: read the input and write it to the output; the error-log     *)
(* check before the write is commented out.                                *)
Echo ==
    /\ pc = "idle"
    /\ calls < MaxCalls
    /\ \E in, out \in Files :
         /\ files' = [files EXCEPT ![out] = WriteNUML(ReadNUML(in))]
         /\ lost' = [lost EXCEPT ![out] = ReadNUML(in).errors \/ lost[in]]
    /\ calls' = calls + 1
    /\ UNCHANGED <<pc, tool, args, doc, origin, i, added, report>>

(* printNUML: exit 2 if the error log has errors, else print the counts,  *)
(* the ontology terms and the result components and exit 0. The two       *)
(* `is None` exits are never taken: the document always owns its lists.   *)
PrintNUML ==
    /\ pc = "idle"
    /\ calls < MaxCalls
    /\ \E f \in Files :
         report' = [file |-> f, exit |-> IF ReadNUML(f).errors THEN 2 ELSE 0]
    /\ calls' = calls + 1
    /\ UNCHANGED <<files, lost, pc, tool, args, doc, origin, i, added>>

(* The document createNUML and createExample52 build: no metaid anywhere, *)
(* one result component, and below it a dimension description with        *)
(* composite and atomic parts (createNUML also adds three ontology terms). *)
OneResultDoc ==
    [errors |-> FALSE, top |-> [meta |-> Unset, marks |-> {}],
     comps |-> <<[meta |-> Unset, marks |-> {}]>>,
     nested |-> <<[meta |-> Unset, marks |-> {}]>>]

(* createNUML output-filename: build the document and write it.           *)
CreateNUML ==
    /\ pc = "idle"
    /\ calls < MaxCalls
    /\ \E out \in Files :
         /\ files' = [files EXCEPT ![out] = WriteNUML(OneResultDoc)]
         /\ lost' = [lost EXCEPT ![out] = FALSE]
    /\ calls' = calls + 1
    /\ UNCHANGED <<pc, tool, args, doc, origin, i, added, report>>

(* createExample52 takes no arguments and always writes example5_2.xml in *)
(* the working directory. It sets the ids, names and values by assigning  *)
(* to attributes of the SWIG proxies (r.id = ...); whether the binding has *)
(* such properties is decided by its SWIG interface, which is not in the   *)
(* repository, so the first assignment either goes through or raises an   *)
(* AttributeError before anything is written.                              *)
ExampleFile == "example5_2.xml"

CreateExample52 ==
    /\ pc = "idle"
    /\ calls < MaxCalls
    /\ ExampleFile \in Files
    /\ \/ /\ files' = [files EXCEPT ![ExampleFile] = WriteNUML(OneResultDoc)]
          /\ lost' = [lost EXCEPT ![ExampleFile] = FALSE]
       \/ UNCHANGED <<files, lost>>
    /\ calls' = calls + 1
    /\ UNCHANGED <<pc, tool, args, doc, origin, i, added, report>>

Init ==
    /\ files \in [Files -> {None}]
         \cup {[f \in Files |-> IF f \in Inputs THEN c ELSE None] :
                 c \in {Garbage} \cup InputDocs}
    /\ lost = [f \in Files |-> FALSE]
    /\ pc = "idle"
    /\ tool = "append_annotation"
    /\ args = [in |-> CHOOSE f \in Files : TRUE, out |-> CHOOSE f \in Files : TRUE,
               meta |-> Unset]
    /\ doc = EmptyDoc
    /\ origin = EmptyDoc
    /\ i = 1
    /\ added = FALSE
    /\ report = None
    /\ calls = 0

Next ==
    \/ UsageError
    \/ StartAppend
    \/ MatchDoc
    \/ ScanComponent
    \/ ScanEnd
    \/ WriteResult
    \/ Echo
    \/ PrintNUML
    \/ CreateNUML
    \/ CreateExample52

Spec == Init /\ [][Next]_vars

-----------------------------------------------------------------------------
TypeOK ==
    /\ files \in [Files -> {None, Garbage} \cup Docs]
    /\ lost \in [Files -> BOOLEAN]
    /\ pc \in {"idle", "match_doc", "scan", "write"}
    /\ tool \in DOMAIN MarkOf
    /\ args \in [in : Files, out : Files, meta : MetaValues]
    /\ doc \in Docs /\ origin \in Docs
    /\ i \in 1..MaxComps + 1
    /\ added \in BOOLEAN
    /\ report \in {None} \cup [file : Files, exit : {0, 2}]
    /\ calls \in 0..MaxCalls

(* The elements the append tools search, in their order: the document,    *)
(* then its result components.                                             *)
Searched(d) == <<d.top>> \o d.comps

(* When an append tool is about to write, the document in memory is the   *)
(* one read with exactly the first searched element whose metaid equals   *)
(* meta_id marked, and nothing marked if there is none; `added` says which.*)
FirstSearchedMatchMarked ==
    pc = "write" =>
      LET s    == Searched(origin)
          hits == {k \in DOMAIN s : s[k].meta = args.meta}
          k    == CHOOSE k \in hits : \A j \in hits : k <= j
          want == IF hits = {} THEN origin
                  ELSE IF k = 1 THEN [origin EXCEPT !.top = Mark(@)]
                  ELSE [origin EXCEPT !.comps[k - 1] = Mark(@)]
      IN  doc = want /\ added = (hits # {})

(* A file that printNUML reports on without errors holds what was in the  *)
(* files it was made from: no tool wrote it from a read that failed.      *)
PrintAcceptsOnlyIntactData ==
    (report # None /\ report.exit = 0) => ~lost[report.file]

(* If the input has an element whose metaid is meta_id, the append tool   *)
(* attaches the annotation (or notes) to it.                               *)
MetaIdAnnotatedWhereverItIs ==
    (pc = "write" /\ args.meta # Unset /\ args.meta \in DocMetaIds(origin)) => added
====
