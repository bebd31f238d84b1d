# TLA+ models of the copasi-dependencies Python build and binding code

The Python in this repository falls into four groups:

* the build drivers (`setup.py`) of the libNuML and libCombine Python bindings;
* the libNuML example tools;
* the libSBML Python binding tests;
* a documentation utility.

None of the C++ libraries is in `src/`. What has state and control flow is:

* the two build drivers;
* the read-modify-write example tools (`NumlTools`);
* the object-model contract that the libSBML tests assert: parents and
  copies (`SbmlTree`, `SbmlObjects`), and the ownership of math, message, date and creator values (`OwnedValues`),
  checked against the value semantics the tests assert (`FieldValues`).

## The system and how its parts interact

| Part | Source | What it does |
|---|---|---|
| libNuML build driver | `src/libnuml/src/bindings/python/setup.py` | At module level it finds the source directory and an optional prebuilt dependency directory (`DEP_DIR`). `CMakeBuild.build_cmake` then builds two dependency projects (libSBML-dependencies, then libSBML) into `install_dependencies_<plat>`, unless the directory exists. Next it configures and builds the SWIG binding in setuptools' `build_temp`. It walks the build tree, copies the extension module to the target path, and copies a generated script to the package's `__init__.py`. `CMakeBuild.run` calls `build_ext.run` afterwards and calls it again if it raises. |
| libCombine build driver | `src/libCombine/src/bindings/python/setup.py` | The same driver with three dependency projects (dependencies, libSBML, zipper). It has no `exists(dep_inst_dir)` guard. At module level, `DEP_DIR` defaults to the project's own install prefix when that prefix exists. |
| libNuML examples | `src/libnuml/examples/python/*.py` | The tools read a NuML document and write one back, or print it: `append_annotation` and `append_notes` find the element with a given metaid, `echoNUML` echoes the document, `printNUML` prints it. `createNUML` and `createExample52` build a document step by step. |
| libSBML object model | `src/libSBML/src/bindings/python/test/sbml/*.py` | `TestSBMLParentObject` and `TestL3KineticLaw` assert the parent/ancestor contract and the copying behaviour of `add`/`create`/`clone`. `TestConstraint` and `TestInitialAssignment` assert that a math or message field owns a copy of what it is given. `TestCompartment` asserts the set/unset semantics of string and numeric attributes. |
| ModelHistory, XMLToken | `test/annotation`, `test/xml` | These tests cover optional dates and creators with None, and the attribute and namespace setters of XML tokens, with their error codes. |
| SBMLError, file reads | `TestSBMLError.py`, `TestReadFromFile4/8.py` | Constructors and getters, and reads of fixed files. |
| Class-name generator | `docs/src/utilities/generate-cplusplus-class-names.py` | Prints the class names that `find_classes` (from `libsbmlutils`, not in the repository) returns. |

The build drivers interact with each other and with later runs of themselves
only through the file system. Whatever one `setup.py` process leaves under
`install_dependencies_<plat>`, the build tree and the package directory is what
the next process finds. The hard behaviours are therefore:

* a spawn that fails part way through;
* a user who runs `setup.py` again, possibly with another configuration or
  `--dry-run`;
* an `os.walk` whose order is unspecified.

## Modules

### NumlSetup (with MCNumlSetup): the libNuML build driver

The state splits into what is on disk and what belongs to the process.

* **Disk** (survives a rerun):
  * `installed`: the dependency projects installed in the prefix;
  * `tree`: the configurations whose module sits in the build tree;
  * `target`: the configuration of the module at `target_lib_path`;
  * `initPy`: the script copied to `__init__.py`.
* **Process** (lost when the process ends):
  * `pc`;
  * `env`: the platform, `--debug`, `--dry-run`, the Python major version,
    whether the external dependency directories exist, whether
    `SRC_DIR`/`VERSION.txt` exist, and whether `makedirs` can create the
    build and package directories;
  * `DEP_DIR`;
  * `cwd`: the working directory;
  * `step`: the dependency project being built;
  * the files `os.walk` still has to yield;
  * `init_py2`/`init_py3`;
  * what cmake was configured against.

The actions follow the code in order:

* `StartRun`: module level, lines 81-121.
* `CheckDeps`: lines 153-223. It first creates the build and package
  directories, in a dry run too. `MakedirsOk` is the helper `makedirs`
  (lines 62-80), which raises on both Python versions when a file or a
  permission is in the way, and the process then fails. Directories are not
  part of `disk`, so `DryRunLeavesDiskAlone` does not speak of them.
* `DependencyInstalled` / `DependencyFailed`: one dependency project's
  configure, build, install and `chdir(cwd)`, lines 224-270.
* `ConfigureBinding`: lines 272-303.
* `BuildBinding`: line 304.
* `WalkFile`: one file yielded by `os.walk`, lines 313-327.
* `FinishWalk`: lines 329-335.
* `SuperRun` / `RetryRun`: `CMakeBuild.run`, lines 139-151.
* `Restart`: the user runs `setup.py` again. Only the disk carries over.

Any spawn can fail (compiler error, interrupt). A failure ends the process
with the working directory where it was.

Two abstractions carry the most weight:

* `os.walk` is a nondeterministic choice of the next unvisited file, so every
  order is explored.
* On Windows (Visual Studio generators) each configuration builds into its
  own folder of the build tree. With Makefile/Ninja generators the one module
  file is overwritten. The model assumes this per-configuration layout, which
  is what CMake's multi-config generators produce.

Argument strings are abstracted to the values cmake ends up with.
`EffectiveDependencyDir` models "the last `-D` wins".

### Runs

| Run | cfg | Expect | What it shows |
|---|---|---|---|
| `numl_build` | `MCNumlSetup.cfg` | pass | On Linux/macOS, up to four processes in a row, each of which can fail at any spawn or be a dry run, on Python 3 with both `libnuml.py` and `libnuml3.py` generated: every walk order leaves the interpreter's script in `__init__.py` (`InitPyMatchesInterpreter`); the module at the target is the one just built (`TargetFromThisBuild`); a dry run never touches the disk (`DryRunLeavesDiskAlone`); every started process stops (`RunEnds`). 14336 states. |
| `numl_partial_deps` | `MCNumlSetupPartialDeps.cfg` | violation | `BindingConfiguredOnCompleteDeps` fails. Run 1 installs libSBML-dependencies and fails building libSBML. Run 2 sees the prefix, skips the dependency build, sets `DEP_DIR` to the prefix, and configures the binding against a prefix with no libSBML. The guard at line 223 tests that the directory exists, not that the install completed. |
| `numl_win_stale` | `MCNumlSetupWinStale.cfg` | violation | `TargetFromThisBuild` fails on win64. A Release build, then a `--debug` build in the same `build_temp`, leaves both modules in the tree. If `os.walk` yields the Release folder last, the Release module ends at the target. |

**Bounds.** `MaxRuns = 4` covers the cases these properties need:

* a failure, then a rerun, then a rerun in another configuration;
* each failure point followed by a retry;
* a dependency build that fails, a rerun that completes the prefix, and
  then builds in both configurations, so that the target changes
  configuration after a prefix was completed by a rerun.

Two dependency projects are the code's own number. Two configurations and
the generated scripts are the code's own sets. The pass run uses one Python
version; `InitPyMatchesInterpreter` depends only on the running interpreter.

**Windows dependency directories.** On Windows, when
`../win_libnuml_dependencies_64` exists, its `-D` comes after `DEP_DIR`
(line 295) and wins, even over a prefix this process just built. No property
is checked about it: nothing in the repository says whether the prebuilt
directory is meant to win.

**Fairness.** `Spec` assumes weak fairness of `ProcessStep`, the disjunction
of the steps of one `setup.py` process. The code justifies this: once
started, a process is one sequential Python program, and each step is a
statement or a spawn that returns. `Restart` is the user's choice and is
not fair. The outcome of a spawn (success or failure) is also not fair:
fairness only guarantees that some step happens. `RunEnds` (in `numl_build`)
checks that every started process stops in `done`, `failed` or `aborted`.
It guards the bare `except` of `CMakeBuild.run` (line 150), which retries
`build_ext.run` once and lets the second error through. Its mutant
`SuperRunRerun` retries by re-entering `run()` (back to the dependency
check), so a persistent failure loops forever, and TLC finds that lasso.
`setup.py` really stops after a failure, so the cfgs say
`CHECK_DEADLOCK FALSE`.

### CombineSetup (with MCCombineSetup): the libCombine build driver

The state and actions are the same as in NumlSetup, mapped to the libCombine
lines:

* `StartRun`: module level, lines 70-106.
* `CheckDeps`: lines 138-202.
* `DependencyInstalled` / `DependencyFailed`: lines 203-269.
* `ConfigureBinding`: lines 271-300.
* `WalkFile`: lines 310-324.
* `FinishWalk`: lines 326-332.
* `SuperRun` / `RetryRun`: lines 124-136.

Three things differ from NumlSetup:

* **DEP_DIR at import.** `env.depDirVar` says whether `LIBCOMBINE_DEP_DIR` is
  unset, set to a directory that exists, or set to one that does not. When it
  is unset, `StartRun` takes the project's own install prefix as `DEP_DIR` if
  that prefix exists (line 75).
* **No exists guard.** `CheckDeps` has no `exists(dep_inst_dir)` test.
* **Three dependency projects.** They are built in order: dependencies, then
  libSBML, then zipper. `PrerequisiteFound` is the `get_lib_full_path` lookup
  (expat for libSBML, zlib or zdll for zipper) whose `None` makes the
  configure line raise a TypeError (lines 236 and 259). Expat is always
  installed by the first project (`-DWITH_EXPAT=ON`). Zlib is installed only
  if that project builds it by default, which `env.depsZlib` leaves open: the
  configure line does not set `WITH_ZLIB`, and the project's source is not in
  the repository. `Restart` keeps `env.depsZlib`, because the sources do not
  change between runs. When it is false, every dependency build ends with a
  raise at zipper, after the dependencies and libSBML are already installed.

| Run | cfg | Expect | What it shows |
|---|---|---|---|
| `combine_build` | `MCCombineSetup.cfg` | pass | On Linux/macOS, up to four runs, with each value of `LIBCOMBINE_DEP_DIR`, failures at every spawn, and dry runs, and with or without zlib from the dependencies project: `__init__.py` gets the interpreter's script, the module at the target is the one just built (`TargetFromThisBuild`), a dry run leaves the disk alone, and every started process stops (`RunEnds`). 44360 states, about 20 s. |
| `combine_partial_deps` | `MCCombineSetupPartialDeps.cfg` | violation | `BindingConfiguredOnCompleteDeps` fails. Run 1 installs the libSBML dependencies and fails on libSBML. Run 2, with the variable unset, imports `setup.py`, finds the prefix, and sets `DEP_DIR` to it at import time. It skips the dependency build and configures the binding against a prefix without libSBML or zipper. A dependencies project that installs no zlib reaches the same state deterministically: zipper's configure line raises after libSBML is installed. This is the libNuML finding reached through different code: here the import-time default causes it, not an `exists` guard. |

`TargetFromThisBuild` holds here on single-configuration generators. Its
mutant `WalkFileCopyIfMissing` copies the module only when the target does
not exist yet, and a Debug run after a Release run then keeps the Release
module. On Windows the copy loop, which is the libNuML loop line for line,
fails the property; `numl_win_stale` shows this on the libNuML driver.

`Spec` assumes weak fairness of `ProcessStep`, for the same reason as in
NumlSetup: one process is a sequential program whose spawns return.
`RunEnds` covers the three dependency builds and the retry in
`CMakeBuild.run` (line 135). Its mutant `RetryRunReenter` retries by
starting `build_cmake` over, and TLC finds a process that never stops.

### NumlTools (with MCNumlTools): the libNuML example tools

A user runs `append_annotation`, `append_notes`, `echoNUML`, `printNUML`,
`createNUML` and `createExample52` one after the other on a few files. The files are the only state one run hands
to the next.

A file is one of three things:

* missing (`None`);
* unparsable (`Garbage`);
* a document.

A document is abstracted to:

* the error flag of its read;
* the metaid and marks (annotation, notes) of the document element;
* the metaid and marks of up to `MaxComps` top-level result components;
* the metaid and marks of one deeper element (an ontology term or a
  dimension description).

A failed read gives an empty document with errors (`ReadNUML`). `writeNUML`
does not write the error log, so a written file reads back cleanly
(`WriteNUML`). `lost` is a history variable. It records whether a file's
content was written from a failed read.

The actions:

* `StartAppend`: lines 6-19.
* `MatchDoc`: the document element is tried first, lines 19-22.
* `ScanComponent`: one iteration of the loop, which breaks at the first
  match, lines 22-27.
* `ScanEnd`: the loop runs out of components.
* `WriteResult`: line 29.
* `Echo`: all of `echoNUML.main`.
* `PrintNUML`: `printNUML.main`. It exits 2 on read errors and 0 otherwise.
  The `is None` exits cannot be taken, because the document always owns its
  lists.
* `UsageError`: the argument-count check of every tool.
* `CreateNUML`: `createNUML.main`. It writes `OneResultDoc` to the file it
  is given. That document has no metaid, one result component and, below
  it, the description and ontology terms.
* `CreateExample52`: the whole script. It writes the same shape of document
  to the fixed file `example5_2.xml`. It sets ids and names by assigning
  attributes of SWIG proxies (`r.id = ...`). The SWIG interface that decides
  whether those properties exist is not in the repository, so the action
  either writes or stops with an AttributeError before the write.

`append_notes` differs from `append_annotation` only in the field it sets
(`MarkOf`).

| Run | cfg | Expect | What it shows |
|---|---|---|---|
| `tools_append` | `MCNumlTools.cfg` | pass | The user makes four tool calls, in any combination. The input starts missing, unparsable, or any document with up to two components and unique metaids; `meta_id` may also be empty. `FirstSearchedMatchMarked` compares the step-by-step loop with a declarative reference: the first element in the order (document, components...) whose metaid equals `meta_id` is marked, nothing else is, and `added` says whether anything was. The output file is named `example5_2.xml`, so `createExample52` also overwrites the file the other tools write to. 590309 states, about 15 s. |
| `tools_laundering` | `MCNumlToolsLaundering.cfg` | violation | `PrintAcceptsOnlyIntactData` fails. `echoNUML` with an input that cannot be read (the missing `example5_2.xml` or the unparsable `data`) writes an empty, well-formed document to `example5_2.xml`, and `printNUML example5_2.xml` then exits 0. The error-log check that would stop this is commented out at `echoNUML.py:28-30`. |
| `tools_nested_metaid` | `MCNumlToolsNested.cfg` | violation | `MetaIdAnnotatedWhereverItIs` fails. A metaid on an element below the result components is never found. Nothing is attached and nothing is reported (`added` is never read), even though the docstring calls `meta_id` "the id to which to attach the annotation". |

**Bounds.** One metaid plus the empty one is enough for every match/no-match
case. Two components make "first match" and "skip the first" different.
Three calls allow "corrupt, echo, print" and "append, then append again".
Four add a created document carried through two tools before it is
appended to, for example "create, echo, append, append".

### SbmlTree and SbmlObjects (with MCSbmlObjects): the libSBML object model

The C++ of libSBML is not in this repository. What the repository has is the
contract its Python tests assert: `TestSBMLParentObject.py`, for every class
of an SBML Level 2 model, and `TestL3KineticLaw.py`. Both modules are written
from those tests.

**SbmlTree** is the abstract specification. Elements are the ids `1..N`,
handed out in increasing order. Each element has a class (`node`) and the
element that owns it (`up`). The actions are:

* `NewRoot`: a constructor.
* `AttachNew`: `createX`. In a single slot it frees what the slot held.
* `AttachCopy`: `addX` and `setX`, which copy a whole subtree below a holder.
* `CopyRoot`: `clone`.
* `FreeRoot`: the last Python reference to a root is dropped, and its whole
  tree is freed.

`ListOfTable` and `SlotTable` list every place the tests put an element:
<<holder class, ListOf or slot name, class>>.

**SbmlObjects** is the detailed model. It keeps the pointers libSBML keeps in
both directions:

* `items` and `slot`: each object's ListOf members, in order, and its
  single-child slots;
* `parent` and `listOf`: the owner, and the ListOf the object is a member of.
  `getParentSBMLObject()` is the ListOf when there is one, and the ListOf's
  own parent is the owner (`ParentSBMLObject`);
* `doc`: the cached `getSBMLDocument()`;
* `ready`: whether the attributes `addX` and `setX` check have been set.
  This is the id for a Parameter, and likewise the math, variable, symbol,
  species or kind the tests set before every add.

The actions are:

* `Construct`;
* `SetRequired`;
* `CreateChild`;
* `CreateOnLast`: Model's `createKineticLaw`, `createReactant`,
  `createEventAssignment`, `createUnit`, ... act on the last reaction, event
  or unit definition. `createKineticLawParameter` acts on the last reaction's
  kinetic law.
* `Add`: a deep copy is appended. An object that is not `ready` is refused
  with `LIBSBML_INVALID_OBJECT` and nothing changes, a stuttering step.
* `SetSingle`: a deep copy replaces and deletes what the slot held.
* `Clone`: a detached deep copy. Its document pointer is None, or the copy
  itself for a document.
* `DropRoot`.

Copies keep the order of the ids they copy (`Copied`, and `CopyTo` in the
abstract module). This makes the refinement mapping simply
`node <- kind, up <- parent`.

| Run | cfg | Expect | What it shows |
|---|---|---|---|
| `sbml_objects` | `MCSbmlObjects.cfg` | pass | It covers five objects of the classes of the reaction tests (Document, Model, Reaction, KineticLaw, Parameter), each of which may also be constructed directly. Four properties are checked. `ParentChildAgree`: the ListOf and slot links and the parent pointers agree in both directions, with no member listed twice. `DocumentCacheAccurate`: the cached document is the document at the top of the owner chain, after clones, copies into another tree and deletions. `TreeSpec`: `SbmlTree`'s `Spec` holds, so add, set and clone copy subtrees and leave the original alone, and deleting a root deletes exactly its tree. 239212 states, about 1.5 minutes. |

| `sbml_events` | `MCSbmlEvents.cfg` | pass | It covers the Event classes: Document, Model, Event, Trigger and Delay. An Event is the only holder with two slots, so setting or creating one slot must delete only what that slot held (`test_Event_parent_NULL` sets both slots). The three properties of `sbml_objects` other than `TypeOK` are checked. A mutant that frees every slot of the holder passes `sbml_objects` and fails here. 86505 states, about 40 s. |

**Bounds.** Five objects are the fewest for which the cases of interest can
happen:

* a document, model, reaction, kinetic law and parameter chain;
* a three-object subtree that is copied;
* a slot that is set while it holds a two-object subtree.

The class table is complete. The run puts the reaction classes in play
(`Classes`). Every other class in the table behaves the same way, as a ListOf
member or as a slot child.

### OwnedValues (with MCOwnedValues): owned math, message, dates and creators

Four tests drive this part:

* `TestConstraint.py`: `setMath` and `setMessage`;
* `TestInitialAssignment.py`: `setMath`;
* `TestModelHistory_newSetters.py`: `setCreatedDate`, `setModifiedDate` and
  `addCreator`.

These fields all hold objects, not strings. Each field owns a deep copy of
what it is given: the tests assert `getMath() != math`.

The model's memory is the cells `1..MaxCells`. Its state is:

* `heap`: the value in each cell, or None when the cell is free;
* `py`: the cells the Python program owns;
* `field`: the cell each field owns;
* `creators`: ModelHistory's creator list.

The actions are:

* `Make`: `parseFormula`, `XMLNode`, `Date` and `ModelCreator`. A Date or a
  creator may be invalid (`Bad`).
* `Drop`: the last Python reference is released.
* `SetValue`: one setter call. `SetField` is its chain of early returns:
  * None on the modified date fails;
  * the field's own value (from `getX()`) changes nothing;
  * None otherwise unsets;
  * an invalid value is refused;
  * anything else is copied in by `Store`, which deletes the old value and
    then stores a copy.

  The argument is one of:
  * a value the program made;
  * what a getter of the same kind returns now, possibly from another field;
  * None.
* `UnsetMessage`.
* `AddCreator`: None fails, and an invalid creator is refused.

| Run | cfg | Expect | What it shows |
|---|---|---|---|
| `owned_values` | `MCOwnedValues.cfg` | pass | It covers every sequence of six calls over four cells. Four properties are checked. `OwnershipExact`: every allocated value has exactly one owner and every free cell none, so nothing leaks, nothing is shared and nothing dangles. `FieldsValid`: no field holds an invalid or freed value, `setX(getX())` included. A refusal changes nothing, in memory either: `FieldValuesSpec` says so of the fields and `OwnershipExact` of the cells. `FieldValuesSpec`: read through the cells, every behaviour is one of `FieldValues`, so a field holds what the last successful setter gave it, whatever the program later does with its own value, and a modified date, once set, stays set. Its mutant puts the self check before the None check: `setModifiedDate(None)` on an unset date then returns success. 565261 states, about 1 min. |

**The abstract specification: `FieldValues`.** It states what the tests
assert, with no memory. Its `value` maps each field to the value it holds,
or None, and `creators` is the list of creator values. `Set` is one setter
call:

* None on the modified date returns OPERATION_FAILED;
* an invalid date or creator returns INVALID_OBJECT;
* anything else, None included, replaces the field's value.

`UnsetMessage` and `AddCreator` follow the same rules. `ProgramStep` stands
for `Make` and `Drop`, which change no field. `last` records each call,
with a setter recorded as the field it sets, so a concrete step is matched
to the abstract call it makes.

`OwnedValues` defines `Values == INSTANCE FieldValues WITH ...`. The
mapping reads each field and each creator slot through its cell
(`heap[field[f]]`). `FieldValuesSpec == Values!Spec` is checked as a
property of the `owned_values` run. It implies that a modified date, once
set, stays set: the abstract spec lets nothing clear it.

**Bounds.** Four cells hold three values at once:

* the program's value;
* the copy stored from it;
* a second stored value or creator.

Six calls are enough for:

* make, set, set-to-self and set-from-another-field;
* refusal of an invalid date after a valid one;
* unset.

**What comes from the tests, and what does not.** The return codes, the
None behaviour and the copy semantics are what the tests assert. The order
inside a setter is not in this repository: check for self first, then
delete the old value, then copy. The tests call `setX(getX())` and expect
the value kept, which only that order gives.

A Python reference returned by `getMath()` would dangle after
`setMath(None)`. The tests never keep one: `TestConstraint.py` calls the
getter again after each unset. The model's program likewise only passes a
getter's current result.

## Plan: what comes next

1. **EventAssignment.** A configuration of `SbmlObjects` with EventAssignment
   alongside both Event slots, so that `createEventAssignment` on the last
   event runs together with slot replacement. With six classes and five
   objects this takes over two minutes. It needs a cheaper encoding of the
   class table first, for example a symmetry over classes that behave alike.
2. **Dangling getter results.** A Python program that keeps the result of
   `getMath()` across `setMath(None)`. This would be a violation run only if
   the binding promised that such a reference stays valid, and nothing in the
   repository promises it.

## Not modelled

* The C++ libraries, CMake and SWIG are not in this repository. They appear
  only as spawns that succeed or fail, and as the files they produce.
* String formatting of arguments, `prepend_variables` and
  `get_python_include`. They are pure data, and only the values they
  produce are modelled. `makedirs` is kept only as its outcome: it returns,
  or it raises (`MakedirsOk`).
* The string tests of `setup.py`. These are the `build_temp` suffix slice
  (line 157), the `'-G' in str(cmake_args)` test (line 200), and which
  `os.listdir` entry `get_lib_full_path` returns (libNuML line 254,
  libCombine line 259). Modelling them needs paths as character strings and
  the directory order of the file system. They stay as hazards with a note.
* SBMLError construction and the fixed-file read tests. They have no state
  to explore.
* In the object model: attribute values (only whether `addX`/`setX` accept
  the object is kept), the duplicate-id refusal of `addX`, and `removeX`.
  The tests exercise none of these. Python variables that still reference a
  deleted object are not modelled either.
* The XMLToken setters (`TestXMLToken_newSetters.py`). Each setter is one
  guarded update of one ordered list, and the tests check the return code and
  the lengths after every call. What they leave open (how a repeated
  attribute key or namespace prefix is replaced, and which namespace
  `addNamespace` refuses) is decided in the C++ of `XMLAttributes` and
  `XMLNamespaces`, which is not in the repository. A model could only
  restate its own guards.
* Compartment attributes (`TestCompartment.py`) and InitialAssignment's
  `symbol`. Each setter is one assignment: `setX("")` unsets, and `size` and
  `volume` are independent flags. No sequence of calls reaches a state that
  the single-call assertions do not already pin down.
* The class-name generator. Its only work is a call to `find_classes` from
  `libsbmlutils`, which is not in the repository, followed by printing the
  result. A `NameError` inside that call is swallowed and the program exits 0
  with no output (listed as a hazard). There is nothing else to model.
