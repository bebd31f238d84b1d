----------------------------- MODULE NumlSetup -----------------------------
(***************************************************************************)
(* The build driver of the libNuML Python binding,                         *)
(* src/libnuml/src/bindings/python/setup.py: one `setup.py build_ext`      *)
(* process (module-level set-up, CMakeBuild.run, CMakeBuild.build_cmake)   *)
(* and the files it leaves on disk for the next process to find.           *)
(*                                                                         *)
(* Disk (survives a rerun): the dependency install prefix                  *)
(* install_dependencies_<plat> and which dependency projects were          *)
(* installed into it, the extension modules in the CMake build tree, the   *)
(* extension module copied to the target path and the script copied to    *)
(* the package's __init__.py.                                              *)
(* Process (lost when the process ends): program counter, the environment  *)
(* it was started in, DEP_DIR, the working directory, the dependency being *)
(* built, the os.walk still to do and what cmake was configured against.   *)
(*                                                                         *)
(* Every self.spawn may fail (a compiler error, an interrupt, a full disk);*)
(* a failed spawn raises and ends the process. The user may then run       *)
(* setup.py again: Restart, bounded by MaxRuns.                            *)
(***************************************************************************)
EXTENDS Naturals, Sequences, FiniteSets

CONSTANTS
    Platforms,   \* platform.system() and the build_temp suffix: "linux", "osx", "win32", "win64"
    Pythons,     \* sys.version_info.major of the interpreters running setup.py
    Generated,   \* the Python scripts the SWIG build writes into the build tree
    MaxRuns,     \* how many times setup.py is run, one after the other
    None         \* Python's None

ASSUME Platforms \subseteq {"linux", "osx", "win32", "win64"}
ASSUME Pythons \subseteq {2, 3}
ASSUME Generated \subseteq {"libnuml.py", "libnuml2.py", "libnuml3.py"}
ASSUME MaxRuns \in Nat \ {0}

VARIABLES
    installed,   \* dependency projects installed under install_dependencies_<plat>
    tree,        \* configurations whose _libnuml module sits in the build tree
    target,      \* configuration of the module copied to target_lib_path, or None
    initPy,      \* script copied to the package's __init__.py, or None
    pc,          \* where the setup.py process is
    env,         \* the environment the process was started in
    depDir,      \* the global DEP_DIR
    cwd,         \* os.getcwd()
    step,        \* index of the dependency project being built
    toVisit,     \* files os.walk has still to yield
    found,       \* init_py2 / init_py3: the version-specific scripts seen by the walk
    configured,  \* what `cmake SRC_DIR` was last run against in this process
    runs         \* setup.py processes started so far

disk == <<installed, tree, target, initPy>>
proc == <<pc, env, depDir, cwd, step, toVisit, found, configured>>
vars == <<disk, proc, runs>>

(* The two projects compiled into the install prefix, in build order.     *)
DepProjects == <<"dependencies", "libSBML">>
AllDeps == {DepProjects[k] : k \in 1..Len(DepProjects)}
Configs == {"Debug", "Release"}
Scripts == {"libnuml.py", "libnuml2.py", "libnuml3.py"}

(* The environment a process starts in: what the user asked for and which *)
(* directories exist outside the project.                                 *)
Envs == [platform : Platforms, debug : BOOLEAN, dryRun : BOOLEAN,
         py : Pythons, depDirExists : BOOLEAN, winDepDirExists : BOOLEAN,
         srcOk : BOOLEAN, mkdirOk : BOOLEAN]

(* makedirs(build_temp), makedirs(target_dir_path) and the package         *)
(* directory: os.makedirs(exist_ok=True) on Python 3; on Python 2 the     *)
(* TypeError falls through to os.makedirs and an EEXIST on a directory is *)
(* ignored. On both, makedirs returns when the directory exists or is     *)
(* created and raises when a file or a permission is in the way.          *)
MakedirsOk == env.mkdirOk

(* config = 'Debug' if self.debug else 'Release'                           *)
Config == IF env.debug THEN "Debug" ELSE "Release"

(* Visual Studio generators build each configuration into its own folder  *)
(* of the build tree; Makefile and Ninja generators overwrite one file.   *)
MultiConfig == env.platform \in {"win32", "win64"}

(* exists(dep_inst_dir): the prefix is created by the first install.      *)
InstallDirExists == installed # {}

(* get_lib_full_path(join(dep_inst_dir, 'lib'), 'expat') is not None: the *)
(* expat library is installed by the first dependency project.            *)
ExpatLibraryFound == "dependencies" \in installed

(* The value cmake sees for LIBNUML_DEPENDENCY_DIR: the -D given last      *)
(* wins, and the Windows directories are appended after DEP_DIR.          *)
EffectiveDependencyDir ==
    CASE env.platform = "win32" /\ env.winDepDirExists -> "win32_deps"
      [] env.platform = "win64" /\ env.winDepDirExists -> "win64_deps"
      [] OTHER -> depDir

-----------------------------------------------------------------------------
(* Module level, lines 88-121: DEP_DIR from LIBNUML_DEP_DIR or             *)
(* ../libnuml_dependencies/ if that exists; a missing source directory or *)
(* VERSION.txt raises before setup() is called.                           *)
StartRun ==
    /\ pc = "start"
    /\ depDir' = IF env.depDirExists THEN "external" ELSE None
    /\ pc' = IF env.srcOk THEN "deps" ELSE "aborted"
    /\ UNCHANGED <<disk, env, cwd, step, toVisit, found, configured, runs>>

(* build_cmake up to the dependency check: compute config and platform    *)
(* flags, create build_temp and the package directories (a dry run too), *)
(* failing if makedirs raises; if DEP_DIR is unset and this is no dry run,  *)
(* build the dependencies unless the install prefix already exists, in    *)
(* which case DEP_DIR becomes that prefix.                                *)
CheckDeps ==
    /\ pc = "deps"
    /\ IF ~MakedirsOk THEN pc' = "failed" /\ UNCHANGED <<depDir, step>>
       ELSE IF depDir = None /\ ~env.dryRun
         THEN IF ~InstallDirExists
                THEN pc' = "dep_build" /\ step' = 1 /\ UNCHANGED depDir
                ELSE pc' = "configure" /\ depDir' = "inst" /\ UNCHANGED step
         ELSE pc' = "configure" /\ UNCHANGED <<depDir, step>>
    /\ UNCHANGED <<disk, env, cwd, toVisit, found, configured, runs>>

(* Mutant: the loop over the dependency projects runs one step too far.    *)
DependencyInstalledPastEnd ==
    /\ pc = "dep_build"
    /\ DepProjects[step] = "libSBML" => ExpatLibraryFound
    /\ installed' = installed \cup {DepProjects[step]}
    /\ cwd' = "top"
    /\ IF step <= Len(DepProjects)
         THEN step' = step + 1 /\ UNCHANGED <<pc, depDir>>
         ELSE pc' = "configure" /\ depDir' = "inst" /\ UNCHANGED step
    /\ UNCHANGED <<tree, target, initPy, env, toVisit, found, configured, runs>>

(* One dependency project configured, built and installed in its own      *)
(* build directory, then os.chdir(cwd). The libSBML configure line        *)
(* concatenates the expat path, which raises if it was not found. After   *)
(* the last project, DEP_DIR = dep_inst_dir.                              *)
DependencyInstalled ==
    /\ pc = "dep_build"
    /\ DepProjects[step] = "libSBML" => ExpatLibraryFound
    /\ installed' = installed \cup {DepProjects[step]}
    /\ cwd' = "top"
    /\ IF step < Len(DepProjects)
         THEN step' = step + 1 /\ UNCHANGED <<pc, depDir>>
         ELSE pc' = "configure" /\ depDir' = "inst" /\ UNCHANGED step
    /\ UNCHANGED <<tree, target, initPy, env, toVisit, found, configured, runs>>

(* A spawn of that project fails: the process ends in its build directory.*)
DependencyFailed ==
    /\ pc = "dep_build"
    /\ cwd' = DepProjects[step]
    /\ pc' = "failed"
    /\ UNCHANGED <<disk, env, depDir, step, toVisit, found, configured, runs>>

(* Mutant: the `if not self.dry_run` around the build and the copies is   *)
(* left out; the dry run's build spawn does nothing and the walk copies   *)
(* whatever an earlier run left in the build tree.                        *)
ConfigureBindingNoDryGuard ==
    /\ pc = "configure"
    /\ IF env.dryRun
         THEN /\ pc' = "walk" /\ toVisit' = tree \cup Generated /\ found' = {}
              /\ UNCHANGED <<cwd, configured>>
         ELSE /\ configured' = [dir |-> EffectiveDependencyDir,
                                complete |-> installed = AllDeps]
              /\ cwd' = "build_temp"
              /\ \E ok \in BOOLEAN : pc' = IF ok THEN "build_binding" ELSE "failed"
              /\ UNCHANGED <<toVisit, found>>
    /\ UNCHANGED <<disk, env, depDir, step, runs>>

(* os.chdir(build_temp); `cmake SRC_DIR ...` with the dependency dir. A   *)
(* dry run's spawn does nothing and the rest of build_cmake is skipped.   *)
ConfigureBinding ==
    /\ pc = "configure"
    /\ IF env.dryRun
         THEN pc' = "super_run" /\ UNCHANGED <<cwd, configured>>
         ELSE /\ configured' = [dir |-> EffectiveDependencyDir,
                                complete |-> installed = AllDeps]
              /\ cwd' = "build_temp"
              /\ \E ok \in BOOLEAN : pc' = IF ok THEN "build_binding" ELSE "failed"
    /\ UNCHANGED <<disk, env, depDir, step, toVisit, found, runs>>

(* `cmake --build . --target binding_python_lib`; on success os.walk      *)
(* starts over the whole build tree.                                       *)
BuildBinding ==
    /\ pc = "build_binding"
    /\ \/ /\ tree' = IF MultiConfig THEN tree \cup {Config} ELSE {Config}
          /\ toVisit' = tree' \cup Generated
          /\ found' = {}
          /\ pc' = "walk"
       \/ /\ pc' = "failed"
          /\ UNCHANGED <<tree, toVisit, found>>
    /\ UNCHANGED <<target, installed, initPy, env, depDir, cwd, step, configured, runs>>

(* Mutant: the module is copied only if the target does not exist yet.    *)
WalkFileKeepTarget ==
    /\ pc = "walk"
    /\ \E f \in toVisit :
         /\ toVisit' = toVisit \ {f}
         /\ target' = IF f \in Configs /\ target = None THEN f ELSE target
         /\ initPy' = IF f = "libnuml.py" THEN f ELSE initPy
         /\ found' = IF f \in {"libnuml2.py", "libnuml3.py"} THEN found \cup {f} ELSE found
    /\ UNCHANGED <<installed, tree, pc, env, depDir, cwd, step, configured, runs>>

(* One file yielded by os.walk, in whatever order the file system gives:  *)
(* a module is copied to the target, libnuml.py to __init__.py, the       *)
(* version-specific scripts are remembered.                               *)
WalkFile ==
    /\ pc = "walk"
    /\ \E f \in toVisit :
         /\ toVisit' = toVisit \ {f}
         /\ target' = IF f \in Configs THEN f ELSE target
         /\ initPy' = IF f = "libnuml.py" THEN f ELSE initPy
         /\ found' = IF f \in {"libnuml2.py", "libnuml3.py"} THEN found \cup {f} ELSE found
    /\ UNCHANGED <<installed, tree, pc, env, depDir, cwd, step, configured, runs>>

(* Mutant: the Python 3 branch tests the major version against 2.          *)
FinishWalkWrongVersion ==
    /\ pc = "walk"
    /\ toVisit = {}
    /\ initPy' = CASE "libnuml2.py" \in found /\ env.py = 2 -> "libnuml2.py"
                   [] "libnuml3.py" \in found /\ env.py = 2 -> "libnuml3.py"
                   [] OTHER -> initPy
    /\ cwd' = "top"
    /\ pc' = "super_run"
    /\ UNCHANGED <<installed, tree, target, env, depDir, step, toVisit, found, configured, runs>>

(* After the walk: the script for the running interpreter's major version *)
(* overwrites __init__.py; os.chdir(cwd).                                 *)
FinishWalk ==
    /\ pc = "walk"
    /\ toVisit = {}
    /\ initPy' = CASE "libnuml2.py" \in found /\ env.py = 2 -> "libnuml2.py"
                   [] "libnuml3.py" \in found /\ env.py = 3 -> "libnuml3.py"
                   [] OTHER -> initPy
    /\ cwd' = "top"
    /\ pc' = "super_run"
    /\ UNCHANGED <<installed, tree, target, env, depDir, step, toVisit, found, configured, runs>>

(* Mutant: the bare except retries with self.run(), which starts           *)
(* build_cmake over again instead of calling build_ext.run once more.     *)
SuperRunRerun ==
    /\ pc = "super_run"
    /\ \/ pc' = "done"
       \/ pc' = "deps"
    /\ UNCHANGED <<disk, env, depDir, cwd, step, toVisit, found, configured, runs>>

(* CMakeBuild.run: after build_cmake, super().run(); a bare except calls  *)
(* build_ext.run(self) a second time, and that one's error propagates.    *)
SuperRun ==
    /\ pc = "super_run"
    /\ \/ pc' = "done"
       \/ pc' = "retry_run"
    /\ UNCHANGED <<disk, env, depDir, cwd, step, toVisit, found, configured, runs>>

RetryRun ==
    /\ pc = "retry_run"
    /\ \/ pc' = "done"
       \/ pc' = "failed"
    /\ UNCHANGED <<disk, env, depDir, cwd, step, toVisit, found, configured, runs>>

(* The user runs setup.py again, in a possibly different environment.     *)
(* Only what is on disk carries over.                                      *)
Restart ==
    /\ pc \in {"done", "failed", "aborted"}
    /\ runs < MaxRuns
    /\ runs' = runs + 1
    /\ pc' = "start"
    /\ env' \in Envs
    /\ depDir' = None
    /\ cwd' = "top"
    /\ step' = 1
    /\ toVisit' = {}
    /\ found' = {}
    /\ configured' = None
    /\ UNCHANGED disk

Init ==
    /\ installed = {}
    /\ tree = {}
    /\ target = None
    /\ initPy = None
    /\ pc = "start"
    /\ env \in Envs
    /\ depDir = None
    /\ cwd = "top"
    /\ step = 1
    /\ toVisit = {}
    /\ found = {}
    /\ configured = None
    /\ runs = 1

Next ==
    \/ StartRun
    \/ CheckDeps
    \/ DependencyInstalled
    \/ DependencyFailed
    \/ ConfigureBinding
    \/ BuildBinding
    \/ WalkFile
    \/ FinishWalk
    \/ SuperRun
    \/ RetryRun
    \/ Restart

(* The steps of one setup.py process. Once started, a process runs to its *)
(* end: each step is a spawn or a Python statement, and every spawn        *)
(* returns. The user's Restart is not a process step and is not fair.     *)
ProcessStep ==
    \/ StartRun
    \/ CheckDeps
    \/ DependencyInstalled
    \/ DependencyFailed
    \/ ConfigureBinding
    \/ BuildBinding
    \/ WalkFile
    \/ FinishWalk
    \/ SuperRun
    \/ RetryRun

Spec == Init /\ [][Next]_vars /\ WF_vars(ProcessStep)

-----------------------------------------------------------------------------
TypeOK ==
    /\ installed \subseteq AllDeps
    /\ tree \subseteq Configs
    /\ target \in Configs \cup {None}
    /\ initPy \in Scripts \cup {None}
    /\ pc \in {"start", "deps", "dep_build", "configure", "build_binding", "walk",
               "super_run", "retry_run", "done", "failed", "aborted"}
    /\ env \in Envs
    /\ depDir \in {None, "external", "inst"}
    /\ cwd \in {"top", "build_temp"} \cup AllDeps
    /\ step \in 1..Len(DepProjects)
    /\ toVisit \subseteq Configs \cup Scripts
    /\ found \subseteq {"libnuml2.py", "libnuml3.py"}
    /\ configured \in {None} \cup
         [dir : {None, "external", "inst", "win32_deps", "win64_deps"}, complete : BOOLEAN]
    /\ runs \in 1..MaxRuns

(* The script the package's __init__.py should end up as: the one written *)
(* for the running interpreter's major version if the build generated it, *)
(* the generic libnuml.py otherwise.                                       *)
PreferredScript ==
    LET versioned == IF env.py = 3 THEN "libnuml3.py" ELSE "libnuml2.py"
    IN  IF versioned \in Generated THEN versioned ELSE "libnuml.py"

(* Whatever order os.walk yields the build tree in, a process that built  *)
(* the binding leaves the script for its own interpreter in __init__.py.  *)
InitPyMatchesInterpreter ==
    (pc = "done" /\ ~env.dryRun) => initPy = PreferredScript

(* A process that built the binding leaves at target_lib_path the module  *)
(* of the configuration it just built, not one left by an earlier run.    *)
TargetFromThisBuild ==
    (pc = "done" /\ ~env.dryRun) => target = Config

(* A dry run (setup.py --dry-run) changes nothing on disk.                 *)
DryRunLeavesDiskAlone == [][env.dryRun => UNCHANGED disk]_vars

(* Every setup.py process that starts eventually stops: it builds the    *)
(* binding, fails, or aborts. The bare except in CMakeBuild.run retries   *)
(* build_ext.run once and lets the second error propagate, so a failing   *)
(* build never loops.                                                      *)
RunEnds == pc = "start" ~> pc \in {"done", "failed", "aborted"}

(* cmake configures the binding against the project's own install prefix  *)
(* only when every dependency project was installed into it.              *)
BindingConfiguredOnCompleteDeps ==
    (configured # None /\ configured.dir = "inst") => configured.complete
====
