---------------------------- MODULE CombineSetup ----------------------------
(***************************************************************************)
(* The build driver of the libCombine Python binding,                      *)
(* src/libCombine/src/bindings/python/setup.py. It has the same shape as   *)
(* the libNuML driver (NumlSetup), with three differences that matter:     *)
(*  - DEP_DIR is decided at import time, and when LIBCOMBINE_DEP_DIR is    *)
(*    unset it defaults to the project's own install_dependencies_<plat>   *)
(*    if that directory exists;                                            *)
(*  - build_cmake has no exists(dep_inst_dir) guard: with DEP_DIR unset    *)
(*    it always builds the dependencies;                                   *)
(*  - three dependency projects are built: the libSBML dependencies       *)
(*    (expat, zlib), libSBML (needs expat), zipper (needs zlib).           *)
(* Disk and process state as in NumlSetup; every spawn may fail and the    *)
(* user may run setup.py again (Restart, bounded by MaxRuns).              *)
(***************************************************************************)
EXTENDS Naturals, Sequences, FiniteSets

CONSTANTS
    Platforms,   \* platform.system() and the build_temp suffix: "linux", "osx", "win32", "win64"
    Pythons,     \* sys.version_info.major of the interpreters running setup.py
    Generated,   \* the Python scripts the SWIG build writes into the build tree
    MaxRuns,     \* how many times setup.py is run, one after the other
    None         \* Python's None

ASSUME Platforms \subseteq {"linux", "osx", "win32", "win64"}
ASSUME Pythons \subseteq {2, 3}
ASSUME Generated \subseteq {"libcombine.py", "libcombine2.py", "libcombine3.py"}
ASSUME MaxRuns \in Nat \ {0}

VARIABLES
    installed,   \* dependency projects installed under install_dependencies_<plat>
    tree,        \* configurations whose _libcombine module sits in the build tree
    target,      \* configuration of the module copied to target_lib_path, or None
    initPy,      \* script copied to the package's __init__.py, or None
    pc,          \* where the setup.py process is
    env,         \* the environment the process was started in
    depDir,      \* the global DEP_DIR
    cwd,         \* os.getcwd()
    step,        \* index of the dependency project being built
    toVisit,     \* files os.walk has still to yield
    found,       \* init_py2 / init_py3: the version-specific scripts seen by the walk
    configured,  \* what `cmake SRC_DIR` was last run against in this process
    runs         \* setup.py processes started so far

disk == <<installed, tree, target, initPy>>
proc == <<pc, env, depDir, cwd, step, toVisit, found, configured>>
vars == <<disk, proc, runs>>

(* The three projects compiled into the install prefix, in build order.   *)
DepProjects == <<"dependencies", "libSBML", "zipper">>
AllDeps == {DepProjects[k] : k \in 1..Len(DepProjects)}
Configs == {"Debug", "Release"}
Scripts == {"libcombine.py", "libcombine2.py", "libcombine3.py"}

(* LIBCOMBINE_DEP_DIR: unset, set to a directory that exists, or set to   *)
(* one that does not.                                                      *)
DepDirVar == {"unset", "exists", "missing"}

Envs == [platform : Platforms, debug : BOOLEAN, dryRun : BOOLEAN,
         py : Pythons, depDirVar : DepDirVar, winDepDirExists : BOOLEAN,
         srcOk : BOOLEAN, mkdirOk : BOOLEAN, depsZlib : BOOLEAN]

(* makedirs(build_temp), makedirs(target_dir_path) and the package         *)
(* directory: os.makedirs(exist_ok=True) on Python 3; on Python 2 the     *)
(* TypeError falls through to os.makedirs and an EEXIST on a directory is *)
(* ignored. On both, makedirs returns when the directory exists or is     *)
(* created and raises when a file or a permission is in the way.          *)
MakedirsOk == env.mkdirOk

(* config = 'Debug' if self.debug else 'Release'                           *)
Config == IF env.debug THEN "Debug" ELSE "Release"

(* Visual Studio generators build each configuration into its own folder  *)
(* of the build tree; Makefile and Ninja generators overwrite one file.   *)
MultiConfig == env.platform \in {"win32", "win64"}

(* exists(install_dependencies_<plat>): created by the first install.     *)
InstallDirExists == installed # {}

(* get_lib_full_path(join(dep_inst_dir, 'lib'), ...) is not None for the  *)
(* library a project's configure line concatenates: expat for libSBML     *)
(* (line 236), zlib or else zdll for zipper (lines 251-259). Expat comes   *)
(* from the first project (-DWITH_EXPAT=ON); zlib only if that project     *)
(* builds it by default (env.depsZlib): its source is not in the          *)
(* repository and the configure line leaves WITH_ZLIB unset. libSBML's    *)
(* own configure asks for zlib with -DWITH_ZLIB=ON but may find it        *)
(* elsewhere, so its build is not tied to env.depsZlib.                   *)
PrerequisiteFound(p) ==
    /\ p \in {"libSBML", "zipper"} => "dependencies" \in installed
    /\ p = "zipper" => env.depsZlib

(* The value cmake sees for LIBCOMBINE_DEPENDENCY_DIR: the -D given last  *)
(* wins, and the Windows directories are appended after DEP_DIR.          *)
EffectiveDependencyDir ==
    CASE env.platform = "win32" /\ env.winDepDirExists -> "win32_deps"
      [] env.platform = "win64" /\ env.winDepDirExists -> "win64_deps"
      [] OTHER -> depDir

-----------------------------------------------------------------------------
(* Module level: get_dir_if_exists('LIBCOMBINE_DEP_DIR', the project's     *)
(* own install prefix); a missing source directory or VERSION.txt raises. *)
StartRun ==
    /\ pc = "start"
    /\ depDir' = CASE env.depDirVar = "exists"                      -> "external"
                   [] env.depDirVar = "unset" /\ InstallDirExists   -> "inst"
                   [] OTHER                                        -> None
    /\ pc' = IF env.srcOk THEN "deps" ELSE "aborted"
    /\ UNCHANGED <<disk, env, cwd, step, toVisit, found, configured, runs>>

(* Mutant: the `not self.dry_run` half of the dependency check is lost.   *)
CheckDepsIgnoreDryRun ==
    /\ pc = "deps"
    /\ IF ~MakedirsOk THEN pc' = "failed" /\ UNCHANGED step
       ELSE IF depDir = None
         THEN pc' = "dep_build" /\ step' = 1
         ELSE pc' = "configure" /\ UNCHANGED step
    /\ UNCHANGED <<disk, env, depDir, cwd, toVisit, found, configured, runs>>

(* build_cmake up to the dependency check: create build_temp and the      *)
(* package directories (a dry run too), failing if makedirs raises; then, *)
(* with DEP_DIR unset and no dry run, the dependencies are built,         *)
(* whatever is already in the prefix.                                      *)
CheckDeps ==
    /\ pc = "deps"
    /\ IF ~MakedirsOk THEN pc' = "failed" /\ UNCHANGED step
       ELSE IF depDir = None /\ ~env.dryRun
         THEN pc' = "dep_build" /\ step' = 1
         ELSE pc' = "configure" /\ UNCHANGED step
    /\ UNCHANGED <<disk, env, depDir, cwd, toVisit, found, configured, runs>>

(* Mutant: the loop over the dependency projects runs one step too far.    *)
DependencyInstalledPastEnd ==
    /\ pc = "dep_build"
    /\ PrerequisiteFound(DepProjects[step])
    /\ installed' = installed \cup {DepProjects[step]}
    /\ cwd' = "top"
    /\ IF step <= Len(DepProjects)
         THEN step' = step + 1 /\ UNCHANGED <<pc, depDir>>
         ELSE pc' = "configure" /\ depDir' = "inst" /\ UNCHANGED step
    /\ UNCHANGED <<tree, target, initPy, env, toVisit, found, configured, runs>>

(* One dependency project configured, built and installed in its own      *)
(* build directory, then os.chdir(cwd). The configure line concatenates   *)
(* the path of its prerequisite library, which raises if it was not       *)
(* found. After zipper, DEP_DIR = dep_inst_dir.                            *)
DependencyInstalled ==
    /\ pc = "dep_build"
    /\ PrerequisiteFound(DepProjects[step])
    /\ installed' = installed \cup {DepProjects[step]}
    /\ cwd' = "top"
    /\ IF step < Len(DepProjects)
         THEN step' = step + 1 /\ UNCHANGED <<pc, depDir>>
         ELSE pc' = "configure" /\ depDir' = "inst" /\ UNCHANGED step
    /\ UNCHANGED <<tree, target, initPy, env, toVisit, found, configured, runs>>

(* A spawn of that project fails, or its configure line raises a         *)
(* TypeError on a prerequisite not found: the process ends in its build  *)
(* directory.                                                              *)
DependencyFailed ==
    /\ pc = "dep_build"
    /\ cwd' = DepProjects[step]
    /\ pc' = "failed"
    /\ UNCHANGED <<disk, env, depDir, step, toVisit, found, configured, runs>>

(* os.chdir(build_temp); `cmake SRC_DIR ...` with the dependency dir. A   *)
(* dry run's spawn does nothing and the rest of build_cmake is skipped.   *)
ConfigureBinding ==
    /\ pc = "configure"
    /\ IF env.dryRun
         THEN pc' = "super_run" /\ UNCHANGED <<cwd, configured>>
         ELSE /\ configured' = [dir |-> EffectiveDependencyDir,
                                complete |-> installed = AllDeps]
              /\ cwd' = "build_temp"
              /\ \E ok \in BOOLEAN : pc' = IF ok THEN "build_binding" ELSE "failed"
    /\ UNCHANGED <<disk, env, depDir, step, toVisit, found, runs>>

(* `cmake --build . --target binding_python_lib`; on success os.walk      *)
(* starts over the whole build tree.                                       *)
BuildBinding ==
    /\ pc = "build_binding"
    /\ \/ /\ tree' = IF MultiConfig THEN tree \cup {Config} ELSE {Config}
          /\ toVisit' = tree' \cup Generated
          /\ found' = {}
          /\ pc' = "walk"
       \/ /\ pc' = "failed"
          /\ UNCHANGED <<tree, toVisit, found>>
    /\ UNCHANGED <<target, installed, initPy, env, depDir, cwd, step, configured, runs>>

(* Mutant: the module is copied only when target_lib_path does not exist *)
(* yet, so a module left by an earlier run is never replaced.             *)
WalkFileCopyIfMissing ==
    /\ pc = "walk"
    /\ \E f \in toVisit :
         /\ toVisit' = toVisit \ {f}
         /\ target' = IF f \in Configs /\ target = None THEN f ELSE target
         /\ initPy' = IF f = "libcombine.py" THEN f ELSE initPy
         /\ found' = IF f \in {"libcombine2.py", "libcombine3.py"} THEN found \cup {f} ELSE found
    /\ UNCHANGED <<installed, tree, pc, env, depDir, cwd, step, configured, runs>>

(* One file yielded by os.walk, in whatever order the file system gives:  *)
(* a module is copied to the target, libcombine.py to __init__.py, the    *)
(* version-specific scripts are remembered.                               *)
WalkFile ==
    /\ pc = "walk"
    /\ \E f \in toVisit :
         /\ toVisit' = toVisit \ {f}
         /\ target' = IF f \in Configs THEN f ELSE target
         /\ initPy' = IF f = "libcombine.py" THEN f ELSE initPy
         /\ found' = IF f \in {"libcombine2.py", "libcombine3.py"} THEN found \cup {f} ELSE found
    /\ UNCHANGED <<installed, tree, pc, env, depDir, cwd, step, configured, runs>>

(* Mutant: only the Python 2 copy survives after the walk.                *)
FinishWalkPy2Only ==
    /\ pc = "walk"
    /\ toVisit = {}
    /\ initPy' = IF "libcombine2.py" \in found /\ env.py = 2 THEN "libcombine2.py" ELSE initPy
    /\ cwd' = "top"
    /\ pc' = "super_run"
    /\ UNCHANGED <<installed, tree, target, env, depDir, step, toVisit, found, configured, runs>>

(* After the walk: the script for the running interpreter's major version *)
(* overwrites __init__.py; os.chdir(cwd).                                 *)
FinishWalk ==
    /\ pc = "walk"
    /\ toVisit = {}
    /\ initPy' = CASE "libcombine2.py" \in found /\ env.py = 2 -> "libcombine2.py"
                   [] "libcombine3.py" \in found /\ env.py = 3 -> "libcombine3.py"
                   [] OTHER -> initPy
    /\ cwd' = "top"
    /\ pc' = "super_run"
    /\ UNCHANGED <<installed, tree, target, env, depDir, step, toVisit, found, configured, runs>>

(* CMakeBuild.run: after build_cmake, super().run(); a bare except calls  *)
(* build_ext.run(self) a second time, and that one's error propagates.    *)
SuperRun ==
    /\ pc = "super_run"
    /\ \/ pc' = "done"
       \/ pc' = "retry_run"
    /\ UNCHANGED <<disk, env, depDir, cwd, step, toVisit, found, configured, runs>>

(* Mutant: the except clause calls self.run() again instead of            *)
(* build_ext.run, so each failure starts build_cmake over.                *)
RetryRunReenter ==
    /\ pc = "retry_run"
    /\ \/ pc' = "done"
       \/ pc' = "deps"
    /\ UNCHANGED <<disk, env, depDir, cwd, step, toVisit, found, configured, runs>>

RetryRun ==
    /\ pc = "retry_run"
    /\ \/ pc' = "done"
       \/ pc' = "failed"
    /\ UNCHANGED <<disk, env, depDir, cwd, step, toVisit, found, configured, runs>>

(* The user runs setup.py again, in a possibly different environment but  *)
(* with the same dependency sources. Only what is on disk carries over.   *)
Restart ==
    /\ pc \in {"done", "failed", "aborted"}
    /\ runs < MaxRuns
    /\ runs' = runs + 1
    /\ pc' = "start"
    /\ env' \in {e \in Envs : e.depsZlib = env.depsZlib}
    /\ depDir' = None
    /\ cwd' = "top"
    /\ step' = 1
    /\ toVisit' = {}
    /\ found' = {}
    /\ configured' = None
    /\ UNCHANGED disk

Init ==
    /\ installed = {}
    /\ tree = {}
    /\ target = None
    /\ initPy = None
    /\ pc = "start"
    /\ env \in Envs
    /\ depDir = None
    /\ cwd = "top"
    /\ step = 1
    /\ toVisit = {}
    /\ found = {}
    /\ configured = None
    /\ runs = 1

Next ==
    \/ StartRun
    \/ CheckDeps
    \/ DependencyInstalled
    \/ DependencyFailed
    \/ ConfigureBinding
    \/ BuildBinding
    \/ WalkFile
    \/ FinishWalk
    \/ SuperRun
    \/ RetryRun
    \/ Restart

(* The steps of one setup.py process: a sequential Python program whose   *)
(* every spawn returns. The user's Restart is not a process step.         *)
ProcessStep ==
    \/ StartRun
    \/ CheckDeps
    \/ DependencyInstalled
    \/ DependencyFailed
    \/ ConfigureBinding
    \/ BuildBinding
    \/ WalkFile
    \/ FinishWalk
    \/ SuperRun
    \/ RetryRun

Spec == Init /\ [][Next]_vars /\ WF_vars(ProcessStep)

-----------------------------------------------------------------------------
TypeOK ==
    /\ installed \subseteq AllDeps
    /\ tree \subseteq Configs
    /\ target \in Configs \cup {None}
    /\ initPy \in Scripts \cup {None}
    /\ pc \in {"start", "deps", "dep_build", "configure", "build_binding", "walk",
               "super_run", "retry_run", "done", "failed", "aborted"}
    /\ env \in Envs
    /\ depDir \in {None, "external", "inst"}
    /\ cwd \in {"top", "build_temp"} \cup AllDeps
    /\ step \in 1..Len(DepProjects)
    /\ toVisit \subseteq Configs \cup Scripts
    /\ found \subseteq {"libcombine2.py", "libcombine3.py"}
    /\ configured \in {None} \cup
         [dir : {None, "external", "inst", "win32_deps", "win64_deps"}, complete : BOOLEAN]
    /\ runs \in 1..MaxRuns

(* The script the package's __init__.py should end up as: the one written *)
(* for the running interpreter's major version if the build generated it, *)
(* the generic libcombine.py otherwise.                                    *)
PreferredScript ==
    LET versioned == IF env.py = 3 THEN "libcombine3.py" ELSE "libcombine2.py"
    IN  IF versioned \in Generated THEN versioned ELSE "libcombine.py"

(* Whatever order os.walk yields the build tree in, a process that built  *)
(* the binding leaves the script for its own interpreter in __init__.py.  *)
InitPyMatchesInterpreter ==
    (pc = "done" /\ ~env.dryRun) => initPy = PreferredScript

(* A process that built the binding leaves at target_lib_path the module  *)
(* of the configuration it just built: the walk's shutil.copyfile replaces *)
(* whatever an earlier run of another configuration left there.           *)
TargetFromThisBuild ==
    (pc = "done" /\ ~env.dryRun) => target = Config

(* Every setup.py process that starts eventually stops: the bare except   *)
(* of CMakeBuild.run calls build_ext.run once more and lets its error     *)
(* propagate, so three dependency builds and a failing binding build      *)
(* never loop.                                                             *)
RunEnds == pc = "start" ~> pc \in {"done", "failed", "aborted"}

(* A dry run (setup.py --dry-run) changes nothing on disk: neither the    *)
(* dependency prefix nor the build tree nor the package.                  *)
DryRunLeavesDiskAlone == [][env.dryRun => UNCHANGED disk]_vars

(* cmake configures the binding against the project's own install prefix  *)
(* only when all three dependency projects were installed into it.        *)
BindingConfiguredOnCompleteDeps ==
    (configured # None /\ configured.dir = "inst") => configured.complete
====
