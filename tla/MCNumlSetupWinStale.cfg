\* Two consecutive setup.py processes on 64-bit Windows with a Visual Studio
\* (multi-configuration) generator, one Debug and one Release build.
CONSTANTS
    Platforms <- MCWinPlatforms
    Pythons <- MCPythons
    Generated <- MCGenerated
    MaxRuns = 2
    None = None
SPECIFICATION Spec
INVARIANT TargetFromThisBuild
CHECK_DEADLOCK FALSE
