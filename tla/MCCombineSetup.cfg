CONSTANTS
    Platforms <- MCPlatforms
    Pythons <- MCPythons
    Generated <- MCGenerated
    MaxRuns = 4
    None = None
SPECIFICATION Spec
INVARIANT TypeOK
INVARIANT InitPyMatchesInterpreter
INVARIANT TargetFromThisBuild
PROPERTY DryRunLeavesDiskAlone
PROPERTY RunEnds
\* setup.py exits when its last run ends: the end states are real stops.
CHECK_DEADLOCK FALSE
