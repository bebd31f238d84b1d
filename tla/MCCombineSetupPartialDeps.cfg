CONSTANTS
    Platforms <- MCLinux
    Pythons <- MCPythons
    Generated <- MCGenerated
    MaxRuns = 2
    None = None
SPECIFICATION Spec
INVARIANT BindingConfiguredOnCompleteDeps
\* setup.py exits when its last run ends: the end states are real stops.
CHECK_DEADLOCK FALSE
