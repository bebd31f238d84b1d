CONSTANTS
    MetaIds <- MCMetaIds
    Files <- MCFiles
    Inputs <- MCInputs
    MaxComps = 2
    MaxCalls = 3
    Garbage = Garbage
    None = None
SPECIFICATION Spec
INVARIANT MetaIdAnnotatedWhereverItIs
\* The user stops after MaxCalls tool runs: the end states are real stops.
CHECK_DEADLOCK FALSE
