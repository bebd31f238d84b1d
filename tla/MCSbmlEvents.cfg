\* Five objects: a document, model and event with a trigger and a delay, or
\* an event with both slots filled and its copy in progress. The program may
\* stop at any point, and does once every id is used.
CONSTANTS
    N = 5
    Classes <- MCEventClasses
    RootKinds <- MCEventClasses
    None = None
SPECIFICATION Spec
CHECK_DEADLOCK FALSE
INVARIANTS
    ParentChildAgree
    DocumentCacheAccurate
PROPERTY
    TreeSpec
