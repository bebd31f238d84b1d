\* Five objects: enough for a document, model, reaction, kinetic law and
\* parameter, or a three-object tree and its copy. The program may stop at
\* any point, and does once every id is used.
CONSTANTS
    N = 5
    Classes <- MCClasses
    RootKinds <- MCClasses
    None = None
SPECIFICATION Spec
CHECK_DEADLOCK FALSE
INVARIANTS
    TypeOK
    ParentChildAgree
    DocumentCacheAccurate
PROPERTY
    TreeSpec
