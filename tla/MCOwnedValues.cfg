\* Four cells hold a value the program made, the copy stored from it, and
\* a second stored value or creator; six calls reach set, set-to-self,
\* set-from-another-field, refusal and unset in one behaviour. The program
\* stops after its last call.
CONSTANTS
    Contents <- MCContents
    Bad = Bad
    Garbage = Garbage
    None = None
    MaxCells = 4
    MaxCalls = 6
SPECIFICATION Spec
CHECK_DEADLOCK FALSE
INVARIANTS
    TypeOK
    OwnershipExact
    FieldsValid
PROPERTIES
    FieldValuesSpec
