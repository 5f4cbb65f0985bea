SPECIFICATION Spec
CONSTANTS
    Conversions <- SafeConversions
    Absent <- MCAbsent
INVARIANTS
    Inv
    Sound
    Exact
    NotOverConstrained
