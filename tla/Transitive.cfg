SPECIFICATION Spec
CONSTANTS
    r1 = r1  r2 = r2  r3 = r3  h1 = h1  None = None
    Resources <- MCResources
    Hashes = {h1}
    Graphs <- Acyclic
    Compliance = {"COMPLIANT", "NON_COMPLIANT"}

CHECK_DEADLOCK FALSE
INVARIANTS
    ResultAsSpecified
    ConsistentResult
PROPERTIES
    Terminates
