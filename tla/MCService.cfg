SPECIFICATION Spec
CONSTANTS
    Calls = {c1, c2}
    MaxDay = 2
    Nobody = Nobody
INVARIANTS NoSilentLoss CleanShutdown
PROPERTIES ImplementsEvidenceLog ShutdownEnds HandlersReturn
