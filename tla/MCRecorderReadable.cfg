SPECIFICATION Spec
CONSTANTS
    Calls = {c1, c2}
    MaxDay = 1
    Nobody = Nobody
INVARIANTS AckedReadable
