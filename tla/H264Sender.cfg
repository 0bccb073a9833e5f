SPECIFICATION Spec
CONSTANTS
    Files <- MCFiles
    MaxPayload = 2
    SeqModulus = 4
INVARIANTS TypeOK FragmentsMeet UnitsArrive
PROPERTIES Advances
