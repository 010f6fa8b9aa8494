SPECIFICATION FairSpec
CONSTANTS
    Values = {a, b}
    EntryCount = 2
    Modulus = 4
    MaxBatch = 2
    Callers = {"producer", "consumer"}
INVARIANTS LenInRange
PROPERTIES RefinesFifo EntriesMove
