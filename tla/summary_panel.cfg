SPECIFICATION FairSpec
CONSTANTS
  Fields = {symptom, diagnosis}
  Requests = {r1, r2}
  MaxNotes = 2
  MaxCalls = 3
  MaxLosses = 1
  Overlap = FALSE
INVARIANTS
  LocksMarkCorrections

  
  
\* The call budget ends.
CHECK_DEADLOCK FALSE
