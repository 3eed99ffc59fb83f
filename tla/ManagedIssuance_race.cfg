SPECIFICATION IssuanceSpec
CONSTANTS
  Procs = {p1, p2}
  MaxSigned = 2
  MaxInterruptions = 0
INVARIANT
  PublishedIsRecorded
