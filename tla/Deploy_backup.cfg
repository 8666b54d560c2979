\* One request: a file is written, a backup is made and imported again.
SPECIFICATION Spec
CONSTANTS
  File = {f1}
  Request = {r1}
  Nobody = Nobody
  MaxWrites = 2
  MaxBus = 1
INVARIANT RestoreKeepsText
