\* One user who changes the directory and one who never chose one, so that a request in
\* the wrong directory shows; entries are stored late, run out and are stored again.
SPECIFICATION Spec
CONSTANTS
  User = {u1, u2}
  Quiet = {u2}
  Service = {files}
  Dir = {d1, d2}
  Default = Default
  Request = {r1, r2}
  TTL = 2
  Delay = 1
  MaxTime = 5
SYMMETRY Symmetry
CONSTRAINT Chosen
INVARIANTS FreshEnough IInv
