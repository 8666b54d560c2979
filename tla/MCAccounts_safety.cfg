\* Two requests at a time on up to two accounts with two fields of settings, with
\* deletions, restarts and names that are registered again.
SPECIFICATION Spec
CONSTANTS
  Name = {n1, n2}
  Password = {p1}
  Field = {f1, f2}
  Value = {v1}
  Request = {r1, r2}
  MaxId = 2
SYMMETRY Symmetry
INVARIANTS TokenDenotesOne SettingsHaveOwner PutIsKept IInv
