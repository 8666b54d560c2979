\* Two browsers open the first page at the same time.
SPECIFICATION Spec
CONSTANTS
  Name = {n1, n2}
  Password = {p1}
  Field = {f1}
  Value = {v1}
  Request = {r1, r2}
  MaxId = 2
PROPERTY OnlyFirstAdminByInit
