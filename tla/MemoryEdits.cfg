SPECIFICATION Spec
CONSTANTS
  a1 = a1
  a2 = a2
  b1 = b1
  A = A
  B = B
  Proc = {p1, p2}
  Record = {a1, a2, b1}
  Key = {A, B}
  keyOf <- MCKeyOf
  Nobody = Nobody
  NoMarker = NoMarker
  MaxEdits = 1
PROPERTY EditsRefused
