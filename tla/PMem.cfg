SPECIFICATION Spec
CONSTANTS
  Owners = {a, b, c}
  NoOwner = NoOwner
  Size = 6
  Word = 24
  Requests <- MCRequests
  Slots = 3
SYMMETRY MCSymmetry
INVARIANTS NoOverlap Reclaimed
