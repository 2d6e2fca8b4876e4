CONSTANTS
  Vals = {a, b}
  Default = a
  None = None
  N = 4
  Word = 8
SPECIFICATION Spec
INVARIANTS SlotsDisjoint UnwrapSucceeds
PROPERTY IsFifo
