SPECIFICATION Spec
CONSTANTS
  Turns = {t1, t2}
  Creators = {c1, c2}
  Handlers = {h1}
  NoTurn = NoTurn
  MaxCalls = 0
  MaxDeltas = 0
  MaxBoots = 0
  StoreMayFail = FALSE
  HasRunner = TRUE
SYMMETRY Symmetry
INVARIANTS OneMutableTurn
CHECK_DEADLOCK FALSE
