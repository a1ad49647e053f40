SPECIFICATION Spec
CONSTANTS
  Turns = {t1, t2}
  Creators = {c1}
  Handlers = {h1}
  NoTurn = NoTurn
  MaxCalls = 0
  MaxDeltas = 0
  MaxBoots = 1
  StoreMayFail = TRUE
  HasRunner = TRUE
SYMMETRY Symmetry
INVARIANTS OneMutableTurn
PROPERTIES AgentKeepsItsTurn
CHECK_DEADLOCK FALSE
