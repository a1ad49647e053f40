SPECIFICATION FairSpec
CONSTANTS
  Turns = {t1}
  Creators = {c1}
  Handlers = {h1, h2}
  NoTurn = NoTurn
  MaxCalls = 2
  MaxDeltas = 1
  MaxBoots = 0
  StoreMayFail = FALSE
  HasRunner = TRUE
INVARIANTS LoopsAgree
PROPERTIES TurnsEnd
CHECK_DEADLOCK FALSE
