SPECIFICATION Spec
CONSTANTS
  Requests = {r1, r2}
  Calls = {c1, c2}
  NoCall = NoCall
  MaxTicks = 2
  MaxBoots = 1
  PerTick = 1
  DecideAfterLogged = TRUE
  StoreMayFail = TRUE
SYMMETRY Symmetry
INVARIANTS TypeOK AtMostOneRun LogIsCausal TurnToldTruth ExecutionIsRecordable RunsWhatWasShown
PROPERTIES KeepsPromise
