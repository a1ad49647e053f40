SPECIFICATION FairSpec
CONSTANTS
  Requests = {r1, r2}
  Calls = {c1}
  NoCall = NoCall
  MaxTicks = 1
  MaxBoots = 1
  PerTick = 2
  DecideAfterLogged = FALSE
  StoreMayFail = FALSE
INVARIANTS RunsAreBacked
PROPERTIES ApprovedSettles
