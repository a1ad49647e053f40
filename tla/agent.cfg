SPECIFICATION FairSpec
CONSTANTS
    MaxDepth = 2
    MaxToolCalls = 2
    MaxOutput = 3
    StreamSize = 1
    ChannelSize = 1
    Reasons = {"tool_use", "end_turn"}
    MaxChunks = 6
    MaxUses = 2
    MaxFragments = 2
INVARIANTS EndsOnce RunsAsAsked EveryUseAnswered
PROPERTIES StopsAtApproval TurnFinishes
CHECK_DEADLOCK FALSE
