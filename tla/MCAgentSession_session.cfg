CONSTANTS
    Sections = {"description", "capabilities", "health"}
    Health = "health"
    Capabilities = "capabilities"
    Changing = {"description"}
    Transports = {"http", "websocket"}
    Controllers = {"SentCount", "TimeSend"}
    ResendAfter = 2
    MaxLate = 1
    MaxQueue = 1
SPECIFICATION FairSpec
INVARIANTS SessionInvariant
PROPERTIES ResyncOnlyAfterLoss EventuallyUpToDate
CONSTRAINT MCLateOrQueued
