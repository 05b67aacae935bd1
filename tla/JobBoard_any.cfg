SPECIFICATION FairSpec
CONSTANTS
    Connections = {c1}
    QueueSize = 1
    Names = {"status", "other"}
    NumSymbols = 1
    MaxJobs = 2
    MaxTrouble = 1
INVARIANTS
    QueueIsSuffix
    QuietMeansCurrent
PROPERTIES
    ViewNeverGoesBack
    EndIsSeen
    LeaversUnsubscribed
    ImplementsFeed
CHECK_DEADLOCK FALSE
