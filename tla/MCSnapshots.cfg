CONSTANTS
    Savers <- MCSavers
    Written = {"logs", "traces"}
    MaxItems = 2
    MaxSaves = 2
    MaxFailures = 1
    MaxStarts = 2
SPECIFICATION FairSpec
INVARIANTS
    PublishedIsComplete
    PublishedIsFaithful
    NumbersStayDistinct
PROPERTY SavesFinish
CHECK_DEADLOCK FALSE
