CONSTANTS
    Savers <- MCSavers
    Written = {"logs", "traces"}
    MaxItems = 2
    MaxSaves = 1
    MaxFailures = 0
    MaxStarts = 2
SPECIFICATION Spec
PROPERTY RestoreKeepsCounting
CHECK_DEADLOCK FALSE
