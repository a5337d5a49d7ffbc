SPECIFICATION FairSpec
CONSTANTS
    Keys = {k1}
    Dirs = {d1, NoDir}
    NoDir = NoDir
    BucketMax = 1
    MaxTime = 0
    MaxFailures = 0
PROPERTIES SavesGoOn
CHECK_DEADLOCK FALSE
