SPECIFICATION FairSpec
CONSTANTS
    Keys = {k1, k2}
    Dirs = {d1, d2}
    NoDir = NoDir
    BucketMax = 1
    MaxTime = 1
    MaxFailures = 1
INVARIANTS TypeOK OneWriter CleanIsSaved
PROPERTIES SavesGoOn
CHECK_DEADLOCK FALSE
