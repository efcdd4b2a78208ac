SPECIFICATION FairSpec
CONSTANTS
    p1 = p1
    p2 = p2
    t1 = t1
    t2 = t2
    Providers <- Both
    Owned = p1
    Threads <- Two
    Droppers <- Two
    Managers <- Two
    None = None
    MaxRecords = 3
    MaxUses = 2
INVARIANTS WaitedIsUnused NoSelfWait RetainedIsOwed
PROPERTY WaitEnds
CHECK_DEADLOCK FALSE
