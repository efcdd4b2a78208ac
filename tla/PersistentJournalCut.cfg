CONSTANTS
    a1 = a1
    a2 = a2
    a3 = a3
    t1 = t1
    t2 = t2
    f1 = f1
    None = None
    Facts = {f1}
    Attachments <- Three
    ProcessOf <- Processes
    Renaming <- Migrator
    SyncOf <- Syncs
    Threads <- TwoThreads
    Cuts <- Anywhere
    Start <- NewJournal
    MaxRecords = 3
    MaxCopies = 2
    MaxDepth <- Depths
    MaxCrashes = 2
SPECIFICATION Spec
INVARIANT Reopenable
