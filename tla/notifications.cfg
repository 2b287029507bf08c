CONSTANTS
    c1 = c1  c2 = c2  c3 = c3 
    Connection <- MCConnection
    None = None
    MaxChanges = 2
    MaxFaults = 2
SPECIFICATION FairSpec
INVARIANTS
    ClientIsWatched
PROPERTIES
    HeardChangeIsFetched
    AnnouncersEnd
CHECK_DEADLOCK FALSE
