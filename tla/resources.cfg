CONSTANTS
    w = w  h = h
    User = {w, h}
    Watcher = w
    Broken = Broken
    Capacity = {10, 11}
    MaxResets = 2
    MaxFaults = 3
    MaxChanges = 3
    MaxDeletions = 1
SPECIFICATION FairSpec
PROPERTY StatusFollowsCapacity
