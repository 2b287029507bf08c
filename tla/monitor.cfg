CONSTANTS
    n1 = n1  n2 = n2  o1 = o1  o2 = o2
    Notifier <- MCNotifier
    Observer <- MCObserver
    Fickle = {o1}
    Nobody = Nobody
    MaxChanges = 2
SPECIFICATION FairSpec
INVARIANTS
    NobodyIsForgotten
    ClosedChannelsAreLeftAlone
PROPERTIES
    NotifyReturns
    LastMessageArrives
\* After MaxChanges changes there is nothing left to do.
CHECK_DEADLOCK FALSE
