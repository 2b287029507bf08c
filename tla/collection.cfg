CONSTANTS
    a = a  b = b  i = i  j = j
    Node = {n1, n2}
    NoNode = NoNode
    MaxPodChanges = 2
    MaxDisruptions = 1
    Stats = {a, b}
    CollectionId = {i, j}
    Specs <- MCSpecs
SPECIFICATION FairSpec
INVARIANTS
    GoneIsNotHandled
    StopsReachHandlers
PROPERTIES
    StatusSettles
    
    HandlersFollowCollector
\* Without resources and collector nothing is left to do.
CHECK_DEADLOCK FALSE
