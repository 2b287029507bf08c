CONSTANTS
    i1 = i1  i2 = i2  i3 = i3
    c1 = c1  c2 = c2  c3 = c3
    Intent <- MCIntent
    CollectionId <- MCCollectionId
    Uses <- MCUses
    NoCollection = NoCollection
    MaxSize = 3
SPECIFICATION Spec
INVARIANTS
    CounterTracksReservations
    NeverPanics
    OwnerFindsItsAllocation
    OneNumberPerCollection

    
