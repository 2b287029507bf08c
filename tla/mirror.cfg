CONSTANTS
    s1 = s1  s2 = s2  p1 = p1  p2 = p2  p3 = p3
    Device <- MCDevice
    Program <- MCProgram
    Registered <- MCRegistered
    Plain = Plain
    InitialNet <- MCInitialNet
    NoTopology = NoTopology
    MaxChanges = 2
    MaxFaults = 1
SPECIFICATION FairSpec
INVARIANTS
    FinishedPassIsExact
PROPERTIES
    MirrorConverges
