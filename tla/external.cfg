CONSTANTS
    p1 = p1  p2 = p2  ingress = ingress  w = w  v = v  s1 = s1  s2 = s2
    Pod <- MCPod
    Mortal <- MCMortal
    NetworkDevice <- MCNetworkDevice
    Links <- MCLinks
    Nodes <- MCNodes
    IngressNodes <- MCIngressNodes
    IncSwitch = {s1}
    AtLeast = 1
    Policy = "external-to-pods"
    Policies = {"pods-to-external"}
    NoPolicy = NoPolicy
    NoObject = NoObject
    Intent <- MCIntent
    Content <- MCContent
    Nothing = Nothing
    MaxFaults = 1
    MaxProgramChanges = 1
    MaxEdits = 1
SPECIFICATION FairSpec
INVARIANTS
    StatusIsTrue
    ReadyIsMeasured
PROPERTIES
    IngressIsConfigured
    RunningPodsGetReady
\* Without feasible nodes, and once all is configured, nothing more happens.
CHECK_DEADLOCK FALSE
