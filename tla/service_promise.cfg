CONSTANTS
    i1 = i1  i2 = i2  s1 = s1  s2 = s2  n = n  deadEnd = deadEnd
    h1 = h1  h2 = h2  h3 = h3  h4 = h4  c1 = c1  c2 = c2
    telemetry = telemetry
    NetType = "net"
    AnyAddress = AnyAddress
    Node <- MCNode
    Links <- MCLinks
    Type <- MCType
    Program <- MCProgram
    Implementing <- MCImplementing
    Intent <- MCIntent
    Device <- MCDevice
    Peer <- MCPeer
    Config <- MCConfig
    CollectionId <- MCCollectionId
    Request <- MCFlowRequest
    PoolSize = 1
    NoCollection = NoCollection
    NoState = NoState
    FailureKinds = {}
    MaxFailures = 0
    Entry <- MCTableEntry
    Table <- MCTable
    TableOf <- MCTableOf
    Capacity = 127
    MaxNumEntries = 127
SPECIFICATION FairSpec
PROPERTIES
    DisablePromiseIsKept
