CONSTANTS
    d1 = d1  d2 = d2  p1 = p1  p2 = p2
    Pod <- MCPod
    Mortal <- MCMortal
    Deployments <- MCDeployments
    DeploymentOf <- MCDeploymentOf
    Intent <- MCIntent
    Content <- MCContent
    Nothing = Nothing
    NoObject = NoObject
    MaxFaults = 1
    MaxCollectorChanges = 1
SPECIFICATION FairSpec
INVARIANTS
    ReadyIsConfigured
    ForgottenIsUnconfigured
    GoneIsDisabled
PROPERTIES
    RunningGetsReady
    DeletionCompletes
\* Once the resource and its pods are gone nothing more happens.
CHECK_DEADLOCK FALSE
