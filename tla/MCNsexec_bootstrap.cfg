CONSTANTS
    pathA = pathA
    pathB = pathB
    Paths <- MCPaths
    Configs <- BootstrapAndRootfsConfigs
    MaxFaults = 3
SPECIFICATION Spec
INVARIANT InitIffSuccess
INVARIANT SucceedsWithoutFaults
INVARIANT RootfsReadyBeforeInit
INVARIANT RootfsMountOrder
PROPERTY BootstrapTerminates RefinesHandoff
