CONSTANTS
    pathA = pathA
    pathB = pathB
    Paths <- MCPaths
    Configs <- BootstrapConfigs
    MaxFaults = 1
SPECIFICATION Spec
PROPERTY BailKillsKnownChild
