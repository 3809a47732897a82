CONSTANTS
    pathA = pathA
    pathB = pathB
    Paths <- MCPaths
    Configs <- ParentPrivOnlyConfigs
    MaxFaults = 0
SPECIFICATION Spec
INVARIANT RootfsUntouchedWithoutPrep
