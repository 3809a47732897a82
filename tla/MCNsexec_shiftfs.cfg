CONSTANTS
    pathA = pathA
    pathB = pathB
    Paths <- MCPaths
    Configs <- ShiftfsConfigs
    MaxFaults = 0
SPECIFICATION Spec
INVARIANT ShiftfsMountedOnce
