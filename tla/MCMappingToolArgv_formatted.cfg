CONSTANTS
    MaxArgv <- MCMaxArgv
    Maps <- FormattedMaps
SPECIFICATION Spec
INVARIANT TypeOK
INVARIANT ExecArgvIsMapWords
