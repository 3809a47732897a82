CONSTANTS
    MaxArgv <- MCMaxArgv
    Maps <- UnterminatedMaps
SPECIFICATION Spec
INVARIANT ExecArgvIsMapWords
