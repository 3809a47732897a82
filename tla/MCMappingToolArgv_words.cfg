CONSTANTS
    MaxArgv <- MCMaxArgv
    Maps <- AnyMaps
SPECIFICATION Spec
INVARIANT ArgvWritesInBounds
INVARIANT ArgsArePrefixOfWords
