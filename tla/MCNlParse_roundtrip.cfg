CONSTANTS
    Msgs <- WellFormedMsgs
    SizeMod <- MCSizeMod
    U32Mod <- MCU32Mod
    Junk <- MCJunk
SPECIFICATION Spec
INVARIANTS TypeOK ParseMatchesReference InsideAllocation
PROPERTY ParseTerminates
