CONSTANTS
    Msgs <- CorruptedMsgs
    SizeMod <- MCSizeMod
    U32Mod <- MCU32Mod
    Junk <- MCJunk
SPECIFICATION Spec
PROPERTY ParseTerminates
