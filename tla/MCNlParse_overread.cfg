CONSTANTS
    Msgs <- ShortFieldMsgs
    SizeMod <- MCSizeMod
    U32Mod <- MCU32Mod
    Junk <- MCJunk
SPECIFICATION Spec
INVARIANT InsideAllocation
