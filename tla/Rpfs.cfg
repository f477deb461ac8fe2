CONSTANTS
  PathSet <- MCPaths
  Contents = {small, large}
  BlocksOf <- MCBlocksOf
  Slots <- MCSlots
  Blocks <- MCBlocks
  SlotSector <- MCSlotSector
  BitSector <- MCBitSector
  StaleDirs <- MCStaleDirs
  ScratchSectors = 1
  MaxCrashes = 1
  MaxFaults = 1
SPECIFICATION Spec
INVARIANT TypeOK
INVARIANT NoSharedBlocks
INVARIANT LiveBlocksUsed
INVARIANT UniqueNames
PROPERTY RestartKeepsFiles
PROPERTY CreateIsAtomic
CONSTRAINT Untainted
