CONSTANTS
  PathSet <- MCPaths
  Contents = {small, large}
  BlocksOf <- MCBlocksOf
  Slots <- MCSlots
  Blocks <- MCBlocks
  SlotSector <- MCSlotSector
  BitSector <- MCBitSector
  StaleDirs <- MCStaleDirs
  ScratchSectors = 2
  MaxCrashes = 0
  MaxFaults = 0
SPECIFICATION Spec
PROPERTY ParentsCreated
