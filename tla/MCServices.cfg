SPECIFICATION Services
CONSTANTS
  Frames = {0, 1, 2, 3, 4, 5, 6, 7, 8, 9, 10, 11}
  Reserved = {0, 1, 2, 3}
  Boot = 1
  BootTables <- MCBootTables
  Garbage <- MCGarbage
  Index = {0, 1, 2}
  Depth = 3
  KernelSlots = {2}
  LowSlots = {0}
  Pages = {0, 1, 2, 3, 4, 5, 6, 7}
  Path <- MCPath
  Layout <- MCLayout
  StackPages = {1}
  HeapBase = 2
  HeapCap = 4
  MapBase = 5
  MapCap = 7
  ScreenPages <- MCScreen
  FixedRuns <- MCFixed
  PAGE = 2
  MaxTries = 4
  MaxRounds = 2
  Conns = 2
  TcpSize = 3
  TcpGap = 10
  Mss = 2
  Window = 3
  ReqParts = 1
  TcpRoom = 2
  MaxFlight = 2
  NPorts = 2
  MAX_HID_DEVS = 2
  CMD = 4
  EVT = 9
  EvtWrap = 8
  TR = 5
  TR0 = 3
  MaxReports = 4
  MaxChanges = 1
  N_DESC = 3
  MaxFrames = 5
  ElfPrograms <- MCElfPrograms
  ElfLinker <- MCElfLinker
  ElfPage = 4
  ElfTop = 32
  InterpBase = 8
  ProgBase = 16
  BlockAlign = 2
  BlockHeader = 2
  ArenaBase = 2
  ArenaBytes = 15
  BlockSizes = {1, 3, 5}
  BlockAligns = {1, 4, 8}
  LinuxPaths = {"a", "b"}
  SizeOf <- MCSizeOf
  Absent = "none"
  MAX_OPEN = 2
  FbSize = 3
  Lens = {1, 2, 4}
  Seeks <- MCSeeks
  MaxCalls = 5
  Sectors = 2
  DATA_MAX = 2
  SectorValues = {"x", "y"}
  Blank = "x"
  Sig = "y"
  SCRATCH_LBA = 1
  Archives <- MCArchives
  MAX_INODES = 4
  Descriptors = {3, 4}
  RowRoom = 3
  CHUNK = 2
  BUF = 4
  MaxDepth = 2
  Sites = {"bank", "blog"}
  Honest = {"bank"}
  Search = "blog"
  NoHost = "nohost"
  WebPaths = {"/"}
  TypedIn <- MCTyped
  MaxRedir = 2
  MaxHistory = 2
  TlsChains <- MCChains
  Anchors <- MCAnchors
  TlsHosts = {"a", "b"}
  TlsTimes = {2}
  TlsFlight <- MCFlight
  TlsResponse <- MCResponse
  OutRoom = 2
  GUARD = 64
  MaxExtra = 1
CONSTRAINT Bounds
INVARIANTS
  TypesOK
  HeapCounted
  RingsAgree
  FilesKept
  ImageRight
  AckedWasRead
  KeysAgree
  ArithmeticRight
PROPERTIES
  ImplementsStream
  FetchesEnd
  
  
  TrustEarned
CHECK_DEADLOCK FALSE
