SPECIFICATION PartsSpec
CONSTANTS
  Threads = {t1, t2, t3}
  None = None
  LargestRequest = 2
  PAGES = 7
  Mappers = {t1, t2, t3}
  Nobody = None
  PageBytes = 2
  RegionPages = 5
  WORDBITS = 2
  Bytes = {1, 3, 4, 5}
  ChunkSize = 4
  MaxBinned = 2
  ClassSizes = {2, 4, 8}
  Copies = 4
  N = 2
  Libraries = {"broken", "det", "old"}
  Addresses = {"x", "y", "z"}
  MaxMallocs = 3
  Distance = 1
  Sites = {1}
  NUMBINS = 6
  ChunkBytes = 128
  Header = 8
  NodeSizes = {12, 16, 100, 128, 300}
  MaxObjects = 3
  MaxHeld = 250
  Numerator = 8
  Denominator = 7
  PageSize = 2
  MaxSize = 4
  INIT_SIZE = 8
  PageNumbers = {1, 2, 17, 18, 19}
  Requests = {1, 3, 5}
  Alignments = {1, 2}
  MaxLive = 2
SYMMETRY Sym
INVARIANTS PagesExclusive TableExact PageTableExact LiveKept SizesExact RunsExclusive NothingLost InjectedAsPlanned  PatchMade NodesFit
CHECK_DEADLOCK FALSE
