SPECIFICATION PathsSpec
CONSTANTS
  Engine = "pgx"
  Imports = {1, 2}
  Kind <- MCFixed
  File <- MCFile
  Own <- MCOwn
  Tracks <- MCTracks
  Points <- MCPoints
  Invalid = {4}
  Zooms <- MCZooms
  CellOf <- MCCellOf
  Threshold = 4
  ChunkSize = 2
  MaxFaults = 2
  Legacy <- MCLegacy
  Bare <- MCBare
  UploadEngine = "sqlite"
  Uploads = {1, 2, 3, 4}
  UploadKind <- MCUploadKind
  UploadFile <- MCUploadFile
  UploadOwn <- MCUploadOwn
  Shapes <- MCShapes
  Unit = 6
  MaxSpeed = 30
  r1 = r1
  r2 = r2
  Requests = {r1, r2}
  Mixes <- MCMixes
  Engines = {"sqlite", "pgx"}
  StreamCell <- MCStreamCell
  StreamTrack <- MCStreamTrack
  StreamRank <- MCStreamRank
  StreamFaults = 1
  Nobody = Nobody
  car = car
  roof = roof
  Devices = {car, roof}
  Mobile = {car}
  Promotions = {1, 2}
  Transactional = FALSE
  Replacing = FALSE
  MaxReadings = 2
  MaxCrashes = 1
  Listable = {1, 2, 3, 4}
  ListLegacy = {2, 4}
  Dated = {1, 3, 4}
  PageSize = 2
  ListFaults = 1
CHECK_DEADLOCK FALSE
INVARIANTS
  DoneShowsPeaks
  MarkersRegistered
  UploadsStored
  UploadsShowPeaks
  UploadsReuse
  NeighboursDecide
  EndedIsComplete
  NobodyStuck
  BackfillHonest
  NumbersRise
  ArchiveWhole
PROPERTIES
  SourcesKept
  NothingVanishes
