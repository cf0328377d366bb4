\* Two and three processes stand for 16 and 64.
CONSTANTS
  SmallNum = 2
  LargeNum = 3
  PNums = {2, 3}
  Grids <- MCGrids
  Runs <- MCRuns
  LocalSizes <- MCLocalSizes
  PNum = 2
  Lx = 2
  Ly = 2
  Lz = 1
  OddSets <- MCOddSets
SPECIFICATION MCSpec
INVARIANTS
  LocalIsGlobal
  Tiling
  PlansFit
  GroupsCover
  RootRight
  NaNShows
CHECK_DEADLOCK FALSE
