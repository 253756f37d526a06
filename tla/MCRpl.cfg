CONSTANTS
  a1 = a1
  a2 = a2
  a3 = a3
  Addr = {a1, a2, a3}
  d1 = d1
  d2 = d2
  Dest = {d1, d2}
  NumRoutes = 1
  NumNeighbors = 2
  Table <- RplTables
  NULL = NULL
  MinHop = 2
  MaxRankInc = 4
  INFINITE_RANK = 31
  IntRange = 32
  MAX_LINK_METRIC = 4
  MAX_PATH_COST = 16
  PARENT_SWITCH_THRESHOLD = 2
  INIT_ETX = 2
  Etx = {2, 5}
  DioRank = {2, 8, 31}
SPECIFICATION RplSpec
INVARIANTS TablesAgree ParentIsRouter RankWithinMin
PROPERTY EvictionSparesUsed
SYMMETRY Symmetry
