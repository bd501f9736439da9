\* Tables of two entries, eight pages, three regions anywhere or the program's nine,
\* a pool that may run out.
CONSTANTS
  XLAT_TABLE_ENTRIES = 2
  NUM_BASE_LEVEL_ENTRIES = 2
  CONFIG_MMU_MAX_XLAT_TABLES = 6
  Layouts <- SmallLayouts
  GuestRegions = 2
CHECK_DEADLOCK FALSE

SPECIFICATION Spec

INVARIANT TranslatesAsLastRegion
INVARIANT TablesAreATree
INVARIANT TablesAreShared
PROPERTY BootEnds
