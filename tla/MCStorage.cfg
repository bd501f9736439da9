\* Three images on either board; the region lasts for two, and then a page is
\* left, the last one.
CONSTANTS
  B = 4
  PageSectors = 4
  Volumes <- Usual
  Disks <- Capacities
  Region = 7
  Loads = 3
  W = 2

SPECIFICATION FairSpec

INVARIANTS LoadedIsFile OpenFinds ListFollowsFat RegionLasts BuffersReturned
PROPERTY LoadEnds
