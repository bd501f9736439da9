\* A card with several sectors per cluster, as it is usually formatted, with the
\* file in its root directory.
CONSTANTS
  B = 4
  PageSectors = 4
  Volumes <- Aligned
  Disks = {}
  Region = 6
  Loads = 1
  W = 2

SPECIFICATION Spec

INVARIANT OpenFinds
