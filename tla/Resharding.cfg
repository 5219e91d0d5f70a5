CONSTANTS
  PerShard = 1
  MinShards = 1
  MaxShards = 8
  Grow = 8
  Shrink = 4
  FlatToHnsw = 2
  Budget = 2
  EveryForgets = 3
  MaxFactCount = 6
  MaxVersions = 6
SPECIFICATION MaintenanceSpec
INVARIANTS ReshardingSettles
CHECK_DEADLOCK FALSE
