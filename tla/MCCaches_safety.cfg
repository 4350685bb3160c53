CONSTANTS
  NumShards = 3
  Names <- MCNames
  Types <- MCTypes
  ShardOf <- MCShardOf
  Setups <- AllSetups
  Period = 2
  MaxBogus = 1
  Modulus = 1000
  MaxNow = 8
  Root = "."
  Tags = {"t1"}
  NoTag = "notag"
  Masks = {"m1", "m2"}
  NoMask = "nomask"
  Clients = {"c1", "c2"}
  Covering <- MCCovering
  Margin = 1
  MinTTL = 1
  AgedTTL = 1
  Resolvers = {"r1", "r2"}
  Top <- MCTop
  Above <- MCAbove
SPECIFICATION Spec
INVARIANTS TypeOK CachedRange IndexComplete StaleBounded RecoveredServed
PROPERTIES AuthProtected PruneHitsTarget
CHECK_DEADLOCK FALSE
