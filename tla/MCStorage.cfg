CONSTANTS
  LruKey = {a, b, c, d, e}  LruCapacity = 3  LruHead = head  LruTail = tail
  MiniKey = {a, b}  MiniSizes <- MCMiniSizes  MiniTtl = 1  MiniTtls <- MCMiniTtls  MaxMiniTime = 2  Setter = {p, q}
  MemoThread = {p, q}  FibArgs = {0, 3}  MemoSize = 2  NoHolder = NoHolder
  Configs <- MCConfigs  BatchesPerEpoch = 2  Limits = {none, 0, 1, 2}  NoLimit = none
  MaxSaves = 40  MaxKills = 1
  CacheKey = {a, b, c}  MaxSize = 2  DefaultTtl = 1  Ttls = {}  MaxCacheTime = 3  MaxCount = 2
SPECIFICATION Spec
INVARIANTS
  StorageIsConsistent
  MemoIsTransparent
PROPERTIES
  ImplementsLru
  EvictsByPolicy
  StorageSettles
CHECK_DEADLOCK FALSE
