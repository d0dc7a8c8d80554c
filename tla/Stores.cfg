CONSTANTS
  Refreshes = {r1, r2}
  Inodes = {i1, i2, i3}
  WriteMayFail = TRUE
  MaxVersion = 3
  MaxCrashes = 1
  None = None
  Partial = Partial
  KvCallers = {k1, k2}
  Small = small
  Big = big
  Huge = huge
  NoValue = NoValue
  MaxKvVersion = 2
  MaxCasRetries = 2
  LastKey = 4
  LocaleRank <- MCRank
  MaxLimit = 2
  Chars = {"a", "/", ".", ":", "%3A"}
  Colon = ":"
  Escaped = "%3A"
  Slash = "/"
  Dot = "."
  OrgIds <- MCOrgIds
  ProjectIds <- MCProjectIds
  BucketIds <- MCBucketIds
  ObjectKeys <- MCObjectKeys
  MaxObjects = 2
  SecretNames = {n1, n2}
  Setters = {s1, s2}
  Resolvers = {r1}
  MaxSets = 3
  SdkCallers = {s1, s2}
  MaxRetries = 1
  TripThreshold = 2
  OpenTime = 1
  MaxSdkWrites = 3
SPECIFICATION MCSpec
CHECK_DEADLOCK FALSE
INVARIANTS TypeOK CacheSafe SecretsSafe HelpersSafe
PROPERTIES OnlyNewer NotWedged KvSafe TenantsApart
