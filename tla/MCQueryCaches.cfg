SPECIFICATION FairSpec
CONSTANTS
  Request = {r1, r2}
  Query = {ok, bad, nonsense}
  Malformed = {nonsense}
  Invalid = {bad}
INVARIANTS
  CachingIsTransparent
  CachesTruthful
PROPERTY RetriesEnd
