SPECIFICATION FairSpec
CONSTANTS
  Object <- MCObject
  Root = "Query"
  Group <- MCGroup
  Task <- MCTask
  SyncTask <- MCSyncTask
  NonNull <- MCNonNull
  Strict <- MCStrict
  fieldSetOf <- MCfieldSetOf
  children <- MCchildren
  owner <- MCowner
  payloadOf <- MCpayloadOf
  Under <- MCUnder
  DrainsHandler = TRUE
INVARIANTS
  HasNextTruthful
  EndsDrained
  MarshalAfterWrites
  NullPayloadCarriesError
PROPERTIES
  ImplementsFairDelivery
  NoStuckGroup
