SPECIFICATION Spec
CONSTANTS
  raw = raw
  forecast = forecast
  other = other
  NPlugins = 2
  Names <- MCNames
  Raw <- MCRaw
  Subscribed <- MCSubscribed
  Produced <- MCProduced
  Expiration = 0
  MaxQueue = 2
  None = None
INVARIANTS
  TypeOK
  HandlerUsesNoNil
PROPERTIES
  ComesToRest
  EveryPluginIsOffered
  ExpiredIsDropped
  Refinement
