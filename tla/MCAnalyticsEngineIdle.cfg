SPECIFICATION Safety
CONSTANTS
  raw = raw
  forecast = forecast
  other = other
  NPlugins = 2
  Names <- MCNames
  Raw <- MCRaw
  Subscribed <- MCSubscribed
  Produced <- MCProduced
  Expiration = 1
  MaxQueue = 2
  None = None
INVARIANT
  ServedIsNotExpired
