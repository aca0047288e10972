SPECIFICATION Spec
CONSTANTS
  Names <- MCNames
  GeoOf <- MCGeoOf
  ProviderOf <- MCProviderOf
  Latencies = {1, 2}
  MaxPrefer = 2
PROPERTIES
  ChoiceIsAllowed
  Deterministic
