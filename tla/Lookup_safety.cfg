SPECIFICATION Spec
CONSTANTS
  FileCountries = {"EL"}
  Codes <- MCCodes
  Queries <- MCQueries
  Regions <- MCRegions
  Pinned <- MCPinned
  Estimates <- MCEstimates
  Caps <- MCCaps
  MinConfidence = 10
  MaxRows = 3
  MaxExtras = 1
INVARIANTS TypeOK ConfidenceOrdered ConfidentIsNested NearestNeighbours SoleRegion
