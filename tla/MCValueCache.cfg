CONSTANTS
    Groups <- MCGroups
    Contents <- MCContents
    Parts <- MCParts
    JunkByte = {0, 49}
SPECIFICATION Spec
INVARIANTS TypeOK CacheHoldsWhatWasSent RequestsReadBack FetchFindsIt SensorsFitValues
PROPERTIES WholeErrorPageShown
