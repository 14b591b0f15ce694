CONSTANTS
    temperature = temperature
    flame = flame
    Sensor = {temperature, flame}
    Numeric = {temperature}
    Bool = {flame}
    Value = {0, 1}
    NoValue = NoValue
    RateLimit = 2
    MaxTime = 2
    MaxRows = 3
SPECIFICATION Spec
INVARIANTS TypeOK RowsInOrder CacheMatchesRow StoredValueIsLast
