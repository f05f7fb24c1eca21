SPECIFICATION Spec
CONSTANTS
    Apps = {a}
    NoOrigin = none
    LongSizes = {4, 8}
    UtilityTypes = {0, 256}
    UtilityTexts <- MCTexts
    MaxRequests = 2
    MaxForeign = 2
INVARIANTS FieldsArrive TextArrives ForeignOnlyRepeats
CHECK_DEADLOCK FALSE
