SPECIFICATION Spec
CONSTANTS
    MaxLine = 18
    MaxBlanks = 1
    MaxHeader = 6
    LcHeaderLen = 4
    BufferSize = 3
    MaxFile = 7
    Names <- MCNames
    Uris <- MCUris
    MaxLocations = 4
CHECK_DEADLOCK FALSE
INVARIANTS LineGrammar FieldsDelimitLine HeaderFields KeyLowered TokensAsWritten BlocksAsBraced LongestPrefixChosen DuplicatesRefused
