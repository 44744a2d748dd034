SPECIFICATION OutputSpec
CONSTANTS
    HeaderLens = {1, 3}
    MaxSize = 4
    Postpone = 3
    Limit = 5
    MaxIovs = 2
    MaxBufs = 4
    FilesN = 2
INVARIANTS BytesConserved
PROPERTIES ImplementsStream
