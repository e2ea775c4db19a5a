SPECIFICATION Spec
CONSTANTS
    Caches = {c1, c2}
    Lines = {l1}
    Words <- MCWords
    Data <- MCData
    Stores <- MCStores
    Nothing = Nothing
    Serialised = FALSE
INVARIANTS SingleWriter
