SPECIFICATION FairSpec
CONSTANTS
    Caches = {c1, c2, c3}
    Lines = {l1}
    Words <- MCWords
    Data <- MCData
    Stores <- MCStores
    Nothing = Nothing
    Serialised = TRUE
INVARIANTS TypeOK SingleWriter CleanIsMemory
PROPERTIES ImplementsOneMemory ConditionalStoreIsLinked AccessesEnd
