SPECIFICATION FairSpec
CONSTANT PanicSites = {"main", "audio", "diato"}
INVARIANTS
    LcdHasOneUser
    OnlyPanicScreensAreCut
PROPERTIES
    RebootCompletes
    PanicEndsHalted
