SPECIFICATION CarefulSpec
CONSTANTS
    low = low
    high = high
    menu = menu
    bass = bass
    chord = chord
    RKey <- MCRKey
    LKey <- MCLKey
    MenuKey = menu
    R_notes <- MCR_notes
    L_notes <- MCL_notes
    L_fifths <- MCL_fifths
    CommandKeys <- Keys
    Commands <- Everyday
    DefaultPreset <- Default
    SplitPreset <- Split
    Pressures <- BothWays
    VolumePeriod = 2
INVARIANTS
    OnlyHeldNotesSound
    HeldNotesSound
PROPERTY
    VolumeCatchesUp
