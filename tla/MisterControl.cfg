SPECIFICATION FairSpec
CONSTANTS
    CardFonts = {2, 3}
    StickFonts = {1}
    CardROMs = {0, 1}
    StickROMs = {2}
    SystemDefaultSynth = "MT32"
    MT32EmuROMSet = 3
    FluidSynthSoundFont = 1
    EventQueueSize = 4
    MaxChanges = 2
    MenuROMSets = {0, 1}
    MenuFonts = {0, 1}
INVARIANTS
    OnlyCurrentSynthSounds
    LoadedFontIsReported
PROPERTIES
    NoEcho
    Reconciled
