SPECIFICATION DisplaySpec
CONSTANTS
    MessageTime = 2
    ScrollSteps = {0, 1}
    PowerSaveTimeout = 2
    SwitchTimeout = 1
    MaxShows = 2
INVARIANT
    UpdatesDrawBeforeClearing
