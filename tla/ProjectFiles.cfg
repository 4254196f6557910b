SPECIFICATION MCSpec
CONSTANTS
    Listener = listener
    Reviser = {r1}
    MaxIDs = 2
    MaxCompiles = 3
    MaxEdits = 1
    MaxCrashes = 1
    Lookahead = 2
    MaxEvents = 5
INVARIANTS OneCompile NeverOlder ReplayIsSound SoundEndIsFinal
PROPERTIES SlotReleased
CHECK_DEADLOCK FALSE
