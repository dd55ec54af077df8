SPECIFICATION UiSpec
CONSTANTS
    MaxPins = 4
    MaxResolves = 2
    id1 = id1
    id2 = id2
    NoId = NoId
    control = control
    audio = audio
    Ids <- MCIds
    Toggles <- MCToggles
    DefaultOn <- MCDefaultOn
    MaxCaptures = 3
    MaxFrames = 2
    Base = 2
    LenBytes = 2
    OpBytes = 1
    MaxFrame = 2
    MaxBytes = 6
    MaxConnects = 2
CHECK_DEADLOCK FALSE
INVARIANTS
    PinPerSession
    NoStuckState
    StatusCurrent
    DeletedOnlyAfterOverrun
    StreamIntact
    MalformedIsFinal
    StateTracksSocket
PROPERTIES
    PinLeadsToSession
    PictureMovesForward
    GuiUnblocks
    FramesArrive
