SPECIFICATION WindowSpec
CONSTANTS
    MaxPins = 1
    MaxResolves = 1
    id1 = id1
    id2 = id2
    NoId = NoId
    control = control
    audio = audio
    Ids <- MCIds
    Toggles <- MCToggles
    DefaultOn <- MCDefaultOn
PROPERTY TornDownStaysDown
