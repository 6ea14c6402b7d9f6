\* Calls that return: nothing happens after that.
SPECIFICATION Spec
CHECK_DEADLOCK FALSE
CONSTANTS
    Sources <- MCSources
    Foreign <- MCForeign
    Received <- MCReceived
    Builds <- MCBuilds
    Calls <- MCCalls
    Codes <- MCCodes
    Font <- MCFont
    Title <- MCTitle
    Shows <- MCShows
    Images <- MCImages
    Observed <- MCObserved
    Typed <- MCTyped
    Numbers <- MCNumbers
    DefaultSpeed = 57600
    Slots = 2
    Offset = 1337
    MaxDirs = 3
    MaxEntry = 2
    Rewinds = FALSE
INVARIANTS
    Reproduces
    WithinBuffers
    Judged
    ConfigJudged
    DoneAsDefined
    ShownAsItWas
    ShowsTheLast
    LaidOut
    RunsWhatWasWritten
    OptionsUnderstood
    HandleGood
    NoEntryLost
    ReadsInOrder
PROPERTY Returns
