SPECIFICATION Spec
CONSTANTS
    Readers = {"loop", "auth", "answer"}
    Magic = 3
    Texts <- MCTexts
    First <- MCFirst
    DataBodies <- MCDataBodies
    MaxSent = 3
INVARIANTS FramesIntact NothingWaits
PROPERTIES MessagesArePipe
CHECK_DEADLOCK FALSE
