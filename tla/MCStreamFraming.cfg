SPECIFICATION Spec
CONSTANTS
    Sizes <- MCSizes
    Syncs = {1}
    PREAMBLE = 3
    BufLength = 12
    ReplySize = 3
    SizeRange = 16
    HeaderRange = 32
    StraySizes = {0, 20, 29, 31}
    MaxHandled = 4
    MaxErrors = 1
INVARIANTS TypeOK AlignedWhileUncut IntactInOrder AnswerIsPrefix
\* The receive thread ends when its connection does.
CHECK_DEADLOCK FALSE
