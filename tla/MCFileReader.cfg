SPECIFICATION Spec
CONSTANTS
    Sections = {"S", "T"}
    Keys = {"zero", "ab", "ba"}
    Hash <- MCHash
    StrayHashes = {1}
    Numbers = {"number"}
    Zeros = {}
    Texts = {"text"}
    Empty = ""
    Unset = "unset"
    MaxLines = 4
INVARIANTS TypeOK NeverFull ReadsBack NothingForeign
PROPERTY LoadsWhatIsListed
\* The constructor may throw.
CHECK_DEADLOCK FALSE
