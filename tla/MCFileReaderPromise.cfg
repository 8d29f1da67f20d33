SPECIFICATION Spec
CONSTANTS
    Sections = {"S", "T"}
    Keys = {"zero", "ab", "ba"}
    Hash <- MCHash
    StrayHashes = {1}
    Numbers = {"number"}
    Zeros = {}
    Texts = {"text"}
    Empty = ""
    Unset = "unset"
    MaxLines = 4
INVARIANT FalseWithoutKey
\* The constructor may throw.
CHECK_DEADLOCK FALSE
