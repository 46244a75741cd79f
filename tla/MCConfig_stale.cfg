SPECIFICATION ConfigSpec
CONSTANTS
    Ids = {c1}
    Names = {front, back}
    Locals = {none, set}
    NoLocal = none
    Tabs = {b1, b2}
    MaxTokens = 1
    MaxObjects = 3
INVARIANT LocalFieldsArePreserved
CHECK_DEADLOCK FALSE
