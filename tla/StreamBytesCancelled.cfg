\* bytes() again after a cancelled bytes().
CONSTANTS
    t1 = t1
    t2 = t2
    Exit = Exit
    NoLimit = NoLimit
    Nothing = Nothing
    Tasks = {t1}
    BodyLen = 3
    MaxFrame = 1
    Limits = {1}
    Amounts = {2}
    Worlds = {{"cancel"}}
SPECIFICATION Spec
INVARIANTS
    BytesWhole
CHECK_DEADLOCK FALSE
