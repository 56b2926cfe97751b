\* Single-byte frames, enough of them to fill every buffer on the way.
CONSTANTS
    t1 = t1
    t2 = t2
    Exit = Exit
    NoLimit = NoLimit
    Nothing = Nothing
    Tasks = {t1, t2}
    BodyLen = 5
    MaxFrame = 1
    Limits = {1}
    Amounts = {2}
    Worlds = {{"cancel", "exit", "drop"}, {"fail", "exit"}}
SPECIFICATION LiveSpec
INVARIANTS
    BufferBound
PROPERTIES
    OwnerCancelReturns
    CloseEndsReader
    EverybodyReturns
CHECK_DEADLOCK FALSE
