\* Two tasks read a short body: undisturbed, and with everything going wrong at once.
CONSTANTS
    t1 = t1
    t2 = t2
    Exit = Exit
    NoLimit = NoLimit
    Nothing = Nothing
    Tasks = {t1, t2}
    BodyLen = 4
    MaxFrame = 2
    Limits = {0, 1, 3, NoLimit}
    Amounts = {0, 1, 3}
    Worlds = {{}, {"fail", "cancel", "exit", "drop"}}
SPECIFICATION Spec
SYMMETRY Symmetry
INVARIANTS
    PipelineSound
    
CHECK_DEADLOCK FALSE
