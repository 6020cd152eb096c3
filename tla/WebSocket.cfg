SPECIFICATION FairSpec
CONSTANTS
    Message = {text, binary}
    MaxSent = 2
INVARIANTS TypeOK 
PROPERTIES ImplementsRelay Delivers Ending
CHECK_DEADLOCK FALSE
