SPECIFICATION Spec
CONSTANTS
    Workers = {w1, w2}
    Emails = {e1, e2}
    Names = {n1}
    NoEmail = NoEmail
    NoName = NoName
    MaxAttempts = 1
    MaxMails = 2
    MaxRecords = 2
    MaxRestarts = 1
SYMMETRY Symmetry
INVARIANTS
    TypeOK
    
    AccountsProved
    NotAsleepOnWork
 
CHECK_DEADLOCK FALSE
