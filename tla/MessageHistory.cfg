\* Four messages, loads of two and room for five: loads are cut, queues full and
\* empty, and a channel is lost and joined again twice, in the middle of a load too.
SPECIFICATION Spec
CONSTANTS
    Limit = 5
    HistoryLimit = 2
    MaxSent = 4
    MaxDrops = 2
    Never = Never
\* The bounds end every behaviour.
CHECK_DEADLOCK FALSE
INVARIANTS
    TypeOK
    
    
PROPERTIES
    LeavesAtTheFront
