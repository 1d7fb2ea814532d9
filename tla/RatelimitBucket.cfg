\* Two names and two per cooldown: repeats, a full budget and a queue of
\* several items all occur within six sends.
SPECIFICATION FairSpec
CONSTANTS
    i1 = i1
    i2 = i2
    Items <- TwoItems
    Budget = 2
    MaxSends = 6
INVARIANTS
    RateIsLimited
    NothingWaitsInVain
PROPERTIES
    EverythingPasses
\* The bucket rests once everything was passed on and cooled down.
CHECK_DEADLOCK FALSE
