\* Two real names and a plugin's; three channel objects, so that a name can be
\* reopened twice; one JOIN per cooldown, so that JOINs wait.
SPECIFICATION Spec
CONSTANTS
    forsen = forsen
    pajlada = pajlada
    plugin = plugin
    Names <- AllNames
    CustomNames <- PluginNames
    MaxObjects = 4
    NoObject = NoObject
    Budget = 1
    MaxDisturbances = 3
    Faults = {"offThread"}
SYMMETRY NameSymmetry
INVARIANTS
    TypeOK
    LossIsRetried
    JoinedIsWanted
PROPERTIES
    TimeoutIsEarned
CHECK_DEADLOCK FALSE
