\* As TwitchIrcSafety.cfg, with every channel destroyed on the GUI thread.
SPECIFICATION FairSpec
CONSTANTS
    forsen = forsen
    pajlada = pajlada
    plugin = plugin
    Names <- AllNames
    CustomNames <- PluginNames
    MaxObjects = 3
    NoObject = NoObject
    Budget = 1
    MaxDisturbances = 3
    Faults = {}
INVARIANTS
    OpenIsJoined
    OneObjectPerName
PROPERTIES
    DeadPeerIsNoticed
    ComesBack
    OpenGetsJoined
CHECK_DEADLOCK FALSE
