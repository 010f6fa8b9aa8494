SPECIFICATION FairSpec
CONSTANTS
    Senders = {s1}
    Receivers = {r1}
    None = None
    Capacities = {0, 2}
    MaxMsgs = 4
    MaxFds = 2
    Exits = {s1, r1}
    PortShared = {2}
INVARIANTS BlockedIsRegistered NoMessageLost InOrder ArmedUnlessForgotten
PROPERTIES PeerCloseReleases
CHECK_DEADLOCK FALSE
