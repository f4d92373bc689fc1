SPECIFICATION LiveSpec
CONSTANTS
    a = a
    b = b
    c = c
    NoSocket = NoSocket
    Sockets <- MCSockets
INVARIANTS OneConnection  KeptAlive PresenceRight
PROPERTY ComesBack
