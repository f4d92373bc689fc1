SPECIFICATION LiveSpec
CONSTANTS
    k1 = k1
    k2 = k2
    t1 = t1
    s1 = s1
    s2 = s2
    Keys <- MCKeys
    Tabs <- MCTabs
    Senders <- MCSenders
 
PROPERTY ExactlyOnce OnlyDoomedBlock
