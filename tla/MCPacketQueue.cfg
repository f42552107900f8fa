SPECIFICATION FairSpec
CONSTANTS
    p1 = p1
    p2 = p2
    p3 = p3
    x = x
    y = y
    Packets <- MCPackets
    Addrs = {x, y}
    Addr <- MCAddr
    MaxDelay = 3
INVARIANTS SendsOnlyWhenDue SendsInTime DrainNotForgotten
PROPERTIES RefusedStaysFirst ImplementsChannel
