SPECIFICATION FairSpec
CONSTANTS
    m1 = m1
    m2 = m2
    m3 = m3
    s1 = s1
    s2 = s2
    a1 = a1
    a2 = a2
    b1 = b1
    w3 = w3
    Masters <- MCMasters
    Memories <- MCMemories
    Packets <- MCPackets
    Src <- MCSrc
    Dst <- MCDst
    NeedsResponse <- MCNeedsResponse
    MemCapacity = 1
    DrainedLayers <- MCDrained
INVARIANTS RefusedWaitOnce WaitersHaveWakeup
PROPERTIES RefusedAreRetried DrainCompletes
