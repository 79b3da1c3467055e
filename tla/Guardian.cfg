SPECIFICATION GuardianSpec
CONSTANTS
    Hermes = {h1}
    Claude = {c1}
    h1 = h1
    c1 = c1
    Calls <- MCCalls
    TTL = 1
    MaxTime = 2
    MaxMints = 2
    MaxDisturbances = 1
INVARIANTS WayOn SameStoryTwice CacheOneLifeDeep OneWriter
CHECK_DEADLOCK FALSE
