CONSTANTS
    one = one
    other = other
    Addresses = {one, other}
    h1 = h1
    h2 = h2
    h3 = h3
    Handlers = {h1, h2, h3}
    EnvRPM = 2
    EnvBurst = 2
    Minute = 4
    MaxTime = 5
SYMMETRY Alike
SPECIFICATION LimiterSpec
INVARIANT LimitHolds
PROPERTY RefusalsAreEarned
