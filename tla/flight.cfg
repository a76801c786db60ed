SPECIFICATION FlightFairSpec
CONSTANTS
    Process = {jobs, cli}
    Thread = {t1, t2}
    Token = {k1, k2, k3, k4, k5}
    TTL = 2
    NoToken = none
INVARIANT RunsExclusive
PROPERTY OrphanLapses
