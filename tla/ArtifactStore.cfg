SPECIFICATION FairSpec
CONSTANTS
    Setups = {p1, p2}
    Readers = {r1}
    MaxCrashes = 1
    MaxFailures = 1
    MaxDamage = 2
    MaxOffline = 1
    MaxMisreads = 1
    MaxEvents = 3
INVARIANTS TypeOK OnlyDamageSpoils ResolvedIsIntact
PROPERTY SetupConverges
