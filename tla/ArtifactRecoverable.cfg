SPECIFICATION FairSpec
CONSTANTS
    Setups = {p1, p2}
    Readers = {}
    MaxCrashes = 1
    MaxFailures = 0
    MaxDamage = 0
    MaxOffline = 0
    MaxMisreads = 0
    MaxEvents = 1
PROPERTY InstallRecoverable
