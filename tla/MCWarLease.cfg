\* Three worker processes, TTL = 2 * Interval, a one-tick wait for the lock.
CONSTANTS
    Worker = {w1, w2, w3}
    Nobody = Nobody
    Interval = 2
    BusyTimeout = 1
SPECIFICATION FairLeaseSpec
INVARIANTS
    LeaseTypeOK
    LeaseExclusive
    GrantIsRow
PROPERTY PollingGoesOn
