\* The workflow test and the chit spammer test, with failing requests, refused
\* transactions and, for the workflow test, a slow network, or none of these.
SPECIFICATION Spec
CONSTANTS
    Tests <- TestRuns
    Node <- TestNodes
    Owner <- TestOwners
    Genesis = 16
    StakingDelay = 2
    SyncDelay = 2
    PromoteLag = 1
    Timeout = 5
    AcceptLag = 1
INVARIANTS
    TypeOK
    ReadYourWrites
    FailuresAreStaleReads
    BlocksUntilActive
    PassIsEarned
    DelegateeIsKnown
    NoConflictingSpend
PROPERTIES
    ImplementsLedger
