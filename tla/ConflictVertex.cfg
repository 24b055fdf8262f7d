\* The test against a virtuous node that drops the bad vertex, and one that does not.
SPECIFICATION Spec
INVARIANTS
    TypeOK
    LastStatusTells
    PassIsTested
PROPERTIES
    EndsOnceAccepted
