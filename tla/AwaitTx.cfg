\* Five chances to poll, a request of up to two ticks, sleeps that may overrun.
SPECIFICATION Spec
CONSTANTS
    Chains = {"X", "P", "C"}
    Timeout = 5
    PollInterval = 1
    RequestTimeout = 2
    Oversleep = 1
INVARIANTS
    TypeOK
    AwaitSound
    TimeoutIsHonest
    ReturnsInTime
PROPERTIES
    ImplementsWait
