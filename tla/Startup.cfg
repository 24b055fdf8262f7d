\* A chain of three nodes; the timeout is the least that has room for it.
SPECIFICATION Spec
CONSTANTS
    Node <- TestNode
    Deps <- TestDeps
    Given = 2
    Fixed = 6
    Request = 1
    SettleTime = 2
    Pause = 1
    BootTime = 1
INVARIANTS
    TypeOK
    UpIsFresh
    PromptStartsUp
    ReturnsInTime
