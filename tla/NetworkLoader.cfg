\* Three boot nodes, so that one has two bootstrappers, and two user nodes.
SPECIFICATION Spec
CONSTANTS
    NumBoot = 3
    UserConfig = {normal, samecert}
    UserService = {vanilla, bad}
    normal = normal
    samecert = samecert
    vanilla = vanilla
    bad = bad
INVARIANTS
    TypeOK
    BootstrapsMatch
    ErrorsExplained
PROPERTIES
    RunsOnWholeNetwork
    EveryoneComesUp
