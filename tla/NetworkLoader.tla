---------------------------- MODULE NetworkLoader ---------------------------
(***************************************************************************)
(* The life of a test network: the loader checks what a test asks for,     *)
(* registers the configurations of the boot nodes and of the test's own    *)
(* nodes, starts the boot nodes one after the other and then the others,   *)
(* and the test, once every node is up, adds and removes nodes.            *)
(*                                                                         *)
(* Boot node i, its configuration and its node ID are all the number i: a  *)
(* name with a reserved prefix is one of Boot.  Kurtosis (the registry of  *)
(* configurations, containers, waiting for startup) is modelled from how   *)
(* the loader uses it.                                                     *)
(***************************************************************************)
EXTENDS Naturals, FiniteSets

CONSTANTS
    NumBoot,        \* the number of genesis stakers
    UserConfig,     \* names a test may give its configurations
    UserService     \* names a test may give its nodes

Boot == 0 .. (NumBoot - 1)
Config == Boot \cup UserConfig
Service == Boot \cup UserService

ASSUME NetworkLoaderAssumption ==
    /\ NumBoot \in Nat
    /\ Boot \cap UserConfig = {} /\ Boot \cap UserService = {}
    /\ IsFiniteSet(UserConfig) /\ IsFiniteSet(UserService)

VARIABLES
    phase,      \* "new", "configure", "boot", "desired", "starting", "running", "error"
    asked,      \* the configurations the test gives
    desired,    \* the nodes the network starts with, each with its configuration
    next,       \* the next boot node of the loop under way
    configs,    \* the registered configurations, each with its bootstrapper IDs
    services,   \* the started nodes, each with its dependencies and bootstrapper IDs
    checkers,   \* the nodes whose availability checkers the loader holds
    up,         \* the nodes that report their chains bootstrapped
    failed      \* a container failed to start, or a node did not get up in time

vars == <<phase, asked, desired, next, configs, services, checkers, up, failed>>

Extend(f, x, v) == [y \in DOMAIN f \cup {x} |-> IF y = x THEN v ELSE f[y]]
Without(f, x) == [y \in DOMAIN f \ {x} |-> f[y]]
Partial(D, R) == UNION {[E -> R] : E \in SUBSET D}

\* Any configurations and nodes, the reserved name of boot node 0 among them, and
\* nodes whose configuration the test forgot.
Init == /\ phase = "new"
        /\ asked \in SUBSET (UserConfig \cup ({0} \cap Boot))
        /\ desired \in Partial(UserService \cup ({0} \cap Boot), UserConfig)
        /\ next = 0
        /\ configs = [c \in {} |-> {}]
        /\ services = [s \in {} |-> {}]
        /\ checkers = {}
        /\ up = {}
        /\ failed = FALSE

-----------------------------------------------------------------------------

\* The test's names must not begin with the prefixes of the boot nodes.
Reserved == asked \cap Boot # {} \/ DOMAIN desired \cap Boot # {}

NewLoader == /\ phase = "new"
             /\ phase' = IF Reserved THEN "error" ELSE "configure"
             /\ UNCHANGED <<asked, desired, next, configs, services, checkers, up, failed>>

\* ServiceNetworkBuilder.AddConfiguration refuses a name it has already.
AddConfiguration(c, bootstrapperIDs) ==
    IF c \in DOMAIN configs
    THEN phase' = "error" /\ UNCHANGED configs
    ELSE phase' = phase /\ configs' = Extend(configs, c, bootstrapperIDs)

\* Mutant: every boot node gets the IDs of all boot nodes.
AllBootNodeIDs(i) == Boot

\* Mutant: one node ID more than there are nodes started.
OneMoreBootNodeID(i) == 0 .. (i + 1)

\* bootNodeIDs[0:i], "only the node IDs of the already-started nodes".
BootNodeIDs(i) == {j \in Boot : j < i}

ConfigureBoot == /\ phase = "configure" /\ next < NumBoot
                 /\ AddConfiguration(next, BootNodeIDs(next))
                 /\ next' = next + 1
                 /\ UNCHANGED <<asked, desired, services, checkers, up, failed>>

\* The range over the test's configurations, in any order.
ConfigureUser(c) == /\ phase = "configure" /\ next = NumBoot
                    /\ c \in asked \ (DOMAIN configs \ Boot)
                    /\ AddConfiguration(c, Boot)
                    /\ UNCHANGED <<asked, desired, next, services, checkers, up, failed>>

Configured == /\ phase = "configure" /\ next = NumBoot /\ asked \subseteq DOMAIN configs
              /\ phase' = "boot" /\ next' = 0
              /\ UNCHANGED <<asked, desired, configs, services, checkers, up, failed>>

\* Mutant: GetStartCommand requires an ID for each dependency and one to spare.
StartableWithSpare(c, deps) == Cardinality(deps) < Cardinality(configs[c])

\* GetStartCommand: no more dependencies than bootstrapper IDs.
Startable(c, deps) == Cardinality(deps) <= Cardinality(configs[c])

\* ServiceNetwork.AddService can start the node.
CanAdd(c, s, deps) == /\ c \in DOMAIN configs
                      /\ s \notin DOMAIN services
                      /\ deps \subseteq DOMAIN services
                      /\ Startable(c, deps)

Started(c, s, deps) ==
    services' = Extend(services, s, [deps |-> deps, ids |-> configs[c]])

\* Mutant: a node that cannot be started is skipped.
AddOrSkip(c, s, deps, kept) ==
    \/ /\ CanAdd(c, s, deps)
       /\ Started(c, s, deps)
       /\ checkers' = checkers \cup {s}
       /\ UNCHANGED <<phase, failed>>
    \/ /\ failed' = CanAdd(c, s, deps)
       /\ UNCHANGED <<phase, checkers, services>>

\* A node is started, its checker kept; or an error is returned, the nodes started so
\* far run on, and of their checkers those in kept are still held.
AddOrGiveUp(c, s, deps, kept) ==
    \/ /\ CanAdd(c, s, deps)
       /\ Started(c, s, deps)
       /\ checkers' = checkers \cup {s}
       /\ UNCHANGED <<phase, failed>>
    \/ /\ failed' = CanAdd(c, s, deps)
       /\ phase' = "error" /\ checkers' = kept
       /\ UNCHANGED services

\* Boot node i depends on the boot nodes before it.  The map of the checkers is lost with
\* an error ("return nil, ...").
InitializeBoot == /\ phase = "boot" /\ next < NumBoot
                  /\ AddOrGiveUp(next, next, {j \in Boot : j < next}, {})
                  /\ next' = next + 1
                  /\ UNCHANGED <<asked, desired, configs, up>>

BootInitialized == /\ phase = "boot" /\ next = NumBoot
                   /\ phase' = "desired"
                   /\ UNCHANGED <<asked, desired, next, configs, services, checkers, up, failed>>

\* The range over the desired services, in any order.
InitializeDesired(s) == /\ phase = "desired"
                        /\ s \in DOMAIN desired \ (DOMAIN services \ Boot)
                        /\ AddOrGiveUp(desired[s], s, Boot, {})
                        /\ UNCHANGED <<asked, desired, next, configs, up>>

Initialized == /\ phase = "desired" /\ DOMAIN desired \subseteq DOMAIN services
               /\ phase' = "starting"
               /\ UNCHANGED <<asked, desired, next, configs, services, checkers, up, failed>>

-----------------------------------------------------------------------------

\* "an Avalanche service won't report itself as up until its bootstrappers are up"
ComesUp(s) == /\ s \in DOMAIN services \ up
              /\ services[s].ids \subseteq up
              /\ up' = up \cup {s}
              /\ UNCHANGED <<phase, asked, desired, next, configs, services, checkers, failed>>

\* Every checker's WaitForStartup has returned: Kurtosis runs the test.
RunTest == /\ phase = "starting" /\ checkers \subseteq up
           /\ phase' = "running"
           /\ UNCHANGED <<asked, desired, next, configs, services, checkers, up, failed>>

\* A node's checker gives up after GetTimeout.
StartupTimesOut == /\ phase = "starting" /\ ~(checkers \subseteq up)
                   /\ phase' = "error" /\ failed' = TRUE
                   /\ UNCHANGED <<asked, desired, next, configs, services, checkers, up>>

\* TestAvalancheNetwork.AddService, a new node: every boot node is a dependency.  A
\* test that gets an error ends.
AddService(c, s) == /\ phase = "running" /\ c \in asked /\ s \notin DOMAIN services
                    /\ AddOrGiveUp(c, s, Boot, checkers)
                    /\ UNCHANGED <<asked, desired, next, configs, up>>

Removed(s) == /\ services' = Without(services, s)
              /\ checkers' = checkers \ {s}
              /\ up' = up \ {s}

\* TestAvalancheNetwork.RemoveService: no test removes a boot node.  After an error, which
\* ends the test, the container may be gone or not.
RemoveService(s) == /\ phase = "running" /\ s \in DOMAIN services \ Boot
                    /\ \/ Removed(s) /\ UNCHANGED <<phase, failed>>
                       \/ /\ phase' = "error" /\ failed' = TRUE
                          /\ Removed(s) \/ UNCHANGED <<services, checkers, up>>
                    /\ UNCHANGED <<asked, desired, next, configs>>

\* The loader gave up, or the test is over.
Ended == phase \in {"error", "running"} /\ UNCHANGED vars

Loader == \/ NewLoader \/ ConfigureBoot \/ Configured \/ InitializeBoot
          \/ BootInitialized \/ Initialized \/ RunTest
          \/ \E c \in Config : ConfigureUser(c)
          \/ \E s \in Service : InitializeDesired(s)

Next == \/ Loader
        \/ \E s \in Service : ComesUp(s) \/ RemoveService(s)
        \/ \E s \in Service, c \in Config : AddService(c, s)
        \/ StartupTimesOut
        \/ Ended

SafeSpec == Init /\ [][Next]_vars

\* The loader runs on, and a node whose bootstrappers are up gets up itself.
Spec == /\ SafeSpec
        /\ WF_vars(Loader)
        /\ \A s \in Service : WF_vars(ComesUp(s))

-----------------------------------------------------------------------------

\* The loader's variables have their types.
TypeOK ==
    /\ phase \in {"new", "configure", "boot", "desired", "starting", "running", "error"}
    /\ asked \in SUBSET Config
    /\ DOMAIN desired \in SUBSET Service /\ \A s \in DOMAIN desired : desired[s] \in UserConfig
    /\ next \in 0..NumBoot
    /\ DOMAIN configs \in SUBSET Config
    /\ \A c \in DOMAIN configs : configs[c] \in SUBSET Boot
    /\ DOMAIN services \in SUBSET Service
    /\ \A s \in DOMAIN services : services[s] \in [deps : SUBSET Boot, ids : SUBSET Boot]
    /\ checkers \in SUBSET Service
    /\ up \in SUBSET Service
    /\ failed \in BOOLEAN

\* A node is told the node IDs of exactly the nodes whose addresses it is given: no
\* boot address is one it would not trust, no trusted ID one it has no address of.
BootstrapsMatch == \A s \in DOMAIN services : services[s].ids = services[s].deps

\* The loader gives up only for a reason: a reserved name, before it has registered or
\* started anything; a configuration that was never given; a container that failed or was
\* slow.  No registration and no start command it asks for is refused.
ErrorsExplained ==
    phase = "error" => \/ failed
                       \/ Reserved /\ DOMAIN configs = {} /\ DOMAIN services = {}
                       \/ \E s \in DOMAIN desired : desired[s] \notin asked

\* No test runs on a part of its network: wherever the start of a node fails and whatever
\* was started by then, a test begins only with every boot node and every node it asked
\* for up.  A node it adds then finds all the bootstrappers it is told of up.
RunsOnWholeNetwork ==
    [][/\ phase # "running" /\ phase' = "running" => Boot \cup DOMAIN desired \subseteq up
       /\ \A s \in DOMAIN services' \ DOMAIN services :
             phase = "running" => services'[s].ids \subseteq up]_vars

\* Everyone comes up: no node waits for ever for a bootstrapper.
EveryoneComesUp ==
    \A s \in Service : s \in DOMAIN services ~> (s \in up \/ s \notin DOMAIN services)
=============================================================================
