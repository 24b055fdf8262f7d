------------------------ MODULE NetworkLoaderProofs -------------------------
(***************************************************************************)
(* What holds of NetworkLoader for any number of boot nodes and any names. *)
(* A node is told the IDs of exactly the nodes it is given the addresses   *)
(* of; the loader gives up only for a reason; and a test runs only on the  *)
(* whole of the network it asked for.                                      *)
(***************************************************************************)
EXTENDS NetworkLoader, FiniteSetTheorems, TLAPS

\* The phases after the names were checked.
Checked == {"configure", "boot", "desired", "starting", "running"}

Names ==
    /\ phase \in Checked \cup {"new", "error"}
    /\ phase \in Checked => ~Reserved
    /\ \A s \in DOMAIN desired : desired[s] \in UserConfig
    /\ next \in Nat

\* The configuration of a boot node names the boot nodes before it, every other one all.
ConfigsRight ==
    \A c \in DOMAIN configs : configs[c] = IF c \in Boot THEN {j \in Boot : j < c} ELSE Boot

IInv == Names /\ ConfigsRight /\ BootstrapsMatch

LEMMA InvInit == Init => IInv
BY DEF Init, IInv, Names, Checked, ConfigsRight, BootstrapsMatch, Partial

\* A node that is started with the dependencies of its configuration.
LEMMA StartedMatches ==
    ASSUME IInv, NEW c, NEW s, NEW deps, NEW kept, AddOrGiveUp(c, s, deps, kept),
           c \in DOMAIN configs => configs[c] = deps
    PROVE  BootstrapsMatch'
<1>1. CASE UNCHANGED services
  BY <1>1 DEF IInv, BootstrapsMatch
<1>2. CASE CanAdd(c, s, deps) /\ Started(c, s, deps)
  BY <1>2 DEF IInv, BootstrapsMatch, CanAdd, Started, Extend
<1> QED BY <1>1, <1>2 DEF AddOrGiveUp

LEMMA InvStep == IInv /\ [Next]_vars => IInv'
<1> SUFFICES ASSUME IInv, [Next]_vars PROVE IInv'
  OBVIOUS
<1> USE DEF IInv, Names, Checked, Reserved
<1>1. CASE NewLoader
  BY <1>1 DEF NewLoader, ConfigsRight, BootstrapsMatch
<1>2. CASE ConfigureBoot
  <2>1. next \in Boot
    BY <1>2, NetworkLoaderAssumption DEF ConfigureBoot, Boot
  <2>2. ConfigsRight'
    BY <1>2, <2>1 DEF ConfigureBoot, ConfigsRight, AddConfiguration, Extend, BootNodeIDs
  <2>3. phase' \in {phase, "error"}
    BY <1>2 DEF ConfigureBoot, AddConfiguration
  <2> QED BY <1>2, <2>2, <2>3 DEF ConfigureBoot, BootstrapsMatch
<1>3. ASSUME NEW c \in Config, ConfigureUser(c) PROVE IInv'
  <2>1. c \notin Boot
    BY <1>3 DEF ConfigureUser
  <2>2. ConfigsRight'
    BY <1>3, <2>1 DEF ConfigureUser, ConfigsRight, AddConfiguration, Extend
  <2>3. phase' \in {phase, "error"}
    BY <1>3 DEF ConfigureUser, AddConfiguration
  <2> QED BY <1>3, <2>2, <2>3 DEF ConfigureUser, BootstrapsMatch
<1>4. CASE Configured \/ BootInitialized \/ Initialized \/ RunTest \/ StartupTimesOut
  BY <1>4 DEF Configured, BootInitialized, Initialized, RunTest, StartupTimesOut,
              ConfigsRight, BootstrapsMatch
<1>5. CASE InitializeBoot
  <2>1. next \in Boot
    BY <1>5, NetworkLoaderAssumption DEF InitializeBoot, Boot
  <2>2. BootstrapsMatch'
    BY <1>5, <2>1, StartedMatches DEF InitializeBoot, ConfigsRight
  <2>3. phase' \in {phase, "error"}
    BY <1>5 DEF InitializeBoot, AddOrGiveUp
  <2> QED BY <1>5, <2>2, <2>3 DEF InitializeBoot, ConfigsRight
<1>6. ASSUME NEW s \in Service, InitializeDesired(s) PROVE IInv'
  <2>1. desired[s] \notin Boot
    BY <1>6, NetworkLoaderAssumption DEF InitializeDesired
  <2>2. BootstrapsMatch'
    BY <1>6, <2>1, StartedMatches DEF InitializeDesired, ConfigsRight
  <2>3. phase' \in {phase, "error"}
    BY <1>6 DEF InitializeDesired, AddOrGiveUp
  <2> QED BY <1>6, <2>2, <2>3 DEF InitializeDesired, ConfigsRight
<1>7. ASSUME NEW s \in Service, NEW c \in Config, AddService(c, s) PROVE IInv'
  <2>1. c \notin Boot
    BY <1>7 DEF AddService
  <2>2. BootstrapsMatch'
    BY <1>7, <2>1, StartedMatches DEF AddService, ConfigsRight
  <2>3. phase' \in {phase, "error"}
    BY <1>7 DEF AddService, AddOrGiveUp
  <2> QED BY <1>7, <2>2, <2>3 DEF AddService, ConfigsRight
<1>8. ASSUME NEW s \in Service, ComesUp(s) \/ RemoveService(s) PROVE IInv'
  BY <1>8 DEF ComesUp, RemoveService, Removed, Without, ConfigsRight, BootstrapsMatch
<1>9. CASE UNCHANGED vars
  BY <1>9 DEF vars, ConfigsRight, BootstrapsMatch
<1> QED
  BY <1>1, <1>2, <1>3, <1>4, <1>5, <1>6, <1>7, <1>8, <1>9 DEF Next, Loader, Ended

\* A node's bootstrapper IDs are those of its dependencies: no address is given to it
\* whose node it would not trust, and no start command is refused for want of IDs.
THEOREM Bootstraps == SafeSpec => []BootstrapsMatch
BY InvInit, InvStep, PTL DEF SafeSpec, IInv

-----------------------------------------------------------------------------
(* How far the loader has come.                                            *)

Starting == {"boot", "desired", "starting", "running"}

Progress ==
    /\ phase \in {"new", "configure"} => DOMAIN services = {} /\ checkers = {}
    /\ phase = "new" => DOMAIN configs = {} /\ next = 0
    /\ phase = "configure" => /\ next <= NumBoot
                             /\ {j \in Boot : j < next} \subseteq DOMAIN configs
                             /\ DOMAIN configs \subseteq {j \in Boot : j < next} \cup asked
    /\ phase \in Starting => DOMAIN configs = Boot \cup asked /\ checkers = DOMAIN services
    /\ phase = "boot" => next <= NumBoot /\ DOMAIN services = {j \in Boot : j < next}
    /\ phase \in Starting \ {"boot"} => Boot \subseteq DOMAIN services
    /\ phase = "starting" => DOMAIN desired \subseteq DOMAIN services
    /\ phase = "running" => Boot \subseteq up

\* Everything that is added has been asked for, and is a boot node or a name of the test.
LEMMA TypeInit == Init => TypeOK
<1> SUFFICES ASSUME Init PROVE TypeOK
  OBVIOUS
<1>1. asked \in SUBSET Config
  BY DEF Init, Config
<1>2. DOMAIN desired \in SUBSET Service /\ \A s \in DOMAIN desired : desired[s] \in UserConfig
  BY DEF Init, Partial, Service
<1>3. DOMAIN configs = {} /\ DOMAIN services = {} /\ checkers = {} /\ up = {}
  BY DEF Init
<1>4. next \in 0..NumBoot
  BY NetworkLoaderAssumption DEF Init
<1> QED
  BY <1>1, <1>2, <1>3, <1>4 DEF Init, TypeOK

\* A node that is started gets its dependencies and the IDs of its configuration.
LEMMA StartedTyped ==
  ASSUME TypeOK, NEW c, NEW s \in Service, NEW deps \in SUBSET Boot,
         NEW kept \in SUBSET Service, AddOrGiveUp(c, s, deps, kept)
  PROVE  /\ DOMAIN services' \in SUBSET Service
         /\ \A r \in DOMAIN services' : services'[r] \in [deps : SUBSET Boot, ids : SUBSET Boot]
         /\ checkers' \in SUBSET Service
         /\ failed' \in BOOLEAN
         /\ phase' \in {phase, "error"}
<1>1. CASE CanAdd(c, s, deps) /\ Started(c, s, deps) /\ checkers' = checkers \cup {s}
           /\ UNCHANGED <<phase, failed>>
  <2>1. configs[c] \in SUBSET Boot
    BY <1>1 DEF CanAdd, TypeOK
  <2>2. services' = [y \in DOMAIN services \cup {s} |->
                        IF y = s THEN [deps |-> deps, ids |-> configs[c]] ELSE services[y]]
    BY <1>1 DEF Started, Extend
  <2> QED
    BY <1>1, <2>1, <2>2 DEF TypeOK
<1>2. CASE /\ failed' = CanAdd(c, s, deps) /\ phase' = "error" /\ checkers' = kept
           /\ UNCHANGED services
  <2>1. CanAdd(c, s, deps) \in BOOLEAN
    BY DEF CanAdd, Startable
  <2> QED
    BY <1>2, <2>1 DEF TypeOK
<1> QED
  BY <1>1, <1>2 DEF AddOrGiveUp

LEMMA TypeStep ==
  ASSUME TypeOK, [Next]_vars
  PROVE  TypeOK'
<1>1. CASE NewLoader \/ Configured \/ BootInitialized \/ Initialized \/ RunTest \/ StartupTimesOut
  <2>1. CASE NewLoader
    BY <2>1 DEF NewLoader, TypeOK
  <2>2. CASE Configured
    <3>1. next' \in 0..NumBoot
      BY <2>2, NetworkLoaderAssumption DEF Configured
    <3> QED
      BY <2>2, <3>1 DEF Configured, TypeOK
  <2>3. CASE BootInitialized \/ Initialized \/ RunTest
    BY <2>3 DEF BootInitialized, Initialized, RunTest, TypeOK
  <2>4. CASE StartupTimesOut
    BY <2>4 DEF StartupTimesOut, TypeOK
  <2> QED
    BY <1>1, <2>1, <2>2, <2>3, <2>4
<1>2. ASSUME NEW c \in Config, NEW ids \in SUBSET Boot, AddConfiguration(c, ids)
      PROVE  /\ DOMAIN configs' \in SUBSET Config
             /\ \A d \in DOMAIN configs' : configs'[d] \in SUBSET Boot
             /\ phase' \in {phase, "error"}
  BY <1>2 DEF AddConfiguration, Extend, TypeOK
<1>3. CASE ConfigureBoot
  <2>1. next \in Config /\ BootNodeIDs(next) \in SUBSET Boot /\ next + 1 \in 0..NumBoot
    BY <1>3, NetworkLoaderAssumption DEF ConfigureBoot, TypeOK, Config, Boot, BootNodeIDs
  <2> QED
    BY <1>2, <1>3, <2>1 DEF ConfigureBoot, TypeOK
<1>4. ASSUME NEW c \in Config, ConfigureUser(c) PROVE TypeOK'
  BY <1>2, <1>4 DEF ConfigureUser, TypeOK
<1>5. CASE InitializeBoot
  <2>1. next \in Service /\ {j \in Boot : j < next} \in SUBSET Boot /\ next + 1 \in 0..NumBoot
    BY <1>5, NetworkLoaderAssumption DEF InitializeBoot, TypeOK, Service, Boot
  <2>2. AddOrGiveUp(next, next, {j \in Boot : j < next}, {}) /\ {} \in SUBSET Service
    BY <1>5 DEF InitializeBoot
  <2>3. /\ DOMAIN services' \in SUBSET Service
        /\ \A r \in DOMAIN services' : services'[r] \in [deps : SUBSET Boot, ids : SUBSET Boot]
        /\ checkers' \in SUBSET Service /\ failed' \in BOOLEAN /\ phase' \in {phase, "error"}
    BY <2>1, <2>2, StartedTyped
  <2> QED
    BY <1>5, <2>1, <2>3 DEF InitializeBoot, TypeOK
<1>6. ASSUME NEW s \in Service, InitializeDesired(s) PROVE TypeOK'
  <2>1. /\ AddOrGiveUp(desired[s], s, Boot, {})
        /\ {} \in SUBSET Service /\ Boot \in SUBSET Boot
    BY <1>6 DEF InitializeDesired
  <2>2. /\ DOMAIN services' \in SUBSET Service
        /\ \A r \in DOMAIN services' : services'[r] \in [deps : SUBSET Boot, ids : SUBSET Boot]
        /\ checkers' \in SUBSET Service /\ failed' \in BOOLEAN /\ phase' \in {phase, "error"}
    BY <2>1, StartedTyped
  <2> QED
    BY <1>6, <2>2 DEF InitializeDesired, TypeOK
<1>7. ASSUME NEW s \in Service, NEW c \in Config, AddService(c, s) PROVE TypeOK'
  <2>1. Boot \in SUBSET Boot /\ checkers \in SUBSET Service
    BY DEF TypeOK
  <2> QED
    BY <1>7, <2>1, StartedTyped DEF AddService, TypeOK
<1>8. ASSUME NEW s \in Service, ComesUp(s) \/ RemoveService(s) PROVE TypeOK'
  BY <1>8 DEF ComesUp, RemoveService, Removed, Without, TypeOK
<1>9. CASE UNCHANGED vars
  BY <1>9 DEF vars, TypeOK
<1> QED
  BY <1>1, <1>3, <1>4, <1>5, <1>6, <1>7, <1>8, <1>9 DEF Next, Loader, Ended

\* The variables keep their types, for any number of boot nodes and any names.
THEOREM TypeCorrect == SafeSpec => []TypeOK
BY TypeInit, TypeStep, PTL DEF SafeSpec

-----------------------------------------------------------------------------
(* Why the loader gives up, and what it holds when it does not.            *)

\* A node that its configuration and its dependencies are there for can be added: the
\* start command is not refused.
LEMMA CanBeAdded ==
  ASSUME IInv, NEW c \in DOMAIN configs, NEW s, s \notin DOMAIN services,
         NEW deps \in SUBSET Boot, deps \subseteq DOMAIN services,
         deps = IF c \in Boot THEN {j \in Boot : j < c} ELSE Boot
  PROVE  CanAdd(c, s, deps)
<1>1. IsFiniteSet(Boot)
  BY NetworkLoaderAssumption, FS_Interval DEF Boot
<1>2. Cardinality(deps) \in Nat
  BY <1>1, FS_Subset, FS_CardinalityType
<1>3. configs[c] = deps
  BY DEF IInv, ConfigsRight
<1> QED
  BY <1>2, <1>3 DEF CanAdd, Startable

\* What an addition leaves, when the node could be added and when it could not.
LEMMA Added ==
  ASSUME NEW c, NEW s, NEW deps, NEW kept, AddOrGiveUp(c, s, deps, kept)
  PROVE  \/ /\ DOMAIN services' = DOMAIN services \cup {s} /\ checkers' = checkers \cup {s}
            /\ phase' = phase /\ failed' = failed
         \/ phase' = "error" /\ failed' = CanAdd(c, s, deps)
BY DEF AddOrGiveUp, Started, Extend

\* The registrations of the loader find no name taken.
LEMMA Registered ==
  ASSUME NEW c, NEW ids, AddConfiguration(c, ids), c \notin DOMAIN configs
  PROVE  phase' = phase /\ DOMAIN configs' = DOMAIN configs \cup {c}
BY DEF AddConfiguration, Extend

LEMMA ProgressStep ==
  ASSUME IInv, Progress, ErrorsExplained, [Next]_vars
  PROVE  Progress' /\ ErrorsExplained'
<1> USE NetworkLoaderAssumption DEF Progress, Starting, ErrorsExplained, Reserved
<1>1. CASE NewLoader
  BY <1>1 DEF NewLoader, IInv, Names, Checked, Boot
<1>2. CASE ConfigureBoot
  <2>1. next \in Boot /\ next \notin {j \in Boot : j < next} /\ next \notin asked
    BY <1>2 DEF ConfigureBoot, Boot, IInv, Names, Checked
  <2>2. phase' = phase /\ DOMAIN configs' = DOMAIN configs \cup {next}
    BY <1>2, <2>1, Registered DEF ConfigureBoot
  <2>3. {j \in Boot : j < next + 1} = {j \in Boot : j < next} \cup {next} /\ next + 1 <= NumBoot
    BY <2>1 DEF Boot
  <2> QED
    BY <1>2, <2>2, <2>3 DEF ConfigureBoot
<1>3. ASSUME NEW c \in Config, ConfigureUser(c) PROVE Progress' /\ ErrorsExplained'
  <2>1. c \in asked /\ c \notin DOMAIN configs
    BY <1>3 DEF ConfigureUser, IInv, Names, Checked
  <2>2. phase' = phase /\ DOMAIN configs' = DOMAIN configs \cup {c}
    BY <1>3, <2>1, Registered DEF ConfigureUser
  <2> QED
    BY <1>3, <2>1, <2>2 DEF ConfigureUser
<1>4. CASE Configured
  <2>1. {j \in Boot : j < next} = Boot /\ {j \in Boot : j < 0} = {}
    BY <1>4 DEF Configured, Boot
  <2>2. DOMAIN configs = Boot \cup asked /\ DOMAIN services = {} /\ checkers = {}
    BY <1>4, <2>1 DEF Configured
  <2>3. {j \in Boot : j < next'} = {} /\ phase' = "boot" /\ next' <= NumBoot
    BY <1>4, <2>1 DEF Configured
  <2>4. UNCHANGED <<asked, configs, services, checkers>>
    BY <1>4 DEF Configured
  <2> QED
    BY <2>2, <2>3, <2>4
<1>5. CASE InitializeBoot
  <2>1. next \in Boot /\ next \in DOMAIN configs /\ next \notin DOMAIN services
    BY <1>5 DEF InitializeBoot, Boot, IInv, Names
  <2>2. CanAdd(next, next, {j \in Boot : j < next})
    BY <1>5, <2>1, CanBeAdded DEF InitializeBoot
  <2>3. {j \in Boot : j < next + 1} = {j \in Boot : j < next} \cup {next} /\ next + 1 <= NumBoot
    BY <2>1 DEF Boot
  <2>4. \/ /\ DOMAIN services' = DOMAIN services \cup {next} /\ checkers' = checkers \cup {next}
           /\ phase' = phase
        \/ phase' = "error" /\ failed'
    BY <1>5, <2>2, Added DEF InitializeBoot
  <2> QED
    BY <1>5, <2>3, <2>4 DEF InitializeBoot
<1>6. CASE BootInitialized
  <2>1. {j \in Boot : j < NumBoot} = Boot
    BY DEF Boot
  <2> QED
    BY <1>6, <2>1 DEF BootInitialized
<1>7. ASSUME NEW s \in Service, InitializeDesired(s) PROVE Progress' /\ ErrorsExplained'
  <2>1. s \in DOMAIN desired /\ s \notin DOMAIN services /\ Boot \subseteq DOMAIN services
        /\ desired[s] \notin Boot
    BY <1>7 DEF InitializeDesired, IInv, Names, Checked
  <2>2. CanAdd(desired[s], s, Boot) \/ desired[s] \notin asked
    BY <1>7, <2>1, CanBeAdded DEF InitializeDesired
  <2>3. \/ /\ DOMAIN services' = DOMAIN services \cup {s} /\ checkers' = checkers \cup {s}
           /\ phase' = phase
        \/ phase' = "error" /\ failed' = CanAdd(desired[s], s, Boot)
    BY <1>7, Added DEF InitializeDesired
  <2> QED
    BY <1>7, <2>1, <2>2, <2>3 DEF InitializeDesired
<1>8. CASE Initialized \/ RunTest \/ StartupTimesOut
  BY <1>8 DEF Initialized, RunTest, StartupTimesOut
<1>9. ASSUME NEW s \in Service, NEW c \in Config, AddService(c, s)
      PROVE  Progress' /\ ErrorsExplained'
  <2>1. c \in DOMAIN configs /\ c \notin Boot /\ s \notin DOMAIN services
        /\ Boot \subseteq DOMAIN services
    BY <1>9 DEF AddService, IInv, Names, Checked
  <2>2. CanAdd(c, s, Boot)
    BY <2>1, CanBeAdded
  <2>3. \/ /\ DOMAIN services' = DOMAIN services \cup {s} /\ checkers' = checkers \cup {s}
           /\ phase' = phase
        \/ phase' = "error" /\ failed'
    BY <1>9, <2>2, Added DEF AddService
  <2> QED
    BY <1>9, <2>3 DEF AddService
<1>10. ASSUME NEW s \in Service, ComesUp(s) PROVE Progress' /\ ErrorsExplained'
  BY <1>10 DEF ComesUp
<1>11. ASSUME NEW s \in Service, RemoveService(s) PROVE Progress' /\ ErrorsExplained'
  <2>1. Removed(s) => DOMAIN services' = DOMAIN services \ {s}
    BY DEF Removed, Without
  <2>2. CASE phase' = "error"
    BY <1>11, <2>2 DEF RemoveService
  <2>3. CASE phase' = phase
    <3>1. Removed(s) /\ UNCHANGED <<asked, desired, next, configs, failed>>
      BY <1>11, <2>3 DEF RemoveService
    <3> QED
      BY <1>11, <2>1, <2>3, <3>1 DEF RemoveService, Removed
  <2> QED
    BY <1>11, <2>2, <2>3 DEF RemoveService
<1>12. CASE UNCHANGED vars
  BY <1>12 DEF vars
<1> QED
  BY <1>1, <1>2, <1>3, <1>4, <1>5, <1>6, <1>7, <1>8, <1>9, <1>10, <1>11, <1>12
    DEF Next, Loader, Ended

LEMMA ProgressInit == Init => Progress /\ ErrorsExplained
BY DEF Init, Progress, Starting, ErrorsExplained

\* No registration and no start command is refused: the loader gives up only on a
\* reserved name, a configuration that was never given, or a container's own failure.
THEOREM GivesUpForAReason == SafeSpec => []ErrorsExplained
BY InvInit, InvStep, ProgressInit, ProgressStep, PTL DEF SafeSpec

\* A test begins only with its whole network up, whatever failed or was slow on the way,
\* and a node it adds finds its bootstrappers up, whatever the test has removed before.
THEOREM RunsWhole == SafeSpec => RunsOnWholeNetwork
<1>1. ASSUME IInv, TypeOK, Progress, [Next]_vars
      PROVE  /\ phase # "running" /\ phase' = "running" => Boot \cup DOMAIN desired \subseteq up
             /\ \A s \in DOMAIN services' \ DOMAIN services :
                   phase = "running" => services'[s].ids \subseteq up
  <2>1. ASSUME phase # "running", phase' = "running"
        PROVE  Boot \cup DOMAIN desired \subseteq up
    <3>1. RunTest
      BY <1>1, <2>1
         DEF Next, Loader, NewLoader, ConfigureBoot, ConfigureUser, Configured, AddConfiguration,
             InitializeBoot, InitializeDesired, BootInitialized, Initialized, AddOrGiveUp, ComesUp,
             StartupTimesOut, AddService, RemoveService, Ended, vars
    <3> QED
      BY <1>1, <3>1 DEF RunTest, Progress, Starting
  <2>2. ASSUME phase = "running", NEW s \in DOMAIN services' \ DOMAIN services
        PROVE  services'[s].ids \subseteq up
    <3>1. PICK c \in Config, r \in Service : AddService(c, r)
      BY <1>1, <2>2
         DEF Next, Loader, NewLoader, ConfigureBoot, ConfigureUser, Configured, InitializeBoot,
             InitializeDesired, BootInitialized, Initialized, RunTest, ComesUp, StartupTimesOut,
             RemoveService, Removed, Without, Ended, vars
    <3>2. CanAdd(c, r, Boot) /\ Started(c, r, Boot)
      BY <2>2, <3>1 DEF AddService, AddOrGiveUp
    <3>3. s = r /\ services'[s].ids = configs[c]
      BY <2>2, <3>2 DEF Started, Extend
    <3> QED
      BY <1>1, <2>2, <3>2, <3>3 DEF CanAdd, TypeOK, Progress
  <2> QED
    BY <2>1, <2>2
<1>2. IInv /\ TypeOK /\ Progress /\ [Next]_vars =>
        [/\ phase # "running" /\ phase' = "running" => Boot \cup DOMAIN desired \subseteq up
         /\ \A s \in DOMAIN services' \ DOMAIN services :
               phase = "running" => services'[s].ids \subseteq up]_vars
  BY <1>1
<1> QED
  BY <1>2, InvInit, InvStep, TypeInit, TypeStep, ProgressInit, ProgressStep, PTL
     DEF SafeSpec, RunsOnWholeNetwork
=============================================================================
