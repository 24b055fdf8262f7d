--------------------------- MODULE StartupProofs ----------------------------
(***************************************************************************)
(* What holds of Startup for any network and any durations: its types, how *)
(* fresh the answers are that a node is called up on, and how long a wait  *)
(* can last, which follow from one invariant that says how old answers can *)
(* be, and how long a wait has gone on, at each query; and that a prompt   *)
(* network starts up, by counting the nodes that have not.                 *)
(***************************************************************************)
EXTENDS Startup, FiniteSetTheorems, TLAPS

\* Three chains are asked for, one after the other.
LEMMA ThreeQueries ==
  /\ Len(Query) = 3
  /\ Query[1] = "P" /\ Query[2] = "C" /\ Query[3] = "X"
  /\ \A q \in 1..3 : Query[q] \in Chain
BY DEF Query, Chain

\* A round is no shorter than three requests and what follows them.
LEMMA RoundLength ==
  /\ Round \in Nat
  /\ 3 * Request + SettleTime <= Round /\ 3 * Request + Pause <= Round
BY StartupAssumption, ThreeQueries DEF Round

-----------------------------------------------------------------------------

\* The types are inductive by themselves.
LEMMA TypeStep ==
  ASSUME TypeOK, [Next]_vars
  PROVE  TypeOK'
<1> USE StartupAssumption, ThreeQueries, RoundLength DEF TypeOK, nodes, checker
<1>1. CASE \E n \in Node : WaitForStartup(n) /\ UNCHANGED <<prompt, nodes>>
  BY <1>1 DEF WaitForStartup
<1>2. CASE IsServiceUp /\ UNCHANGED <<prompt, nodes>>
  BY <1>2 DEF IsServiceUp
<1>3. CASE TimesOut /\ UNCHANGED <<prompt, nodes>>
  BY <1>3 DEF TimesOut
<1>4. CASE Answer /\ UNCHANGED <<prompt, nodes>>
  BY <1>4 DEF Answer
<1>5. CASE Bootstrapped /\ UNCHANGED <<prompt, nodes>>
  BY <1>5 DEF Bootstrapped
<1>6. CASE NotBootstrapped /\ UNCHANGED <<prompt, nodes>>
  BY <1>6 DEF NotBootstrapped
<1>7. CASE ServiceUp /\ UNCHANGED <<prompt, nodes>>
  BY <1>7 DEF ServiceUp
<1>8. CASE PollAgain /\ UNCHANGED <<prompt, nodes>>
  BY <1>8 DEF PollAgain
<1>9. CASE \E n \in Node, c \in Chain : Bootstrap(n, c)
  BY <1>9 DEF Bootstrap
<1>10. CASE Tick
  BY <1>10 DEF Tick
<1>11. CASE Ended \/ UNCHANGED vars
  BY <1>11 DEF Ended, vars
<1> QED
  BY <1>1, <1>2, <1>3, <1>4, <1>5, <1>6, <1>7, <1>8, <1>9, <1>10, <1>11 DEF Next, Checker

\* The variables keep their types, for any nodes, bootstrappers and durations.
THEOREM TypeCorrect == Spec => []TypeOK
<1>1. ASSUME Init PROVE TypeOK
  <2>1. /\ 0 \in 0..BootTime /\ Round + 1 \in 0..(Round + 1) /\ 1 \in 1..Len(Query)
        /\ FALSE \in BOOLEAN
    BY StartupAssumption, ThreeQueries, RoundLength
  <2> QED
    BY <1>1, <2>1 DEF Init, TypeOK
<1> QED
  BY <1>1, TypeStep, PTL DEF Spec

-----------------------------------------------------------------------------

\* At the k-th query of a poll the answers before it are at most the requests since
\* old; the answer to a query under way has come within it.
Ages ==
    /\ pc \in {"ask", "reply"} =>
          /\ query = 2 => answered["P"] <= Request + spent
          /\ query = 3 => /\ answered["P"] <= 2 * Request + spent
                          /\ answered["C"] <= Request + spent
    /\ pc = "reply" /\ said => answered[Query[query]] <= spent
    /\ pc = "settle" => /\ answered["P"] <= 3 * Request + spent
                        /\ answered["C"] <= 2 * Request + spent
                        /\ answered["X"] <= Request + spent

\* A poll begins before the timeout, and what has passed since is its requests.
Paces ==
    /\ pc \in {"ask", "reply"} =>
          /\ spent <= Request
          /\ query = 1 => waited < GetTimeout + spent
          /\ query = 2 => waited < GetTimeout + Request + spent
          /\ query = 3 => waited < GetTimeout + 2 * Request + spent
    /\ pc \in {"settle", "pause"} => waited < GetTimeout + 3 * Request + spent
    /\ pc = "settle" => spent <= SettleTime
    /\ pc = "pause" => spent <= Pause
    /\ waited <= GetTimeout + Round

IInv == Ages /\ Paces

\* The inductive step of IInv, one action at a time.
LEMMA IInvStep ==
  ASSUME TypeOK, IInv, [Next]_vars
  PROVE  IInv'
<1> USE StartupAssumption, ThreeQueries, RoundLength
    DEF TypeOK, IInv, Ages, Paces, GetTimeout, nodes, checker
<1>1. CASE \E n \in Node : WaitForStartup(n) /\ UNCHANGED <<prompt, nodes>>
  BY <1>1 DEF WaitForStartup
<1>2. CASE IsServiceUp /\ UNCHANGED <<prompt, nodes>>
  BY <1>2 DEF IsServiceUp
<1>3. CASE TimesOut /\ UNCHANGED <<prompt, nodes>>
  BY <1>3 DEF TimesOut
<1>4. CASE Answer /\ UNCHANGED <<prompt, nodes>>
  BY <1>4 DEF Answer, Chain
<1>5. CASE Bootstrapped /\ UNCHANGED <<prompt, nodes>>
  BY <1>5 DEF Bootstrapped, Chain
<1>6. CASE NotBootstrapped /\ UNCHANGED <<prompt, nodes>>
  BY <1>6 DEF NotBootstrapped, No
<1>7. CASE ServiceUp /\ UNCHANGED <<prompt, nodes>>
  BY <1>7 DEF ServiceUp
<1>8. CASE PollAgain /\ UNCHANGED <<prompt, nodes>>
  BY <1>8 DEF PollAgain
<1>9. CASE \E n \in Node, c \in Chain : Bootstrap(n, c)
  BY <1>9 DEF Bootstrap
<1>10. CASE Tick
  BY <1>10 DEF Tick, Limit, Chain
<1>11. CASE Ended \/ UNCHANGED vars
  BY <1>11 DEF Ended, vars
<1> QED
  BY <1>1, <1>2, <1>3, <1>4, <1>5, <1>6, <1>7, <1>8, <1>9, <1>10, <1>11 DEF Next, Checker

\* IInv holds throughout a startup.
LEMMA Invariant == Spec => []IInv
<1>1. Init => IInv
  BY StartupAssumption, RoundLength DEF Init, IInv, Ages, Paces, GetTimeout
<1>2. TypeOK /\ IInv /\ [Next]_vars => IInv'
  BY IInvStep
<1> QED
  BY <1>1, <1>2, TypeCorrect, PTL DEF Spec

\* A node is called up on the answers of one poll, the oldest of them three requests
\* and a sleep old, whatever answers the polls before it got.
THEOREM Freshness == Spec => []UpIsFresh
<1>1. TypeOK /\ IInv => UpIsFresh
  BY StartupAssumption, ThreeQueries, \A j \in 1..3 : j = 1 \/ j = 2 \/ j = 3
  DEF TypeOK, IInv, Ages, UpIsFresh, Chain
<1> QED
  BY <1>1, TypeCorrect, Invariant, PTL

\* No wait outlives the checker's timeout by more than one round.
THEOREM Timeliness == Spec => []ReturnsInTime
<1>1. IInv => ReturnsInTime
  BY DEF IInv, Paces, ReturnsInTime
<1> QED
  BY <1>1, Invariant, PTL

-----------------------------------------------------------------------------
\* The nodes of a prompt network.

Missing == {n \in Node : ~IsUp(n)}

\* The time it takes k nodes to start, one after the other.
Starting(k) == k * BootTime

NumUp == Cardinality(Node) - Cardinality(Missing)

\* As long as nodes are missing, one of them has been at it for as long as the nodes
\* that are up cannot account for.
Catching ==
    Missing # {} => \E n \in Missing : Ready(n) /\ waited <= Starting(NumUp) + ready[n]

\* The current node is up, and the poll under way does not know it yet.
Unnoticed ==
    LET late == waited - Starting(Cardinality(Node))
    IN  /\ pc = "reply" /\ ~said => late <= spent
        /\ pc = "pause" => late <= Request + spent
        /\ pc = "poll" => late <= Request + Pause

InTime == /\ pc \notin {"pick", "end"} => Catching /\ Unnoticed
          /\ \A n \in Node : outcome[n] # "timeout"

\* More nodes take longer, by the time each of them takes.
LEMMA Longer ==
    ASSUME NEW k \in Nat, NEW j \in Nat, k < j
    PROVE  /\ Starting(k) \in Nat /\ Starting(j) \in Nat
           /\ Starting(k) + BootTime <= Starting(j)
<1>1. BootTime \in Nat /\ k + 1 <= j
  BY StartupAssumption
<1>2. k * BootTime \in Nat /\ j * BootTime \in Nat
  BY <1>1
<1>3. PICK d \in Nat : j = k + 1 + d
  BY <1>1
<1>4. j * BootTime = k * BootTime + BootTime + d * BootTime /\ d * BootTime \in Nat
  BY <1>1, <1>3
<1> QED BY <1>1, <1>2, <1>4 DEF Starting

LEMMA Counted ==
    ASSUME NEW S, S \subseteq Node
    PROVE  /\ IsFiniteSet(S) /\ Cardinality(S) \in Nat /\ Cardinality(S) <= Cardinality(Node)
           /\ Cardinality(Node) \in Nat
           /\ S # {} => Cardinality(S) > 0
<1>1. IsFiniteSet(S) /\ Cardinality(S) <= Cardinality(Node)
  BY StartupAssumption, FS_Subset
<1>2. Cardinality(S) \in Nat /\ Cardinality(Node) \in Nat
  BY <1>1, StartupAssumption, FS_CardinalityType
<1> QED BY <1>1, <1>2, FS_EmptySet

\* Of the missing nodes one has all its bootstrappers up.
LEMMA SomeIsReady ==
    ASSUME Missing # {}
    PROVE  \E n \in Missing : Ready(n)
<1>1. PICK n \in Missing : Deps[n] \cap Missing = {}
  BY StartupAssumption DEF Missing
<1>2. Deps[n] \subseteq Node
  BY StartupAssumption DEF Missing
<1> QED BY <1>1, <1>2 DEF Missing, Ready

\* While the current node is missing, what all nodes take to start has not passed.
LEMMA NotYetLate ==
    ASSUME TypeOK, Catching, ~IsUp(current)
    PROVE  waited <= Starting(Cardinality(Node))
<1>1. current \in Missing
  BY DEF TypeOK, Missing
<1>2. PICK n \in Missing : waited <= Starting(NumUp) + ready[n]
  BY <1>1 DEF Catching
<1>3. ready[n] \in 0 .. BootTime
  BY DEF TypeOK, Missing
<1>4. NumUp \in Nat /\ NumUp < Cardinality(Node) /\ Cardinality(Node) \in Nat
  <2>1. Missing \subseteq Node
    BY DEF Missing
  <2> QED BY <1>1, <2>1, Counted DEF NumUp
<1>5. Starting(NumUp) \in Nat /\ Starting(NumUp) + BootTime <= Starting(Cardinality(Node))
      /\ Starting(Cardinality(Node)) \in Nat
  BY <1>4, Longer
<1> HIDE DEF NumUp, Missing
<1> QED BY <1>2, <1>3, <1>5, StartupAssumption DEF TypeOK

\* A step that leaves the nodes and the time of a wait alone.
LEMMA CatchingStays ==
    ASSUME UNCHANGED <<up, ready, waited>>
    PROVE  Catching' = Catching
BY DEF Catching, Missing, NumUp, Starting, Ready, IsUp

\* Time passes: every missing node that is ready gets on.
LEMMA CatchingTick ==
    ASSUME TypeOK, Catching, prompt, Tick
    PROVE  Catching'
<1>1. up' = up /\ waited' = waited + 1 /\ waited \in Nat
  BY DEF Tick, TypeOK
<1>2. Missing' = Missing /\ NumUp' = NumUp /\ \A n \in Node : Ready(n)' = Ready(n)
  BY <1>1 DEF Missing, NumUp, Ready, IsUp
<1>3. ASSUME Missing # {}
      PROVE  \E n \in Missing : Ready(n) /\ waited' <= Starting(NumUp) + ready'[n]
  <2>1. PICK n \in Missing : Ready(n) /\ waited <= Starting(NumUp) + ready[n]
    BY <1>3 DEF Catching
  <2>2. ready'[n] = ready[n] + 1 /\ ready[n] \in Nat
    BY <2>1, StartupAssumption DEF Tick, Missing, TypeOK
  <2>3. NumUp \in Nat /\ Starting(NumUp) \in Nat
    <3>1. Missing \subseteq Node
      BY DEF Missing
    <3>2. NumUp \in Nat
      BY <3>1, Counted DEF NumUp
    <3> HIDE DEF NumUp
    <3> QED BY <3>2, StartupAssumption DEF Starting
  <2> HIDE DEF NumUp, Missing
  <2> QED BY <1>1, <2>1, <2>2, <2>3
<1>4. \A n : Starting(NumUp)' = Starting(NumUp)
  BY <1>2 DEF Starting
<1> QED BY <1>2, <1>3, <1>4 DEF Catching, Missing

\* A node that starts leaves one node fewer to wait for, and at most its own time spent.
LEMMA CatchingBootstrap ==
    ASSUME TypeOK, Catching, NEW m \in Node, NEW c \in Chain, Bootstrap(m, c)
    PROVE  Catching'
<1>1. /\ UNCHANGED <<ready, waited>> /\ waited \in Nat /\ ready \in [Node -> 0 .. BootTime]
      /\ \A n \in Node \ {m} : up'[n] = up[n]
      /\ \A n \in Node : IsUp(n) => IsUp(n)'
      /\ m \in Missing
  BY DEF Bootstrap, checker, TypeOK, IsUp, Missing
<1>2. \A n \in Node : Ready(n) => Ready(n)'
  BY <1>1, StartupAssumption DEF Ready
<1>3. Missing' = Missing \/ Missing' = Missing \ {m}
  BY <1>1 DEF Missing, IsUp
<1>4. PICK n \in Missing : Ready(n) /\ waited <= Starting(NumUp) + ready[n]
  BY <1>1 DEF Catching
<1>5. CASE Missing' = Missing
  <2>1. NumUp' = NumUp /\ Starting(NumUp)' = Starting(NumUp)
    BY <1>5 DEF NumUp, Starting
  <2>2. n \in Missing' /\ Ready(n)' /\ waited' <= Starting(NumUp)' + ready'[n]
    BY <1>1, <1>2, <1>4, <1>5, <2>1 DEF Missing
  <2> QED BY <2>2 DEF Catching
<1>6. CASE Missing' = Missing \ {m}
  <2>1. /\ NumUp \in Nat /\ NumUp' \in Nat /\ NumUp' = NumUp + 1
    <3>1. Missing \subseteq Node
      BY DEF Missing
    <3>2. Cardinality(Missing') = Cardinality(Missing) - 1
      BY <1>1, <1>6, <3>1, Counted, FS_RemoveElement
    <3> QED BY <1>1, <3>1, <3>2, Counted DEF NumUp
  <2>2. /\ Starting(NumUp) \in Nat /\ Starting(NumUp') \in Nat
        /\ Starting(NumUp) + BootTime <= Starting(NumUp')
    <3> DEFINE a == NumUp
               b == NumUp'
    <3>1. a \in Nat /\ b \in Nat /\ a < b
      BY <2>1
    <3> HIDE DEF a, b
    <3>2. Starting(a) \in Nat /\ Starting(b) \in Nat /\ Starting(a) + BootTime <= Starting(b)
      BY <3>1, Longer
    <3> QED BY <3>2 DEF a, b
  <2>3. ready[n] \in Nat /\ ready[n] <= BootTime /\ BootTime \in Nat
    BY <1>1, StartupAssumption DEF Missing
  <2>4. waited <= Starting(NumUp')
    <3> HIDE DEF NumUp, Missing, Starting
    <3> QED BY <1>1, <1>4, <2>2, <2>3
  <2>5. ASSUME Missing' # {}
        PROVE  \E k \in Missing' : Ready(k)' /\ waited' <= Starting(NumUp)' + ready'[k]
    <3>1. PICK k \in Missing' : Ready(k)'
      <4>1. PICK k \in Missing' : Deps[k] \cap Missing' = {}
        BY <2>5, StartupAssumption DEF Missing
      <4>2. Deps[k] \subseteq Node
        BY StartupAssumption DEF Missing
      <4> QED BY <4>1, <4>2 DEF Missing, Ready
    <3>2. ready'[k] \in Nat
      BY <1>1, StartupAssumption DEF Missing
    <3>3. Starting(NumUp)' = Starting(NumUp')
      BY DEF Starting
    <3>4. waited' <= Starting(NumUp)' + ready'[k]
      <4> HIDE DEF NumUp, Missing, Starting
      <4> QED BY <1>1, <2>2, <2>4, <3>2, <3>3
    <3> QED BY <3>1, <3>4
  <2> QED BY <2>5 DEF Catching
<1> QED BY <1>3, <1>5, <1>6

\* A poll never begins too late.
LEMMA NoTimeout ==
    ASSUME TypeOK, InTime, pc = "poll"
    PROVE  waited < GetTimeout
BY StartupAssumption, Counted DEF InTime, Unnoticed, GetTimeout, Starting, TypeOK

\* The inductive step of InTime, one action at a time.
LEMMA InTimeStep ==
    ASSUME TypeOK, IInv, InTime, prompt, [Next]_vars
    PROVE  InTime'
<1> DEFINE all == Starting(Cardinality(Node))
<1>1. all \in Nat /\ all' = all
  BY StartupAssumption, Counted DEF Starting
<1>2. waited \in Nat /\ spent \in Nat /\ Request \in Nat /\ Pause \in Nat /\ Request > 0
  BY StartupAssumption DEF TypeOK
<1> USE DEF nodes, checker
<1>3. CASE \E n \in Node : WaitForStartup(n) /\ UNCHANGED <<prompt, nodes>>
  <2>1. pc' = "poll" /\ waited' = 0 /\ UNCHANGED <<up, ready, outcome>>
    BY <1>3 DEF WaitForStartup
  <2>2. Unnoticed'
    BY <1>1, <1>2, <2>1 DEF Unnoticed
  <2>3. Missing' = Missing /\ NumUp' = NumUp /\ \A n \in Node : Ready(n)' = Ready(n)
    BY <2>1 DEF Missing, NumUp, Ready, IsUp
  <2>4. NumUp \in Nat /\ Starting(NumUp) \in Nat
    <3>1. Missing \subseteq Node
      BY DEF Missing
    <3>2. NumUp \in Nat
      BY <3>1, Counted DEF NumUp
    <3> HIDE DEF NumUp
    <3> QED BY <3>2, StartupAssumption DEF Starting
  <2>5. \A n \in Missing : ready[n] \in Nat
    BY StartupAssumption DEF Missing, TypeOK
  <2>6. Catching'
    <3> HIDE DEF Missing, NumUp
    <3> SUFFICES ASSUME Missing' # {}
                 PROVE  \E n \in Missing' : Ready(n)' /\ waited' <= Starting(NumUp)' + ready'[n]
      BY DEF Catching
    <3>1. PICK n \in Missing : Ready(n)
      BY <2>3, SomeIsReady
    <3>2. Ready(n)' /\ n \in Missing'
      BY <2>3, <3>1 DEF Missing
    <3>3. Starting(NumUp)' = Starting(NumUp)
      BY <2>3 DEF Starting
    <3>4. waited' <= Starting(NumUp)' + ready'[n]
      BY <2>1, <2>4, <2>5, <3>1, <3>3
    <3> QED BY <3>2, <3>4
  <2> QED BY <2>1, <2>2, <2>6 DEF InTime
<1>4. CASE IsServiceUp /\ UNCHANGED <<prompt, nodes>>
  <2>1. pc = "poll" /\ pc' = "ask" /\ UNCHANGED <<up, ready, waited, outcome>>
    BY <1>4 DEF IsServiceUp
  <2> QED BY <2>1, CatchingStays DEF InTime, Unnoticed
<1>5. CASE TimesOut /\ UNCHANGED <<prompt, nodes>>
  BY <1>2, <1>5, NoTimeout, StartupAssumption DEF TimesOut, GetTimeout
<1>6. CASE Answer /\ UNCHANGED <<prompt, nodes>>
  <2>1. /\ pc = "ask" /\ pc' = "reply" /\ said' = (Query[query] \in up[current])
        /\ UNCHANGED <<up, ready, waited, spent, outcome>>
    BY <1>6 DEF Answer
  <2>2. Catching /\ Catching'
    BY <2>1, CatchingStays DEF InTime
  <2>3. ~said' => waited <= all
    <3>1. ~said' => ~IsUp(current)
      BY <2>1, ThreeQueries DEF IsUp, TypeOK
    <3> QED BY <2>2, <3>1, NotYetLate
  <2>4. Unnoticed'
    <3> HIDE DEF all
    <3>1. ~said' => waited - all <= spent
      BY <1>1, <1>2, <2>3
    <3> QED BY <2>1, <3>1 DEF Unnoticed, all
  <2> QED BY <2>1, <2>2, <2>4 DEF InTime
<1>7. CASE Bootstrapped /\ UNCHANGED <<prompt, nodes>>
  <2>1. pc = "reply" /\ pc' \in {"ask", "settle"} /\ UNCHANGED <<up, ready, waited, outcome>>
    BY <1>7 DEF Bootstrapped
  <2> QED BY <2>1, CatchingStays DEF InTime, Unnoticed
<1>8. CASE NotBootstrapped /\ UNCHANGED <<prompt, nodes>>
  <2>1. /\ pc = "reply" /\ ~said /\ pc' = "pause" /\ spent' = 0
        /\ UNCHANGED <<up, ready, waited, outcome>>
    BY <1>8 DEF NotBootstrapped, No
  <2>2. spent <= Request /\ waited - all <= spent
    BY <2>1 DEF IInv, Paces, InTime, Unnoticed
  <2>3. Unnoticed'
    <3> HIDE DEF all
    <3>1. waited - all <= Request + 0
      BY <1>1, <1>2, <2>2
    <3> QED BY <2>1, <3>1 DEF Unnoticed, all
  <2> QED BY <2>1, <2>3, CatchingStays DEF InTime
<1>9. CASE ServiceUp /\ UNCHANGED <<prompt, nodes>>
  BY <1>9 DEF ServiceUp, InTime, TypeOK
<1>10. CASE PollAgain /\ UNCHANGED <<prompt, nodes>>
  <2>1. /\ pc = "pause" /\ pc' = "poll" /\ spent = Pause
        /\ UNCHANGED <<up, ready, waited, outcome>>
    BY <1>10 DEF PollAgain
  <2> QED BY <2>1, CatchingStays DEF InTime, Unnoticed
<1>11. CASE \E n \in Node, c \in Chain : Bootstrap(n, c)
  <2>1. UNCHANGED <<pc, said, waited, spent, outcome>>
    BY <1>11 DEF Bootstrap
  <2>2. pc \notin {"pick", "end"} => Catching'
    BY <1>11, CatchingBootstrap DEF InTime
  <2>3. Unnoticed' = Unnoticed
    BY <2>1 DEF Unnoticed, Starting
  <2> QED BY <2>1, <2>2, <2>3 DEF InTime
<1>12. CASE Tick
  <2>1. /\ pc \in {"ask", "reply", "settle", "pause"} /\ spent' = spent + 1
        /\ waited' = waited + 1 /\ UNCHANGED <<pc, said, outcome>>
    BY <1>12 DEF Tick
  <2>2. Catching'
    BY <1>12, <2>1, CatchingTick DEF InTime
  <2>3. Unnoticed'
    <3> HIDE DEF all
    <3>1. \A x \in Nat : waited - all <= x + spent => (waited + 1) - all <= x + (spent + 1)
      BY <1>1, <1>2
    <3>2. waited - all <= spent => (waited + 1) - all <= spent + 1
      BY <1>1, <1>2
    <3> QED BY <1>2, <2>1, <3>1, <3>2 DEF InTime, Unnoticed, all
  <2> QED BY <2>1, <2>2, <2>3 DEF InTime
<1>13. CASE Ended \/ UNCHANGED vars
  <2>1. UNCHANGED <<up, ready, waited, pc, said, spent, outcome>>
    BY <1>13 DEF Ended, vars
  <2> QED BY <2>1, CatchingStays DEF InTime, Unnoticed, Starting
<1> QED
  BY <1>3, <1>4, <1>5, <1>6, <1>7, <1>8, <1>9, <1>10, <1>11, <1>12, <1>13 DEF Next, Checker

\* The nodes of a prompt network all start, in whatever order they are waited for and
\* whoever their bootstrappers are.
THEOREM PromptStarts == Spec => []PromptStartsUp
<1>1. Init => (prompt => InTime)
  BY DEF Init, InTime
<1>2. TypeOK /\ IInv /\ (prompt => InTime) /\ [Next]_vars => (prompt => InTime)'
  <2>1. [Next]_vars => prompt' = prompt
    BY DEF Next, Bootstrap, Tick, Ended, vars
  <2> QED BY <2>1, InTimeStep
<1>3. (prompt => InTime) => PromptStartsUp
  BY DEF InTime, PromptStartsUp
<1> QED BY <1>1, <1>2, <1>3, TypeCorrect, Invariant, PTL DEF Spec
=============================================================================
