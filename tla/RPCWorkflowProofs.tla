------------------------- MODULE RPCWorkflowProofs --------------------------
(***************************************************************************)
(* What holds of RPCWorkflow for any tests, nodes, amounts and durations,  *)
(* as long as the scripts are as its assumptions say.  Everything follows  *)
(* from one invariant: each view's balances are the endowment and what the *)
(* transactions it has accepted have moved, so that two views agree on an  *)
(* account exactly where they have accepted the same of its transactions.  *)
(***************************************************************************)
EXTENDS RPCWorkflow, WellFoundedInduction, TLAPS

-----------------------------------------------------------------------------
(* How the sum of an integer function on 1..n changes with the function.   *)
(* What holds of every prefix is proved by looking at the least one that   *)
(* violates it.                                                            *)

PartialSums(d, n) == LET s[k \in 0..n] == IF k = 0 THEN 0 ELSE s[k - 1] + d[k] IN s
SumTo(d, n) == PartialSums(d, n)[n]

\* What the sums of the first k values of d are, for k in 0..n.
IsPartialSums(s, d, n) ==
    /\ s \in [0..n -> Int]
    /\ s[0] = 0
    /\ \A k \in 1..n : s[k] = s[k - 1] + d[k]

\* A non-empty set of natural numbers has a least element.
LEMMA LeastNumber ==
  ASSUME NEW T \in SUBSET Nat, T # {}
  PROVE  \E m \in T : \A k \in T : m <= k
<1> DEFINE R == {p \in Nat \X Nat : p[1] < p[2]}
<1>2. IsWellFoundedOn(R, Nat)
  BY NatLessThanWellFounded DEF OpToRel
<1>3. PICK m \in T : \A k \in T : <<k, m>> \notin R
  <2> HIDE DEF R
  <2> QED
    BY <1>2, WFMin
<1>4. ASSUME NEW k \in T PROVE m <= k
  <2>1. ~(k < m)
    BY <1>3
  <2> QED
    BY <2>1
<1> QED
  BY <1>4

\* The recursive definition of the partial sums has what it asks for, for every integer function.
LEMMA PartialSumsExist ==
  ASSUME NEW n \in Nat, NEW d \in [1..n -> Int]
  PROVE  IsPartialSums(PartialSums(d, n), d, n)
<1> DEFINE T == {m \in 0..n : ~ \E s : IsPartialSums(s, d, m)}
<1>1. ASSUME T = {} PROVE IsPartialSums(PartialSums(d, n), d, n)
  <2>1. n \in 0..n
    OBVIOUS
  <2>2. PICK s : IsPartialSums(s, d, n)
    BY <1>1, <2>1
  <2> DEFINE Unfolds(f) == f = [k \in 0..n |-> IF k = 0 THEN 0 ELSE f[k - 1] + d[k]]
  <2>3. Unfolds(s)
    BY <2>2 DEF IsPartialSums
  <2>4. PartialSums(d, n) = CHOOSE f : Unfolds(f)
    BY DEF PartialSums
  <2>5. Unfolds(PartialSums(d, n))
    <3> HIDE DEF Unfolds
    <3> QED
      BY <2>3, <2>4
  <2>6. ASSUME NEW f, Unfolds(f) PROVE IsPartialSums(f, d, n)
    <3>1. \A k \in 0..n : f[k] = IF k = 0 THEN 0 ELSE f[k - 1] + d[k]
      BY <2>6
    <3> DEFINE B == {k \in 0..n : f[k] # s[k]}
    <3>2. ASSUME B # {} PROVE FALSE
      <4>1. PICK k \in B : \A j \in B : k <= j
        <5>1. B \in SUBSET Nat
          OBVIOUS
        <5> HIDE DEF B
        <5> QED
          BY <3>2, <5>1, LeastNumber
      <4>2. k # 0
        BY <2>2, <3>1, <4>1 DEF IsPartialSums
      <4>3. f[k - 1] = s[k - 1]
        BY <4>1, <4>2
      <4> QED
        BY <2>2, <3>1, <4>1, <4>2, <4>3 DEF IsPartialSums
    <3>3. \A k \in 0..n : f[k] = s[k]
      BY <3>2
    <3> QED
      BY <2>2, <2>6, <3>3 DEF IsPartialSums
  <2> QED
    BY <2>5, <2>6
<1>2. SUFFICES ASSUME T # {} PROVE FALSE
  BY <1>1
<1>3. PICK m \in T : \A k \in T : m <= k
  <2>1. T \in SUBSET Nat
    OBVIOUS
  <2> HIDE DEF T
  <2> QED
    BY <1>2, <2>1, LeastNumber
<1>4. CASE m = 0
  <2>1. IsPartialSums([k \in 0..0 |-> 0], d, 0)
    BY DEF IsPartialSums
  <2> QED
    BY <1>3, <1>4, <2>1
<1>5. CASE m # 0
  <2>1. m - 1 \in 0..n /\ m - 1 \notin T
    BY <1>3, <1>5
  <2>2. PICK s : IsPartialSums(s, d, m - 1)
    BY <2>1
  <2> DEFINE e == [k \in 0..m |-> IF k = m THEN s[m - 1] + d[m] ELSE s[k]]
  <2>3. IsPartialSums(e, d, m)
    <3>1. m \in 1..n
      BY <1>5
    <3>2. s \in [0..(m - 1) -> Int] /\ s[0] = 0
      BY <2>2 DEF IsPartialSums
    <3>3. e \in [0..m -> Int] /\ e[0] = 0
      BY <3>1, <3>2
    <3>4. ASSUME NEW k \in 1..m PROVE e[k] = e[k - 1] + d[k]
      BY <2>2, <3>1, <3>2 DEF IsPartialSums
    <3> QED
      BY <3>3, <3>4 DEF IsPartialSums
  <2> QED
    BY <1>3, <2>3
<1> QED
  BY <1>4, <1>5

\* The sum of an integer function is an integer.
LEMMA SumIsInt ==
  ASSUME NEW n \in Nat, NEW d \in [1..n -> Int]
  PROVE  SumTo(d, n) \in Int
BY PartialSumsExist DEF IsPartialSums, SumTo

\* A function that is nowhere less has no smaller sum.
LEMMA SumMonotone ==
  ASSUME NEW n \in Nat, NEW d \in [1..n -> Int], NEW e \in [1..n -> Int],
         \A k \in 1..n : d[k] <= e[k]
  PROVE  SumTo(d, n) <= SumTo(e, n)
<1> DEFINE s == PartialSums(d, n)
           t == PartialSums(e, n)
           T == {m \in 0..n : ~(s[m] <= t[m])}
<1>1. IsPartialSums(s, d, n) /\ IsPartialSums(t, e, n)
  BY PartialSumsExist
<1>2. SUFFICES ASSUME n \in T PROVE FALSE
  BY DEF SumTo
<1>3. T \in SUBSET Nat /\ T # {}
  BY <1>2
<1>4. PICK m \in T : \A k \in T : m <= k
  <2> HIDE DEF T
  <2> QED
    BY <1>3, LeastNumber
<1> HIDE DEF s, t
<1>5. m # 0
  BY <1>1, <1>4 DEF IsPartialSums
<1>6. s[m - 1] <= t[m - 1]
  BY <1>4, <1>5
<1>7. m \in 1..n /\ m - 1 \in 0..n
  BY <1>5
<1>8. /\ s[m] = s[m - 1] + d[m] /\ s[m - 1] \in Int /\ d[m] \in Int
      /\ t[m] = t[m - 1] + e[m] /\ t[m - 1] \in Int /\ e[m] \in Int
  BY <1>1, <1>7 DEF IsPartialSums
<1> QED
  BY <1>4, <1>6, <1>7, <1>8

\* The sum of a function that is zero everywhere.
LEMMA SumOfZeros ==
  ASSUME NEW n \in Nat, NEW d \in [1..n -> Int], \A k \in 1..n : d[k] = 0
  PROVE  SumTo(d, n) = 0
<1> DEFINE s == PartialSums(d, n)
           T == {m \in 0..n : s[m] # 0}
<1>1. IsPartialSums(s, d, n)
  BY PartialSumsExist
<1>2. SUFFICES ASSUME n \in T PROVE FALSE
  BY DEF SumTo
<1>3. T \in SUBSET Nat /\ T # {}
  BY <1>2
<1>4. PICK m \in T : \A k \in T : m <= k
  <2> HIDE DEF T
  <2> QED
    BY <1>3, LeastNumber
<1> HIDE DEF s
<1>5. m # 0
  BY <1>1, <1>4 DEF IsPartialSums
<1>6. s[m - 1] = 0
  BY <1>4, <1>5
<1> QED
  BY <1>1, <1>4, <1>5, <1>6 DEF IsPartialSums

\* A change of the function at one place changes the sum by as much.
LEMMA SumChange ==
  ASSUME NEW n \in Nat, NEW d \in [1..n -> Int], NEW e \in [1..n -> Int], NEW j \in 1..n,
         \A k \in 1..n \ {j} : d[k] = e[k]
  PROVE  SumTo(e, n) = SumTo(d, n) + (e[j] - d[j])
<1> DEFINE s == PartialSums(d, n)
           t == PartialSums(e, n)
           T == {m \in 0..n : t[m] # s[m] + (IF m < j THEN 0 ELSE e[j] - d[j])}
<1>1. IsPartialSums(s, d, n) /\ IsPartialSums(t, e, n)
  BY PartialSumsExist
<1>2. SUFFICES ASSUME n \in T PROVE FALSE
  BY DEF SumTo
<1>3. T \in SUBSET Nat /\ T # {}
  BY <1>2
<1>4. PICK m \in T : \A k \in T : m <= k
  <2> HIDE DEF T
  <2> QED
    BY <1>3, LeastNumber
<1> HIDE DEF s, t
<1>5. m # 0
  BY <1>1, <1>4 DEF IsPartialSums
<1>6. t[m - 1] = s[m - 1] + (IF m - 1 < j THEN 0 ELSE e[j] - d[j])
  BY <1>4, <1>5
<1>7. m \in 1..n /\ m - 1 \in 0..n
  BY <1>5
<1>8. /\ s[m] = s[m - 1] + d[m] /\ s[m - 1] \in Int /\ d[m] \in Int
      /\ t[m] = t[m - 1] + e[m] /\ t[m - 1] \in Int /\ e[m] \in Int
  BY <1>1, <1>7 DEF IsPartialSums
<1>9. CASE m < j
  BY <1>4, <1>6, <1>7, <1>8, <1>9
<1>10. CASE m = j
  BY <1>4, <1>6, <1>7, <1>8, <1>10
<1>11. CASE m > j
  <2>1. d[m] = e[m] /\ d[j] \in Int /\ e[j] \in Int
    BY <1>7, <1>11
  <2> QED
    BY <1>4, <1>6, <1>7, <1>8, <1>11, <2>1
<1> QED
  BY <1>7, <1>9, <1>10, <1>11

-----------------------------------------------------------------------------
(* The invariant.                                                          *)

\* Transactions are accepted, at a node not before the network, once issued.
Issued ==
    /\ phase # "ready" => pc \in Step /\ op.kind \in TxKinds
    /\ phase = "sleep" => op.kind \in StakeKinds /\ pc \in accepted[op.at]
    /\ \A t \in Step : t > pc \/ (t = pc /\ phase = "ready") => amount[t] = 0
    /\ \A n \in View : \A t \in accepted[n] :
          /\ Script[t].kind \in TxKinds /\ amount[t] > 0 /\ t <= pc
          /\ t \in accepted["net"]
    /\ \A n \in Node : active[n] \subseteq accepted[n]
    /\ verdict = "pass" => pc = Len(Script) + 1
    /\ phase = "ready" => clock = 0

\* The node of an operation that has returned has accepted its transaction.
Known == \A t \in Step : t < pc /\ Script[t].kind \in TxKinds => t \in accepted[Script[t].at]

\* What the transactions in X have brought account a, each.
Brought(X, a) ==
    [t \in 1..Len(Script) |->
        IF t \in X THEN (IF Script[t].to = a THEN amount[t] ELSE 0)
                        - (IF Script[t].from = a THEN amount[t] ELSE 0)
        ELSE 0]

Balances ==
    \A n \in View, a \in Account :
        ledger[n][a] = Endowment[a] + SumTo(Brought(accepted[n], a), Len(Script))

\* The transactions a node has not learned yet.
Pending(n) == accepted["net"] \ accepted[n]

\* The transaction in flight can be paid for, in its node's view and in the network's.
Payable ==
    phase = "await" /\ amount[pc] > 0 /\ pc \notin accepted["net"] =>
        /\ ~stale => /\ ledger[op.at][op.from] >= amount[pc]
                     /\ \A t \in Pending(op.at) : Script[t].from # op.from
        /\ op.kind \in ImportKinds => amount[pc] = ledger["net"][op.from]
        /\ op.kind \notin ImportKinds => amount[pc] = op.amount

\* A node accepts the P-Chain's transactions in their order.
InPOrder ==
    \A n \in View : \A u \in accepted["net"], t \in accepted[n] :
        u < t /\ Script[u].kind \in PKinds /\ Script[t].kind \in PKinds => u \in accepted[n]

\* What has been staked stays.
Staked == \A n \in View : \A t \in accepted[n] :
    Script[t].kind \in StakeKinds => ledger[n][Script[t].to] > 0

\* A node whose balance has revealed a transaction has accepted it.
Shown ==
    \A c \in Step, t \in Step :
        c < pc /\ Reveals(Script, c, t) => t \in accepted[Script[c].at]

\* On a prompt network every node knows what was decided before a staking period
\* that has begun, and nothing conflicts.
Synced ==
    Prompt =>
        /\ ~stale
        /\ phase # "sleep" => clock <= AcceptLag
        /\ phase = "sleep" /\ clock > StakingDelay + PromoteLag =>
              \A n \in TestNode : CaughtUp(n) /\ pc \in active[n]
        /\ \A s \in Step : s < pc /\ Script[s].kind \in StakeKinds =>
              \A n \in TestNode :
                 /\ s \in active[n]
                 /\ \A t \in accepted["net"] : t <= s => t \in accepted[n]

Invariant ==
    /\ TypeOK /\ Issued /\ Known /\ Balances /\ Payable /\ InPOrder /\ Staked
    /\ Shown /\ Synced

-----------------------------------------------------------------------------
(* What the script and the nodes are like.                                 *)

\* The operations of a script, by its assumption, and the views of its nodes.
LEMMA Scripted ==
  ASSUME TypeOK
  PROVE  /\ Len(Script) \in Nat /\ Step = 1..Len(Script)
         /\ \A t \in Step :
               /\ Script[t].kind \in TxKinds \cup CheckKinds \cup {"call"}
               /\ Script[t].at \in TestNode
               /\ Script[t].from \in Account /\ Script[t].to \in Account
               /\ Script[t].amount \in Nat
         /\ TestNode \subseteq Node
         /\ Node \subseteq View /\ "net" \in View /\ "net" \notin Node
<1> DEFINE Operation == [kind : TxKinds \cup CheckKinds \cup {"call"}, at : Node,
                         from : Account, to : Account, amount : Nat]
<1>1. Script \in Seq(Operation)
  BY RPCWorkflowAssumption DEF TypeOK
<1> HIDE DEF Operation
<1>2. Len(Script) \in Nat /\ Step = 1..Len(Script) /\ \A t \in Step : Script[t] \in Operation
  BY <1>1 DEF Step
<1> QED
  BY <1>2, RPCWorkflowAssumption DEF Operation, TestNode, View

-----------------------------------------------------------------------------
(* What a step of the system can be.                                       *)

\* The operation under way returns nil.
Returns ==
    /\ Running /\ Advance /\ UNCHANGED <<instance, network>>
    /\ \/ /\ phase = "ready" /\ op.kind \notin TxKinds
          /\ op.kind \in CheckKinds => CheckHolds(op.at)
       \/ phase = "await" /\ op.kind \notin StakeKinds /\ pc \in accepted[op.at]
       \/ phase = "sleep" /\ clock >= StakingDelay + SyncDelay

\* The operation under way goes on without a change of what is accepted or active.
GoesOn ==
    /\ Running /\ UNCHANGED <<instance, pc, verdict, accepted, ledger, active>>
    /\ \/ Issue
       \/ ImportErrorDropped
       \/ /\ phase = "await" /\ op.kind \in StakeKinds /\ pc \in accepted[op.at]
          /\ phase' = "sleep" /\ UNCHANGED <<clock, amount, stale, network>>
       \/ Refuse
       \/ Tick

\* A view accepts a transaction: the network the one under way, or a node one it has
\* not learned yet.
Accepts(n, t) ==
    /\ Running /\ UNCHANGED instance /\ Accept(n, t)
    /\ \/ n = "net" /\ t = pc /\ Settle
       \/ n \in TestNode /\ t \in Step /\ Learn(n, t)

Fails ==
    /\ Running /\ Fail /\ UNCHANGED <<instance, network>>
    /\ \/ IssueFails \/ AwaitUnknown \/ AwaitRejected \/ AwaitTimesOut
       \/ CheckFails \/ RequestFails

\* Every step is one of these.
LEMMA StepKinds ==
  ASSUME TypeOK, [Next]_vars
  PROVE  \/ Returns \/ Fails \/ GoesOn
         \/ \E n \in View, t \in Step : Accepts(n, t)
         \/ \E n \in TestNode, t \in Step : Promote(n, t) /\ UNCHANGED instance
         \/ UNCHANGED vars
<1>1. CASE UNCHANGED vars
  BY <1>1
<1>2. CASE Runner /\ UNCHANGED instance
  <2> SUFFICES Returns \/ Fails \/ GoesOn
    OBVIOUS
  <2>1. CASE CallReturns
    BY <1>2, <2>1 DEF CallReturns, Returns, TxKinds, XKinds, PKinds, CheckKinds
  <2>2. CASE Issue
    BY <1>2, <2>2 DEF Issue, GoesOn
  <2>3. CASE IssueFails
    BY <1>2, <2>3 DEF IssueFails, CannotIssue, Fails
  <2>4. CASE ImportErrorDropped
    BY <1>2, <2>4 DEF ImportErrorDropped, CannotIssue, GoesOn, network
  <2>5. CASE AwaitUnknown
    BY <1>2, <2>5 DEF AwaitUnknown, Fails
  <2>6. CASE AwaitOk
    BY <1>2, <2>6 DEF AwaitOk, Returns, GoesOn, network
  <2>7. CASE AwaitRejected \/ AwaitTimesOut
    BY <1>2, <2>7 DEF AwaitRejected, AwaitTimesOut, Fails
  <2>8. CASE Wake
    BY <1>2, <2>8 DEF Wake, Returns
  <2>9. CASE CheckPasses
    BY <1>2, <2>9 DEF CheckPasses, Returns, TxKinds, XKinds, PKinds, CheckKinds
  <2>10. CASE CheckFails
    BY <1>2, <2>10 DEF CheckFails, Fails
  <2>11. CASE RequestFails
    BY <1>2, <2>11 DEF RequestFails, Fails
  <2> QED
    BY <1>2, <2>1, <2>2, <2>3, <2>4, <2>5, <2>6, <2>7, <2>8, <2>9, <2>10, <2>11 DEF Runner
<1>3. CASE Settle /\ UNCHANGED instance
  <2>1. Running /\ "net" \in View /\ pc \in Step
    BY <1>3 DEF Settle, InFlight, Running, View
  <2>2. Accepts("net", pc)
    BY <1>3, <2>1 DEF Accepts, Settle
  <2> QED
    BY <2>1, <2>2
<1>4. CASE Refuse /\ UNCHANGED instance
  BY <1>4 DEF Refuse, InFlight, GoesOn, runner
<1>5. ASSUME NEW n \in TestNode, NEW t \in Step, Learn(n, t), UNCHANGED instance
      PROVE  Accepts(n, t)
  BY <1>5 DEF Learn, Accepts
<1>6. CASE Tick /\ UNCHANGED instance
  BY <1>6 DEF Tick, GoesOn, network
<1>7. CASE Terminated
  BY <1>7 DEF Terminated
<1>8. TestNode \subseteq View
  BY Scripted
<1> QED
  BY <1>1, <1>2, <1>3, <1>4, <1>5, <1>6, <1>7, <1>8 DEF Next, Network

-----------------------------------------------------------------------------
(* Balances.                                                               *)

\* What a set of transactions has brought an account is a function to sum over.
LEMMA BroughtType ==
  ASSUME TypeOK, NEW X, NEW a
  PROVE  Brought(X, a) \in [1..Len(Script) -> Int]
<1>1. \A t \in 1..Len(Script) : amount[t] \in Int
  BY Scripted DEF TypeOK
<1> QED
  BY <1>1 DEF Brought

\* A transaction takes its amount from one account and gives it to another.
LEMMA Moved ==
  ASSUME TypeOK, NEW b \in [Account -> Nat], NEW t \in Step, NEW a \in Account
  PROVE  Move(b, t)[a] = b[a] + (IF Script[t].to = a THEN amount[t] ELSE 0)
                              - (IF Script[t].from = a THEN amount[t] ELSE 0)
<1>1. Script[t].from \in Account /\ Script[t].to \in Account /\ amount[t] \in Nat
  BY Scripted DEF TypeOK
<1> DEFINE c == [b EXCEPT ![Script[t].from] = @ - amount[t]]
<1>2. c \in [Account -> Int]
      /\ c[a] = b[a] - (IF Script[t].from = a THEN amount[t] ELSE 0)
  BY <1>1
<1>3. Move(b, t) = [c EXCEPT ![Script[t].to] = @ + amount[t]]
  BY <1>1 DEF Move, Transfer
<1>4. Move(b, t)[a] = c[a] + (IF Script[t].to = a THEN amount[t] ELSE 0)
  <2> HIDE DEF c
  <2> QED
    BY <1>1, <1>2, <1>3
<1> QED
  BY <1>1, <1>2, <1>4

\* The network has less on an account than a node only if the node has not learned a
\* transaction that spends it, and more only if it has not learned one that pays it.
LEMMA PendingMoves ==
  ASSUME Invariant, NEW n \in Node, NEW a \in Account
  PROVE  /\ (\A t \in Pending(n) : Script[t].from # a) => ledger[n][a] <= ledger["net"][a]
         /\ (\A t \in Pending(n) : Script[t].to # a) => ledger["net"][a] <= ledger[n][a]
<1> DEFINE d == Brought(accepted[n], a)
           e == Brought(accepted["net"], a)
<1>1. TypeOK /\ n \in View /\ "net" \in View /\ Len(Script) \in Nat
  BY Scripted DEF Invariant
<1>2. d \in [1..Len(Script) -> Int] /\ e \in [1..Len(Script) -> Int]
  BY <1>1, BroughtType
<1>3. ASSUME NEW t \in 1..Len(Script)
      PROVE  /\ (\A u \in Pending(n) : Script[u].from # a) => d[t] <= e[t]
             /\ (\A u \in Pending(n) : Script[u].to # a) => e[t] <= d[t]
  <2>1. amount[t] \in Nat
    BY <1>1, Scripted DEF TypeOK
  <2>2. t \in accepted[n] => t \in accepted["net"]
    BY <1>1 DEF Invariant, Issued
  <2> QED
    BY <2>1, <2>2 DEF Brought, Pending
<1>4. /\ (\A t \in Pending(n) : Script[t].from # a) =>
             SumTo(d, Len(Script)) <= SumTo(e, Len(Script))
      /\ (\A t \in Pending(n) : Script[t].to # a) =>
             SumTo(e, Len(Script)) <= SumTo(d, Len(Script))
  <2> HIDE DEF d, e
  <2> QED
    BY <1>1, <1>2, <1>3, SumMonotone
<1>5. SumTo(d, Len(Script)) \in Int /\ SumTo(e, Len(Script)) \in Int
  BY <1>1, <1>2, SumIsInt
<1>6. /\ ledger[n][a] = Endowment[a] + SumTo(d, Len(Script))
      /\ ledger["net"][a] = Endowment[a] + SumTo(e, Len(Script))
  BY <1>1 DEF Invariant, Balances
<1>7. Endowment[a] \in Int
  BY RPCWorkflowAssumption DEF Endowment
<1> HIDE DEF d, e
<1> QED
  BY <1>4, <1>5, <1>6, <1>7

\* Two views agree on an account where they have accepted the same of its transactions.
LEMMA SameTransactionsSameBalance ==
  ASSUME Invariant, NEW n \in View, NEW a \in Account,
         \A t \in Pending(n) : a \notin {Script[t].from, Script[t].to}
  PROVE  ledger[n][a] = ledger["net"][a]
<1>1. /\ TypeOK /\ "net" \in View /\ Len(Script) \in Nat
      /\ accepted[n] \subseteq accepted["net"]
  BY Scripted DEF Invariant, Issued
<1>2. Brought(accepted[n], a) = Brought(accepted["net"], a)
  BY <1>1 DEF Brought, Pending
<1> QED
  BY <1>1, <1>2 DEF Invariant, Balances

\* The network can pay for what the node of a transaction thought it could, unless the
\* transaction conflicts.
LEMMA NetworkPays ==
  ASSUME Invariant, Running, phase = "await", amount[pc] > 0, pc \notin accepted["net"], ~stale
  PROVE  ledger["net"][op.from] >= amount[pc]
<1>1. TypeOK /\ op.at \in Node /\ op.from \in Account /\ pc \in Step
  BY Scripted DEF Invariant, Running, op
<1>2. ledger[op.at][op.from] <= ledger["net"][op.from]
  BY <1>1, PendingMoves DEF Invariant, Payable
<1>3. /\ ledger[op.at][op.from] >= amount[pc] /\ amount[pc] \in Nat
      /\ ledger[op.at][op.from] \in Nat /\ ledger["net"][op.from] \in Nat
  BY <1>1, Scripted DEF Invariant, Payable, TypeOK
<1> QED
  BY <1>2, <1>3

\* A view that accepts a transaction can pay for it.
LEMMA Covered ==
  ASSUME Invariant, NEW n \in View, NEW t \in Step, Accepts(n, t)
  PROVE  /\ ledger[n][Script[t].from] >= amount[t] /\ amount[t] > 0
         /\ t \notin accepted[n] /\ t <= pc /\ Script[t].kind \in TxKinds
         /\ t = pc => phase # "ready"
<1>1. CASE n = "net" /\ t = pc /\ Settle
  BY <1>1, NetworkPays DEF Settle, InFlight, op, Invariant, Issued, TypeOK
<1>2. CASE n \in TestNode /\ t \in Step /\ Learn(n, t)
  <2>1. t \in accepted["net"] /\ "net" \in View /\ TypeOK
    BY <1>2, Scripted DEF Learn, Invariant
  <2>2. amount[t] \in Nat /\ pc \in Nat
    BY <2>1 DEF TypeOK
  <2> QED
    BY <1>2, <2>1, <2>2 DEF Learn, Invariant, Issued
<1> QED
  BY <1>1, <1>2 DEF Accepts

-----------------------------------------------------------------------------
(* The invariant is inductive.  One lemma for each of its parts.           *)

LEMMA TypeStep ==
  ASSUME Invariant, [Next]_vars
  PROVE  TypeOK'
<1>1. /\ TypeOK /\ Len(Script) \in Nat /\ Step = 1..Len(Script)
      /\ Node \subseteq View /\ TestNode \subseteq Node
  BY Scripted DEF Invariant
<1> USE <1>1 DEF TypeOK, instance, Running, Step
<1>2. CASE Returns
  <2>1. pc + 1 \in 1..(Len(Script) + 1)
    BY <1>2 DEF Returns
  <2> QED
    BY <1>2, <2>1 DEF Returns, Advance, network
<1>3. CASE Fails
  BY <1>3 DEF Fails, Fail, network
<1>4. CASE GoesOn
  <2>1. CASE Issue
    <3>1. Spend \in Nat /\ Conflicts \in BOOLEAN
      BY <2>1, Scripted DEF Issue, Spend, Conflicts, op
    <3> QED
      BY <1>4, <2>1, <3>1 DEF GoesOn, Issue
  <2>2. CASE ImportErrorDropped
    BY <1>4, <2>2 DEF GoesOn, ImportErrorDropped, network
  <2>3. CASE phase' = "sleep" /\ UNCHANGED <<clock, amount, stale, network>>
    BY <1>4, <2>3 DEF GoesOn, network
  <2>4. CASE Refuse
    BY <1>4, <2>4 DEF GoesOn, Refuse, runner
  <2>5. CASE Tick
    BY <1>4, <2>5 DEF GoesOn, Tick, network
  <2> QED
    BY <1>4, <2>1, <2>2, <2>3, <2>4, <2>5 DEF GoesOn
<1>5. ASSUME NEW n \in View, NEW t \in Step, Accepts(n, t)
      PROVE  TypeOK'
  <2>1. Accept(n, t) /\ UNCHANGED instance
    BY <1>5 DEF Accepts
  <2>2. /\ Script[t].from \in Account /\ Script[t].to \in Account
        /\ amount[t] \in Nat /\ ledger[n] \in [Account -> Nat]
        /\ ledger[n][Script[t].from] >= amount[t]
    BY <1>5, Covered, Scripted
  <2>3. Move(ledger[n], t) \in [Account -> Nat]
    <3> DEFINE paid == [ledger[n] EXCEPT ![Script[t].from] = @ - amount[t]]
    <3>1. paid \in [Account -> Nat]
      BY <2>2
    <3>2. Move(ledger[n], t) = [paid EXCEPT ![Script[t].to] = @ + amount[t]]
      BY DEF Move, Transfer
    <3> HIDE DEF paid
    <3> QED
      BY <2>2, <3>1, <3>2
  <2>4. /\ accepted' \in [View -> SUBSET Step]
        /\ ledger' \in [View -> [Account -> Nat]]
    BY <2>1, <2>3 DEF Accept
  <2> QED
    BY <2>1, <2>4 DEF Accept, runner
<1>6. ASSUME NEW n \in TestNode, NEW t \in Step, Promote(n, t), UNCHANGED instance
      PROVE  TypeOK'
  BY <1>6 DEF Promote, runner
<1>7. CASE UNCHANGED vars
  BY <1>7 DEF vars, runner, network
<1> QED
  BY <1>2, <1>3, <1>4, <1>5, <1>6, <1>7, StepKinds

LEMMA IssuedStep ==
  ASSUME Invariant, [Next]_vars
  PROVE  Issued'
<1>1. /\ TypeOK /\ Issued /\ Len(Script) \in Nat /\ Step = 1..Len(Script)
      /\ Node \subseteq View /\ TestNode \subseteq Node
      /\ \A t \in Step : Script[t].at \in Node
  BY Scripted DEF Invariant
<1> USE <1>1 DEF TypeOK, instance, Running, Step, op
<1>2. CASE Returns
  <2>1. pc' = pc + 1 /\ phase' = "ready" /\ clock' = 0 /\ amount' = amount
    BY <1>2 DEF Returns, Advance
  <2>2. UNCHANGED <<accepted, active, Script>>
    BY <1>2 DEF Returns, network
  <2>3. \A t \in Step : t > pc => amount[t] = 0
    BY DEF Issued
  <2>4. verdict' = "pass" => pc' = Len(Script) + 1
    BY <1>2 DEF Returns, Advance
  <2> QED
    BY <2>1, <2>2, <2>3, <2>4 DEF Issued
<1>3. CASE Fails
  BY <1>3 DEF Fails, Fail, network, Issued
<1>4. CASE GoesOn
  <2>1. CASE Issue
    <3>1. Spend \in Nat /\ Spend > 0
      BY <2>1, Scripted DEF Issue, Issuable, Spend
    <3>2. amount' = [amount EXCEPT ![pc] = Spend]
      BY <2>1 DEF Issue
    <3>3. \A n \in View : pc \notin accepted[n]
      BY <2>1 DEF Issue, Issued
    <3>4. \A n \in View : \A t \in accepted[n] : amount'[t] = amount[t]
      BY <3>2, <3>3
    <3>5. /\ phase' = "await" /\ clock' = 0 /\ op.kind \in TxKinds /\ pc' = pc
          /\ UNCHANGED <<Script, accepted, active, verdict>>
      BY <1>4, <2>1 DEF GoesOn, Issue
    <3>6. \A t \in Step : t > pc => amount'[t] = 0
      BY <3>2 DEF Issued
    <3> QED
      BY <1>4, <3>4, <3>5, <3>6 DEF Issued, GoesOn
  <2>2. CASE ImportErrorDropped
    BY <1>4, <2>2 DEF GoesOn, ImportErrorDropped, CannotIssue, network, Issued
  <2>3. CASE /\ phase = "await" /\ op.kind \in StakeKinds /\ pc \in accepted[op.at]
             /\ phase' = "sleep" /\ UNCHANGED <<clock, amount, stale, network>>
    BY <1>4, <2>3 DEF GoesOn, network, Issued
  <2>4. CASE Refuse
    BY <1>4, <2>4 DEF GoesOn, Refuse, runner, Issued
  <2>5. CASE Tick
    BY <1>4, <2>5 DEF GoesOn, Tick, network, Issued
  <2> QED
    BY <1>4, <2>1, <2>2, <2>3, <2>4, <2>5 DEF GoesOn
<1>5. ASSUME NEW n \in View, NEW t \in Step, Accepts(n, t)
      PROVE  Issued'
  <2>1. /\ amount[t] > 0 /\ t <= pc /\ Script[t].kind \in TxKinds
        /\ t = pc => phase # "ready"
    BY <1>5, Covered
  <2>2. /\ accepted' = [accepted EXCEPT ![n] = @ \cup {t}]
        /\ UNCHANGED <<Script, pc, phase, clock, amount, active, verdict>>
    BY <1>5 DEF Accepts, Accept, runner
  <2>3. n = "net" \/ t \in accepted["net"]
    BY <1>5 DEF Accepts, Learn
  <2>4. "net" \in View
    BY Scripted
  <2>5. \A m \in View : accepted[m] \subseteq accepted'[m]
    BY <2>2
  <2>6. \A m \in View : \A u \in accepted'[m] :
          u \in accepted[m] \/ (u = t /\ m = n)
    BY <2>2
  <2>7. \A m \in View : \A u \in accepted'[m] :
           /\ Script[u].kind \in TxKinds /\ amount[u] > 0 /\ u <= pc
           /\ u = pc => phase # "ready"
           /\ u \in accepted'["net"]
    <3>1. t \in accepted'["net"]
      BY <2>2, <2>3, <2>4
    <3> QED
      BY <2>1, <2>4, <2>5, <2>6, <3>1 DEF Issued
  <2> QED
    BY <2>2, <2>5, <2>7 DEF Issued
<1>6. ASSUME NEW n \in TestNode, NEW t \in Step, Promote(n, t), UNCHANGED instance
      PROVE  Issued'
  BY <1>6 DEF Promote, runner, Issued
<1>7. CASE UNCHANGED vars
  BY <1>7 DEF vars, runner, network, Issued
<1> QED
  BY <1>2, <1>3, <1>4, <1>5, <1>6, <1>7, StepKinds

LEMMA KnownStep ==
  ASSUME Invariant, [Next]_vars
  PROVE  Known'
<1>1. /\ TypeOK /\ Issued /\ Known /\ Len(Script) \in Nat /\ Step = 1..Len(Script)
      /\ Node \subseteq View /\ TestNode \subseteq Node
      /\ \A t \in Step : Script[t].at \in Node
  BY Scripted DEF Invariant
<1> USE <1>1 DEF TypeOK, instance, Running, Step, op
<1>2. CASE Returns
  <2>1. op.kind \in TxKinds => pc \in accepted[op.at]
    BY <1>2 DEF Returns, Issued
  <2>2. pc' = pc + 1 /\ UNCHANGED <<Script, accepted>>
    BY <1>2 DEF Returns, Advance, network
  <2> QED
    BY <2>1, <2>2 DEF Known
<1>3. CASE Fails
  BY <1>3 DEF Fails, Fail, network, Known
<1>4. CASE GoesOn
  BY <1>4 DEF GoesOn, Known
<1>5. ASSUME NEW n \in View, NEW t \in Step, Accepts(n, t)
      PROVE  Known'
  <2>1. accepted' = [accepted EXCEPT ![n] = @ \cup {t}] /\ UNCHANGED <<Script, pc>>
    BY <1>5 DEF Accepts, Accept, runner
  <2> QED
    BY <2>1 DEF Known
<1>6. ASSUME NEW n \in TestNode, NEW t \in Step, Promote(n, t), UNCHANGED instance
      PROVE  Known'
  BY <1>6 DEF Promote, runner, Known
<1>7. CASE UNCHANGED vars
  BY <1>7 DEF vars, runner, network, Known
<1> QED
  BY <1>2, <1>3, <1>4, <1>5, <1>6, <1>7, StepKinds

LEMMA BalancesStep ==
  ASSUME Invariant, [Next]_vars
  PROVE  Balances'
<1>1. /\ TypeOK /\ Issued /\ Balances /\ Len(Script) \in Nat /\ Step = 1..Len(Script)
  BY Scripted DEF Invariant
<1> USE DEF instance
<1>2. ASSUME UNCHANGED <<Script, amount, accepted, ledger>> PROVE Balances'
  BY <1>1, <1>2 DEF Balances, Brought
<1>3. CASE Returns
  BY <1>2, <1>3 DEF Returns, Advance, network
<1>4. CASE Fails
  BY <1>2, <1>4 DEF Fails, Fail, network
<1>5. CASE GoesOn
  <2>1. CASE Issue
    <3>1. amount' = [amount EXCEPT ![pc] = Spend] /\ amount \in [Step -> Nat]
      BY <1>1, <2>1 DEF Issue, TypeOK
    <3>2. \A n \in View : pc \notin accepted[n] /\ accepted[n] \subseteq Step
      BY <1>1, <2>1 DEF Issue, Issued, TypeOK, Running
    <3>3. \A n \in View : \A t \in accepted[n] : amount'[t] = amount[t]
      BY <3>1, <3>2
    <3>4. UNCHANGED <<Script, accepted, ledger>>
      BY <1>5 DEF GoesOn
    <3>5. ASSUME NEW n \in View, NEW a \in Account
          PROVE  Brought(accepted[n], a)' = Brought(accepted[n], a)
      BY <3>3, <3>4 DEF Brought
    <3> QED
      BY <1>1, <3>4, <3>5 DEF Balances
  <2>2. CASE ImportErrorDropped
    BY <1>2, <1>5, <2>2 DEF GoesOn, ImportErrorDropped
  <2>3. CASE UNCHANGED <<clock, amount, stale, network>>
    BY <1>2, <1>5, <2>3 DEF GoesOn
  <2>4. CASE Refuse
    BY <1>2, <1>5, <2>4 DEF GoesOn, Refuse, runner
  <2>5. CASE Tick
    BY <1>2, <1>5, <2>5 DEF GoesOn, Tick
  <2> QED
    BY <1>5, <2>1, <2>2, <2>3, <2>4, <2>5 DEF GoesOn
<1>6. ASSUME NEW n \in View, NEW t \in Step, Accepts(n, t),
             NEW m \in View, NEW a \in Account
      PROVE  ledger'[m][a] = Endowment[a] + SumTo(Brought(accepted[m], a)', Len(Script))
  <2>1. /\ accepted' = [accepted EXCEPT ![n] = @ \cup {t}]
        /\ ledger' = [ledger EXCEPT ![n] = Move(@, t)]
        /\ UNCHANGED <<Script, amount>>
    BY <1>6 DEF Accepts, Accept, runner
  <2>2. accepted \in [View -> SUBSET Step] /\ ledger \in [View -> [Account -> Nat]]
    BY <1>1 DEF TypeOK
  <2> DEFINE d == Brought(accepted[m], a)
             e == Brought(accepted'[m], a)
  <2>3. Brought(accepted[m], a)' = e
    BY <2>1 DEF Brought
  <2>4. CASE m # n
    <3>1. accepted'[m] = accepted[m] /\ ledger'[m] = ledger[m]
      BY <2>1, <2>2, <2>4
    <3> QED
      BY <1>1, <2>3, <3>1 DEF Balances
  <2>5. CASE m = n
    <3>1. /\ accepted'[m] = accepted[m] \cup {t} /\ t \notin accepted[m]
          /\ ledger'[m][a] = Move(ledger[m], t)[a]
      BY <1>6, <2>1, <2>2, <2>5, Covered
    <3>2. d \in [1..Len(Script) -> Int] /\ e \in [1..Len(Script) -> Int]
      BY <1>1, BroughtType
    <3>3. \A k \in 1..Len(Script) \ {t} : d[k] = e[k]
      BY <3>1 DEF Brought
    <3>4. t \in 1..Len(Script)
      BY <1>1
    <3>5. /\ d[t] = 0
          /\ e[t] = (IF Script[t].to = a THEN amount[t] ELSE 0)
                    - (IF Script[t].from = a THEN amount[t] ELSE 0)
      BY <3>1, <3>4 DEF Brought
    <3>6. SumTo(e, Len(Script)) = SumTo(d, Len(Script)) + (e[t] - d[t])
      <4> HIDE DEF d, e
      <4> QED
        BY <1>1, <3>2, <3>3, <3>4, SumChange
    <3>7. ledger'[m][a] = ledger[m][a] + e[t]
      <4>1. amount[t] \in Nat /\ ledger[m] \in [Account -> Nat] /\ ledger[m][a] \in Nat
        BY <1>1, <2>2 DEF TypeOK
      <4> QED
        BY <1>1, <3>1, <3>5, <4>1, Moved
    <3>8. ledger[m][a] = Endowment[a] + SumTo(d, Len(Script))
      BY <1>1 DEF Balances
    <3>9. SumTo(d, Len(Script)) \in Int /\ e[t] \in Int /\ Endowment[a] \in Int
      <4>1. SumTo(d, Len(Script)) \in Int
        BY <1>1, <3>2, SumIsInt
      <4>2. e[t] \in Int
        BY <3>2, <3>4
      <4> QED
        BY <4>1, <4>2, RPCWorkflowAssumption DEF Endowment
    <3> HIDE DEF d, e
    <3> QED
      BY <2>3, <3>5, <3>6, <3>7, <3>8, <3>9
  <2> QED
    BY <2>4, <2>5
<1>7. ASSUME NEW n \in View, NEW t \in Step, Accepts(n, t) PROVE Balances'
  <2>1. Script' = Script
    BY <1>7 DEF Accepts
  <2> QED
    BY <1>6, <1>7, <2>1 DEF Balances
<1>8. ASSUME NEW n \in TestNode, NEW t \in Step, Promote(n, t), UNCHANGED instance
      PROVE  Balances'
  BY <1>2, <1>8 DEF Promote, runner
<1>9. CASE UNCHANGED vars
  BY <1>2, <1>9 DEF vars, runner, network
<1> QED
  BY <1>1, <1>3, <1>4, <1>5, <1>7, <1>8, <1>9, StepKinds

LEMMA PayableStep ==
  ASSUME Invariant, [Next]_vars
  PROVE  Payable'
<1>1. /\ TypeOK /\ Issued /\ Known /\ Payable
      /\ Node \subseteq View /\ TestNode \subseteq Node
      /\ \A t \in Step : Script[t].at \in Node /\ Script[t].from \in Account
      /\ accepted \in [View -> SUBSET Step] /\ ledger \in [View -> [Account -> Nat]]
  BY Scripted DEF Invariant, TypeOK
<1> USE DEF instance, op
<1>2. ASSUME UNCHANGED <<Script, pc, phase, amount, stale, accepted, ledger>> PROVE Payable'
  BY <1>1, <1>2 DEF Payable, Pending
<1>3. CASE Returns
  BY <1>3 DEF Returns, Advance, Payable
<1>4. CASE Fails
  BY <1>2, <1>4 DEF Fails, Fail, network
<1>5. CASE GoesOn
  <2>1. CASE Issue
    <3>1. /\ pc \in Step /\ phase = "ready" /\ op.kind \in TxKinds
          /\ amount' = [amount EXCEPT ![pc] = Spend] /\ amount \in [Step -> Nat]
          /\ stale' = Conflicts
          /\ ledger[op.at][op.from] >= Spend
      BY <1>1, <2>1 DEF Issue, Issuable, TypeOK, Running
    <3>2. UNCHANGED <<Script, pc, accepted, ledger>>
      BY <1>5 DEF GoesOn
    <3>3. amount'[pc] = Spend
      BY <3>1
    <3>4. ASSUME ~stale', NEW t \in Pending(op.at) PROVE Script[t].from # op.from
      <4>1. t \in Step
        BY <1>1 DEF Pending, View
      <4> QED
        BY <3>1, <3>4, <4>1 DEF Conflicts, Pending
    <3>5. op.kind \in ImportKinds => Spend = ledger["net"][op.from]
      <4> SUFFICES ASSUME op.kind \in ImportKinds PROVE Spend = ledger["net"][op.from]
        OBVIOUS
      <4>1. ASSUME NEW t \in Pending(op.at), op.from \in {Script[t].from, Script[t].to}
            PROVE  FALSE
        <5>1. t \in Transactions(Script) /\ t \in Step /\ t <= pc /\ t # pc
          BY <1>1, <3>1, <4>1 DEF Pending, Issued, Transactions, View, Step
        <5>2. Script[t].at = op.at
          BY <1>1, <3>1, <4>1, <5>1, ScriptAssumption DEF TypeOK, Step
        <5>3. t \in accepted[op.at]
          BY <1>1, <3>1, <5>1, <5>2, Scripted DEF Known, Transactions, TypeOK
        <5> QED
          BY <4>1, <5>3 DEF Pending
      <4>2. ledger[op.at][op.from] = ledger["net"][op.from]
        BY <1>1, <3>1, <4>1, SameTransactionsSameBalance
      <4> QED
        BY <4>2 DEF Spend
    <3>6. op.kind \notin ImportKinds => Spend = op.amount
      BY DEF Spend
    <3> QED
      BY <3>1, <3>2, <3>3, <3>4, <3>5, <3>6 DEF Payable, Pending
  <2>2. CASE ImportErrorDropped
    <3>1. amount[pc] = 0 /\ amount' = amount /\ pc' = pc
      BY <1>1, <2>2 DEF ImportErrorDropped, CannotIssue, Running, Issued
    <3> QED
      BY <3>1 DEF Payable
  <2>3. CASE phase' = "sleep"
    BY <2>3 DEF Payable
  <2>4. CASE Refuse
    BY <1>2, <1>5, <2>4 DEF GoesOn, Refuse, runner
  <2>5. CASE Tick
    BY <1>2, <1>5, <2>5 DEF GoesOn, Tick
  <2> QED
    BY <1>5, <2>1, <2>2, <2>3, <2>4, <2>5 DEF GoesOn
<1>6. ASSUME NEW n \in View, NEW t \in Step, Accepts(n, t)
      PROVE  Payable'
  <2>1. /\ accepted' = [accepted EXCEPT ![n] = @ \cup {t}]
        /\ ledger' = [ledger EXCEPT ![n] = Move(@, t)]
        /\ UNCHANGED <<Script, pc, phase, amount, stale>>
        /\ pc \in Step
    BY <1>6 DEF Accepts, Accept, runner, Running
  <2>2. CASE n = "net" /\ t = pc
    <3>1. pc' \in accepted'["net"]
      BY <1>1, <2>1, <2>2
    <3> QED
      BY <3>1 DEF Payable
  <2>3. CASE n \in TestNode /\ Learn(n, t)
    <3> SUFFICES ASSUME phase = "await", amount[pc] > 0, pc \notin accepted'["net"]
                 PROVE  /\ ~stale => /\ ledger'[op.at][op.from] >= amount[pc]
                                     /\ \A u \in Pending(op.at)' : Script[u].from # op.from
                        /\ op.kind \in ImportKinds => amount[pc] = ledger'["net"][op.from]
                        /\ op.kind \notin ImportKinds => amount[pc] = op.amount
      BY <2>1 DEF Payable
    <3>1. /\ n # "net" /\ accepted'["net"] = accepted["net"] /\ ledger'["net"] = ledger["net"]
      BY <1>1, <2>1, <2>3, Scripted
    <3>2. Pending(op.at)' \subseteq Pending(op.at)
      BY <1>1, <2>1, <3>1 DEF Pending
    <3>3. ASSUME ~stale, n = op.at PROVE ledger'[op.at][op.from] >= ledger[op.at][op.from]
      <4>1. t \in Pending(op.at)
        BY <2>3, <3>3 DEF Learn, Pending
      <4>2. Script[t].from # op.from
        BY <1>1, <3>1, <3>3, <4>1 DEF Payable
      <4>3. /\ ledger'[op.at] = Move(ledger[op.at], t)
            /\ amount[t] \in Nat /\ op.from \in Account
            /\ ledger[op.at] \in [Account -> Nat]
        BY <1>1, <2>1, <3>3 DEF TypeOK
      <4>4. /\ Move(ledger[op.at], t)[op.from] =
                  ledger[op.at][op.from] + (IF Script[t].to = op.from THEN amount[t] ELSE 0)
                              - (IF Script[t].from = op.from THEN amount[t] ELSE 0)
            /\ ledger[op.at][op.from] \in Nat
        BY <1>1, <4>3, Moved
      <4> HIDE DEF op
      <4> QED
        BY <4>2, <4>3, <4>4 DEF op
    <3>4. n # op.at => ledger'[op.at] = ledger[op.at]
      BY <1>1, <2>1
    <3>5. ~stale => ledger'[op.at][op.from] >= ledger[op.at][op.from]
      <4>1. ledger[op.at][op.from] \in Nat
        BY <1>1, <2>1
      <4> QED
        BY <3>3, <3>4, <4>1
    <3>6. ~stale => ledger'[op.at][op.from] >= amount[pc]
      <4>1. /\ ledger[op.at][op.from] \in Nat /\ ledger'[op.at][op.from] \in Nat
            /\ amount[pc] \in Nat
        BY <1>1, <2>1, TypeStep DEF TypeOK
      <4>2. ~stale => ledger[op.at][op.from] >= amount[pc]
        BY <1>1, <3>1 DEF Payable
      <4> QED
        BY <3>5, <4>1, <4>2
    <3> QED
      BY <1>1, <3>1, <3>2, <3>6 DEF Payable
  <2> QED
    BY <1>6, <2>2, <2>3 DEF Accepts
<1>7. ASSUME NEW n \in TestNode, NEW t \in Step, Promote(n, t), UNCHANGED instance
      PROVE  Payable'
  BY <1>2, <1>7 DEF Promote, runner
<1>8. CASE UNCHANGED vars
  BY <1>2, <1>8 DEF vars, runner, network
<1> QED
  BY <1>1, <1>3, <1>4, <1>5, <1>6, <1>7, <1>8, StepKinds

LEMMA InPOrderStep ==
  ASSUME Invariant, [Next]_vars
  PROVE  InPOrder'
<1>1. /\ TypeOK /\ Issued /\ InPOrder /\ Node \subseteq View /\ TestNode \subseteq Node
      /\ "net" \in View /\ "net" \notin Node /\ Step \subseteq Nat /\ pc \in Nat
      /\ accepted \in [View -> SUBSET Step]
  BY Scripted DEF Invariant, TypeOK
<1> USE DEF instance
<1>2. ASSUME UNCHANGED <<Script, accepted>> PROVE InPOrder'
  BY <1>1, <1>2 DEF InPOrder
<1>3. CASE Returns \/ Fails
  BY <1>2, <1>3 DEF Returns, Fails, network
<1>4. CASE GoesOn
  BY <1>2, <1>4 DEF GoesOn
<1>5. ASSUME NEW n \in View, NEW t \in Step, Accepts(n, t)
      PROVE  InPOrder'
  <2>1. accepted' = [accepted EXCEPT ![n] = @ \cup {t}] /\ Script' = Script
    BY <1>5 DEF Accepts, Accept
  <2> SUFFICES ASSUME NEW m \in View, NEW u \in accepted'["net"], NEW v \in accepted'[m],
                      u < v, Script[u].kind \in PKinds, Script[v].kind \in PKinds
               PROVE  u \in accepted'[m]
    BY <2>1 DEF InPOrder
  <2>2. CASE n = "net" /\ t = pc
    <3>1. v <= pc /\ v \in Nat
      BY <1>1, <2>1, <2>2 DEF Issued
    <3>2. u # pc
      BY <1>1, <3>1
    <3>3. u \in accepted["net"]
      BY <1>1, <2>1, <2>2, <3>2
    <3>4. m # "net" => v \in accepted[m]
      BY <1>1, <2>1, <2>2
    <3> QED
      BY <1>1, <2>1, <3>3, <3>4 DEF InPOrder
  <2>3. CASE n \in TestNode /\ Learn(n, t)
    <3>1. u \in accepted["net"]
      BY <1>1, <2>1, <2>3
    <3>2. CASE v \in accepted[m]
      BY <1>1, <2>1, <3>1, <3>2 DEF InPOrder
    <3>3. CASE v \notin accepted[m]
      <4>1. m = n /\ v = t
        BY <1>1, <2>1, <3>3
      <4> QED
        BY <1>1, <2>1, <2>3, <3>1, <4>1 DEF Learn
    <3> QED
      BY <3>2, <3>3
  <2> QED
    BY <1>5, <2>2, <2>3 DEF Accepts
<1>6. ASSUME NEW n \in TestNode, NEW t \in Step, Promote(n, t), UNCHANGED instance
      PROVE  InPOrder'
  BY <1>2, <1>6 DEF Promote
<1>7. CASE UNCHANGED vars
  BY <1>2, <1>7 DEF vars, network
<1> QED
  BY <1>1, <1>3, <1>4, <1>5, <1>6, <1>7, StepKinds

LEMMA StakedStep ==
  ASSUME Invariant, [Next]_vars
  PROVE  Staked'
<1>1. /\ TypeOK /\ Issued /\ Staked
      /\ accepted \in [View -> SUBSET Step] /\ ledger \in [View -> [Account -> Nat]]
      /\ amount \in [Step -> Nat]
  BY DEF Invariant, TypeOK
<1>2. \A t \in Step : /\ Script[t].from \in Account /\ Script[t].to \in Account
                      /\ Script[t].kind \in TxKinds => Script[t].from[2] # "stake"
                      /\ Script[t].kind \in StakeKinds => Script[t].to[2] = "stake"
  BY <1>1, Scripted, ScriptAssumption DEF TypeOK, Step
<1> USE DEF instance
<1>3. ASSUME UNCHANGED <<Script, accepted, ledger>> PROVE Staked'
  BY <1>1, <1>3 DEF Staked
<1>4. CASE Returns \/ Fails
  BY <1>3, <1>4 DEF Returns, Fails, network
<1>5. CASE GoesOn
  BY <1>3, <1>5 DEF GoesOn
<1>6. ASSUME NEW n \in View, NEW t \in Step, Accepts(n, t)
      PROVE  Staked'
  <2>1. /\ accepted' = [accepted EXCEPT ![n] = @ \cup {t}] /\ Script' = Script
        /\ ledger' = [ledger EXCEPT ![n] = Move(@, t)]
    BY <1>6 DEF Accepts, Accept
  <2> SUFFICES ASSUME NEW m \in View, NEW u \in accepted'[m], Script[u].kind \in StakeKinds
               PROVE  ledger'[m][Script[u].to] > 0
    BY <2>1 DEF Staked
  <2>2. u \in Step
    BY <1>1, <1>6, <2>1
  <2>3. CASE m # n
    BY <1>1, <2>1, <2>3 DEF Staked
  <2>4. CASE m = n
    <3>1. /\ Script[t].from # Script[u].to /\ amount[t] > 0 /\ amount[t] \in Nat
          /\ Script[u].to \in Account
          /\ ledger[n] \in [Account -> Nat] /\ ledger[n][Script[u].to] \in Nat
      BY <1>1, <1>2, <1>6, <2>2, Covered
    <3>2. ledger'[n][Script[u].to] =
             ledger[n][Script[u].to] + (IF Script[t].to = Script[u].to THEN amount[t] ELSE 0)
                              - (IF Script[t].from = Script[u].to THEN amount[t] ELSE 0)
      BY <1>1, <2>1, <3>1, Moved
    <3>3. u # t => ledger[n][Script[u].to] > 0
      BY <1>1, <2>1, <2>4 DEF Staked
    <3> QED
      BY <2>4, <3>1, <3>2, <3>3
  <2> QED
    BY <2>3, <2>4
<1>7. ASSUME NEW n \in TestNode, NEW t \in Step, Promote(n, t), UNCHANGED instance
      PROVE  Staked'
  BY <1>3, <1>7 DEF Promote
<1>8. CASE UNCHANGED vars
  BY <1>3, <1>8 DEF vars, network
<1> QED
  BY <1>1, <1>4, <1>5, <1>6, <1>7, <1>8, StepKinds

\* A check that passes reveals what it must have come from.
LEMMA ShownByReturn ==
  ASSUME Invariant, Returns
  PROVE  Shown'
<1>0. /\ TypeOK /\ Issued /\ Shown /\ Balances
      /\ Len(Script) \in Nat /\ Step = 1..Len(Script)
      /\ Node \subseteq View
      /\ \A t \in Step : Script[t].at \in Node /\ Script[t].from \in Account
      /\ accepted \in [View -> SUBSET Step] /\ pc \in Nat
  BY Scripted DEF Invariant, TypeOK
<1> USE DEF instance
<1>1. pc' = pc + 1 /\ UNCHANGED <<Script, accepted>> /\ pc \in Step
  BY DEF Returns, Advance, network, Running
<1>2. ASSUME NEW t \in Step, Reveals(Script, pc, t) PROVE t \in accepted[op.at]
  <2>1. op.kind = "checkBalance" /\ op.from \in Account /\ op.at \in View
    BY <1>0, <1>1, <1>2 DEF Reveals, op
  <2>2. phase = "ready" /\ ledger[op.at][op.from] = op.amount
    BY <1>0, <2>1
      DEF Returns, Issued, CheckHolds, CheckKinds, TxKinds, XKinds, PKinds, StakeKinds
  <2>3. SUFFICES ASSUME t \notin accepted[op.at] PROVE FALSE
    OBVIOUS
  <2> DEFINE d == Brought(accepted[op.at], op.from)
  <2>4. ASSUME NEW k \in 1..Len(Script), d[k] # 0 PROVE FALSE
    <3>1. k \in accepted[op.at] /\ op.from \in {Script[k].from, Script[k].to}
      BY <2>4 DEF Brought
    <3>2. k < pc /\ Script[k].kind \in TxKinds
      BY <1>0, <1>1, <2>1, <2>2, <3>1 DEF Issued
    <3>3. k \in Touching(Script, op.from, pc)
      BY <1>0, <3>1, <3>2 DEF Touching, Transactions, Step
    <3> QED
      BY <1>2, <2>3, <3>1, <3>3 DEF Reveals, op
  <2>5. SumTo(d, Len(Script)) = 0
    <3>1. d \in [1..Len(Script) -> Int]
      BY <1>0, BroughtType
    <3> HIDE DEF d
    <3> QED
      BY <1>0, <2>4, <3>1, SumOfZeros
  <2>6. ledger[op.at][op.from] = Endowment[op.from] + SumTo(d, Len(Script))
    BY <1>0, <2>1 DEF Balances
  <2>7. Endowment[op.from] \in Int
    BY <2>1, RPCWorkflowAssumption DEF Endowment
  <2> HIDE DEF d
  <2> QED
    BY <1>2, <2>2, <2>5, <2>6, <2>7 DEF Reveals, op
<1> QED
  BY <1>0, <1>1, <1>2 DEF Shown, Step, op

LEMMA ShownStep ==
  ASSUME Invariant, [Next]_vars
  PROVE  Shown'
<1>1. /\ TypeOK /\ Issued /\ Shown /\ Balances
      /\ Len(Script) \in Nat /\ Step = 1..Len(Script)
      /\ Node \subseteq View
      /\ \A t \in Step : Script[t].at \in Node /\ Script[t].from \in Account
      /\ accepted \in [View -> SUBSET Step] /\ pc \in Nat
  BY Scripted DEF Invariant, TypeOK
<1> USE DEF instance
<1>2. ASSUME Script' = Script, pc' = pc, \A n \in Node : accepted[n] \subseteq accepted'[n]
      PROVE  Shown'
  BY <1>1, <1>2 DEF Shown, Step
<1>3. CASE Returns
  BY <1>3, ShownByReturn
<1>4. CASE Fails
  BY <1>2, <1>4 DEF Fails, Fail, network
<1>5. CASE GoesOn
  BY <1>2, <1>5 DEF GoesOn
<1>6. ASSUME NEW n \in View, NEW t \in Step, Accepts(n, t)
      PROVE  Shown'
  BY <1>1, <1>2, <1>6 DEF Accepts, Accept, runner
<1>7. ASSUME NEW n \in TestNode, NEW t \in Step, Promote(n, t), UNCHANGED instance
      PROVE  Shown'
  BY <1>2, <1>7 DEF Promote, runner
<1>8. CASE UNCHANGED vars
  BY <1>2, <1>8 DEF vars, network, runner
<1> QED
  BY <1>1, <1>3, <1>4, <1>5, <1>6, <1>7, <1>8, StepKinds

LEMMA SyncedStep ==
  ASSUME Invariant, [Next]_vars
  PROVE  Synced'
<1>1. /\ TypeOK /\ Issued /\ Known /\ Synced /\ Step = 1..Len(Script) /\ Len(Script) \in Nat
      /\ Node \subseteq View /\ TestNode \subseteq Node /\ "net" \in View /\ "net" \notin Node
      /\ \A t \in Step : Script[t].at \in TestNode
      /\ accepted \in [View -> SUBSET Step] /\ active \in [Node -> SUBSET Step]
      /\ pc \in Nat /\ clock \in Nat
  BY Scripted DEF Invariant, TypeOK
<1>2. StakeKinds \subseteq TxKinds
  BY DEF StakeKinds, TxKinds, PKinds
<1> USE RPCWorkflowAssumption DEF instance, Prompt, TestNode, Step, CaughtUp
<1>3. SUFFICES ASSUME Prompt', Faults' = Faults, Script' = Script PROVE Synced'
  <2>1. Faults' = Faults /\ Script' = Script
    BY StepKinds, <1>1 DEF Returns, Fails, GoesOn, Accepts, vars
  <2> QED
    BY <2>1 DEF Synced
<1>4. Prompt
  BY <1>3
<1>5. ASSUME UNCHANGED <<pc, phase, clock, stale, accepted, active>> PROVE Synced'
  BY <1>1, <1>3, <1>5 DEF Synced
<1>6. CASE Returns
  <2>1. /\ pc' = pc + 1 /\ phase' = "ready" /\ clock' = 0 /\ ~stale' /\ pc \in Step
        /\ UNCHANGED <<accepted, active>>
    BY <1>6 DEF Returns, Advance, network, Running
  <2>2. ASSUME op.kind \in StakeKinds, NEW n \in TestNode
        PROVE  pc \in active[n] /\ CaughtUp(n)
    <3>1. phase = "sleep" /\ clock >= StakingDelay + SyncDelay
      BY <1>1, <1>2, <1>6, <2>2 DEF Returns
    <3> QED
      BY <1>1, <1>4, <2>2, <3>1 DEF Synced
  <2>3. ASSUME NEW s \in Step, s < pc + 1, Script[s].kind \in StakeKinds, NEW n \in TestNode
        PROVE  s \in active[n] /\ \A t \in accepted["net"] : t <= s => t \in accepted[n]
    <3>1. CASE s < pc
      BY <1>1, <1>4, <2>3, <3>1 DEF Synced
    <3>2. CASE s = pc
      BY <2>2, <2>3, <3>2 DEF op
    <3> QED
      BY <1>1, <2>3, <3>1, <3>2
  <2> QED
    BY <1>3, <2>1, <2>3 DEF Synced
<1>7. CASE Fails
  BY <1>5, <1>7 DEF Fails, Fail, network
<1>8. CASE GoesOn
  <2>1. UNCHANGED <<pc, accepted, active>>
    BY <1>8 DEF GoesOn
  <2>2. CASE Issue
    <3>1. /\ phase = "ready" /\ phase' = "await" /\ clock' = 0 /\ stale' = Conflicts /\ pc \in Step
          /\ op.kind \in TxKinds
      BY <2>2 DEF Issue, Running
    <3>2. ASSUME NEW t \in Pending(op.at), t \in Step, Script[t].from = op.from PROVE FALSE
      <4>1. t \in accepted["net"] /\ t < pc /\ Script[t].kind \in TxKinds
        BY <1>1, <3>1, <3>2 DEF Pending, Issued
      <4>2. t \in Transactions(Script) /\ pc \in Transactions(Script)
        BY <3>1, <3>2, <4>1 DEF Transactions, op
      <4>3. CASE Script[t].at = op.at
        BY <1>1, <3>2, <4>1, <4>3 DEF Known, Pending
      <4>4. CASE StakingBetween(Script, t, pc)
        <5>1. PICK s \in t..(pc - 1) : Script[s].kind \in StakeKinds
          BY <4>4 DEF StakingBetween
        <5>2. s \in Step /\ s < pc /\ t <= s
          BY <1>1, <3>1, <3>2, <5>1
        <5>3. op.at \in TestNode
          BY <1>1, <3>1 DEF op
        <5>4. t \in accepted[op.at]
          BY <1>4, <1>1, <4>1, <5>1, <5>2, <5>3 DEF Synced
        <5> QED
          BY <3>2, <5>4 DEF Pending
      <4> QED
        BY <1>1, <3>2, <4>1, <4>2, <4>3, <4>4, SpendsAreSpaced DEF TypeOK, op
    <3>3. ~stale'
      BY <3>1, <3>2 DEF Conflicts, Pending
    <3> QED
      BY <1>1, <1>3, <2>1, <3>1, <3>3 DEF Synced
  <2>3. CASE ImportErrorDropped
    BY <1>1, <1>3, <2>1, <2>3 DEF ImportErrorDropped, Synced, CannotIssue
  <2>4. CASE /\ phase = "await" /\ phase' = "sleep" /\ UNCHANGED <<clock, amount, stale, network>>
    <3>1. ~(clock' > StakingDelay + PromoteLag)
      BY <1>1, <1>4, <2>4 DEF Synced
    <3> QED
      BY <1>1, <1>3, <2>1, <2>4, <3>1 DEF Synced
  <2>5. CASE Refuse
    BY <1>5, <2>1, <2>5 DEF Refuse, runner
  <2>6. CASE Tick
    <3>1. /\ UNCHANGED <<phase, stale>> /\ clock' = clock + 1
          /\ \/ phase = "await" /\ clock < AcceptLag
             \/ /\ phase = "sleep"
                /\ clock >= StakingDelay + PromoteLag =>
                      \A n \in TestNode : CaughtUp(n) /\ pc \in active[n]
      BY <1>4, <2>6 DEF Tick
    <3>2. phase' # "sleep" => clock' <= AcceptLag
      BY <1>1, <3>1
    <3>3. phase' = "sleep" /\ clock' > StakingDelay + PromoteLag =>
             \A n \in TestNode : CaughtUp(n) /\ pc \in active[n]
      BY <1>1, <3>1
    <3> QED
      BY <1>1, <1>3, <2>1, <3>1, <3>2, <3>3 DEF Synced
  <2> QED
    BY <1>8, <2>2, <2>3, <2>4, <2>5, <2>6 DEF GoesOn
<1>9. ASSUME NEW n \in View, NEW t \in Step, Accepts(n, t)
      PROVE  Synced'
  <2>1. /\ accepted' = [accepted EXCEPT ![n] = @ \cup {t}]
        /\ UNCHANGED <<pc, phase, clock, stale, active>>
    BY <1>9 DEF Accepts, Accept, runner
  <2>2. CASE n = "net" /\ t = pc /\ Settle
    <3>1. phase = "await"
      BY <2>2 DEF Settle, InFlight
    <3>2. \A m \in TestNode : accepted'[m] = accepted[m]
      BY <1>1, <2>1, <2>2
    <3>3. \A u \in accepted'["net"] : u \in accepted["net"] \/ u = pc
      BY <1>1, <2>1, <2>2
    <3> QED
      BY <1>1, <1>3, <2>1, <3>1, <3>2, <3>3 DEF Synced
  <2>3. CASE n \in TestNode
    <3>1. accepted'["net"] = accepted["net"]
      BY <1>1, <2>1, <2>3
    <3>2. \A m \in TestNode : accepted[m] \subseteq accepted'[m]
      BY <1>1, <2>1
    <3> QED
      BY <1>1, <1>3, <2>1, <3>1, <3>2 DEF Synced
  <2> QED
    BY <1>9, <2>2, <2>3 DEF Accepts
<1>10. ASSUME NEW n \in TestNode, NEW t \in Step, Promote(n, t), UNCHANGED instance
      PROVE  Synced'
  <2>1. /\ active' = [active EXCEPT ![n] = @ \cup {t}]
        /\ UNCHANGED <<pc, phase, clock, stale, accepted>>
    BY <1>10 DEF Promote, runner
  <2>2. \A m \in TestNode : active[m] \subseteq active'[m]
    BY <1>1, <2>1
  <2> QED
    BY <1>1, <1>3, <2>1, <2>2 DEF Synced
<1>11. CASE UNCHANGED vars
  BY <1>5, <1>11 DEF vars, network, runner
<1> QED
  BY <1>1, <1>6, <1>7, <1>8, <1>9, <1>10, <1>11, StepKinds

\* A check passes at its node only if the network has the balance too: its node has
\* accepted every transaction of the account.
LEMMA ChecksAreSettled ==
  ASSUME Invariant, Returns, op.kind = "checkBalance"
  PROVE  ledger["net"][op.from] = op.amount
<1>1. /\ TypeOK /\ Issued /\ Known /\ Len(Script) \in Nat /\ Step = 1..Len(Script)
      /\ pc \in Step /\ op.at \in View /\ op.from \in Account /\ op.at \in Node
      /\ accepted \in [View -> SUBSET Step] /\ UNCHANGED <<accepted, Script>> /\ pc' = pc + 1
      /\ \A t \in Step : Script[t].at \in Node
  BY Scripted DEF Invariant, TypeOK, Returns, Running, op, network, instance, Advance
<1>2. phase = "ready" /\ ledger[op.at][op.from] = op.amount
  BY <1>1 DEF Returns, Issued, CheckHolds, CheckKinds, TxKinds, XKinds, PKinds, StakeKinds
<1>3. Shown'
  BY ShownByReturn
<1>4. ASSUME NEW t \in Pending(op.at), op.from \in {Script[t].from, Script[t].to}
      PROVE  FALSE
  <2>1. t \in Step /\ t < pc /\ Script[t].kind \in TxKinds
    BY <1>1, <1>2, <1>4 DEF Pending, Issued, View
  <2>2. t \in Touching(Script, op.from, pc)
    BY <1>1, <1>4, <2>1 DEF Touching, Transactions, Step
  <2>3. \/ Script[t].at = op.at
        \/ \E c \in 1..pc : Script[c].at = op.at /\ Reveals(Script, c, t)
    BY <1>1, <2>2, ScriptAssumption DEF TypeOK, op, Step, Revealed
  <2>4. CASE Script[t].at = op.at
    BY <1>1, <1>4, <2>1, <2>4 DEF Known, Pending
  <2>5. ASSUME NEW c \in 1..pc, Script[c].at = op.at, Reveals(Script, c, t)
        PROVE  FALSE
    <3>1. t \in accepted'[op.at]
      BY <1>1, <1>3, <2>1, <2>5 DEF Shown, Step
    <3> QED
      BY <1>1, <1>4, <3>1 DEF Pending
  <2> QED
    BY <2>3, <2>4, <2>5
<1> QED
  BY <1>1, <1>2, <1>4, SameTransactionsSameBalance

LEMMA InvariantInit ==
  ASSUME Init
  PROVE  Invariant
<1>1. PICK test \in Tests : Script = test.script /\ Faults = test.faults
  BY DEF Init
<1>2. Script \in Programs /\ Faults \subseteq Fault
  BY <1>1, RPCWorkflowAssumption DEF Programs
<1>3. Len(Script) \in Nat
  BY <1>2, RPCWorkflowAssumption
<1>4. \A a \in Account : Endowment[a] \in Nat
  BY RPCWorkflowAssumption DEF Endowment
<1>5. TypeOK
  <2>1. Endowment \in [Account -> Nat]
    BY <1>4 DEF Endowment
  <2>2. pc \in 1..(Len(Script) + 1)
    BY <1>3 DEF Init
  <2>3. /\ amount \in [Step -> Nat] /\ accepted \in [View -> SUBSET Step]
        /\ active \in [Node -> SUBSET Step] /\ ledger \in [View -> [Account -> Nat]]
    BY <2>1 DEF Init
  <2> QED
    BY <1>2, <2>2, <2>3 DEF Init, TypeOK
<1>6. \A n \in View : accepted[n] = {} /\ \A a \in Account : ledger[n][a] = Endowment[a]
  BY DEF Init
<1>7. Node \subseteq View /\ "net" \in View /\ TestNode \subseteq Node /\ Step = 1..Len(Script)
  BY <1>5, Scripted
<1>8. Issued
  BY <1>6, <1>7 DEF Init, Issued
<1>9. Known /\ Shown
  BY <1>7 DEF Init, Known, Shown
<1>10. Balances
  <2> SUFFICES ASSUME NEW n \in View, NEW a \in Account
               PROVE  ledger[n][a] = Endowment[a] + SumTo(Brought(accepted[n], a), Len(Script))
    BY DEF Balances
  <2> DEFINE d == Brought(accepted[n], a)
  <2>1. d \in [1..Len(Script) -> Int] /\ \A k \in 1..Len(Script) : d[k] = 0
    BY <1>6 DEF Brought
  <2>2. SumTo(d, Len(Script)) = 0
    <3> HIDE DEF d
    <3> QED
      BY <1>3, <2>1, SumOfZeros
  <2> HIDE DEF d
  <2> QED
    BY <1>4, <1>6, <2>2 DEF d
<1>11. Payable
  BY DEF Init, Payable
<1>12. InPOrder /\ Staked
  BY <1>6 DEF InPOrder, Staked
<1>13. Synced
  BY <1>7, RPCWorkflowAssumption DEF Init, Synced
<1> QED
  BY <1>5, <1>8, <1>9, <1>10, <1>11, <1>12, <1>13 DEF Invariant

THEOREM Inductive == SafeSpec => []Invariant
<1>1. Init => Invariant
  BY InvariantInit
<1>2. Invariant /\ [Next]_vars => Invariant'
  BY TypeStep, IssuedStep, KnownStep, BalancesStep, PayableStep, InPOrderStep, StakedStep,
     ShownStep, SyncedStep DEF Invariant
<1> QED
  BY <1>1, <1>2, PTL DEF SafeSpec

-----------------------------------------------------------------------------
(* What follows from it.                                                   *)

\* The variables keep their types.  No balance is ever negative: the network can pay
\* for what the node of a transaction thought it could, and a node learns a
\* transaction only when it can.
THEOREM TypeCorrect == Spec => []TypeOK
<1>1. Invariant => TypeOK
  BY DEF Invariant
<1> QED
  BY <1>1, Inductive, PTL DEF Spec

\* A test passes only if the network accepted every transaction of its script, whatever
\* errors were dropped and whatever polls were missed.
THEOREM PassesAreEarned == Spec => []PassIsEarned
<1>1. ASSUME Invariant PROVE PassIsEarned
  <2>1. Step = 1..Len(Script) /\ Node \subseteq View /\ \A t \in Step : Script[t].at \in Node
    BY <1>1, Scripted DEF Invariant
  <2> QED
    BY <1>1, <2>1 DEF Invariant, Issued, Known, PassIsEarned
<1> QED
  BY <1>1, Inductive, PTL DEF Spec

\* Between two operations a node knows the settled balance of each account that only
\* its own operations touch.
THEOREM ReadsYourWrites == Spec => []ReadYourWrites
<1>1. ASSUME Invariant PROVE ReadYourWrites
  <2> SUFFICES ASSUME Running, phase = "ready", NEW n \in TestNode, NEW a \in Account,
                      OwnAccount(n, a)
               PROVE  ledger[n][a] = ledger["net"][a]
    BY DEF ReadYourWrites
  <2>1. TypeOK /\ Issued /\ Known /\ n \in View
    BY <1>1, Scripted DEF Invariant
  <2>2. ASSUME NEW t \in Pending(n), a \in {Script[t].from, Script[t].to} PROVE FALSE
    <3>1. t \in Step /\ t < pc /\ Script[t].kind \in TxKinds
      BY <2>1, <2>2, Scripted DEF Pending, Issued, TypeOK
    <3>2. t \in accepted[n]
      BY <2>1, <2>2, <3>1 DEF OwnAccount, Known
    <3> QED
      BY <2>2, <3>2 DEF Pending
  <2> QED
    BY <1>1, <2>1, <2>2, SameTransactionsSameBalance
<1> QED
  BY <1>1, Inductive, PTL DEF Spec

\* On a prompt network AddValidator and AddDelegator return only when the staking
\* period has begun at their node.
THEOREM StakersAreActive == Spec => []BlocksUntilActive
<1>1. ASSUME Invariant PROVE BlocksUntilActive
  BY <1>1, Scripted DEF Invariant, Synced, BlocksUntilActive
<1> QED
  BY <1>1, Inductive, PTL DEF Spec

\* On a prompt network nothing conflicts, although the nodes share the genesis key.
THEOREM SpendsDoNotConflict == Spec => []NoConflictingSpend
<1>1. Invariant => NoConflictingSpend
  BY DEF Invariant, Synced, NoConflictingSpend
<1> QED
  BY <1>1, Inductive, PTL DEF Spec

\* A delegator's node knows the validator: it has accepted a later P-Chain transaction.
LEMMA Delegatees ==
  ASSUME Invariant
  PROVE  DelegateeIsKnown
<1> SUFFICES ASSUME Running, phase = "ready", op.kind = "addDelegator"
             PROVE  ledger[op.at][op.to] > 0
  BY DEF DelegateeIsKnown
<1>1. /\ TypeOK /\ Issued /\ Known /\ InPOrder /\ Staked /\ Step = 1..Len(Script)
      /\ op.at \in View /\ pc \in Step /\ Node \subseteq View
      /\ \A t \in Step : Script[t].at \in Node
  BY Scripted DEF Invariant, Running, op
<1>2. PICK v, w \in Step :
         /\ v < w /\ w < pc
         /\ Script[v].kind \in StakeKinds /\ Script[v].to = op.to
         /\ Script[w].kind \in PKinds /\ Script[w].at = op.at
  BY <1>1, ScriptAssumption DEF TypeOK, op, Step
<1>3. Script[v].kind \in PKinds /\ Script[v].kind \in TxKinds /\ Script[w].kind \in TxKinds
  BY <1>2 DEF StakeKinds, PKinds, TxKinds
<1>4. w \in accepted[op.at] /\ v \in accepted["net"]
  BY <1>1, <1>2, <1>3 DEF Known, Issued
<1>5. v \in accepted[op.at]
  BY <1>1, <1>2, <1>3, <1>4 DEF InPOrder
<1> QED
  BY <1>1, <1>2, <1>5 DEF Staked

\* A delegator's node knows the validator it is to delegate to.
THEOREM DelegateesAreKnown == Spec => []DelegateeIsKnown
<1>1. Invariant => DelegateeIsKnown
  BY Delegatees
<1> QED
  BY <1>1, Inductive, PTL DEF Spec

-----------------------------------------------------------------------------
(* The runner against a network of nodes implements a run against one      *)
(* ledger: the decided history's.                                          *)

\* Accepting the transaction under way is the ledger's Apply, the return of an operation
\* its Proceed, an error its GiveUp; every other step stutters.
LEMMA StepImplementsRun ==
  ASSUME Invariant, [Next]_vars
  PROVE  [Run!RunNext]_(Run!runVars)
<1> DEFINE applied == phase # "ready" /\ pc \in accepted["net"]
<1>1. /\ TypeOK /\ Issued /\ Known /\ Payable /\ "net" \in View /\ "net" \notin Node
      /\ Node \subseteq View /\ TestNode \subseteq Node /\ pc \in Nat
      /\ \A t \in Step : Script[t].at \in Node
      /\ accepted \in [View -> SUBSET Step] /\ ledger \in [View -> [Account -> Nat]]
  BY Scripted DEF Invariant, TypeOK
<1>0. Run!TxKinds = TxKinds /\ Run!ImportKinds = ImportKinds
  BY DEF TxKinds, XKinds, PKinds, Run!TxKinds, Run!XKinds, Run!PKinds,
         ImportKinds, Run!ImportKinds
<1> USE DEF instance, Running, Step, op
<1>2. ASSUME UNCHANGED <<Script, pc, applied, ledger["net"], verdict>>
      PROVE  [Run!RunNext]_(Run!runVars)
  BY <1>2 DEF Run!runVars
<1>3. CASE Returns
  <2>1. /\ verdict = "running" /\ pc \in Step /\ pc' = pc + 1 /\ phase' = "ready"
        /\ verdict' = IF pc = Len(Script) THEN "pass" ELSE "running"
        /\ UNCHANGED <<Script, ledger>>
    BY <1>3 DEF Returns, Advance, network
  <2>2. op.kind \in TxKinds => applied
    BY <1>1, <1>3 DEF Returns, Issued
  <2>3. op.kind = "checkBalance" => ledger["net"][op.from] = op.amount
    BY <1>3, ChecksAreSettled
  <2>4. Run!Proceed
    BY <1>0, <2>1, <2>2, <2>3 DEF Run!Proceed, Run!Going, Run!this
  <2> QED
    BY <2>4 DEF Run!RunNext
<1>4. CASE Fails
  <2>1. Run!GiveUp
    BY <1>4 DEF Fails, Fail, network, Run!GiveUp, Run!Going
  <2> QED
    BY <2>1 DEF Run!RunNext
<1>5. CASE GoesOn
  <2>1. UNCHANGED <<Script, pc, verdict, ledger, accepted>>
    BY <1>5 DEF GoesOn
  <2>2. phase = "ready" => pc \notin accepted["net"]
    BY <1>1 DEF Issued
  <2>3. phase' = phase \/ phase = "ready" \/ (phase # "ready" /\ phase' # "ready")
    BY <1>5 DEF GoesOn, Issue, ImportErrorDropped, Refuse, Tick, runner
  <2>4. applied' = applied
    BY <1>5, <2>1, <2>2, <2>3
  <2> QED
    BY <1>2, <2>1, <2>4
<1>6. ASSUME NEW n \in View, NEW t \in Step, Accepts(n, t)
      PROVE  [Run!RunNext]_(Run!runVars)
  <2>1. /\ accepted' = [accepted EXCEPT ![n] = @ \cup {t}]
        /\ ledger' = [ledger EXCEPT ![n] = Move(@, t)]
        /\ UNCHANGED <<Script, pc, phase, amount, verdict>>
        /\ verdict = "running" /\ pc \in Step
    BY <1>6 DEF Accepts, Accept, runner
  <2>2. CASE n = "net" /\ t = pc /\ Settle
    <3>1. /\ phase = "await" /\ amount[pc] > 0 /\ pc \notin accepted["net"] /\ ~stale
          /\ op.kind \in TxKinds
      BY <1>1, <2>2 DEF Settle, InFlight, Issued
    <3>2. Run!Taken = amount[pc]
      BY <1>0, <1>1, <3>1 DEF Payable, Run!Taken, Run!this
    <3>3. ledger["net"][op.from] >= amount[pc]
      BY <2>1, <3>1, NetworkPays
    <3>4. ledger'["net"] = Run!Transfer(ledger["net"], op.from, op.to, amount[pc])
      BY <1>1, <2>1, <2>2 DEF Move, Transfer, Run!Transfer
    <3>5. ~applied /\ applied'
      BY <1>1, <2>1, <2>2, <3>1
    <3>6. Run!Apply
      <4>1. Run!Going /\ Run!this.kind \in Run!TxKinds
        BY <1>0, <2>1, <3>1 DEF Run!Going, Run!this
      <4> QED
        BY <2>1, <3>2, <3>3, <3>4, <3>5, <3>1, <4>1 DEF Run!Apply, Run!this
    <3> QED
      BY <3>6 DEF Run!RunNext
  <2>3. CASE n \in TestNode
    <3>1. ledger'["net"] = ledger["net"] /\ accepted'["net"] = accepted["net"]
      BY <1>1, <2>1, <2>3
    <3> QED
      BY <1>2, <2>1, <3>1
  <2> QED
    BY <1>6, <2>2, <2>3 DEF Accepts
<1>7. ASSUME NEW n \in TestNode, NEW t \in Step, Promote(n, t), UNCHANGED instance
      PROVE  [Run!RunNext]_(Run!runVars)
  BY <1>2, <1>7 DEF Promote, runner
<1>8. CASE UNCHANGED vars
  BY <1>2, <1>8 DEF vars, runner, network
<1> QED
  BY <1>1, <1>3, <1>4, <1>5, <1>6, <1>7, <1>8, StepKinds

\* The safety part of ImplementsLedger: a test's verdict means what it would mean if
\* its operations took effect one after the other on a single ledger.
THEOREM RefinesLedgerRun == SafeSpec => Run!RunSafe
<1>1. Init => Run!RunInit
  BY InvariantInit DEF Init, Run!RunInit, Invariant, TypeOK, Endowment, View
<1>2. Invariant /\ [Next]_vars => [Run!RunNext]_(Run!runVars)
  BY StepImplementsRun
<1> QED
  BY <1>1, <1>2, Inductive, PTL DEF SafeSpec, Run!RunSafe

-----------------------------------------------------------------------------
(* Without faults.                                                         *)

\* The books of a script follow its operations.
LEMMA BooksFollow ==
  ASSUME NEW script \in Programs
  PROVE  /\ Books(script)[0] = Endowment
         /\ \A k \in 1..Len(script) : Books(script)[k] = After(Books(script)[k - 1], script[k])
<1> DEFINE Follows(b, m) ==
             b = [k \in 0..m |-> IF k = 0 THEN Endowment ELSE After(b[k - 1], script[k])]
           T == {m \in 0..Len(script) : ~ \E b : Follows(b, m)}
<1>1. Len(script) \in Nat
  BY RPCWorkflowAssumption
<1>2. ASSUME T # {} PROVE FALSE
  <2>1. PICK m \in T : \A k \in T : m <= k
    <3>1. T \in SUBSET Nat
      BY <1>1
    <3> HIDE DEF T
    <3> QED
      BY <1>2, <3>1, LeastNumber
  <2>2. CASE m = 0
    <3>1. Follows([k \in 0..0 |-> Endowment], 0)
      OBVIOUS
    <3> QED
      BY <2>1, <2>2, <3>1
  <2>3. CASE m # 0
    <3>1. m - 1 \in 0..Len(script) /\ m - 1 \notin T
      <4>1. m \in 0..Len(script)
        BY <2>1
      <4> HIDE DEF T
      <4> QED
        BY <1>1, <2>1, <2>3, <4>1
    <3>2. PICK b : Follows(b, m - 1)
      BY <3>1
    <3> DEFINE e == [k \in 0..m |-> IF k = m THEN After(b[m - 1], script[m]) ELSE b[k]]
    <3>3. ASSUME NEW k \in 0..m
          PROVE  e[k] = IF k = 0 THEN Endowment ELSE After(e[k - 1], script[k])
      <4>1. m \in Nat /\ k \in Nat
        BY <1>1, <2>1
      <4>2. CASE k = m
        BY <2>3, <4>1, <4>2
      <4>3. CASE k # m
        <5>1. b[k] = IF k = 0 THEN Endowment ELSE After(b[k - 1], script[k])
          BY <3>2, <4>1, <4>3
        <5>2. e[k] = b[k] /\ (k # 0 => e[k - 1] = b[k - 1])
          BY <4>1, <4>3
        <5> HIDE DEF e
        <5> QED
          BY <5>1, <5>2
      <4> QED
        BY <4>2, <4>3
    <3>4. Follows(e, m)
      <4>1. e = [k \in 0..m |-> e[k]]
        OBVIOUS
      <4> HIDE DEF e
      <4> QED
        BY <3>3, <4>1
    <3> QED
      BY <2>1, <3>4
  <2> QED
    BY <2>2, <2>3
<1>3. \E b : Follows(b, Len(script))
  BY <1>1, <1>2
<1>4. Books(script) = CHOOSE b : Follows(b, Len(script))
  BY DEF Books
<1>5. Follows(Books(script), Len(script))
  <2> HIDE DEF Follows
  <2> QED
    BY <1>3, <1>4
<1>6. ASSUME NEW b, Follows(b, Len(script))
      PROVE  b[0] = Endowment /\ \A k \in 1..Len(script) : b[k] = After(b[k - 1], script[k])
  BY <1>1, <1>6
<1> QED
  BY <1>5, <1>6

\* Where the decided history stands in the script's books.
Settled == IF phase # "ready" /\ pc \in accepted["net"] THEN pc ELSE pc - 1

\* Without faults the decided history keeps to the script's books, every operation is
\* issued, and nothing is refused.
Sound ==
    Faults = {} =>
        /\ ~refused
        /\ phase = "await" => amount[pc] > 0
        /\ ledger["net"] = Books(Script)[Settled]
        /\ FailuresAreStaleReads

\* The node of a transaction can build it, as it has heard of its funds.
LEMMA SoundIssues ==
  ASSUME Invariant, Sound, Faults = {}, Running, phase = "ready", op.kind \in TxKinds
  PROVE  Issuable
<1>1. /\ TypeOK /\ Issued /\ Known /\ Shown /\ Synced /\ Prompt
      /\ Step = 1..Len(Script) /\ pc \in Step /\ "net" \in View /\ Node \subseteq View
      /\ op.at \in Node /\ op.at \in TestNode /\ op.from \in Account
      /\ Script \in Programs /\ pc \in Nat /\ accepted \in [View -> SUBSET Step]
  BY Scripted DEF Invariant, Running, op, Prompt, TypeOK
<1> DEFINE book == Books(Script)[pc - 1]
<1>2. ledger["net"] = book
  BY DEF Sound, Settled
<1>3. /\ book[op.from] > 0 /\ op.amount <= book[op.from]
      /\ op.kind \notin ImportKinds => op.amount > 0
  BY <1>1, ScriptsAddUp DEF op, Step
<1>4. ASSUME NEW t \in Pending(op.at), Script[t].to = op.from PROVE FALSE
  <2>1. t \in Step /\ t < pc /\ Script[t].kind \in TxKinds /\ t \in accepted["net"]
    BY <1>1, <1>4 DEF Pending, Issued
  <2>2. t \in Transactions(Script) /\ pc \in Transactions(Script)
    BY <1>1, <2>1 DEF Transactions, Step, op
  <2>3. CASE Script[t].at = op.at
    BY <1>1, <1>4, <2>1, <2>3 DEF Known, Pending
  <2>4. CASE Revealed(Script, t, op.at, pc - 1)
    <3>1. PICK c \in 1..(pc - 1) : Script[c].at = op.at /\ Reveals(Script, c, t)
      BY <2>4 DEF Revealed
    <3>2. c \in Step /\ c < pc
      BY <1>1, <3>1
    <3> QED
      BY <1>1, <1>4, <2>1, <3>1, <3>2 DEF Shown, Pending
  <2>5. CASE StakingBetween(Script, t, pc)
    <3>1. PICK s \in t..(pc - 1) : Script[s].kind \in StakeKinds
      BY <2>5 DEF StakingBetween
    <3>2. s \in Step /\ s < pc /\ t <= s
      BY <1>1, <2>1, <3>1
    <3> QED
      BY <1>1, <1>4, <2>1, <3>1, <3>2 DEF Synced, Pending
  <2> QED
    BY <1>1, <1>4, <2>1, <2>2, <2>3, <2>4, <2>5, FundsAreKnown DEF op
<1>5. ledger["net"][op.from] <= ledger[op.at][op.from]
  BY <1>1, <1>4, PendingMoves
<1>6. /\ ledger["net"][op.from] \in Nat /\ ledger[op.at][op.from] \in Nat
      /\ op.amount \in Nat
  BY <1>1, Scripted DEF TypeOK, op
<1>7. Spend > 0 /\ ledger[op.at][op.from] >= Spend
  <2> HIDE DEF book
  <2> QED
    BY <1>2, <1>3, <1>5, <1>6 DEF Spend
<1>8. op.kind = "addDelegator" => ledger[op.at][op.to] > 0
  BY Delegatees DEF DelegateeIsKnown
<1> QED
  BY <1>7, <1>8 DEF Issuable

\* A check fails only on a balance that its node has not been paid yet.
LEMMA SoundChecks ==
  ASSUME Invariant, Sound, Faults = {}, CheckFails
  PROVE  /\ op.kind = "checkBalance"
         /\ \E t \in Pending(op.at) : Script[t].to = op.from /\ Script[t].at # op.at
<1>1. /\ TypeOK /\ Issued /\ Known /\ Shown /\ Synced /\ Prompt
      /\ Step = 1..Len(Script) /\ pc \in Step /\ Node \subseteq View /\ "net" \in View
      /\ op.at \in Node /\ op.at \in TestNode /\ op.from \in Account
      /\ Script \in Programs /\ pc \in Nat
      /\ accepted \in [View -> SUBSET Step] /\ active \in [Node -> SUBSET Step]
  BY Scripted DEF Invariant, Running, CheckFails, op, Prompt, TypeOK
<1>2. phase = "ready" /\ op.kind \in CheckKinds /\ ~CheckHolds(op.at)
  BY DEF CheckFails
<1>3. CASE op.kind = "checkStakers"
  <2>1. op.amount = 5 + Cardinality({t \in 1..(pc - 1) : Script[t].kind = "addValidator"})
    BY <1>1, <1>3, ScriptsAddUp DEF op, Step
  <2>2. \A t \in active[op.at] : t \in 1..(pc - 1)
    <3>1. \A t \in active[op.at] : t \in accepted[op.at] /\ t \in Step
      BY <1>1 DEF Issued
    <3>2. \A t \in accepted[op.at] : t <= pc /\ amount[t] > 0
      BY <1>1 DEF Issued
    <3>3. amount[pc] = 0
      BY <1>1, <1>2 DEF Issued
    <3> QED
      BY <1>1, <3>1, <3>2, <3>3
  <2>3. \A t \in 1..(pc - 1) : Script[t].kind = "addValidator" => t \in active[op.at]
    BY <1>1 DEF Synced, StakeKinds
  <2>4. {t \in 1..(pc - 1) : Script[t].kind = "addValidator"}
           = {t \in active[op.at] : Script[t].kind = "addValidator"}
    BY <2>2, <2>3
  <2>5. CurrentStakers(op.at) = op.amount
    BY <2>1, <2>4 DEF CurrentStakers
  <2> QED
    BY <1>2, <1>3, <2>5 DEF CheckHolds
<1>4. CASE op.kind = "checkBalance"
  <2>1. ledger[op.at][op.from] # op.amount
    BY <1>2, <1>4 DEF CheckHolds
  <2>2. ledger["net"][op.from] = op.amount
    BY <1>1, <1>2, <1>4, ScriptsAddUp DEF op, Step, Sound, Settled
  <2>3. PICK t \in Pending(op.at) : op.from \in {Script[t].from, Script[t].to}
    BY <1>1, <2>1, <2>2, SameTransactionsSameBalance
  <2>4. t \in Step /\ t < pc /\ Script[t].kind \in TxKinds
    BY <1>1, <1>2, <2>3 DEF Pending, Issued
  <2>5. Script[t].at # op.at
    BY <1>1, <2>3, <2>4 DEF Known, Pending
  <2>6. t \in Touching(Script, op.from, pc)
    BY <1>1, <2>3, <2>4 DEF Touching, Transactions, Step
  <2>7. Revealed(Script, t, op.at, pc)
    BY <1>1, <1>4, <2>5, <2>6, ScriptAssumption DEF op, Step
  <2>8. PICK c \in 1..pc : Script[c].at = op.at /\ Reveals(Script, c, t)
    BY <2>7 DEF Revealed
  <2>9. c = pc
    <3>1. c \in Step
      BY <1>1, <2>8
    <3> QED
      BY <1>1, <2>3, <2>4, <2>8, <3>1 DEF Shown, Pending
  <2>10. Script[t].to = op.from
    BY <2>8, <2>9 DEF Reveals, op
  <2> QED
    BY <1>4, <2>5, <2>10
<1> QED
  BY <1>2, <1>3, <1>4 DEF CheckKinds

\* Without faults no other operation fails.
LEMMA SoundFails ==
  ASSUME Invariant, Sound, Faults = {}, Fails
  PROVE  CheckFails
<1>1. /\ TypeOK /\ Issued /\ Synced /\ Prompt /\ AcceptLag < Timeout
      /\ AcceptLag \in Nat /\ Timeout \in Nat /\ clock \in Nat
  BY RPCWorkflowAssumption DEF Invariant, Prompt, TypeOK
<1>2. ~IssueFails
  BY SoundIssues DEF IssueFails, CannotIssue
<1>3. ~AwaitUnknown
  BY DEF AwaitUnknown, Sound
<1>4. ~AwaitRejected
  BY DEF AwaitRejected, Sound
<1>5. ~AwaitTimesOut
  BY <1>1 DEF AwaitTimesOut, Synced
<1>6. ~RequestFails
  BY DEF RequestFails
<1> QED
  BY <1>2, <1>3, <1>4, <1>5, <1>6 DEF Fails

LEMMA SoundStep ==
  ASSUME Invariant, Sound, [Next]_vars
  PROVE  Sound'
<1>1. SUFFICES ASSUME Faults = {}, Faults' = Faults, Script' = Script PROVE Sound'
  <2>1. TypeOK /\ Faults' = Faults /\ Script' = Script
    BY StepKinds DEF Invariant, Returns, Fails, GoesOn, Accepts, vars, instance
  <2> QED
    BY <2>1 DEF Sound
<1>2. /\ TypeOK /\ Issued /\ Payable /\ Synced /\ Prompt
      /\ Step = 1..Len(Script) /\ "net" \in View /\ "net" \notin Node
      /\ Node \subseteq View /\ TestNode \subseteq Node /\ Script \in Programs /\ pc \in Nat
      /\ \A t \in Step : Script[t].at \in Node
      /\ accepted \in [View -> SUBSET Step] /\ ledger \in [View -> [Account -> Nat]]
      /\ ~refused /\ phase = "await" => amount[pc] > 0
      /\ ledger["net"] = Books(Script)[Settled] /\ FailuresAreStaleReads
  BY <1>1, Scripted DEF Invariant, Prompt, TypeOK, Sound
<1> USE <1>1 DEF instance, Running, op
<1>3. ASSUME UNCHANGED <<pc, phase, amount, refused, ledger, accepted["net"], verdict>>,
             verdict = "running"
      PROVE  Sound'
  BY <1>2, <1>3 DEF Sound, Settled, FailuresAreStaleReads
<1>4. CASE Returns
  <2>1. /\ pc' = pc + 1 /\ phase' = "ready" /\ verdict' # "fail" /\ pc \in Step
        /\ UNCHANGED <<refused, ledger, accepted>>
    BY <1>4 DEF Returns, Advance, network
  <2>2. Settled' = pc
    BY <1>2, <2>1 DEF Settled
  <2>3. Books(Script)[pc] = Books(Script)[Settled]
    <3>1. CASE phase = "ready"
      <4>1. op.kind \notin TxKinds /\ Settled = pc - 1
        BY <1>4, <3>1 DEF Returns, Settled
      <4> QED
        BY <1>2, <2>1, <4>1, BooksFollow DEF After
    <3>2. CASE phase # "ready"
      <4>1. pc \in accepted["net"]
        BY <1>2, <1>4, <3>2 DEF Returns, Issued
      <4> QED
        BY <3>2, <4>1 DEF Settled
    <3> QED
      BY <3>1, <3>2
  <2> QED
    BY <1>2, <2>1, <2>2, <2>3 DEF Sound, FailuresAreStaleReads
<1>5. CASE Fails
  <2>1. CheckFails
    BY <1>5, SoundFails
  <2>2. UNCHANGED <<pc, phase, amount, refused, ledger, accepted>>
    BY <1>5 DEF Fails, Fail, network
  <2>3. FailuresAreStaleReads'
    BY <2>1, <2>2, SoundChecks DEF FailuresAreStaleReads, Pending
  <2> QED
    BY <1>2, <2>2, <2>3 DEF Sound, Settled
<1>6. CASE GoesOn
  <2>1. verdict = "running" /\ UNCHANGED <<pc, verdict, accepted, ledger>> /\ pc \in Step
    BY <1>6 DEF GoesOn
  <2>2. CASE Issue
    <3>1. /\ phase = "ready" /\ phase' = "await" /\ ~refused' /\ amount'[pc] > 0
      BY <1>2, <2>2 DEF Issue, Issuable, TypeOK
    <3>2. pc \notin accepted["net"]
      BY <1>2, <3>1 DEF Issued
    <3> QED
      BY <1>2, <2>1, <3>1, <3>2 DEF Sound, Settled, FailuresAreStaleReads
  <2>3. CASE ImportErrorDropped
    BY <2>3, SoundIssues DEF ImportErrorDropped, CannotIssue
  <2>4. CASE /\ phase = "await" /\ phase' = "sleep" /\ UNCHANGED <<clock, amount, stale, network>>
    BY <1>2, <2>1, <2>4 DEF Sound, Settled, FailuresAreStaleReads, network
  <2>5. CASE Refuse
    <3>1. ~stale /\ ~TooLate
      BY <1>2, <2>5, RPCWorkflowAssumption DEF Refuse, InFlight, Synced, TooLate, TypeOK
    <3> QED
      BY <2>5, <3>1 DEF Refuse
  <2>6. CASE Tick
    BY <1>3, <2>1, <2>6 DEF Tick, network
  <2> QED
    BY <1>6, <2>2, <2>3, <2>4, <2>5, <2>6 DEF GoesOn
<1>7. ASSUME NEW n \in View, NEW t \in Step, Accepts(n, t)
      PROVE  Sound'
  <2>1. /\ accepted' = [accepted EXCEPT ![n] = @ \cup {t}]
        /\ ledger' = [ledger EXCEPT ![n] = Move(@, t)]
        /\ UNCHANGED <<pc, phase, amount, refused, verdict>>
        /\ verdict = "running" /\ pc \in Step
    BY <1>7 DEF Accepts, Accept, runner
  <2>2. CASE n = "net" /\ t = pc /\ Settle
    <3>1. /\ phase = "await" /\ amount[pc] > 0 /\ pc \notin accepted["net"]
          /\ op.kind \in TxKinds
      BY <1>2, <2>2 DEF Settle, InFlight, Issued
    <3>2. Settled = pc - 1 /\ Settled' = pc
      BY <1>2, <2>1, <2>2, <3>1 DEF Settled
    <3>3. ledger'["net"] = After(ledger["net"], op)
      BY <1>2, <2>1, <2>2, <3>1 DEF Payable, After, Move
    <3>4. ledger'["net"] = Books(Script)[pc]
      BY <1>2, <2>1, <3>2, <3>3, BooksFollow
    <3> QED
      BY <1>2, <2>1, <3>2, <3>4 DEF Sound, FailuresAreStaleReads
  <2>3. CASE n \in TestNode
    <3>1. ledger'["net"] = ledger["net"] /\ accepted'["net"] = accepted["net"]
      BY <1>2, <2>1, <2>3
    <3> QED
      BY <1>2, <2>1, <3>1 DEF Sound, Settled, FailuresAreStaleReads
  <2> QED
    BY <1>7, <2>2, <2>3 DEF Accepts
<1>8. ASSUME NEW n \in TestNode, NEW t \in Step, Promote(n, t), UNCHANGED instance
      PROVE  Sound'
  BY <1>3, <1>8 DEF Promote, runner
<1>9. CASE UNCHANGED vars
  BY <1>2, <1>9 DEF vars, runner, network, Sound, Settled, FailuresAreStaleReads
<1> QED
  BY <1>2, <1>4, <1>5, <1>6, <1>7, <1>8, <1>9, StepKinds

\* On a network without faults a test fails only on a balance that it checks on another
\* node than the one it was paid from, before that node has heard of the payment.
THEOREM FailuresExplained == Spec => []FailuresAreStaleReads
<1>1. ASSUME Init PROVE Sound
  <2>1. Script \in Programs /\ "net" \in View
    BY <1>1, InvariantInit, Scripted DEF Invariant, TypeOK
  <2>2. Settled = 0 /\ ledger["net"] = Endowment
    BY <1>1, <2>1 DEF Init, Settled
  <2>3. ledger["net"] = Books(Script)[Settled]
    BY <2>1, <2>2, BooksFollow
  <2> QED
    BY <1>1, <2>3 DEF Init, Sound, FailuresAreStaleReads
<1>2. Invariant /\ Sound /\ [Next]_vars => Sound'
  BY SoundStep
<1>3. ASSUME Invariant, Sound PROVE FailuresAreStaleReads
  BY <1>3 DEF Sound, FailuresAreStaleReads
<1> QED
  BY <1>1, <1>2, <1>3, Inductive, PTL DEF Spec, SafeSpec
=============================================================================
