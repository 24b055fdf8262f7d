----------------------------- MODULE RPCWorkflow ----------------------------
(***************************************************************************)
(* The RPC workflow runner executing a script against a network of nodes.  *)
(* The runner issues one operation at a time on the node the operation     *)
(* names and waits, on that node, for the transaction to be accepted.  The *)
(* other nodes learn of it later, each at its own pace, so what one node   *)
(* tells the runner another may not know yet.                              *)
(*                                                                         *)
(* "net" is the decided history: a transaction is accepted there first.    *)
(* The waiting itself is AwaitTx's subject; here an await is a choice      *)
(* among the outcomes TxWait allows.  The network's side (Settle, Refuse,  *)
(* Learn, Promote) is avalanchego's, modelled from how the runner uses it. *)
(***************************************************************************)
EXTENDS Naturals, Sequences, FiniteSets, Scripts

CONSTANTS
    Tests,         \* the tests: what each does, and the faults it may meet
    Node,          \* the nodes the runner talks to
    Owner,         \* the owners of accounts
    Genesis,       \* what the genesis key owns on the X-Chain
    StakingDelay,  \* DefaultStakingDelay = DefaultDelegationDelay
    SyncDelay,     \* stakingPeriodSynchronyDelay
    Timeout,       \* networkAcceptanceTimeout
    AcceptLag,     \* a prompt network shows an acceptance within this time
    PromoteLag     \* and is up to date this long after a staking period begins

Account == Owner \X Place
View == Node \cup {"net"}
Fault == {"request", "reject", "slow"}
Programs == {test.script : test \in Tests}

ASSUME RPCWorkflowAssumption ==
    /\ \A test \in Tests : test.faults \subseteq Fault
    /\ Programs \subseteq Seq([kind : TxKinds \cup CheckKinds \cup {"call"}, at : Node,
                               from : Account, to : Account, amount : Nat])
    /\ "net" \notin Node
    /\ "genesis" \in Owner
    /\ Genesis \in Nat
    /\ StakingDelay \in Nat /\ SyncDelay \in Nat /\ Timeout \in Nat /\ AcceptLag \in Nat
    /\ PromoteLag \in Nat /\ PromoteLag < SyncDelay
    /\ AcceptLag < StakingDelay /\ AcceptLag < Timeout

\* What a script of the tests is like.  Its transactions, and those that involve an
\* account before a step.
Transactions(script) == {t \in DOMAIN script : script[t].kind \in TxKinds}
Touching(script, account, step) ==
    {t \in Transactions(script) : t < step /\ account \in {script[t].from, script[t].to}}

\* A staking operation is between two steps: it waits until its period has begun.
StakingBetween(script, t, u) == \E s \in t..(u - 1) : script[s].kind \in StakeKinds

\* The genesis key owns everything when the network starts.
Endowment == [a \in Account |-> IF a = <<"genesis", "X">> THEN Genesis ELSE 0]

\* A check at step c that its node can only pass if it knows transaction t, since
\* nothing else has brought the account what is expected.
Reveals(script, c, t) ==
    /\ script[c].kind = "checkBalance" /\ Touching(script, script[c].from, c) = {t}
    /\ script[t].to = script[c].from
    /\ script[c].amount # Endowment[script[c].from]

Revealed(script, t, at, u) == \E c \in 1..u : script[c].at = at /\ Reveals(script, c, t)

\* What an operation makes of the balances, and what the accounts hold after each of a
\* script's, if they take effect in turn.
After(book, o) ==
    IF o.kind \notin TxKinds THEN book
    ELSE Transfer(book, o.from, o.to, IF o.kind \in ImportKinds THEN book[o.from] ELSE o.amount)
Books(script) ==
    LET book[k \in 0..Len(script)] == IF k = 0 THEN Endowment ELSE After(book[k - 1], script[k])
    IN  book

\* Stakes are never spent; what is imported is involved in nothing but the exports and
\* imports of the same node; a delegation names a validator of before the last P-Chain
\* transaction of its node; what a node checks has been moved by itself, or has shown
\* there.
ASSUME ScriptAssumption ==
    \A script \in Programs : \A u \in DOMAIN script : LET o == script[u] IN
        /\ o.kind \in TxKinds => o.from[2] # "stake"
        /\ o.kind \in StakeKinds => o.to[2] = "stake"
        /\ o.kind \in ImportKinds =>
              \A t \in Transactions(script) :
                 o.from \in {script[t].from, script[t].to} => script[t].at = o.at
        /\ o.kind = "addDelegator" =>
              \E v, w \in DOMAIN script :
                 /\ v < w /\ w < u
                 /\ script[v].kind \in StakeKinds /\ script[v].to = o.to
                 /\ script[w].kind \in PKinds /\ script[w].at = o.at
        /\ o.kind = "checkBalance" =>
              \A t \in Touching(script, o.from, u) :
                 script[t].at = o.at \/ Revealed(script, t, o.at, u)

\* Spends of one account by two nodes have a staking operation between them.
ASSUME SpendsAreSpaced ==
    \A script \in Programs : \A t, u \in Transactions(script) :
        t < u /\ script[t].from = script[u].from =>
            script[t].at = script[u].at \/ StakingBetween(script, t, u)

\* A script's own arithmetic is right: its transfers are covered, and its checks expect
\* what they have made of the balances and the stakers.
ASSUME ScriptsAddUp ==
    \A script \in Programs : \A u \in DOMAIN script :
        LET o == script[u] book == Books(script)[u - 1] IN
        /\ o.kind \in TxKinds => /\ book[o.from] > 0 /\ o.amount <= book[o.from]
                                 /\ o.kind \notin ImportKinds => o.amount > 0
        /\ o.kind = "checkBalance" => o.amount = book[o.from]
        /\ o.kind = "checkStakers" =>
              o.amount = 5 + Cardinality({t \in 1..(u - 1) : script[t].kind = "addValidator"})

\* The node of a transaction has heard of the funds it spends: they came by its own
\* operations, or have shown there, or came before a staking period.
ASSUME FundsAreKnown ==
    \A script \in Programs : \A t, u \in Transactions(script) :
        t < u /\ script[t].to = script[u].from =>
            \/ script[t].at = script[u].at
            \/ Revealed(script, t, script[u].at, u - 1)
            \/ StakingBetween(script, t, u)

VARIABLES
    Script,    \* the script of the test that runs
    Faults,    \* which faults its run may meet
    pc,        \* the operation under way
    phase,     \* "ready" to issue it, in its "await", or in the staking "sleep"
    clock,     \* time since it was issued
    amount,    \* what the transaction of each operation moves, 0 if not issued
    stale,     \* the transaction under way spends an output already spent
    refused,   \* it was rejected, dropped or aborted
    accepted,  \* the transactions each node has accepted
    ledger,    \* the balance of each account at each node
    active,    \* the staking operations each node counts as begun
    verdict    \* "running", "pass" or "fail"

instance == <<Script, Faults>>
runner == <<pc, phase, clock, amount, stale, verdict>>
network == <<refused, accepted, ledger, active>>
vars == <<instance, runner, network>>

Step == DOMAIN Script
TestNode == {Script[t].at : t \in Step}
Running == verdict = "running" /\ pc \in Step
op == Script[pc]
Prompt == "slow" \notin Faults

Init == /\ \E test \in Tests : Script = test.script /\ Faults = test.faults
        /\ pc = 1 /\ phase = "ready" /\ clock = 0
        /\ amount = [t \in Step |-> 0]
        /\ stale = FALSE /\ refused = FALSE
        /\ accepted = [n \in View |-> {}]
        /\ ledger = [n \in View |-> Endowment]
        /\ active = [n \in Node |-> {}]
        /\ verdict = "running"

-----------------------------------------------------------------------------
(* The runner.                                                             *)

\* The operation returned nil; the test goes on, or ends.
Advance == /\ pc' = pc + 1
           /\ phase' = "ready" /\ clock' = 0 /\ stale' = FALSE
           /\ verdict' = IF pc = Len(Script) THEN "pass" ELSE "running"
           /\ UNCHANGED amount

\* Mutant: the error is logged and the test goes on.
FailAndGoOn == Advance

\* The operation returned an error: the test ends.
Fail == verdict' = "fail" /\ UNCHANGED <<pc, phase, clock, amount, stale>>

\* A keystore, address or node ID request, or the reading of the stakers.
CallReturns == /\ Running /\ phase = "ready" /\ op.kind = "call"
               /\ Advance
               /\ UNCHANGED network

\* What the node of the operation would put into the transaction.
Spend == IF op.kind \in ImportKinds THEN ledger[op.at][op.from] ELSE op.amount

\* The node can build the transaction from what it has accepted itself.
Issuable == /\ Spend > 0 /\ ledger[op.at][op.from] >= Spend
            /\ op.kind = "addDelegator" => ledger[op.at][op.to] > 0

\* An account's outputs are spent in turn: the transaction conflicts if the
\* network has accepted a spend of the account that the node does not know.
Conflicts == \E t \in accepted["net"] \ accepted[op.at] :
                t \in Step /\ Script[t].from = op.from

Issue == /\ Running /\ phase = "ready" /\ op.kind \in TxKinds
         /\ Issuable
         /\ phase' = "await" /\ clock' = 0
         /\ amount' = [amount EXCEPT ![pc] = Spend]
         /\ stale' = Conflicts
         /\ refused' = FALSE
         /\ UNCHANGED <<pc, verdict, accepted, ledger, active>>

CannotIssue == /\ Running /\ phase = "ready" /\ op.kind \in TxKinds
               /\ ~Issuable \/ "request" \in Faults

IssueFails == CannotIssue /\ op.kind # "importX" /\ Fail /\ UNCHANGED network

\* TransferAvaPChainToXChain drops the error of ImportAVAX and awaits the
\* transaction ID it did not get.
ImportErrorDropped == /\ CannotIssue /\ op.kind = "importX"
                      /\ phase' = "await"
                      /\ UNCHANGED <<pc, clock, amount, stale, verdict, network>>

\* Such an await fails or polls an unknown ID until it times out.
AwaitUnknown == /\ Running /\ phase = "await" /\ amount[pc] = 0
                /\ Fail
                /\ UNCHANGED network

\* Mutant: the status is asked of some other node of the network.
AwaitAnywhere == /\ Running /\ phase = "await" /\ pc \in accepted["net"]
                 /\ IF op.kind \in StakeKinds
                    THEN phase' = "sleep" /\ UNCHANGED <<pc, clock, amount, stale, verdict>>
                    ELSE Advance
                 /\ UNCHANGED network

\* Mutant: a staking operation returns once its transaction is accepted.
AwaitWithoutSleep == /\ Running /\ phase = "await" /\ pc \in accepted[op.at]
                     /\ Advance
                     /\ UNCHANGED network

\* The await sees the acceptance; a staking operation then sleeps until its
\* period has begun.
AwaitOk == /\ Running /\ phase = "await" /\ pc \in accepted[op.at]
           /\ IF op.kind \in StakeKinds
              THEN phase' = "sleep" /\ UNCHANGED <<pc, clock, amount, stale, verdict>>
              ELSE Advance
           /\ UNCHANGED network

AwaitRejected == /\ Running /\ phase = "await" /\ refused
                 /\ Fail
                 /\ UNCHANGED network

\* Mutant: a timeout returns nil, as on the C-Chain.
AwaitGivesUp == /\ Running /\ phase = "await" /\ clock >= Timeout
                /\ Advance
                /\ UNCHANGED network

\* Its last poll may have come just before the acceptance.
AwaitTimesOut == /\ Running /\ phase = "await" /\ clock >= Timeout
                 /\ Fail
                 /\ UNCHANGED network

\* Mutant: the sleep leaves out stakingPeriodSynchronyDelay.
WakeAtStart == /\ Running /\ phase = "sleep" /\ clock >= StakingDelay
               /\ Advance
               /\ UNCHANGED network

\* time.Sleep(time.Until(stakingStartTime) + stakingPeriodSynchronyDelay) ends.
Wake == /\ Running /\ phase = "sleep" /\ clock >= StakingDelay + SyncDelay
        /\ Advance
        /\ UNCHANGED network

\* The genesis configuration comes with five stakers.
CurrentStakers(n) == 5 + Cardinality({t \in active[n] : Script[t].kind = "addValidator"})

\* What a verification reads on its node is what the test expects.
CheckHolds(n) == IF op.kind = "checkStakers" THEN CurrentStakers(n) = op.amount
                                             ELSE ledger[n][op.from] = op.amount

CheckPasses == /\ Running /\ phase = "ready" /\ op.kind \in CheckKinds
               /\ CheckHolds(op.at)
               /\ Advance
               /\ UNCHANGED network

CheckFails == /\ Running /\ phase = "ready" /\ op.kind \in CheckKinds
              /\ ~CheckHolds(op.at)
              /\ Fail
              /\ UNCHANGED network

\* Any other request of the operation fails.
RequestFails == /\ Running /\ "request" \in Faults
                /\ \/ phase = "ready" /\ op.kind \notin TxKinds
                   \/ phase = "await"
                /\ Fail
                /\ UNCHANGED network

-----------------------------------------------------------------------------
(* The network.                                                            *)

Move(balance, t) == Transfer(balance, Script[t].from, Script[t].to, amount[t])

Accept(n, t) == /\ accepted' = [accepted EXCEPT ![n] = @ \cup {t}]
                /\ ledger' = [ledger EXCEPT ![n] = Move(@, t)]
                /\ UNCHANGED <<runner, refused, active>>

InFlight == /\ Running /\ phase = "await" /\ amount[pc] > 0
            /\ pc \notin accepted["net"] /\ ~refused

\* A stake is accepted only before the period it asks for begins.
TooLate == op.kind \in StakeKinds /\ clock >= StakingDelay

Settle == InFlight /\ ~stale /\ ~TooLate /\ Accept("net", pc)

Refuse == /\ InFlight
          /\ stale \/ TooLate \/ "reject" \in Faults
          /\ refused' = TRUE
          /\ UNCHANGED <<runner, accepted, ledger, active>>

\* Mutant: transactions are accepted before their inputs.
LearnInAnyOrder(n, t) ==
    /\ Running
    /\ t \in accepted["net"] \ accepted[n]
    /\ Accept(n, t)

\* A node accepts what the network has decided, its inputs first: the spends of
\* one account in turn, and the P-Chain's blocks in their one order.
Learn(n, t) ==
    /\ Running
    /\ t \in accepted["net"] \ accepted[n]
    /\ \A u \in accepted["net"] \ accepted[n] : u < t =>
          /\ Script[u].from # Script[t].from
          /\ ~(Script[u].kind \in PKinds /\ Script[t].kind \in PKinds)
    /\ ledger[n][Script[t].from] >= amount[t]
    /\ Accept(n, t)

\* The chain time of a node passes the start of a staking period.
Promote(n, t) ==
    /\ Running
    /\ t \in accepted[n] \ active[n] /\ Script[t].kind \in StakeKinds
    /\ t = pc => clock >= StakingDelay
    /\ active' = [active EXCEPT ![n] = @ \cup {t}]
    /\ UNCHANGED <<runner, refused, accepted, ledger>>

CaughtUp(n) == accepted["net"] \subseteq accepted[n]

\* On a prompt network an operation's outcome shows within AcceptLag, and every
\* node has learned and begun a staking period PromoteLag after its start.
Tick == /\ Running
        /\ \/ phase = "await" /\ clock < IF Prompt THEN AcceptLag ELSE Timeout
           \/ /\ phase = "sleep" /\ clock < StakingDelay + SyncDelay
              /\ Prompt /\ clock >= StakingDelay + PromoteLag =>
                    \A n \in TestNode : CaughtUp(n) /\ pc \in active[n]
        /\ clock' = clock + 1
        /\ UNCHANGED <<pc, phase, amount, stale, verdict, network>>

-----------------------------------------------------------------------------

Runner == \/ CallReturns \/ Issue \/ IssueFails \/ ImportErrorDropped
          \/ AwaitUnknown \/ AwaitOk \/ AwaitRejected \/ AwaitTimesOut
          \/ Wake \/ CheckPasses \/ CheckFails \/ RequestFails

Network == \/ Settle \/ Refuse
           \/ \E n \in TestNode, t \in Step : Learn(n, t) \/ Promote(n, t)

Terminated == verdict # "running" /\ UNCHANGED vars

Next == (Runner \/ Network \/ Tick \/ Terminated) /\ UNCHANGED instance

SafeSpec == Init /\ [][Next]_vars

\* Neither the runner nor the clock nor the network stops while it can go on.
Spec == SafeSpec /\ WF_vars((Runner \/ Network \/ Tick) /\ UNCHANGED instance)
-----------------------------------------------------------------------------

\* The runner's and the network's variables have their types.  That no balance
\* is negative, the network's least of all, is due to what Issue and Learn ask.
TypeOK ==
    /\ Script \in Programs /\ Faults \subseteq Fault
    /\ pc \in 1..(Len(Script) + 1)
    /\ phase \in {"ready", "await", "sleep"}
    /\ clock \in Nat
    /\ amount \in [Step -> Nat]
    /\ stale \in BOOLEAN /\ refused \in BOOLEAN
    /\ accepted \in [View -> SUBSET Step]
    /\ ledger \in [View -> [Account -> Nat]]
    /\ active \in [Node -> SUBSET Step]
    /\ verdict \in {"running", "pass", "fail"}

\* A pass is earned: whatever errors were dropped or polls missed, a test passes
\* only if the network accepted every transaction of its script.
PassIsEarned ==
    verdict = "pass" => \A t \in Step : Script[t].kind \in TxKinds => t \in accepted["net"]

\* The accounts only node n's operations touch.
OwnAccount(n, a) ==
    \A t \in Step : Script[t].kind \in TxKinds /\ a \in {Script[t].from, Script[t].to}
                        => Script[t].at = n

\* Read your own writes: when the runner is between two operations, a node knows
\* the settled balance of every account that only its own operations touch.  It is
\* what makes verifying a balance right after an await sound, on that node.
ReadYourWrites ==
    Running /\ phase = "ready" =>
        \A n \in TestNode, a \in Account : OwnAccount(n, a) => ledger[n][a] = ledger["net"][a]

\* On a network without faults a test fails only because it reads a balance on one
\* node after awaiting the credit on another that is ahead of it (the delegator's
\* first balance in the workflow test).
FailuresAreStaleReads ==
    Faults = {} /\ verdict = "fail" =>
        /\ op.kind = "checkBalance"
        /\ \E t \in accepted["net"] \ accepted[op.at] :
              Script[t].to = op.from /\ Script[t].at # op.at

\* "blocks until the transaction is confirmed and the delegation period begins":
\* once AddValidator or AddDelegator has returned, its node counts the staker, if
\* the network is prompt.
BlocksUntilActive ==
    Prompt => \A t \in Step : t < pc /\ Script[t].kind \in StakeKinds
                                => t \in active[Script[t].at]

\* The delegator's node knows the validator by the time it is asked to delegate to
\* it, although nobody awaited the validator's transaction there: the import it
\* has just awaited comes later in the P-Chain's one order.
DelegateeIsKnown ==
    Running /\ phase = "ready" /\ op.kind = "addDelegator" => ledger[op.at][op.to] > 0

\* No transaction spends what another node's runner has spent already, although
\* every node holds the genesis key: a staking sleep lies between their spends, and a
\* prompt network has told everyone by then.
NoConflictingSpend == Prompt => ~stale

\* The runner against a network of nodes implements a run against one ledger.
Run == INSTANCE LedgerRun WITH script <- Script, step <- pc, book <- ledger["net"], outcome <- verdict,
                               applied <- phase # "ready" /\ pc \in accepted["net"]
ImplementsLedger == Run!RunSpec
=============================================================================
