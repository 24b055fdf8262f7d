--------------------------- MODULE ConflictVertex ---------------------------
(***************************************************************************)
(* The conflicting transactions vertex test.  A byzantine node is given    *)
(* three transactions, two of which conflict; it puts them in one vertex,  *)
(* accepts what it can and sends the vertex to the others.  A virtuous     *)
(* node should drop it.  The test reads the byzantine node's statuses,     *)
(* issues a transaction on the virtuous node, and when that is accepted    *)
(* looks whether the virtuous node has accepted anything of the vertex.    *)
(*                                                                         *)
(* Both nodes are avalanchego; what the test assumes of them is modelled,  *)
(* and the virtuous node may be correct (drops) or not, since telling the  *)
(* two apart is the test's purpose.                                        *)
(***************************************************************************)
EXTENDS Naturals, Sequences

Conflicting == {"send1", "send2"}
Tx == Conflicting \cup {"asset", "virtuous"}

\* ExecuteTest: one request each, a poll being one that is repeated.
Script == << <<"issue", "asset">>, <<"issue", "send1">>, <<"issue", "send2">>,
             <<"status", "asset">>, <<"status", "send1">>, <<"status", "send2">>,
             <<"issue", "virtuous">>, <<"poll", "virtuous">>, <<"last", "asset">> >>

VARIABLES
    pc,         \* the request under way
    verdict,    \* "running", "pass", "error", or "byzantine": no conflicting one accepted
    issued,     \* the transactions issued
    seen,       \* those whose status on the byzantine node was read as Accepted
    last,       \* what the last request of the test read, "none" before
    byzantine,  \* the transactions the byzantine node has accepted
    vertex,     \* the bad vertex: "none", "sent", then "dropped" or "taken"
    parents,    \* the virtuous transaction's vertex is built on the bad one
    virtuous,   \* the transactions the virtuous node has accepted
    drops       \* whether it drops a vertex with conflicting transactions

test == <<pc, verdict, issued, seen, last>>
nodes == <<byzantine, vertex, virtuous>>
vars == <<test, nodes, parents, drops>>

Init == /\ pc = 1 /\ verdict = "running"
        /\ issued = {} /\ seen = {} /\ last = "none"
        /\ byzantine = {} /\ virtuous = {}
        /\ vertex = "none" /\ parents = FALSE
        /\ drops \in BOOLEAN

-----------------------------------------------------------------------------
\* The nodes.

\* "It should try to accept each transaction before PushQuery-ing the vertex": as soon
\* as it detects a conflict, and one of the two fails for the missing UTXO.
ByzantineAccepts(t) ==
    /\ Conflicting \subseteq issued
    /\ t \in {"asset", "send1", "send2"} \ byzantine
    /\ t \in Conflicting => "asset" \in byzantine /\ byzantine \cap Conflicting = {}
    /\ byzantine' = byzantine \cup {t}
    /\ UNCHANGED <<test, vertex, virtuous, parents, drops>>

PushQuery == /\ byzantine \cap Conflicting # {} /\ vertex = "none"
             /\ vertex' = "sent"
             /\ UNCHANGED <<test, byzantine, virtuous, parents, drops>>

\* The virtuous node gets the vertex and drops it, or issues it into consensus.
Receive == /\ vertex = "sent"
           /\ vertex' = IF drops THEN "dropped" ELSE "taken"
           /\ UNCHANGED <<test, byzantine, virtuous, parents, drops>>

\* The virtuous node accepts what it has issued, parents first.
VirtuousAccepts(t) ==
    /\ \/ t = "asset" /\ vertex = "taken"
       \/ t = "virtuous" /\ t \in issued /\ (parents => "asset" \in virtuous)
    /\ t \notin virtuous
    /\ virtuous' = virtuous \cup {t}
    /\ UNCHANGED <<test, byzantine, vertex, parents, drops>>

-----------------------------------------------------------------------------
\* The test.

Running(request) == verdict = "running" /\ Script[pc][1] = request
tx == Script[pc][2]

GoOn == pc' = pc + 1 /\ UNCHANGED verdict
End(outcome) == verdict' = outcome /\ UNCHANGED pc

\* A request returns an error, or the execution timeout passes.
RequestFails == /\ verdict = "running"
                /\ End("error")
                /\ UNCHANGED <<issued, seen, last, nodes, parents, drops>>

\* A transaction of the virtuous node is built on the vertices it has taken.
IssueTx == /\ Running("issue")
           /\ issued' = issued \cup {tx}
           /\ parents' = (parents \/ (tx = "virtuous" /\ vertex = "taken"))
           /\ GoOn
           /\ UNCHANGED <<seen, last, nodes, drops>>

\* The byzantine node's statuses.  If the first is not Accepted, stacktrace.Propagate
\* of a nil error is returned: nil, and the test has passed.
ReadStatus == /\ Running("status")
              /\ seen' = seen \cup ({tx} \cap byzantine)
              /\ CASE tx = "asset" /\ tx \notin byzantine -> End("pass")
                   [] tx = "send2" /\ seen' \cap Conflicting = {} -> End("byzantine")
                   [] OTHER -> GoOn
              /\ UNCHANGED <<issued, last, nodes, parents, drops>>

\* Mutant: any answer ends the loop.
PollOnce == /\ Running("poll")
            /\ GoOn
            /\ UNCHANGED <<issued, seen, last, nodes, parents, drops>>

\* Mutant: the loop waits for the byzantine node's transaction as well.
PollBoth == /\ Running("poll") /\ {"asset", tx} \subseteq virtuous
            /\ GoOn
            /\ UNCHANGED <<issued, seen, last, nodes, parents, drops>>

\* The loop ends: an answer that is not Accepted, Rejected included, is followed by a
\* pause and the next request, without a limit.
Poll == /\ Running("poll") /\ tx \in virtuous
        /\ GoOn
        /\ UNCHANGED <<issued, seen, last, nodes, parents, drops>>

\* Mutant: the test goes on after its last request.
LastGoesOn == /\ Running("last")
              /\ last' = IF tx \in virtuous THEN "Accepted" ELSE "Processing"
              /\ GoOn
              /\ UNCHANGED <<issued, seen, nodes, parents, drops>>

\* Mutant: the last status is read on the byzantine node.
LastOfByzantine == /\ Running("last")
                   /\ last' = IF tx \in byzantine THEN "Accepted" ELSE "Processing"
                   /\ End("pass")
                   /\ UNCHANGED <<issued, seen, nodes, parents, drops>>

\* The last status, after which nil is returned: of an Accepted transaction as
\* stacktrace.Propagate of the nil error of the request.
ReadLast == /\ Running("last")
            /\ last' = IF tx \in virtuous THEN "Accepted" ELSE "Processing"
            /\ End("pass")
            /\ UNCHANGED <<issued, seen, nodes, parents, drops>>

Ended == verdict # "running" /\ UNCHANGED vars

Nodes == \/ \E t \in Tx : ByzantineAccepts(t) \/ VirtuousAccepts(t)
         \/ PushQuery \/ Receive

Test == IssueTx \/ ReadStatus \/ Poll \/ ReadLast

Next == Nodes \/ Test \/ RequestFails \/ Ended

SafeSpec == Init /\ [][Next]_vars

\* The test's goroutine runs on.  Nothing is asked of the nodes.
Spec == SafeSpec /\ WF_vars(Test)

-----------------------------------------------------------------------------

\* The test's and the nodes' variables have their types.
TypeOK ==
    /\ pc \in 1 .. Len(Script)
    /\ verdict \in {"running", "pass", "error", "byzantine"}
    /\ issued \in SUBSET Tx
    /\ seen \in SUBSET {"asset", "send1", "send2"}
    /\ last \in {"none", "Accepted", "Processing"}
    /\ byzantine \in SUBSET {"asset", "send1", "send2"}
    /\ vertex \in {"none", "sent", "dropped", "taken"}
    /\ parents \in BOOLEAN
    /\ virtuous \in SUBSET {"asset", "virtuous"}
    /\ drops \in BOOLEAN

\* "confirm the valid transaction as a measure of the time to finality": the last
\* status read tells a node that takes bad vertices from one that drops them.  A
\* correct node never shows the transaction accepted, and one that built on the bad
\* vertex always does, although the test never waits for that transaction.
LastStatusTells ==
    /\ last = "Accepted" => ~drops
    /\ parents /\ last # "none" => last = "Accepted"

\* A test that passes after its first status check has seen the byzantine node accept
\* the transactions of the vertex, and the virtuous node its own.
PassIsTested ==
    verdict = "pass" /\ "asset" \in seen =>
        seen \cap Conflicting # {} /\ "virtuous" \in virtuous

\* The poll for the virtuous transaction has no limit, and needs none but this: once
\* that transaction is accepted, the test comes to its end.
EndsOnceAccepted == "virtuous" \in virtuous ~> verdict # "running"

\* "If the transaction was Accepted, the test should fail".
AcceptedFails == last = "Accepted" => verdict # "pass"
=============================================================================
