------------------------------- MODULE Bombard ------------------------------
(***************************************************************************)
(* The bombard test: the genesis node funds one address per client, a      *)
(* chain of transactions is built for each offline, every client's node is *)
(* given its chain, and the genesis node is asked whether all of them were *)
(* accepted.                                                               *)
(*                                                                         *)
(* Node 0 is the genesis node and client c's node is node c.  Transaction  *)
(* <<c, 0>> funds client c and <<c, j>> is the j-th of its chain.  When a  *)
(* node accepts what was issued is avalanchego's affair; an await is the   *)
(* choice of outcomes TxWait allows.                                       *)
(***************************************************************************)
EXTENDS Integers, Sequences

CONSTANTS
    NumClients,     \* the clients but the first
    NumTxs,         \* the transactions of each chain
    TxFee,          \* what each of them costs
    Word            \* 2^64: amounts are of type uint64

Client == 1 .. NumClients
Node == 0 .. NumClients
Tx == Client \X (0 .. NumTxs)

\* The seed amount fits a uint64.
ASSUME BombardAssumption ==
    /\ NumClients \in Nat /\ NumTxs \in Nat /\ TxFee \in Nat \ {0}
    /\ Word \in Nat /\ (NumTxs + 1) * TxFee < Word

VARIABLES
    pc,         \* the loop of ExecuteTest under way, or how it ended
    cur,        \* the client of the iteration under way
    issued,     \* the transactions issued
    accepted,   \* the transactions each node has accepted
    utxos,      \* the transactions whose outputs were read for each client
    input, output,  \* inputAmount and outputAmount
    txs,        \* txLists: the amounts each transaction takes in and passes on
    sent,       \* how many of the current client's transactions are issued
    dropped,    \* an error of the last loop was dropped
    failure     \* what ended the test, "" as long as nothing did

vars == <<pc, cur, issued, accepted, utxos, input, output, txs, sent, dropped, failure>>

Plus(a, b) == (a + b) % Word
Minus(a, b) == (a - b) % Word
Times(a, b) == (a * b) % Word

seedAmount == Times(Plus(NumTxs, 1), TxFee)

Init == /\ pc = "setup" /\ cur = 1
        /\ issued = {}
        /\ accepted = [n \in Node |-> {}]
        /\ utxos = [c \in Client |-> {}]
        /\ input = 0 /\ output = 0
        /\ txs = [c \in Client |-> << >>]
        /\ sent = 0
        /\ dropped = FALSE
        /\ failure = ""

-----------------------------------------------------------------------------
\* The network.

\* Chains are spent link by link, and the genesis funds one address after the other.
Parents(t) == IF t[2] > 0 THEN {<<t[1], t[2] - 1>>}
              ELSE IF t[1] > 1 THEN {<<t[1] - 1, 0>>} ELSE {}

Accept(n, t) == /\ t \in issued \ accepted[n]
                /\ Parents(t) \subseteq accepted[n]
                /\ accepted' = [accepted EXCEPT ![n] = @ \cup {t}]
                /\ UNCHANGED <<pc, cur, issued, utxos, input, output, txs, sent, dropped, failure>>

-----------------------------------------------------------------------------
\* ExecuteTest.

\* Mutant: the loop runs once more.
OnceMore(loop, nextLoop) ==
    IF cur <= NumClients THEN pc' = loop /\ cur' = cur + 1
                         ELSE pc' = nextLoop /\ cur' = 1

\* The loop under way goes on with the next client, or the next loop begins.
NextClient(loop, nextLoop) ==
    IF cur < NumClients THEN pc' = loop /\ cur' = cur + 1
                        ELSE pc' = nextLoop /\ cur' = 1

FailWith(reason) == /\ pc' = "failed" /\ failure' = reason
                    /\ UNCHANGED <<cur, issued, accepted, utxos, input, output, txs, sent, dropped>>

\* A request returns an error, or a wait its timeout.
RequestFails == /\ pc \in {"setup", "fund", "awaitFund", "read", "create", "issue"}
                /\ FailWith("request")

\* The clients' addresses are created and the genesis key imported.
SetUp == /\ pc = "setup"
         /\ pc' = IF NumClients = 0 THEN "passed" ELSE "fund"
         /\ UNCHANGED <<cur, issued, accepted, utxos, input, output, txs, sent, dropped, failure>>

\* FundXChainAddresses: send the seed amount,
Fund == /\ pc = "fund"
        /\ issued' = issued \cup {<<cur, 0>>}
        /\ pc' = "awaitFund"
        /\ UNCHANGED <<cur, accepted, utxos, input, output, txs, sent, dropped, failure>>

\* and wait for it, on the genesis node.
Funded == /\ pc = "awaitFund" /\ <<cur, 0>> \in accepted[0]
          /\ NextClient("fund", "read")
          /\ UNCHANGED <<issued, accepted, utxos, input, output, txs, sent, dropped, failure>>

\* Mutant: the balance is read on the genesis node.
BalanceAtGenesis(c) == IF <<c, 0>> \in accepted[0] THEN seedAmount ELSE 0

\* The balance of the client's address, on its own node.
Balance(c) == IF <<c, 0>> \in accepted[c] THEN seedAmount ELSE 0

\* The balance is verified on the client's node, the outputs are read on the genesis node.
VerifyBalance == /\ pc = "read" /\ Balance(cur) = seedAmount
                 /\ utxos' = [utxos EXCEPT ![cur] = {t \in accepted[0] : t = <<cur, 0>>}]
                 /\ NextClient("read", "create")
                 /\ UNCHANGED <<issued, accepted, input, output, txs, sent, dropped, failure>>

BalanceDiffers == /\ pc = "read" /\ Balance(cur) # seedAmount
                  /\ FailWith("balance")

\* The test of CreateConsecutiveTransactions.
InsufficientFunds == Times(NumTxs, TxFee) > seedAmount

\* utxoLists[i][0] is taken, which panics if there is none, and the chain begun.
BeginChain == /\ pc = "create"
              /\ IF utxos[cur] = {} THEN FailWith("panic: no output")
                 ELSE IF InsufficientFunds THEN FailWith("insufficient funds")
                 ELSE /\ input' = seedAmount
                      /\ output' = Minus(seedAmount, TxFee)
                      /\ pc' = "chain"
                      /\ UNCHANGED <<cur, issued, accepted, utxos, txs, sent, dropped, failure>>

\* Mutant: only the output amount follows the fee.
ExtendSameInput == /\ pc = "chain" /\ Len(txs[cur]) < NumTxs
                   /\ txs' = [txs EXCEPT ![cur] = Append(@, [input |-> input, output |-> output])]
                   /\ input' = input
                   /\ output' = Minus(output, TxFee)
                   /\ UNCHANGED <<pc, cur, issued, accepted, utxos, sent, dropped, failure>>

\* One transaction, spending the output of the one before.
ExtendChain == /\ pc = "chain" /\ Len(txs[cur]) < NumTxs
               /\ txs' = [txs EXCEPT ![cur] = Append(@, [input |-> input, output |-> output])]
               /\ input' = Minus(input, TxFee)
               /\ output' = Minus(output, TxFee)
               /\ UNCHANGED <<pc, cur, issued, accepted, utxos, sent, dropped, failure>>

EndChain == /\ pc = "chain" /\ Len(txs[cur]) = NumTxs
            /\ NextClient("create", "issue")
            /\ UNCHANGED <<issued, accepted, utxos, input, output, txs, sent, dropped, failure>>

\* A node takes a transaction if it has the spent output: its transaction is accepted
\* there, or is one the node was given itself.
Known(c, t) == t \in accepted[c] \/ (t[1] = c /\ t[2] > 0 /\ t \in issued)

\* IssueTxList, one transaction: the list is issued before the next client's begins.
\* issueTxsAsync panics on an error.
IssueTx == /\ pc = "issue" /\ sent < NumTxs
           /\ IF Known(cur, <<cur, sent>>)
              THEN /\ issued' = issued \cup {<<cur, sent + 1>>}
                   /\ sent' = sent + 1
                   /\ UNCHANGED <<pc, cur, accepted, utxos, input, output, txs, dropped, failure>>
              ELSE FailWith("panic: missing input")

ListIssued == /\ pc = "issue" /\ sent = NumTxs
              /\ sent' = 0
              /\ NextClient("issue", "confirm")
              /\ UNCHANGED <<issued, accepted, utxos, input, output, txs, dropped, failure>>

\* Mutant: the wait ends with the first transaction of the list.
FirstConfirmed == /\ pc = "confirm"
                  /\ NumTxs > 0 => <<cur, 1>> \in accepted[0]
                  /\ NextClient("confirm", "passed")
                  /\ UNCHANGED <<issued, accepted, utxos, input, output, txs, sent, dropped, failure>>

\* AwaitXChainTxs on the genesis node: every transaction of the list is accepted,
Confirmed == /\ pc = "confirm"
             /\ \A j \in 1 .. NumTxs : <<cur, j>> \in accepted[0]
             /\ NextClient("confirm", "passed")
             /\ UNCHANGED <<issued, accepted, utxos, input, output, txs, sent, dropped, failure>>

\* or the error of a wait is wrapped and dropped.
ConfirmErrorDropped ==
    /\ pc = "confirm" /\ NumTxs > 0
    /\ dropped' = TRUE
    /\ NextClient("confirm", "passed")
    /\ UNCHANGED <<issued, accepted, utxos, input, output, txs, sent, failure>>

Ended == pc \in {"passed", "failed"} /\ UNCHANGED vars

Next == \/ \E n \in Node, t \in Tx : Accept(n, t)
        \/ SetUp \/ Fund \/ Funded \/ VerifyBalance \/ BalanceDiffers
        \/ BeginChain \/ ExtendChain \/ EndChain \/ IssueTx \/ ListIssued
        \/ Confirmed \/ ConfirmErrorDropped
        \/ RequestFails
        \/ Ended

Spec == Init /\ [][Next]_vars

-----------------------------------------------------------------------------

\* The test's variables have their types.
TypeOK ==
    /\ pc \in {"setup", "fund", "awaitFund", "read", "create", "chain", "issue", "confirm",
               "passed", "failed"}
    /\ cur \in Client \cup {1}
    /\ issued \in SUBSET Tx
    /\ accepted \in [Node -> SUBSET Tx]
    /\ utxos \in [Client -> SUBSET Tx]
    /\ input \in 0 .. (Word - 1) /\ output \in 0 .. (Word - 1)
    /\ DOMAIN txs = Client
    /\ \A c \in Client : txs[c] \in Seq([input : 0 .. (Word - 1), output : 0 .. (Word - 1)])
    /\ sent \in 0 .. NumTxs
    /\ dropped \in BOOLEAN
    /\ failure \in {"", "request", "balance", "insufficient funds", "panic: no output",
                    "panic: missing input"}

\* What is built offline is valid: the first transaction of a chain takes in the funds
\* of the address, each later one what the one before passes on, every one pays exactly
\* the fee and passes something on, and nothing wraps around.
ChainsAreValid ==
    \A c \in Client : \A j \in DOMAIN txs[c] :
        /\ txs[c][j].input = IF j = 1 THEN (NumTxs + 1) * TxFee ELSE txs[c][j - 1].output
        /\ txs[c][j].input = txs[c][j].output + TxFee
        /\ txs[c][j].output > 0

\* The test never runs into what it has done itself: the funds suffice, the outputs it
\* spends are there, and every node has the input of a transaction it is given.  What
\* is waited for on one node and verified on another makes it so.
FailsOnlyOutside == failure \in {"", "request", "balance"}

\* Unless an error was dropped, a test that passes has had every transaction of every
\* client accepted by the genesis node.
ConfirmedUnlessDropped ==
    pc = "passed" /\ ~dropped => \A t \in Tx : t \in accepted[0]

\* "Confirmed all issued transactions."
ConfirmedAll == pc = "passed" => issued \subseteq accepted[0]
=============================================================================
