------------------------------- MODULE CChain -------------------------------
(***************************************************************************)
(* The two C-Chain tests, each on one node: the throughput test, whose     *)
(* goroutines issue lists of transactions in parallel, and the atomic      *)
(* workflow test, which moves AVAX and an asset to the C-Chain and back.   *)
(* What they await on the X-Chain is accepted when they go on; what they   *)
(* await on the C-Chain is a pause, after which nobody knows.              *)
(*                                                                         *)
(* A transaction is the step of the script that issues it.  Which outputs  *)
(* an import spends and which nonce an export has follow from what the     *)
(* node had accepted when it built it.                                     *)
(***************************************************************************)
EXTENDS Integers, Sequences, FiniteSets

CONSTANTS
    NumLists,      \* accounts, and goroutines, of the throughput test
    NumTxs,        \* transactions of each
    Funds,         \* what the genesis key owns on the X-Chain
    TxFee,
    ExportAmount,  \* AVAX exported for an account, or by the atomic test
    AssetAmount,   \* the asset created
    AssetKept      \* what of it is not exported

ASSUME CChainAssumption ==
    /\ NumLists \in Nat \ {0} /\ NumTxs \in Nat \ {0}
    /\ Funds \in Nat /\ TxFee \in Nat /\ ExportAmount \in Nat \ {0}
    /\ AssetAmount \in Nat /\ AssetKept \in Nat /\ AssetKept < AssetAmount
    /\ Funds >= NumLists * (ExportAmount + TxFee)
    /\ Funds >= 3 * TxFee + ExportAmount /\ ExportAmount >= TxFee

List == 1..NumLists

Op(kind, asset, quantity, to) ==
    [kind |-> kind, asset |-> asset, quantity |-> quantity, to |-> to]
Call == Op("call", "AVAX", 0, 0)

XKinds == {"create", "exportX", "importX"}
CKinds == {"importC", "exportC"}

\* The genesis key's account on the C-Chain, beside the accounts of the lists.
Key == 0

Export(asset, quantity) == Op("exportX", asset, quantity, Key)
Import(to) == Op("importC", "AVAX", 0, to)
ExportBack(asset, quantity) == Op("exportC", asset, quantity, Key)
CheckX(asset, expected) == Op("checkX", asset, expected, Key)
CheckC(asset, expected) == Op("checkC", asset, expected, Key)

\* An import takes whatever the genesis key's address was sent until then.
FundCChainAddresses ==
    <<Call>> \o [s \in 1..(2 * NumLists) |->
                    IF s % 2 = 1 THEN Export("AVAX", ExportAmount) ELSE Import(s \div 2)]

Throughput ==
    FundCChainAddresses
    \o <<Op("launch", "AVAX", 0, Key), Op("collect", "AVAX", 0, Key),
         Op("sleep", "AVAX", 0, Key), Op("confirm", "AVAX", 0, Key)>>

\* The expectations of the second reading count the asset back, and charge the
\* import, but leave the AVAX on the C-Chain.
AtomicWorkflow ==
    LET sent == AssetAmount - AssetKept
        expectedAVAX == Funds - 3 * TxFee - ExportAmount
    IN  << Call,
           Op("create", "asset", AssetAmount, Key),
           Export("AVAX", ExportAmount), Export("asset", sent),
           Import(Key), Op("importAgain", "AVAX", 0, Key),
           CheckX("AVAX", expectedAVAX), CheckX("asset", AssetKept),
           CheckC("AVAX", ExportAmount), CheckC("asset", sent),
           ExportBack("AVAX", ExportAmount), ExportBack("asset", sent),
           CheckC("AVAX", 0), CheckC("asset", 0),
           Op("importX", "AVAX", 0, Key),
           CheckX("AVAX", expectedAVAX - TxFee), CheckX("asset", AssetAmount) >>

VARIABLES
    test,      \* "throughput" or "atomic"
    prompt,    \* requests are answered, none fails, and the pauses suffice for the network
    pc,        \* the step under way
    phase,     \* "ready" to take it, or in its "await"
    spends,    \* the outputs each import spends, and the nonce of each export
    pending,   \* transactions issued and not decided
    accepted,  \* transactions accepted
    issuer,    \* each goroutine: "off", "issuing", "ok", "error" or "gone"
    issued,    \* how many of its list the node has taken
    included,  \* how many of these are in accepted blocks
    errs,      \* the channel
    received,  \* results the test has taken from it
    confirmed, \* receipts it has read, list by list
    verdict    \* "running", "pass", "fail" or "panic"

main == <<pc, phase, received, confirmed, verdict>>
chains == <<spends, pending, accepted, included>>
issuers == <<issuer, issued>>
vars == <<test, prompt, main, chains, issuers, errs>>

Script == IF test = "throughput" THEN Throughput ELSE AtomicWorkflow
Step == DOMAIN Script
MaxStep == Len(Throughput) + Len(AtomicWorkflow)
Running == verdict = "running" /\ pc \in Step
op == Script[pc]

Init == /\ test \in {"throughput", "atomic"} /\ prompt \in BOOLEAN
        /\ pc = 1 /\ phase = "ready"
        /\ spends = [t \in 1..MaxStep |-> {}]
        /\ pending = {} /\ accepted = {}
        /\ issuer = [i \in List |-> "off"]
        /\ issued = [i \in List |-> 0] /\ included = [i \in List |-> 0]
        /\ errs = <<>> /\ received = 0 /\ confirmed = 0
        /\ verdict = "running"

-----------------------------------------------------------------------------
(* The two chains, as the node knows them.                                 *)

OfKind(S, kinds) == {t \in S : Script[t].kind \in kinds}
OfAsset(S, asset) == {t \in S : Script[t].asset = asset}
Total(S) == Cardinality(UNION {{t} \X (1..Script[t].quantity) : t \in S})

\* The exports to the C-Chain that are accepted and that no accepted import spends.
Exported == OfKind(accepted, {"exportX"})
            \ UNION {spends[t] : t \in OfKind(accepted, {"importC"})}

XBalance(asset) ==
    LET fees == IF asset = "AVAX" THEN TxFee * Cardinality(OfKind(accepted, XKinds)) ELSE 0
        own == IF asset = "AVAX" THEN Funds ELSE Total(OfKind(accepted, {"create"}))
        back == IF OfKind(accepted, {"importX"}) = {} THEN {} ELSE OfKind(accepted, {"exportC"})
        sent == OfKind(accepted, {"exportX"})
    IN  own + Total(OfAsset(back, asset)) - Total(OfAsset(sent, asset)) - fees

CBalance(account, asset) ==
    LET imports == {t \in OfKind(accepted, {"importC"}) : Script[t].to = account}
    IN  Total(OfAsset(UNION {spends[t] : t \in imports}, asset))
        - IF account = Key THEN Total(OfAsset(OfKind(accepted, {"exportC"}), asset)) ELSE 0

\* What the transaction of the step under way spends if it is built now.
Inputs == CASE op.kind = "importC" -> Exported
            [] op.kind = "exportC" -> {Cardinality(OfKind(accepted, {"exportC"}))}
            [] OTHER               -> {}

\* The node has the funds for it.
Buildable == CASE op.kind = "importC" -> Exported # {}
               [] op.kind = "exportC" -> CBalance(Key, op.asset) >= op.quantity
               [] op.kind = "exportX" -> XBalance(op.asset) >= op.quantity
               [] op.kind = "importX" -> OfKind(accepted, {"exportC"}) # {}
               [] OTHER               -> XBalance("AVAX") >= TxFee

\* No other transaction has taken the inputs or the nonce meanwhile.
Valid(t) == \A u \in OfKind(accepted, {Script[t].kind}) : spends[u] \cap spends[t] = {}

Settle(t) == /\ t \in pending /\ Valid(t)
             /\ accepted' = accepted \cup {t} /\ pending' = pending \ {t}
             /\ UNCHANGED <<spends, included>>

Drop(t) == /\ t \in pending /\ (~Valid(t) \/ ~prompt)
           /\ pending' = pending \ {t}
           /\ UNCHANGED <<spends, accepted, included>>

\* An account's transactions get into blocks by their nonces.
Include(i) == /\ included[i] < issued[i]
              /\ included' = [included EXCEPT ![i] = @ + 1]
              /\ UNCHANGED <<spends, pending, accepted>>

Network == /\ verdict = "running"
           /\ (\E t \in pending : Settle(t) \/ Drop(t)) \/ (\E i \in List : Include(i))
           /\ UNCHANGED <<main, issuers, errs>>

Settled == pending = {} /\ included = issued

-----------------------------------------------------------------------------
(* The test's own goroutine.                                               *)

\* The call returned nil; the test goes on, or ends.
Advance == /\ pc' = pc + 1 /\ phase' = "ready"
           /\ verdict' = IF pc = Len(Script) THEN "pass" ELSE "running"
           /\ UNCHANGED <<received, confirmed>>

\* The step is the test's alone.
Quiet == UNCHANGED <<chains, issuers, errs>>

EndWith(outcome) == verdict' = outcome /\ UNCHANGED <<pc, phase, received, confirmed>>

At(kinds) == Running /\ phase = "ready" /\ op.kind \in kinds

CallReturns == At({"call"}) /\ Advance /\ Quiet

\* A transaction that cannot be built is refused; and any request may fail, and not
\* be taken, unless the network is prompt.
RequestFails == /\ At({"call", "checkX", "checkC", "confirm"} \cup XKinds \cup CKinds)
                /\ prompt => op.kind \in XKinds \cup CKinds /\ ~Buildable
                /\ EndWith("fail") /\ Quiet

Issue == /\ At(XKinds \cup CKinds) /\ Buildable
         /\ phase' = "await"
         /\ spends' = [spends EXCEPT ![pc] = Inputs]
         /\ pending' = pending \cup {pc}
         /\ UNCHANGED <<pc, received, confirmed, verdict, accepted, included, issuers, errs>>

InAwait(kinds) == Running /\ phase = "await" /\ op.kind \in kinds

AwaitX == InAwait(XKinds) /\ pc \in accepted /\ Advance /\ Quiet

\* The X-Chain await times out, or the transaction was refused.
AwaitXFails == InAwait(XKinds) /\ ~prompt /\ EndWith("fail") /\ Quiet

\* Mutant: the C-Chain await returns at once.
AwaitCAtOnce == InAwait(CKinds) /\ Advance /\ Quiet

\* The C-Chain await has slept for networkAcceptanceTimeout.
AwaitC == InAwait(CKinds) /\ (prompt => Settled) /\ Advance /\ Quiet

\* The second import must be refused, or have failed for another reason.
SecondImportFails == /\ At({"importAgain"}) /\ (Exported = {} \/ ~prompt)
                     /\ Advance /\ Quiet

SecondImportTaken == At({"importAgain"}) /\ Exported # {} /\ EndWith("fail") /\ Quiet

Found == IF op.kind = "checkX" THEN XBalance(op.asset) ELSE CBalance(Key, op.asset)

\* Mutant: what is found on the C-Chain is only logged.
CheckLogs == /\ At({"checkX", "checkC"}) /\ (op.kind = "checkC" \/ Found = op.quantity)
             /\ Advance /\ Quiet

CheckPasses == At({"checkX", "checkC"}) /\ Found = op.quantity /\ Advance /\ Quiet

CheckFails == At({"checkX", "checkC"}) /\ Found # op.quantity /\ EndWith("fail") /\ Quiet

Launch == /\ At({"launch"})
          /\ issuer' = [i \in List |-> "issuing"]
          /\ Advance
          /\ UNCHANGED <<chains, issued, errs>>

Received == /\ received' = received + 1
            /\ IF received + 1 = NumLists
               THEN pc' = pc + 1 /\ UNCHANGED <<phase, verdict, confirmed>>
               ELSE UNCHANGED <<pc, phase, verdict, confirmed>>

\* err := <-errs
Collect == /\ At({"collect"}) /\ errs # <<>>
           /\ errs' = Tail(errs)
           /\ IF Head(errs) = "error" THEN EndWith("panic") ELSE Received
           /\ UNCHANGED <<chains, issuers>>

Sleep == At({"sleep"}) /\ (prompt => Settled) /\ Advance /\ Quiet

\* The next receipt is of this transaction of this list.
NextList == (confirmed \div NumTxs) + 1
NextTx == (confirmed % NumTxs) + 1

\* Mutant: the receipts of one list are read.
ConfirmFirstList ==
    /\ At({"confirm"}) /\ NextTx <= included[NextList]
    /\ IF confirmed + 1 = NumTxs
       THEN verdict' = "pass" /\ UNCHANGED <<pc, phase, received, confirmed>>
       ELSE confirmed' = confirmed + 1 /\ UNCHANGED <<pc, phase, received, verdict>>
    /\ Quiet

Confirm == /\ At({"confirm"}) /\ NextTx <= included[NextList]
           /\ confirmed' = confirmed + 1
           /\ verdict' = IF confirmed + 1 = NumLists * NumTxs THEN "pass" ELSE "running"
           /\ UNCHANGED <<pc, phase, received>> /\ Quiet

\* There is no receipt of a transaction that is not in a block.
ReceiptNotFound == /\ At({"confirm"}) /\ NextTx > included[NextList]
                   /\ EndWith("fail") /\ Quiet

Main == \/ CallReturns \/ RequestFails \/ Issue \/ AwaitX \/ AwaitXFails
        \/ AwaitC \/ SecondImportFails \/ SecondImportTaken \/ CheckPasses \/ CheckFails
        \/ Launch \/ Collect \/ Sleep \/ Confirm \/ ReceiptNotFound

-----------------------------------------------------------------------------
(* The goroutines that issue a list each.  A panic ends them all.          *)

Issuing(i) == verdict = "running" /\ issuer[i] = "issuing"

\* Mutant: one transaction too many.
SendOneMore(i) == /\ Issuing(i) /\ issued[i] <= NumTxs /\ CBalance(i, "AVAX") > 0
                  /\ issued' = [issued EXCEPT ![i] = @ + 1]
                  /\ UNCHANGED <<main, chains, issuer, errs>>

SendTransaction(i) == /\ Issuing(i) /\ issued[i] < NumTxs /\ CBalance(i, "AVAX") > 0
                      /\ issued' = [issued EXCEPT ![i] = @ + 1]
                      /\ UNCHANGED <<main, chains, issuer, errs>>

\* The account cannot pay, or the request fails.
SendFails(i) == /\ Issuing(i) /\ issued[i] < NumTxs
                /\ CBalance(i, "AVAX") = 0 \/ ~prompt
                /\ issuer' = [issuer EXCEPT ![i] = "error"]
                /\ UNCHANGED <<main, chains, issued, errs>>

ListIssued(i) == /\ Issuing(i) /\ issued[i] >= NumTxs
                 /\ issuer' = [issuer EXCEPT ![i] = "ok"]
                 /\ UNCHANGED <<main, chains, issued, errs>>

\* Mutant: a goroutine that fails returns.
ReportSuccess(i) == /\ verdict = "running" /\ issuer[i] = "ok" /\ Len(errs) < NumLists
                    /\ errs' = Append(errs, issuer[i])
                    /\ issuer' = [issuer EXCEPT ![i] = "gone"]
                    /\ UNCHANGED <<main, chains, issued>>

\* errs <- err
Report(i) == /\ verdict = "running" /\ issuer[i] \in {"ok", "error"} /\ Len(errs) < NumLists
             /\ errs' = Append(errs, issuer[i])
             /\ issuer' = [issuer EXCEPT ![i] = "gone"]
             /\ UNCHANGED <<main, chains, issued>>

Issuer(i) == SendTransaction(i) \/ SendFails(i) \/ ListIssued(i) \/ Report(i)

Terminated == verdict # "running" /\ UNCHANGED vars

Next == /\ Main \/ Network \/ (\E i \in List : Issuer(i)) \/ Terminated
        /\ UNCHANGED <<test, prompt>>

\* Requests to the C-Chain's eth API go through a websocket without a timeout, with
\* context.Background(): the test's own, for a balance or a receipt, and those of goroutine i.
\* Only a prompt network owes them an answer.
MainAsksEth == At({"checkC", "confirm"})
IssuerAsksEth(i) == Issuing(i) /\ issued[i] < NumTxs

\* The goroutines are scheduled, requests to the other APIs return by their timeouts, and a
\* prompt network acts.
Spec == /\ Init /\ [][Next]_vars
        /\ WF_vars((MainAsksEth => prompt) /\ Main /\ UNCHANGED <<test, prompt>>)
        /\ \A i \in List :
              WF_vars((IssuerAsksEth(i) => prompt) /\ Issuer(i) /\ UNCHANGED <<test, prompt>>)
        /\ WF_vars(prompt /\ Network /\ UNCHANGED <<test, prompt>>)

-----------------------------------------------------------------------------

\* The variables have their types; in particular no more is issued than there is
\* in a list, and there is room in the channel for every result.
TypeOK ==
    /\ test \in {"throughput", "atomic"} /\ prompt \in BOOLEAN
    /\ pc \in 1..(MaxStep + 1) /\ phase \in {"ready", "await"}
    /\ spends \in [1..MaxStep -> SUBSET (0..MaxStep)]
    /\ pending \subseteq Step /\ accepted \subseteq Step
    /\ issuer \in [List -> {"off", "issuing", "ok", "error", "gone"}]
    /\ issued \in [List -> 0..NumTxs] /\ included \in [List -> 0..NumTxs]
    /\ errs \in Seq({"ok", "error"}) /\ Len(errs) + received <= NumLists
    /\ received \in 0..NumLists /\ confirmed \in 0..(NumLists * NumTxs)
    /\ verdict \in {"running", "pass", "fail", "panic"}

Txs == OfKind(Step, XKinds \cup CKinds)

\* A pass is complete: although the awaits of the imports say nothing, and an import
\* built too early takes the funds of the account before, a throughput test that
\* passes has funded every account once and has every transaction in a block.
PassIsComplete ==
    verdict = "pass" =>
        /\ Txs \subseteq accepted
        /\ test = "throughput" => \A i \in List : /\ CBalance(i, "AVAX") = ExportAmount
                                                /\ included[i] = NumTxs

\* What the atomic workflow test did not confirm by its awaits on the C-Chain it
\* confirms by the balances it reads there: after a reading it goes on only with
\* the imports, and the exports of that asset, accepted.
ReadingsConfirm ==
    test = "atomic" =>
        \A u \in OfKind(Step, {"checkC"}) : u < pc =>
            \A t \in OfKind(Step, CKinds) :
                t < u /\ (Script[t].kind = "importC" \/ Script[t].asset = Script[u].asset)
                    => t \in accepted

\* If the pauses suffice, no step finds the C-Chain behind: the throughput test
\* passes, and the atomic test gets to its last reading of AVAX, where the
\* expectation leaves out what came back, with every transaction accepted.
PromptSucceeds ==
    prompt /\ verdict \in {"fail", "panic"} =>
        /\ test = "atomic" /\ pc = Len(Script) - 1
        /\ Txs \subseteq accepted

\* The test ends, however its requests fail, unless an eth request is never answered: that
\* is all that can keep it, since each goroutine reports, and the channel holds what is
\* reported before anybody looks.  On a prompt network it ends.
Ends ==
    \/ <>(verdict # "running")
    \/ <>[](~prompt /\ (MainAsksEth \/ \E i \in List : IssuerAsksEth(i)))
=============================================================================
