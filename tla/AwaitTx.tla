------------------------------- MODULE AwaitTx ------------------------------
(***************************************************************************)
(* The polling loops of the RPC workflow runner                            *)
(* (AwaitXChainTransactionAcceptance, AwaitPChainTransactionAcceptance)    *)
(* and the sleep that stands in for one on the C-Chain                     *)
(* (AwaitCChainAtomicTransactionAcceptance), against a node whose view of  *)
(* the transaction changes on its own.  A status request and its reply are *)
(* separate steps, so the status a reply carries may be out of date when   *)
(* it is looked at.                                                        *)
(*                                                                         *)
(* Time is discrete and counted from pollStartTime: now is                 *)
(* time.Since(pollStartTime).  It advances only while the runner is        *)
(* blocked, that is, in time.Sleep or in a request.                        *)
(***************************************************************************)
EXTENDS Naturals, TxStatus

CONSTANTS
    Chains,          \* the chains whose transactions are awaited
    Timeout,         \* networkAcceptanceTimeout
    PollInterval,    \* the time.Sleep between two polls
    RequestTimeout,  \* constants.DefaultRequestTimeout of the HTTP client
    Oversleep        \* how much later than asked a sleep may end

ASSUME AwaitTxAssumption ==
    /\ Chains \subseteq Chain
    /\ Timeout \in Nat
    /\ PollInterval \in Nat \ {0}
    /\ RequestTimeout \in Nat
    /\ Oversleep \in Nat

VARIABLES
    chain,      \* the chain of the awaited transaction
    status,     \* its status at the node
    settledAt,  \* when the node settled it, 0 if it had before the await
    now,        \* time since pollStartTime
    pc,         \* "check", "request", "reply", "sleep" or "done"
    wakeAt,     \* end of the sleep, or deadline of the request, under way
    reply,      \* the status the last answer carries
    result      \* what the await returned, "none" while it runs

vars == <<chain, status, settledAt, now, pc, wakeAt, reply, result>>

-----------------------------------------------------------------------------

\* The transaction was issued just before: it may already be settled.
Init == /\ chain \in Chains
        /\ status \in StatusOf(chain)
        /\ settledAt = 0
        /\ now = 0
        /\ IF chain = "C" THEN pc = "sleep" /\ wakeAt = Timeout
                          ELSE pc = "check" /\ wakeAt = 0
        /\ reply = "Processing"
        /\ result = "none"

\* Consensus settles the transaction at the node.
Settle == /\ status = "Processing"
          /\ status' \in Final(chain)
          /\ settledAt' = now
          /\ UNCHANGED <<chain, now, pc, wakeAt, reply, result>>

Finish(outcome) == /\ pc' = "done"
                   /\ result' = outcome
                   /\ UNCHANGED <<chain, status, settledAt, now, wakeAt, reply>>

\* Mutant: the loop without its condition, as confirmTx of the C-Chain helpers has it.
PollForever == /\ pc = "check"
               /\ pc' = "request"
               /\ wakeAt' = now + RequestTimeout
               /\ UNCHANGED <<chain, status, settledAt, now, reply, result>>

\* The loop condition time.Since(pollStartTime) < timeout holds: GetTxStatus.
Poll == /\ pc = "check"
        /\ now < Timeout
        /\ pc' = "request"
        /\ wakeAt' = now + RequestTimeout
        /\ UNCHANGED <<chain, status, settledAt, now, reply, result>>

\* The loop condition fails.
TimeOut == pc = "check" /\ now >= Timeout /\ Finish("timeout")

\* Mutant: the P-Chain's statuses are decoded as the X-Chain's.
AnswerOfXChain == /\ pc = "request"
                  /\ pc' = "reply"
                  /\ reply' = IF status = "Committed" THEN "Accepted" ELSE status
                  /\ UNCHANGED <<chain, status, settledAt, now, wakeAt, result>>

\* The node reads the status of the transaction and answers.
Answer == /\ pc = "request"
          /\ pc' = "reply"
          /\ reply' = status
          /\ UNCHANGED <<chain, status, settledAt, now, wakeAt, result>>

\* Mutant: a failed request is reported but the loop goes on.
FailAndContinue == /\ pc \in {"request", "reply"}
                   /\ pc' = "check"
                   /\ result' = "error"
                   /\ UNCHANGED <<chain, status, settledAt, now, wakeAt, reply>>

\* The request fails, or its deadline passes: the await returns the error.
RequestFails == pc \in {"request", "reply"} /\ Finish("error")

\* Mutant: any final status is taken for acceptance.
SeeSettled == pc = "reply" /\ reply \in Final(chain) /\ Finish("ok")

\* The answer arrives and settles the matter.
SeeAccepted == pc = "reply" /\ reply = Success(chain) /\ Finish("ok")
SeeRejected == pc = "reply" /\ reply \in Failure(chain) /\ Finish("rejected")

\* Mutant: the pause between two polls is the whole timeout.
SleepTooLong == /\ pc = "reply"
                /\ reply \notin Final(chain)
                /\ pc' = "sleep"
                /\ wakeAt' = now + Timeout
                /\ UNCHANGED <<chain, status, settledAt, now, reply, result>>

\* The answer arrives and is not final: time.Sleep(time.Second).
SeePending == /\ pc = "reply"
              /\ reply \notin Final(chain)
              /\ pc' = "sleep"
              /\ wakeAt' = now + PollInterval
              /\ UNCHANGED <<chain, status, settledAt, now, reply, result>>

\* A sleep between two polls ends.
Wake == /\ pc = "sleep" /\ chain # "C" /\ now >= wakeAt
        /\ pc' = "check"
        /\ UNCHANGED <<chain, status, settledAt, now, wakeAt, reply, result>>

\* The C-Chain await is a sleep of networkAcceptanceTimeout, then nil.
WakeAtomic == pc = "sleep" /\ chain = "C" /\ now >= wakeAt /\ Finish("ok")

\* Time passes while the runner is blocked: a request not beyond its deadline,
\* a sleep not beyond its end by more than Oversleep.
Tick == /\ \/ pc \in {"request", "reply"} /\ now < wakeAt
           \/ pc = "sleep" /\ now < wakeAt + Oversleep
        /\ now' = now + 1
        /\ UNCHANGED <<chain, status, settledAt, pc, wakeAt, reply, result>>

Runner == \/ Poll \/ TimeOut \/ Answer \/ RequestFails
          \/ SeeAccepted \/ SeeRejected \/ SeePending
          \/ Wake \/ WakeAtomic \/ Tick

\* The await has returned and the transaction is settled.
Terminated == pc = "done" /\ status # "Processing" /\ UNCHANGED vars

Next == Settle \/ Runner \/ Terminated

SafeSpec == Init /\ [][Next]_vars

\* The runner's goroutine is scheduled, clocks advance and a request ends by
\* its deadline.  Nothing obliges the node to settle the transaction.
Spec == SafeSpec /\ WF_vars(Runner)

-----------------------------------------------------------------------------

\* The await's variables have their types.
TypeOK == /\ chain \in Chains
          /\ status \in StatusOf(chain)
          /\ settledAt \in Nat /\ now \in Nat /\ wakeAt \in Nat
          /\ pc \in {"check", "request", "reply", "sleep", "done"}
          /\ reply \in StatusOf(chain)
          /\ result \in Outcome \cup {"none"}

\* Verdict soundness of the polling loops, although the reply they act on was
\* read earlier: nil only if the node accepted the transaction, "was rejected"
\* or "Abandoned" only if it refused it.
AwaitSound == chain # "C" =>
    /\ result = "ok" => status = Success(chain)
    /\ result = "rejected" => status \in Failure(chain)

\* No false alarm: an await reports a timeout only of a transaction that is still
\* pending, or that the node settled too late for the last poll of the loop to
\* see: less than one round (request, sleep) before the deadline.
TimeoutIsHonest ==
    result = "timeout" =>
        \/ status = "Processing"
        \/ settledAt + RequestTimeout + PollInterval + Oversleep >= Timeout

\* The caller waits at most the timeout and the round the deadline falls in.
\* The wrappers size their execution timeouts by networkAcceptanceTimeout alone.
ReturnsInTime == now <= Timeout + RequestTimeout + PollInterval + Oversleep

\* The invariant behind the three: where the loop is, what it last learned and
\* how old that is.  An answer that names a final status is still true; one that
\* does not is at most one request old, and a sleep and its overrun older at the
\* loop's head.
AnswerAge(age) == status = "Processing" \/ settledAt + age >= now

PollInv ==
    /\ (pc = "done") = (result # "none")
    /\ result = "timeout" => now >= Timeout
    /\ chain = "C" => /\ pc \in {"sleep", "done"}
                      /\ result \in {"none", "ok"}
                      /\ pc = "sleep" => wakeAt = Timeout /\ now <= Timeout + Oversleep
    /\ pc = "check" => /\ AnswerAge(RequestTimeout + PollInterval + Oversleep)
                       /\ now <= Timeout + RequestTimeout + PollInterval + Oversleep
    /\ pc \in {"request", "reply"} => /\ now <= wakeAt
                                      /\ wakeAt <= now + RequestTimeout
                                      /\ wakeAt <= Timeout + RequestTimeout
    /\ pc = "reply" => IF reply \in Final(chain)
                       THEN reply = status
                       ELSE status = "Processing" \/ settledAt + RequestTimeout >= wakeAt
    /\ pc = "sleep" /\ chain # "C" =>
          /\ now <= wakeAt + Oversleep
          /\ wakeAt <= now + PollInterval
          /\ wakeAt <= Timeout + RequestTimeout + PollInterval
          /\ status = "Processing" \/ settledAt + RequestTimeout + PollInterval >= wakeAt

\* The polling loops implement the promise of TxWait, return included.
Wait == INSTANCE TxWait
ImplementsWait == Wait!WaitSpec
=============================================================================
