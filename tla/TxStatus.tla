------------------------------ MODULE TxStatus ------------------------------
(***************************************************************************)
(* The transaction statuses the test runner tells apart, per chain.  The   *)
(* X-Chain reports choices.Status, the P-Chain platformvm.Status; the      *)
(* C-Chain offers no status call for its atomic transactions, so its two   *)
(* outcomes are those of the chain itself and the runner never reads them. *)
(***************************************************************************)

Chain == {"X", "P", "C"}

\* The status that makes an await return nil.
Success(chain) == IF chain = "P" THEN "Committed" ELSE "Accepted"

\* The statuses that make an await return an error at once.
Failure(chain) == IF chain = "P" THEN {"Dropped", "Aborted"} ELSE {"Rejected"}

Final(chain) == {Success(chain)} \cup Failure(chain)

\* "Processing" also stands for Unknown: the runner only keeps polling.
StatusOf(chain) == {"Processing"} \cup Final(chain)

Status == UNION {StatusOf(chain) : chain \in Chain}

\* What an await tells its caller: nil, or one of the three kinds of error.
Outcome == {"ok", "rejected", "timeout", "error"}
=============================================================================
