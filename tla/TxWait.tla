------------------------------- MODULE TxWait -------------------------------
(***************************************************************************)
(* What awaiting a transaction promises its caller, without clock or       *)
(* polling: it returns exactly once and eventually, it says "ok" only of a *)
(* transaction the chain accepted, and "rejected" only of one it refused.  *)
(* Giving up ("timeout", "error") is always allowed.  Of a C-Chain         *)
(* transaction, whose status cannot be asked for, "ok" says nothing.       *)
(***************************************************************************)
EXTENDS TxStatus

VARIABLES chain,   \* the chain the transaction was issued on
          status,  \* its status at the node
          result   \* what the await returned, "none" while it runs

waitVars == <<chain, status, result>>

WaitInit == /\ chain \in Chain
            /\ status \in StatusOf(chain)
            /\ result = "none"

\* The chain settles the transaction, whether or not anybody waits.
Settle == /\ status = "Processing"
          /\ status' \in Final(chain)
          /\ UNCHANGED <<chain, result>>

ReturnAccepted == /\ status = Success(chain) \/ chain = "C"
                  /\ result' = "ok"

ReturnRejected == /\ status \in Failure(chain)
                  /\ result' = "rejected"

GiveUp == result' \in {"timeout", "error"}

Return == /\ result = "none"
          /\ ReturnAccepted \/ ReturnRejected \/ GiveUp
          /\ UNCHANGED <<chain, status>>

WaitNext == Settle \/ Return

WaitSafe == WaitInit /\ [][WaitNext]_waitVars

\* An await is not allowed to block its caller for ever.
WaitSpec == WaitSafe /\ WF_waitVars(Return)
=============================================================================
