------------------------------ MODULE LedgerRun -----------------------------
(***************************************************************************)
(* What a test's verdict means, without nodes, awaits or clocks: its       *)
(* operations take effect one after the other on a single ledger, and it   *)
(* passes only if every transfer was possible, an import taking all that   *)
(* was exported, and every balance it verified was the ledger's.  Failing  *)
(* is always allowed.                                                      *)
(***************************************************************************)
EXTENDS Naturals, Sequences, Scripts

CONSTANTS Programs, Account, Genesis

VARIABLES
    script,   \* the operations of the test
    step,     \* the operation under way
    applied,  \* it has taken effect
    book,     \* the ledger
    outcome   \* "running", "pass" or "fail"

runVars == <<script, step, applied, book, outcome>>

this == script[step]
Going == outcome = "running" /\ step \in DOMAIN script

RunInit == /\ script \in Programs
           /\ step = 1 /\ applied = FALSE /\ outcome = "running"
           /\ book = [a \in Account |-> IF a = <<"genesis", "X">> THEN Genesis ELSE 0]

Taken == IF this.kind \in ImportKinds THEN book[this.from] ELSE this.amount

Apply == /\ Going /\ ~applied /\ this.kind \in TxKinds
         /\ Taken > 0 /\ book[this.from] >= Taken
         /\ book' = Transfer(book, this.from, this.to, Taken)
         /\ applied' = TRUE
         /\ UNCHANGED <<script, step, outcome>>

Proceed == /\ Going
           /\ this.kind \in TxKinds => applied
           /\ this.kind = "checkBalance" => book[this.from] = this.amount
           /\ step' = step + 1 /\ applied' = FALSE
           /\ outcome' = IF step = Len(script) THEN "pass" ELSE "running"
           /\ UNCHANGED <<script, book>>

GiveUp == Going /\ outcome' = "fail" /\ UNCHANGED <<script, step, applied, book>>

RunNext == Apply \/ Proceed \/ GiveUp

RunSafe == RunInit /\ [][RunNext]_runVars

\* A test comes to a verdict.
RunSpec == RunSafe /\ WF_runVars(Proceed \/ GiveUp)
=============================================================================
