---------------------------- MODULE AwaitTxProofs ---------------------------
(***************************************************************************)
(* Theorems about AwaitTx, for every timeout, poll interval, request       *)
(* deadline and oversleep: its types, the soundness of what an await       *)
(* returns, its timeliness, and that every step it takes is a step of      *)
(* TxWait or changes nothing TxWait sees.                                  *)
(***************************************************************************)
EXTENDS AwaitTx, TLAPS

\* What the polling loops do keeps their types.
THEOREM TypeCorrect == SafeSpec => []TypeOK
<1>1. Init => TypeOK
  BY AwaitTxAssumption DEF Init, TypeOK, StatusOf, Final, Success, Failure, Chain, Outcome
<1>2. TypeOK /\ [Next]_vars => TypeOK'
  <2> SUFFICES ASSUME TypeOK, [Next]_vars PROVE TypeOK'
    OBVIOUS
  <2> USE AwaitTxAssumption DEF TypeOK
  <2>1. CASE Settle
    BY <2>1 DEF Settle, StatusOf
  <2>2. CASE Poll
    BY <2>2 DEF Poll
  <2>3. CASE TimeOut
    BY <2>3 DEF TimeOut, Finish, Outcome
  <2>4. CASE Answer
    BY <2>4 DEF Answer
  <2>5. CASE RequestFails
    BY <2>5 DEF RequestFails, Finish, Outcome
  <2>6. CASE SeeAccepted
    BY <2>6 DEF SeeAccepted, Finish, Outcome
  <2>7. CASE SeeRejected
    BY <2>7 DEF SeeRejected, Finish, Outcome
  <2>8. CASE SeePending
    BY <2>8 DEF SeePending
  <2>9. CASE Wake
    BY <2>9 DEF Wake
  <2>10. CASE WakeAtomic
    BY <2>10 DEF WakeAtomic, Finish, Outcome
  <2>11. CASE Tick
    BY <2>11 DEF Tick
  <2>12. CASE Terminated \/ UNCHANGED vars
    BY <2>12 DEF Terminated, vars
  <2> QED
    BY <2>1, <2>2, <2>3, <2>4, <2>5, <2>6, <2>7, <2>8, <2>9, <2>10, <2>11, <2>12
    DEF Next, Runner
<1> QED
  BY <1>1, <1>2, PTL DEF SafeSpec

-----------------------------------------------------------------------------

\* Acceptance and refusal exclude each other and a pending status is neither.
LEMMA FinalStatus ==
  /\ "Processing" \notin Final(chain)
  /\ Success(chain) \notin Failure(chain)
  /\ Success(chain) \in Final(chain)
  /\ Failure(chain) \subseteq Final(chain)
  /\ \A s \in Final(chain) : s = Success(chain) \/ s \in Failure(chain)
BY DEF Final, Success, Failure

\* AwaitSound is not inductive: a step that returns "ok" relies on a reply that
\* is still true, a timeout on the age of the last one.
IInv == PollInv /\ AwaitSound /\ TimeoutIsHonest /\ ReturnsInTime

\* The inductive step of IInv, one action at a time.
LEMMA IInvStep ==
  ASSUME TypeOK, IInv, [Next]_vars
  PROVE  IInv'
<1> USE AwaitTxAssumption, FinalStatus
    DEF TypeOK, IInv, PollInv, AnswerAge, AwaitSound, TimeoutIsHonest, ReturnsInTime
<1>1. CASE Settle
  BY <1>1 DEF Settle
<1>2. CASE Poll
  BY <1>2 DEF Poll
<1>3. CASE TimeOut
  BY <1>3 DEF TimeOut, Finish
<1>4. CASE Answer
  BY <1>4 DEF Answer, StatusOf
<1>5. CASE RequestFails
  BY <1>5 DEF RequestFails, Finish
<1>6. CASE SeeAccepted
  BY <1>6 DEF SeeAccepted, Finish
<1>7. CASE SeeRejected
  BY <1>7 DEF SeeRejected, Finish
<1>8. CASE SeePending
  BY <1>8 DEF SeePending
<1>9. CASE Wake
  BY <1>9 DEF Wake
<1>10. CASE WakeAtomic
  BY <1>10 DEF WakeAtomic, Finish
<1>11. CASE Tick
  BY <1>11 DEF Tick
<1>12. CASE Terminated \/ UNCHANGED vars
  BY <1>12 DEF Terminated, vars
<1> QED
  BY <1>1, <1>2, <1>3, <1>4, <1>5, <1>6, <1>7, <1>8, <1>9, <1>10, <1>11, <1>12
  DEF Next, Runner

\* An await starts with nothing learned and nothing returned.
LEMMA IInvInit == Init => IInv
BY AwaitTxAssumption, FinalStatus
DEF Init, IInv, PollInv, AnswerAge, AwaitSound, TimeoutIsHonest, ReturnsInTime, Chain,
    Outcome, StatusOf

\* IInv holds throughout an await.
LEMMA Invariant == SafeSpec => []IInv
<1>1. TypeOK /\ IInv /\ [Next]_vars => IInv'
  BY IInvStep
<1> QED
  BY TypeCorrect, IInvInit, <1>1, PTL DEF SafeSpec

\* A polled await says "ok" only of an accepted transaction and "rejected" only
\* of a refused one.
THEOREM Soundness == SafeSpec => []AwaitSound
<1>1. IInv => AwaitSound
  BY DEF IInv
<1> QED
  BY Invariant, <1>1, PTL

\* A timeout is never reported of a transaction settled a full round before it.
THEOREM NoFalseAlarm == SafeSpec => []TimeoutIsHonest
<1>1. IInv => TimeoutIsHonest
  BY DEF IInv
<1> QED
  BY Invariant, <1>1, PTL

\* No await outlives its timeout by more than one round.
THEOREM Timeliness == SafeSpec => []ReturnsInTime
<1>1. IInv => ReturnsInTime
  BY DEF IInv
<1> QED
  BY Invariant, <1>1, PTL

-----------------------------------------------------------------------------

\* The polling loops implement the safety part of TxWait: the initial states and
\* every step map to it, the reply's staleness notwithstanding.
THEOREM Refinement == SafeSpec => Wait!WaitSafe
<1> USE DEF Wait!Success, Success, Wait!Failure, Failure, Wait!Final, Final,
            Wait!StatusOf, StatusOf, Wait!Chain, Chain
<1>1. Init => Wait!WaitInit
  BY AwaitTxAssumption DEF Init, Wait!WaitInit
<1>2. TypeOK /\ IInv /\ [Next]_vars => [Wait!WaitNext]_<<chain, status, result>>
  <2> SUFFICES ASSUME TypeOK, IInv, [Next]_vars
               PROVE  Wait!WaitNext \/ UNCHANGED <<chain, status, result>>
    OBVIOUS
  <2>1. CASE Settle
    BY <2>1 DEF Settle, Wait!WaitNext, Wait!Settle
  <2>2. CASE Poll \/ Answer \/ SeePending \/ Wake \/ Tick \/ Terminated \/ UNCHANGED vars
    BY <2>2 DEF Poll, Answer, SeePending, Wake, Tick, Terminated, vars
  <2>3. CASE TimeOut \/ RequestFails
    BY <2>3 DEF TimeOut, RequestFails, Finish, IInv, PollInv, TypeOK,
                Wait!WaitNext, Wait!Return, Wait!GiveUp
  <2>4. CASE SeeAccepted \/ SeeRejected
    BY <2>4 DEF SeeAccepted, SeeRejected, Finish, IInv, PollInv, TypeOK,
                Wait!WaitNext, Wait!Return, Wait!ReturnAccepted, Wait!ReturnRejected
  <2>5. CASE WakeAtomic
    BY <2>5 DEF WakeAtomic, Finish, IInv, PollInv, TypeOK,
                Wait!WaitNext, Wait!Return, Wait!ReturnAccepted
  <2> QED
    BY <2>1, <2>2, <2>3, <2>4, <2>5 DEF Next, Runner
<1> QED
  BY <1>1, <1>2, TypeCorrect, Invariant, PTL DEF SafeSpec, Wait!WaitSafe, Wait!waitVars
=============================================================================
