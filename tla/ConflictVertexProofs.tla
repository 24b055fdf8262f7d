------------------------ MODULE ConflictVertexProofs ------------------------
(***************************************************************************)
(* What the conflicting transactions vertex test can and cannot tell.      *)
(* Nothing here needs fairness: the theorems are about SafeSpec.           *)
(***************************************************************************)
EXTENDS ConflictVertex, TLAPS

\* The script, request by request.
LEMMA Requests ==
  /\ Len(Script) = 9
  /\ Script[1] = <<"issue", "asset">> /\ Script[2] = <<"issue", "send1">>
  /\ Script[3] = <<"issue", "send2">> /\ Script[4] = <<"status", "asset">>
  /\ Script[5] = <<"status", "send1">> /\ Script[6] = <<"status", "send2">>
  /\ Script[7] = <<"issue", "virtuous">> /\ Script[8] = <<"poll", "virtuous">>
  /\ Script[9] = <<"last", "asset">>
BY DEF Script

LEMMA Places ==
  ASSUME pc \in 1..Len(Script)
  PROVE  /\ pc \in {1, 2, 3, 4, 5, 6, 7, 8, 9}
         /\ Running("issue") => /\ pc \in {1, 2, 3, 7} /\ (tx = "virtuous" <=> pc = 7)
                                /\ tx \in {"asset", "send1", "send2", "virtuous"}
         /\ Running("status") => /\ pc \in {4, 5, 6} /\ (tx = "asset" <=> pc = 4)
                                 /\ (tx = "send1" <=> pc = 5) /\ (tx = "send2" <=> pc = 6)
                                 /\ tx \in {"asset", "send1", "send2"}
         /\ Running("poll") => pc = 8 /\ tx = "virtuous"
         /\ Running("last") => pc = 9 /\ tx = "asset"
<1>1. pc \in {1, 2, 3, 4, 5, 6, 7, 8, 9}
  BY Requests
<1> QED BY <1>1, Requests DEF Running, tx

-----------------------------------------------------------------------------
(* The properties are about readings; the invariant says what the test     *)
(* and the nodes must have done for these to be what they are.             *)

\* The virtuous node accepts the bad vertex's transaction only if it has taken the
\* vertex, its own only once issued, and in this order if the one is built on the other.
VirtuousNode ==
    /\ vertex = "taken" => ~drops
    /\ "asset" \in virtuous => vertex = "taken"
    /\ "virtuous" \in issued => pc > 7
    /\ "virtuous" \in virtuous => "virtuous" \in issued
    /\ parents /\ "virtuous" \in virtuous => "asset" \in virtuous

\* What each request that has returned has shown.
Readings ==
    /\ seen # {} => pc > 4
    /\ pc > 6 => seen \cap Conflicting # {}
    /\ pc > 8 => "virtuous" \in virtuous
    /\ last # "none" => verdict = "pass" /\ pc = 9
    /\ last = "Accepted" => "asset" \in virtuous

IInv == TypeOK /\ VirtuousNode /\ Readings /\ LastStatusTells /\ PassIsTested

LEMMA InvInit == Init => IInv
<1> SUFFICES ASSUME Init PROVE IInv
  OBVIOUS
<1>1. TypeOK
  <2>1. pc = 1 /\ 1 \in 1..9
    BY DEF Init
  <2>2. pc \in 1..Len(Script)
    BY <2>1, Requests
  <2> QED BY <2>2 DEF Init, TypeOK
<1>2. VirtuousNode /\ LastStatusTells
  BY DEF Init, VirtuousNode, LastStatusTells
<1>3. Readings /\ PassIsTested
  BY DEF Init, Readings, PassIsTested
<1> QED BY <1>1, <1>2, <1>3 DEF IInv

LEMMA InvStep == IInv /\ [Next]_vars => IInv'
<1> SUFFICES ASSUME IInv, [Next]_vars PROVE IInv'
  OBVIOUS
<1> USE DEF IInv, TypeOK, VirtuousNode, Readings, LastStatusTells, PassIsTested, Tx, Conflicting,
            test, nodes
<1>1. Len(Script) = 9 /\ pc \in {1, 2, 3, 4, 5, 6, 7, 8, 9}
  BY Requests, Places
<1>2. ASSUME NEW t \in Tx, ByzantineAccepts(t) PROVE IInv'
  BY <1>2 DEF ByzantineAccepts
<1>3. CASE PushQuery
  BY <1>3 DEF PushQuery
<1>4. CASE Receive
  BY <1>4 DEF Receive
<1>5. ASSUME NEW t \in Tx, VirtuousAccepts(t) PROVE IInv'
  BY <1>5 DEF VirtuousAccepts
<1>6. CASE IssueTx
  <2>1. /\ pc \in {1, 2, 3, 7} /\ (tx = "virtuous" <=> pc = 7) /\ tx \in Tx
        /\ verdict = "running" /\ pc' = pc + 1
        /\ issued' = issued \cup {tx}
        /\ UNCHANGED <<verdict, seen, last, byzantine, vertex, virtuous, drops>>
    BY <1>6, Places DEF IssueTx, GoOn, Running
  <2>2. parents' \in BOOLEAN /\ (parents' => parents \/ tx = "virtuous")
    BY <1>6 DEF IssueTx
  <2>3. TypeOK'
    BY <1>1, <2>1, <2>2
  <2>4. VirtuousNode'
    BY <1>1, <2>1, <2>2
  <2>5. Readings'
    BY <1>1, <2>1
  <2>6. LastStatusTells' /\ PassIsTested'
    BY <2>1
  <2> QED BY <2>3, <2>4, <2>5, <2>6
<1>7. CASE ReadStatus
  <2>1. /\ pc \in {4, 5, 6} /\ verdict = "running" /\ tx \in {"asset", "send1", "send2"}
        /\ (tx = "asset" <=> pc = 4) /\ (tx = "send2" <=> pc = 6)
        /\ seen' = seen \cup ({tx} \cap byzantine)
        /\ UNCHANGED <<issued, last, byzantine, vertex, virtuous, parents, drops>>
    BY <1>7, Places DEF ReadStatus, Running
  <2>2. CASE tx = "asset" /\ tx \notin byzantine
    <3>1. verdict' = "pass" /\ pc' = pc /\ seen' = {}
      BY <1>7, <2>1, <2>2 DEF ReadStatus, End
    <3>2. TypeOK' /\ VirtuousNode' /\ Readings'
      BY <2>1, <3>1
    <3>3. LastStatusTells' /\ PassIsTested'
      BY <2>1, <3>1
    <3> QED BY <3>2, <3>3
  <2>3. CASE tx = "send2" /\ seen' \cap Conflicting = {}
    <3>1. verdict' = "byzantine" /\ pc' = pc
      BY <1>7, <2>1, <2>3 DEF ReadStatus, End
    <3>2. TypeOK' /\ VirtuousNode'
      BY <2>1, <3>1
    <3>3. Readings'
      BY <2>1, <2>3, <3>1
    <3>4. LastStatusTells' /\ PassIsTested'
      BY <2>1, <3>1
    <3> QED BY <3>2, <3>3, <3>4
  <2>4. CASE /\ ~(tx = "asset" /\ tx \notin byzantine)
             /\ ~(tx = "send2" /\ seen' \cap Conflicting = {})
    <3>1. verdict' = "running" /\ pc' = pc + 1
      BY <1>7, <2>1, <2>4 DEF ReadStatus, GoOn
    <3> QED BY <1>1, <2>1, <2>4, <3>1
  <2> QED BY <2>2, <2>3, <2>4
<1>8. CASE Poll
  BY <1>1, <1>8, Places DEF Poll, GoOn
<1>9. CASE ReadLast
  BY <1>1, <1>9, Places DEF ReadLast, End
<1>10. CASE RequestFails
  BY <1>10 DEF RequestFails, End
<1>11. CASE Ended \/ UNCHANGED vars
  <2>1. UNCHANGED <<pc, verdict, issued, seen, last, byzantine, vertex, virtuous, parents, drops>>
    BY <1>11 DEF Ended, vars
  <2> QED BY <2>1
<1> QED
  BY <1>2, <1>3, <1>4, <1>5, <1>6, <1>7, <1>8, <1>9, <1>10, <1>11 DEF Next, Nodes, Test

THEOREM Invariant == SafeSpec => []IInv
BY InvInit, InvStep, PTL DEF SafeSpec

\* The variables of the test and of the nodes keep their types.
THEOREM TypeCorrect == SafeSpec => []TypeOK
<1>1. IInv => TypeOK
  BY DEF IInv
<1> QED BY <1>1, Invariant, PTL

\* The last status of the test, read once and not waited for, is decided all the same: by
\* the node dropping the vertex, or by the transaction awaited before being built on it.
THEOREM LastStatusDecides == SafeSpec => []LastStatusTells
<1>1. IInv => LastStatusTells
  BY DEF IInv
<1> QED BY <1>1, Invariant, PTL

\* A pass has tested something, unless it is the one of the first status check.
THEOREM PassesAreTested == SafeSpec => []PassIsTested
<1>1. IInv => PassIsTested
  BY DEF IInv
<1> QED BY <1>1, Invariant, PTL

\* No run of the test fails for what it looks for: whenever the transaction of the
\* bad vertex is read as Accepted, the test has passed (executor.go:146).
THEOREM AcceptedPasses == SafeSpec => [](last = "Accepted" => verdict = "pass")
<1>1. IInv => (last = "Accepted" => verdict = "pass")
  BY DEF IInv, Readings
<1> QED BY <1>1, Invariant, PTL

=============================================================================
