-------------------------- MODULE PeerTestsProofs ---------------------------
(***************************************************************************)
(* What the peer verifications show, for any set of boot nodes.            *)
(***************************************************************************)
EXTENDS PeerTests, FiniteSetTheorems, TLAPS

\* VerifyExpectedPeers compares a count and then looks each peer up: together, with the
\* expected number that of the acceptable IDs, that is equality of the sets.
THEOREM Exactness ==
    ASSUME NEW peers, NEW acceptable, IsFiniteSet(acceptable)
    PROVE  VerifyExpectedPeers(peers, acceptable, Cardinality(acceptable), FALSE)
             <=> peers = acceptable
<1>1. CASE peers \subseteq acceptable
  BY <1>1, FS_Subset DEF VerifyExpectedPeers
<1>2. CASE ~(peers \subseteq acceptable)
  BY <1>2 DEF VerifyExpectedPeers
<1> QED BY <1>1, <1>2

-----------------------------------------------------------------------------

\* The steps of the scripts, one by one.
LEMMA DuplicateScript ==
    /\ Len(Script["duplicate"]) = 7
    /\ Script["duplicate"][1][1] = "verify" /\ Script["duplicate"][2] = <<"add", bad1>>
    /\ Script["duplicate"][3][1] = "verify" /\ Script["duplicate"][4] = <<"add", bad2>>
    /\ Script["duplicate"][5][1] = "originals" /\ Script["duplicate"][6] = <<"remove", bad1>>
    /\ Script["duplicate"][7][1] = "verify"
BY DEF Script

LEMMA ConnectedScript ==
    /\ Len(Script["connected"]) = 4
    /\ Script["connected"][1][1] = "verify" /\ Script["connected"][2] = <<"validate", vanilla>>
    /\ Script["connected"][3] = <<"sleep", vanilla>> /\ Script["connected"][4][1] = "verify"
BY DEF Script

\* The certificates issued so far.
Certs ==
    /\ keys \in Nat
    /\ DOMAIN nodeID \subseteq Service
    /\ \A s \in DOMAIN nodeID :
          \/ nodeID[s].provider = s /\ s \in Boot
          \/ /\ nodeID[s].provider \in {"normal", "samecert"}
             /\ nodeID[s].key \in Nat /\ nodeID[s].key < keys
    /\ \A s, t \in DOMAIN nodeID : nodeID[s] = nodeID[t] => s = t

\* What the test knows of the network, step by step.
Progress ==
    /\ test \in DOMAIN Script /\ pc \in Nat \ {0} /\ pc <= Len(Script[test]) + 1
    /\ verdict = "pass" => pc = Len(Script[test]) + 1
    /\ verdict = "running" => pc <= Len(Script[test])
    /\ known = live /\ live \subseteq DOMAIN nodeID
    /\ Original \subseteq live /\ checked \subseteq live
    /\ validators = IF test = "connected" /\ pc > 2 THEN Original ELSE Boot
    /\ stakers = IF test = "connected" /\ pc > 3 THEN Original ELSE Boot
    /\ test = "duplicate" => live \subseteq Original \cup {bad1, bad2}
    /\ test = "duplicate" /\ pc <= 2 => bad1 \notin DOMAIN nodeID
    /\ test = "duplicate" /\ pc <= 4 => bad2 \notin DOMAIN nodeID

IInv == Certs /\ Progress /\ VerifiedStays /\ PassIsConnected

-----------------------------------------------------------------------------
\* The node IDs of a set of nodes.

IDs(S) == {nodeID[m] : m \in S}

LEMMA ServiceIsFinite == IsFiniteSet(Service)
<1>1. IsFiniteSet({vanilla}) /\ IsFiniteSet({nonvalidator}) /\ IsFiniteSet({bad1})
      /\ IsFiniteSet({bad2})
  BY FS_Singleton
<1>2. IsFiniteSet({vanilla} \cup {nonvalidator})
  BY <1>1, FS_Union
<1>3. IsFiniteSet({bad1} \cup {bad2})
  BY <1>1, FS_Union
<1>4. IsFiniteSet(({vanilla} \cup {nonvalidator}) \cup ({bad1} \cup {bad2}))
  BY <1>2, <1>3, FS_Union
<1>5. UserNode = ({vanilla} \cup {nonvalidator}) \cup ({bad1} \cup {bad2})
  BY DEF UserNode
<1> QED BY <1>4, <1>5, PeerTestsAssumption, FS_Union DEF Service

\* No two nodes share an ID: a set of nodes has as many IDs as nodes.
LEMMA AsManyIDs ==
    ASSUME Certs, NEW S, S \subseteq DOMAIN nodeID
    PROVE  /\ IsFiniteSet(S) /\ IsFiniteSet(IDs(S))
           /\ Cardinality(IDs(S)) = Cardinality(S)
<1> DEFINE f == [m \in S |-> nodeID[m]]
<1>1. IsFiniteSet(S)
  BY ServiceIsFinite, FS_Subset DEF Certs
<1>2. f \in Surjection(S, IDs(S))
  BY DEF Surjection, IDs
<1>3. f \in Injection(S, IDs(S))
  BY DEF Injection, IsInjective, Certs, IDs
<1> QED BY <1>1, <1>2, <1>3, FS_Surjection

-----------------------------------------------------------------------------

\* A connection or a disconnection does not change the peers of a node that has the
\* ones it should: the new one it could only get twice, and the lost one is a node that
\* is gone, whose ID no running node has.
LEMMA SettledStays ==
    ASSUME Certs, live \subseteq DOMAIN nodeID, ~flaky,
           NEW s \in live, Settled(s),
           NEW n \in Service, NEW m \in Service, Connect(n, m) \/ Disconnect(n, m)
    PROVE  Settled(s)'
<1> DEFINE Due == {nodeID[k] : k \in {k \in live : MayLink(s, k)}}
<1>1. /\ UNCHANGED <<live, validators, nodeID>>
      /\ Peers(s) = Due
  BY DEF Connect, Disconnect, Settled
<1>2. Due' = Due
  BY <1>1 DEF MayLink
<1> SUFFICES Peers(s)' = Peers(s)
  BY <1>1, <1>2 DEF Settled
<1>3. CASE Connect(n, m)
  <2>1. s # n /\ s # m
    BY <1>1, <1>3 DEF Connect, MayLink
  <2>2. \A k \in DOMAIN nodeID : {s, k} \in links' <=> {s, k} \in links
    BY <1>3, <2>1 DEF Connect
  <2> QED BY <1>1, <2>2 DEF Peers
<1>4. CASE Disconnect(n, m)
  <2>1. \A k \in DOMAIN nodeID : {s, k} \in links => {s, k} # {n, m}
    <3> SUFFICES ASSUME NEW k \in DOMAIN nodeID, {s, k} \in links, {s, k} = {n, m}
                 PROVE  FALSE
      OBVIOUS
    <3>1. k = m /\ m \notin live
      BY <1>4 DEF Disconnect
    <3>2. nodeID[k] \in Due
      BY <1>1 DEF Peers
    <3>3. PICK j \in live : nodeID[j] = nodeID[k]
      BY <3>2
    <3> QED BY <3>1, <3>3 DEF Certs
  <2>2. \A k \in DOMAIN nodeID : {s, k} \in links' <=> {s, k} \in links
    BY <1>4, <2>1 DEF Disconnect
  <2> QED BY <1>1, <2>2 DEF Peers
<1> QED BY <1>3, <1>4

\* A node is verified only if it has the peers it should have.
LEMMA VerifiedIsSettled ==
    ASSUME Certs, Progress, Running("verify"), NEW s \in known, ExpectedPeers(s)
    PROVE  Settled(s)
<1> DEFINE acceptable == AcceptableNodeIDs(s, known, stakers, nodeID)
<1>1. known = live /\ stakers = validators /\ live \subseteq DOMAIN nodeID
  BY DuplicateScript, ConnectedScript DEF Progress, Running, Script
<1>2. IsFiniteSet(acceptable)
  <2>1. acceptable = IDs({c \in known \ {s} : s \in stakers \/ c \in stakers})
    BY DEF AcceptableNodeIDs, IDs
  <2> QED BY <1>1, <2>1, AsManyIDs
<1>3. Peers(s) = acceptable
  BY <1>2, Exactness DEF ExpectedPeers
<1>4. acceptable = {nodeID[m] : m \in {m \in live : MayLink(s, m)}}
  BY <1>1 DEF AcceptableNodeIDs, MayLink
<1> QED BY <1>3, <1>4 DEF Settled

\* Where a running test is.
LEMMA Position ==
    ASSUME Progress, verdict = "running"
    PROVE  \/ test = "duplicate" /\ pc \in {1, 2, 3, 4, 5, 6, 7}
           \/ test = "connected" /\ pc \in {1, 2, 3, 4}
<1>1. test = "duplicate" \/ test = "connected"
  BY DEF Progress, Script
<1>2. CASE test = "duplicate"
  BY <1>2, DuplicateScript DEF Progress
<1>3. CASE test = "connected"
  BY <1>3, ConnectedScript DEF Progress
<1> QED BY <1>1, <1>2, <1>3

-----------------------------------------------------------------------------

LEMMA InvInit == Init => IInv
<1> SUFFICES ASSUME Init PROVE IInv
  OBVIOUS
<1>1. Certs
  BY PeerTestsAssumption
     DEF Init, Certs, Service, UserNode, Original, StaticCert
<1>2. Progress
  BY PeerTestsAssumption, DuplicateScript, ConnectedScript
     DEF Init, Progress, Original, UserNode, Script
<1>3. VerifiedStays /\ PassIsConnected
  BY DEF Init, VerifiedStays, PassIsConnected
<1> QED BY <1>1, <1>2, <1>3 DEF IInv

\* The network's own steps.
LEMMA NetworkStep ==
    ASSUME IInv, NEW n \in Service, NEW m \in Service, Connect(n, m) \/ Disconnect(n, m)
    PROVE  IInv'
<1>1. UNCHANGED <<test, flaky, pc, live, validators, nodeID, keys, known, stakers, checked, verdict>>
  BY DEF Connect, Disconnect
<1>2. Certs' /\ Progress'
  BY <1>1 DEF IInv, Certs, Progress
<1>3. ASSUME ~flaky, NEW s \in live, Settled(s)
      PROVE  Settled(s)'
  BY <1>3, SettledStays DEF IInv, Progress
<1>4. VerifiedStays' /\ PassIsConnected'
  BY <1>1, <1>3 DEF IInv, Progress, VerifiedStays, PassIsConnected
<1> QED BY <1>2, <1>4 DEF IInv

\* The test goes on to its next step: nothing is verified, or everything is.
LEMMA NextStep ==
    ASSUME IInv, Progress', Certs', verdict = "running", Advance,
           pc = Len(Script[test]) /\ ~flaky' => \A s \in live' : Settled(s)'
    PROVE  IInv'
<1>1. VerifiedStays'
  BY DEF Advance, VerifiedStays
<1>2. PassIsConnected'
  BY DEF Advance, PassIsConnected
<1> QED BY <1>1, <1>2 DEF IInv

\* A step of the network or of a test keeps the invariant.
LEMMA InvStep == IInv /\ [Next]_vars => IInv'
<1> SUFFICES ASSUME IInv, [Next]_vars PROVE IInv'
  OBVIOUS
<1> USE DEF Running, Operand
<1>1. ASSUME NEW n \in Service, NEW m \in Service, Connect(n, m) \/ Disconnect(n, m)
      PROVE  IInv'
  BY <1>1, NetworkStep
<1>2. ASSUME NEW s \in Service, VerifyNode(s)
      PROVE  IInv'
  <2>1. Certs' /\ Progress'
    BY <1>2 DEF IInv, Certs, Progress, VerifyNode, Verified, network
  <2>2. UNCHANGED <<live, validators, links, nodeID>> /\ verdict' # "pass"
    BY <1>2 DEF VerifyNode, Verified, network
  <2>3. \A t \in Service : Settled(t)' = Settled(t)
    BY <2>2 DEF Settled, Peers, MayLink
  <2>4. ASSUME ExpectedPeers(s) PROVE Settled(s)
    BY <1>2, <2>4, VerifiedIsSettled DEF IInv, VerifyNode
  <2>5. VerifiedStays'
    BY <1>2, <2>1, <2>3, <2>4
       DEF IInv, Certs, Progress, VerifiedStays, VerifyNode, Verified
  <2> QED BY <2>1, <2>2, <2>5 DEF IInv, PassIsConnected
<1>3. ASSUME NEW s \in Service, VerifyOriginal(s)
      PROVE  IInv'
  <2>1. Certs' /\ Progress'
    BY <1>3 DEF IInv, Certs, Progress, VerifyOriginal, Verified, network
  <2> QED BY <1>3, <2>1
          DEF IInv, VerifiedStays, PassIsConnected, VerifyOriginal, Verified
<1>4. CASE AllVerified
  <2>1. UNCHANGED <<live, validators, links, nodeID, known, stakers, test, flaky, keys>>
    BY <1>4 DEF AllVerified, network
  <2>2. Certs' /\ Progress'
    BY <1>4, <2>1, DuplicateScript, ConnectedScript
       DEF IInv, Certs, Progress, AllVerified, Advance, Script
  <2>3. ASSUME pc = Len(Script[test]) PROVE Script[test][pc][1] = "verify"
    BY <2>3, DuplicateScript, ConnectedScript DEF IInv, Progress, Script
  <2>4. ASSUME pc = Len(Script[test]), ~flaky
        PROVE  \A s \in live' : Settled(s)'
    <3>1. \A s \in known : Settled(s)
      BY <1>4, <2>3, <2>4 DEF IInv, VerifiedStays, AllVerified
    <3>2. \A s \in live : Settled(s)' = Settled(s)
      BY <2>1 DEF Settled, Peers, MayLink
    <3> QED BY <2>1, <3>1, <3>2 DEF IInv, Progress
  <2> QED BY <1>4, <2>2, <2>4, NextStep DEF AllVerified
<1>5. CASE AddService
  <2>1. /\ test = "duplicate"
        /\ \/ pc = 2 /\ Operand = bad1
           \/ pc = 4 /\ Operand = bad2
    BY <1>5, Position, DuplicateScript, ConnectedScript DEF IInv, AddService
  <2>2. Operand \in Service \ DOMAIN nodeID
    BY <2>1 DEF IInv, Progress, Service, UserNode
  <2>3. Certs'
    <3> DEFINE cert == RandomCert("samecert")
    <3>1. /\ keys' = keys + 1 /\ keys \in Nat
          /\ DOMAIN nodeID' = DOMAIN nodeID \cup {Operand}
          /\ nodeID'[Operand] = cert
          /\ \A s \in DOMAIN nodeID : nodeID'[s] = nodeID[s]
          /\ cert.provider = "samecert" /\ cert.key = keys
      BY <1>5, <2>2 DEF IInv, Certs, AddService, CertIssued, RandomCert
    <3>2. \A s \in DOMAIN nodeID : nodeID[s] # cert
      <4> SUFFICES ASSUME NEW s \in DOMAIN nodeID, nodeID[s] = cert PROVE FALSE
        OBVIOUS
      <4>1. s \in Boot \/ nodeID[s].key < keys
        BY DEF IInv, Certs
      <4>2. "samecert" \notin Boot
        BY PeerTestsAssumption
      <4> QED BY <3>1, <4>1, <4>2 DEF IInv, Certs
    <3> HIDE DEF cert, Operand
    <3>3. DOMAIN nodeID' \subseteq Service
      BY <2>2, <3>1 DEF IInv, Certs
    <3>4. \A s, t \in DOMAIN nodeID' : nodeID'[s] = nodeID'[t] => s = t
      BY <3>1, <3>2 DEF IInv, Certs
    <3> QED BY <3>1, <3>3, <3>4 DEF IInv, Certs
  <2>4. Progress'
    BY <1>5, <2>1, <2>2, PeerTestsAssumption, DuplicateScript
       DEF IInv, Progress, AddService, Advance, UserNode, Script
  <2>5. pc # Len(Script[test])
    BY <2>1, DuplicateScript
  <2> QED BY <1>5, <2>3, <2>4, <2>5, NextStep DEF AddService
<1>6. CASE RemoveService
  <2>1. test = "duplicate" /\ pc = 6 /\ Operand = bad1
    BY <1>6, Position, DuplicateScript, ConnectedScript DEF IInv, RemoveService
  <2>2. Certs'
    BY <1>6 DEF IInv, Certs, RemoveService
  <2>3. Progress'
    BY <1>6, <2>1, PeerTestsAssumption, DuplicateScript
       DEF IInv, Progress, RemoveService, Advance, Original, UserNode, Script
  <2> QED BY <1>6, <2>1, <2>2, <2>3, DuplicateScript, NextStep DEF RemoveService
<1>7. CASE StartValidating
  <2>1. test = "connected" /\ pc = 2 /\ Operand = vanilla
    BY <1>7, Position, DuplicateScript, ConnectedScript DEF IInv, StartValidating
  <2>2. Certs'
    BY <1>7 DEF IInv, Certs, StartValidating
  <2>3. Progress'
    BY <1>7, <2>1, ConnectedScript
       DEF IInv, Progress, StartValidating, Advance, Original, Script
  <2> QED BY <1>7, <2>1, <2>2, <2>3, ConnectedScript, NextStep DEF StartValidating
<1>8. CASE Sleep
  <2>1. test = "connected" /\ pc = 3 /\ Operand = vanilla
    BY <1>8, Position, DuplicateScript, ConnectedScript DEF IInv, Sleep
  <2>2. Certs'
    BY <1>8 DEF IInv, Certs, Sleep, network
  <2>3. Progress'
    BY <1>8, <2>1, ConnectedScript
       DEF IInv, Progress, Sleep, Advance, Original, Script, network
  <2> QED BY <1>8, <2>1, <2>2, <2>3, ConnectedScript, NextStep DEF Sleep
<1>9. CASE StepFails
  <2>1. Certs' /\ Progress'
    BY <1>9 DEF IInv, Certs, Progress, StepFails, network
  <2> QED BY <1>9, <2>1 DEF IInv, VerifiedStays, PassIsConnected, StepFails
<1>10. CASE UNCHANGED vars
  <2>1. Certs' /\ Progress'
    BY <1>10 DEF IInv, Certs, Progress, vars
  <2>2. \A s \in Service : Settled(s)' = Settled(s)
    BY <1>10 DEF Settled, Peers, MayLink, vars
  <2> QED BY <1>10, <2>1, <2>2
          DEF IInv, Certs, Progress, VerifiedStays, PassIsConnected, vars
<1> QED
  BY <1>1, <1>2, <1>3, <1>4, <1>5, <1>6, <1>7, <1>8, <1>9, <1>10 DEF Next, Ended

THEOREM Invariant == Spec => []IInv
BY InvInit, InvStep, PTL DEF Spec

\* The peer lists, read one after the other, are a snapshot of a network that loses no
\* connection, whatever its boot nodes.
THEOREM Snapshot == Spec => []VerifiedStays
BY Invariant, PTL DEF IInv

\* A pass means that every node has the peers it should have, if none was lost.
THEOREM PassConnects == Spec => []PassIsConnected
BY Invariant, PTL DEF IInv

-----------------------------------------------------------------------------
\* The types of what the invariant does not speak of.
Types ==
    /\ flaky \in BOOLEAN
    /\ links \in SUBSET Pairs(Service)
    /\ \A s \in DOMAIN nodeID : /\ nodeID[s].provider \in Boot \cup DOMAIN VaryCerts
                                /\ nodeID[s].serial \in Nat /\ nodeID[s].key \in Nat
    /\ serial \in [DOMAIN VaryCerts -> Nat]
    /\ verdict \in {"running", "pass", "peers", "error"}

LEMMA Providers == DOMAIN VaryCerts = {"normal", "samecert"}
BY DEF VaryCerts

LEMMA TypesInit == Init => Types
<1> SUFFICES ASSUME Init PROVE Types
  OBVIOUS
<1>1. live \subseteq Service
  BY DEF Init, Original, Service, UserNode
<1>2. links \in SUBSET Pairs(Service)
  BY <1>1 DEF Init, Pairs
<1>3. serial \in [DOMAIN VaryCerts -> Nat]
  <2>1. serial = [normal |-> 2, samecert |-> 0]
    BY DEF Init
  <2> QED BY <2>1, Providers
<1>4. ASSUME NEW s \in DOMAIN nodeID
      PROVE  /\ nodeID[s].provider \in Boot \cup DOMAIN VaryCerts
             /\ nodeID[s].serial \in Nat /\ nodeID[s].key \in Nat
  BY Providers DEF Init, StaticCert
<1> QED BY <1>2, <1>3, <1>4 DEF Init, Types

LEMMA TypesStep == IInv /\ Types /\ [Next]_vars => Types'
<1> SUFFICES ASSUME IInv, Types, [Next]_vars PROVE Types'
  OBVIOUS
<1>1. ASSUME NEW n \in Service, NEW m \in Service, Connect(n, m) \/ Disconnect(n, m)
      PROVE  Types'
  <2>1. {n, m} \in Pairs(Service)
    BY DEF Pairs
  <2>2. links' \subseteq links \cup {{n, m}}
    BY <1>1 DEF Connect, Disconnect
  <2>3. UNCHANGED <<flaky, nodeID, serial, verdict>>
    BY <1>1 DEF Connect, Disconnect
  <2> QED BY <2>1, <2>2, <2>3 DEF Types
<1>2. CASE AddService
  <2>1. "samecert" \in DOMAIN VaryCerts /\ serial["samecert"] \in Nat /\ keys \in Nat
    BY Providers DEF Types, IInv, Certs
  <2>2. serial' \in [DOMAIN VaryCerts -> Nat]
    BY <1>2, <2>1 DEF AddService, CertIssued, Types
  <2>3. ASSUME NEW s \in DOMAIN nodeID'
        PROVE  /\ nodeID'[s].provider \in Boot \cup DOMAIN VaryCerts
               /\ nodeID'[s].serial \in Nat /\ nodeID'[s].key \in Nat
    <3>1. CASE s = Operand
      <4>1. nodeID'[s] = RandomCert("samecert")
        BY <1>2, <3>1 DEF AddService
      <4> QED BY <2>1, <4>1 DEF RandomCert
    <3>2. CASE s # Operand
      <4>1. s \in DOMAIN nodeID /\ nodeID'[s] = nodeID[s]
        BY <1>2, <2>3, <3>2 DEF AddService
      <4> QED BY <4>1 DEF Types
    <3> QED BY <3>1, <3>2
  <2>4. UNCHANGED <<flaky, links>> /\ verdict' \in {"running", "pass", "peers", "error"}
    BY <1>2 DEF AddService, Advance, Types
  <2> QED BY <2>2, <2>3, <2>4 DEF Types
<1>3. CASE \/ \E s \in Service : VerifyNode(s) \/ VerifyOriginal(s)
           \/ AllVerified \/ RemoveService \/ StartValidating \/ Sleep \/ StepFails
           \/ UNCHANGED vars
  <2>1. UNCHANGED <<flaky, links, nodeID, serial>>
    BY <1>3 DEF VerifyNode, VerifyOriginal, Verified, AllVerified, RemoveService,
                StartValidating, Sleep, StepFails, network, vars
  <2>2. verdict' \in {"running", "pass", "peers", "error"}
    BY <1>3 DEF VerifyNode, VerifyOriginal, Verified, AllVerified, RemoveService,
                StartValidating, Sleep, StepFails, Advance, Types, vars
  <2> QED BY <2>1, <2>2 DEF Types
<1> QED BY <1>1, <1>2, <1>3 DEF Next, Ended

\* The tests' variables keep their types; every certificate is a boot node's own or one
\* that a random provider issued.
THEOREM TypeCorrect == Spec => []TypeOK
<1>1. IInv /\ Types => TypeOK
  <2> SUFFICES ASSUME IInv, Types PROVE TypeOK
    OBVIOUS
  <2>1. pc \in 1 .. (Len(Script[test]) + 1)
    <3>1. Len(Script[test]) \in Nat
      BY DuplicateScript, ConnectedScript DEF IInv, Progress, Script
    <3> QED BY <3>1 DEF IInv, Progress
  <2>2. live \subseteq Service /\ validators \subseteq Service /\ stakers \subseteq Service
    BY DEF IInv, Progress, Certs, Original, Service, UserNode
  <2> QED BY <2>1, <2>2 DEF IInv, Progress, Certs, Types, TypeOK
<1> QED BY <1>1, Invariant, TypesInit, TypesStep, PTL DEF Spec

-----------------------------------------------------------------------------
\* What a node's answer shows, while IDs are expected to be duplicated or not.

\* A settled network is verified: the verifier expects what the nodes answer.
LEMMA SettledPasses ==
    ASSUME Certs, Progress, Running("verify"), NEW s \in known, Settled(s)
    PROVE  ExpectedPeers(s)
<1> DEFINE acceptable == AcceptableNodeIDs(s, known, stakers, nodeID)
<1>1. known = live /\ stakers = validators /\ live \subseteq DOMAIN nodeID
  BY DuplicateScript, ConnectedScript DEF Progress, Running, Script
<1>2. acceptable = IDs({c \in known \ {s} : s \in stakers \/ c \in stakers})
  BY DEF AcceptableNodeIDs, IDs
<1>3. IsFiniteSet(acceptable)
  BY <1>1, <1>2, AsManyIDs
<1>4. Peers(s) = acceptable
  BY <1>1 DEF Settled, AcceptableNodeIDs, MayLink
<1> QED BY <1>3, <1>4, Exactness DEF ExpectedPeers

\* Where the original nodes are verified: the duplicate test, with nobody gone, and with
\* the boot nodes as the only stakers.
LEMMA AtOriginals ==
    ASSUME Progress, Running("originals")
    PROVE  /\ test = "duplicate" /\ pc = 5
           /\ stakers = Boot /\ validators = Boot
           /\ Original \subseteq live /\ live \subseteq Original \cup {bad1, bad2}
           /\ live \subseteq DOMAIN nodeID
           /\ vanilla \notin Boot
BY DuplicateScript, ConnectedScript, Position, PeerTestsAssumption
   DEF Progress, Running, Service, UserNode

\* The IDs OriginalPeers looks for are those of the other boot nodes; there are as many
\* of the other original nodes as it counts.
LEMMA OtherOriginals ==
    ASSUME Certs, Progress, Running("originals"), NEW s \in Boot
    PROVE  /\ Original \ {s} = (Boot \ {s}) \cup {vanilla}
           /\ IsFiniteSet(IDs(Original \ {s})) /\ Cardinality(Original) \in Nat
           /\ Cardinality(IDs(Original \ {s})) = Cardinality(Original) - 1
           /\ {nodeID[b] : b \in Boot \ {s}} \cup {nodeID[vanilla], nodeID[bad1], nodeID[bad2]}
                = IDs(Original \ {s}) \cup {nodeID[bad1], nodeID[bad2]}
<1>1. Original \ {s} = (Boot \ {s}) \cup {vanilla}
  BY AtOriginals DEF Original
<1>2. Original \subseteq DOMAIN nodeID /\ s \in Original
  BY AtOriginals DEF Original
<1>3. IsFiniteSet(Original) /\ IsFiniteSet(IDs(Original \ {s}))
      /\ Cardinality(IDs(Original \ {s})) = Cardinality(Original \ {s})
  BY <1>2, AsManyIDs
<1>4. Cardinality(Original) \in Nat /\ Cardinality(Original \ {s}) = Cardinality(Original) - 1
  BY <1>2, <1>3, FS_RemoveElement, FS_CardinalityType
<1> QED BY <1>1, <1>3, <1>4 DEF IDs

\* An original node of a settled network passes, duplicates or not.
LEMMA SettledOriginalPasses ==
    ASSUME Certs, Progress, Running("originals"), NEW s \in Original, Settled(s)
    PROVE  OriginalPeers(s)
<1>1. CASE s \in Boot
  <2>1. Peers(s) = IDs(live \ {s})
    BY <1>1, AtOriginals DEF Settled, MayLink, IDs, Original
  <2>2. IDs(Original \ {s}) \subseteq Peers(s)
    BY <2>1, AtOriginals DEF IDs
  <2>3. Peers(s) \subseteq IDs(Original \ {s}) \cup {nodeID[bad1], nodeID[bad2]}
    BY <2>1, AtOriginals DEF IDs
  <2>4. IsFiniteSet(Peers(s))
    <3>1. live \ {s} \subseteq DOMAIN nodeID
      BY AtOriginals
    <3> QED BY <2>1, <3>1, AsManyIDs
  <2>5. Cardinality(Peers(s)) >= Cardinality(Original) - 1
    <3>1. Cardinality(IDs(Original \ {s})) <= Cardinality(Peers(s))
      BY <2>2, <2>4, FS_Subset
    <3>2. Cardinality(Peers(s)) \in Nat
      BY <2>4, FS_CardinalityType
    <3> QED BY <1>1, <3>1, <3>2, OtherOriginals
  <2> QED BY <1>1, <2>3, <2>5, OtherOriginals, AtOriginals
          DEF OriginalPeers, VerifyExpectedPeers
<1>2. CASE s = vanilla
  <2>1. Boot \ {s} = Boot /\ s \notin stakers /\ Boot \subseteq DOMAIN nodeID
    BY <1>2, AtOriginals DEF Original
  <2>2. Peers(s) = IDs(Boot)
    BY <1>2, <2>1, AtOriginals DEF Settled, MayLink, IDs, Original
  <2>3. Cardinality(IDs(Boot)) = Cardinality(Boot)
    BY <2>1, AsManyIDs
  <2> QED BY <2>1, <2>2, <2>3 DEF OriginalPeers, VerifyExpectedPeers, IDs
<1> QED BY <1>1, <1>2 DEF Original

\* A set with at least as many members as O, all of them in O or S, lacks no more of O's
\* than it has of S's.
LEMMA Substitutes ==
    ASSUME NEW O, IsFiniteSet(O), NEW S, NEW P, IsFiniteSet(P),
           P \subseteq O \cup S, Cardinality(P) >= Cardinality(O)
    PROVE  Cardinality(O \ P) <= Cardinality(P \cap S)
<1>1. /\ IsFiniteSet(O \cap P) /\ IsFiniteSet(P \cap O) /\ IsFiniteSet(P \ O)
      /\ IsFiniteSet(P \cap S) /\ IsFiniteSet(O \ P)
  BY FS_Intersection, FS_Difference
<1>2. /\ Cardinality(O \ P) = Cardinality(O) - Cardinality(O \cap P)
      /\ Cardinality(P \ O) = Cardinality(P) - Cardinality(P \cap O)
  BY FS_Difference
<1>3. Cardinality(P \cap O) = Cardinality(O \cap P)
  <2>1. P \cap O = O \cap P
    OBVIOUS
  <2> QED BY <2>1
<1>4. Cardinality(P \ O) <= Cardinality(P \cap S)
  <2>1. P \ O \in SUBSET (P \cap S)
    OBVIOUS
  <2> QED BY <1>1, <2>1, FS_Subset
<1>5. /\ Cardinality(O) \in Nat /\ Cardinality(P) \in Nat /\ Cardinality(O \cap P) \in Nat
      /\ Cardinality(P \cap S) \in Nat /\ Cardinality(P \ O) \in Nat
  BY <1>1, FS_CardinalityType
<1> QED BY <1>2, <1>3, <1>4, <1>5

\* What a passed check of an original node says of the nodes it does not list.
LEMMA OriginalPassed ==
    ASSUME Certs, Progress, Running("originals"), NEW s \in Original, OriginalPeers(s)
    PROVE  /\ Cardinality(Missing(s)) <= IF s \in Boot THEN Cardinality(StandIns(s)) ELSE 0
           /\ s \notin Boot => Missing(s) = {}
<1>1. IsFiniteSet(Peers(s))
  <2> DEFINE linked == {m \in DOMAIN nodeID : {s, m} \in links}
  <2>1. IsFiniteSet(IDs(linked))
    BY AsManyIDs
  <2> QED BY <2>1 DEF Peers, IDs
<1>2. CASE s \in Boot
  <2>1. Missing(s) = IDs(Original \ {s}) \ Peers(s)
    BY <1>2 DEF Missing, IDs
  <2>2. /\ Cardinality(Peers(s)) >= Cardinality(Original) - 1
        /\ Peers(s) \subseteq IDs(Original \ {s}) \cup {nodeID[bad1], nodeID[bad2]}
    BY <1>2, AtOriginals, OtherOriginals DEF OriginalPeers, VerifyExpectedPeers
  <2>3. Cardinality(Missing(s)) <= Cardinality(StandIns(s))
    BY <1>1, <1>2, <2>1, <2>2, OtherOriginals, Substitutes DEF StandIns
  <2> QED BY <1>2, <2>3
<1>3. CASE s = vanilla
  <2>1. Boot \ {s} = Boot /\ s \notin stakers /\ s \notin Boot /\ Boot \subseteq DOMAIN nodeID
    BY <1>3, AtOriginals DEF Original
  <2>2. /\ Cardinality(Peers(s)) = Cardinality(Boot)
        /\ Peers(s) \subseteq IDs(Boot)
    BY <2>1 DEF OriginalPeers, VerifyExpectedPeers, IDs
  <2>3. Peers(s) = IDs(Boot)
    BY <2>1, <2>2, AsManyIDs, FS_Subset
  <2>4. Missing(s) = {}
    BY <1>3, <2>1, <2>3 DEF Missing, IDs, Original
  <2> QED BY <2>1, <2>4, FS_EmptySet
<1> QED BY <1>2, <1>3 DEF Original

\* A verification fails only while the network has not settled.
THEOREM FailuresAreUnsettled == Spec => FailureIsUnsettled
<1>1. ASSUME IInv, [Next]_vars, verdict = "running", verdict' = "peers"
      PROVE  \E s \in live : ~Settled(s)
  <2>1. PICK s \in Service : VerifyNode(s) \/ VerifyOriginal(s)
    BY <1>1 DEF Next, Connect, Disconnect, AllVerified, AddService, RemoveService,
                StartValidating, Sleep, StepFails, Ended, Advance, vars
  <2>2. CASE VerifyNode(s)
    <3>1. s \in known /\ ~ExpectedPeers(s) /\ Running("verify") /\ known = live
      BY <1>1, <2>2 DEF VerifyNode, Verified, IInv, Progress
    <3> QED BY <1>1, <3>1, SettledPasses DEF IInv
  <2>3. CASE VerifyOriginal(s)
    <3>1. s \in Original /\ ~OriginalPeers(s) /\ Running("originals") /\ Original \subseteq live
      BY <1>1, <2>3 DEF VerifyOriginal, Verified, IInv, Progress
    <3> QED BY <1>1, <3>1, SettledOriginalPasses DEF IInv
  <2> QED BY <2>1, <2>2, <2>3
<1> QED BY <1>1, Invariant, PTL DEF Spec, FailureIsUnsettled

\* The original nodes that are to be connected are, once they have all been verified,
\* unless connections are lost.
Linked ==
    ~flaky /\ test = "duplicate" /\ pc > 1 =>
        \A o, p \in Original : o # p /\ (o \in Boot \/ p \in Boot) => {o, p} \in links

LEMMA LinkedInit == Init => Linked
BY DEF Init, Linked

LEMMA LinkedStep == IInv /\ Linked /\ [Next]_vars => Linked'
<1> SUFFICES ASSUME IInv, Linked, [Next]_vars, ~flaky', test' = "duplicate", pc' > 1,
                    NEW o \in Original, NEW p \in Original, o # p, o \in Boot \/ p \in Boot
             PROVE  {o, p} \in links'
  BY DEF Linked
<1>1. ~flaky /\ test = "duplicate" /\ pc \in Nat \ {0}
  <2>1. UNCHANGED <<test, flaky>>
    BY DEF Next, Connect, Disconnect, VerifyNode, VerifyOriginal, Verified, AllVerified, AddService,
           RemoveService, StartValidating, Sleep, StepFails, Ended, vars
  <2> QED
    BY <2>1 DEF IInv, Progress
<1>2. CASE AllVerified /\ pc = 1
  <2>1. o \in known /\ Settled(o) /\ o \in live /\ p \in live /\ live \subseteq DOMAIN nodeID
    BY <1>1, <1>2, DuplicateScript
       DEF AllVerified, Running, IInv, VerifiedStays, Progress
  <2>2. MayLink(o, p)
    BY <1>1, <1>2, <2>1 DEF MayLink, IInv, Progress
  <2>3. nodeID[p] \in Peers(o)
    BY <2>1, <2>2 DEF Settled
  <2>4. PICK m \in DOMAIN nodeID : {o, m} \in links /\ nodeID[m] = nodeID[p]
    BY <2>3 DEF Peers
  <2>5. m = p
    BY <2>1, <2>4 DEF IInv, Certs
  <2> QED
    BY <1>2, <2>4, <2>5 DEF AllVerified, network
<1>3. CASE ~(AllVerified /\ pc = 1)
  <2>1. pc > 1
    <3> SUFFICES ASSUME pc = 1 PROVE FALSE
      BY <1>1
    <3>1. pc' # pc
      OBVIOUS
    <3>2. ~Running("add") /\ ~Running("remove") /\ ~Running("validate") /\ ~Running("sleep")
      BY <1>1, DuplicateScript DEF Running
    <3>3. UNCHANGED pc
      BY <1>3, <3>2
         DEF Next, Connect, Disconnect, VerifyNode, VerifyOriginal, Verified, AddService,
             RemoveService, StartValidating, Sleep, StepFails, Ended, vars
    <3> QED
      BY <3>1, <3>3
  <2>2. {o, p} \in links
    BY <1>1, <2>1 DEF Linked
  <2>3. ASSUME NEW n \in Service, NEW m \in Service, Connect(n, m) \/ Disconnect(n, m)
        PROVE  {o, p} \in links'
    <3>1. CASE Disconnect(n, m)
      <4>1. m \notin {o, p}
        BY <1>1, <3>1 DEF Disconnect, IInv, Progress
      <4> QED
        BY <2>2, <3>1, <4>1 DEF Disconnect
    <3> QED
      BY <2>2, <2>3, <3>1 DEF Connect
  <2> QED
    BY <2>2, <2>3 DEF Next, VerifyNode, VerifyOriginal, Verified, AllVerified, AddService,
           RemoveService, StartValidating, Sleep, StepFails, Ended, network, vars
<1> QED
  BY <1>2, <1>3

\* An original node whose connections were not lost misses none that it should list.
LEMMA LinkedMissNone ==
    ASSUME Certs, Progress, Running("originals"), Linked, ~flaky, NEW s \in Boot
    PROVE  Missing(s) = {}
<1>1. test = "duplicate" /\ pc > 1 /\ Original \subseteq DOMAIN nodeID
  BY Position, DuplicateScript, ConnectedScript DEF Running, Progress
<1>2. ASSUME NEW o \in Original \ {s} PROVE nodeID[o] \in Peers(s)
  BY <1>1 DEF Linked, Peers, Original
<1> QED
  BY <1>2 DEF Missing

\* While IDs are duplicated, a boot node that passes lacks no more original nodes than it
\* lists duplicates in their stead, and none if connections are not lost; the other
\* original node lacks none.
THEOREM DuplicatesStandIn == Spec => OriginalsStandIn
<1>1. ASSUME IInv, Linked, [Next]_vars, NEW s \in checked' \ checked,
             Script[test][pc][1] = "originals"
      PROVE  Cardinality(Missing(s)) <= IF s \in Boot /\ flaky THEN Cardinality(StandIns(s)) ELSE 0
  <2>1. PICK t \in Service : VerifyNode(t) \/ VerifyOriginal(t)
    BY <1>1 DEF Next, Connect, Disconnect, AllVerified, AddService, RemoveService,
                StartValidating, Sleep, StepFails, Ended, Advance, vars
  <2>2. ~VerifyNode(t)
    BY <1>1 DEF VerifyNode, Running
  <2>3. s = t /\ s \in Original /\ OriginalPeers(s) /\ Running("originals")
    BY <1>1, <2>1, <2>2 DEF VerifyOriginal, Verified
  <2>4. CASE s \in Boot /\ flaky
    BY <1>1, <2>3, <2>4, OriginalPassed DEF IInv
  <2>5. CASE ~(s \in Boot /\ flaky)
    <3>1. Missing(s) = {}
      BY <1>1, <2>3, <2>5, OriginalPassed, LinkedMissNone DEF IInv, Original
    <3> QED
      BY <2>5, <3>1, FS_EmptySet
  <2> QED BY <2>4, <2>5
<1>2. IInv /\ Linked /\ [Next]_vars =>
        [\A s \in checked' \ checked : Script[test][pc][1] = "originals" =>
            Cardinality(Missing(s)) <= IF s \in Boot /\ flaky THEN Cardinality(StandIns(s)) ELSE 0]_vars
  BY <1>1
<1> QED BY <1>2, Invariant, LinkedInit, LinkedStep, PTL DEF Spec, OriginalsStandIn

\* Of any two nodes ever started the certificates differ, so the two that the duplicate ID
\* test starts from one configuration have never the same: what its provider's comment
\* promises is not only violated by a run but never the case.
THEOREM CertsDiffer ==
    Spec => [](\A s, t \in DOMAIN nodeID : s # t => nodeID[s] # nodeID[t])
<1>1. IInv => \A s, t \in DOMAIN nodeID : s # t => nodeID[s] # nodeID[t]
  BY DEF IInv, Certs
<1> QED BY <1>1, Invariant, PTL

=============================================================================
