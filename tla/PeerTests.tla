----------------------------- MODULE PeerTests ------------------------------
(***************************************************************************)
(* The two tests that verify who is connected to whom: DuplicateNodeIDTest *)
(* adds two nodes with one configuration and removes the first, and        *)
(* StakingNetworkFullyConnectedTest makes a node a validator.  Both ask    *)
(* the nodes for their peers one after the other, while the network goes   *)
(* on connecting and disconnecting.                                        *)
(*                                                                         *)
(* The network (links) is avalanchego: a node connects to every validator, *)
(* and in time notices that a peer is gone.  A node's ID is its staking    *)
(* certificate.                                                            *)
(***************************************************************************)
EXTENDS PeerVerifier, Sequences

CONSTANTS
    Boot,           \* the boot nodes
    vanilla,        \* the test's own first node: the one that becomes a validator
    nonvalidator,   \* the second of the fully connected test
    bad1, bad2      \* the nodes with the configuration that does not vary certificates

UserNode == {vanilla, nonvalidator, bad1, bad2}
Service == Boot \cup UserNode

ASSUME PeerTestsAssumption ==
    /\ IsFiniteSet(Boot)
    /\ Boot \cap (UserNode \cup {"normal", "samecert"}) = {}
    /\ Cardinality(UserNode) = 4
    /\ vanilla # nonvalidator /\ vanilla # bad1 /\ vanilla # bad2
    /\ nonvalidator # bad1 /\ nonvalidator # bad2 /\ bad1 # bad2

\* The tests' Run methods; Original is the duplicate test's originalServiceIDs.
Script == [duplicate |-> << <<"verify">>, <<"add", bad1>>, <<"verify">>, <<"add", bad2>>,
                            <<"originals">>, <<"remove", bad1>>, <<"verify">> >>,
           connected |-> << <<"verify">>, <<"validate", vanilla>>, <<"sleep", vanilla>>,
                            <<"verify">> >>]

Original == Boot \cup {vanilla}

VARIABLES
    test,       \* the test that runs
    flaky,      \* connections of running nodes may be lost
    pc,         \* its next step
    live,       \* the running nodes
    validators, \* the nodes the network knows as validators
    links,      \* the connections, as pairs of nodes
    nodeID,     \* the certificate of every node ever started
    serial,     \* each random certificate provider's nextSerialNumber
    keys,       \* the number of RSA keys generated
    known,      \* allServiceIDs
    stakers,    \* stakerServiceIDs
    checked,    \* the nodes verified so far in the verification under way
    verdict     \* "running", "pass", "peers" (a verification failed), "error"

vars == <<test, flaky, pc, live, validators, links, nodeID, serial, keys, known, stakers,
          checked, verdict>>
network == <<live, validators, links, nodeID, serial, keys>>

-----------------------------------------------------------------------------

\* The certificate of a boot node is part of the genesis data.
StaticCert(b) == [provider |-> b, serial |-> 0, key |-> 0]

\* GetCertAndKey signs a new key with the provider's next serial number.
RandomCert(provider) ==
    [provider |-> provider, serial |-> serial[provider], key |-> keys]

VaryCerts == [normal |-> TRUE, samecert |-> FALSE]

\* The next serial number is another one if the certificates are to vary.
CertIssued(provider) ==
    /\ serial' = [serial EXCEPT ![provider] = IF VaryCerts[provider] THEN @ + 1 ELSE @]
    /\ keys' = keys + 1

\* The IDs info.peers of node n answers with.
Peers(n) == {nodeID[m] : m \in {m \in DOMAIN nodeID : {n, m} \in links}}

\* Two running nodes connect if one of them is a validator.
MayLink(n, m) == /\ n \in live /\ m \in live /\ n # m
                 /\ n \in validators \/ m \in validators

Pairs(S) == {{n, m} : n \in S, m \in S}

\* The network is up, and has made some of its connections.
Init == /\ test \in DOMAIN Script /\ flaky \in BOOLEAN
        /\ pc = 1
        /\ live = Original \cup (IF test = "connected" THEN {nonvalidator} ELSE {})
        /\ validators = Boot
        /\ links \in SUBSET {p \in Pairs(live) : \E n, m \in p : MayLink(n, m)}
        /\ nodeID = [s \in live |->
                       CASE s \in Boot -> StaticCert(s)
                         [] s = vanilla -> [provider |-> "normal", serial |-> 0, key |-> 0]
                         [] OTHER -> [provider |-> "normal", serial |-> 1, key |-> 1]]
        /\ serial = [normal |-> 2, samecert |-> 0]
        /\ keys = 2
        /\ known = live
        /\ stakers = Boot
        /\ checked = {}
        /\ verdict = "running"

-----------------------------------------------------------------------------
\* The network.

Connect(n, m) == /\ MayLink(n, m)
                 /\ nodeID[m] \notin Peers(n) /\ nodeID[n] \notin Peers(m)
                 /\ links' = links \cup {{n, m}}
                 /\ UNCHANGED <<test, flaky, pc, live, validators, nodeID, serial, keys, known,
                                stakers, checked, verdict>>

\* A peer that is gone is dropped; a connection of two running nodes is kept, or may
\* be lost and made again.
Disconnect(n, m) == /\ {n, m} \in links
                    /\ m \notin live \/ flaky
                    /\ links' = links \ {{n, m}}
                    /\ UNCHANGED <<test, flaky, pc, live, validators, nodeID, serial, keys, known,
                                   stakers, checked, verdict>>

-----------------------------------------------------------------------------
\* The tests.

Running(op) == /\ verdict = "running" /\ Script[test][pc][1] = op
Operand == Script[test][pc][2]

\* Mutant: the next verification starts with the nodes of the last one as checked.
AdvanceOnly == /\ pc' = pc + 1
               /\ verdict' = IF pc = Len(Script[test]) THEN "pass" ELSE verdict
               /\ checked' = checked

Advance == /\ pc' = pc + 1
           /\ verdict' = IF pc = Len(Script[test]) THEN "pass" ELSE verdict
           /\ checked' = {}

\* Any request or call of a step may return an error: context.Fatal.
StepFails == /\ verdict = "running"
             /\ verdict' = "error"
             /\ UNCHANGED <<test, flaky, pc, network, known, stakers, checked>>

\* VerifyNetworkFullyConnected, for one node.
ExpectedPeers(s) ==
    LET acceptable == AcceptableNodeIDs(s, known, stakers, nodeID)
    IN  VerifyExpectedPeers(Peers(s), acceptable, Cardinality(acceptable), FALSE)

\* Mutant: the node itself is taken off the original nodes twice.
OriginalPeersOneLess(s) ==
    LET boot == {nodeID[b] : b \in Boot \ {s}}
    IN  IF s \in stakers
        THEN VerifyExpectedPeers(Peers(s),
                 boot \cup {nodeID[vanilla], nodeID[bad1], nodeID[bad2]},
                 Cardinality(Original) - 2, TRUE)
        ELSE VerifyExpectedPeers(Peers(s), boot, Cardinality(Boot), FALSE)

\* The check of an original node while two nodes are expected to share an ID.
OriginalPeers(s) ==
    LET boot == {nodeID[b] : b \in Boot \ {s}}
    IN  IF s \in stakers
        THEN VerifyExpectedPeers(Peers(s),
                 boot \cup {nodeID[vanilla], nodeID[bad1], nodeID[bad2]},
                 Cardinality(Original) - 1, TRUE)
        ELSE VerifyExpectedPeers(Peers(s), boot, Cardinality(Boot), FALSE)

Verified(s, passes) == /\ checked' = IF passes THEN checked \cup {s} ELSE checked
                       /\ verdict' = IF passes THEN verdict ELSE "peers"
                       /\ UNCHANGED <<test, flaky, pc, network, known, stakers>>

\* The range over the nodes, in any order.
VerifyNode(s) == /\ Running("verify") /\ s \in known \ checked
                 /\ Verified(s, ExpectedPeers(s))

VerifyOriginal(s) == /\ Running("originals") /\ s \in Original \ checked
                     /\ Verified(s, OriginalPeers(s))

AllVerified == /\ \/ Running("verify") /\ known \subseteq checked
                  \/ Running("originals") /\ Original \subseteq checked
               /\ Advance
               /\ UNCHANGED <<test, flaky, network, known, stakers>>

\* A node of the configuration that does not vary certificates, up and asked for its ID.
AddService == /\ Running("add")
              /\ live' = live \cup {Operand}
              /\ nodeID' = [s \in DOMAIN nodeID \cup {Operand} |->
                               IF s = Operand THEN RandomCert("samecert") ELSE nodeID[s]]
              /\ CertIssued("samecert")
              /\ known' = known \cup {Operand}
              /\ Advance
              /\ UNCHANGED <<test, flaky, validators, links, stakers>>

\* Mutant: the removed node is not deleted from the nodes to verify.
RemoveAndRemember == /\ Running("remove")
                     /\ live' = live \ {Operand}
                     /\ Advance
                     /\ UNCHANGED <<test, flaky, validators, links, nodeID, serial, keys, known, stakers>>

\* The connections of the node are still listed when RemoveService returns.
RemoveService == /\ Running("remove")
                 /\ live' = live \ {Operand}
                 /\ known' = known \ {Operand}
                 /\ Advance
                 /\ UNCHANGED <<test, flaky, validators, links, nodeID, serial, keys, stakers>>

\* ImportGenesisFundsAndStartValidating has returned.
StartValidating == /\ Running("validate")
                   /\ validators' = validators \cup {Operand}
                   /\ Advance
                   /\ UNCHANGED <<test, flaky, live, links, nodeID, serial, keys, known, stakers>>

\* Mutant: the new validator is not added to the stakers.
SleepOnly == /\ Running("sleep")
             /\ Advance
             /\ UNCHANGED <<test, flaky, network, known, stakers>>

\* The pause for gossip, then the new validator counts as a staker.
Sleep == /\ Running("sleep")
         /\ stakers' = stakers \cup {Operand}
         /\ Advance
         /\ UNCHANGED <<test, flaky, network, known>>

Ended == verdict # "running" /\ UNCHANGED vars

Next == \/ \E n, m \in Service : Connect(n, m) \/ Disconnect(n, m)
        \/ \E s \in Service : VerifyNode(s) \/ VerifyOriginal(s)
        \/ AllVerified \/ AddService \/ RemoveService \/ StartValidating \/ Sleep
        \/ StepFails \/ Ended

Spec == Init /\ [][Next]_vars

-----------------------------------------------------------------------------

\* What node n's peer list is when the network has made every connection it will and
\* forgotten every node that is gone.
Settled(n) == Peers(n) = {nodeID[m] : m \in {m \in live : MayLink(n, m)}}

\* The tests' variables have their types.
TypeOK ==
    /\ test \in DOMAIN Script /\ flaky \in BOOLEAN
    /\ pc \in 1 .. (Len(Script[test]) + 1)
    /\ live \in SUBSET Service /\ validators \in SUBSET Service
    /\ links \in SUBSET Pairs(Service)
    /\ DOMAIN nodeID \in SUBSET Service
    /\ \A s \in DOMAIN nodeID : /\ nodeID[s].provider \in Boot \cup DOMAIN VaryCerts
                                /\ nodeID[s].serial \in Nat /\ nodeID[s].key \in Nat
    /\ serial \in [DOMAIN VaryCerts -> Nat] /\ keys \in Nat
    /\ known \in SUBSET Service /\ stakers \in SUBSET Service /\ checked \in SUBSET known
    /\ verdict \in {"running", "pass", "peers", "error"}

\* The lists are read one after the other and still make a snapshot: while connections
\* are not lost, a node that VerifyNetworkFullyConnected has passed keeps exactly the
\* peers it should have until the verification is over.
VerifiedStays ==
    (~flaky /\ verdict = "running" /\ pc <= Len(Script[test]) /\ Script[test][pc][1] = "verify")
        => \A s \in checked : Settled(s)

\* A test that passes has seen the whole network connected, unless it loses connections:
\* every node has the peers it should have, and no one still lists the node that was
\* removed.
PassIsConnected == ~flaky /\ verdict = "pass" => \A s \in live : Settled(s)

\* The original nodes that node s does not list, and the duplicated IDs it does.
Missing(s) == {nodeID[o] : o \in {o \in Original \ {s} : s \in Boot \/ o \in Boot}} \ Peers(s)
StandIns(s) == Peers(s) \cap {nodeID[bad1], nodeID[bad2]}

\* What the check of a boot node in the presence of the duplicates is worth: as many
\* original nodes may be missing from the list it passes as it has duplicates (which have two
\* IDs) counted in their stead, and no more.  The non-staker misses none, and no one does
\* if connections are not lost: the verifications before have seen to that.
OriginalsStandIn ==
    [][\A s \in checked' \ checked : Script[test][pc][1] = "originals" =>
          Cardinality(Missing(s)) <= IF s \in Boot /\ flaky THEN Cardinality(StandIns(s)) ELSE 0]_vars

\* "Verified that original nodes are still connected to each other": an original node that
\* passes the check lists the other original nodes.
OriginalsConnected ==
    [][\A s \in checked' \ checked : Script[test][pc][1] = "originals" => Missing(s) = {}]_vars

\* A verification fails only because the network has not settled yet: once it has, what
\* the verifier expects is what the nodes answer, at every step of both tests.
FailureIsUnsettled ==
    [][(verdict = "running" /\ verdict' = "peers") => \E s \in live : ~Settled(s)]_vars

\* "false to yield the same randomly-generated cert each time": nodes started from a
\* configuration that does not vary certificates have the same one.
SameCertEachTime ==
    {bad1, bad2} \subseteq DOMAIN nodeID => nodeID[bad1] = nodeID[bad2]
=============================================================================
