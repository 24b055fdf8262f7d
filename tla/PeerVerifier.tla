---------------------------- MODULE PeerVerifier ----------------------------
(***************************************************************************)
(* The checks NetworkStateVerifier makes of one node's peer list.  A node  *)
(* keeps its peers by node ID, so the list it answers with is a set of     *)
(* node IDs.                                                               *)
(***************************************************************************)
EXTENDS Naturals, FiniteSets

\* The node IDs VerifyNetworkFullyConnected accepts as peers of node s: those of all
\* other nodes if s is a staker, those of the other stakers if it is not.
AcceptableNodeIDs(s, all, stakers, nodeID) ==
    {nodeID[c] : c \in {c \in all \ {s} : s \in stakers \/ c \in stakers}}

\* Mutant: a node with too many peers is not told from one with the right ones.
CountOnlyPeers(peers, acceptable, expected, atLeast) ==
    IF atLeast THEN Cardinality(peers) >= expected ELSE Cardinality(peers) = expected

\* VerifyExpectedPeers: the number of peers, then each of them.
VerifyExpectedPeers(peers, acceptable, expected, atLeast) ==
    /\ IF atLeast THEN Cardinality(peers) >= expected ELSE Cardinality(peers) = expected
    /\ peers \subseteq acceptable

=============================================================================
