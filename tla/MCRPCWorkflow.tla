--------------------------- MODULE MCRPCWorkflow ----------------------------
(***************************************************************************)
(* Instances of RPCWorkflow: the workflow test with a staker and a         *)
(* delegator node, and the chit spammer test with two byzantine nodes.     *)
(* Amounts are in kiloAVAX as in the tests.                                *)
(***************************************************************************)
EXTENDS RPCWorkflow

WorkflowScript == ExecuteTest(5, 3, 3)
ChitScript == ChitSpammerRun(<<"b1", "b2">>, "n1", 5, 3)

\* A slow network with three nodes is out of TLC's reach.
TestRuns == [script : {WorkflowScript}, faults : SUBSET Fault]
            \cup [script : {ChitScript}, faults : SUBSET {"request", "reject"}]
TestNodes == {"S", "D", "b1", "b2", "n1"}
TestOwners == {"genesis", "staker", "delegator", "b1", "b2", "n1"}
=============================================================================
