------------------------------- MODULE Scripts ------------------------------
(***************************************************************************)
(* The straight-line programs the tests drive through the RPC workflow     *)
(* runner, as sequences of operations.  Each runner method is the sequence *)
(* of the calls it makes; a test is the concatenation of its methods.      *)
(*                                                                         *)
(* An account is an owner and a place its funds are in: "X", "P", "toP"    *)
(* and "toX" (exported and not yet imported), "stake".  A transaction      *)
(* moves funds between two accounts.  An operation runs on the node `at`.  *)
(***************************************************************************)
LOCAL INSTANCE Naturals
LOCAL INSTANCE Sequences

Place == {"X", "P", "toP", "toX", "stake"}

XKinds == {"send", "exportX", "importX"}
PKinds == {"importP", "addValidator", "addDelegator", "exportP"}
TxKinds == XKinds \cup PKinds
StakeKinds == {"addValidator", "addDelegator"}
ImportKinds == {"importP", "importX"}
CheckKinds == {"checkBalance", "checkStakers"}

Op(kind, at, from, to, amount) ==
    [kind |-> kind, at |-> at, from |-> from, to |-> to, amount |-> amount]

\* What a transaction does to the balances: it takes an amount from one account, and
\* gives it to another.
Transfer(balance, from, to, amount) ==
    LET paid == [balance EXCEPT ![from] = @ - amount]
    IN  [paid EXCEPT ![to] = @ + amount]

\* A request that changes no funds: keystore, address and node ID calls.
Call(at, user) == <<Op("call", at, <<user, "X">>, <<user, "X">>, 0)>>

FundXChainAddresses(at, payer, users, amount) ==
    [i \in 1..Len(users) |-> Op("send", at, <<payer, "X">>, <<users[i], "X">>, amount)]

\* An import has no amount: it takes whatever was exported to its address.
TransferAvaXChainToPChain(at, payer, user, amount) ==
    <<Op("exportX", at, <<payer, "X">>, <<user, "toP">>, amount),
      Op("importP", at, <<user, "toP">>, <<user, "P">>, 0)>>

TransferAvaPChainToXChain(at, user, amount) ==
    <<Op("exportP", at, <<user, "P">>, <<user, "toX">>, amount),
      Op("importX", at, <<user, "toX">>, <<user, "X">>, 0)>>

AddValidatorToPrimaryNetwork(at, user, amount) ==
    <<Op("addValidator", at, <<user, "P">>, <<user, "stake">>, amount)>>

\* A delegation adds to the stake of the validator it names.
AddDelegatorToPrimaryNetwork(at, user, delegatee, amount) ==
    <<Op("addDelegator", at, <<user, "P">>, <<delegatee, "stake">>, amount)>>

VerifyXChainAVABalance(at, user, expected) ==
    <<Op("checkBalance", at, <<user, "X">>, <<user, "X">>, expected)>>

VerifyPChainBalance(at, user, expected) ==
    <<Op("checkBalance", at, <<user, "P">>, <<user, "P">>, expected)>>

GetCurrentValidators(at, user, expected) ==
    <<Op("checkStakers", at, <<user, "P">>, <<user, "P">>, expected)>>

-----------------------------------------------------------------------------

\* ImportGenesisFundsAndStartValidating: the funds come from the genesis key,
\* which every node that runs this imports.
ImportGenesisFundsAndStartValidating(at, user, seed, stake) ==
    Call(at, user)
    \o TransferAvaXChainToPChain(at, "genesis", user, seed)
    \o AddValidatorToPrimaryNetwork(at, user, stake)

\* ExecuteTest of the workflow test, with the staker's client on node S and the
\* delegator's on node D.  The last transfer exports the staker's leftover.
ExecuteTest(seed, stake, delegation) ==
    LET left == seed - stake IN
    Call("S", "genesis") \o Call("D", "delegator")
    \o FundXChainAddresses("S", "genesis", <<"staker", "delegator">>, seed)
    \o VerifyXChainAVABalance("S", "staker", seed)
    \o VerifyXChainAVABalance("D", "delegator", seed)
    \o TransferAvaXChainToPChain("S", "staker", "staker", seed)
    \o VerifyPChainBalance("S", "staker", seed)
    \o VerifyXChainAVABalance("S", "staker", 0)
    \o AddValidatorToPrimaryNetwork("S", "staker", stake)
    \o GetCurrentValidators("S", "staker", 6)
    \o VerifyPChainBalance("S", "staker", left)
    \o TransferAvaXChainToPChain("D", "delegator", "delegator", seed)
    \o VerifyPChainBalance("D", "delegator", seed)
    \o VerifyXChainAVABalance("D", "delegator", 0)
    \o AddDelegatorToPrimaryNetwork("D", "delegator", "staker", delegation)
    \o VerifyPChainBalance("D", "delegator", seed - delegation)
    \o TransferAvaPChainToXChain("S", "staker", left)
    \o VerifyPChainBalance("S", "staker", 0)
    \o VerifyXChainAVABalance("S", "staker", left)
    \o TransferAvaPChainToXChain("D", "delegator", left)
    \o VerifyPChainBalance("D", "delegator", 0)
    \o VerifyXChainAVABalance("D", "delegator", seed - delegation)

\* Run of the unrequested chit spammer test: each of the byzantine nodes, then the
\* normal node, which is added and waited for only now (a call that may fail), starts
\* validating with funds of the one genesis key.  The ten seconds before the stakers are
\* counted are no step: the network acts between any two steps, and nothing is made of
\* their length.
ChitSpammerRun(byzantine, normal, seed, stake) ==
    LET Start(n) == ImportGenesisFundsAndStartValidating(n, n, seed, stake)
        StartAll[i \in 0..Len(byzantine)] ==
            IF i = 0 THEN <<>>
            ELSE StartAll[i - 1] \o Start(byzantine[i]) \o Call(byzantine[i], byzantine[i])
    IN  StartAll[Len(byzantine)] \o Call(normal, normal) \o Start(normal)
        \o GetCurrentValidators(normal, normal, 5 + Len(byzantine) + 1)
=============================================================================
