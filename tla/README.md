# A verification development for avalanche-testing

avalanche-testing runs end-to-end tests against real networks of avalanchego
nodes, started by Kurtosis in Docker containers. Its own logic is in how it
starts a network, waits for it, drives several nodes through their APIs, and
decides from what it reads whether the test has passed. Nodes answer from their
own view, at their own pace, while the test goes on; that is where the tests can
say "pass" or "fail" for the wrong reason, and what these modules are about.

`tlc -config X.cfg M` checks a run, `tlapm M.tla` a module of proofs.
PROJECT.json lists components, runs, mutants (a plausible bug per property that
the run must find), the source lines of each definition, findings, hazards and
theorems.

## Inventory

| Component | State | Operations | Interacts with | Hard behaviour | Correct if |
|---|---|---|---|---|---|
| RPC workflow runner (`testsuite/helpers/rpc_workflow_runner.go`) | the client of one node, a user, an acceptance timeout; the deadline of the await under way | fund, transfer X/P, add validator or delegator, verify balances, await | one node's APIs; called by most tests | an answer is out of date when it is looked at; the deadline is only looked at between polls; staking starts at a time fixed before issuing | an await says what the node said and returns in time; a method returns nil only when all it did was accepted |
| Workflow test (`tests/workflow`) | two clients, expected balances | one straight script | two runners on two nodes | what was awaited on one node is read on another | passes only if every transfer happened; fails on a good network only for a late read |
| Chit spammer test (`tests/spamchits`) | runners of byzantine and normal nodes | start validating on each, count stakers | the one genesis key, used from several nodes | two nodes may spend the same output | no two spends conflict |
| Network loader, test network (`avalanche/networks`) | configurations, boot node IDs, checkers | validate names, configure, initialize, add and remove nodes | Kurtosis builder and network; initializer core; availability checker | boot nodes depend on each other in order; a failure half way | IDs and addresses of the bootstrappers agree; no test runs on a part of its network; all come up |
| Initializer core, certificate providers (`avalanche/services`) | bootstrapper IDs; serial number | start command, mounted files | called by Kurtosis for each start | same provider called for several nodes | what `varyCerts` says |
| Availability checker | three flags, in a copy | `IsServiceUp`, `GetTimeout` | polled by Kurtosis | memory lost between polls, fixed timeout, nodes that bootstrap in turn | up only on answers of one poll; a prompt network starts within the timeout |
| Verifier, duplicate and connected tests | node IDs, nodes and stakers known, peers read | verify, add, remove, validate, sleep | each node's peer list | lists are read one after the other while the network connects | a pass means connected; a failure means too early |
| Bombard test (`tests/bombard`) | UTXOs, transaction lists | fund, verify, build offline, issue, confirm | genesis node and a node per client | unsigned arithmetic; outputs read on another node than they are spent | what is built is valid and issuable; all confirmed |
| Conflicting vertex test (`tests/conflictvtx`) | statuses read | issue, read, poll | a byzantine and a virtuous node | single readings of moving statuses; poll without limit | what is read last shows whether a node built on the bad vertex |
| C-Chain tests (`tests/cchain`) | transaction lists, an error channel; expected balances | fund, issue in parallel, read receipts; atomic X/C transfers | C-Chain API | goroutines, fixed pauses, an await that waits for nothing | a pass means accepted and in blocks; a prompt network passes; the test ends if its eth requests do |
| API clients, suite, main, genesis data, scripts | none that changes | | | | not modelled: I/O, tables, data |

PROJECT.json lists the hazards found in reading this code, each at its line with
the properties that would catch it.

## Modules

The C-Chain sleep, the X- and P-Chain polling loops:

* **TxStatus**: the statuses of each chain, which count as success and failure.
* **TxWait**: the promise of an await. It returns once and eventually, "ok" and
  "rejected" are true, giving up is always allowed.
* **AwaitTx**: the loops against a node that settles the transaction at any time
  or never. `pc` walks check, request, reply, sleep; `Poll`/`TimeOut` are the two
  sides of the loop condition, `Answer` is the node reading the status, `See...`
  the runner acting on what may be an old reply. `now` is `time.Since(pollStartTime)`.
  `ImplementsWait` is the refinement of TxWait.

The runner's methods as scripts:

* **Scripts**: each method as the sequence of calls it makes, and the two tests as
  concatenations of methods, in the order of the source.
* **RPCWorkflow**: a script executed against several nodes. `net` is the decided
  history, every node learns it later (`Learn`) in an order that respects inputs
  and the P-Chain's block order. An await is the choice of outcomes TxWait allows,
  so the loop is not modelled twice. `Issue`, `CannotIssue`, `ImportErrorDropped`
  are the returns of the issuing request, `Wake` the end of the staking sleep,
  `CheckPasses`/`CheckFails` the balance and staker checks. Which script runs, and
  which faults it may meet (`request`, `reject`, `slow`), is chosen at the start.
* **LedgerRun**: the abstract specification: the same script on one ledger, with no
  nodes, awaits or clocks. `ImplementsLedger` is the refinement.
* **MCRPCWorkflow**: the two scripts TLC runs, each with every set of its faults.

The network:

* **NetworkLoader**: `NewTestAvalancheNetworkLoader`, `ConfigureNetwork`,
  `InitializeNetwork`, `AddService`, `RemoveService`, with one action for each
  iteration of a loop; a range over a map takes its elements in any order. A
  boot node, its configuration and its ID are the same number i, as in the code's
  `prefix + strconv.Itoa(i)`.
* **Startup**: what follows, Kurtosis polling each node's checker. `IsServiceUp` begins a
  poll, `Answer`, `Bootstrapped` and `NotBootstrapped` are one chain's query, `ServiceUp` the
  end of the sleep. Nodes bootstrap a chain at a time, after their bootstrappers.
  NetworkLoader abstracts all this to `ComesUp` and `StartupTimesOut`.
* **MCStartup**: two boot nodes and a node of a test, each with those before it as
  bootstrappers.
* **PeerVerifier**, **PeerTests**: the two verifier methods, and the tests that use
  them as scripts whose verification of one node is one step; between two steps the
  network connects, and drops nodes that are gone, or, if `flaky`, any connection. A
  certificate is a record of provider, serial number and key.

Tests with a body of their own:

* **Bombard**: `ExecuteTest` loop by loop. Amounts are unsigned words (`% Word`).
  Every node has its own set of accepted transactions.
* **ConflictVertex**: `ExecuteTest` request by request, against a byzantine node that
  is accepting meanwhile, and a virtuous one that drops bad vertices or does not.

* **CChain**: the two C-Chain tests as scripts on one node. A transaction is the step that
  issues it; what an import spends, or which nonce an export takes, is fixed when it
  is issued (`Inputs`), from what is accepted then. `AwaitC` is the pause of
  `AwaitCChainAtomicTransactionAcceptance`. The goroutines of the throughput test are
  `Issuer(i)`, their channel `errs`. Amounts are counted unit by unit (`Total`).

**AwaitTxProofs**, **RPCWorkflowProofs**, **NetworkLoaderProofs**, **StartupProofs**,
**PeerTestsProofs**, **BombardProofs**, **ConflictVertexProofs** and **CChainProofs** hold the
theorems. A definition whose comment begins "Mutant" is not part of a
specification; it is the bug a property is tried on.

## Runs and bounds

| Run | Distinct states | Shows |
|---|---|---|
| await_tx | 2742 | verdicts are true, timeouts honest, an await outlives its timeout by one round at most, and implements TxWait |
| workflow | 32874 | without faults, reads of a node's own accounts are up to date, staking methods block until active, and the only failure is the delegator's first balance, read on a node that may not have the credit yet; with any faults, a pass means every transaction was accepted, in spite of the import error that is dropped, the delegator's node knows the validator, and the runs are runs of one ledger; nodes that share the genesis key do not spend the same output while the network is prompt |
| network_loader | 2151 | for any names asked for, IDs and addresses match, errors have a reason (a reserved name before anything is registered), no test runs on a part of its network, everyone comes up |
| startup | 1476902 | a node is called up on one poll's answers, a prompt network starts in time in whatever order its nodes are waited for, a wait is over one round after the timeout at the latest |
| peer_tests | 13852 | lists read one by one make a snapshot; pass means connected; fail means too early; the check that counts duplicates misses an original node only when connections are lost, and then no more than the boot node lists duplicates |
| originals | violation | that check passes a boot node that has lost another |
| same_cert | violation | two certificates that should be the same are not |
| bombard | 6320 | chains are valid, no failure of the test's own making, pass means confirmed unless an error was dropped |
| bombard_confirm | violation | such an error is dropped and the test passes |
| conflict_vertex | 306 | the last status is Accepted only of a node that takes bad vertices, and always of one that built on the vertex, a pass has tested something unless the first check ended the test, and the poll ends with its transaction |
| conflict_verdict | violation | the test passes after reading what should fail it |
| cchain | 46541 | a pass means accepted and in blocks, though imports may take each other's funds and exports each other's nonce; the balances read confirm what the awaits do not; on a prompt network only the last expectation of AVAX fails; the test ends unless an eth request is never answered |

Bounds, and why they are enough:

* AwaitTx: `Timeout` 5, poll interval and oversleep 1, request deadline 2: the last
  round begins before the deadline in every possible place, and ends after it.
* RPCWorkflow: two nodes for the workflow test and three for the spammer, as in the
  tests (for the spammer two byzantine nodes instead of four, which is the same loop run twice less).
  Amounts are 5, 3 and 3 kiloAVAX, the ratio of the constants in the code;
  `Genesis` 16 covers three seeds. `StakingDelay` exceeds `AcceptLag`, so an
  acceptance may come at once or late, and after the start when "slow". The spammer does
  not run on a slow network (three nodes are then too many for TLC).
* NetworkLoader: three boot nodes, so that one has two bootstrappers; two free
  configurations and two nodes, in all combinations, with the reserved name of a
  boot node among those a test may ask for.
* Startup: a chain of three nodes, the longest the boot nodes and one more can make
  with two bootstrappers each in turn. `Fixed` 6 is the least timeout that lets a prompt
  network start (5 fails); a request of 1 tick, a sleep of 2 and a pause of 1
  suffice for a poll to straddle the bootstrapping of any chain.
* PeerTests: two boot nodes, so that a boot node has another staker and others as
  peers; every set of connections at the start.
* Bombard: two clients, chains of two, fee 5 and a word of 16, which the seed amount
  of 15 just fits, so that any amount too many wraps.
* ConflictVertex has no parameters.
* CChain: three lists of two transactions, so that an import can take what the one before
  it has and leave one account of three without, and goroutines finish in any order;
  amounts that tell the fee, each export and the asset apart.

## Fairness

* AwaitTx: weak fairness of the runner: its goroutine is scheduled, clocks advance,
  the HTTP client has a deadline. Nothing obliges a node to settle.
* RPCWorkflow: weak fairness of everything together: the system does not stop while
  something can go on. Every await ends on its own, so this only excludes a runner
  that stands still.
* NetworkLoader: the loader runs on, and a node whose bootstrappers are up gets up
  itself (the comment in `IsServiceUp`).
* ConflictVertex: only the test's own steps are fair; `EndsOnceAccepted` is
  conditional on the acceptance just because nothing bounds that poll.
* CChain: each goroutine is scheduled, the test's own included, and a prompt network
  acts. Requests to the X-Chain and to the C-Chain's wallet are HTTP requests with a deadline, so
  their steps are fair. The eth API is a websocket without one (`client.go:40`), called with
  `context.Background()`: the steps of those requests (`MainAsksEth`, `IssuerAsksEth`) are fair on a
  prompt network only, and `Ends` says that a test either ends or waits for ever for such an answer.
* PeerTests, Startup and Bombard make no liveness claim and assume no fairness.

## What is assumed of the environment

Avalanchego and Kurtosis are not under `src/`; the actions that stand for them are
marked external in PROJECT.json and rest on the following.

* A node accepts a transaction after the ones it spends from, and P-Chain
  transactions in one order. A prompt network (no "slow" among the `Faults`) shows
  an acceptance within `AcceptLag` and a staking period's start within `PromoteLag`,
  less than `stakingPeriodSynchronyDelay`. Staking times are not truncated to seconds.
* A peer list holds a node ID once, and a node that is gone is dropped in time. A
  connection of two running nodes is lost only on a `flaky` network, where
  `OriginalsStandIn` says what the weak check at `duplicate_node_id.go:133` still shows and the run
  originals what it does not.
* Kurtosis polls one checker at a time, looks at `GetTimeout` between polls and pauses
  after a "no". A prompt node bootstraps within `BootTime` of its last bootstrapper.
* On a prompt network every request is answered and the C-Chain pauses suffice for what was issued before
  them. An
  import to the C-Chain takes every output that is there; an export from it takes the account's next
  nonce; the loser of two that took the same is dropped. C-Chain fees are not charged for
  atomic transactions, as the test's expectation of a zero balance has it.
* The bombard test's seed amount, `(numTxs + 1) * txFee`, fits a uint64. The suite
  uses 1000 transactions and a fee of 1,000,000.
* The virtuous node issues its transaction on the vertices it has taken, and accepts
  parents first, as the comment at `conflictvtx/executor.go:105` expects.

## What is proved

For every value of the constants that satisfies the named assumptions. Every invariant and
every action property of a passing run is a theorem.

* **AwaitTxProofs**: `TypeCorrect`; `Soundness`, `NoFalseAlarm` and `Timeliness`
  from the inductive invariant `PollInv` with the types. The properties are about
  the return; `PollInv` adds how old the last answer can be at each place of
  the loop, which is what the bounds add up from. `Refinement` shows that the initial
  states and steps of AwaitTx are those of TxWait's safety part.
* **RPCWorkflowProofs**: `TypeCorrect`, `PassesAreEarned`, `ReadsYourWrites`,
  `StakersAreActive`, `SpendsDoNotConflict`, `DelegateesAreKnown`, `FailuresExplained`, and in
  `RefinesLedgerRun` that a run against many nodes is a run on one ledger, step by step. They
  follow from one inductive invariant (`Invariant`). Its core is `Balances`: each view's balance of an
  account is the endowment and the sum of what the transactions accepted there have
  moved, so that two views that have accepted the same of an account's transactions agree on it.
  `Issued` and `Known` tie what is accepted to the step of the script, `Payable` keeps the
  transaction in flight payable in the network's view, `Shown` and `Synced` say what a node must
  have learned: by a balance that only one transaction explains, or by a
  staking period having begun. For `FailuresExplained` the decided history also follows the script's books
  (`Sound`). All of it is about any script; what the properties need of one is in four assumptions, which TLC evaluates on the
  two scripts of the tests: `ScriptAssumption` (stakes are not spent, imports are their node's own, a
  delegation names an earlier validator, what a node checks it has moved itself or has been
  shown), `SpendsAreSpaced` and `FundsAreKnown` (between two nodes' spends of one account, or a
  payment and its spending at another node, there is a staking period or a revealing check) and
  `ScriptsAddUp` (in the script's books every transaction is funded and every expectation right).
* **NetworkLoaderProofs**: `TypeCorrect`; `Bootstraps`, for any number of genesis stakers. The
  invariant says what each configuration holds in each phase: in the loop of
  `InitializeNetwork` configuration i already has the IDs below i. `Progress` adds how far
  the loops have come, so that nothing is registered or started twice (`GivesUpForAReason`), and that until the test runs
  there is a checker of every started node; so the wait for the checkers is one for the boot nodes
  and all that was asked for (`RunsWhole`).
* **StartupProofs**: `TypeCorrect`; `Freshness` and `Timeliness`, for any network and any
  durations. The invariant says at each query how old each answer of the poll is
  (`Ages`) and how long the wait has lasted since the timeout was last looked at (`Paces`).
  `PromptStarts`, for any finite network whose dependencies have no cycle (a boot node
  has those before it, `avalanche_network.go:267`): at each moment some missing node has
  all its bootstrappers up (there is no cycle), and has been at it for as long as
  the nodes already up do not account for (`Catching`); when none is missing, the last poll is soon
  over (`Unnoticed`).
* **PeerTestsProofs**: `Exactness`, that a count and a membership test are equality of
  sets; with it `Snapshot`, `PassConnects` and `TypeCorrect`, for any boot nodes. The invariant
  (`Certs`, `Progress`) says that certificates differ and that what the test believes
  of nodes and stakers is what the network has, step by step; a node with
  the right peers then keeps them, since a second connection to the same ID is
  refused and the lost ones are to IDs no running node has. Two action properties:
  `FailuresAreUnsettled`, that a settled node passes each of the three checks, and
  `DuplicatesStandIn`, by counting what the membership test lets through and, where connections are
  not lost, from what the verifications before have seen (`Linked`). `CertsDiffer`: no two
  nodes ever started have the same certificate.
* **BombardProofs**: `TypeCorrect`; `ChainsValid`, from the fact that after j
  transactions the amounts are the seed less j fees; `NoOwnFailure`, from what has
  been funded, read and issued at each loop: the balance verified at the client's
  node is what makes the genesis node's output and the client's first input sure.
  `PassConfirms`, from `WaitedFor`: what the last loop has passed is accepted or was dropped.
* **ConflictVertexProofs**: `TypeCorrect`, `LastStatusDecides` and `PassesAreTested`. The invariant says
  which requests have been made and what has been seen at each step of the test, and that the virtuous
  node accepts its own transaction only on what it has taken. `AcceptedPasses`: whenever
  the last status is the one that should fail the test, the test has passed. The
  module has no parameters; the proofs say why its exhaustive run finds nothing.
* **CChainProofs**: `TypeCorrect`, `ReadingsTell` and `Complete` on any network, for any number of
  lists and transactions and any amounts the genesis key can pay. The invariant: no two accepted imports
  spend the same (`Spent`), what each reading of the atomic test has shown (`Read`), an account
  issues only after an import to it is accepted and the results on the channel are those of
  goroutines that are gone (`Issuers`), which receipts have been read (`Receipts`). That a pass has
  funded each account once is then a least-counterexample argument: import i can spend the first i
  exports only, and those before have taken theirs. `PromptPasses` adds, for a prompt network, that all
  before the step under way is accepted (`Calm`), that goroutines never fail (`Busy`), and
  computes each balance of the scripts from that. `NeverPasses` holds on any network: at its last
  reading of AVAX the atomic workflow test has awaited everything of the X-Chain (`Awaited`) and
  read that the AVAX has left the C-Chain (`Read`), and what is then on the X-Chain is
  `ExportAmount` more than expected, which is not zero. `ChannelSuffices`, from `Served`: while the test
  runs, the results on the channel and those taken are as many as the goroutines that
  are gone, and the test waits for another only while it has taken fewer than there are goroutines:
  no goroutine blocks on the channel, for any number of lists, which is the part of `Ends` that is
  neither about fairness nor about requests that are never answered.
* Balances: RPCWorkflow's sums are recursive functions that may go down as well as up, and
  RPCWorkflowProofs begins with the lemmas about them (a sum exists, is monotone, and changes
  by what one term changes), by least counterexamples, since induction theorems with an operator
  parameter cannot be used. CChain's are cardinalities, and the library's theorems suffice.

Only model-checked: all liveness
(`ImplementsWait`'s return, `ImplementsLedger`'s verdict, `EveryoneComesUp`,
`EndsOnceAccepted`, `Ends`), since TLAPS has no means for fairness and ENABLED here; and
what the four findings' runs violate.

## Findings

* `RandomAvalancheCertProvider` makes a new key, and so a new certificate and node
  ID, on every call, with `varyCerts` false too: the duplicate test has no
  duplicates (same_cert), in no run of it and for no boot nodes (`CertsDiffer`).
* The duplicate test's check of the original nodes takes a duplicate for an original node that is lost
  (originals): it asks of a boot node as many peers as there are other original nodes, the
  duplicates counted, while its comment says that boot nodes should have one of these as well. The
  two duplicates have different certificates, so that two original nodes may be missing.
* The bombard test drops the errors of its last awaits (bombard_confirm).
* The conflicting vertex test returns `stacktrace.Propagate` of a nil error, which is
  nil, where it should fail (conflict_verdict), every time it gets there (`AcceptedPasses`).

Proved, without a run of its own: the atomic workflow test leaves the AVAX that came back from the
C-Chain out of its last expectation (`atomic_workflow.go:206`, where it sets the asset's back to the
whole amount, and after `:178` "Confirm C-Chain balances are set back to 0"). It fails on a
network that did everything right, there and nowhere else (`PromptSucceeds`), and passes on none
(`NeverPasses`): what `PassIsComplete` says of a pass is about the throughput test, and of the
atomic one `ReadingsConfirm` and `PromptSucceeds` speak.

Seen in reading, without a run: `AwaitCChainAtomicTransactionAcceptance` returns nil
after a pause where its comment (`rpc_workflow_runner.go:410`) promises an error of what is
not confirmed; CChain's properties are about what follows from that. `ethapi.go:127` compares block
numbers by their pointers, so its executor, which nothing runs, always fails.
`SendAVAXBackAndForth` sends one transaction fewer than its comment says.

## Not modelled

`SendAVAX`, `SendAVAXBackAndForth` and `confirmTx`, which nothing calls; the C-Chain wrapper
(it logs that its tests have completed and calls no executor, so the two executors of
CChain run only for who calls them) and `ethapi.go`, which only reads; API clients, flags,
command-line layout, genesis data and scripts. In NetworkLoader Kurtosis' own timeouts appear
as failures that may come at any time, and what it does with the nodes left over by a start that
failed half way is left out. In the spammer test the ten seconds before the stakers are counted are no
step; the network may act before the count or not.

## Plan

Done: the awaits and the runner first, since every test's verdict rests on them;
then the network and its startup, the peer tests, the bombard, the conflicting vertex
and the C-Chain tests.

Then the proofs, from the awaits to the tests: each invariant and action property of a passing run
is a theorem of its component's proof module.

Next: a run of the spammer test on a slow network, with a smaller script.
