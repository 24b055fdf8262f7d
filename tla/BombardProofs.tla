---------------------------- MODULE BombardProofs ---------------------------
(***************************************************************************)
(* What the bombard test builds and meets, for any number of clients and   *)
(* transactions and any fee whose seed amount fits the word.               *)
(***************************************************************************)
EXTENDS Bombard, TLAPS

-----------------------------------------------------------------------------
\* The arithmetic of the amounts.

LEMMA Fits == ASSUME NEW a \in Nat, a < Word PROVE a % Word = a
BY BombardAssumption

\* What r fees amount to.
LEMMA Fees ==
    ASSUME NEW r \in Nat
    PROVE  /\ r * TxFee \in Nat
           /\ (r + 1) * TxFee = r * TxFee + TxFee
           /\ r > 0 => r * TxFee >= TxFee
           /\ r <= NumTxs => (r + 1) * TxFee <= (NumTxs + 1) * TxFee
BY BombardAssumption

\* The seed amount does not wrap around, and suffices.
LEMMA Seed == seedAmount = (NumTxs + 1) * TxFee /\ ~InsufficientFunds
<1>1. /\ NumTxs + 1 \in Nat /\ NumTxs + 1 <= (NumTxs + 1) * TxFee
      /\ NumTxs * TxFee \in Nat /\ (NumTxs + 1) * TxFee = NumTxs * TxFee + TxFee
  BY BombardAssumption, Fees
<1>2. Plus(NumTxs, 1) = NumTxs + 1
  BY <1>1, Fits, BombardAssumption DEF Plus
<1>3. seedAmount = (NumTxs + 1) * TxFee
  BY <1>1, <1>2, Fits, BombardAssumption DEF seedAmount, Times
<1>4. Times(NumTxs, TxFee) = NumTxs * TxFee
  BY <1>1, Fits, BombardAssumption DEF Times
<1> QED BY <1>1, <1>3, <1>4, BombardAssumption DEF InsufficientFunds

-----------------------------------------------------------------------------
\* The inductive invariant: what the loops behind the current one, and the iterations
\* behind the current client, have left.

Loops == {"fund", "awaitFund", "read", "create", "chain", "issue", "confirm"}

Position ==
    /\ pc \in Loops \cup {"setup", "passed", "failed"}
    /\ cur \in Client \cup {1}
    /\ pc \in Loops => cur \in Client
    /\ pc = "setup" => cur = 1

Types ==
    /\ issued \in SUBSET Tx
    /\ accepted \in [Node -> SUBSET Tx]
    /\ utxos \in [Client -> SUBSET Tx]
    /\ input \in 0 .. (Word - 1) /\ output \in 0 .. (Word - 1)
    /\ txs \in [Client -> Seq([input : 0 .. (Word - 1), output : 0 .. (Word - 1)])]
    /\ sent \in 0 .. NumTxs
    /\ dropped \in BOOLEAN

\* The genesis node has accepted the funding of every client that was waited for.
FundsAccepted ==
    \A c \in Client :
        \/ pc \in {"read", "create", "chain", "issue", "confirm"}
        \/ pc \in {"fund", "awaitFund"} /\ c < cur
        => <<c, 0>> \in accepted[0]

\* A client whose balance was verified has an output to spend, and its node knows it.
FundsRead ==
    \A c \in Client :
        \/ pc \in {"create", "chain", "issue", "confirm"}
        \/ pc = "read" /\ c < cur
        => utxos[c] # {} /\ <<c, 0>> \in accepted[c]

\* The transactions before the next one to issue are issued.
Sending ==
    /\ pc = "issue" /\ sent > 0 => <<cur, sent>> \in issued
    /\ pc \notin {"issue", "failed"} => sent = 0

\* The chain under construction has NumTxs - Len(txs[cur]) transactions to go.
Building ==
    pc = "chain" =>
        LET k == Len(txs[cur])
        IN  /\ k <= NumTxs
            /\ input = (NumTxs - k + 1) * TxFee
            /\ output = (NumTxs - k) * TxFee
            /\ input = IF k = 0 THEN (NumTxs + 1) * TxFee ELSE txs[cur][k].output

\* A chain not begun is empty.
Unbuilt ==
    \A c \in Client :
        \/ pc \in {"setup", "fund", "awaitFund", "read"}
        \/ pc = "create" /\ c >= cur
        \/ pc = "chain" /\ c > cur
        => txs[c] = << >>

IInv == /\ Position /\ Types /\ FundsAccepted /\ FundsRead /\ Sending
        /\ Building /\ Unbuilt /\ ChainsAreValid /\ FailsOnlyOutside

LEMMA InvInit == Init => IInv
<1> SUFFICES ASSUME Init PROVE IInv
  OBVIOUS
<1>1. pc = "setup" /\ cur = 1 /\ sent = 0 /\ failure = ""
  BY DEF Init
<1>5. Position /\ Sending /\ FailsOnlyOutside
  BY <1>1 DEF Position, Loops, Sending, FailsOnlyOutside
<1>6. FundsAccepted /\ FundsRead /\ Building
  BY <1>1 DEF FundsAccepted, FundsRead, Building
<1>2. Types
  <2>1. Word > 0
    BY BombardAssumption, Fees
  <2>2. \A c \in Client : << >> \in Seq([input : 0 .. (Word - 1), output : 0 .. (Word - 1)])
    OBVIOUS
  <2>3. txs \in [Client -> Seq([input : 0 .. (Word - 1), output : 0 .. (Word - 1)])]
    BY <2>2 DEF Init
  <2>4. accepted \in [Node -> SUBSET Tx] /\ utxos \in [Client -> SUBSET Tx]
    BY DEF Init
  <2>5. input \in 0 .. (Word - 1) /\ output \in 0 .. (Word - 1) /\ sent \in 0 .. NumTxs
    <3>1. input = 0 /\ output = 0 /\ sent = 0
      BY DEF Init
    <3>2. Word \in Nat /\ NumTxs \in Nat
      BY BombardAssumption
    <3> QED BY <2>1, <3>1, <3>2
  <2> QED BY <2>3, <2>4, <2>5 DEF Init, Types
<1>3. \A c \in Client : txs[c] = << >>
  BY DEF Init
<1>4. Unbuilt /\ ChainsAreValid
  BY <1>3 DEF Unbuilt, ChainsAreValid
<1> QED BY <1>2, <1>4, <1>5, <1>6 DEF IInv

\* The next iteration begins with what this one has done.
LEMMA IterationEnds ==
    ASSUME IInv, pc \in Loops, NEW loop \in Loops, NEW nextLoop \in Loops \cup {"passed"},
           NextClient(loop, nextLoop)
    PROVE  /\ Position'
           /\ \/ pc' = loop /\ cur' = cur + 1 /\ cur' \in Client
                 /\ \A c \in Client : c < cur' <=> (c < cur \/ c = cur)
              \/ pc' = nextLoop /\ cur' = 1
                 /\ \A c \in Client : c < cur \/ c = cur
BY BombardAssumption DEF IInv, Position, NextClient, Client, Loops

LEMMA AcceptKeeps ==
    ASSUME IInv, NEW n \in Node, NEW t \in Tx, Accept(n, t)
    PROVE  IInv'
<1>1. UNCHANGED <<pc, cur, issued, utxos, input, output, txs, sent, dropped, failure>>
  BY DEF Accept
<1>2. Types'
  BY <1>1 DEF IInv, Types, Accept
<1>3. \A m \in Node : accepted[m] \subseteq accepted'[m]
  BY DEF IInv, Types, Accept
<1>4. FundsAccepted' /\ FundsRead'
  BY <1>1, <1>3, BombardAssumption DEF IInv, FundsAccepted, FundsRead, Client, Node
<1> QED
  BY <1>1, <1>2, <1>4
     DEF IInv, Position, Sending, Building, Unbuilt, ChainsAreValid, FailsOnlyOutside

LEMMA FailKeeps ==
    ASSUME IInv, NEW reason \in {"request", "balance"}, FailWith(reason)
    PROVE  IInv'
<1>1. Types' /\ ChainsAreValid'
  BY DEF IInv, Types, ChainsAreValid, FailWith
<1> QED
  BY <1>1 DEF IInv, FailWith, Position, Loops, FundsAccepted, FundsRead, Sending, Building,
              Unbuilt, FailsOnlyOutside

\* The funding of the clients.
LEMMA FundingKeeps ==
    ASSUME IInv, SetUp \/ Fund \/ Funded
    PROVE  IInv'
<1>1. UNCHANGED <<accepted, utxos, input, output, txs, sent, dropped, failure>>
  BY DEF SetUp, Fund, Funded
<1>2. pc \in {"setup", "fund", "awaitFund"} /\ pc' \in {"passed", "fund", "awaitFund", "read"}
      /\ Position'
  <2>1. CASE SetUp
    BY <2>1, BombardAssumption DEF SetUp, IInv, Position, Loops, Client
  <2>2. CASE Fund
    BY <2>2 DEF Fund, IInv, Position, Loops
  <2>3. CASE Funded
    BY <2>3, IterationEnds DEF Funded, Loops
  <2> QED BY <2>1, <2>2, <2>3
<1>3. issued' \subseteq Tx
  BY BombardAssumption DEF IInv, Types, Position, Loops, Tx, SetUp, Fund, Funded
<1>4. FundsAccepted' /\ FundsRead'
  <2>1. CASE SetUp
    BY <1>1, <2>1, BombardAssumption DEF SetUp, IInv, FundsAccepted, FundsRead, Position, Client
  <2>2. CASE Fund
    BY <1>1, <2>2 DEF Fund, IInv, FundsAccepted, FundsRead
  <2>3. CASE Funded
    <3>1. pc = "awaitFund" /\ <<cur, 0>> \in accepted[0] /\ NextClient("fund", "read")
      BY <2>3 DEF Funded
    <3> QED BY <1>1, <3>1, IterationEnds DEF IInv, FundsAccepted, FundsRead, Loops, Client
  <2> QED BY <2>1, <2>2, <2>3
<1>5. Types' /\ ChainsAreValid'
  BY <1>1, <1>3 DEF IInv, Types, ChainsAreValid
<1>6. Unbuilt'
  BY <1>1, <1>2 DEF IInv, Unbuilt
<1>7. Sending' /\ Building' /\ FailsOnlyOutside'
  BY <1>1, <1>2 DEF IInv, Sending, Building, FailsOnlyOutside
<1> QED BY <1>2, <1>4, <1>5, <1>6, <1>7 DEF IInv

\* The reading of balances and outputs.
LEMMA ReadingKeeps ==
    ASSUME IInv, VerifyBalance
    PROVE  IInv'
<1>1. /\ pc = "read" /\ cur \in Client /\ NextClient("read", "create")
      /\ UNCHANGED <<issued, accepted, input, output, txs, sent, dropped, failure>>
  BY DEF VerifyBalance, IInv, Position, Loops
<1>2. <<cur, 0>> \in accepted[cur]
  <2>1. seedAmount # 0
    BY Seed, Fees, BombardAssumption
  <2> QED BY <2>1 DEF VerifyBalance, Balance
<1>3. <<cur, 0>> \in accepted[0]
  BY <1>1 DEF IInv, FundsAccepted
<1>4. /\ utxos' \in [Client -> SUBSET Tx]
      /\ utxos'[cur] # {}
      /\ \A c \in Client : c # cur => utxos'[c] = utxos[c]
  BY <1>1, <1>3, BombardAssumption DEF VerifyBalance, IInv, Types, Node
<1>5. Position' /\ FundsAccepted' /\ FundsRead' /\ Unbuilt'
  BY <1>1, <1>2, <1>4, IterationEnds
     DEF IInv, Loops, FundsAccepted, FundsRead, Unbuilt, Client
<1>6. pc' \in {"read", "create"}
  BY <1>1 DEF NextClient
<1>7. Types' /\ ChainsAreValid' /\ FailsOnlyOutside'
  BY <1>1, <1>4 DEF IInv, Types, ChainsAreValid, FailsOnlyOutside
<1>8. Sending' /\ Building'
  BY <1>1, <1>6 DEF IInv, Sending, Building
<1> QED BY <1>5, <1>7, <1>8 DEF IInv

\* The beginning of a chain: there is an output, and the funds suffice.
LEMMA BeginKeeps ==
    ASSUME IInv, BeginChain
    PROVE  IInv'
<1>1. pc = "create" /\ cur \in Client /\ utxos[cur] # {} /\ txs[cur] = << >>
  <2>1. pc = "create" /\ cur \in Client
    BY DEF BeginChain, IInv, Position, Loops
  <2>2. utxos[cur] # {}
    BY <2>1 DEF IInv, FundsRead
  <2>3. cur >= cur
    BY <2>1, BombardAssumption DEF Client
  <2> QED BY <2>1, <2>2, <2>3 DEF IInv, Unbuilt
<1>2. /\ pc' = "chain"
      /\ input' = seedAmount /\ output' = Minus(seedAmount, TxFee)
      /\ UNCHANGED <<cur, issued, accepted, utxos, txs, sent, dropped, failure>>
  BY <1>1, Seed DEF BeginChain
<1>3. /\ seedAmount = (NumTxs + 1) * TxFee
      /\ seedAmount \in 0 .. (Word - 1)
      /\ NumTxs * TxFee \in 0 .. (Word - 1)
      /\ seedAmount - TxFee = NumTxs * TxFee
  BY Seed, Fees, BombardAssumption
<1>4. output' = NumTxs * TxFee
  BY <1>2, <1>3, Fits, BombardAssumption DEF Minus
<1>5. Len(txs'[cur']) = 0
  BY <1>1, <1>2
<1>6. Building'
  BY <1>2, <1>3, <1>4, <1>5, BombardAssumption DEF Building
<1>7. Types' /\ ChainsAreValid' /\ FailsOnlyOutside'
  BY <1>2, <1>3, <1>4 DEF IInv, Types, ChainsAreValid, FailsOnlyOutside
<1>8. Position' /\ FundsAccepted' /\ FundsRead' /\ Sending' /\ Unbuilt'
  BY <1>1, <1>2 DEF IInv, Position, Loops, FundsAccepted, FundsRead, Sending, Unbuilt, Client
<1> QED BY <1>6, <1>7, <1>8 DEF IInv

\* One more transaction: it takes in what the last one passed on, and leaves a fee for
\* each one still to come.
LEMMA ExtendKeeps ==
    ASSUME IInv, ExtendChain
    PROVE  IInv'
<1> DEFINE k == Len(txs[cur])
           r == NumTxs - k
           tx == [input |-> input, output |-> output]
<1>1. /\ pc = "chain" /\ cur \in Client /\ k \in Nat /\ k < NumTxs
      /\ txs[cur] \in Seq([input : 0 .. (Word - 1), output : 0 .. (Word - 1)])
      /\ UNCHANGED <<pc, cur, issued, accepted, utxos, sent, dropped, failure>>
  <2>1. pc = "chain" /\ cur \in Client /\ k < NumTxs
        /\ UNCHANGED <<pc, cur, issued, accepted, utxos, sent, dropped, failure>>
    BY DEF ExtendChain, IInv, Position, Loops
  <2>2. txs[cur] \in Seq([input : 0 .. (Word - 1), output : 0 .. (Word - 1)])
    BY <2>1 DEF IInv, Types
  <2> QED BY <2>1, <2>2
<1>2. /\ input = (r + 1) * TxFee /\ output = r * TxFee
      /\ input = IF k = 0 THEN (NumTxs + 1) * TxFee ELSE txs[cur][k].output
      /\ input \in 0 .. (Word - 1) /\ output \in 0 .. (Word - 1)
  BY <1>1 DEF IInv, Building, Types
<1>3. /\ r \in Nat /\ r > 0 /\ r - 1 \in Nat
      /\ (r + 1) * TxFee = r * TxFee + TxFee
      /\ r * TxFee = (r - 1) * TxFee + TxFee
      /\ r * TxFee >= TxFee /\ (r - 1) * TxFee \in Nat
  <2>1. r \in Nat /\ r > 0 /\ r - 1 \in Nat /\ (r - 1) + 1 = r
    BY <1>1, BombardAssumption
  <2> HIDE DEF r
  <2> QED BY <2>1, Fees
<1>4. input' = r * TxFee /\ output' = (r - 1) * TxFee
  <2>1. input - TxFee = r * TxFee /\ output - TxFee = (r - 1) * TxFee
    <3> HIDE DEF r
    <3> QED BY <1>2, <1>3, BombardAssumption
  <2>2. r * TxFee \in Nat /\ r * TxFee < Word /\ (r - 1) * TxFee < Word
    BY <1>2, <1>3, BombardAssumption
  <2>3. input' = (input - TxFee) % Word /\ output' = (output - TxFee) % Word
    BY DEF ExtendChain, Minus
  <2> QED BY <1>3, <2>1, <2>2, <2>3, Fits
<1>5. /\ txs'[cur] = Append(txs[cur], tx)
      /\ \A c \in Client : c # cur => txs'[c] = txs[c]
      /\ DOMAIN txs' = Client
  BY <1>1 DEF ExtendChain, IInv, Types
<1>6. /\ Len(txs'[cur]) = k + 1
      /\ txs'[cur][k + 1] = tx
      /\ \A j \in 1 .. k : txs'[cur][j] = txs[cur][j]
      /\ txs'[cur] \in Seq([input : 0 .. (Word - 1), output : 0 .. (Word - 1)])
      /\ DOMAIN txs'[cur] = 1 .. (k + 1) /\ DOMAIN txs[cur] = 1 .. k
  BY <1>1, <1>2, <1>5
<1>7. Types'
  <2>1. input' \in 0 .. (Word - 1) /\ output' \in 0 .. (Word - 1)
    BY <1>2, <1>3, <1>4, BombardAssumption
  <2>2. txs' \in [Client -> Seq([input : 0 .. (Word - 1), output : 0 .. (Word - 1)])]
    BY <1>1, <1>5, <1>6 DEF ExtendChain, IInv, Types
  <2> QED BY <1>1, <2>1, <2>2 DEF IInv, Types
<1>8. Building'
  <2>1. NumTxs - (k + 1) = r - 1 /\ NumTxs - (k + 1) + 1 = r
    BY <1>1, BombardAssumption
  <2>2. txs'[cur'][Len(txs'[cur'])].output = output
    BY <1>1, <1>6
  <2> HIDE DEF r, k
  <2> QED BY <1>1, <1>2, <1>4, <1>6, <2>1, <2>2, BombardAssumption DEF Building
<1>9. ChainsAreValid'
  <2>1. /\ tx.input = IF k + 1 = 1 THEN (NumTxs + 1) * TxFee ELSE txs[cur][k].output
        /\ tx.input = tx.output + TxFee /\ tx.output > 0
    <3>1. tx.input = input /\ tx.output = output
      OBVIOUS
    <3> HIDE DEF r, k, tx
    <3>2. input = output + TxFee /\ output > 0
      BY <1>2, <1>3, BombardAssumption
    <3> QED BY <1>1, <1>2, <3>1, <3>2
  <2>2. ASSUME NEW j \in DOMAIN txs'[cur]
        PROVE  /\ txs'[cur][j].input
                      = IF j = 1 THEN (NumTxs + 1) * TxFee ELSE txs'[cur][j - 1].output
               /\ txs'[cur][j].input = txs'[cur][j].output + TxFee
               /\ txs'[cur][j].output > 0
    <3> HIDE DEF tx, k
    <3>1. CASE j = k + 1
      <4>1. txs'[cur][j] = tx
        BY <1>6, <3>1
      <4>2. CASE k = 0
        <5>1. j = 1 /\ k + 1 = 1
          BY <3>1, <4>2
        <5> QED BY <2>1, <4>1, <5>1
      <4>3. CASE k # 0
        <5>1. k \in 1 .. k /\ j - 1 = k /\ j # 1 /\ k + 1 # 1
          <6>1. k \in Nat
            BY <1>1
          <6> QED BY <3>1, <4>3, <6>1
        <5>2. txs'[cur][j - 1] = txs[cur][k]
          BY <1>6, <5>1
        <5>3. tx.input = txs[cur][k].output
          BY <2>1, <5>1
        <5>4. txs'[cur][j].input = txs'[cur][j - 1].output
          BY <4>1, <5>2, <5>3
        <5> QED BY <2>1, <4>1, <5>1, <5>4
      <4> QED BY <4>2, <4>3
    <3>2. CASE j \in 1 .. k
      <4>1. j # 1 => j - 1 \in 1 .. k
        BY <1>1, <3>2
      <4>2. /\ txs[cur][j].input
                   = IF j = 1 THEN (NumTxs + 1) * TxFee ELSE txs[cur][j - 1].output
            /\ txs[cur][j].input = txs[cur][j].output + TxFee
            /\ txs[cur][j].output > 0
        BY <1>1, <1>6, <3>2 DEF IInv, ChainsAreValid
      <4> QED BY <1>6, <3>2, <4>1, <4>2
    <3>3. j \in 1 .. (k + 1)
      BY <1>6
    <3>4. j = k + 1 \/ j \in 1 .. k
      BY <1>1, <3>3
    <3> QED BY <3>1, <3>2, <3>4
  <2>3. ASSUME NEW c \in Client, NEW j \in DOMAIN txs'[c]
        PROVE  /\ txs'[c][j].input
                      = IF j = 1 THEN (NumTxs + 1) * TxFee ELSE txs'[c][j - 1].output
               /\ txs'[c][j].input = txs'[c][j].output + TxFee
               /\ txs'[c][j].output > 0
    <3>1. CASE c = cur
      BY <2>2, <3>1
    <3>2. CASE c # cur
      BY <1>5, <3>2 DEF IInv, ChainsAreValid
    <3> QED BY <3>1, <3>2
  <2> QED BY <2>3 DEF ChainsAreValid
<1>10. Position' /\ FundsAccepted' /\ FundsRead' /\ Sending' /\ Unbuilt' /\ FailsOnlyOutside'
  <2>1. Position' /\ FundsAccepted' /\ FundsRead' /\ FailsOnlyOutside'
    BY <1>1 DEF ExtendChain, IInv, Position, FundsAccepted, FundsRead, FailsOnlyOutside
  <2>2. Sending'
    BY <1>1 DEF IInv, Sending
  <2>3. Unbuilt'
    <3>1. \A c \in Client : c > cur => c # cur
      BY <1>1, BombardAssumption DEF Client
    <3> QED BY <1>1, <1>5, <3>1 DEF IInv, Unbuilt
  <2> QED BY <2>1, <2>2, <2>3
<1> QED BY <1>7, <1>8, <1>9, <1>10 DEF IInv

LEMMA EndKeeps ==
    ASSUME IInv, EndChain
    PROVE  IInv'
<1>1. /\ pc = "chain" /\ cur \in Client /\ NextClient("create", "issue")
      /\ UNCHANGED <<issued, accepted, utxos, input, output, txs, sent, dropped, failure>>
  BY DEF EndChain, IInv, Position, Loops
<1>2. pc' \in {"create", "issue"} /\ Position'
  BY <1>1, IterationEnds DEF Loops, NextClient
<1>3. FundsAccepted' /\ FundsRead'
  BY <1>1, <1>2 DEF IInv, FundsAccepted, FundsRead
<1>4. Unbuilt'
  <2>1. ASSUME pc' = "create", NEW c \in Client, c >= cur'
        PROVE  c > cur
    BY <1>1, <2>1, BombardAssumption DEF NextClient, Client
  <2> QED BY <1>1, <1>2, <2>1 DEF IInv, Unbuilt
<1>5. Types' /\ ChainsAreValid' /\ FailsOnlyOutside'
  BY <1>1 DEF IInv, Types, ChainsAreValid, FailsOnlyOutside
<1>6. Sending' /\ Building'
  BY <1>1, <1>2 DEF IInv, Sending, Building
<1> QED BY <1>2, <1>3, <1>4, <1>5, <1>6 DEF IInv

\* A node has the input of the transaction it is given.
LEMMA IssueKeeps ==
    ASSUME IInv, IssueTx
    PROVE  IInv'
<1>1. pc = "issue" /\ cur \in Client /\ sent < NumTxs /\ sent \in Nat
  <2>1. pc = "issue" /\ cur \in Client /\ sent < NumTxs
    BY DEF IssueTx, IInv, Position, Loops
  <2>2. NumTxs \in Nat /\ sent \in 0 .. NumTxs
    BY BombardAssumption DEF IInv, Types
  <2> QED BY <2>1, <2>2
<1>2. Known(cur, <<cur, sent>>)
  <2>1. CASE sent = 0
    BY <1>1, <2>1 DEF IInv, FundsRead, Known
  <2>2. CASE sent > 0
    BY <1>1, <2>2 DEF IInv, Sending, Known
  <2> QED BY <1>1, <2>1, <2>2
<1>3. /\ issued' = issued \cup {<<cur, sent + 1>>} /\ sent' = sent + 1
      /\ UNCHANGED <<pc, cur, accepted, utxos, input, output, txs, dropped, failure>>
  BY <1>2 DEF IssueTx
<1>4. sent' \in 0 .. NumTxs /\ issued' \subseteq Tx
  BY <1>1, <1>3, BombardAssumption DEF IInv, Types, Tx
<1>5. Types' /\ ChainsAreValid' /\ FailsOnlyOutside'
  BY <1>3, <1>4 DEF IInv, Types, ChainsAreValid, FailsOnlyOutside
<1>6. Position' /\ FundsAccepted' /\ FundsRead' /\ Sending' /\ Building' /\ Unbuilt'
  BY <1>1, <1>3
     DEF IInv, Position, FundsAccepted, FundsRead, Sending, Building, Unbuilt
<1> QED BY <1>5, <1>6 DEF IInv

\* The ends of the last two loops' iterations.
LEMMA ConfirmKeeps ==
    ASSUME IInv, ListIssued \/ Confirmed \/ ConfirmErrorDropped
    PROVE  IInv'
<1>1. /\ pc \in {"issue", "confirm"} /\ pc' \in {"issue", "confirm", "passed"}
      /\ Position' /\ sent' = 0 /\ dropped' \in BOOLEAN
      /\ UNCHANGED <<issued, accepted, utxos, input, output, txs, failure>>
  <2>1. CASE ListIssued
    BY <2>1, IterationEnds DEF ListIssued, Loops, NextClient, IInv, Types
  <2>2. CASE Confirmed
    BY <2>2, IterationEnds DEF Confirmed, Loops, NextClient, IInv, Types, Sending
  <2>3. CASE ConfirmErrorDropped
    BY <2>3, IterationEnds DEF ConfirmErrorDropped, Loops, NextClient, IInv, Sending
  <2> QED BY <2>1, <2>2, <2>3
<1>2. FundsAccepted' /\ FundsRead'
  BY <1>1 DEF IInv, FundsAccepted, FundsRead
<1>3. Types' /\ ChainsAreValid' /\ FailsOnlyOutside'
  <2>1. sent' \in 0 .. NumTxs
    BY <1>1, BombardAssumption
  <2> QED BY <1>1, <2>1 DEF IInv, Types, ChainsAreValid, FailsOnlyOutside
<1>4. Sending' /\ Building' /\ Unbuilt'
  BY <1>1 DEF IInv, Sending, Building, Unbuilt
<1> QED BY <1>1, <1>2, <1>3, <1>4 DEF IInv

LEMMA InvStep == IInv /\ [Next]_vars => IInv'
<1> SUFFICES ASSUME IInv, [Next]_vars PROVE IInv'
  OBVIOUS
<1>1. ASSUME NEW n \in Node, NEW t \in Tx, Accept(n, t) PROVE IInv'
  BY <1>1, AcceptKeeps
<1>2. CASE SetUp \/ Fund \/ Funded
  BY <1>2, FundingKeeps
<1>3. CASE VerifyBalance
  BY <1>3, ReadingKeeps
<1>4. CASE BalanceDiffers \/ RequestFails
  BY <1>4, FailKeeps DEF BalanceDiffers, RequestFails
<1>5. CASE BeginChain
  BY <1>5, BeginKeeps
<1>6. CASE ExtendChain
  BY <1>6, ExtendKeeps
<1>7. CASE EndChain
  BY <1>7, EndKeeps
<1>8. CASE IssueTx
  BY <1>8, IssueKeeps
<1>9. CASE ListIssued \/ Confirmed \/ ConfirmErrorDropped
  BY <1>9, ConfirmKeeps
<1>10. CASE UNCHANGED vars
  BY <1>10 DEF vars, IInv, Position, Types, FundsAccepted, FundsRead, Sending, Building,
               Unbuilt, ChainsAreValid, FailsOnlyOutside
<1> QED
  BY <1>1, <1>2, <1>3, <1>4, <1>5, <1>6, <1>7, <1>8, <1>9, <1>10 DEF Next, Ended

LEMMA Invariant == Spec => []IInv
BY InvInit, InvStep, PTL DEF Spec

\* The test's variables keep their types.
THEOREM TypeCorrect == Spec => []TypeOK
<1>1. IInv => TypeOK
  BY DEF IInv, Position, Loops, Types, FailsOnlyOutside, TypeOK
<1> QED BY <1>1, Invariant, PTL

\* Every chain of transactions built offline is valid: it spends what the address was
\* given, link by link, pays each fee, and no amount wraps around.
THEOREM ChainsValid == Spec => []ChainsAreValid
BY Invariant, PTL DEF IInv

\* The test does not panic and does not run out of funds: its only failures are those of
\* a request, and of a balance its node does not know yet.
THEOREM NoOwnFailure == Spec => []FailsOnlyOutside
BY Invariant, PTL DEF IInv

-----------------------------------------------------------------------------
\* What the last loop has waited for: the fundings stay accepted to the end, and unless
\* an error was dropped so do the transactions of every client behind the current one.
WaitedFor ==
    /\ pc = "passed" => \A c \in Client : <<c, 0>> \in accepted[0]
    /\ ~dropped =>
        \A c \in Client :
            pc = "passed" \/ (pc = "confirm" /\ c < cur)
            => \A j \in 1 .. NumTxs : <<c, j>> \in accepted[0]

LEMMA WaitedForInit == Init => WaitedFor
BY DEF Init, WaitedFor

\* An iteration of the last loop ends.
LEMMA WaitEnds ==
    ASSUME IInv, WaitedFor, Confirmed \/ ConfirmErrorDropped
    PROVE  WaitedFor'
<1>1. /\ pc = "confirm" /\ cur \in Client /\ accepted' = accepted
      /\ NextClient("confirm", "passed")
  BY DEF Confirmed, ConfirmErrorDropped, IInv, Position, Loops
<1>2. \/ pc' = "confirm" /\ cur' = cur + 1 /\ \A c \in Client : c < cur' <=> (c < cur \/ c = cur)
      \/ pc' = "passed" /\ cur' = 1 /\ \A c \in Client : c < cur \/ c = cur
  BY <1>1, IterationEnds DEF Loops
<1>3. \A c \in Client : <<c, 0>> \in accepted[0]
  BY <1>1 DEF IInv, FundsAccepted
<1>4. ~dropped' => /\ ~dropped
                   /\ \A j \in 1 .. NumTxs : <<cur, j>> \in accepted[0]
  BY DEF Confirmed, ConfirmErrorDropped
<1> QED BY <1>1, <1>2, <1>3, <1>4 DEF WaitedFor

LEMMA WaitedForStep == IInv /\ WaitedFor /\ [Next]_vars => WaitedFor'
<1> SUFFICES ASSUME IInv, WaitedFor, [Next]_vars PROVE WaitedFor'
  OBVIOUS
<1>1. ASSUME NEW n \in Node, NEW t \in Tx, Accept(n, t) PROVE WaitedFor'
  <2>1. accepted[0] \subseteq accepted'[0]
    BY <1>1, BombardAssumption DEF Accept, IInv, Types, Node
  <2>2. UNCHANGED <<pc, cur, dropped>>
    BY <1>1 DEF Accept
  <2> QED BY <2>1, <2>2 DEF WaitedFor
<1>2. CASE SetUp
  <2>1. pc' \in {"fund", "passed"} /\ (pc' = "passed" => Client = {})
    BY <1>2, BombardAssumption DEF SetUp, Client
  <2> QED BY <2>1 DEF WaitedFor
<1>3. CASE ListIssued
  <2>1. pc' = "issue" \/ (pc' = "confirm" /\ cur' = 1)
    BY <1>3 DEF ListIssued, NextClient
  <2>2. \A c \in Client : ~(c < 1)
    BY BombardAssumption DEF Client
  <2> QED BY <2>1, <2>2 DEF WaitedFor
<1>4. CASE Confirmed \/ ConfirmErrorDropped
  BY <1>4, WaitEnds
<1>5. CASE \/ Fund \/ Funded \/ VerifyBalance \/ BalanceDiffers \/ RequestFails
           \/ BeginChain \/ ExtendChain \/ EndChain \/ IssueTx
  <2>1. pc' \in {"fund", "awaitFund", "read", "create", "chain", "issue", "failed"}
    BY <1>5 DEF Fund, Funded, VerifyBalance, BalanceDiffers, RequestFails, BeginChain,
                ExtendChain, EndChain, IssueTx, NextClient, FailWith
  <2> QED BY <2>1 DEF WaitedFor
<1>6. CASE UNCHANGED vars
  BY <1>6 DEF vars, WaitedFor
<1> QED BY <1>1, <1>2, <1>3, <1>4, <1>5, <1>6 DEF Next, Ended

\* A test that passes without having dropped an error has had every transaction of every
\* client, and every funding, accepted by the genesis node.
THEOREM PassConfirms == Spec => []ConfirmedUnlessDropped
<1>1. IInv /\ WaitedFor => ConfirmedUnlessDropped
  <2> SUFFICES ASSUME WaitedFor, pc = "passed", ~dropped, NEW c \in Client, NEW j \in 0 .. NumTxs
               PROVE  <<c, j>> \in accepted[0]
    BY DEF ConfirmedUnlessDropped, Tx
  <2>1. j = 0 \/ j \in 1 .. NumTxs
    BY BombardAssumption
  <2> QED BY <2>1 DEF WaitedFor
<1> QED BY <1>1, Invariant, WaitedForInit, WaitedForStep, PTL DEF Spec

=============================================================================
