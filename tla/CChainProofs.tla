---------------------------- MODULE CChainProofs ----------------------------
(***************************************************************************)
(* What the C-Chain tests show, for any number of lists and transactions,  *)
(* and any amounts the genesis key can pay.                                *)
(***************************************************************************)
EXTENDS CChain, FiniteSetTheorems, SequenceTheorems, WellFoundedInduction, TLAPS

-----------------------------------------------------------------------------
\* The scripts, step by step.

Kinds == XKinds \cup CKinds
         \cup {"call", "importAgain", "checkX", "checkC", "launch", "collect", "sleep", "confirm"}
Operation == [kind : Kinds, asset : {"AVAX", "asset"}, quantity : Int, to : Nat]

LEMMA FundingScript ==
  /\ FundCChainAddresses \in Seq(Operation)
  /\ Len(FundCChainAddresses) = 2 * NumLists + 1
  /\ FundCChainAddresses[1] = Call
  /\ \A j \in List : /\ FundCChainAddresses[2 * j] = Export("AVAX", ExportAmount)
                     /\ FundCChainAddresses[2 * j + 1] = Import(j)
<1> DEFINE tail == [s \in 1..(2 * NumLists) |->
                       IF s % 2 = 1 THEN Export("AVAX", ExportAmount) ELSE Import(s \div 2)]
<1>1. Call \in Operation /\ Export("AVAX", ExportAmount) \in Operation /\ \A j \in Nat : Import(j) \in Operation
  BY CChainAssumption DEF Call, Export, Import, Op, Key, Operation, Kinds, XKinds, CKinds
<1>2. 2 * NumLists \in Nat
  BY CChainAssumption
<1>3. \A s \in 1..(2 * NumLists) : s \div 2 \in Nat
  BY <1>2
<1>4. tail \in Seq(Operation) /\ Len(tail) = 2 * NumLists
  <2>1. \A s \in 1..(2 * NumLists) : tail[s] \in Operation
    BY <1>1, <1>3
  <2>2. tail \in [1..(2 * NumLists) -> Operation]
    BY <2>1
  <2> QED BY <1>2, <2>2
<1>5. <<Call>> \in Seq(Operation) /\ Len(<<Call>>) = 1
  <2> QED BY <1>1
<1>6. FundCChainAddresses = <<Call>> \o tail
  BY DEF FundCChainAddresses
<1>7. ASSUME NEW j \in List
      PROVE  tail[2 * j - 1] = Export("AVAX", ExportAmount) /\ tail[2 * j] = Import(j)
  <2>1. /\ 2 * j - 1 \in 1..(2 * NumLists) /\ 2 * j \in 1..(2 * NumLists)
        /\ (2 * j - 1) % 2 = 1 /\ (2 * j) % 2 = 0 /\ (2 * j) \div 2 = j
    BY CChainAssumption DEF List
  <2> QED BY <2>1
<1> HIDE DEF tail
<1>8. /\ FundCChainAddresses \in Seq(Operation) /\ Len(FundCChainAddresses) = 1 + 2 * NumLists
      /\ FundCChainAddresses[1] = Call
  BY <1>2, <1>4, <1>5, <1>6
<1>9. \A k \in 1..(2 * NumLists) : FundCChainAddresses[k + 1] = tail[k]
  BY <1>2, <1>4, <1>5, <1>6
<1>10. ASSUME NEW j \in List
       PROVE  /\ FundCChainAddresses[2 * j] = tail[2 * j - 1]
              /\ FundCChainAddresses[2 * j + 1] = tail[2 * j]
  <2>1. /\ 2 * j - 1 \in 1..(2 * NumLists) /\ 2 * j \in 1..(2 * NumLists)
        /\ (2 * j - 1) + 1 = 2 * j
    BY CChainAssumption DEF List
  <2> QED BY <1>9, <2>1
<1> QED BY <1>2, <1>7, <1>8, <1>10

LEMMA ThroughputScript ==
  /\ Throughput \in Seq(Operation)
  /\ Len(Throughput) = 2 * NumLists + 5
  /\ Throughput[1] = Call
  /\ \A j \in List : /\ Throughput[2 * j] = Export("AVAX", ExportAmount)
                     /\ Throughput[2 * j + 1] = Import(j)
  /\ Throughput[2 * NumLists + 2].kind = "launch"
  /\ Throughput[2 * NumLists + 3].kind = "collect"
  /\ Throughput[2 * NumLists + 4].kind = "sleep"
  /\ Throughput[2 * NumLists + 5].kind = "confirm"
<1> DEFINE n == 2 * NumLists + 1
           end == <<Op("launch", "AVAX", 0, Key), Op("collect", "AVAX", 0, Key),
                    Op("sleep", "AVAX", 0, Key), Op("confirm", "AVAX", 0, Key)>>
           F == FundCChainAddresses
<1>1. /\ end \in Seq(Operation) /\ Len(end) = 4
      /\ end[1].kind = "launch" /\ end[2].kind = "collect"
      /\ end[3].kind = "sleep" /\ end[4].kind = "confirm"
  BY DEF Op, Key, Operation, Kinds
<1>2. F \in Seq(Operation) /\ Len(F) = n /\ n \in Nat /\ n >= 1
  BY FundingScript, CChainAssumption
<1>3. Throughput = F \o end
  BY DEF Throughput
<1> HIDE DEF end, F
<1>4. /\ Throughput \in Seq(Operation) /\ Len(Throughput) = n + 4
      /\ \A k \in 1..n : Throughput[k] = F[k]
      /\ \A k \in 1..4 : Throughput[n + k] = end[k]
  <2> HIDE DEF n
  <2>1. /\ Throughput \in Seq(Operation) /\ Len(Throughput) = n + 4
        /\ \A k \in 1..(n + 4) : Throughput[k] = IF k <= n THEN F[k] ELSE end[k - n]
    <3>1. F \in Seq(Operation) /\ end \in Seq(Operation) /\ Len(F) = n /\ Len(end) = 4
      BY <1>1, <1>2
    <3>2. /\ F \o end \in Seq(Operation) /\ Len(F \o end) = Len(F) + Len(end)
          /\ \A k \in 1..(Len(F) + Len(end)) :
                (F \o end)[k] = IF k <= Len(F) THEN F[k] ELSE end[k - Len(F)]
      BY <3>1, ConcatProperties
    <3> QED BY <1>3, <3>1, <3>2
  <2>2. \A k \in 1..n : k \in 1..(n + 4) /\ k <= n
    BY <1>2
  <2>3. \A k \in 1..4 : n + k \in 1..(n + 4) /\ ~(n + k <= n) /\ (n + k) - n = k
    BY <1>2
  <2> QED BY <2>1, <2>2, <2>3
<1>5. \A j \in List : 2 * j \in 1..n /\ 2 * j + 1 \in 1..n
  BY CChainAssumption DEF List
<1>6. n + 1 = 2 * NumLists + 2 /\ n + 2 = 2 * NumLists + 3 /\ n + 3 = 2 * NumLists + 4
      /\ n + 4 = 2 * NumLists + 5 /\ 1 \in 1..n
  BY CChainAssumption
<1>7. /\ F[1] = Call
      /\ \A j \in List : F[2 * j] = Export("AVAX", ExportAmount) /\ F[2 * j + 1] = Import(j)
  BY FundingScript DEF F
<1> HIDE DEF n
<1>8. /\ Throughput[n + 1] = end[1] /\ Throughput[n + 2] = end[2]
      /\ Throughput[n + 3] = end[3] /\ Throughput[n + 4] = end[4]
  BY <1>4
<1>9. \A j \in List : Throughput[2 * j] = F[2 * j] /\ Throughput[2 * j + 1] = F[2 * j + 1]
  BY <1>4, <1>5
<1>10. Throughput[1] = F[1]
  BY <1>4, <1>6
<1>11. /\ Throughput[2 * NumLists + 2] = end[1] /\ Throughput[2 * NumLists + 3] = end[2]
       /\ Throughput[2 * NumLists + 4] = end[3] /\ Throughput[2 * NumLists + 5] = end[4]
       /\ Len(Throughput) = 2 * NumLists + 5
  BY <1>4, <1>6, <1>8
<1> QED BY <1>1, <1>4, <1>7, <1>9, <1>10, <1>11

LEMMA AtomicScript ==
  /\ Len(AtomicWorkflow) = 17 /\ DOMAIN AtomicWorkflow = 1..17
  /\ AtomicWorkflow[1] = Call
  /\ AtomicWorkflow[2] = Op("create", "asset", AssetAmount, Key)
  /\ AtomicWorkflow[3] = Export("AVAX", ExportAmount)
  /\ AtomicWorkflow[4] = Export("asset", AssetAmount - AssetKept)
  /\ AtomicWorkflow[5] = Import(Key)
  /\ AtomicWorkflow[6] = Op("importAgain", "AVAX", 0, Key)
  /\ AtomicWorkflow[7] = CheckX("AVAX", Funds - 3 * TxFee - ExportAmount)
  /\ AtomicWorkflow[8] = CheckX("asset", AssetKept)
  /\ AtomicWorkflow[9] = CheckC("AVAX", ExportAmount)
  /\ AtomicWorkflow[10] = CheckC("asset", AssetAmount - AssetKept)
  /\ AtomicWorkflow[11] = ExportBack("AVAX", ExportAmount)
  /\ AtomicWorkflow[12] = ExportBack("asset", AssetAmount - AssetKept)
  /\ AtomicWorkflow[13] = CheckC("AVAX", 0)
  /\ AtomicWorkflow[14] = CheckC("asset", 0)
  /\ AtomicWorkflow[15] = Op("importX", "AVAX", 0, Key)
  /\ AtomicWorkflow[16] = CheckX("AVAX", Funds - 3 * TxFee - ExportAmount - TxFee)
  /\ AtomicWorkflow[17] = CheckX("asset", AssetAmount)
BY DEF AtomicWorkflow

\* Where a throughput test can be.
LEMMA ThroughputSteps ==
  ASSUME NEW t \in 1..(2 * NumLists + 5)
  PROVE  \/ t = 1
         \/ \E j \in List : t = 2 * j \/ t = 2 * j + 1
         \/ t \in {2 * NumLists + 2, 2 * NumLists + 3, 2 * NumLists + 4, 2 * NumLists + 5}
<1>1. CASE t > 1 /\ t <= 2 * NumLists + 1
  <2>1. t \div 2 \in List /\ (t = 2 * (t \div 2) \/ t = 2 * (t \div 2) + 1)
    BY <1>1, CChainAssumption DEF List
  <2> QED BY <2>1
<1>2. CASE ~(t > 1 /\ t <= 2 * NumLists + 1)
  BY <1>2, CChainAssumption
<1> QED BY <1>1, <1>2

\* The steps of the test under way.
LEMMA Steps ==
  ASSUME test \in {"throughput", "atomic"}
  PROVE  /\ Script \in Seq(Operation) /\ Len(Script) \in Nat /\ Step = 1..Len(Script)
         /\ \A t \in Step : /\ Script[t] \in Operation /\ Script[t].quantity \in Int
                            /\ t \in Nat /\ t >= 1 /\ t <= Len(Script)
         /\ MaxStep \in Nat /\ Len(Script) <= MaxStep
         /\ Len(Script) >= 5
<1>1. AtomicWorkflow \in Seq(Operation)
  BY CChainAssumption
     DEF AtomicWorkflow, Call, Export, Import, ExportBack, CheckX, CheckC, Op, Key, Operation,
         Kinds, XKinds, CKinds
<1>2. Len(AtomicWorkflow) = 17
  BY AtomicScript
<1>3. Len(Throughput) = 2 * NumLists + 5 /\ 2 * NumLists + 5 \in Nat /\ 2 * NumLists + 5 >= 5
      /\ Throughput \in Seq(Operation)
  BY ThroughputScript, CChainAssumption
<1>4. Script \in Seq(Operation) /\ Len(Script) \in Nat /\ Len(Script) >= 5
  <2>1. CASE test = "throughput"
    <3>1. Script = Throughput
      BY <2>1 DEF Script
    <3> QED BY <1>3, <3>1
  <2>2. CASE test # "throughput"
    <3>1. Script = AtomicWorkflow
      BY <2>2 DEF Script
    <3>2. Len(Script) = 17
      BY <1>2, <3>1
    <3>3. Script \in Seq(Operation)
      BY <1>1, <3>1
    <3> QED BY <3>2, <3>3
  <2> QED BY <2>1, <2>2
<1>5. MaxStep \in Nat /\ Len(Script) <= MaxStep
  <2>1. MaxStep = 2 * NumLists + 5 + 17
    BY <1>2, <1>3 DEF MaxStep
  <2>2. Len(Script) = 2 * NumLists + 5 \/ Len(Script) = 17
    BY <1>2, <1>3 DEF Script
  <2>3. NumLists \in Nat
    BY CChainAssumption
  <2>4. MaxStep \in Nat
    BY <2>1, <2>3
  <2>5. Len(Script) \in Nat
    BY <1>4
  <2>6. Len(Script) = 17 => Len(Script) <= MaxStep
    BY <2>1, <2>3
  <2>7. Len(Script) = 2 * NumLists + 5 => Len(Script) <= MaxStep
    BY <2>1, <2>3
  <2> QED BY <2>2, <2>4, <2>6, <2>7
<1>6. Step = 1..Len(Script)
  BY <1>4 DEF Step
<1>7. \A t \in Step : Script[t] \in Operation
  BY <1>4, <1>6
<1>8. \A t \in Step : Script[t].quantity \in Int
  BY <1>7 DEF Operation
<1> QED BY <1>4, <1>5, <1>6, <1>7, <1>8

\* Which step of the throughput test does what.
LEMMA ThroughputKinds ==
  ASSUME test = "throughput"
  PROVE  /\ Len(Script) = 2 * NumLists + 5 /\ Step = 1..(2 * NumLists + 5)
         /\ \A j \in List : /\ 2 * j \in Step /\ 2 * j + 1 \in Step
                            /\ Script[2 * j] = Export("AVAX", ExportAmount)
                            /\ Script[2 * j + 1] = Import(j)
         /\ \A t \in Step :
               /\ Script[t].kind \in {"call", "exportX", "importC", "launch", "collect",
                                      "sleep", "confirm"}
               /\ Script[t].kind = "call" <=> t = 1
               /\ Script[t].kind = "exportX" <=> \E j \in List : t = 2 * j
               /\ Script[t].kind = "importC" <=> \E j \in List : t = 2 * j + 1
               /\ Script[t].kind = "launch" <=> t = 2 * NumLists + 2
               /\ Script[t].kind = "collect" <=> t = 2 * NumLists + 3
               /\ Script[t].kind = "sleep" <=> t = 2 * NumLists + 4
               /\ Script[t].kind = "confirm" <=> t = 2 * NumLists + 5
<1>1. Script = Throughput /\ Len(Script) = 2 * NumLists + 5 /\ Step = 1..(2 * NumLists + 5)
  BY ThroughputScript, Steps DEF Script
<1>2. NumLists \in Nat /\ NumLists >= 1
  BY CChainAssumption
<1>3. /\ Throughput[1].kind = "call"
      /\ \A j \in List : /\ Throughput[2 * j].kind = "exportX"
                         /\ Throughput[2 * j + 1].kind = "importC"
      /\ Throughput[2 * NumLists + 2].kind = "launch"
      /\ Throughput[2 * NumLists + 3].kind = "collect"
      /\ Throughput[2 * NumLists + 4].kind = "sleep"
      /\ Throughput[2 * NumLists + 5].kind = "confirm"
  <2>1. Call.kind = "call" /\ Export("AVAX", ExportAmount).kind = "exportX"
        /\ \A j \in List : Import(j).kind = "importC"
    BY DEF Call, Export, Import, Op
  <2> QED BY <2>1, ThroughputScript
<1>4. \A j \in List : /\ j \in Nat /\ j >= 1 /\ j <= NumLists
                      /\ 2 * j \in Step /\ 2 * j + 1 \in Step
  BY <1>1, <1>2 DEF List
<1>5. ASSUME NEW t \in Step
      PROVE  /\ Script[t].kind \in {"call", "exportX", "importC", "launch", "collect",
                                    "sleep", "confirm"}
             /\ Script[t].kind = "call" <=> t = 1
             /\ Script[t].kind = "exportX" <=> \E j \in List : t = 2 * j
             /\ Script[t].kind = "importC" <=> \E j \in List : t = 2 * j + 1
             /\ Script[t].kind = "launch" <=> t = 2 * NumLists + 2
             /\ Script[t].kind = "collect" <=> t = 2 * NumLists + 3
             /\ Script[t].kind = "sleep" <=> t = 2 * NumLists + 4
             /\ Script[t].kind = "confirm" <=> t = 2 * NumLists + 5
  <2>1. t \in Nat /\ t \in 1..(2 * NumLists + 5)
    BY <1>1, <1>2
  <2>2. CASE t = 1
    <3>1. \A j \in List : t # 2 * j /\ t # 2 * j + 1
      BY <1>4, <2>2
    <3> QED BY <1>1, <1>2, <1>3, <2>2, <3>1
  <2>3. CASE \E j \in List : t = 2 * j
    <3>1. PICK j \in List : t = 2 * j
      BY <2>3
    <3>2. Script[t].kind = "exportX"
      BY <1>1, <1>3, <3>1
    <3>3. t # 1 /\ t <= 2 * NumLists /\ \A i \in List : t # 2 * i + 1
      BY <1>2, <1>4, <3>1
    <3> QED BY <1>2, <2>3, <3>2, <3>3, <2>1
  <2>4. CASE \E j \in List : t = 2 * j + 1
    <3>1. PICK j \in List : t = 2 * j + 1
      BY <2>4
    <3>2. Script[t].kind = "importC"
      BY <1>1, <1>3, <3>1
    <3>3. t # 1 /\ t <= 2 * NumLists + 1 /\ \A i \in List : t # 2 * i
      BY <1>2, <1>4, <3>1
    <3> QED BY <1>2, <2>4, <3>2, <3>3, <2>1
  <2>5. CASE t \in {2 * NumLists + 2, 2 * NumLists + 3, 2 * NumLists + 4, 2 * NumLists + 5}
    <3>1. t # 1 /\ \A j \in List : t # 2 * j /\ t # 2 * j + 1
      BY <1>2, <1>4, <2>5
    <3> QED BY <1>1, <1>2, <1>3, <2>5, <3>1
  <2> QED BY <2>1, <2>2, <2>3, <2>4, <2>5, ThroughputSteps
<1> QED BY <1>1, <1>4, <1>5, ThroughputScript

\* Which step of the atomic workflow test does what.
LEMMA AtomicKinds ==
  ASSUME test = "atomic"
  PROVE  /\ Script = AtomicWorkflow /\ Len(Script) = 17 /\ Step = 1..17
         /\ \A t \in Step :
               /\ Script[t].kind = "call" <=> t = 1
               /\ Script[t].kind = "create" <=> t = 2
               /\ Script[t].kind = "exportX" <=> t \in {3, 4}
               /\ Script[t].kind = "importC" <=> t = 5
               /\ Script[t].kind = "importAgain" <=> t = 6
               /\ Script[t].kind = "checkX" <=> t \in {7, 8, 16, 17}
               /\ Script[t].kind = "checkC" <=> t \in {9, 10, 13, 14}
               /\ Script[t].kind = "exportC" <=> t \in {11, 12}
               /\ Script[t].kind = "importX" <=> t = 15
               /\ Script[t].kind \notin {"launch", "collect", "sleep", "confirm"}
<1>1. Script = AtomicWorkflow /\ Len(Script) = 17 /\ Step = 1..17
  BY AtomicScript, Steps DEF Script
<1>2. /\ AtomicWorkflow[1].kind = "call" /\ AtomicWorkflow[2].kind = "create"
      /\ AtomicWorkflow[3].kind = "exportX" /\ AtomicWorkflow[4].kind = "exportX"
      /\ AtomicWorkflow[5].kind = "importC" /\ AtomicWorkflow[6].kind = "importAgain"
      /\ AtomicWorkflow[7].kind = "checkX" /\ AtomicWorkflow[8].kind = "checkX"
      /\ AtomicWorkflow[9].kind = "checkC" /\ AtomicWorkflow[10].kind = "checkC"
      /\ AtomicWorkflow[11].kind = "exportC" /\ AtomicWorkflow[12].kind = "exportC"
      /\ AtomicWorkflow[13].kind = "checkC" /\ AtomicWorkflow[14].kind = "checkC"
      /\ AtomicWorkflow[15].kind = "importX" /\ AtomicWorkflow[16].kind = "checkX"
      /\ AtomicWorkflow[17].kind = "checkX"
  BY AtomicScript DEF Call, Export, Import, ExportBack, CheckX, CheckC, Op
<1>3. \A t \in Step : t \in {1, 2, 3, 4, 5, 6, 7, 8, 9, 10, 11, 12, 13, 14, 15, 16, 17}
  BY <1>1
<1> QED BY <1>1, <1>2, <1>3

-----------------------------------------------------------------------------
\* What a set of steps amounts to, unit by unit.

Units(t) == {t} \X (1..Script[t].quantity)
Counted(S) == UNION {Units(t) : t \in S}

LEMMA UnitsOfOne ==
  ASSUME test \in {"throughput", "atomic"}, NEW t \in Step
  PROVE  /\ IsFiniteSet(Units(t))
         /\ Script[t].quantity \in Nat => Cardinality(Units(t)) = Script[t].quantity
<1> DEFINE q == Script[t].quantity
<1>1. q \in Int
  BY Steps
<1> HIDE DEF q
<1>2. IsFiniteSet(1..q) /\ (q \in Nat => Cardinality(1..q) = q)
  BY <1>1, FS_Interval
<1>3. IsFiniteSet({t}) /\ Cardinality({t}) = 1
  BY FS_Singleton
<1>4. IsFiniteSet({t} \X (1..q)) /\ Cardinality({t} \X (1..q)) = 1 * Cardinality(1..q)
  BY <1>2, <1>3, FS_Product
<1>5. q \in Nat => Cardinality({t} \X (1..q)) = q
  BY <1>2, <1>4
<1>6. Units(t) = {t} \X (1..q)
  BY DEF Units, q
<1> QED BY <1>4, <1>5, <1>6 DEF q

LEMMA CountedIsFinite ==
  ASSUME test \in {"throughput", "atomic"}, NEW S \in SUBSET Step
  PROVE  IsFiniteSet(Counted(S))
<1> DEFINE T == {Units(t) : t \in S}
           f == [t \in S |-> Units(t)]
<1>1. IsFiniteSet(S)
  BY Steps, FS_Interval, FS_Subset
<1>2. f \in Surjection(S, T)
  BY DEF Surjection
<1>3. IsFiniteSet(T)
  <2> HIDE DEF f, T
  <2> QED BY <1>1, <1>2, FS_Surjection
<1>4. \A U \in T : IsFiniteSet(U)
  BY UnitsOfOne
<1> QED BY <1>3, <1>4, FS_UNION DEF Counted

LEMMA TotalOfNone == Total({}) = 0
<1>1. UNION {{t} \X (1..Script[t].quantity) : t \in {}} = {}
  OBVIOUS
<1> QED BY <1>1, FS_EmptySet DEF Total

LEMMA TotalIsInt ==
  ASSUME test \in {"throughput", "atomic"}, NEW S \in SUBSET Step
  PROVE  Total(S) \in Int
<1>1. Cardinality(Counted(S)) \in Int
  BY CountedIsFinite, FS_CardinalityType
<1>2. Total(S) = Cardinality(Counted(S))
  BY DEF Total, Counted, Units
<1> QED BY <1>1, <1>2

LEMMA TotalWith ==
  ASSUME test \in {"throughput", "atomic"}, NEW S \in SUBSET Step, NEW t \in Step, t \notin S,
         Script[t].quantity \in Nat
  PROVE  Total(S \cup {t}) = Total(S) + Script[t].quantity
<1>1. IsFiniteSet(Counted(S)) /\ Cardinality(Counted(S)) \in Nat
  BY CountedIsFinite, FS_CardinalityType
<1>2. IsFiniteSet(Units(t)) /\ Cardinality(Units(t)) = Script[t].quantity
  BY UnitsOfOne
<1>3. Counted(S) \cap Units(t) = {}
  BY DEF Counted, Units
<1>4. Counted(S \cup {t}) = Counted(S) \cup Units(t)
  BY DEF Counted
<1>5. Cardinality(Counted(S) \cup Units(t)) = Cardinality(Counted(S)) + Script[t].quantity
  <2>1. Cardinality(Counted(S) \cap Units(t)) = 0
    BY <1>3, FS_EmptySet
  <2>2. Cardinality(Counted(S) \cup Units(t))
           = Cardinality(Counted(S)) + Cardinality(Units(t)) - Cardinality(Counted(S) \cap Units(t))
    BY <1>1, <1>2, FS_Union
  <2> QED BY <1>1, <1>2, <2>1, <2>2
<1>6. Total(S) = Cardinality(Counted(S)) /\ Total(S \cup {t}) = Cardinality(Counted(S \cup {t}))
  BY DEF Total, Counted, Units
<1> QED BY <1>4, <1>5, <1>6

LEMMA TotalOfOne ==
  ASSUME test \in {"throughput", "atomic"}, NEW t \in Step, Script[t].quantity \in Nat
  PROVE  Total({t}) = Script[t].quantity
<1>1. Total({} \cup {t}) = Total({}) + Script[t].quantity
  BY TotalWith
<1>2. {} \cup {t} = {t}
  OBVIOUS
<1> QED BY <1>1, <1>2, TotalOfNone

-----------------------------------------------------------------------------
\* The inductive invariant.

Imports(S) == OfKind(S, {"importC"})
Gone == {i \in List : issuer[i] = "gone"}

\* Where the test is: what it has issued are its transactions up to the step under way.
Placed ==
    /\ test \in {"throughput", "atomic"} /\ prompt \in BOOLEAN
    /\ pc \in 1..(Len(Script) + 1) /\ phase \in {"ready", "await"}
    /\ verdict \in {"running", "pass", "fail", "panic"}
    /\ verdict = "running" => pc \in Step
    /\ phase = "await" => pc \in Txs
    /\ \A t \in pending \cup accepted : t \in Txs /\ (t < pc \/ (t = pc /\ phase = "await"))

\* An import spends exports that were issued before it, and no two accepted ones the same.
Spent ==
    /\ spends \in [1..MaxStep -> SUBSET (0..MaxStep)]
    /\ \A t \in Imports(pending \cup accepted) :
          /\ spends[t] # {}
          /\ \A e \in spends[t] : e \in OfKind(accepted, {"exportX"}) /\ e < t
    /\ \A t, u \in Imports(accepted) : t # u => spends[t] \cap spends[u] = {}

\* The awaits of the X-Chain: what was issued there is accepted when the test goes on.
Awaited == \A t \in OfKind(Step, XKinds) : t < pc => t \in accepted

\* What the readings of the C-Chain have shown.
Read ==
    test = "atomic" =>
        /\ pc > 9 => 5 \in accepted /\ Total(OfAsset(spends[5], "AVAX")) = ExportAmount
        /\ pc > 10 => Total(OfAsset(spends[5], "asset")) = AssetAmount - AssetKept
        /\ pc > 13 => 11 \in accepted
        /\ pc > 14 => 12 \in accepted

\* The goroutines: none before the launch, an account issues nothing before it is funded,
\* and every result on the channel or taken from it is that of a goroutine that is gone.
Issuers ==
    /\ issuer \in [List -> {"off", "issuing", "ok", "error", "gone"}]
    /\ issued \in [List -> 0..NumTxs] /\ included \in [List -> 0..NumTxs]
    /\ (test = "throughput" /\ pc > 2 * NumLists + 2) \/ \A i \in List : issuer[i] = "off"
    /\ \A i \in List : issued[i] > 0 => \E t \in Imports(accepted) : Script[t].to = i
    /\ \A i \in List : included[i] > 0 => issued[i] > 0
    /\ errs \in Seq({"ok", "error"}) /\ received \in Nat
    /\ Len(errs) + received <= Cardinality(Gone)

\* The receipts read so far, list by list.
Receipts ==
    /\ confirmed \in Nat /\ confirmed <= NumLists * NumTxs
    /\ verdict = "running" => confirmed < NumLists * NumTxs
    /\ test = "throughput" /\ verdict = "pass" => confirmed = NumLists * NumTxs
    /\ test = "atomic" /\ verdict = "pass" => pc = Len(Script) + 1
    /\ \A i \in List : \A j \in 1..NumTxs : (i - 1) * NumTxs + j <= confirmed => j <= included[i]

IInv == Placed /\ Spent /\ Awaited /\ Read /\ Issuers /\ Receipts

LEMMA InvariantInit == Init => IInv
<1> SUFFICES ASSUME Init PROVE IInv
  OBVIOUS
<1>1. /\ test \in {"throughput", "atomic"} /\ pc = 1 /\ phase = "ready" /\ verdict = "running"
      /\ pending = {} /\ accepted = {} /\ errs = <<>> /\ received = 0 /\ confirmed = 0
      /\ prompt \in BOOLEAN
  BY DEF Init
<1>2. pc \in Step /\ pc \in 1..(Len(Script) + 1)
  BY <1>1, Steps
<1>3. Placed
  BY <1>1, <1>2 DEF Placed
<1>4. Spent
  BY <1>1 DEF Init, Spent, Imports, OfKind
<1>5. Awaited
  BY <1>1, Steps DEF Awaited, OfKind
<1>6. Read
  BY <1>1 DEF Read
<1>7. Issuers
  <2>1. \A i \in List : issuer[i] = "off" /\ issued[i] = 0 /\ included[i] = 0
    BY DEF Init
  <2>2. Gone = {}
    BY <2>1 DEF Gone
  <2>3. 0 \in 0..NumTxs
    BY CChainAssumption
  <2> QED BY <1>1, <2>1, <2>2, <2>3, FS_EmptySet DEF Init, Issuers
<1>8. Receipts
  <2>1. NumLists * NumTxs \in Nat /\ 0 < NumLists * NumTxs
    BY CChainAssumption
  <2>2. ASSUME NEW i \in List, NEW j \in 1..NumTxs PROVE ~((i - 1) * NumTxs + j <= 0)
    <3>1. i - 1 \in Nat /\ NumTxs \in Nat /\ j \in Nat /\ j >= 1
      BY CChainAssumption DEF List
    <3>2. (i - 1) * NumTxs \in Nat
      BY <3>1
    <3> QED BY <3>1, <3>2
  <2> QED BY <1>1, <2>1, <2>2 DEF Receipts
<1> QED BY <1>3, <1>4, <1>5, <1>6, <1>7, <1>8 DEF IInv

-----------------------------------------------------------------------------
\* What the steps of the test's own goroutine come to.

\* The test goes on to its next step.
GoesOn ==
    /\ Running /\ Advance
    /\ UNCHANGED <<chains, issued, errs>>
    /\ issuer' = IF op.kind = "launch" THEN [i \in List |-> "issuing"] ELSE issuer
    /\ op.kind \notin {"collect", "confirm"}
    /\ pc \in OfKind(Step, XKinds) => pc \in accepted
    /\ op.kind \in {"checkX", "checkC"} => Found = op.quantity

\* It ends with an error, or panics on the one it has received.
Stops ==
    /\ Running /\ verdict' \in {"fail", "panic"}
    /\ UNCHANGED <<pc, phase, received, confirmed, chains, issuers>>
    /\ errs' = errs \/ (errs # <<>> /\ errs' = Tail(errs))

\* It receives a result.
Receives ==
    /\ Running /\ phase = "ready" /\ op.kind = "collect"
    /\ errs # <<>> /\ errs' = Tail(errs)
    /\ received' = received + 1
    /\ pc' = IF received + 1 = NumLists THEN pc + 1 ELSE pc
    /\ UNCHANGED <<phase, verdict, confirmed, chains, issuers>>

LEMMA MainSteps == Main => GoesOn \/ Stops \/ Receives \/ Issue \/ Confirm
<1> SUFFICES ASSUME Main PROVE GoesOn \/ Stops \/ Receives \/ Issue \/ Confirm
  OBVIOUS
<1>1. CASE CallReturns \/ SecondImportFails \/ CheckPasses \/ Sleep
  BY <1>1 DEF CallReturns, SecondImportFails, CheckPasses, Sleep, At, Quiet, issuers, GoesOn,
              OfKind, XKinds, op
<1>2. CASE AwaitX \/ AwaitC
  BY <1>2 DEF AwaitX, AwaitC, InAwait, Quiet, issuers, GoesOn, OfKind, XKinds, CKinds, op
<1>3. CASE Launch
  BY <1>3 DEF Launch, At, GoesOn, OfKind, XKinds, op
<1>4. CASE RequestFails \/ AwaitXFails \/ SecondImportTaken \/ CheckFails \/ ReceiptNotFound
  BY <1>4 DEF RequestFails, AwaitXFails, SecondImportTaken, CheckFails, ReceiptNotFound, At,
              InAwait, EndWith, Quiet, Stops
<1>5. CASE Collect
  <2>1. CASE Head(errs) = "error"
    BY <1>5, <2>1 DEF Collect, At, EndWith, Stops
  <2>2. CASE Head(errs) # "error"
    BY <1>5, <2>2 DEF Collect, At, Received, Receives
  <2> QED BY <2>1, <2>2
<1> QED BY <1>1, <1>2, <1>3, <1>4, <1>5 DEF Main

\* The script stays.
LEMMA SameScript ==
  ASSUME UNCHANGED test
  PROVE  Script' = Script /\ Step' = Step /\ Txs' = Txs /\ MaxStep' = MaxStep
BY DEF Script, Step, Txs, OfKind, MaxStep

-----------------------------------------------------------------------------

LEMMA PlacedStep ==
  ASSUME IInv, [Next]_vars
  PROVE  Placed'
<1> USE DEF IInv
<1>1. UNCHANGED <<test, prompt>>
  BY DEF Next, vars
<1>2. /\ Script' = Script /\ Step' = Step /\ Txs' = Txs
      /\ Len(Script) \in Nat /\ Step = 1..Len(Script) /\ pc \in Nat
  BY <1>1, SameScript, Steps DEF Placed
<1>3. CASE GoesOn
  <2>1. pc \in Step /\ pc' = pc + 1 /\ phase' = "ready" /\ pending' = pending /\ accepted' = accepted
        /\ verdict' = IF pc = Len(Script) THEN "pass" ELSE "running"
    BY <1>3 DEF GoesOn, Running, Advance, chains
  <2>2. \A t \in pending \cup accepted : t \in Txs /\ t < pc'
    BY <1>2, <2>1, Steps DEF Placed, Txs, OfKind
  <2>3. pc' \in 1..(Len(Script) + 1) /\ (verdict' = "running" => pc' \in Step)
    BY <1>2, <2>1
  <2> QED BY <1>1, <1>2, <2>1, <2>2, <2>3 DEF Placed
<1>4. CASE Stops
  <2>1. UNCHANGED <<pc, phase, pending, accepted>> /\ verdict' \in {"fail", "panic"}
    BY <1>4 DEF Stops, chains
  <2> QED BY <1>1, <1>2, <2>1 DEF Placed
<1>5. CASE Receives
  <2>1. /\ pc \in Step /\ UNCHANGED <<phase, pending, accepted, verdict>> /\ phase = "ready"
        /\ pc' \in {pc, pc + 1} /\ op.kind = "collect"
    BY <1>5 DEF Receives, Running, chains
  <2>2. pc # Len(Script)
    <3>1. test = "throughput"
      BY <2>1, AtomicKinds DEF Placed, op
    <3> QED BY <2>1, <3>1, ThroughputKinds, CChainAssumption DEF op
  <2>3. pc' \in Step /\ pc <= pc'
    BY <1>2, <2>1, <2>2
  <2>4. \A t \in pending \cup accepted : t \in Txs /\ t < pc'
    BY <1>2, <2>1, <2>3, Steps DEF Placed, Txs, OfKind
  <2> QED BY <1>1, <1>2, <2>1, <2>3, <2>4 DEF Placed
<1>6. CASE Issue
  <2>1. /\ pc \in Txs /\ pc' = pc /\ phase' = "await" /\ verdict' = verdict /\ phase = "ready"
        /\ pending' = pending \cup {pc} /\ accepted' = accepted
    BY <1>6 DEF Issue, At, Running, Txs, OfKind, op
  <2> QED BY <1>1, <1>2, <2>1 DEF Placed
<1>7. CASE Confirm
  <2>1. /\ UNCHANGED <<pc, phase, pending, accepted>> /\ verdict' \in {"pass", "running"}
        /\ pc \in Step
    BY <1>7 DEF Confirm, At, Running, Quiet, chains
  <2> QED BY <1>1, <1>2, <2>1 DEF Placed
<1>8. CASE Network
  <2>1. UNCHANGED <<pc, phase, verdict>> /\ pending' \cup accepted' \subseteq pending \cup accepted
    BY <1>8 DEF Network, main, Settle, Drop, Include
  <2> QED BY <1>1, <1>2, <2>1 DEF Placed
<1>9. CASE (\E i \in List : Issuer(i)) \/ Terminated \/ UNCHANGED vars
  <2>1. UNCHANGED <<pc, phase, verdict, pending, accepted>>
    BY <1>9 DEF Issuer, SendTransaction, SendFails, ListIssued, Report, Terminated, vars, main,
                chains
  <2> QED BY <1>1, <1>2, <2>1 DEF Placed
<1> QED BY <1>3, <1>4, <1>5, <1>6, <1>7, <1>8, <1>9, MainSteps DEF Next

LEMMA SpentStep ==
  ASSUME IInv, [Next]_vars
  PROVE  Spent'
<1> USE DEF IInv
<1>1. UNCHANGED <<test, prompt>>
  BY DEF Next, vars
<1>2. /\ Script' = Script /\ Step' = Step /\ MaxStep' = MaxStep
      /\ \A S : OfKind(S, {"importC"})' = OfKind(S', {"importC"})
  BY <1>1, SameScript, Steps DEF OfKind
<1>3. ASSUME UNCHANGED <<spends, pending, accepted>>
      PROVE  Spent'
  BY <1>1, <1>2, <1>3 DEF Spent, Imports, OfKind
<1>4. CASE GoesOn \/ Stops \/ Receives \/ Confirm \/ (\E i \in List : Issuer(i))
           \/ Terminated \/ UNCHANGED vars
  BY <1>3, <1>4 DEF GoesOn, Stops, Receives, Confirm, Quiet, Issuer, SendTransaction, SendFails,
                    ListIssued, Report, Terminated, vars, chains
<1>5. CASE Issue
  <2>1. /\ pc \in Step /\ phase = "ready" /\ accepted' = accepted /\ pending' = pending \cup {pc}
        /\ spends' = [spends EXCEPT ![pc] = Inputs] /\ Buildable
    BY <1>5 DEF Issue, At, Running
  <2>2. pc \in 1..MaxStep /\ MaxStep \in Nat
    BY <2>1, Steps DEF Placed
  <2>3. \A t \in pending \cup accepted : t \in Txs /\ t < pc
    BY <2>1 DEF Placed
  <2>4. pc \notin pending \cup accepted
    BY <2>2, <2>3
  <2>5. Inputs \in SUBSET (0..MaxStep)
    <3>1. Exported \subseteq Step
      BY <2>3 DEF Exported, OfKind, Txs
    <3>2. Step \subseteq 0..MaxStep
      BY Steps DEF Placed
    <3>3. Cardinality(OfKind(accepted, {"exportC"})) \in 0..MaxStep
      <4>1. OfKind(accepted, {"exportC"}) \in SUBSET (1..MaxStep)
        BY <2>3, Steps DEF OfKind, Txs, Placed
      <4>2. IsFiniteSet(1..MaxStep) /\ Cardinality(1..MaxStep) = MaxStep
        BY <2>2, FS_Interval
      <4>3. /\ IsFiniteSet(OfKind(accepted, {"exportC"}))
            /\ Cardinality(OfKind(accepted, {"exportC"})) <= MaxStep
        BY <4>1, <4>2, FS_Subset
      <4> QED BY <2>2, <4>3, FS_CardinalityType
    <3> QED BY <3>1, <3>2, <3>3 DEF Inputs
  <2>6. spends' \in [1..MaxStep -> SUBSET (0..MaxStep)]
    BY <2>1, <2>5 DEF Spent
  <2>7. \A t \in pending \cup accepted : spends'[t] = spends[t]
    BY <2>1, <2>4 DEF Spent
  <2>8. op.kind = "importC" => /\ spends'[pc] # {}
                              /\ \A e \in spends'[pc] : e \in OfKind(accepted, {"exportX"}) /\ e < pc
    <3>1. spends'[pc] = Inputs
      BY <2>1, <2>2 DEF Spent
    <3>2. op.kind = "importC" => Inputs = Exported /\ Exported # {}
      BY <2>1 DEF Inputs, Buildable
    <3>3. Exported \subseteq OfKind(accepted, {"exportX"}) /\ \A e \in Exported : e < pc
      BY <2>3 DEF Exported, OfKind
    <3> QED BY <3>1, <3>2, <3>3
  <2>9. Imports(pending \cup accepted)' \subseteq Imports(pending \cup accepted) \cup {pc}
    BY <1>2, <2>1 DEF Imports, OfKind
  <2>10. pc \in Imports(pending \cup accepted)' => op.kind = "importC"
    BY <1>2 DEF Imports, OfKind, op
  <2>11. OfKind(accepted, {"exportX"})' = OfKind(accepted, {"exportX"})
    BY <1>2, <2>1 DEF OfKind
  <2>12. \A t \in Imports(pending \cup accepted)' :
          /\ spends'[t] # {}
          /\ \A e \in spends'[t] : e \in OfKind(accepted, {"exportX"})' /\ e < t
    <3>1. \A t \in Imports(pending \cup accepted) : t \in pending \cup accepted
      BY DEF Imports, OfKind
    <3> QED BY <2>7, <2>8, <2>9, <2>10, <2>11, <3>1 DEF Spent
  <2>13. Imports(accepted)' = Imports(accepted) /\ Imports(accepted) \subseteq accepted
    BY <1>2, <2>1 DEF Imports, OfKind
  <2>14. \A t, u \in Imports(accepted)' : t # u => spends'[t] \cap spends'[u] = {}
    BY <2>7, <2>13 DEF Spent
  <2> QED BY <1>2, <2>6, <2>12, <2>14 DEF Spent
<1>6. CASE Network
  <2>1. spends' = spends
    BY <1>6 DEF Network, Settle, Drop, Include
  <2>2. pending' \cup accepted' \subseteq pending \cup accepted /\ accepted \subseteq accepted'
    BY <1>6 DEF Network, Settle, Drop, Include
  <2>3. Imports(pending \cup accepted)' \subseteq Imports(pending \cup accepted)
        /\ OfKind(accepted, {"exportX"}) \subseteq OfKind(accepted, {"exportX"})'
    BY <1>2, <2>2 DEF Imports, OfKind
  <2>4. \/ accepted' = accepted
        \/ \E t \in pending : Valid(t) /\ accepted' = accepted \cup {t}
    BY <1>6 DEF Network, Settle, Drop, Include
  <2>5. \A t, u \in Imports(accepted)' : t # u => spends[t] \cap spends[u] = {}
    <3>1. CASE accepted' = accepted
      BY <1>2, <3>1 DEF Spent, Imports, OfKind
    <3>2. ASSUME NEW t \in pending, Valid(t), accepted' = accepted \cup {t}
          PROVE  \A v, u \in Imports(accepted)' : v # u => spends[v] \cap spends[u] = {}
      <4>1. Imports(accepted)' \subseteq Imports(accepted) \cup {t}
        BY <1>2, <3>2 DEF Imports, OfKind
      <4>2. t \in Imports(accepted)' => \A u \in Imports(accepted) : spends[u] \cap spends[t] = {}
        BY <1>2, <3>2 DEF Valid, Imports, OfKind
      <4> QED BY <4>1, <4>2 DEF Spent
    <3> QED BY <2>4, <3>1, <3>2
  <2> QED BY <1>2, <2>1, <2>3, <2>5 DEF Spent
<1> QED BY <1>4, <1>5, <1>6, MainSteps DEF Next

\* What is accepted stays accepted, and the test takes its steps one by one.
LEMMA Onward ==
  ASSUME IInv, [Next]_vars
  PROVE  /\ accepted \subseteq accepted'
         /\ UNCHANGED <<test, prompt>>
         /\ pc' = pc \/ (pc' = pc + 1 /\ pc \in Step /\ (GoesOn \/ Receives))
         /\ \A t \in Step : t # pc => spends'[t] = spends[t]
<1> USE DEF IInv
<1>1. accepted \subseteq accepted'
  BY DEF Next, Main, CallReturns, RequestFails, Issue, AwaitX, AwaitXFails, AwaitC,
         SecondImportFails, SecondImportTaken, CheckPasses, CheckFails, Launch, Collect, Sleep,
         Confirm, ReceiptNotFound, Quiet, Network, Settle, Drop, Include, Issuer,
         SendTransaction, SendFails, ListIssued, Report, Terminated, vars, chains
<1>2. pc' = pc \/ (pc' = pc + 1 /\ pc \in Step /\ (GoesOn \/ Receives))
  <2>1. CASE Main
    <3>1. CASE GoesOn
      BY <3>1 DEF GoesOn, Running, Advance
    <3>2. CASE Receives
      BY <3>2 DEF Receives, Running
    <3>3. CASE Stops \/ Issue \/ Confirm
      BY <3>3 DEF Stops, Issue, Confirm
    <3> QED BY <2>1, <3>1, <3>2, <3>3, MainSteps
  <2>2. CASE ~Main
    BY <2>2 DEF Next, Network, Issuer, SendTransaction, SendFails, ListIssued, Report, Terminated,
                vars, main
  <2> QED BY <2>1, <2>2
<1>3. ASSUME NEW t \in Step, t # pc PROVE spends'[t] = spends[t]
  <2>1. CASE Issue
    <3>1. t \in 1..MaxStep
      BY Steps DEF Placed
    <3> QED BY <1>3, <2>1, <3>1 DEF Issue, Spent
  <2>2. CASE ~Issue
    <3>1. spends' = spends
      BY <2>2, MainSteps
         DEF Next, GoesOn, Stops, Receives, Confirm, Quiet, Network, Settle, Drop, Include,
             Issuer, SendTransaction, SendFails, ListIssued, Report, Terminated, vars, chains
    <3> QED BY <3>1
  <2> QED BY <2>1, <2>2
<1>4. UNCHANGED <<test, prompt>>
  BY DEF Next, vars
<1> QED BY <1>1, <1>2, <1>3, <1>4

LEMMA AwaitedStep ==
  ASSUME IInv, [Next]_vars
  PROVE  Awaited'
<1> USE DEF IInv
<1>1. OfKind(Step, XKinds)' = OfKind(Step, XKinds) /\ \A t \in OfKind(Step, XKinds) : t \in Step
  BY Onward, SameScript DEF OfKind
<1>2. pc' = pc \/ (pc' = pc + 1 /\ pc \in Step /\ (pc \in OfKind(Step, XKinds) => pc \in accepted))
  BY Onward DEF GoesOn, Receives, OfKind, XKinds, op
<1>3. \A t \in Step : t \in Nat
  BY Steps DEF Placed
<1>4. \A t \in OfKind(Step, XKinds) : t < pc' => t < pc \/ (t = pc /\ pc' = pc + 1)
  BY <1>1, <1>2, <1>3
<1> QED BY <1>1, <1>2, <1>4, Onward DEF Awaited

\* The balances that the atomic workflow test reads on the C-Chain: what the import has
\* brought, without what was exported again.
LEMMA AtomicCBalance ==
  ASSUME IInv, test = "atomic", NEW a
  PROVE  /\ CBalance(Key, a) = Total(IF 5 \in accepted THEN OfAsset(spends[5], a) ELSE {})
                               - Total(OfAsset(accepted \cap {11, 12}, a))
         /\ Script[11].asset = "AVAX" /\ Script[12].asset = "asset"
<1> USE DEF IInv
<1>1. accepted \subseteq Step
  BY DEF Placed, Txs, OfKind
<1>2. OfKind(accepted, {"exportC"}) = accepted \cap {11, 12}
  BY <1>1, AtomicKinds DEF OfKind
<1>3. OfKind(accepted, {"importC"}) = accepted \cap {5}
  BY <1>1, AtomicKinds DEF OfKind
<1>4. Script[5].to = Key /\ Script[11].asset = "AVAX" /\ Script[12].asset = "asset"
  BY AtomicKinds, AtomicScript DEF Import, ExportBack, Op
<1>5. {t \in OfKind(accepted, {"importC"}) : Script[t].to = Key}
        = IF 5 \in accepted THEN {5} ELSE {}
  BY <1>3, <1>4
<1>6. UNION {spends[t] : t \in {t \in OfKind(accepted, {"importC"}) : Script[t].to = Key}}
        = IF 5 \in accepted THEN spends[5] ELSE {}
  BY <1>5
<1>7. OfAsset({}, a) = {}
  BY DEF OfAsset
<1> QED BY <1>2, <1>4, <1>6, <1>7 DEF CBalance

LEMMA ReadStep ==
  ASSUME IInv, [Next]_vars
  PROVE  Read'
<1> USE DEF IInv
<1> SUFFICES ASSUME test = "atomic" PROVE Read'
  BY Onward DEF Read
<1>1. test' = "atomic" /\ pc \in Nat /\ accepted \subseteq accepted'
  BY Onward, Steps DEF Placed
<1>2. 5 \in Step /\ 9 \in Step /\ 10 \in Step /\ 13 \in Step /\ 14 \in Step
      /\ AssetAmount - AssetKept \in Nat /\ AssetAmount - AssetKept > 0 /\ ExportAmount > 0
  BY AtomicKinds, CChainAssumption
<1>3. pc > 9 => \A a : Total(OfAsset(spends[5], a))' = Total(OfAsset(spends[5], a))
  <2>1. pc > 9 => spends'[5] = spends[5]
    BY <1>2, Onward
  <2>2. Script' = Script /\ Step' = Step
    BY Onward, SameScript
  <2>3. SUFFICES ASSUME pc > 9, NEW a
                 PROVE  Total(OfAsset(spends[5], a))' = Total(OfAsset(spends[5], a))
    OBVIOUS
  <2>4. OfAsset(spends[5], a)' = OfAsset(spends[5], a)
    BY <2>1, <2>2, <2>3 DEF OfAsset
  <2> QED BY <2>2, <2>4 DEF Total
<1>4. CASE pc' = pc
  BY <1>1, <1>3, <1>4 DEF Read
<1>5. CASE pc' # pc
  <2>1. pc' = pc + 1 /\ GoesOn
    <3>1. ~Receives
      BY AtomicKinds DEF Receives, Running, op
    <3> QED BY <1>5, <3>1, Onward
  <2>2. pc \in Step /\ (op.kind = "checkC" => CBalance(Key, op.asset) = op.quantity)
    BY <2>1 DEF GoesOn, Running, Found
  <2>3. \A t \in accepted : t \in Nat /\ t <= pc
    BY <1>1, Steps DEF Placed, Txs, OfKind
  <2>4. \A a : /\ 5 \in accepted => Total(OfAsset(spends[5], a)) \in Int
               /\ Total(OfAsset(accepted \cap {11, 12}, a)) \in Int
    <3>1. accepted \subseteq Step
      BY DEF Placed, Txs, OfKind
    <3>2. 5 \in accepted => spends[5] \subseteq Step
      BY <1>2, <3>1, AtomicKinds DEF Spent, Imports, OfKind
    <3> QED BY <3>1, <3>2, TotalIsInt DEF OfAsset
  <2>5. \A a : OfAsset({}, a) = {}
    BY DEF OfAsset
  <2>6. Total({}) = 0
    BY TotalOfNone
  <2>7. UNCHANGED spends
    BY <2>1 DEF GoesOn, chains
  <2>8. CASE pc = 9
    <3>1. op.kind = "checkC" /\ op.asset = "AVAX" /\ op.quantity = ExportAmount
      BY <2>8, AtomicKinds, AtomicScript DEF op, CheckC, Op
    <3>2. accepted \cap {11, 12} = {}
      BY <2>3, <2>8
    <3>3. 5 \in accepted /\ Total(OfAsset(spends[5], "AVAX")) = ExportAmount
      <4>1. CBalance(Key, "AVAX") = ExportAmount
        BY <2>2, <3>1
      <4>2. Total(OfAsset(accepted \cap {11, 12}, "AVAX")) = 0
        BY <2>5, <2>6, <3>2
      <4>3. 5 \in accepted
        BY <1>2, <2>6, <4>1, <4>2, AtomicCBalance
      <4> QED BY <2>4, <4>1, <4>2, <4>3, AtomicCBalance
    <3>4. Total(OfAsset(spends[5], "AVAX"))' = Total(OfAsset(spends[5], "AVAX"))
      BY <2>7, Onward, SameScript DEF Total, OfAsset
    <3> QED BY <1>1, <2>1, <2>8, <3>3, <3>4 DEF Read
  <2>9. CASE pc = 10
    <3>1. op.kind = "checkC" /\ op.asset = "asset" /\ op.quantity = AssetAmount - AssetKept
      BY <2>9, AtomicKinds, AtomicScript DEF op, CheckC, Op
    <3>2. accepted \cap {11, 12} = {}
      BY <2>3, <2>9
    <3>3. 5 \in accepted
      BY <1>1, <2>9 DEF Read
    <3>4. Total(OfAsset(spends[5], "asset")) = AssetAmount - AssetKept
      BY <2>2, <2>4, <2>5, <2>6, <3>1, <3>2, <3>3, AtomicCBalance
    <3> QED BY <1>1, <1>3, <2>1, <2>9, <3>4 DEF Read
  <2>10. CASE pc = 13
    <3>1. op.kind = "checkC" /\ op.asset = "AVAX" /\ op.quantity = 0
      BY <2>10, AtomicKinds, AtomicScript DEF op, CheckC, Op
    <3>2. 5 \in accepted /\ Total(OfAsset(spends[5], "AVAX")) = ExportAmount
      BY <1>1, <2>10 DEF Read
    <3>3. 11 \notin accepted => OfAsset(accepted \cap {11, 12}, "AVAX") = {}
      BY AtomicCBalance DEF OfAsset
    <3>4. 11 \in accepted
      BY <1>2, <2>2, <2>4, <2>6, <3>1, <3>2, <3>3, AtomicCBalance
    <3> QED BY <1>1, <1>3, <2>1, <2>10, <3>4 DEF Read
  <2>11. CASE pc = 14
    <3>1. op.kind = "checkC" /\ op.asset = "asset" /\ op.quantity = 0
      BY <2>11, AtomicKinds, AtomicScript DEF op, CheckC, Op
    <3>2. 5 \in accepted /\ Total(OfAsset(spends[5], "asset")) = AssetAmount - AssetKept
      BY <1>1, <2>11 DEF Read
    <3>3. 12 \notin accepted => OfAsset(accepted \cap {11, 12}, "asset") = {}
      BY AtomicCBalance DEF OfAsset
    <3>4. 12 \in accepted
      BY <1>2, <2>2, <2>4, <2>6, <3>1, <3>2, <3>3, AtomicCBalance
    <3> QED BY <1>1, <1>3, <2>1, <2>11, <3>4 DEF Read
  <2>12. CASE pc \notin {9, 10, 13, 14}
    <3>1. /\ pc' > 9 <=> pc > 9
          /\ pc' > 10 <=> pc > 10
          /\ pc' > 13 <=> pc > 13
          /\ pc' > 14 <=> pc > 14
      BY <1>1, <2>1, <2>12
    <3> QED BY <1>1, <1>3, <3>1 DEF Read
  <2> QED BY <2>8, <2>9, <2>10, <2>11, <2>12
<1> QED BY <1>4, <1>5

-----------------------------------------------------------------------------

\* An account has funds only if an import to it is accepted.
LEMMA FundedByImport ==
  ASSUME IInv, NEW i \in List, CBalance(i, "AVAX") > 0
  PROVE  \E t \in Imports(accepted) : Script[t].to = i
<1> DEFINE imports == {t \in OfKind(accepted, {"importC"}) : Script[t].to = i}
<1>1. SUFFICES ASSUME imports = {} PROVE FALSE
  BY DEF Imports
<1>2. OfAsset(UNION {spends[t] : t \in imports}, "AVAX") = {}
  BY <1>1 DEF OfAsset
<1>3. i # Key
  BY CChainAssumption DEF List, Key
<1>4. CBalance(i, "AVAX") = Total({}) - 0
  BY <1>2, <1>3 DEF CBalance
<1> QED BY <1>4, TotalOfNone DEF IInv, Placed

LEMMA GoneIsFinite ==
  /\ IsFiniteSet(Gone) /\ Cardinality(Gone) \in Nat /\ Cardinality(Gone) <= NumLists
<1>1. IsFiniteSet(List) /\ Cardinality(List) = NumLists
  BY FS_Interval, CChainAssumption DEF List
<1>2. IsFiniteSet(Gone) /\ Cardinality(Gone) <= NumLists
  BY <1>1, FS_Subset DEF Gone
<1> QED BY <1>2, FS_CardinalityType

LEMMA IssuersStep ==
  ASSUME IInv, [Next]_vars
  PROVE  Issuers'
<1> USE DEF IInv
<1> DEFINE Launched == test = "throughput" /\ pc > 2 * NumLists + 2
           OnChannel == /\ errs \in Seq({"ok", "error"}) /\ received \in Nat
                        /\ Len(errs) + received <= Cardinality(Gone)
           Counts == /\ issued \in [List -> 0..NumTxs] /\ included \in [List -> 0..NumTxs]
                     /\ \A i \in List : issued[i] > 0 => \E t \in Imports(accepted) : Script[t].to = i
                     /\ \A i \in List : included[i] > 0 => issued[i] > 0
           States == /\ issuer \in [List -> {"off", "issuing", "ok", "error", "gone"}]
                     /\ Launched \/ \A i \in List : issuer[i] = "off"
<1>1. /\ UNCHANGED test /\ accepted \subseteq accepted' /\ Script' = Script
      /\ pc \in Nat /\ pc' \in Nat /\ pc <= pc'
  BY Onward, SameScript, Steps DEF Placed
<1>2. Launched => Launched'
  <2>1. 2 * NumLists + 2 \in Nat
    BY CChainAssumption
  <2> QED BY <1>1, <2>1
<1>3. Imports(accepted) \subseteq Imports(accepted)'
  BY <1>1 DEF Imports, OfKind
<1>4. ASSUME UNCHANGED <<issued, included>> PROVE Counts'
  BY <1>1, <1>3, <1>4 DEF Issuers
<1>5. ASSUME UNCHANGED <<issuer>> PROVE States' /\ Gone' = Gone
  BY <1>1, <1>2, <1>5 DEF Issuers, Gone
<1>6. ASSUME UNCHANGED <<errs, received>>, Gone' = Gone PROVE OnChannel'
  BY <1>6 DEF Issuers
<1>7. CASE GoesOn
  <2>1. UNCHANGED <<issued, included, errs, received>>
    BY <1>7 DEF GoesOn, Advance, chains
  <2>2. CASE issuer' = issuer
    BY <1>4, <1>5, <1>6, <2>1, <2>2 DEF Issuers
  <2>3. CASE op.kind = "launch" /\ issuer' = [i \in List |-> "issuing"]
    <3>1. test = "throughput" /\ pc = 2 * NumLists + 2 /\ pc' = pc + 1
      BY <1>7, <2>3, ThroughputKinds, AtomicKinds DEF GoesOn, Running, Advance, Placed, op
    <3>2. Launched' /\ ~Launched
      <4>1. 2 * NumLists + 2 \in Nat
        BY CChainAssumption
      <4> QED BY <1>1, <3>1, <4>1
    <3>3. \A i \in List : issuer[i] = "off" /\ issuer'[i] = "issuing"
      BY <2>3, <3>2 DEF Issuers
    <3>4. Gone = {} /\ Gone' = {}
      BY <3>3 DEF Gone
    <3> QED BY <1>4, <1>6, <2>1, <2>3, <3>2, <3>4 DEF Issuers
  <2> QED BY <1>7, <2>2, <2>3 DEF GoesOn
<1>8. CASE Stops
  <2>1. UNCHANGED <<issuer, issued, included, received>>
        /\ (errs' = errs \/ (errs # <<>> /\ errs' = Tail(errs)))
    BY <1>8 DEF Stops, chains, issuers
  <2>2. CASE errs' = errs
    BY <1>4, <1>5, <1>6, <2>1, <2>2 DEF Issuers
  <2>3. CASE errs # <<>> /\ errs' = Tail(errs)
    <3>1. errs' \in Seq({"ok", "error"}) /\ Len(errs') = Len(errs) - 1 /\ Len(errs) \in Nat
      BY <2>3 DEF Issuers
    <3>2. OnChannel'
      BY <1>5, <2>1, <3>1, GoneIsFinite DEF Issuers
    <3> QED BY <1>4, <1>5, <2>1, <3>2 DEF Issuers
  <2> QED BY <2>1, <2>2, <2>3
<1>9. CASE Receives
  <2>1. UNCHANGED <<issuer, issued, included>> /\ errs # <<>> /\ errs' = Tail(errs)
        /\ received' = received + 1
    BY <1>9 DEF Receives, chains, issuers
  <2>2. OnChannel'
    <3>1. errs' \in Seq({"ok", "error"}) /\ Len(errs') = Len(errs) - 1 /\ Len(errs) \in Nat
      BY <2>1 DEF Issuers
    <3> QED BY <1>5, <2>1, <3>1, GoneIsFinite DEF Issuers
  <2> QED BY <1>4, <1>5, <2>1, <2>2 DEF Issuers
<1>10. CASE Issue \/ Confirm \/ Terminated \/ UNCHANGED vars
  <2>1. UNCHANGED <<issuer, issued, included, errs, received>>
    BY <1>10 DEF Issue, Confirm, Terminated, Quiet, vars, main, chains, issuers
  <2> QED BY <1>4, <1>5, <1>6, <2>1 DEF Issuers
<1>11. CASE Network
  <2>1. UNCHANGED <<issuer, issued, errs, received>>
    BY <1>11 DEF Network, main, issuers
  <2>2. Counts'
    <3>1. CASE included' = included
      BY <1>4, <2>1, <3>1
    <3>2. ASSUME NEW i \in List, Include(i) PROVE Counts'
      <4>1. /\ included[i] < issued[i] /\ included' = [included EXCEPT ![i] = @ + 1]
            /\ included[i] \in 0..NumTxs /\ issued[i] \in 0..NumTxs
        BY <3>2 DEF Include, Issuers
      <4>2. included[i] + 1 \in 0..NumTxs /\ issued[i] > 0
        BY <4>1, CChainAssumption
      <4>3. included' \in [List -> 0..NumTxs] /\ \A k \in List : included'[k] > 0 => issued[k] > 0
        BY <4>1, <4>2 DEF Issuers
      <4> QED BY <1>1, <1>3, <2>1, <4>3 DEF Issuers
    <3> QED BY <1>11, <3>1, <3>2 DEF Network, Settle, Drop
  <2> QED BY <1>5, <1>6, <2>1, <2>2 DEF Issuers
<1>12. ASSUME NEW i \in List, Issuer(i)
       PROVE  Issuers'
  <2> USE DEF Issuing
  <2>1. Launched
    BY <1>12 DEF Issuer, SendTransaction, SendFails, ListIssued, Report, Issuers
  <2>2. UNCHANGED <<received, accepted, included>>
    BY <1>12 DEF Issuer, SendTransaction, SendFails, ListIssued, Report, main, chains
  <2>3. CASE SendTransaction(i)
    <3>1. /\ issued[i] < NumTxs /\ CBalance(i, "AVAX") > 0 /\ issued[i] \in 0..NumTxs
          /\ issued' = [issued EXCEPT ![i] = @ + 1] /\ UNCHANGED <<issuer, errs>>
      BY <2>3 DEF SendTransaction, Issuers
    <3>2. issued[i] + 1 \in 0..NumTxs /\ issued[i] + 1 > 0
      BY <3>1, CChainAssumption
    <3>3. \E t \in Imports(accepted) : Script[t].to = i
      BY <3>1, FundedByImport
    <3>4. issued' \in [List -> 0..NumTxs]
      BY <3>1, <3>2 DEF Issuers
    <3>5. \A k \in List : issued'[k] > 0 => \E t \in Imports(accepted) : Script[t].to = k
      BY <3>1, <3>3 DEF Issuers
    <3>6. \A k \in List : included[k] > 0 => issued'[k] > 0
      BY <3>1, <3>2 DEF Issuers
    <3>7. Counts'
      BY <1>1, <1>3, <2>2, <3>4, <3>5, <3>6 DEF Issuers
    <3> QED BY <1>5, <1>6, <2>2, <3>1, <3>7 DEF Issuers
  <2>4. CASE SendFails(i) \/ ListIssued(i)
    <3>1. /\ UNCHANGED <<issued, errs>> /\ issuer[i] = "issuing"
          /\ \E s \in {"error", "ok"} : issuer' = [issuer EXCEPT ![i] = s]
      BY <2>4 DEF SendFails, ListIssued
    <3>2. issuer' \in [List -> {"off", "issuing", "ok", "error", "gone"}] /\ Gone' = Gone
      BY <3>1 DEF Gone, Issuers
    <3> QED BY <1>2, <1>4, <1>6, <2>1, <2>2, <3>1, <3>2 DEF Issuers
  <2>5. CASE Report(i)
    <3>1. /\ issuer[i] \in {"ok", "error"} /\ errs' = Append(errs, issuer[i])
          /\ issuer' = [issuer EXCEPT ![i] = "gone"] /\ UNCHANGED issued
      BY <2>5 DEF Report
    <3>2. issuer' \in [List -> {"off", "issuing", "ok", "error", "gone"}]
          /\ Gone' = Gone \cup {i} /\ i \notin Gone
      BY <3>1 DEF Gone, Issuers
    <3>3. Cardinality(Gone') = Cardinality(Gone) + 1
      BY <3>2, GoneIsFinite, FS_AddElement
    <3>4. errs' \in Seq({"ok", "error"}) /\ Len(errs') = Len(errs) + 1 /\ Len(errs) \in Nat
      BY <3>1 DEF Issuers
    <3>5. OnChannel'
      BY <2>2, <3>3, <3>4, GoneIsFinite DEF Issuers
    <3> QED BY <1>2, <1>4, <2>1, <2>2, <3>1, <3>2, <3>5 DEF Issuers
  <2> QED BY <1>12, <2>3, <2>4, <2>5 DEF Issuer
<1> QED BY <1>7, <1>8, <1>9, <1>10, <1>11, <1>12, MainSteps DEF Next

\* The place of a receipt in the lists.
LEMMA PlaceOfReceipt ==
  ASSUME NEW T \in Nat, T > 0, NEW q \in Nat, NEW r \in Nat, r < T
  PROVE  (q * T + r) \div T = q /\ (q * T + r) % T = r
<1> DEFINE n == q * T + r
           d == n \div T
           m == n % T
<1>1. n \in Nat /\ q * T \in Nat
  OBVIOUS
<1>2. d \in Nat /\ m \in Nat /\ m < T /\ n = d * T + m
  BY <1>1
<1>3. d = q
  <2>1. ASSUME d > q PROVE FALSE
    <3>1. PICK k \in Nat : d = q + 1 + k
      BY <1>2, <2>1
    <3>2. d * T = q * T + T + k * T /\ k * T \in Nat
      BY <3>1
    <3> QED BY <1>1, <1>2, <3>2
  <2>2. ASSUME d < q PROVE FALSE
    <3>1. PICK k \in Nat : q = d + 1 + k
      BY <1>2, <2>2
    <3>2. q * T = d * T + T + k * T /\ k * T \in Nat
      BY <1>2, <3>1
    <3>3. d * T \in Nat
      BY <1>2
    <3> QED BY <1>1, <1>2, <3>2, <3>3
  <2> QED BY <1>2, <2>1, <2>2
<1>4. m = r
  BY <1>1, <1>2, <1>3
<1> QED BY <1>3, <1>4

LEMMA ReceiptsStep ==
  ASSUME IInv, [Next]_vars
  PROVE  Receipts'
<1> USE DEF IInv
<1> DEFINE ReadSoFar == \A i \in List : \A j \in 1..NumTxs :
                            (i - 1) * NumTxs + j <= confirmed => j <= included[i]
<1>1. UNCHANGED test /\ Script' = Script /\ NumLists * NumTxs \in Nat /\ pc \in Nat
  BY Onward, SameScript, Steps, CChainAssumption DEF Placed
<1>2. ASSUME UNCHANGED <<confirmed, verdict, pc, included>> PROVE Receipts'
  BY <1>1, <1>2 DEF Receipts
<1>3. CASE GoesOn
  <2>1. /\ UNCHANGED <<confirmed, included>> /\ verdict = "running" /\ pc \in Step /\ pc' = pc + 1
        /\ verdict' = IF pc = Len(Script) THEN "pass" ELSE "running"
        /\ op.kind # "confirm"
    BY <1>3 DEF GoesOn, Advance, Running, chains
  <2>2. test = "throughput" => pc # Len(Script)
    BY <2>1, ThroughputKinds DEF op
  <2> QED BY <1>1, <2>1, <2>2 DEF Receipts
<1>4. CASE Stops
  BY <1>1, <1>4 DEF Stops, Receipts, chains
<1>5. CASE Receives
  <2>1. UNCHANGED <<confirmed, included, verdict>> /\ verdict = "running"
    BY <1>5 DEF Receives, Running, chains
  <2> QED BY <1>1, <2>1 DEF Receipts
<1>6. CASE Issue \/ (\E i \in List : Issuer(i)) \/ Terminated \/ UNCHANGED vars
  <2>1. UNCHANGED <<confirmed, verdict, pc, included>>
    BY <1>6 DEF Issue, Issuer, SendTransaction, SendFails, ListIssued, Report, Terminated, vars,
                main, chains
  <2> QED BY <1>2, <2>1
<1>7. CASE Network
  <2>1. UNCHANGED <<confirmed, verdict, pc>>
    BY <1>7 DEF Network, main
  <2>2. \A i \in List : included[i] \in Nat /\ included'[i] \in Nat /\ included[i] <= included'[i]
    <3>1. \A i \in List : included[i] \in Nat
      BY CChainAssumption DEF Issuers
    <3>2. CASE included' = included
      BY <3>1, <3>2
    <3>3. ASSUME NEW k \in List, Include(k)
          PROVE  \A i \in List : included'[i] \in Nat /\ included[i] <= included'[i]
      BY <3>1, <3>3 DEF Include, Issuers
    <3> QED BY <1>7, <3>1, <3>2, <3>3 DEF Network, Settle, Drop
  <2>3. ReadSoFar'
    <3> SUFFICES ASSUME NEW i \in List, NEW j \in 1..NumTxs, (i - 1) * NumTxs + j <= confirmed
                 PROVE  j <= included'[i]
      BY <2>1
    <3>1. j <= included[i] /\ j \in Nat
      BY CChainAssumption DEF Receipts
    <3> QED BY <2>2, <3>1
  <2> QED BY <1>1, <2>1, <2>3 DEF Receipts
<1>8. CASE Confirm
  <2>1. /\ verdict = "running" /\ pc \in Step /\ op.kind = "confirm"
        /\ NextTx <= included[NextList] /\ confirmed' = confirmed + 1
        /\ verdict' = IF confirmed + 1 = NumLists * NumTxs THEN "pass" ELSE "running"
        /\ UNCHANGED <<pc, included>>
    BY <1>8 DEF Confirm, At, Running, Quiet, chains
  <2>2. test = "throughput"
    BY <2>1, AtomicKinds DEF Placed, op
  <2>3. confirmed \in Nat /\ confirmed < NumLists * NumTxs
    BY <2>1 DEF Receipts
  <2>4. ReadSoFar'
    <3> SUFFICES ASSUME NEW i \in List, NEW j \in 1..NumTxs, (i - 1) * NumTxs + j <= confirmed + 1
                 PROVE  j <= included[i]
      BY <2>1
    <3>1. (i - 1) * NumTxs \in Nat /\ j \in Nat /\ i \in Nat /\ i - 1 \in Nat
          /\ NumTxs \in Nat /\ NumTxs > 0
      <4>1. i \in Nat /\ i - 1 \in Nat /\ NumTxs \in Nat /\ NumTxs > 0 /\ j \in Nat
        BY CChainAssumption DEF List
      <4> QED BY <4>1
    <3>2. CASE (i - 1) * NumTxs + j <= confirmed
      BY <3>2 DEF Receipts
    <3>3. CASE ~((i - 1) * NumTxs + j <= confirmed)
      <4>1. confirmed = (i - 1) * NumTxs + (j - 1) /\ j - 1 \in Nat /\ j - 1 < NumTxs
        BY <2>3, <3>1, <3>3
      <4>2. confirmed \div NumTxs = i - 1 /\ confirmed % NumTxs = j - 1
        BY <3>1, <4>1, PlaceOfReceipt
      <4>3. NextList = i /\ NextTx = j
        BY <3>1, <4>2 DEF NextList, NextTx
      <4> QED BY <2>1, <4>3
    <3> QED BY <3>2, <3>3
  <2>5. confirmed' \in Nat /\ confirmed' <= NumLists * NumTxs
        /\ (confirmed' # NumLists * NumTxs => confirmed' < NumLists * NumTxs)
    BY <1>1, <2>1, <2>3
  <2> QED BY <1>1, <2>1, <2>2, <2>4, <2>5 DEF Receipts
<1> QED BY <1>3, <1>4, <1>5, <1>6, <1>7, <1>8, MainSteps DEF Next

\* The invariant of both tests, on any network: what is issued and what of it is accepted,
\* what each import spends, what the readings have shown, and what the results and the
\* receipts stand for.
THEOREM Inductive == Spec => []IInv
<1>1. IInv /\ [Next]_vars => IInv'
  BY PlacedStep, SpentStep, AwaitedStep, ReadStep, IssuersStep, ReceiptsStep DEF IInv
<1> QED BY <1>1, InvariantInit, PTL DEF Spec

\* The variables of both tests keep their types: there is room in the channel for every
\* result, and no goroutine issues more than its list.
THEOREM TypeCorrect == Spec => []TypeOK
<1>1. IInv => TypeOK
  <2> SUFFICES ASSUME IInv PROVE TypeOK
    OBVIOUS
  <2> USE DEF IInv
  <2>1. pc \in 1..(MaxStep + 1)
    BY Steps DEF Placed
  <2>2. pending \subseteq Step /\ accepted \subseteq Step
    BY DEF Placed, Txs, OfKind
  <2>3. Len(errs) + received <= NumLists /\ received \in 0..NumLists
    <3>1. Len(errs) \in Nat
      BY DEF Issuers
    <3> QED BY <3>1, GoneIsFinite, CChainAssumption DEF Issuers
  <2>4. confirmed \in 0..(NumLists * NumTxs)
    BY CChainAssumption DEF Receipts
  <2> QED BY <2>1, <2>2, <2>3, <2>4 DEF TypeOK, Placed, Spent, Issuers
<1> QED BY <1>1, Inductive, PTL

\* The readings of the C-Chain confirm what its awaits do not.
THEOREM ReadingsTell == Spec => []ReadingsConfirm
<1>1. IInv => ReadingsConfirm
  <2> SUFFICES ASSUME IInv, test = "atomic",
                      NEW u \in OfKind(Step, {"checkC"}), u < pc,
                      NEW t \in OfKind(Step, CKinds), t < u,
                      Script[t].kind = "importC" \/ Script[t].asset = Script[u].asset
               PROVE  t \in accepted
    BY DEF ReadingsConfirm
  <2>1. u \in {9, 10, 13, 14} /\ t \in {5, 11, 12} /\ pc \in Nat
    BY AtomicKinds DEF OfKind, CKinds, IInv, Placed
  <2>2. /\ Script[11].asset = "AVAX" /\ Script[12].asset = "asset"
        /\ Script[13].asset = "AVAX" /\ Script[14].asset = "asset"
        /\ Script[5].kind = "importC" /\ Script[11].kind # "importC" /\ Script[12].kind # "importC"
    BY AtomicKinds, AtomicScript DEF ExportBack, CheckC, Op
  <2>3. t = 5 => pc > 9
    BY <2>1
  <2>4. t = 11 => u = 13
    BY <2>1, <2>2
  <2>5. t = 12 => u = 14
    BY <2>1, <2>2
  <2> QED BY <2>1, <2>3, <2>4, <2>5 DEF IInv, Read
<1> QED BY <1>1, Inductive, PTL

\* A non-empty set of natural numbers has a least element.
LEMMA LeastNumber ==
  ASSUME NEW T \in SUBSET Nat, T # {}
  PROVE  \E m \in T : \A k \in T : m <= k
<1> DEFINE R == {p \in Nat \X Nat : p[1] < p[2]}
<1>2. IsWellFoundedOn(R, Nat)
  BY NatLessThanWellFounded DEF OpToRel
<1>3. PICK m \in T : \A k \in T : <<k, m>> \notin R
  <2> HIDE DEF R
  <2> QED
    BY <1>2, WFMin
<1>4. ASSUME NEW k \in T PROVE m <= k
  <2>1. ~(k < m)
    BY <1>3
  <2> QED
    BY <2>1
<1> QED
  BY <1>4

\* When the imports of all the lists are accepted, each has spent the export made for its
\* list: an import can spend earlier exports only, no two spend the same, and the first has
\* one to choose from.
LEMMA EachSpendsItsExport ==
  ASSUME test = "throughput", Spent, accepted \subseteq Step,
         \A i \in List : 2 * i + 1 \in accepted
  PROVE  \A i \in List : spends[2 * i + 1] = {2 * i} /\ 2 * i \in accepted
<1> DEFINE Odd == {i \in List : spends[2 * i + 1] # {2 * i}}
<1>1. \A i \in List : i \in Nat /\ 2 * i + 1 \in Imports(accepted)
  BY ThroughputKinds DEF Imports, OfKind, List
<1>2. Imports(accepted) \subseteq Imports(pending \cup accepted)
  BY DEF Imports, OfKind
<1>3. ASSUME NEW i \in List
      PROVE  /\ spends[2 * i + 1] # {}
             /\ \A e \in spends[2 * i + 1] :
                   e \in accepted /\ \E j \in List : e = 2 * j /\ j <= i
  <2>1. /\ spends[2 * i + 1] # {}
        /\ \A e \in spends[2 * i + 1] : e \in OfKind(accepted, {"exportX"}) /\ e < 2 * i + 1
    BY <1>1, <1>2 DEF Spent
  <2>2. ASSUME NEW e \in spends[2 * i + 1]
        PROVE  e \in accepted /\ \E j \in List : e = 2 * j /\ j <= i
    <3>1. e \in accepted /\ Script[e].kind = "exportX" /\ e < 2 * i + 1
      BY <2>1 DEF OfKind
    <3>2. e \in Step
      BY <3>1
    <3>3. PICK j \in List : e = 2 * j
      BY <3>1, <3>2, ThroughputKinds
    <3> QED BY <1>1, <3>1, <3>3
  <2> QED BY <2>1, <2>2
<1>4. Odd = {}
  <2> SUFFICES ASSUME Odd # {} PROVE FALSE
    OBVIOUS
  <2>1. Odd \in SUBSET Nat
    BY <1>1
  <2>2. PICK m \in Odd : \A k \in Odd : m <= k
    <3> HIDE DEF Odd
    <3> QED BY <2>1, LeastNumber
  <2>3. ASSUME NEW e \in spends[2 * m + 1] PROVE e = 2 * m
    <3>1. PICK j \in List : e = 2 * j /\ j <= m
      BY <1>3
    <3>2. ASSUME j < m PROVE FALSE
      <4>1. spends[2 * j + 1] = {2 * j}
        BY <1>1, <2>2, <3>2
      <4>2. 2 * j + 1 # 2 * m + 1
        BY <1>1, <3>2
      <4>3. spends[2 * j + 1] \cap spends[2 * m + 1] = {}
        BY <1>1, <4>2 DEF Spent
      <4> QED BY <3>1, <4>1, <4>3
    <3> QED BY <1>1, <3>1, <3>2
  <2>4. spends[2 * m + 1] = {2 * m}
    BY <1>3, <2>3
  <2> QED BY <2>2, <2>4
<1>5. \A i \in List : spends[2 * i + 1] = {2 * i}
  BY <1>4
<1> QED BY <1>3, <1>5

LEMMA ImportsOf ==
  ASSUME test = "throughput", NEW j \in List
  PROVE  Script[2 * j + 1].kind = "importC" /\ Script[2 * j + 1].to = j
<1>1. Script[2 * j + 1] = Import(j)
  BY ThroughputKinds
<1>2. Import(j).kind = "importC" /\ Import(j).to = j
  BY DEF Import, Op
<1> QED BY <1>1, <1>2

\* What a list's account has been sent is then the amount of one export.
LEMMA FundedOnce ==
  ASSUME test = "throughput", NEW i \in List,
         2 * i + 1 \in accepted, spends[2 * i + 1] = {2 * i}, accepted \subseteq Step
  PROVE  CBalance(i, "AVAX") = ExportAmount
<1>1. i \in Nat /\ i # Key
  BY CChainAssumption DEF List, Key
<1>2. {t \in OfKind(accepted, {"importC"}) : Script[t].to = i} = {2 * i + 1}
  <2>1. Script[2 * i + 1].kind = "importC" /\ Script[2 * i + 1].to = i
    BY ImportsOf
  <2>2. ASSUME NEW t \in accepted, Script[t].kind = "importC", Script[t].to = i
        PROVE  t = 2 * i + 1
    <3>1. PICK j \in List : t = 2 * j + 1
      BY <2>2, ThroughputKinds
    <3>2. Script[t].to = j
      BY <3>1, ImportsOf
    <3> QED BY <2>2, <3>1, <3>2
  <2> QED BY <2>1, <2>2 DEF OfKind
<1>3. UNION {spends[t] : t \in {2 * i + 1}} = {2 * i}
  OBVIOUS
<1>4. 2 * i \in Step /\ Script[2 * i].asset = "AVAX" /\ Script[2 * i].quantity = ExportAmount
  BY ThroughputKinds DEF Export, Op
<1>5. OfAsset({2 * i}, "AVAX") = {2 * i}
  BY <1>4 DEF OfAsset
<1>6. Total({2 * i}) = ExportAmount
  BY <1>4, TotalOfOne, CChainAssumption
<1>7. CBalance(i, "AVAX") = Total(OfAsset(UNION {spends[t] : t \in {2 * i + 1}}, "AVAX")) - 0
  BY <1>1, <1>2 DEF CBalance
<1>8. Total(OfAsset(UNION {spends[t] : t \in {2 * i + 1}}, "AVAX")) = ExportAmount
  BY <1>3, <1>5, <1>6
<1>9. ExportAmount \in Int
  BY CChainAssumption
<1> QED BY <1>7, <1>8, <1>9

\* A pass is complete: the receipts of the throughput test, and the readings of the atomic
\* workflow test, stand for what no await of the C-Chain has shown.
THEOREM Complete == Spec => []PassIsComplete
<1>1. IInv => PassIsComplete
  <2> SUFFICES ASSUME IInv, verdict = "pass"
               PROVE  /\ Txs \subseteq accepted
                      /\ test = "throughput" => \A i \in List : /\ CBalance(i, "AVAX") = ExportAmount
                                                                /\ included[i] = NumTxs
    BY DEF PassIsComplete
  <2> USE DEF IInv
  <2>1. CASE test = "atomic"
    <3>1. pc = 18
      <4>1. Len(Script) = 17 /\ pc = Len(Script) + 1
        BY <2>1, AtomicKinds DEF Receipts
      <4> QED BY <4>1
    <3>2. 5 \in accepted /\ 11 \in accepted /\ 12 \in accepted
      BY <2>1, <3>1 DEF Read
    <3>3. ASSUME NEW t \in Txs PROVE t \in accepted
      <4>1. t \in Step /\ t < pc
        BY <2>1, <3>1, AtomicKinds DEF Txs, OfKind
      <4>2. CASE Script[t].kind \in XKinds
        BY <4>1, <4>2 DEF Awaited, OfKind
      <4>3. CASE Script[t].kind \in CKinds
        BY <2>1, <3>2, <4>1, <4>3, AtomicKinds DEF CKinds
      <4> QED BY <4>2, <4>3 DEF Txs, OfKind
    <3> QED BY <2>1, <3>3
  <2>2. CASE test = "throughput"
    <3>1. ASSUME NEW i \in List PROVE included[i] = NumTxs /\ issued[i] > 0
      <4>1. /\ NumTxs \in Nat /\ NumTxs > 0 /\ NumLists \in Nat /\ i \in Nat
            /\ i - 1 \in Nat /\ NumLists - i \in Nat /\ included[i] \in 0..NumTxs
        BY CChainAssumption DEF List, Issuers
      <4>2. (i - 1) * NumTxs + NumTxs <= NumLists * NumTxs
        <5>1. PICK k \in Nat : NumLists = i + k
          BY <4>1
        <5>2. NumLists * NumTxs = (i - 1) * NumTxs + NumTxs + k * NumTxs /\ k * NumTxs \in Nat
          BY <4>1, <5>1
        <5>3. (i - 1) * NumTxs \in Nat
          BY <4>1
        <5> QED BY <4>1, <5>2, <5>3
      <4>3. NumTxs <= included[i]
        <5>1. NumTxs \in 1..NumTxs
          BY <4>1
        <5>2. confirmed = NumLists * NumTxs
          BY <2>2 DEF Receipts
        <5> QED BY <4>2, <5>1, <5>2 DEF Receipts
      <4> QED BY <4>1, <4>3 DEF Issuers
    <3>2. ASSUME NEW i \in List PROVE 2 * i + 1 \in accepted
      <4>1. PICK t \in Imports(accepted) : Script[t].to = i
        BY <3>1 DEF Issuers
      <4>2. t \in accepted /\ t \in Step /\ Script[t].kind = "importC"
        BY <4>1 DEF Imports, OfKind, Placed, Txs
      <4>3. PICK j \in List : t = 2 * j + 1
        BY <2>2, <4>2, ThroughputKinds
      <4>4. Script[t].to = j
        BY <2>2, <4>3, ImportsOf
      <4> QED BY <4>1, <4>2, <4>3, <4>4
    <3>3. accepted \subseteq Step
      BY DEF Placed, Txs, OfKind
    <3>4. \A i \in List : spends[2 * i + 1] = {2 * i} /\ 2 * i \in accepted
      BY <2>2, <3>2, <3>3, EachSpendsItsExport
    <3>5. \A i \in List : CBalance(i, "AVAX") = ExportAmount
      BY <2>2, <3>2, <3>3, <3>4, FundedOnce
    <3>6. Txs \subseteq accepted
      <4> SUFFICES ASSUME NEW t \in Txs PROVE t \in accepted
        OBVIOUS
      <4>1. t \in Step /\ Script[t].kind \in XKinds \cup CKinds
        BY DEF Txs, OfKind
      <4>2. \E j \in List : t = 2 * j \/ t = 2 * j + 1
        BY <2>2, <4>1, ThroughputKinds DEF XKinds, CKinds
      <4> QED BY <3>2, <3>4, <4>2
    <3> QED BY <3>1, <3>5, <3>6
  <2> QED BY <2>1, <2>2 DEF Placed
<1> QED BY <1>1, Inductive, PTL

-----------------------------------------------------------------------------
\* The channel.

\* Nobody waits on the channel in vain: a goroutine with a result finds room for it,
\* and while the test waits for one, a goroutine is left that has yet to report.
ChannelServes ==
    /\ \A i \in List : issuer[i] \in {"ok", "error"} => Len(errs) < NumLists
    /\ Running /\ op.kind = "collect" /\ errs = <<>> =>
          \E i \in List : issuer[i] \in {"issuing", "ok", "error"}

\* While the test runs each result is on the channel or has been taken; all the goroutines
\* are launched, and the test takes no more results than there are goroutines.
Served ==
    /\ verdict = "running" => Len(errs) + received = Cardinality(Gone)
    /\ test = "throughput" /\ pc > 2 * NumLists + 2 => \A i \in List : issuer[i] # "off"
    /\ test = "throughput" /\ pc <= 2 * NumLists + 3 /\ verdict = "running" => received < NumLists

LEMMA ServedInit == Init => Served
<1> SUFFICES ASSUME Init PROVE Served
  OBVIOUS
<1>1. Gone = {}
  BY DEF Init, Gone
<1>2. Len(errs) = 0 /\ received = 0 /\ pc = 1
  BY DEF Init
<1>3. ~(pc > 2 * NumLists + 2) /\ received < NumLists
  BY <1>2, CChainAssumption
<1> QED BY <1>1, <1>2, <1>3, FS_EmptySet DEF Served

LEMMA ServedStep ==
  ASSUME IInv, Served, [Next]_vars
  PROVE  Served'
<1> USE DEF IInv
<1> DEFINE Kept == verdict = "running" => Len(errs) + received = Cardinality(Gone)
           Launched == test = "throughput" /\ pc > 2 * NumLists + 2 => \A i \in List : issuer[i] # "off"
           Short == test = "throughput" /\ pc <= 2 * NumLists + 3 /\ verdict = "running"
                       => received < NumLists
<1>1. /\ UNCHANGED test /\ pc \in Nat /\ NumLists \in Nat /\ NumLists > 0
      /\ Len(errs) \in Nat /\ received \in Nat
  BY Onward, Steps, CChainAssumption DEF Placed, Issuers
<1>2. ASSUME UNCHANGED issuer PROVE Gone' = Gone
  BY <1>2 DEF Gone
<1>3. ASSUME UNCHANGED <<pc, issuer, received, verdict, errs>> PROVE Served'
  BY <1>1, <1>2, <1>3 DEF Served
<1>4. CASE GoesOn
  <2>1. /\ pc \in Step /\ pc' = pc + 1 /\ UNCHANGED <<errs, received>> /\ verdict = "running"
        /\ op.kind \notin {"collect", "confirm"}
        /\ issuer' = IF op.kind = "launch" THEN [i \in List |-> "issuing"] ELSE issuer
    BY <1>4 DEF GoesOn, Running, Advance
  <2>2. op.kind = "launch" => test = "throughput" /\ pc = 2 * NumLists + 2
    BY <2>1, ThroughputKinds, AtomicKinds DEF Placed, op
  <2>3. test = "throughput" => /\ pc = 2 * NumLists + 2 => op.kind = "launch"
                              /\ pc # 2 * NumLists + 3
    BY <2>1, ThroughputKinds DEF op
  <2>4. Gone' = Gone
    <3>1. CASE op.kind = "launch"
      <4>1. \A i \in List : issuer[i] = "off" /\ issuer'[i] = "issuing"
        BY <1>1, <2>1, <2>2, <3>1 DEF Issuers
      <4> QED BY <4>1 DEF Gone
    <3>2. CASE op.kind # "launch"
      BY <1>2, <2>1, <3>2
    <3> QED BY <3>1, <3>2
  <2>5. Kept'
    BY <2>1, <2>4 DEF Served
  <2>6. Launched'
    <3> SUFFICES ASSUME test = "throughput", pc + 1 > 2 * NumLists + 2, NEW i \in List
                 PROVE  issuer'[i] # "off"
      BY <1>1, <2>1
    <3>1. CASE op.kind = "launch"
      BY <2>1, <3>1
    <3>2. CASE op.kind # "launch"
      <4>1. pc > 2 * NumLists + 2
        BY <1>1, <2>3, <3>2
      <4> QED BY <2>1, <3>2, <4>1 DEF Served
    <3> QED BY <3>1, <3>2
  <2>7. Short'
    BY <1>1, <2>1 DEF Served
  <2> QED BY <2>5, <2>6, <2>7 DEF Served
<1>5. CASE Stops
  <2>1. verdict' # "running" /\ UNCHANGED <<pc, issuer>>
    BY <1>5 DEF Stops, issuers
  <2> QED BY <1>1, <2>1 DEF Served
<1>6. CASE Receives
  <2>1. /\ pc \in Step /\ op.kind = "collect" /\ errs # <<>> /\ errs' = Tail(errs)
        /\ received' = received + 1 /\ UNCHANGED <<issuer, verdict>> /\ verdict = "running"
        /\ pc' = IF received + 1 = NumLists THEN pc + 1 ELSE pc
    BY <1>6 DEF Receives, Running, issuers
  <2>2. test = "throughput" /\ pc = 2 * NumLists + 3
    BY <2>1, ThroughputKinds, AtomicKinds DEF Placed, op
  <2>3. Len(errs') = Len(errs) - 1
    BY <2>1 DEF Issuers
  <2>4. Kept'
    BY <1>1, <1>2, <2>1, <2>3 DEF Served
  <2>5. Launched' /\ Short'
    BY <1>1, <2>1, <2>2 DEF Served
  <2> QED BY <2>4, <2>5 DEF Served
<1>7. CASE Issue \/ Terminated \/ UNCHANGED vars \/ Network
  <2>1. UNCHANGED <<pc, issuer, received, verdict, errs>>
    BY <1>7 DEF Issue, Terminated, Network, vars, main, issuers
  <2> QED BY <1>3, <2>1
<1>8. CASE Confirm
  <2>1. UNCHANGED <<pc, issuer, received, errs>> /\ verdict = "running"
    BY <1>8 DEF Confirm, At, Running, Quiet, issuers
  <2> QED BY <1>1, <1>2, <2>1 DEF Served
<1>9. ASSUME NEW i \in List, Issuer(i) PROVE Served'
  <2>1. UNCHANGED <<pc, received, verdict>> /\ verdict = "running"
    BY <1>9 DEF Issuer, SendTransaction, SendFails, ListIssued, Report, Issuing, main
  <2>2. CASE SendTransaction(i)
    <3>1. UNCHANGED <<issuer, errs>>
      BY <2>2 DEF SendTransaction
    <3> QED BY <1>3, <2>1, <3>1
  <2>3. CASE SendFails(i) \/ ListIssued(i)
    <3>1. /\ UNCHANGED errs /\ issuer[i] = "issuing"
          /\ \E s \in {"error", "ok"} : issuer' = [issuer EXCEPT ![i] = s]
      BY <2>3 DEF SendFails, ListIssued, Issuing
    <3>2. Gone' = Gone /\ \A k \in List : issuer[k] # "off" => issuer'[k] # "off"
      BY <3>1 DEF Gone, Issuers
    <3> QED BY <1>1, <2>1, <3>1, <3>2 DEF Served
  <2>4. CASE Report(i)
    <3>1. /\ issuer[i] \in {"ok", "error"} /\ errs' = Append(errs, issuer[i])
          /\ issuer' = [issuer EXCEPT ![i] = "gone"]
      BY <2>4 DEF Report
    <3>2. Gone' = Gone \cup {i} /\ i \notin Gone
          /\ \A k \in List : issuer[k] # "off" => issuer'[k] # "off"
      BY <3>1 DEF Gone, Issuers
    <3>3. Cardinality(Gone') = Cardinality(Gone) + 1
      BY <3>2, GoneIsFinite, FS_AddElement
    <3>4. Len(errs') = Len(errs) + 1
      BY <3>1 DEF Issuers
    <3>5. Kept'
      BY <1>1, <2>1, <3>3, <3>4 DEF Served
    <3>6. Launched' /\ Short'
      BY <1>1, <2>1, <3>2 DEF Served
    <3> QED BY <3>5, <3>6 DEF Served
  <2> QED BY <1>9, <2>2, <2>3, <2>4 DEF Issuer
<1> QED BY <1>4, <1>5, <1>6, <1>7, <1>8, <1>9, MainSteps DEF Next

\* A goroutine that is not gone leaves room for its result.
LEMMA RoomForResult ==
  ASSUME NEW i \in List, i \notin Gone
  PROVE  Cardinality(Gone) <= NumLists - 1
<1>1. IsFiniteSet(List) /\ Cardinality(List) = NumLists
  BY FS_Interval, CChainAssumption DEF List
<1>2. IsFiniteSet(List \ {i}) /\ Cardinality(List \ {i}) = NumLists - 1
  BY <1>1, FS_RemoveElement
<1>3. Gone \subseteq List \ {i}
  BY DEF Gone
<1> QED BY <1>2, <1>3, FS_Subset

\* No goroutine and no reader waits on the channel in vain, however many lists there are:
\* it has a place for every goroutine that is not gone, and a test that waits for a result
\* has taken fewer than it launched goroutines.
THEOREM ChannelSuffices == Spec => []ChannelServes
<1>1. IInv /\ Served /\ [Next]_vars => Served'
  BY ServedStep
<1>2. IInv /\ Served => ChannelServes
  <2> SUFFICES ASSUME IInv, Served PROVE ChannelServes
    OBVIOUS
  <2>1. ASSUME NEW i \in List, issuer[i] \in {"ok", "error"}
        PROVE  Len(errs) < NumLists
    <3>1. Cardinality(Gone) <= NumLists - 1
      BY <2>1, RoomForResult DEF Gone
    <3>2. /\ Len(errs) \in Nat /\ received \in Nat /\ Cardinality(Gone) \in Nat /\ NumLists \in Nat
          /\ Len(errs) + received <= Cardinality(Gone)
      BY GoneIsFinite, CChainAssumption DEF IInv, Issuers
    <3> QED BY <3>1, <3>2
  <2>2. ASSUME Running, op.kind = "collect", errs = <<>>
        PROVE  \E i \in List : issuer[i] \in {"issuing", "ok", "error"}
    <3>1. test = "throughput" /\ pc = 2 * NumLists + 3 /\ verdict = "running"
      BY <2>2, ThroughputKinds, AtomicKinds DEF IInv, Placed, Running, op
    <3>2. received < NumLists /\ \A i \in List : issuer[i] # "off"
      BY <3>1, CChainAssumption DEF Served
    <3>3. Cardinality(Gone) < NumLists
      <4>1. Len(errs) = 0
        BY <2>2
      <4> QED BY <3>1, <3>2, <4>1 DEF Served, IInv, Issuers
    <3>4. Gone # List
      BY <3>3, FS_Interval, CChainAssumption DEF List
    <3>5. PICK i \in List : issuer[i] # "gone"
      BY <3>4 DEF Gone
    <3> QED BY <3>2, <3>5 DEF IInv, Issuers
  <2> QED BY <2>1, <2>2 DEF ChannelServes
<1> QED BY <1>1, <1>2, Inductive, ServedInit, PTL DEF Spec

-----------------------------------------------------------------------------
\* On a prompt network.

\* What a transaction takes when everything before it is accepted.
Takes(t) == CASE Script[t].kind = "importC" -> IF test = "throughput" THEN {t - 1} ELSE {3, 4}
              [] Script[t].kind = "exportC" -> {t - 11}
              [] OTHER                      -> {}

\* What is issued is accepted before the test goes on, and takes what is its own.
Calm ==
    /\ pending \cup accepted = {t \in Txs : t < pc \/ (t = pc /\ phase = "await")}
    /\ pending \cap accepted = {} /\ pending \subseteq {pc}
    /\ \A t \in pending \cup accepted : spends[t] = Takes(t)

\* No goroutine fails, and after the pause everything is in blocks.
Busy ==
    /\ \A i \in List : /\ issuer[i] # "error"
                       /\ issuer[i] \in {"ok", "gone"} => issued[i] = NumTxs
    /\ errs \in Seq({"ok"})
    /\ test = "throughput" /\ pc > 2 * NumLists + 3 => received = NumLists
    /\ test = "throughput" /\ pc > 2 * NumLists + 4 => included = issued

\* The exports for the accounts are all of the same amount.
Sent == test = "throughput" =>
    Total(OfKind(accepted, {"exportX"})) = Cardinality(OfKind(accepted, {"exportX"})) * ExportAmount

Failed == verdict \in {"fail", "panic"} => test = "atomic" /\ pc = Len(Script) - 1 /\ phase = "ready"

Prompted == Sent /\ (prompt => Calm /\ Busy /\ Failed)

LEMMA ExportsSent ==
  ASSUME IInv, Sent, [Next]_vars
  PROVE  Sent'
<1> USE DEF IInv
<1> SUFFICES ASSUME test = "throughput" PROVE Sent'
  BY Onward DEF Sent
<1> DEFINE S == OfKind(accepted, {"exportX"})
<1>1. test' = test /\ Script' = Script /\ Step' = Step
  BY Onward, SameScript
<1>2. accepted \subseteq Step
  BY DEF Placed, Txs, OfKind
<1>3. IsFiniteSet(S) /\ Cardinality(S) \in Nat
  <2>1. S \subseteq Step /\ IsFiniteSet(Step)
    BY <1>2, Steps, FS_Interval DEF OfKind, Placed
  <2> QED BY <2>1, FS_Subset, FS_CardinalityType
<1>4. ASSUME OfKind(accepted, {"exportX"})' = S PROVE Sent'
  <2>1. Total(OfKind(accepted, {"exportX"}))' = Total(S)
    BY <1>1, <1>4 DEF Total
  <2> QED BY <1>4, <2>1 DEF Sent
<1>5. ASSUME NEW t \in pending, accepted' = accepted \cup {t} PROVE Sent'
  <2>1. t \in Step
    BY DEF Placed, Txs, OfKind
  <2>2. CASE t \in accepted \/ Script[t].kind # "exportX"
    <3>1. OfKind(accepted, {"exportX"})' = S
      BY <1>1, <1>5, <2>2 DEF OfKind
    <3> QED BY <1>4, <3>1
  <2>3. CASE t \notin accepted /\ Script[t].kind = "exportX"
    <3>1. OfKind(accepted, {"exportX"})' = S \cup {t} /\ t \notin S
      BY <1>1, <1>5, <2>3 DEF OfKind
    <3>2. Script[t].quantity = ExportAmount
      <4>1. PICK j \in List : t = 2 * j
        BY <2>1, <2>3, ThroughputKinds
      <4>2. Script[t] = Export("AVAX", ExportAmount)
        BY <4>1, ThroughputKinds
      <4> QED BY <4>2 DEF Export, Op
    <3>3. Total(S \cup {t}) = Total(S) + ExportAmount
      <4>1. S \subseteq Step /\ ExportAmount \in Nat
        BY <1>2, CChainAssumption DEF OfKind
      <4> HIDE DEF S
      <4> QED BY <2>1, <3>1, <3>2, <4>1, TotalWith DEF Placed
    <3>4. Cardinality(S \cup {t}) = Cardinality(S) + 1
      BY <1>3, <3>1, FS_AddElement
    <3>5. Total(OfKind(accepted, {"exportX"}))' = Total(S \cup {t})
      BY <1>1, <3>1 DEF Total
    <3>6. (Cardinality(S) + 1) * ExportAmount = Cardinality(S) * ExportAmount + ExportAmount
      BY <1>3, CChainAssumption
    <3>7. Total(S) = Cardinality(S) * ExportAmount
      BY DEF Sent
    <3>8. Total(S \cup {t}) = Cardinality(S \cup {t}) * ExportAmount
      <4> HIDE DEF S
      <4> QED BY <3>3, <3>4, <3>6, <3>7
    <3> QED BY <3>1, <3>5, <3>8 DEF Sent
  <2> QED BY <2>2, <2>3
<1>6. CASE accepted' = accepted
  BY <1>1, <1>4, <1>6 DEF OfKind
<1>7. accepted' = accepted \/ \E t \in pending : accepted' = accepted \cup {t}
  BY DEF Next, Main, CallReturns, RequestFails, Issue, AwaitX, AwaitXFails, AwaitC,
         SecondImportFails, SecondImportTaken, CheckPasses, CheckFails, Launch, Collect, Sleep,
         Confirm, ReceiptNotFound, Quiet, Network, Settle, Drop, Include, Issuer,
         SendTransaction, SendFails, ListIssued, Report, Terminated, vars, chains
<1> QED BY <1>5, <1>6, <1>7

\* There have been fewer exports than lists before each of them.
LEMMA FewerExports ==
  ASSUME IInv, test = "throughput", phase = "ready", NEW j \in List, pc = 2 * j
  PROVE  LET S == OfKind(accepted, {"exportX"})
         IN  Cardinality(S) \in Nat /\ Cardinality(S) <= j - 1
<1> USE DEF IInv
<1> DEFINE S == OfKind(accepted, {"exportX"})
           T == {2 * k : k \in 1..(j - 1)}
           f == [k \in 1..(j - 1) |-> 2 * k]
<1>1. j \in Nat /\ j >= 1 /\ NumLists \in Nat
  BY CChainAssumption DEF List
<1>2. f \in Surjection(1..(j - 1), T)
  BY DEF Surjection
<1>3. IsFiniteSet(1..(j - 1)) /\ Cardinality(1..(j - 1)) = j - 1
  BY <1>1, FS_Interval
<1>4. IsFiniteSet(T) /\ Cardinality(T) <= j - 1
  <2> HIDE DEF f, T
  <2> QED BY <1>2, <1>3, FS_Surjection
<1>5. S \subseteq T
  <2> SUFFICES ASSUME NEW t \in S PROVE t \in T
    OBVIOUS
  <2>1. t \in accepted /\ Script[t].kind = "exportX" /\ t \in Step /\ t < 2 * j
    BY DEF OfKind, Placed, Txs
  <2>2. PICK k \in List : t = 2 * k
    BY <2>1, ThroughputKinds
  <2>3. k \in 1..(j - 1)
    BY <1>1, <2>1, <2>2 DEF List
  <2> QED BY <2>2, <2>3
<1>6. IsFiniteSet(S) /\ Cardinality(S) <= Cardinality(T)
  <2> HIDE DEF S, T
  <2> QED BY <1>4, <1>5, FS_Subset
<1>7. Cardinality(S) \in Nat /\ Cardinality(T) \in Nat
  <2> HIDE DEF S, T
  <2> QED BY <1>4, <1>6, FS_CardinalityType
<1>8. Cardinality(S) <= j - 1
  <2> HIDE DEF S, T
  <2> QED BY <1>1, <1>4, <1>6, <1>7
<1> QED BY <1>7, <1>8

\* The genesis key can pay for the next account.
LEMMA ExportIsFunded ==
  ASSUME IInv, Sent, test = "throughput", phase = "ready", NEW j \in List, pc = 2 * j
  PROVE  XBalance("AVAX") >= ExportAmount
<1> USE DEF IInv
<1> DEFINE S == OfKind(accepted, {"exportX"})
           c == Cardinality(S)
<1>1. accepted \subseteq Step
  BY DEF Placed, Txs, OfKind
<1>2. /\ OfKind(accepted, XKinds) = S
      /\ OfKind(accepted, {"importX"}) = {}
  BY <1>1, ThroughputKinds DEF OfKind, XKinds
<1>3. OfAsset(S, "AVAX") = S
  <2> SUFFICES ASSUME NEW t \in S PROVE Script[t].asset = "AVAX"
    BY DEF OfAsset
  <2>1. t \in Step /\ Script[t].kind = "exportX"
    BY <1>1 DEF OfKind
  <2>2. PICK k \in List : t = 2 * k
    BY <2>1, ThroughputKinds
  <2>3. Script[t] = Export("AVAX", ExportAmount)
    BY <2>2, ThroughputKinds
  <2> QED BY <2>3 DEF Export, Op
<1>4. OfAsset({}, "AVAX") = {} /\ Total({}) = 0
  BY TotalOfNone DEF OfAsset, Placed
<1>5. XBalance("AVAX") = Funds + 0 - Total(S) - TxFee * c
  BY <1>2, <1>3, <1>4 DEF XBalance
<1>6. Total(S) = c * ExportAmount
  BY DEF Sent
<1>7. c \in Nat /\ c <= j - 1
  BY FewerExports
<1>8. PICK k \in Nat : NumLists = c + 1 + k
  <2> HIDE DEF c
  <2>1. j \in Nat /\ j <= NumLists /\ NumLists \in Nat
    BY CChainAssumption DEF List
  <2> QED BY <1>7, <2>1
<1> HIDE DEF c, S
<1>9. NumLists * (ExportAmount + TxFee)
        = c * ExportAmount + TxFee * c + ExportAmount + TxFee + k * (ExportAmount + TxFee)
  BY <1>7, <1>8, CChainAssumption
<1>10. /\ k * (ExportAmount + TxFee) \in Nat
       /\ c * ExportAmount \in Nat /\ TxFee * c \in Nat
  BY <1>7, CChainAssumption
<1> QED BY <1>5, <1>6, <1>9, <1>10, CChainAssumption


\* The transactions of the atomic workflow test, by what they are and how much they move.
LEMMA AtomicTxs ==
  ASSUME test = "atomic", NEW S, S \subseteq Txs
  PROVE  /\ Txs = {2, 3, 4, 5, 11, 12, 15}
         /\ OfKind(S, {"create"}) = S \cap {2} /\ OfKind(S, {"exportX"}) = S \cap {3, 4}
         /\ OfKind(S, {"importC"}) = S \cap {5} /\ OfKind(S, {"exportC"}) = S \cap {11, 12}
         /\ OfKind(S, {"importX"}) = S \cap {15} /\ OfKind(S, XKinds) = S \cap {2, 3, 4, 15}
<1>1. Txs = {2, 3, 4, 5, 11, 12, 15}
  <2>1. \A t \in Step : Script[t].kind \in XKinds \cup CKinds <=> t \in {2, 3, 4, 5, 11, 12, 15}
    <3>1. \A t \in Step :
             /\ Script[t].kind \in XKinds <=> t \in {2, 3, 4, 15}
             /\ Script[t].kind \in CKinds <=> t \in {5, 11, 12}
      BY AtomicKinds DEF XKinds, CKinds
    <3> QED BY <3>1
  <2>2. {2, 3, 4, 5, 11, 12, 15} \subseteq Step
    BY AtomicKinds
  <2> QED BY <2>1, <2>2 DEF Txs, OfKind
<1>2. S \subseteq Step
  BY DEF Txs, OfKind
<1>3. \A t \in S :
         /\ Script[t].kind \in {"create"} <=> t = 2
         /\ Script[t].kind \in {"exportX"} <=> t \in {3, 4}
         /\ Script[t].kind \in {"importC"} <=> t = 5
         /\ Script[t].kind \in {"exportC"} <=> t \in {11, 12}
         /\ Script[t].kind \in {"importX"} <=> t = 15
         /\ Script[t].kind \in XKinds <=> t \in {2, 3, 4, 15}
  BY <1>2, AtomicKinds DEF XKinds
<1>4. /\ OfKind(S, {"create"}) = S \cap {2} /\ OfKind(S, {"exportX"}) = S \cap {3, 4}
      /\ OfKind(S, {"importC"}) = S \cap {5} /\ OfKind(S, {"exportC"}) = S \cap {11, 12}
  BY <1>3 DEF OfKind
<1>5. OfKind(S, {"importX"}) = S \cap {15} /\ OfKind(S, XKinds) = S \cap {2, 3, 4, 15}
  BY <1>3 DEF OfKind
<1> QED BY <1>1, <1>4, <1>5

LEMMA AtomicAmounts ==
  ASSUME test = "atomic"
  PROVE  /\ Script[2].asset = "asset" /\ Script[3].asset = "AVAX" /\ Script[4].asset = "asset"
         /\ Script[11].asset = "AVAX" /\ Script[12].asset = "asset"
         /\ Total({}) = 0 /\ Total({2}) = AssetAmount
         /\ Total({3}) = ExportAmount /\ Total({4}) = AssetAmount - AssetKept
         /\ Total({11}) = ExportAmount /\ Total({12}) = AssetAmount - AssetKept
<1>1. /\ Script[2] = Op("create", "asset", AssetAmount, Key)
      /\ Script[3] = Export("AVAX", ExportAmount)
      /\ Script[4] = Export("asset", AssetAmount - AssetKept)
      /\ Script[11] = ExportBack("AVAX", ExportAmount)
      /\ Script[12] = ExportBack("asset", AssetAmount - AssetKept)
  BY AtomicKinds, AtomicScript
<1>2. {2, 3, 4, 11, 12} \subseteq Step
  BY AtomicKinds
<1>3. \A t \in Step : Script[t].quantity \in Nat => Total({t}) = Script[t].quantity
  BY TotalOfOne
<1>4. /\ Script[2].asset = "asset" /\ Script[3].asset = "AVAX" /\ Script[4].asset = "asset"
      /\ Script[11].asset = "AVAX" /\ Script[12].asset = "asset"
  BY <1>1 DEF Op, Export, ExportBack
<1>5. /\ Script[2].quantity = AssetAmount
      /\ Script[3].quantity = ExportAmount /\ Script[4].quantity = AssetAmount - AssetKept
      /\ Script[11].quantity = ExportAmount /\ Script[12].quantity = AssetAmount - AssetKept
  BY <1>1 DEF Op, Export, ExportBack
<1>6. AssetAmount \in Nat /\ ExportAmount \in Nat /\ AssetAmount - AssetKept \in Nat
  BY CChainAssumption
<1> QED BY <1>2, <1>3, <1>4, <1>5, <1>6, TotalOfNone

\* What the genesis key has on the X-Chain.
LEMMA AtomicXBalance ==
  ASSUME test = "atomic", accepted \subseteq Txs
  PROVE  /\ XBalance("AVAX") = Funds + Total(IF 15 \in accepted THEN accepted \cap {11} ELSE {})
                               - Total(accepted \cap {3})
                               - TxFee * Cardinality(accepted \cap {2, 3, 4, 15})
         /\ XBalance("asset") = Total(accepted \cap {2})
                                + Total(IF 15 \in accepted THEN accepted \cap {12} ELSE {})
                                - Total(accepted \cap {4}) - 0
<1>1. /\ OfKind(accepted, {"create"}) = accepted \cap {2}
      /\ OfKind(accepted, {"exportX"}) = accepted \cap {3, 4}
      /\ OfKind(accepted, {"exportC"}) = accepted \cap {11, 12}
      /\ OfKind(accepted, {"importX"}) = accepted \cap {15}
      /\ OfKind(accepted, XKinds) = accepted \cap {2, 3, 4, 15}
  BY AtomicTxs
<1>2. /\ OfAsset(accepted \cap {3, 4}, "AVAX") = accepted \cap {3}
      /\ OfAsset(accepted \cap {3, 4}, "asset") = accepted \cap {4}
      /\ OfAsset(accepted \cap {11, 12}, "AVAX") = accepted \cap {11}
      /\ OfAsset(accepted \cap {11, 12}, "asset") = accepted \cap {12}
      /\ OfAsset({}, "AVAX") = {} /\ OfAsset({}, "asset") = {}
  BY AtomicAmounts DEF OfAsset
<1> DEFINE back == IF OfKind(accepted, {"importX"}) = {} THEN {} ELSE OfKind(accepted, {"exportC"})
<1>3. /\ OfAsset(back, "AVAX") = IF 15 \in accepted THEN accepted \cap {11} ELSE {}
      /\ OfAsset(back, "asset") = IF 15 \in accepted THEN accepted \cap {12} ELSE {}
  <2>1. back = IF 15 \in accepted THEN accepted \cap {11, 12} ELSE {}
    BY <1>1
  <2> QED BY <1>2, <2>1
<1>4. XBalance("AVAX") = Funds + Total(OfAsset(back, "AVAX"))
                         - Total(OfAsset(OfKind(accepted, {"exportX"}), "AVAX"))
                         - TxFee * Cardinality(OfKind(accepted, XKinds))
  BY DEF XBalance
<1>5. XBalance("asset") = Total(OfKind(accepted, {"create"})) + Total(OfAsset(back, "asset"))
                          - Total(OfAsset(OfKind(accepted, {"exportX"}), "asset")) - 0
  BY DEF XBalance
<1> HIDE DEF back
<1> QED BY <1>1, <1>2, <1>3, <1>4, <1>5

LEMMA Fees ==
  /\ Cardinality({}) = 0 /\ Cardinality({2}) = 1 /\ Cardinality({2, 3, 4}) = 3
  /\ Cardinality({2, 3, 4, 15}) = 4
<1>1. IsFiniteSet({2}) /\ Cardinality({2}) = 1
  BY FS_Singleton
<1>2. IsFiniteSet({2} \cup {3}) /\ Cardinality({2} \cup {3}) = 2
  BY <1>1, FS_AddElement
<1>3. IsFiniteSet({2} \cup {3} \cup {4}) /\ Cardinality({2} \cup {3} \cup {4}) = 3
  BY <1>2, FS_AddElement
<1>4. Cardinality(({2} \cup {3} \cup {4}) \cup {15}) = 4
  BY <1>3, FS_AddElement
<1>5. {2} \cup {3} \cup {4} = {2, 3, 4} /\ {2, 3, 4} \cup {15} = {2, 3, 4, 15}
  OBVIOUS
<1> QED BY <1>1, <1>3, <1>4, <1>5, FS_EmptySet

\* What is accepted when a step of the atomic workflow test is taken.
LEMMA AtomicAccepted ==
  ASSUME IInv, Calm, test = "atomic", phase = "ready", pc \in Step
  PROVE  /\ pending = {} /\ accepted \subseteq Txs
         /\ accepted = {t \in {2, 3, 4, 5, 11, 12, 15} : t < pc}
         /\ 5 \in accepted => spends[5] = {3, 4}
         /\ 11 \in accepted => spends[11] = {0}
<1> USE DEF IInv
<1>1. pc \in Nat
  BY Steps DEF Placed
<1>2. pending \cup accepted = {t \in Txs : t < pc}
  BY DEF Calm
<1>3. pc \notin {t \in Txs : t < pc}
  BY <1>1
<1>4. pending = {}
  BY <1>2, <1>3 DEF Calm
<1>5. Txs = {2, 3, 4, 5, 11, 12, 15}
  BY AtomicTxs
<1>6. Script[5].kind = "importC" /\ Script[11].kind = "exportC"
  BY AtomicKinds
<1>7. Takes(5) = {3, 4} /\ Takes(11) = {0}
  <2>1. Takes(5) = IF test = "throughput" THEN {5 - 1} ELSE {3, 4}
    BY <1>6 DEF Takes
  <2>2. Takes(11) = {11 - 11}
    BY <1>6 DEF Takes
  <2> QED BY <2>1, <2>2
<1> QED BY <1>2, <1>4, <1>5, <1>7 DEF Calm


\* Every balance the atomic workflow test reads is the expected one, but for its last
\* reading of AVAX.
LEMMA AtomicReadings ==
  ASSUME IInv, Calm, test = "atomic", phase = "ready", pc \in Step,
         op.kind \in {"checkX", "checkC"}, pc # 16
  PROVE  Found = op.quantity
<1>1. pc \in {7, 8, 9, 10, 13, 14, 17} /\ Script = AtomicWorkflow
  BY AtomicKinds DEF op
<1>2. /\ accepted \subseteq Txs /\ accepted = {t \in {2, 3, 4, 5, 11, 12, 15} : t < pc}
      /\ 5 \in accepted => spends[5] = {3, 4}
  BY AtomicAccepted
<1>3. /\ ExportAmount \in Nat /\ AssetAmount \in Nat /\ AssetKept \in Nat
      /\ Funds \in Nat /\ TxFee \in Nat
  BY CChainAssumption
<1>4. /\ CBalance(Key, "AVAX") = Total(IF 5 \in accepted THEN OfAsset({3, 4}, "AVAX") ELSE {})
                                 - Total(OfAsset(accepted \cap {11, 12}, "AVAX"))
      /\ CBalance(Key, "asset") = Total(IF 5 \in accepted THEN OfAsset({3, 4}, "asset") ELSE {})
                                  - Total(OfAsset(accepted \cap {11, 12}, "asset"))
  BY <1>2, AtomicCBalance
<1>5. /\ OfAsset({3, 4}, "AVAX") = {3} /\ OfAsset({3, 4}, "asset") = {4}
      /\ OfAsset({11, 12}, "AVAX") = {11} /\ OfAsset({11, 12}, "asset") = {12}
      /\ OfAsset({}, "AVAX") = {} /\ OfAsset({}, "asset") = {}
  BY AtomicAmounts DEF OfAsset
<1>6. CASE pc \in {7, 8}
  <2>1. accepted = {2, 3, 4, 5}
    BY <1>2, <1>6
  <2>2. accepted \cap {3} = {3} /\ accepted \cap {4} = {4} /\ accepted \cap {2} = {2}
        /\ accepted \cap {2, 3, 4, 15} = {2, 3, 4} /\ 15 \notin accepted
    BY <2>1
  <2>3. XBalance("AVAX") = Funds + 0 - ExportAmount - TxFee * 3
    <3>1. /\ Total(accepted \cap {3}) = ExportAmount /\ Cardinality(accepted \cap {2, 3, 4, 15}) = 3
          /\ Total(IF 15 \in accepted THEN accepted \cap {11} ELSE {}) = 0
      BY <2>2, AtomicAmounts, Fees
    <3> QED BY <1>2, <3>1, AtomicXBalance
  <2>4. XBalance("asset") = AssetAmount + 0 - (AssetAmount - AssetKept) - 0
    BY <1>2, <2>2, AtomicXBalance, AtomicAmounts
  <2>5. /\ pc = 7 => op = CheckX("AVAX", Funds - 3 * TxFee - ExportAmount)
        /\ pc = 8 => op = CheckX("asset", AssetKept)
    BY <1>1, AtomicScript DEF op
  <2>6. CASE pc = 7
    <3>1. op.kind = "checkX" /\ op.asset = "AVAX" /\ op.quantity = Funds - 3 * TxFee - ExportAmount
      BY <2>5, <2>6 DEF CheckX, Op
    <3> QED BY <1>3, <2>3, <3>1 DEF Found
  <2>7. CASE pc = 8
    <3>1. op.kind = "checkX" /\ op.asset = "asset" /\ op.quantity = AssetKept
      BY <2>5, <2>7 DEF CheckX, Op
    <3> QED BY <1>3, <2>4, <3>1 DEF Found
  <2> QED BY <1>6, <2>6, <2>7
<1>7. CASE pc \in {9, 10}
  <2>1. 5 \in accepted /\ accepted \cap {11, 12} = {}
    BY <1>2, <1>7
  <2>2. CBalance(Key, "AVAX") = ExportAmount - 0
    <3>1. /\ OfAsset(accepted \cap {11, 12}, "AVAX") = {}
          /\ (IF 5 \in accepted THEN OfAsset({3, 4}, "AVAX") ELSE {}) = {3}
      BY <1>5, <2>1
    <3> QED BY <1>4, <3>1, AtomicAmounts
  <2>3. CBalance(Key, "asset") = (AssetAmount - AssetKept) - 0
    <3>1. /\ OfAsset(accepted \cap {11, 12}, "asset") = {}
          /\ (IF 5 \in accepted THEN OfAsset({3, 4}, "asset") ELSE {}) = {4}
      BY <1>5, <2>1
    <3> QED BY <1>4, <3>1, AtomicAmounts
  <2>4. /\ pc = 9 => op = CheckC("AVAX", ExportAmount)
        /\ pc = 10 => op = CheckC("asset", AssetAmount - AssetKept)
    BY <1>1, AtomicScript DEF op
  <2>5. CASE pc = 9
    <3>1. op.kind = "checkC" /\ op.asset = "AVAX" /\ op.quantity = ExportAmount
      BY <2>4, <2>5 DEF CheckC, Op
    <3> QED BY <1>3, <2>2, <3>1 DEF Found
  <2>6. CASE pc = 10
    <3>1. op.kind = "checkC" /\ op.asset = "asset" /\ op.quantity = AssetAmount - AssetKept
      BY <2>4, <2>6 DEF CheckC, Op
    <3> QED BY <1>3, <2>3, <3>1 DEF Found
  <2> QED BY <1>7, <2>5, <2>6
<1>8. CASE pc \in {13, 14}
  <2>1. 5 \in accepted /\ accepted \cap {11, 12} = {11, 12}
    BY <1>2, <1>8
  <2>2. CBalance(Key, "AVAX") = ExportAmount - ExportAmount
    <3>1. /\ OfAsset(accepted \cap {11, 12}, "AVAX") = {11}
          /\ (IF 5 \in accepted THEN OfAsset({3, 4}, "AVAX") ELSE {}) = {3}
      BY <1>5, <2>1
    <3> QED BY <1>4, <3>1, AtomicAmounts
  <2>3. CBalance(Key, "asset") = (AssetAmount - AssetKept) - (AssetAmount - AssetKept)
    <3>1. /\ OfAsset(accepted \cap {11, 12}, "asset") = {12}
          /\ (IF 5 \in accepted THEN OfAsset({3, 4}, "asset") ELSE {}) = {4}
      BY <1>5, <2>1
    <3> QED BY <1>4, <3>1, AtomicAmounts
  <2>4. /\ pc = 13 => op = CheckC("AVAX", 0)
        /\ pc = 14 => op = CheckC("asset", 0)
    BY <1>1, AtomicScript DEF op
  <2>5. CASE pc = 13
    <3>1. op.kind = "checkC" /\ op.asset = "AVAX" /\ op.quantity = 0
      BY <2>4, <2>5 DEF CheckC, Op
    <3> QED BY <1>3, <2>2, <3>1 DEF Found
  <2>6. CASE pc = 14
    <3>1. op.kind = "checkC" /\ op.asset = "asset" /\ op.quantity = 0
      BY <2>4, <2>6 DEF CheckC, Op
    <3> QED BY <1>3, <2>3, <3>1 DEF Found
  <2> QED BY <1>8, <2>5, <2>6
<1>9. CASE pc = 17
  <2>1. accepted \cap {2} = {2} /\ accepted \cap {12} = {12} /\ accepted \cap {4} = {4}
        /\ 15 \in accepted
    BY <1>2, <1>9
  <2>2. XBalance("asset") = AssetAmount + (AssetAmount - AssetKept) - (AssetAmount - AssetKept) - 0
    BY <1>2, <2>1, AtomicXBalance, AtomicAmounts
  <2>3. op = CheckX("asset", AssetAmount)
    BY <1>1, <1>9, AtomicScript DEF op
  <2>4. op.kind = "checkX" /\ op.asset = "asset" /\ op.quantity = AssetAmount
    BY <2>3 DEF CheckX, Op
  <2> QED BY <1>3, <2>2, <2>4 DEF Found
<1> QED BY <1>1, <1>6, <1>7, <1>8, <1>9

\* The node has the funds for every transaction when it is asked for it.
LEMMA AtomicFunds ==
  ASSUME IInv, Calm, test = "atomic", phase = "ready", pc \in Txs
  PROVE  Buildable
<1>1. pc \in {2, 3, 4, 5, 11, 12, 15} /\ Script = AtomicWorkflow /\ pc \in Step
  BY AtomicTxs, AtomicKinds DEF Txs, OfKind
<1>2. /\ accepted \subseteq Txs /\ accepted = {t \in {2, 3, 4, 5, 11, 12, 15} : t < pc}
      /\ 5 \in accepted => spends[5] = {3, 4}
  BY <1>1, AtomicAccepted
<1>3. /\ ExportAmount \in Nat /\ AssetAmount \in Nat /\ AssetKept \in Nat /\ AssetKept < AssetAmount
      /\ Funds \in Nat /\ TxFee \in Nat /\ Funds >= 3 * TxFee + ExportAmount
  BY CChainAssumption
<1>4. \A a : CBalance(Key, a) = Total(IF 5 \in accepted THEN OfAsset({3, 4}, a) ELSE {})
                                - Total(OfAsset(accepted \cap {11, 12}, a))
  BY <1>2, AtomicCBalance
<1>5. /\ OfAsset({3, 4}, "AVAX") = {3} /\ OfAsset({3, 4}, "asset") = {4}
      /\ OfAsset({11}, "asset") = {} /\ OfAsset({}, "AVAX") = {}
  BY AtomicAmounts DEF OfAsset
<1>6. CASE pc = 2
  <2>1. accepted = {}
    BY <1>2, <1>6
  <2>2. accepted \cap {3} = {} /\ accepted \cap {2, 3, 4, 15} = {} /\ 15 \notin accepted
    BY <2>1
  <2>3. XBalance("AVAX") = Funds + 0 - 0 - TxFee * 0
    <3>1. /\ Total(accepted \cap {3}) = 0 /\ Cardinality(accepted \cap {2, 3, 4, 15}) = 0
          /\ Total(IF 15 \in accepted THEN accepted \cap {11} ELSE {}) = 0
      BY <2>2, AtomicAmounts, Fees
    <3> QED BY <1>2, <3>1, AtomicXBalance
  <2>4. op.kind = "create"
    BY <1>1, <1>6, AtomicKinds DEF op
  <2> QED BY <1>3, <2>3, <2>4 DEF Buildable
<1>7. CASE pc = 3
  <2>1. accepted = {2}
    BY <1>2, <1>7
  <2>2. accepted \cap {3} = {} /\ accepted \cap {2, 3, 4, 15} = {2} /\ 15 \notin accepted
    BY <2>1
  <2>3. XBalance("AVAX") = Funds + 0 - 0 - TxFee * 1
    <3>1. /\ Total(accepted \cap {3}) = 0 /\ Cardinality(accepted \cap {2, 3, 4, 15}) = 1
          /\ Total(IF 15 \in accepted THEN accepted \cap {11} ELSE {}) = 0
      BY <2>2, AtomicAmounts, Fees
    <3> QED BY <1>2, <3>1, AtomicXBalance
  <2>4. op = Export("AVAX", ExportAmount)
    BY <1>1, <1>7, AtomicScript DEF op
  <2>5. op.kind = "exportX" /\ op.asset = "AVAX" /\ op.quantity = ExportAmount
    BY <2>4 DEF Export, Op
  <2> QED BY <1>3, <2>3, <2>5 DEF Buildable
<1>8. CASE pc = 4
  <2>1. accepted = {2, 3}
    BY <1>2, <1>8
  <2>2. accepted \cap {2} = {2} /\ accepted \cap {4} = {} /\ 15 \notin accepted
    BY <2>1
  <2>3. XBalance("asset") = AssetAmount + 0 - 0 - 0
    BY <1>2, <2>2, AtomicXBalance, AtomicAmounts
  <2>4. op = Export("asset", AssetAmount - AssetKept)
    BY <1>1, <1>8, AtomicScript DEF op
  <2>5. op.kind = "exportX" /\ op.asset = "asset" /\ op.quantity = AssetAmount - AssetKept
    BY <2>4 DEF Export, Op
  <2> QED BY <1>3, <2>3, <2>5 DEF Buildable
<1>9. CASE pc = 5
  <2>1. accepted = {2, 3, 4}
    BY <1>2, <1>9
  <2>2. OfKind(accepted, {"importC"}) = {} /\ OfKind(accepted, {"exportX"}) = {3, 4}
    BY <1>2, <2>1, AtomicTxs
  <2>3. Exported # {}
    BY <2>2 DEF Exported
  <2>4. op.kind = "importC"
    BY <1>1, <1>9, AtomicKinds DEF op
  <2> QED BY <2>3, <2>4 DEF Buildable
<1>10. CASE pc = 11
  <2>1. 5 \in accepted /\ accepted \cap {11, 12} = {}
    BY <1>2, <1>10
  <2>2. CBalance(Key, "AVAX") = ExportAmount - 0
    BY <1>4, <1>5, <2>1, AtomicAmounts
  <2>3. op = ExportBack("AVAX", ExportAmount)
    BY <1>1, <1>10, AtomicScript DEF op
  <2>4. op.kind = "exportC" /\ op.asset = "AVAX" /\ op.quantity = ExportAmount
    BY <2>3 DEF ExportBack, Op
  <2> QED BY <1>3, <2>2, <2>4 DEF Buildable
<1>11. CASE pc = 12
  <2>1. 5 \in accepted /\ accepted \cap {11, 12} = {11}
    BY <1>2, <1>11
  <2>2. CBalance(Key, "asset") = (AssetAmount - AssetKept) - 0
    <3>1. /\ OfAsset(accepted \cap {11, 12}, "asset") = {}
          /\ (IF 5 \in accepted THEN OfAsset({3, 4}, "asset") ELSE {}) = {4}
      BY <1>5, <2>1
    <3> QED BY <1>4, <3>1, AtomicAmounts
  <2>3. op = ExportBack("asset", AssetAmount - AssetKept)
    BY <1>1, <1>11, AtomicScript DEF op
  <2>4. op.kind = "exportC" /\ op.asset = "asset" /\ op.quantity = AssetAmount - AssetKept
    BY <2>3 DEF ExportBack, Op
  <2> QED BY <1>3, <2>2, <2>4 DEF Buildable
<1>12. CASE pc = 15
  <2>1. 11 \in OfKind(accepted, {"exportC"})
    BY <1>2, <1>12, AtomicTxs
  <2>2. op.kind = "importX"
    BY <1>1, <1>12, AtomicKinds DEF op
  <2> QED BY <2>1, <2>2 DEF Buildable
<1> QED BY <1>1, <1>6, <1>7, <1>8, <1>9, <1>10, <1>11, <1>12


LEMMA ReadyAccepted ==
  ASSUME IInv, Calm, phase = "ready"
  PROVE  pending = {} /\ accepted = {t \in Txs : t < pc} /\ accepted \subseteq Txs
<1>1. pc \in Nat /\ pending \cup accepted = {t \in Txs : t < pc}
  BY Steps DEF IInv, Placed, Calm
<1>2. pc \notin {t \in Txs : t < pc}
  BY <1>1
<1> QED BY <1>1, <1>2 DEF Calm

\* Where a throughput test imports, there is one export to spend.
LEMMA OneExport ==
  ASSUME IInv, Calm, test = "throughput", phase = "ready", NEW j \in List, pc = 2 * j + 1
  PROVE  Exported = {2 * j}
<1>1. accepted = {t \in Txs : t < 2 * j + 1} /\ accepted \subseteq Step
  BY ReadyAccepted DEF Txs, OfKind
<1>2. \A k \in List : k \in Nat /\ 2 * k \in Txs /\ 2 * k + 1 \in Txs
  <2>1. \A k \in List : k \in Nat
    BY DEF List
  <2>2. \A k \in List : /\ 2 * k \in Step /\ Script[2 * k].kind = "exportX"
                        /\ 2 * k + 1 \in Step /\ Script[2 * k + 1].kind = "importC"
    BY ThroughputKinds
  <2> QED BY <2>1, <2>2 DEF Txs, OfKind, XKinds, CKinds
<1>3. ASSUME NEW t \in OfKind(accepted, {"importC"})
      PROVE  \E k \in List : t = 2 * k + 1 /\ k < j /\ spends[t] = {2 * k}
  <2>1. t \in accepted /\ t \in Step /\ Script[t].kind = "importC" /\ t < 2 * j + 1
    BY <1>1 DEF OfKind
  <2>2. PICK k \in List : t = 2 * k + 1
    BY <2>1, ThroughputKinds
  <2>3. k < j
    BY <1>2, <2>1, <2>2
  <2>4. Takes(t) = {t - 1}
    BY <2>1 DEF Takes
  <2>5. spends[t] = {2 * k}
    BY <1>2, <2>1, <2>2, <2>4 DEF Calm
  <2> QED BY <2>2, <2>3, <2>5
<1>4. 2 * j \in Exported
  <2>1. 2 * j \in OfKind(accepted, {"exportX"})
    <3>1. 2 * j \in accepted
      BY <1>1, <1>2
    <3> QED BY <3>1, ThroughputKinds DEF OfKind
  <2>2. \A t \in OfKind(accepted, {"importC"}) : 2 * j \notin spends[t]
    BY <1>2, <1>3
  <2> QED BY <2>1, <2>2 DEF Exported
<1>5. ASSUME NEW e \in Exported PROVE e = 2 * j
  <2>1. e \in accepted /\ e \in Step /\ Script[e].kind = "exportX" /\ e < 2 * j + 1
        /\ \A t \in OfKind(accepted, {"importC"}) : e \notin spends[t]
    BY <1>1 DEF Exported, OfKind
  <2>2. PICK k \in List : e = 2 * k
    BY <2>1, ThroughputKinds
  <2>3. ASSUME k # j PROVE FALSE
    <3>1. k < j /\ 2 * k + 1 < 2 * j + 1
      BY <1>2, <2>1, <2>2, <2>3
    <3>2. 2 * k + 1 \in OfKind(accepted, {"importC"})
      <4>1. 2 * k + 1 \in accepted
        BY <1>1, <1>2, <3>1
      <4> QED BY <4>1, ThroughputKinds DEF OfKind
    <3>3. PICK l \in List : 2 * k + 1 = 2 * l + 1 /\ spends[2 * k + 1] = {2 * l}
      BY <1>3, <3>2
    <3>4. l = k
      BY <1>2, <3>3
    <3> QED BY <2>1, <2>2, <3>2, <3>3, <3>4
  <2> QED BY <2>2, <2>3
<1> QED BY <1>4, <1>5

\* The atomic workflow test's one import takes both exports.
LEMMA AtomicInputs ==
  ASSUME IInv, Calm, test = "atomic", phase = "ready", pc \in Step
  PROVE  /\ pc = 5 => Exported = {3, 4}
         /\ pc = 6 => Exported = {}
         /\ pc = 11 => Cardinality(OfKind(accepted, {"exportC"})) = 0
         /\ pc = 12 => Cardinality(OfKind(accepted, {"exportC"})) = 1
<1>1. /\ accepted \subseteq Txs /\ accepted = {t \in {2, 3, 4, 5, 11, 12, 15} : t < pc}
      /\ 5 \in accepted => spends[5] = {3, 4}
  BY AtomicAccepted
<1>2. /\ OfKind(accepted, {"exportX"}) = accepted \cap {3, 4}
      /\ OfKind(accepted, {"importC"}) = accepted \cap {5}
      /\ OfKind(accepted, {"exportC"}) = accepted \cap {11, 12}
  BY <1>1, AtomicTxs
<1>3. CASE pc = 5
  <2>1. OfKind(accepted, {"exportX"}) = {3, 4} /\ OfKind(accepted, {"importC"}) = {}
    BY <1>1, <1>2, <1>3
  <2> QED BY <1>3, <2>1 DEF Exported
<1>4. CASE pc = 6
  <2>1. OfKind(accepted, {"exportX"}) = {3, 4} /\ OfKind(accepted, {"importC"}) = {5}
        /\ spends[5] = {3, 4}
    BY <1>1, <1>2, <1>4
  <2> QED BY <1>4, <2>1 DEF Exported
<1>5. CASE pc = 11
  <2>1. OfKind(accepted, {"exportC"}) = {}
    BY <1>1, <1>2, <1>5
  <2> QED BY <1>5, <2>1, FS_EmptySet
<1>6. CASE pc = 12
  <2>1. OfKind(accepted, {"exportC"}) = {11}
    BY <1>1, <1>2, <1>6
  <2> QED BY <1>6, <2>1, FS_Singleton
<1> QED BY <1>3, <1>4, <1>5, <1>6

\* On a prompt network no transaction finds the node short of funds, and each takes its own.
LEMMA NeverShort ==
  ASSUME IInv, Sent, Calm, phase = "ready", pc \in Txs
  PROVE  Buildable /\ Inputs = Takes(pc)
<1>1. pc \in Step /\ op.kind \in XKinds \cup CKinds /\ op = Script[pc]
  BY DEF Txs, OfKind, op
<1>2. CASE test = "throughput"
  <2>1. op.kind \in {"exportX", "importC"}
    BY <1>1, <1>2, ThroughputKinds DEF XKinds, CKinds
  <2>2. CASE op.kind = "exportX"
    <3>1. PICK j \in List : pc = 2 * j
      BY <1>1, <1>2, <2>2, ThroughputKinds
    <3>2. XBalance("AVAX") >= ExportAmount
      BY <1>2, <3>1, ExportIsFunded
    <3>3. op = Export("AVAX", ExportAmount)
      BY <1>1, <1>2, <3>1, ThroughputKinds
    <3>4. op.asset = "AVAX" /\ op.quantity = ExportAmount
      BY <3>3 DEF Export, Op
    <3>5. Buildable
      BY <2>2, <3>2, <3>4 DEF Buildable
    <3>6. Inputs = {} /\ Takes(pc) = {}
      BY <1>1, <2>2 DEF Inputs, Takes
    <3> QED BY <3>5, <3>6
  <2>3. CASE op.kind = "importC"
    <3>1. PICK j \in List : pc = 2 * j + 1
      BY <1>1, <1>2, <2>3, ThroughputKinds
    <3>2. Exported = {2 * j}
      BY <1>2, <3>1, OneExport
    <3>3. Takes(pc) = {pc - 1} /\ pc - 1 = 2 * j
      BY <1>1, <1>2, <2>3, <3>1 DEF Takes, List
    <3> QED BY <2>3, <3>2, <3>3 DEF Buildable, Inputs
  <2> QED BY <2>1, <2>2, <2>3
<1>3. CASE test = "atomic"
  <2>1. Buildable
    BY <1>3, AtomicFunds
  <2>2. CASE op.kind = "importC"
    <3>1. pc = 5
      BY <1>1, <1>3, <2>2, AtomicKinds
    <3> QED BY <1>1, <1>3, <2>1, <2>2, <3>1, AtomicInputs DEF Inputs, Takes
  <2>3. CASE op.kind = "exportC"
    <3>1. pc \in {11, 12}
      BY <1>1, <1>3, <2>3, AtomicKinds
    <3>2. Inputs = {pc - 11}
      BY <1>1, <1>3, <2>3, <3>1, AtomicInputs DEF Inputs
    <3>3. Takes(pc) = {pc - 11}
      BY <1>1, <2>3 DEF Takes
    <3> QED BY <2>1, <3>2, <3>3
  <2>4. CASE op.kind \notin {"importC", "exportC"}
    BY <1>1, <2>1, <2>4 DEF Inputs, Takes
  <2> QED BY <2>2, <2>3, <2>4
<1> QED BY <1>2, <1>3 DEF IInv, Placed


\* When every result is in, every goroutine is gone.
LEMMA AllGone ==
  ASSUME IInv, received = NumLists
  PROVE  \A i \in List : issuer[i] = "gone"
<1>1. Len(errs) \in Nat /\ Cardinality(Gone) >= NumLists
  BY GoneIsFinite, CChainAssumption DEF IInv, Issuers
<1>2. IsFiniteSet(List) /\ Cardinality(List) = NumLists
  BY FS_Interval, CChainAssumption DEF List
<1>3. Gone \in SUBSET List /\ Cardinality(Gone) = Cardinality(List)
  BY <1>1, <1>2, GoneIsFinite, CChainAssumption DEF Gone
<1>4. List = Gone
  BY <1>2, <1>3, FS_Subset
<1> QED BY <1>4 DEF Gone

\* A goroutine that issues has an account with what one export has brought.
LEMMA AccountsAreFunded ==
  ASSUME IInv, Calm, NEW i \in List, issuer[i] # "off"
  PROVE  CBalance(i, "AVAX") = ExportAmount
<1>1. test = "throughput" /\ pc > 2 * NumLists + 2 /\ pc \in Nat
  BY Steps DEF IInv, Placed, Issuers
<1>2. 2 * i + 1 \in Step /\ Script[2 * i + 1].kind = "importC"
  BY <1>1, ThroughputKinds
<1>3. 2 * i + 1 \in Txs /\ 2 * i + 1 < pc /\ i \in Nat
  <2>1. i \in Nat /\ i <= NumLists /\ NumLists \in Nat
    BY CChainAssumption DEF List
  <2> QED BY <1>1, <1>2, <2>1 DEF Txs, OfKind, CKinds
<1>4. 2 * i + 1 \in accepted
  BY <1>1, <1>3 DEF Calm
<1>5. spends[2 * i + 1] = {2 * i}
  <2>1. Takes(2 * i + 1) = {(2 * i + 1) - 1}
    BY <1>1, <1>2 DEF Takes
  <2> QED BY <1>3, <1>4, <2>1 DEF Calm
<1>6. accepted \subseteq Step
  BY DEF IInv, Placed, Txs, OfKind
<1> QED BY <1>1, <1>4, <1>5, <1>6, FundedOnce

\* The receipts of a prompt network are there.
LEMMA ReceiptIsThere ==
  ASSUME IInv, Calm, Busy, verdict = "running", pc \in Step, op.kind = "confirm"
  PROVE  ~(NextTx > included[NextList])
<1>1. test = "throughput"
  BY AtomicKinds DEF op, IInv, Placed
<1>2. pc = 2 * NumLists + 5 /\ pc > 2 * NumLists + 3 /\ pc > 2 * NumLists + 4
  BY <1>1, ThroughputKinds, CChainAssumption DEF op
<1>3. received = NumLists /\ included = issued
  BY <1>1, <1>2 DEF Busy
<1>4. \A i \in List : included[i] = NumTxs
  BY <1>3, AllGone DEF Busy
<1>5. NextTx \in Nat /\ NextTx <= NumTxs /\ NextList \in List
  <2>1. confirmed \in Nat /\ confirmed < NumLists * NumTxs
    BY DEF IInv, Receipts
  <2>2. NumTxs \in Nat /\ NumTxs > 0 /\ NumLists \in Nat
    BY CChainAssumption
  <2> DEFINE q == confirmed \div NumTxs
             r == confirmed % NumTxs
  <2>3. q \in Int /\ r \in 0..(NumTxs - 1) /\ confirmed = NumTxs * q + r
    BY <2>1, <2>2
  <2>4. q >= 0
    BY <2>1, <2>2
  <2>5. q < NumLists
    <3> HIDE DEF q, r
    <3> SUFFICES ASSUME q >= NumLists PROVE FALSE
      BY <2>2, <2>3
    <3>1. PICK k \in Nat : q = NumLists + k
      BY <2>2, <2>3
    <3>2. NumTxs * q = NumLists * NumTxs + k * NumTxs /\ k * NumTxs \in Nat
      BY <2>2, <3>1
    <3>3. NumLists * NumTxs \in Nat
      BY <2>2
    <3> QED BY <2>1, <2>3, <3>2, <3>3
  <2>6. NextList = q + 1 /\ NextTx = r + 1
    BY DEF NextList, NextTx
  <2> HIDE DEF q, r
  <2> QED BY <2>2, <2>3, <2>4, <2>5, <2>6 DEF List
<1> QED BY <1>4, <1>5, CChainAssumption

\* What the steps of the test come to on a prompt network: it goes on with what it issued
\* accepted, and stops only at the last reading of AVAX of the atomic workflow test.
PromptGoesOn ==
    /\ GoesOn
    /\ pc \in Txs => pc \in accepted /\ pending = {}
    /\ op.kind = "sleep" => Settled

PromptStops == Stops /\ test = "atomic" /\ pc = Len(Script) - 1 /\ phase = "ready"

LEMMA PromptSteps ==
  ASSUME IInv, Sent, Calm, Busy, prompt, Main
  PROVE  PromptGoesOn \/ PromptStops \/ Receives \/ Issue \/ Confirm
<1> USE DEF IInv
<1>1. phase = "await" => pc \in pending \cup accepted
  BY DEF Placed, Calm
<1>2. pending \cap accepted = {} /\ pending \subseteq {pc}
  BY DEF Calm
<1>3. CASE CallReturns \/ SecondImportFails \/ CheckPasses \/ Launch
  <2>1. GoesOn /\ op.kind \notin XKinds \cup CKinds /\ op.kind # "sleep"
    BY <1>3 DEF CallReturns, SecondImportFails, CheckPasses, Launch, At, Quiet, issuers, GoesOn,
                OfKind, XKinds, CKinds, op
  <2> QED BY <2>1 DEF PromptGoesOn, Txs, OfKind, op
<1>4. CASE Sleep
  <2>1. GoesOn /\ op.kind = "sleep" /\ Settled
    BY <1>4 DEF Sleep, At, Quiet, issuers, GoesOn, OfKind, XKinds, op
  <2> QED BY <2>1 DEF PromptGoesOn, Txs, OfKind, op, XKinds, CKinds
<1>5. CASE AwaitX
  <2>1. GoesOn /\ op.kind # "sleep" /\ pc \in accepted
    BY <1>5 DEF AwaitX, InAwait, Quiet, issuers, GoesOn, OfKind, XKinds, op
  <2> QED BY <1>2, <2>1 DEF PromptGoesOn
<1>6. CASE AwaitC
  <2>1. GoesOn /\ op.kind # "sleep" /\ pending = {} /\ phase = "await"
    BY <1>6 DEF AwaitC, InAwait, Quiet, issuers, GoesOn, OfKind, XKinds, CKinds, op, Settled
  <2> QED BY <1>1, <2>1 DEF PromptGoesOn
<1>7. CASE RequestFails
  <2>1. phase = "ready" /\ pc \in Txs /\ ~Buildable
    BY <1>7 DEF RequestFails, At, Running, Txs, OfKind, op
  <2> QED BY <2>1, NeverShort
<1>8. CASE AwaitXFails
  BY <1>8 DEF AwaitXFails
<1>9. CASE SecondImportTaken
  <2>1. phase = "ready" /\ pc \in Step /\ op.kind = "importAgain" /\ Exported # {}
    BY <1>9 DEF SecondImportTaken, At, Running
  <2>2. test = "atomic"
    BY <2>1, ThroughputKinds DEF Placed, op
  <2>3. pc = 6
    BY <2>1, <2>2, AtomicKinds DEF op
  <2> QED BY <2>1, <2>2, <2>3, AtomicInputs
<1>10. CASE CheckFails
  <2>1. /\ phase = "ready" /\ pc \in Step /\ op.kind \in {"checkX", "checkC"}
        /\ Found # op.quantity /\ Stops
    BY <1>10 DEF CheckFails, At, Running, EndWith, Quiet, Stops
  <2>2. test = "atomic"
    BY <2>1, ThroughputKinds DEF Placed, op
  <2>3. pc = 16 /\ Len(Script) = 17
    BY <2>1, <2>2, AtomicReadings, AtomicKinds
  <2> QED BY <2>1, <2>2, <2>3 DEF PromptStops
<1>11. CASE ReceiptNotFound
  <2>1. verdict = "running" /\ pc \in Step /\ op.kind = "confirm" /\ NextTx > included[NextList]
    BY <1>11 DEF ReceiptNotFound, At, Running
  <2> QED BY <2>1, ReceiptIsThere
<1>12. CASE Collect
  <2>1. errs # <<>> /\ errs \in Seq({"ok"})
    BY <1>12 DEF Collect, Busy
  <2>2. Head(errs) = "ok"
    BY <2>1
  <2> QED BY <1>12, <2>2 DEF Collect, At, Received, Receives
<1> QED BY <1>3, <1>4, <1>5, <1>6, <1>7, <1>8, <1>9, <1>10, <1>11, <1>12 DEF Main


\* Two transactions of one kind take nothing of each other's.
LEMMA TakesApart ==
  ASSUME test \in {"throughput", "atomic"}, NEW t \in Step, NEW u \in Step, t # u,
         Script[t].kind = Script[u].kind
  PROVE  Takes(t) \cap Takes(u) = {}
<1>1. t \in Nat /\ u \in Nat
  BY Steps
<1>2. CASE Script[t].kind = "importC"
  <2>1. test = "throughput"
    <3>1. Script[u].kind = "importC"
      BY <1>2
    <3>2. test = "atomic" => t = 5 /\ u = 5
      BY <1>2, <3>1, AtomicKinds
    <3> QED BY <3>2
  <2>2. Takes(t) = {t - 1} /\ Takes(u) = {u - 1}
    BY <1>2, <2>1 DEF Takes
  <2> QED BY <1>1, <2>2
<1>3. CASE Script[t].kind = "exportC"
  <2>1. Takes(t) = {t - 11} /\ Takes(u) = {u - 11}
    BY <1>3 DEF Takes
  <2> QED BY <1>1, <2>1
<1>4. CASE Script[t].kind \notin {"importC", "exportC"}
  <2>1. Takes(t) = {}
    BY <1>4 DEF Takes
  <2> QED BY <2>1
<1> QED BY <1>2, <1>3, <1>4

LEMMA CalmStep ==
  ASSUME IInv, Sent, Calm, Busy, prompt, [Next]_vars
  PROVE  Calm'
<1> USE DEF IInv
<1>1. /\ UNCHANGED <<test, prompt>> /\ Script' = Script /\ Step' = Step /\ Txs' = Txs
      /\ pc \in Nat /\ \A t \in Txs : t \in Nat /\ t \in Step /\ t \in 1..MaxStep
  <2>1. UNCHANGED <<test, prompt>> /\ Script' = Script /\ Step' = Step /\ Txs' = Txs
    BY Onward, SameScript
  <2>2. Len(Script) \in Nat /\ MaxStep \in Nat /\ Len(Script) <= MaxStep /\ Step = 1..Len(Script)
    BY Steps DEF Placed
  <2>3. pc \in Nat /\ \A t \in Step : t \in Nat /\ t \in 1..MaxStep
    BY <2>2 DEF Placed
  <2>4. Txs \subseteq Step
    BY DEF Txs, OfKind
  <2> QED BY <2>1, <2>3, <2>4
<1>2. \A t : Takes(t)' = Takes(t)
  BY <1>1 DEF Takes
<1>3. ASSUME UNCHANGED <<pc, phase, pending, accepted, spends>> PROVE Calm'
  BY <1>1, <1>2, <1>3 DEF Calm
<1>4. CASE PromptGoesOn
  <2>1. /\ pc' = pc + 1 /\ phase' = "ready" /\ UNCHANGED <<pending, accepted, spends>>
        /\ pc \in Txs => pc \in accepted /\ pending = {}
    BY <1>4 DEF PromptGoesOn, GoesOn, Advance, chains
  <2>2. phase = "await" => pc \in Txs
    BY DEF Placed
  <2>3. pending = {}
    <3>1. \A t \in pending : t = pc /\ t \in Txs
      BY DEF Calm
    <3> QED BY <2>1, <3>1
  <2>4. accepted = {t \in Txs : t < pc + 1}
    <3>1. accepted = {t \in Txs : t < pc \/ (t = pc /\ phase = "await")}
      BY <2>3 DEF Calm
    <3>2. \A t \in Txs : t < pc + 1 <=> t < pc \/ t = pc
      BY <1>1
    <3>3. pc \in Txs => pc \in accepted
      BY <2>1
    <3> QED BY <3>1, <3>2, <3>3
  <2>5. {t \in Txs' : t < pc' \/ (t = pc' /\ phase' = "await")} = {t \in Txs : t < pc + 1}
    BY <1>1, <2>1
  <2> QED BY <1>2, <2>1, <2>3, <2>4, <2>5 DEF Calm
<1>5. CASE PromptStops \/ Confirm
  BY <1>3, <1>5 DEF PromptStops, Stops, Confirm, Quiet, chains
<1>6. CASE Receives
  <2>1. /\ pc' \in {pc, pc + 1} /\ phase' = "ready" /\ phase = "ready" /\ op.kind = "collect"
        /\ UNCHANGED <<pending, accepted, spends>>
    BY <1>6 DEF Receives, chains
  <2>2. pc \notin Txs
    BY <2>1 DEF Txs, OfKind, op, XKinds, CKinds
  <2>3. pending = {} /\ accepted = {t \in Txs : t < pc}
    BY <2>1, ReadyAccepted
  <2>4. \A t \in Txs : t < pc <=> t < pc'
    BY <1>1, <2>1, <2>2
  <2>5. accepted = {t \in Txs' : t < pc' \/ (t = pc' /\ phase' = "await")}
    BY <1>1, <2>1, <2>3, <2>4
  <2> QED BY <1>2, <2>1, <2>3, <2>5 DEF Calm
<1>7. CASE Issue
  <2>1. /\ phase = "ready" /\ phase' = "await" /\ pc' = pc /\ pc \in Txs
        /\ pending' = pending \cup {pc} /\ accepted' = accepted
        /\ spends' = [spends EXCEPT ![pc] = Inputs]
    BY <1>7 DEF Issue, At, Running, Txs, OfKind, op
  <2>2. pending = {} /\ accepted = {t \in Txs : t < pc}
    BY <2>1, ReadyAccepted
  <2>3. spends'[pc] = Takes(pc)
    BY <1>1, <2>1, NeverShort DEF Spent
  <2>4. \A t \in accepted : t # pc /\ spends'[t] = spends[t]
    BY <1>1, <2>1, <2>2 DEF Spent
  <2>5. pending' \cup accepted' = {t \in Txs' : t < pc' \/ (t = pc' /\ phase' = "await")}
    BY <1>1, <2>1, <2>2
  <2> QED BY <1>2, <2>1, <2>2, <2>3, <2>4, <2>5 DEF Calm
<1>8. CASE Network
  <2>1. UNCHANGED <<pc, phase, spends>>
    BY <1>8 DEF Network, main, Settle, Drop, Include
  <2>2. ASSUME NEW t \in pending, Settle(t) PROVE Calm'
    <3>1. pending' \cup accepted' = pending \cup accepted /\ pending' \subseteq pending
          /\ pending' \cap accepted' = {}
      BY <2>2 DEF Settle, Calm
    <3> QED BY <1>1, <1>2, <2>1, <3>1 DEF Calm
  <2>3. ASSUME NEW t \in pending, Drop(t) PROVE FALSE
    <3>1. ~Valid(t)
      BY <2>3 DEF Drop
    <3>2. PICK u \in accepted : Script[u].kind = Script[t].kind /\ spends[u] \cap spends[t] # {}
      BY <3>1 DEF Valid, OfKind
    <3>3. t # u /\ t \in Txs /\ u \in Txs
      BY DEF Calm
    <3>4. spends[t] = Takes(t) /\ spends[u] = Takes(u)
      BY DEF Calm
    <3> QED BY <1>1, <3>2, <3>3, <3>4, TakesApart DEF Placed
  <2>4. ASSUME NEW i \in List, Include(i) PROVE Calm'
    BY <1>3, <2>1, <2>4 DEF Include
  <2> QED BY <1>8, <2>2, <2>3, <2>4 DEF Network
<1>9. CASE (\E i \in List : Issuer(i)) \/ Terminated \/ UNCHANGED vars
  <2>1. UNCHANGED <<pc, phase, pending, accepted, spends>>
    BY <1>9 DEF Issuer, SendTransaction, SendFails, ListIssued, Report, Terminated, vars, main,
                chains
  <2> QED BY <1>3, <2>1
<1> QED BY <1>4, <1>5, <1>6, <1>7, <1>8, <1>9, PromptSteps DEF Next

LEMMA BusyStep ==
  ASSUME IInv, Sent, Calm, Busy, prompt, [Next]_vars
  PROVE  Busy'
<1> USE DEF IInv
<1> DEFINE Done == \A i \in List : /\ issuer[i] # "error"
                                   /\ issuer[i] \in {"ok", "gone"} => issued[i] = NumTxs
           Collected == test = "throughput" /\ pc > 2 * NumLists + 3 => received = NumLists
           InBlocks == test = "throughput" /\ pc > 2 * NumLists + 4 => included = issued
<1>1. /\ UNCHANGED <<test, prompt>> /\ pc \in Nat /\ NumLists \in Nat
      /\ pc > 2 * NumLists + 4 => pc > 2 * NumLists + 3
  <2>1. UNCHANGED <<test, prompt>>
    BY Onward
  <2>2. pc \in Nat /\ NumLists \in Nat
    BY Steps, CChainAssumption DEF Placed
  <2> QED BY <2>1, <2>2
<1>2. ASSUME UNCHANGED <<pc, received>> PROVE Collected'
  BY <1>1, <1>2 DEF Busy
<1>3. ASSUME UNCHANGED <<pc, issued, included>> PROVE InBlocks'
  BY <1>1, <1>3 DEF Busy
<1>4. ASSUME UNCHANGED <<issuer, issued>> PROVE Done'
  BY <1>4 DEF Busy
<1>5. CASE PromptGoesOn
  <2>1. /\ pc \in Step /\ pc' = pc + 1 /\ UNCHANGED <<issued, included, errs, received>>
        /\ op.kind \notin {"collect", "confirm"} /\ (op.kind = "sleep" => included = issued)
        /\ issuer' = issuer \/ issuer' = [i \in List |-> "issuing"]
    BY <1>5 DEF PromptGoesOn, GoesOn, Running, Advance, chains, Settled
  <2>2. Done'
    BY <2>1 DEF Busy
  <2>3. ASSUME test = "throughput"
        PROVE  /\ pc' > 2 * NumLists + 3 => pc > 2 * NumLists + 3
               /\ pc' > 2 * NumLists + 4 => included = issued
    <3>1. /\ op.kind = "collect" <=> pc = 2 * NumLists + 3
          /\ op.kind = "sleep" <=> pc = 2 * NumLists + 4
          /\ op.kind = "confirm" <=> pc = 2 * NumLists + 5
          /\ pc \in 1..(2 * NumLists + 5)
      BY <2>1, <2>3, ThroughputKinds DEF op
    <3>2. pc # 2 * NumLists + 3 /\ pc # 2 * NumLists + 5 /\ pc <= 2 * NumLists + 5 /\ pc' = pc + 1
      BY <1>1, <2>1, <3>1
    <3>3. pc' > 2 * NumLists + 3 => pc > 2 * NumLists + 3
      BY <1>1, <3>2
    <3>4. pc' > 2 * NumLists + 4 => pc = 2 * NumLists + 4
      BY <1>1, <3>2
    <3> QED BY <2>1, <3>1, <3>3, <3>4
  <2>4. Collected'
    BY <1>1, <2>1, <2>3 DEF Busy
  <2>5. InBlocks'
    BY <1>1, <2>1, <2>3
  <2> QED BY <2>1, <2>2, <2>4, <2>5 DEF Busy
<1>6. CASE PromptStops
  <2>1. UNCHANGED <<pc, received, issuer, issued, included>>
        /\ (errs' = errs \/ (errs # <<>> /\ errs' = Tail(errs)))
    BY <1>6 DEF PromptStops, Stops, chains, issuers
  <2>2. errs' \in Seq({"ok"})
    <3>1. errs \in Seq({"ok"})
      BY DEF Busy
    <3>2. errs # <<>> => Tail(errs) \in Seq({"ok"})
      BY <3>1
    <3> QED BY <2>1, <3>1, <3>2
  <2> QED BY <1>2, <1>3, <1>4, <2>1, <2>2 DEF Busy
<1>7. CASE Receives
  <2>1. /\ pc \in Step /\ op.kind = "collect" /\ errs # <<>> /\ errs' = Tail(errs)
        /\ received' = received + 1 /\ UNCHANGED <<issuer, issued, included>>
        /\ pc' = IF received + 1 = NumLists THEN pc + 1 ELSE pc
    BY <1>7 DEF Receives, Running, chains, issuers
  <2>2. test = "throughput" => pc = 2 * NumLists + 3
    BY <2>1, ThroughputKinds DEF op
  <2>3. errs' \in Seq({"ok"})
    <3>1. errs \in Seq({"ok"})
      BY DEF Busy
    <3> QED BY <2>1, <3>1
  <2>4. Collected' /\ InBlocks'
    BY <1>1, <2>1, <2>2 DEF Busy
  <2> QED BY <1>4, <2>1, <2>3, <2>4 DEF Busy
<1>8. CASE Issue \/ Confirm \/ Terminated \/ UNCHANGED vars
  <2>1. UNCHANGED <<pc, received, issuer, issued, included, errs>>
    BY <1>8 DEF Issue, Confirm, Terminated, Quiet, vars, main, chains, issuers
  <2> QED BY <1>2, <1>3, <1>4, <2>1 DEF Busy
<1>9. CASE Network
  <2>1. UNCHANGED <<pc, received, issuer, issued, errs>>
    BY <1>9 DEF Network, main, issuers
  <2>2. included' = included \/ \E i \in List : Include(i)
    BY <1>9 DEF Network, Settle, Drop
  <2>3. ASSUME NEW i \in List, Include(i), test = "throughput", pc > 2 * NumLists + 4
        PROVE  FALSE
    <3>1. included[i] = issued[i] /\ included[i] < issued[i] /\ issued[i] \in 0..NumTxs
      BY <2>3 DEF Busy, Include, Issuers
    <3> QED BY <3>1, CChainAssumption
  <2>4. InBlocks'
    BY <1>1, <1>3, <2>1, <2>2, <2>3
  <2> QED BY <1>2, <1>4, <2>1, <2>4 DEF Busy
<1>10. ASSUME NEW i \in List, Issuer(i)
       PROVE  Busy'
  <2>1. UNCHANGED <<pc, received, included>> /\ verdict = "running"
    BY <1>10 DEF Issuer, SendTransaction, SendFails, ListIssued, Report, Issuing, main, chains
  <2>2. CASE SendTransaction(i)
    <3>1. /\ issuer[i] = "issuing" /\ issued' = [issued EXCEPT ![i] = @ + 1]
          /\ UNCHANGED <<issuer, errs>>
      BY <2>2 DEF SendTransaction, Issuing
    <3>2. Done'
      BY <3>1 DEF Busy, Issuers
    <3>3. ~(test = "throughput" /\ pc > 2 * NumLists + 4)
      BY <1>1, <3>1, AllGone DEF Busy
    <3>4. InBlocks'
      BY <1>1, <2>1, <3>3
    <3> QED BY <1>2, <2>1, <3>1, <3>2, <3>4 DEF Busy
  <2>3. CASE SendFails(i)
    <3>1. issuer[i] = "issuing" /\ CBalance(i, "AVAX") = 0
      BY <2>3 DEF SendFails, Issuing
    <3>2. CBalance(i, "AVAX") = ExportAmount
      BY <3>1, AccountsAreFunded
    <3> QED BY <3>1, <3>2, CChainAssumption
  <2>4. CASE ListIssued(i)
    <3>1. /\ issued[i] = NumTxs /\ issuer' = [issuer EXCEPT ![i] = "ok"]
          /\ UNCHANGED <<issued, errs>>
      <4>1. issued[i] >= NumTxs /\ issued[i] \in 0..NumTxs
        BY <2>4 DEF ListIssued, Issuers
      <4>2. issued[i] = NumTxs
        BY <4>1, CChainAssumption
      <4> QED BY <2>4, <4>2 DEF ListIssued
    <3>2. Done'
      BY <3>1 DEF Busy, Issuers
    <3> QED BY <1>2, <1>3, <2>1, <3>1, <3>2 DEF Busy
  <2>5. CASE Report(i)
    <3>1. /\ issuer[i] = "ok" /\ issuer' = [issuer EXCEPT ![i] = "gone"]
          /\ errs' = Append(errs, issuer[i]) /\ UNCHANGED issued
      BY <2>5 DEF Report, Busy
    <3>2. Done'
      BY <3>1 DEF Busy, Issuers
    <3>3. errs' \in Seq({"ok"})
      <4>1. errs \in Seq({"ok"})
        BY DEF Busy
      <4>2. Append(errs, "ok") \in Seq({"ok"})
        BY <4>1
      <4> QED BY <3>1, <4>2
    <3> QED BY <1>2, <1>3, <2>1, <3>1, <3>2, <3>3 DEF Busy
  <2> QED BY <1>10, <2>2, <2>3, <2>4, <2>5 DEF Issuer
<1> QED BY <1>5, <1>6, <1>7, <1>8, <1>9, <1>10, PromptSteps DEF Next

LEMMA FailedStep ==
  ASSUME IInv, Sent, Calm, Busy, Failed, prompt, [Next]_vars
  PROVE  Failed'
<1>1. UNCHANGED test /\ Script' = Script
  BY Onward, SameScript
<1>2. ASSUME UNCHANGED <<verdict, pc, phase>> PROVE Failed'
  BY <1>1, <1>2 DEF Failed
<1>3. ASSUME verdict' \notin {"fail", "panic"} PROVE Failed'
  BY <1>3 DEF Failed
<1>4. CASE PromptStops
  <2>1. UNCHANGED <<pc, phase>>
    BY <1>4 DEF PromptStops, Stops
  <2> QED BY <1>1, <1>4, <2>1 DEF PromptStops, Failed
<1>5. CASE PromptGoesOn \/ Receives \/ Issue \/ Confirm
  BY <1>3, <1>5 DEF PromptGoesOn, GoesOn, Advance, Receives, Issue, Confirm, At, Running
<1>6. CASE Network \/ (\E i \in List : Issuer(i)) \/ Terminated \/ UNCHANGED vars
  <2>1. UNCHANGED <<verdict, pc, phase>>
    BY <1>6 DEF Network, Issuer, SendTransaction, SendFails, ListIssued, Report, Terminated, vars,
                main
  <2> QED BY <1>2, <2>1
<1> QED BY <1>4, <1>5, <1>6, PromptSteps DEF Next

LEMMA PromptedInit == Init => Prompted
<1> SUFFICES ASSUME Init PROVE Prompted
  OBVIOUS
<1>1. /\ test \in {"throughput", "atomic"} /\ pc = 1 /\ phase = "ready" /\ verdict = "running"
      /\ pending = {} /\ accepted = {} /\ errs = <<>> /\ received = 0
  BY DEF Init
<1>2. OfKind(accepted, {"exportX"}) = {}
  BY <1>1 DEF OfKind
<1>3. Sent
  <2>1. Total({}) = 0 /\ Cardinality({}) = 0 /\ 0 * ExportAmount = 0
    BY <1>1, TotalOfNone, FS_EmptySet, CChainAssumption
  <2> QED BY <1>2, <2>1 DEF Sent
<1>4. \A t \in Txs : ~(t < pc \/ (t = pc /\ phase = "await"))
  BY <1>1, Steps DEF Txs, OfKind
<1>5. Calm
  BY <1>1, <1>4 DEF Calm
<1>6. Busy
  <2>1. \A i \in List : issuer[i] = "off"
    BY DEF Init
  <2>2. ~(pc > 2 * NumLists + 3) /\ ~(pc > 2 * NumLists + 4)
    BY <1>1, CChainAssumption
  <2>3. errs \in Seq({"ok"})
    BY <1>1
  <2> QED BY <2>1, <2>2, <2>3 DEF Busy
<1>7. Failed
  BY <1>1 DEF Failed
<1> QED BY <1>3, <1>5, <1>6, <1>7 DEF Prompted

\* On a prompt network nothing is short of funds, no goroutine fails and no receipt is
\* missing, whatever the amounts: the throughput test passes, and the atomic workflow test
\* fails only at its last reading of AVAX, with everything accepted.
THEOREM PromptPasses == Spec => []PromptSucceeds
<1>1. IInv /\ Prompted /\ [Next]_vars => Prompted'
  <2> SUFFICES ASSUME IInv, Prompted, [Next]_vars PROVE Prompted'
    OBVIOUS
  <2>1. UNCHANGED prompt
    BY Onward
  <2> QED BY <2>1, ExportsSent, CalmStep, BusyStep, FailedStep DEF Prompted
<1>2. IInv /\ Prompted => PromptSucceeds
  <2> SUFFICES ASSUME IInv, Prompted, prompt, verdict \in {"fail", "panic"}
               PROVE  test = "atomic" /\ pc = Len(Script) - 1 /\ Txs \subseteq accepted
    BY DEF PromptSucceeds
  <2>1. test = "atomic" /\ pc = Len(Script) - 1 /\ phase = "ready"
    BY DEF Prompted, Failed
  <2>2. pc = 16 /\ pc \in Step
    <3>1. Len(Script) = 17 /\ Step = 1..17
      BY <2>1, AtomicKinds
    <3> QED BY <2>1, <3>1
  <2>3. accepted = {t \in {2, 3, 4, 5, 11, 12, 15} : t < pc} /\ Txs = {2, 3, 4, 5, 11, 12, 15}
    BY <2>1, <2>2, AtomicAccepted, AtomicTxs DEF Prompted
  <2> QED BY <2>1, <2>2, <2>3
<1> QED BY <1>1, <1>2, Inductive, PromptedInit, PTL DEF Spec

-----------------------------------------------------------------------------
\* On any network.

\* The expectation of the last reading of AVAX is never met: the transactions of the
\* X-Chain are accepted by then, and the readings before have shown the AVAX exported back.
LEMMA LastReading ==
  ASSUME IInv, test = "atomic", pc = 16
  PROVE  op.kind = "checkX" /\ Found # op.quantity
<1> USE DEF IInv
<1>1. Step = 1..17 /\ op = CheckX("AVAX", Funds - 3 * TxFee - ExportAmount - TxFee)
  BY AtomicKinds, AtomicScript DEF op
<1>2. /\ op.kind = "checkX" /\ op.asset = "AVAX"
      /\ op.quantity = Funds - 3 * TxFee - ExportAmount - TxFee
  BY <1>1 DEF CheckX, Op
<1>3. accepted \subseteq Txs
  BY DEF Placed
<1>4. \A t \in {2, 3, 4, 15} : t \in OfKind(Step, XKinds)
  BY <1>1, AtomicKinds DEF OfKind, XKinds
<1>5. {2, 3, 4, 15} \subseteq accepted /\ 11 \in accepted
  BY <1>4 DEF Awaited, Read
<1>6. accepted \cap {3} = {3} /\ accepted \cap {11} = {11}
      /\ accepted \cap {2, 3, 4, 15} = {2, 3, 4, 15} /\ 15 \in accepted
  BY <1>5
<1>7. XBalance("AVAX") = Funds + ExportAmount - ExportAmount - TxFee * 4
  <2>1. /\ Total(accepted \cap {3}) = ExportAmount /\ Cardinality(accepted \cap {2, 3, 4, 15}) = 4
        /\ Total(IF 15 \in accepted THEN accepted \cap {11} ELSE {}) = ExportAmount
    BY <1>6, AtomicAmounts, Fees
  <2> QED BY <1>3, <2>1, AtomicXBalance
<1>8. Funds \in Nat /\ TxFee \in Nat /\ ExportAmount \in Nat /\ ExportAmount > 0
  BY CChainAssumption
<1> QED BY <1>2, <1>7, <1>8 DEF Found

\* The atomic workflow test has not passed.
AtomicNeverPasses == test = "atomic" => verdict # "pass"

\* The atomic workflow test never passes, on any network and for any amounts that the
\* genesis key can pay: it gets no further than its last reading of AVAX.
THEOREM NeverPasses == Spec => []AtomicNeverPasses
<1> DEFINE Held == test = "atomic" => pc <= 16
<1>1. Init => Held
  BY DEF Init
<1>2. IInv /\ Held /\ [Next]_vars => Held'
  <2> SUFFICES ASSUME IInv, Held, [Next]_vars, test' = "atomic" PROVE pc' <= 16
    OBVIOUS
  <2>1. test = "atomic" /\ pc \in Nat /\ pc <= 16
    BY Onward, Steps DEF IInv, Placed
  <2>2. ASSUME pc = 16, pc' = pc + 1 PROVE FALSE
    <3>1. op.kind = "checkX" /\ Found # op.quantity
      BY <2>1, <2>2, LastReading
    <3> QED BY <2>2, <3>1, Onward DEF GoesOn, Receives
  <2> QED BY <2>1, <2>2, Onward
<1>3. IInv /\ Held => AtomicNeverPasses
  <2> SUFFICES ASSUME IInv, Held, test = "atomic", verdict = "pass" PROVE FALSE
    BY DEF AtomicNeverPasses
  <2>1. Len(Script) = 17 /\ pc = Len(Script) + 1
    BY AtomicKinds DEF IInv, Receipts
  <2> QED BY <2>1
<1> QED BY <1>1, <1>2, <1>3, Inductive, PTL DEF Spec

=============================================================================
