-------------------------- MODULE Statistics_proofs --------------------------
(***************************************************************************)
(* Proofs about the record of an analyst, for records of any length: the    *)
(* streaks are the longest stretches, and the parts add up to the whole.    *)
(***************************************************************************)
EXTENDS MCPredictions, SumTheorems

(* What performance.ts is given: whole numbers, and a profit only where a   *)
(* prediction was decided.                                                 *)
Statuses == {"PENDING", "WON", "LOST", "VOID", "PUSH"}

IsRecord(r) ==
  /\ r.status \in Statuses
  /\ r.oddsMilli \in Nat /\ r.stakeUnitsCenti \in Int /\ r.profitUnitsCenti \in Int
  /\ ~Decided(r) => r.profitUnitsCenti = 0

IsHistory(records) == \E S : (\A r \in S : IsRecord(r)) /\ records \in Seq(S)

LEMMA HistoryTyped ==
  ASSUME NEW records, IsHistory(records)
  PROVE  /\ Len(records) \in Nat /\ DOMAIN records = 1..Len(records)
         /\ \A i \in DOMAIN records : IsRecord(records[i])
  BY DEF IsHistory

(* A loop over the records finds a function of its counter.                 *)
Looped(it, n, b, step) ==
  it = [k \in 0..n |-> IF k = 0 THEN b ELSE step[<<k, it[k - 1]>>]]

LEMMA LoopExists ==
  ASSUME NEW X, NEW n \in Nat, NEW b \in X, NEW step \in [(1..n) \X X -> X]
  PROVE  \E it \in [0..n -> X] : Looped(it, n, b, step)
<1> DEFINE Runs(m, it) == it \in [0..m -> X] /\ Looped(it, m, b, step)
           B == {m \in 0..n : \E it : Runs(m, it)}
<1>1. 0 \in B
  <2>1. Runs(0, [k \in 0..0 |-> b])
    BY DEF Looped
  <2> HIDE DEF Runs
  <2> QED BY <2>1
<1>2. ASSUME NEW m \in 0..(n - 1), m \in B PROVE m + 1 \in B
  <2>1. PICK it : Runs(m, it)
    BY <1>2
  <2> DEFINE jt == [k \in 0..(m + 1) |-> IF k = m + 1 THEN step[<<m + 1, it[m]>>] ELSE it[k]]
  <2>2. m + 1 \in 1..n /\ it[m] \in X
    BY <2>1
  <2>3. step[<<m + 1, it[m]>>] \in X
    BY <2>2
  <2>4. jt \in [0..(m + 1) -> X]
    BY <2>1, <2>3
  <2>5. ASSUME NEW k \in 0..(m + 1)
        PROVE  jt[k] = IF k = 0 THEN b ELSE step[<<k, jt[k - 1]>>]
    <3>1. CASE k = m + 1
      <4>1. k - 1 = m /\ k # 0 /\ m # m + 1 /\ m \in 0..(m + 1)
        BY <3>1
      <4>2. jt[k - 1] = it[m] /\ jt[k] = step[<<m + 1, it[m]>>]
        BY <3>1, <4>1
      <4> QED BY <3>1, <4>1, <4>2
    <3>2. CASE k # m + 1
      <4>1. k \in 0..m /\ jt[k] = it[k] /\ (k # 0 => jt[k - 1] = it[k - 1])
        BY <3>2
      <4> QED BY <4>1, <2>1 DEF Looped
    <3> QED BY <3>1, <3>2
  <2>6. Runs(m + 1, jt)
    <3> HIDE DEF jt
    <3> QED BY <2>4, <2>5 DEF Looped
  <2> HIDE DEF Runs
  <2>7. m + 1 \in 0..n
    BY <2>2
  <2> QED BY <2>6, <2>7
<1>3. n \in B
  <2> HIDE DEF B
  <2>1. \A k \in 0..n : k \in B
    BY <1>1, <1>2, Climb
  <2> QED BY <2>1
<1> QED BY <1>3
-----------------------------------------------------------------------------
(* One place more is one more of its status.                               *)
LEMMA CountStep ==
  ASSUME NEW records, NEW i \in Int, NEW n \in Int, NEW status, i <= n + 1
  PROVE  /\ CountOf(records, i..n, status) \in Nat
         /\ CountOf(records, i..(n + 1), status) =
              CountOf(records, i..n, status) + (IF records[n + 1].status = status THEN 1 ELSE 0)
<1> DEFINE S == {k \in i..n : records[k].status = status}
           T == {k \in i..(n + 1) : records[k].status = status}
<1>1. IsFiniteSet(S)
  BY FS_Interval, FS_Subset
<1>2. Cardinality(S) \in Nat
  BY <1>1, FS_CardinalityType
<1>3. CASE records[n + 1].status = status
  <2>1. T = S \union {n + 1} /\ n + 1 \notin S
    BY <1>3
  <2> HIDE DEF S, T
  <2>2. Cardinality(T) = Cardinality(S) + 1
    BY <1>1, <2>1, FS_AddElement
  <2> QED BY <1>2, <1>3, <2>2 DEF S, T, CountOf
<1>4. CASE records[n + 1].status # status
  <2>1. T = S
    BY <1>4
  <2>2. Cardinality(T) = Cardinality(S)
    BY <2>1
  <2> HIDE DEF S, T
  <2> QED BY <1>2, <1>4, <2>2 DEF S, T, CountOf
<1> QED BY <1>3, <1>4

LEMMA CountNone ==
  ASSUME NEW records, NEW i \in Int, NEW n \in Int, NEW status, i > n
  PROVE  CountOf(records, i..n, status) = 0
<1>1. {k \in i..n : records[k].status = status} = {}
  OBVIOUS
<1> QED BY <1>1, FS_EmptySet DEF CountOf

-----------------------------------------------------------------------------
(* What computeStreaks has in hand after n records: the stretch that ends    *)
(* there, and the longest of each side so far.                             *)
Sides == {"WON", "LOST"}

Pure(records, i, n, side) ==
  \A k \in i..n : Decided(records[k]) => records[k].status = side

Best(run, side) == IF side = "WON" THEN run.won ELSE run.lost

Latest(records, n, run) ==
  /\ \A side \in Sides : \A i \in 1..(n + 1) :
       Pure(records, i, n, side) =>
         CountOf(records, i..n, side) <= IF run.kind = side THEN run.count ELSE 0
  /\ run.kind \in Sides =>
       \E i \in 1..n : /\ Pure(records, i, n, run.kind)
                       /\ CountOf(records, i..n, run.kind) = run.count

Longest(records, n, best, side) ==
  /\ best = 0 \/ \E i, j \in 1..n : /\ Pure(records, i, j, side)
                                    /\ CountOf(records, i..j, side) = best
  /\ \A i, j \in 1..n :
       Pure(records, i, j, side) => CountOf(records, i..j, side) <= best

RunTyped(run) ==
  run \in [kind : Sides \union {"NONE"}, count : Nat, won : Nat, lost : Nat]

RunHolds(records, n, run) ==
  /\ RunTyped(run)
  /\ Latest(records, n, run)
  /\ \A side \in Sides : Longest(records, n, Best(run, side), side)

LEMMA RunAtFirst == ASSUME NEW records PROVE RunHolds(records, 0, NoRun)
<1>1. RunTyped(NoRun)
  BY DEF RunTyped, NoRun
<1>2. Latest(records, 0, NoRun)
  <2>1. \A side \in Sides : CountOf(records, 1..0, side) = 0
    BY CountNone
  <2>2. NoRun.kind \notin Sides /\ 1..(0 + 1) = {1}
    BY DEF NoRun, Sides
  <2> QED BY <2>1, <2>2 DEF Latest
<1>3. \A side \in Sides : Longest(records, 0, Best(NoRun, side), side)
  BY DEF Longest, Best, NoRun
<1> QED BY <1>1, <1>2, <1>3 DEF RunHolds

LEMMA PureStep ==
  ASSUME NEW records, NEW i \in Int, NEW n \in Int, NEW side, i <= n + 1
  PROVE  Pure(records, i, n + 1, side) <=>
           /\ Pure(records, i, n, side)
           /\ Decided(records[n + 1]) => records[n + 1].status = side
<1>1. i..(n + 1) = (i..n) \union {n + 1}
  OBVIOUS
<1> QED BY <1>1 DEF Pure

(* A record that is not decided changes nothing.                           *)
LEMMA PassedOver ==
  ASSUME NEW records, NEW n \in Nat, NEW run, RunHolds(records, n, run),
         ~Decided(records[n + 1])
  PROVE  RunHolds(records, n + 1, run)
<1>1. \A side \in Sides, i \in 1..(n + 1) :
        /\ Pure(records, i, n + 1, side) <=> Pure(records, i, n, side)
        /\ CountOf(records, i..(n + 1), side) = CountOf(records, i..n, side)
        /\ CountOf(records, i..n, side) \in Nat
  <2> TAKE side \in Sides, i \in 1..(n + 1)
  <2>1. records[n + 1].status # side
    BY DEF Decided, Sides
  <2>2. i \in Int /\ n \in Int /\ i <= n + 1
    OBVIOUS
  <2> QED BY <2>1, <2>2, PureStep, CountStep
<1>2. \A side \in Sides, i \in 1..(n + 2), j \in 1..(n + 1) :
        i > j => CountOf(records, i..j, side) = 0
  BY CountNone
<1>3. RunTyped(run) /\ run.count \in Nat /\ \A side \in Sides : Best(run, side) \in Nat
  BY DEF RunHolds, RunTyped, Best
<1>4. Latest(records, n + 1, run)
  <2>1. ASSUME NEW side \in Sides, NEW i \in 1..((n + 1) + 1), Pure(records, i, n + 1, side)
        PROVE  CountOf(records, i..(n + 1), side) <= IF run.kind = side THEN run.count ELSE 0
    <3>1. CASE i = n + 2
      BY <1>2, <1>3, <3>1
    <3>2. CASE i \in 1..(n + 1)
      BY <1>1, <2>1, <3>2 DEF RunHolds, Latest
    <3> QED BY <3>1, <3>2
  <2>2. ASSUME run.kind \in Sides
        PROVE  \E i \in 1..(n + 1) : /\ Pure(records, i, n + 1, run.kind)
                                     /\ CountOf(records, i..(n + 1), run.kind) = run.count
    <3>1. PICK i \in 1..n : /\ Pure(records, i, n, run.kind)
                            /\ CountOf(records, i..n, run.kind) = run.count
      BY <2>2 DEF RunHolds, Latest
    <3>2. i \in 1..(n + 1)
      OBVIOUS
    <3> QED BY <1>1, <2>2, <3>1, <3>2
  <2> QED BY <2>1, <2>2 DEF Latest
<1>5. ASSUME NEW side \in Sides PROVE Longest(records, n + 1, Best(run, side), side)
  <2>1. Longest(records, n, Best(run, side), side)
    BY DEF RunHolds
  <2>2. ASSUME NEW i \in 1..(n + 1), NEW j \in 1..(n + 1), Pure(records, i, j, side)
        PROVE  CountOf(records, i..j, side) <= Best(run, side)
    <3>1. CASE i > j
      BY <1>2, <1>3, <3>1
    <3>2. CASE i <= j /\ j <= n
      <4>1. i \in 1..n /\ j \in 1..n
        BY <3>2
      <4> QED BY <2>1, <2>2, <4>1 DEF Longest
    <3>3. CASE i <= j /\ j = n + 1
      <4>1. CASE i = n + 1
        <5>1. CountOf(records, i..n, side) = 0
          BY <4>1, CountNone
        <5> QED BY <1>1, <1>3, <3>3, <5>1
      <4>2. CASE i <= n
        <5>1. i \in 1..n /\ n \in 1..n /\ Pure(records, i, n, side)
          BY <1>1, <2>2, <3>3, <4>2
        <5> QED BY <1>1, <2>1, <3>3, <5>1 DEF Longest
      <4> QED BY <4>1, <4>2
    <3> QED BY <3>1, <3>2, <3>3
  <2>3. \A i \in 1..n : i \in 1..(n + 1)
    OBVIOUS
  <2> QED BY <2>1, <2>2, <2>3 DEF Longest
<1> QED BY <1>3, <1>4, <1>5 DEF RunHolds

(* A decided one extends the stretch of its side, or begins it anew.         *)
LEMMA RunTypedOn ==
  ASSUME NEW run, RunTyped(run), NEW r, Decided(r), NEW count \in Nat,
         count = IF run.kind = r.status THEN run.count + 1 ELSE 1
  PROVE  LET next == ExtendedBy(run, r) IN
         /\ RunTyped(next) /\ next.kind = r.status /\ next.count = count
         /\ \A side \in Sides :
              Best(next, side) = IF side = r.status THEN LongerOf(Best(run, side), count)
                                 ELSE Best(run, side)
<1>1. r.status \in Sides /\ run.won \in Nat /\ run.lost \in Nat
  BY DEF Decided, Sides, RunTyped
<1>2. ExtendedBy(run, r) =
        [kind |-> r.status, count |-> count,
         won |-> IF r.status = "WON" THEN LongerOf(run.won, count) ELSE run.won,
         lost |-> IF r.status = "LOST" THEN LongerOf(run.lost, count) ELSE run.lost]
  BY DEF ExtendedBy
<1>3. LongerOf(run.won, count) \in Nat /\ LongerOf(run.lost, count) \in Nat
  BY <1>1 DEF LongerOf
<1>4. RunTyped(ExtendedBy(run, r))
  BY <1>1, <1>2, <1>3 DEF RunTyped
<1>5. ASSUME NEW side \in Sides
      PROVE  Best(ExtendedBy(run, r), side) =
               IF side = r.status THEN LongerOf(Best(run, side), count) ELSE Best(run, side)
  <2>1. CASE side = "WON"
    BY <1>2, <2>1 DEF Best
  <2>2. CASE side = "LOST"
    BY <1>2, <2>2 DEF Best
  <2> QED BY <2>1, <2>2 DEF Sides
<1> QED BY <1>2, <1>4, <1>5

LEMMA Extended ==
  ASSUME NEW records, NEW n \in Nat, NEW run, RunHolds(records, n, run),
         Decided(records[n + 1])
  PROVE  RunHolds(records, n + 1, ExtendedBy(run, records[n + 1]))
<1>1. PICK won : won = records[n + 1].status
  OBVIOUS
<1>2. PICK next : next = ExtendedBy(run, records[n + 1])
  OBVIOUS
<1>3. RunTyped(run) /\ run.count \in Nat /\ \A side \in Sides : Best(run, side) \in Nat
  BY DEF RunHolds, RunTyped, Best
<1>4. PICK count \in Nat \ {0} : count = IF run.kind = won THEN run.count + 1 ELSE 1
  BY <1>3
<1>5. /\ RunTyped(next) /\ next.kind = won /\ next.count = count /\ won \in Sides
      /\ \A side \in Sides :
           Best(next, side) = IF side = won THEN LongerOf(Best(run, side), count)
                              ELSE Best(run, side)
  BY <1>1, <1>2, <1>3, <1>4, RunTypedOn DEF Decided, Sides
<1>6. \A side \in Sides, i \in 1..(n + 1) :
        /\ Pure(records, i, n + 1, side) <=> Pure(records, i, n, side) /\ side = won
        /\ CountOf(records, i..(n + 1), side) =
             CountOf(records, i..n, side) + (IF side = won THEN 1 ELSE 0)
        /\ CountOf(records, i..n, side) \in Nat
  <2> TAKE side \in Sides, i \in 1..(n + 1)
  <2>1. i \in Int /\ n \in Int /\ i <= n + 1
    OBVIOUS
  <2> QED BY <1>1, <2>1, PureStep, CountStep
<1>7. \A side \in Sides, i \in 1..(n + 2), j \in 1..(n + 1) :
        i > j => CountOf(records, i..j, side) = 0
  BY CountNone
<1>8. ASSUME NEW i \in 1..(n + 1), Pure(records, i, n + 1, won)
      PROVE  CountOf(records, i..(n + 1), won) <= count
  <2>1. CountOf(records, i..n, won) <= IF run.kind = won THEN run.count ELSE 0
    BY <1>5, <1>6, <1>8 DEF RunHolds, Latest
  <2> QED BY <1>3, <1>4, <1>5, <1>6, <2>1
<1>9. \E i \in 1..(n + 1) : /\ Pure(records, i, n + 1, won)
                            /\ CountOf(records, i..(n + 1), won) = count
  <2>1. CASE run.kind = won
    <3>1. PICK i \in 1..n : /\ Pure(records, i, n, run.kind)
                            /\ CountOf(records, i..n, run.kind) = run.count
      BY <1>5, <2>1 DEF RunHolds, Latest
    <3>2. i \in 1..(n + 1)
      OBVIOUS
    <3> QED BY <1>4, <1>5, <1>6, <2>1, <3>1, <3>2
  <2>2. CASE run.kind # won
    <3>1. CountOf(records, (n + 1)..n, won) = 0 /\ n + 1 \in 1..(n + 1)
      BY CountNone
    <3>2. Pure(records, n + 1, n, won)
      BY DEF Pure
    <3> QED BY <1>4, <1>5, <1>6, <2>2, <3>1, <3>2
  <2> QED BY <2>1, <2>2
<1>10. Latest(records, n + 1, next)
  <2>1. ASSUME NEW side \in Sides, NEW i \in 1..((n + 1) + 1), Pure(records, i, n + 1, side)
        PROVE  CountOf(records, i..(n + 1), side) <= IF next.kind = side THEN next.count ELSE 0
    <3>1. CASE i = n + 2
      BY <1>4, <1>5, <1>7, <3>1
    <3>2. CASE i \in 1..(n + 1)
      BY <1>5, <1>6, <1>8, <2>1, <3>2
    <3> QED BY <3>1, <3>2
  <2> QED BY <1>5, <1>9, <2>1 DEF Latest
<1>11. ASSUME NEW side \in Sides PROVE Longest(records, n + 1, Best(next, side), side)
  <2>1. Longest(records, n, Best(run, side), side)
    BY DEF RunHolds
  <2>2. PICK old \in Nat : old = Best(run, side)
    BY <1>3
  <2>3. PICK best \in Nat : best = Best(next, side)
    BY <1>4, <1>5, <2>2 DEF LongerOf
  <2>4. /\ best >= old
        /\ side = won => best >= count /\ best \in {old, count}
        /\ side # won => best = old
    BY <1>4, <1>5, <2>2, <2>3 DEF LongerOf
  <2>5. ASSUME NEW i \in 1..(n + 1), NEW j \in 1..(n + 1), Pure(records, i, j, side)
        PROVE  CountOf(records, i..j, side) <= best
    <3>1. CASE i > j
      BY <1>7, <3>1
    <3>2. CASE i <= j /\ j <= n
      <4>1. i \in 1..n /\ j \in 1..n
        BY <3>2
      <4>2. CountOf(records, i..j, side) <= old
        BY <2>1, <2>2, <2>5, <4>1 DEF Longest
      <4>3. CountOf(records, i..j, side) \in Nat
        <5>1. i \in Int /\ j \in Int /\ i <= j + 1
          BY <3>2
        <5> QED BY <5>1, CountStep
      <4> QED BY <2>4, <4>2, <4>3
    <3>3. CASE j = n + 1
      <4>1. side = won
        BY <1>6, <2>5, <3>3
      <4>2. CountOf(records, i..(n + 1), won) <= count
        BY <1>8, <2>5, <3>3, <4>1
      <4>3. CountOf(records, i..(n + 1), won) \in Nat
        BY <1>6, <4>1
      <4> QED BY <1>4, <2>4, <3>3, <4>1, <4>2, <4>3
    <3> QED BY <3>1, <3>2, <3>3
  <2>6. best = 0 \/ \E i, j \in 1..(n + 1) : /\ Pure(records, i, j, side)
                                             /\ CountOf(records, i..j, side) = best
    <3>1. CASE best = old
      <4>1. \A i \in 1..n : i \in 1..(n + 1)
        OBVIOUS
      <4> QED BY <2>1, <2>2, <3>1, <4>1 DEF Longest
    <3>2. CASE best # old
      <4>1. side = won /\ best = count /\ n + 1 \in 1..(n + 1)
        BY <2>4, <3>2
      <4> QED BY <1>9, <4>1
    <3> QED BY <3>1, <3>2
  <2> QED BY <2>3, <2>5, <2>6 DEF Longest
<1> QED BY <1>2, <1>5, <1>10, <1>11 DEF RunHolds

LEMMA RunFound ==
  ASSUME NEW records, IsHistory(records)
  PROVE  RunHolds(records, Len(records), ComputeStreaks(records))
<1>1. PICK n \in Nat : n = Len(records)
  BY HistoryTyped
<1> DEFINE Runs == [kind : Sides \union {"NONE"}, count : Nat, won : Nat, lost : Nat]
           Loop(it) == it = [k \in 0..n |-> IF k = 0 THEN NoRun
                                            ELSE ExtendedBy(it[k - 1], records[k])]
<1>2. \E it : Loop(it)
  <2> DEFINE step == [p \in (1..n) \X Runs |-> ExtendedBy(p[2], records[p[1]])]
  <2>1. \A k \in 1..n, run \in Runs : ExtendedBy(run, records[k]) \in Runs
    <3> TAKE k \in 1..n, run \in Runs
    <3>1. CASE ~Decided(records[k])
      BY <3>1 DEF ExtendedBy
    <3>2. CASE Decided(records[k])
      <4>1. PICK count \in Nat :
              count = IF run.kind = records[k].status THEN run.count + 1 ELSE 1
        OBVIOUS
      <4> QED BY <3>2, <4>1, RunTypedOn DEF RunTyped
    <3> QED BY <3>1, <3>2
  <2>2. NoRun \in Runs
    BY DEF NoRun
  <2>3. step \in [(1..n) \X Runs -> Runs]
    BY <2>1
  <2>4. \A k \in 1..n, run \in Runs : step[<<k, run>>] = ExtendedBy(run, records[k])
    OBVIOUS
  <2> HIDE DEF step, Runs
  <2>5. PICK it \in [0..n -> Runs] : Looped(it, n, NoRun, step)
    BY <2>2, <2>3, LoopExists
  <2>6. \A k \in 0..n : (IF k = 0 THEN NoRun ELSE step[<<k, it[k - 1]>>])
                        = IF k = 0 THEN NoRun ELSE ExtendedBy(it[k - 1], records[k])
    <3> TAKE k \in 0..n
    <3>1. CASE k = 0
      BY <3>1
    <3>2. CASE k # 0
      <4>1. k \in 1..n /\ it[k - 1] \in Runs
        BY <2>5, <3>2
      <4> QED BY <2>4, <3>2, <4>1
    <3> QED BY <3>1, <3>2
  <2>7. Loop(it)
    BY <2>5, <2>6 DEF Looped
  <2> QED BY <2>7
<1>3. PICK it : it = CHOOSE i : Loop(i)
  OBVIOUS
<1>4. Loop(it)
  <2> HIDE DEF Loop
  <2> QED BY <1>2, <1>3, Zenon
<1>5. ComputeStreaks(records) = it[n]
  BY <1>1, <1>3 DEF ComputeStreaks
<1> DEFINE B == {k \in 0..n : RunHolds(records, k, it[k])}
<1>6. 0 \in B
  BY <1>4, RunAtFirst
<1>7. ASSUME NEW k \in 0..(n - 1), k \in B PROVE k + 1 \in B
  <2>1. k \in Nat /\ k + 1 \in 0..n /\ k + 1 # 0 /\ (k + 1) - 1 = k
    OBVIOUS
  <2>2. it[k + 1] = ExtendedBy(it[k], records[k + 1])
    BY <1>4, <2>1
  <2>3. RunHolds(records, k, it[k])
    BY <1>7
  <2>4. RunHolds(records, k + 1, it[k + 1])
    <3>1. CASE Decided(records[k + 1])
      BY <2>1, <2>2, <2>3, <3>1, Extended
    <3>2. CASE ~Decided(records[k + 1])
      <4>1. it[k + 1] = it[k]
        BY <2>2, <3>2 DEF ExtendedBy
      <4> QED BY <2>1, <2>3, <3>2, <4>1, PassedOver
    <3> QED BY <3>1, <3>2
  <2> QED BY <2>1, <2>4
<1>8. n \in B
  <2> HIDE DEF B
  <2>1. \A k \in 0..n : k \in B
    BY <1>6, <1>7, Climb
  <2> QED BY <2>1
<1> QED BY <1>1, <1>5, <1>8

(* Of every history the streaks are the longest runs as plainly defined      *)
(* (performance.ts:142-178).                                               *)
THEOREM StreaksAreLongest ==
  ASSUME NEW records, IsHistory(records)
  PROVE  StreaksAgree(records)
<1>1. PICK n \in Nat : n = Len(records)
  BY HistoryTyped
<1>2. DOMAIN records = 1..n
  BY <1>1, HistoryTyped
<1>3. PICK run : run = ComputeStreaks(records) /\ RunHolds(records, n, run)
  BY <1>1, RunFound
<1>4. ASSUME NEW side \in Sides PROVE LongestRun(records, side) = Best(run, side)
  <2> DEFINE Lengths == {CountOf(records, s[1]..s[2], side) : s \in Stretches(records, side)}
                          \union {0}
  <2>1. Longest(records, n, Best(run, side), side) /\ Best(run, side) \in Nat
    BY <1>3 DEF RunHolds, RunTyped, Best
  <2>2. \A i, j \in 1..n :
          Pure(records, i, j, side) <=> <<i, j>> \in Stretches(records, side)
    BY <1>2 DEF Stretches, Pure
  <2>3. Best(run, side) \in Lengths
    <3>1. CASE Best(run, side) = 0
      BY <3>1
    <3>2. CASE Best(run, side) # 0
      <4>1. PICK i, j \in 1..n : /\ Pure(records, i, j, side)
                                /\ CountOf(records, i..j, side) = Best(run, side)
        BY <2>1, <3>2 DEF Longest
      <4>2. PICK s : s = <<i, j>>
        OBVIOUS
      <4>3. s \in Stretches(records, side) /\ s[1] = i /\ s[2] = j
        BY <2>2, <4>1, <4>2
      <4> QED BY <4>1, <4>3
    <3> QED BY <3>1, <3>2
  <2>4. \A m \in Lengths : m <= Best(run, side)
    <3> SUFFICES ASSUME NEW s \in Stretches(records, side)
                 PROVE  CountOf(records, s[1]..s[2], side) <= Best(run, side)
      BY <2>1
    <3>1. PICK i, j \in 1..n : s = <<i, j>>
      BY <1>2 DEF Stretches
    <3> QED BY <2>1, <2>2, <3>1 DEF Longest
  <2>5. \A m \in Lengths : m \in Int
    <3> SUFFICES ASSUME NEW s \in Stretches(records, side)
                 PROVE  CountOf(records, s[1]..s[2], side) \in Int
      OBVIOUS
    <3>1. PICK i, j \in 1..n : s = <<i, j>>
      BY <1>2 DEF Stretches
    <3>2. CASE i <= j + 1
      BY <3>1, <3>2, CountStep
    <3>3. CASE i > j + 1
      BY <3>1, <3>3, CountNone
    <3> QED BY <3>2, <3>3
  <2>6. LongestRun(records, side) = Max(Lengths)
    BY DEF LongestRun
  <2> HIDE DEF Lengths
  <2>7. Max(Lengths) = Best(run, side)
    BY <2>3, <2>4, <2>5 DEF Max
  <2> QED BY <2>6, <2>7
<1>5. LongestRun(records, "WON") = run.won /\ LongestRun(records, "LOST") = run.lost
  BY <1>4 DEF Best, Sides
<1> QED BY <1>3, <1>5 DEF StreaksAgree

-----------------------------------------------------------------------------
(* A total of a column is a sum, and so is a count.                        *)
LEMMA TotalIsSum ==
  ASSUME NEW rows, NEW S, IsFiniteSet(S), NEW field, NEW g,
         \A i \in S : g[i] = rows[i][field] /\ g[i] \in Int
  PROVE  Total(rows, S, field) = SumOver(g, S)
<1> DEFINE By(it) ==
             [s \in SUBSET S |-> IF s = {} THEN 0 ELSE rows[Pick(s)][field] + it[s \ {Pick(s)}]]
           Eq(it) == it = By(it)
<1>1. \A s \in SUBSET S : s # {} => g[Pick(s)] = rows[Pick(s)][field]
  BY PickIn
<1>2. ASSUME NEW it PROVE Eq(it) <=> AddsUp(it, g, S)
  <2>1. By(it) = [s \in SUBSET S |-> IF s = {} THEN 0 ELSE g[Pick(s)] + it[s \ {Pick(s)}]]
    BY <1>1
  <2> HIDE DEF By
  <2> QED BY <2>1 DEF AddsUp
<1> HIDE DEF Eq
<1>3. \E it : Eq(it)
  BY <1>2, SumsExist DEF Sums
<1>4. PICK jt : jt = CHOOSE it : Eq(it)
  OBVIOUS
<1>5. Eq(jt)
  BY <1>3, <1>4, Zenon
<1>6. Total(rows, S, field) = jt[S]
  BY <1>4 DEF Eq, Total, MapThenSumSet, MapThenFoldSet, Pick
<1> QED BY <1>2, <1>5, <1>6, SumIsAny

Ones(records, status) == [i \in DOMAIN records |-> IF records[i].status = status THEN 1 ELSE 0]

LEMMA CountIsSum ==
  ASSUME NEW records, NEW S \in SUBSET DOMAIN records, IsFiniteSet(S), NEW status
  PROVE  CountOf(records, S, status) = SumOver(Ones(records, status), S)
<1> DEFINE T == {i \in S : records[i].status = status}
<1>1. PICK g : g = Ones(records, status)
  OBVIOUS
<1>2. (\A i \in T : g[i] = 1) /\ (\A i \in S \ T : g[i] = 0)
  BY <1>1 DEF Ones
<1>3. T \in SUBSET S /\ IsFiniteSet(T)
  BY FS_Subset
<1>4. CountOf(records, S, status) = Cardinality(T)
  BY DEF CountOf
<1> HIDE DEF T
<1>5. SumOver(g, S) = SumOver(g, T)
  BY <1>2, <1>3, SumZeros
<1>6. SumOver(g, T) = Cardinality(T)
  BY <1>2, <1>3, SumOnes
<1> QED BY <1>1, <1>4, <1>5, <1>6

(* A table with a row for each key adds up to what it was split from.        *)
KeyedBy(S, key, k) == {i \in S : key[i] = k}

LEMMA TableAddsUp ==
  ASSUME NEW S, IsFiniteSet(S), NEW K, IsFiniteSet(K),
         NEW key, \A i \in S : key[i] \in K, NEW g, \A i \in S : g[i] \in Int,
         NEW table, NEW part,
         \A k \in K : table[k][part] = SumOver(g, KeyedBy(S, key, k))
  PROVE  Total(table, K, part) = SumOver(g, S)
<1> DEFINE column == [k \in K |-> SumOver(g, {i \in S : key[i] = k})]
<1>1. ASSUME NEW k \in K PROVE column[k] = table[k][part] /\ column[k] \in Int
  <2>1. PICK T : T = {i \in S : key[i] = k}
    OBVIOUS
  <2>2. T \in SUBSET S /\ IsFiniteSet(T) /\ \A i \in T : g[i] \in Int
    BY <2>1, FS_Subset
  <2>3. SumOver(g, T) \in Int
    BY <2>2, SumIsInt
  <2> QED BY <2>1, <2>3 DEF KeyedBy
<1>2. SumOver(column, K) = SumOver(g, S)
  BY SumParts
<1> HIDE DEF column
<1>3. Total(table, K, part) = SumOver(column, K)
  BY <1>1, TotalIsSum
<1> QED BY <1>2, <1>3


LEMMA PlacesOf ==
  ASSUME NEW records, IsHistory(records)
  PROVE  /\ IsFiniteSet(DOMAIN records) /\ IsFiniteSet(SettledOf(records))
         /\ IsFiniteSet(DecidedOf(records, DOMAIN records))
         /\ SettledOf(records) \in SUBSET DOMAIN records
         /\ DecidedOf(records, DOMAIN records) \in SUBSET SettledOf(records)
         /\ \A S \in SUBSET DOMAIN records : IsFiniteSet(S)
<1>1. DOMAIN records = 1..Len(records) /\ Len(records) \in Int
  BY HistoryTyped
<1>2. IsFiniteSet(1..Len(records))
  BY <1>1, FS_Interval
<1>3. \A S \in SUBSET DOMAIN records : IsFiniteSet(S)
  BY <1>1, <1>2, FS_Subset
<1>4. /\ SettledOf(records) \in SUBSET DOMAIN records
      /\ DecidedOf(records, DOMAIN records) \in SUBSET SettledOf(records)
  BY DEF SettledOf, DecidedOf, Decided, IsSettled
<1> QED BY <1>1, <1>2, <1>3, <1>4

(* What was settled without being decided adds to no count and to no profit.  *)
Column(records, field) == [i \in DOMAIN records |-> records[i][field]]

LEMMA ColumnsTyped ==
  ASSUME NEW records, IsHistory(records),
         NEW field \in {"profitUnitsCenti", "stakeUnitsCenti"},
         NEW S \in SUBSET DOMAIN records
  PROVE  /\ \A i \in S : Column(records, field)[i] \in Int
         /\ Total(records, S, field) = SumOver(Column(records, field), S)
<1>1. \A i \in DOMAIN records : records[i][field] \in Int
  BY HistoryTyped DEF IsRecord
<1>2. PICK g : g = Column(records, field)
  OBVIOUS
<1>3. \A i \in S : g[i] = records[i][field] /\ g[i] \in Int
  BY <1>1, <1>2 DEF Column
<1>4. IsFiniteSet(S)
  BY PlacesOf
<1> QED BY <1>2, <1>3, <1>4, TotalIsSum

LEMMA OnesTyped ==
  ASSUME NEW records, NEW side, NEW i \in DOMAIN records
  PROVE  Ones(records, side)[i] \in Int
  BY DEF Ones

LEMMA SettledSplit ==
  ASSUME NEW records, IsHistory(records), NEW K, IsFiniteSet(K),
         NEW key, \A i \in SettledOf(records) : key[i] \in K, NEW table,
         \A k \in K :
           /\ table[k].won = CountOf(records, KeyedBy(SettledOf(records), key, k), "WON")
           /\ table[k].lost = CountOf(records, KeyedBy(SettledOf(records), key, k), "LOST")
           /\ table[k].profitUnitsCenti =
                Total(records, KeyedBy(SettledOf(records), key, k), "profitUnitsCenti")
  PROVE  \A part \in {"won", "lost", "profitUnitsCenti"} :
           Total(table, K, part) = SummarizePerformance(records)[part]
<1>1. PICK S : S = SettledOf(records)
  OBVIOUS
<1>2. PICK D : D = DecidedOf(records, DOMAIN records)
  OBVIOUS
<1>3. IsFiniteSet(S) /\ S \in SUBSET DOMAIN records /\ D \in SUBSET S
  BY <1>1, <1>2, PlacesOf
<1>4. \A k \in K : /\ KeyedBy(S, key, k) \in SUBSET DOMAIN records
                   /\ IsFiniteSet(KeyedBy(S, key, k))
  <2> TAKE k \in K
  <2>1. KeyedBy(S, key, k) \in SUBSET S
    BY DEF KeyedBy
  <2> QED BY <1>3, <2>1, FS_Subset
<1>5. ASSUME NEW side \in Sides, NEW part,
             \A k \in K : table[k][part] = CountOf(records, KeyedBy(S, key, k), side)
      PROVE  Total(table, K, part) = CountOf(records, DOMAIN records, side)
  <2>1. PICK g : g = Ones(records, side)
    OBVIOUS
  <2>2. \A i \in S : g[i] \in Int
    BY <1>3, <2>1, OnesTyped
  <2>3. \A k \in K : table[k][part] = SumOver(g, KeyedBy(S, key, k))
    BY <1>4, <1>5, <2>1, CountIsSum
  <2>4. Total(table, K, part) = SumOver(g, S)
    BY <1>1, <1>3, <2>2, <2>3, TableAddsUp
  <2>5. SumOver(g, S) = CountOf(records, S, side)
    BY <1>3, <2>1, CountIsSum
  <2>6. {i \in S : records[i].status = side} = {i \in DOMAIN records : records[i].status = side}
    BY <1>1 DEF SettledOf, IsSettled, Sides
  <2> QED BY <2>4, <2>5, <2>6 DEF CountOf
<1>6. Total(table, K, "profitUnitsCenti") = Total(records, D, "profitUnitsCenti")
  <2>1. PICK g : g = Column(records, "profitUnitsCenti")
    OBVIOUS
  <2>2. \A i \in S : g[i] \in Int
    BY <1>3, <2>1, ColumnsTyped
  <2>3. \A k \in K : table[k].profitUnitsCenti = SumOver(g, KeyedBy(S, key, k))
    BY <1>1, <1>4, <2>1, ColumnsTyped
  <2>4. Total(table, K, "profitUnitsCenti") = SumOver(g, S)
    BY <1>1, <1>3, <2>2, <2>3, TableAddsUp
  <2>5. \A i \in S \ D : g[i] = 0
    <3> TAKE i \in S \ D
    <3>1. i \in DOMAIN records /\ ~Decided(records[i])
      BY <1>2, <1>3 DEF DecidedOf
    <3> QED BY <2>1, <3>1, HistoryTyped DEF IsRecord, Column
  <2>6. SumOver(g, S) = SumOver(g, D)
    BY <1>3, <2>2, <2>5, SumZeros
  <2>7. SumOver(g, D) = Total(records, D, "profitUnitsCenti")
    BY <1>3, <2>1, ColumnsTyped
  <2> QED BY <2>4, <2>6, <2>7
<1>7. /\ SummarizePerformance(records).won = CountOf(records, DOMAIN records, "WON")
      /\ SummarizePerformance(records).lost = CountOf(records, DOMAIN records, "LOST")
      /\ SummarizePerformance(records).profitUnitsCenti = Total(records, D, "profitUnitsCenti")
  BY <1>2 DEF SummarizePerformance
<1>8. Total(table, K, "won") = SummarizePerformance(records).won
  BY <1>1, <1>5, <1>7 DEF Sides
<1>9. Total(table, K, "lost") = SummarizePerformance(records).lost
  BY <1>1, <1>5, <1>7 DEF Sides
<1> QED BY <1>6, <1>7, <1>8, <1>9


LEMMA MonthsAddUp ==
  ASSUME NEW records, IsHistory(records)
  PROVE  LET months == MonthlyPerformance(records) IN
         \A part \in {"won", "lost", "profitUnitsCenti"} :
           Total(months, DOMAIN months, part) = SummarizePerformance(records)[part]
<1>1. PICK S : S = SettledOf(records)
  OBVIOUS
<1>2. PICK key : key = [i \in S |-> records[i].month]
  OBVIOUS
<1>3. PICK K : K = {records[i].month : i \in S}
  OBVIOUS
<1>4. PICK months : months = MonthlyPerformance(records)
  OBVIOUS
<1>5. IsFiniteSet(K) /\ \A i \in S : key[i] \in K
  <2>1. key \in Surjection(S, K)
    BY <1>2, <1>3 DEF Surjection
  <2>2. IsFiniteSet(S)
    BY <1>1, PlacesOf
  <2> QED BY <1>2, <1>3, <2>1, <2>2, FS_Surjection
<1>6. \A m : KeyedBy(S, key, m) = {i \in S : records[i].month = m}
  BY <1>2 DEF KeyedBy
<1>7. DOMAIN months = K
  BY <1>1, <1>3, <1>4 DEF MonthlyPerformance
<1>8. \A m \in K :
        /\ months[m].won = CountOf(records, KeyedBy(S, key, m), "WON")
        /\ months[m].lost = CountOf(records, KeyedBy(S, key, m), "LOST")
        /\ months[m].profitUnitsCenti = Total(records, KeyedBy(S, key, m), "profitUnitsCenti")
  <2> TAKE m \in K
  <2>1. PICK T : T = KeyedBy(S, key, m)
    OBVIOUS
  <2>2. months[m] = [won |-> CountOf(records, T, "WON"), lost |-> CountOf(records, T, "LOST"),
                     profitUnitsCenti |-> Total(records, T, "profitUnitsCenti")]
    BY <1>1, <1>3, <1>4, <1>6, <2>1 DEF MonthlyPerformance
  <2> QED BY <2>1, <2>2
<1>9. \A part \in {"won", "lost", "profitUnitsCenti"} :
        Total(months, K, part) = SummarizePerformance(records)[part]
  BY <1>1, <1>5, <1>8, SettledSplit
<1> QED BY <1>4, <1>7, <1>9

(* Every odds are in one range.                                            *)
LEMMA OneRange ==
  ASSUME NEW odds \in Nat
  PROVE  \E k \in 1..5 : \A j \in 1..5 : InOddsBucket(odds, j) <=> j = k
<1>1. /\ Len(ODDS_BUCKETS) = 5 /\ ODDS_BUCKETS[1] = 0 /\ ODDS_BUCKETS[2] = 1500
      /\ ODDS_BUCKETS[3] = 2000 /\ ODDS_BUCKETS[4] = 3000 /\ ODDS_BUCKETS[5] = 5000
  BY DEF ODDS_BUCKETS
<1>2. /\ InOddsBucket(odds, 1) <=> odds < 1500
      /\ InOddsBucket(odds, 2) <=> 1500 <= odds /\ odds < 2000
      /\ InOddsBucket(odds, 3) <=> 2000 <= odds /\ odds < 3000
      /\ InOddsBucket(odds, 4) <=> 3000 <= odds /\ odds < 5000
      /\ InOddsBucket(odds, 5) <=> 5000 <= odds
  BY <1>1 DEF InOddsBucket
<1>3. 1..5 = {1, 2, 3, 4, 5}
  OBVIOUS
<1>4. CASE odds < 1500
  <2>1. \A j \in 1..5 : InOddsBucket(odds, j) <=> j = 1
    BY <1>2, <1>3, <1>4
  <2> QED BY <2>1, <1>3
<1>5. CASE 1500 <= odds /\ odds < 2000
  <2>1. \A j \in 1..5 : InOddsBucket(odds, j) <=> j = 2
    BY <1>2, <1>3, <1>5
  <2> QED BY <2>1, <1>3
<1>6. CASE 2000 <= odds /\ odds < 3000
  <2>1. \A j \in 1..5 : InOddsBucket(odds, j) <=> j = 3
    BY <1>2, <1>3, <1>6
  <2> QED BY <2>1, <1>3
<1>7. CASE 3000 <= odds /\ odds < 5000
  <2>1. \A j \in 1..5 : InOddsBucket(odds, j) <=> j = 4
    BY <1>2, <1>3, <1>7
  <2> QED BY <2>1, <1>3
<1>8. CASE 5000 <= odds
  <2>1. \A j \in 1..5 : InOddsBucket(odds, j) <=> j = 5
    BY <1>2, <1>3, <1>8
  <2> QED BY <2>1, <1>3
<1> QED BY <1>4, <1>5, <1>6, <1>7, <1>8

LEMMA DecidedIsBoth ==
  ASSUME NEW records, IsHistory(records)
  PROVE  Cardinality(DecidedOf(records, DOMAIN records)) =
           CountOf(records, DOMAIN records, "WON") + CountOf(records, DOMAIN records, "LOST")
<1> DEFINE W == {i \in DOMAIN records : records[i].status = "WON"}
           L == {i \in DOMAIN records : records[i].status = "LOST"}
<1>1. /\ IsFiniteSet(W) /\ IsFiniteSet(L) /\ W \intersect L = {}
      /\ DecidedOf(records, DOMAIN records) = W \union L
  <2>1. W \in SUBSET DOMAIN records /\ L \in SUBSET DOMAIN records
    OBVIOUS
  <2>2. W \intersect L = {} /\ DecidedOf(records, DOMAIN records) = W \union L
    BY DEF DecidedOf, Decided
  <2> QED BY <2>1, <2>2, PlacesOf
<1>2. CountOf(records, DOMAIN records, "WON") = Cardinality(W)
      /\ CountOf(records, DOMAIN records, "LOST") = Cardinality(L)
  BY DEF CountOf
<1> HIDE DEF W, L
<1>3. Cardinality(W \union L) = Cardinality(W) + Cardinality(L) - Cardinality(W \intersect L)
  BY <1>1, FS_Union
<1>4. Cardinality(W) \in Nat /\ Cardinality(L) \in Nat
  BY <1>1, FS_CardinalityType
<1>5. Cardinality(W \intersect L) = 0
  BY <1>1, FS_EmptySet
<1>6. Cardinality(W \union L) = Cardinality(W) + Cardinality(L)
  BY <1>3, <1>4, <1>5
<1>7. DecidedOf(records, DOMAIN records) = W \union L
  BY <1>1
<1> QED BY <1>2, <1>6, <1>7

LEMMA RangesAddUp ==
  ASSUME NEW records, IsHistory(records)
  PROVE  LET ranges == OddsBucketPerformance(records) IN
         \A part \in {"won", "lost", "decided", "profitUnitsCenti", "stakedUnitsCenti"} :
           Total(ranges, DOMAIN ranges, part) = SummarizePerformance(records)[part]
<1>1. PICK S : S = SettledOf(records)
  OBVIOUS
<1>2. PICK D : D = DecidedOf(records, DOMAIN records)
  OBVIOUS
<1>3. IsFiniteSet(S) /\ IsFiniteSet(D) /\ S \in SUBSET DOMAIN records /\ D \in SUBSET S
  BY <1>1, <1>2, PlacesOf
<1>4. \A i \in S : \E k \in 1..5 : \A j \in 1..5 :
        InOddsBucket(records[i].oddsMilli, j) <=> j = k
  <2> TAKE i \in S
  <2>1. records[i].oddsMilli \in Nat
    BY <1>3, HistoryTyped DEF IsRecord
  <2> QED BY <2>1, OneRange
<1>5. PICK key : /\ \A i \in S : key[i] \in 1..5
                 /\ \A i \in S, k \in 1..5 :
                      InOddsBucket(records[i].oddsMilli, k) <=> key[i] = k
  <2> DEFINE f == [i \in S |-> CHOOSE k \in 1..5 : InOddsBucket(records[i].oddsMilli, k)]
  <2>1. \A i \in S : f[i] \in 1..5 /\ InOddsBucket(records[i].oddsMilli, f[i])
    BY <1>4
  <2> HIDE DEF f
  <2>2. \A i \in S, k \in 1..5 : InOddsBucket(records[i].oddsMilli, k) <=> f[i] = k
    BY <1>4, <2>1
  <2> QED BY <2>1, <2>2
<1>6. PICK ranges : ranges = OddsBucketPerformance(records)
  OBVIOUS
<1>7. DOMAIN ODDS_BUCKETS = 1..5 /\ DOMAIN ranges = 1..5 /\ IsFiniteSet(1..5)
  <2>1. DOMAIN ODDS_BUCKETS = 1..5
    BY DEF ODDS_BUCKETS
  <2>2. DOMAIN ranges = DOMAIN ODDS_BUCKETS
    BY <1>6 DEF OddsBucketPerformance
  <2>3. 1 \in Int /\ 5 \in Int
    OBVIOUS
  <2>4. IsFiniteSet(1..5)
    BY ONLY <2>3, FS_Interval
  <2> QED BY <2>1, <2>2, <2>4
<1>8. ASSUME NEW k \in 1..5
      PROVE  /\ {i \in S : InOddsBucket(records[i].oddsMilli, k)} = KeyedBy(S, key, k)
             /\ DecidedOf(records, KeyedBy(S, key, k)) = KeyedBy(D, key, k)
  <2>1. {i \in S : InOddsBucket(records[i].oddsMilli, k)} = KeyedBy(S, key, k)
    BY <1>5 DEF KeyedBy
  <2>2. DecidedOf(records, KeyedBy(S, key, k)) = KeyedBy(D, key, k)
    BY <1>2, <1>3 DEF KeyedBy, DecidedOf
  <2> QED BY <2>1, <2>2
<1>9. \A k \in 1..5 :
        /\ ranges[k].won = CountOf(records, KeyedBy(S, key, k), "WON")
        /\ ranges[k].lost = CountOf(records, KeyedBy(S, key, k), "LOST")
        /\ ranges[k].decided = Cardinality(KeyedBy(D, key, k))
        /\ ranges[k].profitUnitsCenti = Total(records, KeyedBy(S, key, k), "profitUnitsCenti")
        /\ ranges[k].stakedUnitsCenti = Total(records, KeyedBy(D, key, k), "stakeUnitsCenti")
  <2> TAKE k \in 1..5
  <2>1. PICK T : T = KeyedBy(S, key, k)
    OBVIOUS
  <2>2. PICK U : U = KeyedBy(D, key, k)
    OBVIOUS
  <2>3. ranges[k] = [won |-> CountOf(records, T, "WON"), lost |-> CountOf(records, T, "LOST"),
                     decided |-> Cardinality(U),
                     profitUnitsCenti |-> Total(records, T, "profitUnitsCenti"),
                     stakedUnitsCenti |-> Total(records, U, "stakeUnitsCenti")]
    BY <1>1, <1>6, <1>7, <1>8, <2>1, <2>2 DEF OddsBucketPerformance
  <2> QED BY <2>1, <2>2, <2>3
<1>10. \A part \in {"won", "lost", "profitUnitsCenti"} :
         Total(ranges, 1..5, part) = SummarizePerformance(records)[part]
  BY <1>1, <1>5, <1>7, <1>9, SettledSplit
<1>11. /\ SummarizePerformance(records).stakedUnitsCenti = Total(records, D, "stakeUnitsCenti")
       /\ SummarizePerformance(records).decided = Cardinality(D)
  BY <1>2, DecidedIsBoth DEF SummarizePerformance
<1>12. \A k \in 1..5 : /\ KeyedBy(D, key, k) \in SUBSET D
                       /\ IsFiniteSet(KeyedBy(D, key, k))
  <2> TAKE k \in 1..5
  <2>1. KeyedBy(D, key, k) \in SUBSET D
    BY DEF KeyedBy
  <2> QED BY <1>3, <2>1, FS_Subset
<1>13. Total(ranges, 1..5, "stakedUnitsCenti") = Total(records, D, "stakeUnitsCenti")
  <2>1. PICK g : g = Column(records, "stakeUnitsCenti")
    OBVIOUS
  <2>2. /\ \A i \in D : g[i] \in Int
        /\ Total(records, D, "stakeUnitsCenti") = SumOver(g, D)
    BY <1>3, <2>1, ColumnsTyped
  <2>3. \A k \in 1..5 : ranges[k].stakedUnitsCenti = SumOver(g, KeyedBy(D, key, k))
    BY <1>3, <1>9, <1>12, <2>1, ColumnsTyped
  <2>4. \A i \in D : key[i] \in 1..5
    BY <1>3, <1>5
  <2>5. Total(ranges, 1..5, "stakedUnitsCenti") = SumOver(g, D)
    BY <1>3, <1>7, <2>2, <2>3, <2>4, TableAddsUp
  <2> QED BY <2>2, <2>5
<1>14. Total(ranges, 1..5, "decided") = Cardinality(D)
  <2>1. PICK g : g = [i \in D |-> 1]
    OBVIOUS
  <2>2. (\A i \in D : g[i] \in Int) /\ Cardinality(D) = SumOver(g, D)
    BY <1>3, <2>1, SumOnes
  <2>3. \A k \in 1..5 : ranges[k].decided = SumOver(g, KeyedBy(D, key, k))
    BY <1>9, <1>12, <2>1, SumOnes
  <2>4. Total(ranges, 1..5, "decided") = SumOver(g, D)
    BY <1>3, <1>5, <1>7, <2>2, <2>3, TableAddsUp
  <2> QED BY <2>2, <2>4
<1>15. \A part \in {"won", "lost", "decided", "profitUnitsCenti", "stakedUnitsCenti"} :
         Total(ranges, 1..5, part) = SummarizePerformance(records)[part]
  BY <1>10, <1>11, <1>13, <1>14
<1> QED BY <1>6, <1>7, <1>15


(* A point of the chart is what was decided up to there.                    *)
LEMMA PointsAddUp ==
  ASSUME NEW records, IsHistory(records)
  PROVE  LET points == CumulativeUnits(records) IN
         \A i \in DOMAIN points :
           points[i] = Total(records, DecidedOf(records, 1..i), "profitUnitsCenti")
<1>1. PICK n \in Nat : n = Len(records)
  BY HistoryTyped
<1>2. DOMAIN records = 1..n
  BY <1>1, HistoryTyped
<1>3. \A k \in 1..n : /\ records[k].profitUnitsCenti \in Int
                      /\ ~Decided(records[k]) => records[k].profitUnitsCenti = 0
  BY <1>2, HistoryTyped DEF IsRecord
<1> DEFINE Gain(k) == IF IsSettled(records[k]) THEN records[k].profitUnitsCenti ELSE 0
           Loop(it) == it = [k \in 0..n |-> IF k = 0 THEN 0 ELSE it[k - 1] + Gain(k)]
<1>4. \A k \in 1..n : Gain(k) \in Int
  BY <1>3
<1>5. \A k \in 1..n : Gain(k) = IF Decided(records[k]) THEN records[k].profitUnitsCenti ELSE 0
  BY <1>3 DEF Decided, IsSettled
<1> HIDE DEF Gain
<1>6. \E it \in [0..n -> Int] : Loop(it)
  <2> DEFINE step == [p \in (1..n) \X Int |-> p[2] + Gain(p[1])]
  <2>1. step \in [(1..n) \X Int -> Int]
    BY <1>4
  <2>2. \A k \in 1..n, m \in Int : step[<<k, m>>] = m + Gain(k)
    OBVIOUS
  <2>3. 0 \in Int
    OBVIOUS
  <2> HIDE DEF step
  <2>4. PICK it \in [0..n -> Int] : Looped(it, n, 0, step)
    BY <2>1, <2>3, LoopExists
  <2>5. \A k \in 0..n : (IF k = 0 THEN 0 ELSE step[<<k, it[k - 1]>>])
                        = IF k = 0 THEN 0 ELSE it[k - 1] + Gain(k)
    <3> TAKE k \in 0..n
    <3>1. CASE k = 0
      BY <3>1
    <3>2. CASE k # 0
      <4>1. k \in 1..n /\ it[k - 1] \in Int
        BY <2>4, <3>2
      <4> QED BY <2>2, <3>2, <4>1
    <3> QED BY <3>1, <3>2
  <2>6. Loop(it)
    BY <2>4, <2>5 DEF Looped
  <2> QED BY <2>6
<1>7. PICK it : it = CHOOSE i : Loop(i)
  OBVIOUS
<1>8. Loop(it)
  <2> HIDE DEF Loop
  <2> QED BY <1>6, <1>7, Zenon
<1>9. CumulativeUnits(records) = [i \in SettledOf(records) |-> it[i]]
  BY <1>1, <1>7 DEF CumulativeUnits, Gain
<1>10. PICK g : g = Column(records, "profitUnitsCenti")
  OBVIOUS
<1>11. ASSUME NEW k \in 0..n
       PROVE  /\ DecidedOf(records, 1..k) \in SUBSET DOMAIN records
              /\ IsFiniteSet(DecidedOf(records, 1..k))
              /\ Total(records, DecidedOf(records, 1..k), "profitUnitsCenti")
                   = SumOver(g, DecidedOf(records, 1..k))
              /\ \A i \in DecidedOf(records, 1..k) : g[i] \in Int
  <2>1. DecidedOf(records, 1..k) \in SUBSET DOMAIN records
    BY <1>2 DEF DecidedOf
  <2> QED BY <1>10, <2>1, PlacesOf, ColumnsTyped
<1> DEFINE B == {k \in 0..n : it[k] = SumOver(g, DecidedOf(records, 1..k))}
<1>12. 0 \in B
  <2>1. DecidedOf(records, 1..0) = {}
    BY DEF DecidedOf
  <2> QED BY <1>8, <2>1, SumEmpty
<1>13. ASSUME NEW k \in 0..(n - 1), k \in B PROVE k + 1 \in B
  <2>1. k \in 0..n /\ k + 1 \in 1..n /\ k + 1 \in 0..n /\ k + 1 # 0 /\ (k + 1) - 1 = k
    OBVIOUS
  <2>2. it[k + 1] = it[k] + Gain(k + 1)
    BY <1>8, <2>1
  <2>3. PICK D : D = DecidedOf(records, 1..k)
    OBVIOUS
  <2>4. it[k] = SumOver(g, D) /\ it[k] \in Int
    BY <1>11, <1>13, <2>1, <2>3, SumIsInt
  <2>5. 1..(k + 1) = (1..k) \union {k + 1} /\ k + 1 \notin 1..k
    OBVIOUS
  <2>6. SumOver(g, DecidedOf(records, 1..(k + 1))) = it[k + 1]
    <3>1. CASE Decided(records[k + 1])
      <4>1. DecidedOf(records, 1..(k + 1)) = D \union {k + 1} /\ k + 1 \notin D
        BY <2>3, <2>5, <3>1 DEF DecidedOf
      <4>2. g[k + 1] = Gain(k + 1) /\ g[k + 1] \in Int
        BY <1>2, <1>4, <1>5, <1>10, <2>1, <3>1 DEF Column
      <4>3. IsFiniteSet(D) /\ \A i \in D \union {k + 1} : g[i] \in Int
        BY <1>11, <2>1, <2>3, <4>2
      <4>4. SumOver(g, D \union {k + 1}) = SumOver(g, D) + g[k + 1]
        BY <4>1, <4>3, SumAdd
      <4> QED BY <2>2, <2>4, <4>1, <4>2, <4>4
    <3>2. CASE ~Decided(records[k + 1])
      <4>1. DecidedOf(records, 1..(k + 1)) = D
        BY <2>3, <2>5, <3>2 DEF DecidedOf
      <4>2. Gain(k + 1) = 0
        BY <1>5, <2>1, <3>2
      <4> QED BY <2>2, <2>4, <4>1, <4>2
    <3> QED BY <3>1, <3>2
  <2> QED BY <2>1, <2>6
<1>14. \A k \in 0..n : k \in B
  <2> HIDE DEF B
  <2> QED BY <1>12, <1>13, Climb
<1>15. ASSUME NEW i \in SettledOf(records)
       PROVE  it[i] = Total(records, DecidedOf(records, 1..i), "profitUnitsCenti")
  <2>1. i \in 0..n
    BY <1>2 DEF SettledOf
  <2> QED BY <1>11, <1>14, <2>1
<1> QED BY <1>9, <1>15

(* Of every history the chart, the months and the ranges of odds tell what   *)
(* the summary tells (performance.ts:68-300).                              *)
THEOREM PartsAlwaysAddUp ==
  ASSUME NEW records, IsHistory(records)
  PROVE  PartsAddUp(records)
  BY PointsAddUp, MonthsAddUp, RangesAddUp DEF PartsAddUp

(* The short records that the run lists are histories.                      *)
LEMMA ShortRecords ==
  ASSUME NEW n \in Nat, NEW records \in BoundedSeq(MCRecords, n)
  PROVE  IsHistory(records)
<1>1. PICK m \in 0..n : records \in [1..m -> MCRecords]
  BY DEF BoundedSeq, SeqOf
<1>2. \A r \in MCRecords : IsRecord(r)
  <2>1. ASSUME NEW status \in Statuses, NEW odds \in Nat, NEW month
        PROVE  IsRecord(MCRecord(status, odds, month))
    <3>1. Rounded(Stake * (odds - 1000), 1000) \in Int /\ Stake \in Int
      BY DEF Rounded, Stake
    <3>2. PICK profit \in Int : profit = ComputeProfitUnitsCenti(status, odds)
      BY <3>1 DEF ComputeProfitUnitsCenti
    <3>3. ~(status \in {"WON", "LOST"}) => profit = 0
      BY <3>2 DEF ComputeProfitUnitsCenti
    <3> QED BY <3>1, <3>2, <3>3 DEF IsRecord, MCRecord, Decided, Statuses
  <2> QED BY <2>1 DEF MCRecords, Statuses
<1>3. records \in Seq(MCRecords)
  BY <1>1
<1> QED BY <1>2, <1>3 DEF IsHistory

(* What TLC finds of the short records is an instance (performance.ts).      *)
THEOREM RecordsTellTheSame == RecordCorrect
  BY ShortRecords, StreaksAreLongest, PartsAlwaysAddUp DEF RecordCorrect
=============================================================================
