-------------------------- MODULE SlamWorkerProofs --------------------------
(***************************************************************************)
(* What the steps of a SLAM worker keep, whoever takes the pipeline's      *)
(* side: lemmas for the proofs of WorkerLoop and of the whole hub.         *)
(***************************************************************************)
EXTENDS SlamWorker, Integers, TLAPS

(* Arithmetic of the counter that decides when a map is due. *)

LEMMA RemainderUnique ==
  ASSUME NEW n \in Nat \ {0}, NEW q \in Nat, NEW r \in 0..(n - 1)
  PROVE  (n * q + r) % n = r
OBVIOUS

LEMMA Division ==
  ASSUME NEW a \in Nat, NEW n \in Nat \ {0}
  PROVE  /\ a \div n \in Nat
         /\ a % n \in 0..(n - 1)
         /\ a = n * (a \div n) + (a % n)
OBVIOUS

LEMMA RemainderOfSuccessor ==
  ASSUME NEW a \in Nat, NEW n \in Nat \ {0}
  PROVE  (a + 1) % n = IF (a % n) + 1 = n THEN 0 ELSE (a % n) + 1
<1> DEFINE q == a \div n
           r == a % n
<1>1. q \in Nat /\ r \in 0..(n - 1) /\ a = n * q + r
  BY Division
<1>2. CASE r + 1 = n
  <2>1. a + 1 = n * (q + 1) + 0
    BY <1>1, <1>2
  <2>2. (n * (q + 1) + 0) % n = 0
    BY <1>1, RemainderUnique
  <2> QED
    BY <1>2, <2>1, <2>2
<1>3. CASE r + 1 # n
  <2>1. a + 1 = n * q + (r + 1)
    BY <1>1
  <2>2. r + 1 \in 0..(n - 1)
    BY <1>1, <1>3
  <2>3. (n * q + (r + 1)) % n = r + 1
    BY <1>1, <2>2, RemainderUnique
  <2> QED
    BY <1>3, <2>1, <2>3
<1> QED
  BY <1>2, <1>3

LEMMA WrappingSuccessor ==
  ASSUME NEW n \in Nat \ {0}, NEW a \in 0..(n - 1)
  PROVE  (a + 1) % n = IF a + 1 = n THEN 0 ELSE a + 1
OBVIOUS

LEMMA PeriodPositive == Period \in Nat \ {0}
BY WorkerAssumption DEF Period

----------------------------------------------------------------------------
(* Sequences, element by element. *)

LEMMA AppendElements ==
  ASSUME NEW S, NEW q \in Seq(S), NEW e \in S
  PROVE  /\ \A i \in DOMAIN Append(q, e) : i \in DOMAIN q \/ i = Len(q) + 1
         /\ \A i \in DOMAIN q : i < Len(q) + 1 /\ Append(q, e)[i] = q[i]
         /\ Append(q, e)[Len(q) + 1] = e
OBVIOUS

LEMMA TailElements ==
  ASSUME NEW S, NEW q \in Seq(S), q # <<>>
  PROVE  \A i \in DOMAIN Tail(q) :
           i \in Nat /\ i + 1 \in DOMAIN q /\ Tail(q)[i] = q[i + 1]
OBVIOUS

LEMMA OutputsTyped ==
  ASSUME WorkerTypeOK
  PROVE  \A i \in DOMAIN slam_rx : slam_rx[i].val \in Nat
<1> SUFFICES ASSUME NEW i \in DOMAIN slam_rx PROVE slam_rx[i].val \in Nat
  OBVIOUS
<1>1. slam_rx[i] \in SlamOutput
  BY DEF WorkerTypeOK
<1> QED
  BY <1>1 DEF SlamOutput

----------------------------------------------------------------------------
(* Types. *)

LEMMA WorkerTypeInit == WorkerInit => WorkerTypeOK
BY WorkerAssumption DEF WorkerInit, WorkerTypeOK, WorkerPC

LEMMA ReportTyped ==
  ASSUME WorkerTypeOK, NEW c \in Car, NEW kind \in {"tracked", "map"}, NEW val \in Nat,
         Report(kind, c, val)
  PROVE  slam_rx' \in Seq(SlamOutput)
BY DEF WorkerTypeOK, Report, SlamOutput

LEMMA SpawnTyped ==
  ASSUME WorkerTypeOK, NEW c \in Car, Spawn(c)
  PROVE  WorkerTypeOK'
BY DEF WorkerTypeOK, WorkerPC, Spawn

LEMMA SubmitTyped ==
  ASSUME WorkerTypeOK, NEW c \in Car, NEW r \in Nat, Submit(c, r)
  PROVE  WorkerTypeOK'
BY DEF WorkerTypeOK, WorkerPC, Submit

LEMMA RecvOutputTyped ==
  ASSUME WorkerTypeOK, RecvOutput
  PROVE  WorkerTypeOK' /\ Head(slam_rx) \in SlamOutput
BY DEF WorkerTypeOK, WorkerPC, RecvOutput

LEMMA WorkerStepTyped ==
  ASSUME WorkerTypeOK, NEW c \in Car, WorkerStep(c) \/ Stop(c)
  PROVE  WorkerTypeOK'
<1> USE DEF WorkerTypeOK, WorkerPC
<1>1. CASE Start(c)
  BY <1>1 DEF Start
<1>2. CASE Take(c)
  BY <1>2 DEF Take
<1>3. CASE Skip(c)
  BY <1>3 DEF Skip
<1>4. CASE Track(c)
  <2>1. slam_rx' \in Seq(SlamOutput)
    BY <1>4, ReportTyped DEF Track
  <2>2. (processed[c] + 1) % CounterMod \in 0..(CounterMod - 1)
    BY WorkerAssumption, WrappingSuccessor
  <2> QED
    BY <1>4, <2>1, <2>2, SMTT(30) DEF Track
<1>5. CASE Render(c)
  <2>1. map_version'[c] \in Nat
    BY <1>5 DEF Render
  <2>2. slam_rx' \in Seq(SlamOutput)
    BY <1>5, <2>1, ReportTyped DEF Render
  <2> QED
    BY <1>5, <2>2 DEF Render
<1>6. CASE Stop(c)
  BY <1>6 DEF Stop
<1> QED
  BY <1>1, <1>2, <1>3, <1>4, <1>5, <1>6 DEF WorkerStep

----------------------------------------------------------------------------
(* Order.  It is inductive once it is known that nothing is ahead of the   *)
(* count n of rotations, so that the next one submitted is ahead of        *)
(* everything, and that a worker that matches has a rotation in hand; p is *)
(* the newest pose read.                                                   *)

Within(c, n) ==
  /\ slot[c] <= n
  /\ frame[c] <= n
  /\ \A i \in DOMAIN slam_rx : IsTracked(slam_rx[i], c) => slam_rx[i].val <= n
  /\ wpc[c] = "match" => frame[c] # 0

Ordered(c, p, n) == WorkerInOrder(c) /\ AheadOf(c, p) /\ p <= n /\ Within(c, n)

LEMMA OrderedInit ==
  ASSUME WorkerInit, NEW c \in Car
  PROVE  Ordered(c, 0, 0)
<1>1. slot[c] = 0 /\ frame[c] = 0 /\ wpc[c] = "none" /\ DOMAIN slam_rx = {}
  BY DEF WorkerInit
<1> QED
  BY <1>1 DEF Ordered, WorkerInOrder, AheadOf, Within

LEMMA OrderedTypes ==
  ASSUME WorkerTypeOK, NEW d \in Car
  PROVE  /\ slot[d] \in Nat /\ frame[d] \in Nat
         /\ \A i \in DOMAIN slam_rx : slam_rx[i].val \in Nat
         /\ slot \in [Car -> Nat] /\ frame \in [Car -> Nat] /\ wpc \in [Car -> WorkerPC]
         /\ map_version \in [Car -> Nat] /\ slam_rx \in Seq(SlamOutput)
BY OutputsTyped DEF WorkerTypeOK

(* Only how many events there were has changed. *)
LEMMA OtherOrdered ==
  ASSUME WorkerTypeOK, NEW d \in Car, NEW p \in Nat, NEW n \in Nat, NEW m \in Nat,
         Ordered(d, p, n), n <= m, UNCHANGED workerVars
  PROVE  Ordered(d, p, m)'
BY OrderedTypes DEF Ordered, WorkerInOrder, AheadOf, Within, workerVars

LEMMA SpawnOrdered ==
  ASSUME WorkerTypeOK, NEW c \in Car, NEW d \in Car, NEW p \in Nat, NEW n \in Nat,
         Ordered(d, p, n), Spawn(c)
  PROVE  Ordered(d, p, n)'
BY OrderedTypes DEF Ordered, WorkerInOrder, AheadOf, Within, Spawn

LEMMA SubmitOrdered ==
  ASSUME WorkerTypeOK, NEW c \in Car, NEW d \in Car, NEW p \in Nat, NEW n \in Nat,
         Ordered(d, p, n), Submit(c, n + 1)
  PROVE  Ordered(d, p, n + 1)'
<1>1. UNCHANGED <<frame, wpc, slam_rx>>
  BY DEF Submit
<1>2. slot'[d] = slot[d] \/ slot'[d] = n + 1
  BY OrderedTypes DEF Submit
<1> QED
  BY <1>1, <1>2, OrderedTypes DEF Ordered, WorkerInOrder, AheadOf, Within

LEMMA RecvOrdered ==
  ASSUME WorkerTypeOK, NEW d \in Car, NEW p \in Nat, NEW n \in Nat, NEW q,
         Ordered(d, p, n), RecvOutput,
         q = IF IsTracked(Head(slam_rx), d) THEN Head(slam_rx).val ELSE p
  PROVE  Ordered(d, q, n)' /\ p <= q /\ (IsTracked(Head(slam_rx), d) => p < q)
<1> USE DEF Ordered, WorkerInOrder, AheadOf, Within
<1>0. slot[d] \in Nat /\ frame[d] \in Nat /\ slam_rx \in Seq(SlamOutput)
      /\ \A i \in DOMAIN slam_rx : slam_rx[i].val \in Nat
  BY OrderedTypes
<1>1. slam_rx # <<>> /\ slam_rx' = Tail(slam_rx) /\ UNCHANGED <<slot, frame, wpc>>
  BY DEF RecvOutput
<1>2. \A i \in DOMAIN slam_rx' :
        i \in Nat /\ i + 1 \in DOMAIN slam_rx /\ slam_rx'[i] = slam_rx[i + 1]
  BY <1>0, <1>1, TailElements
<1>3. 1 \in DOMAIN slam_rx /\ q = IF IsTracked(slam_rx[1], d) THEN slam_rx[1].val ELSE p
  BY <1>0, <1>1
<1>4. (WorkerInOrder(d) /\ Within(d, n))'
  BY <1>0, <1>1, <1>2
<1>5. AheadOf(d, q)' /\ p <= q /\ q <= n /\ (IsTracked(slam_rx[1], d) => p < q)
  BY <1>0, <1>1, <1>2, <1>3
<1> QED
  BY <1>0, <1>1, <1>4, <1>5

LEMMA WorkerStepOrdered ==
  ASSUME WorkerTypeOK, WorkerTypeOK', NEW c \in Car, NEW d \in Car,
         NEW p \in Nat, NEW n \in Nat,
         Ordered(d, p, n), WorkerStep(c) \/ Stop(c)
  PROVE  Ordered(d, p, n)'
<1>t. /\ slot[d] \in Nat /\ frame[d] \in Nat
      /\ \A i \in DOMAIN slam_rx : slam_rx[i].val \in Nat
      /\ slot \in [Car -> Nat] /\ frame \in [Car -> Nat] /\ wpc \in [Car -> WorkerPC]
      /\ slam_rx \in Seq(SlamOutput)
      /\ map_version' \in [Car -> Nat]
  BY OrderedTypes DEF WorkerTypeOK
<1> USE <1>t DEF Ordered, WorkerInOrder, AheadOf, Within
<1>1. CASE Start(c)
  BY <1>1 DEF Start
<1>2. CASE Take(c)
  <2>1. UNCHANGED slam_rx
    BY <1>2 DEF Take
  <2>2. CASE c = d
    <3>1. slot[d] # 0 /\ frame'[d] = slot[d] /\ slot'[d] = 0
      BY <1>2, <2>2 DEF Take
    <3> QED
      BY <2>1, <3>1
  <2>3. CASE c # d
    <3>1. UNCHANGED <<slot[d], frame[d], wpc[d]>>
      BY <1>2, <2>3 DEF Take
    <3> QED
      BY <2>1, <3>1
  <2> QED
    BY <2>2, <2>3
<1>3. CASE Skip(c)
  BY <1>3 DEF Skip
<1>4. CASE Track(c)
  <2> DEFINE o == [kind |-> "tracked", car |-> c, val |-> frame[c]]
  <2>1. o \in SlamOutput /\ slam_rx' = Append(slam_rx, o) /\ UNCHANGED slot
    BY <1>4 DEF Track, Report, SlamOutput
  <2>2. CASE c = d
    <3>1. frame[d] # 0 /\ frame'[d] = 0 /\ wpc'[d] # "match"
      BY <1>4, <2>2 DEF Track, WorkerPC
    <3> QED
      BY <2>1, <2>2, <3>1, AppendElements, SMTT(30) DEF IsTracked
  <2>3. CASE c # d
    <3>1. UNCHANGED <<frame[d], wpc[d]>> /\ ~IsTracked(o, d)
      BY <1>4, <2>3 DEF Track, IsTracked
    <3> QED
      BY <2>1, <3>1, AppendElements, SMTT(30)
  <2> QED
    BY <2>2, <2>3
<1>5. CASE Render(c)
  <2> DEFINE o == [kind |-> "map", car |-> c, val |-> map_version'[c]]
  <2>1. o \in SlamOutput /\ slam_rx' = Append(slam_rx, o) /\ ~IsTracked(o, d)
    BY <1>5 DEF Render, Report, SlamOutput, IsTracked
  <2>2. UNCHANGED <<slot, frame>> /\ (wpc'[d] = "match" => wpc[d] = "match")
    BY <1>5 DEF Render
  <2> QED
    BY <2>1, <2>2, AppendElements, SMTT(30)
<1>6. CASE Stop(c)
  BY <1>6 DEF Stop
<1> QED
  BY <1>1, <1>2, <1>3, <1>4, <1>5, <1>6 DEF WorkerStep
----------------------------------------------------------------------------
(* Maps in time.  The history since the last map follows the counter:      *)
(* between maps it is the counter's remainder, so a counter that wraps can *)
(* bring a map early and never late.                                       *)

Counted(c) ==
  IF wpc[c] \in {"render", "dead"}
    THEN /\ since_map[c] <= Period
         /\ wpc[c] = "render" => processed[c] % Period = 0
    ELSE since_map[c] = processed[c] % Period

LEMMA CountedInit ==
  ASSUME WorkerInit, NEW c \in Car
  PROVE  Counted(c)
<1>1. 0 % Period = 0
  BY PeriodPositive
<1> QED
  BY <1>1 DEF WorkerInit, Counted

LEMMA CountedInTime ==
  ASSUME WorkerTypeOK, NEW c \in Car, Counted(c)
  PROVE  /\ since_map[c] <= Period
         /\ since_map[c] = Period => wpc[c] \in {"render", "dead"}
<1>1. processed[c] \in Nat
  BY WorkerAssumption DEF WorkerTypeOK
<1>2. processed[c] % Period \in 0..(Period - 1) /\ Period \in Nat
  BY <1>1, PeriodPositive, Division
<1> QED
  BY <1>2 DEF Counted

LEMMA OtherCounted ==
  ASSUME NEW d \in Car, Counted(d), UNCHANGED <<wpc, since_map, processed>>
  PROVE  Counted(d)'
BY DEF Counted

LEMMA SpawnCounted ==
  ASSUME WorkerTypeOK, NEW c \in Car, NEW d \in Car, Counted(d), Spawn(c), ~HasWorker(c)
  PROVE  Counted(d)'
BY DEF Counted, Spawn, HasWorker, WorkerTypeOK, WorkerPC

LEMMA WorkerStepCounted ==
  ASSUME WorkerTypeOK, NEW c \in Car, NEW d \in Car, Counted(d), WorkerStep(c) \/ Stop(c)
  PROVE  Counted(d)'
<1> USE DEF WorkerTypeOK, WorkerPC, Counted
<1>0. Period \in Nat \ {0}
  BY PeriodPositive
<1>1. CASE UNCHANGED <<wpc[d], since_map[d], processed[d]>>
  BY <1>1
<1>4. CASE Start(c)
  BY <1>4 DEF Start
<1>5. CASE Take(c)
  BY <1>5 DEF Take
<1>6. CASE Skip(c)
  BY <1>6 DEF Skip
<1>7. CASE Track(c)
  <2>1. CASE c # d
    BY <1>1, <1>7, <2>1 DEF Track
  <2>2. CASE c = d
    <3> DEFINE p == processed[d]
    <3>1. p \in Nat /\ p \in 0..(CounterMod - 1)
      BY WorkerAssumption
    <3>2. since_map[d] = p % Period /\ p % Period \in 0..(Period - 1)
      BY <1>0, <1>7, <2>2, <3>1, Division DEF Track
    <3>3. since_map'[d] = (p % Period) + 1
      BY <1>7, <2>2, <3>2 DEF Track
    <3>4. processed'[d] = (p + 1) % CounterMod
      BY <1>7, <2>2 DEF Track
    <3>5. processed'[d] = 0 \/ processed'[d] = p + 1
      BY <3>1, <3>4, WorkerAssumption, WrappingSuccessor
    <3>6. wpc'[d] = IF processed'[d] % Period = 0 THEN "render" ELSE "wait"
      BY <1>7, <2>2 DEF Track, MapDue
    <3>7. CASE processed'[d] = 0
      <4>1. processed'[d] % Period = 0
        BY <3>7, <1>0
      <4> QED
        BY <4>1, <3>2, <3>3, <3>6, <1>0
    <3>8. CASE processed'[d] = p + 1
      <4>1. (p + 1) % Period = IF (p % Period) + 1 = Period THEN 0 ELSE (p % Period) + 1
        BY <3>1, <1>0, RemainderOfSuccessor
      <4>2. since_map'[d] <= Period
        BY <3>2, <3>3, <1>0
      <4>3. CASE (p % Period) + 1 = Period
        <5>1. wpc'[d] = "render" /\ processed'[d] % Period = 0
          BY <4>1, <4>3, <3>8, <3>6
        <5> QED
          BY <5>1, <4>2
      <4>4. CASE (p % Period) + 1 # Period
        <5>1. processed'[d] % Period = (p % Period) + 1 /\ (p % Period) + 1 # 0
          BY <4>1, <4>4, <3>8, <3>2
        <5>2. wpc'[d] = "wait"
          BY <5>1, <3>6
        <5> QED
          BY <5>1, <5>2, <3>3
      <4> QED
        BY <4>3, <4>4
    <3> QED
      BY <3>5, <3>7, <3>8
  <2> QED
    BY <2>1, <2>2
<1>8. CASE Render(c)
  BY <1>0, <1>8 DEF Render
<1>9. CASE Stop(c)
  <2>1. processed[d] \in Nat
    BY WorkerAssumption
  <2>2. processed[d] % Period \in 0..(Period - 1)
    BY <2>1, <1>0, Division
  <2> QED
    BY <1>0, <1>9, <2>2, SMTT(30) DEF Stop
<1> QED
  BY <1>4, <1>5, <1>6, <1>7, <1>8, <1>9 DEF WorkerStep
=============================================================================
