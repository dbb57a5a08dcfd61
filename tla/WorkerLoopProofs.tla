------------------------- MODULE WorkerLoopProofs -------------------------
(***************************************************************************)
(* For every set of cars, every map period and every width of the counter: *)
(* the type correctness of the SLAM workers, that a map is never overdue,  *)
(* and that rotations keep their order.                                    *)
(***************************************************************************)
EXTENDS WorkerLoop, SlamWorkerProofs

LEMMA TypeInit == Init => TypeOK
BY WorkerTypeInit DEF Init, TypeOK

LEMMA TypeNext == TypeOK /\ [Next]_vars => TypeOK'
<1> SUFFICES ASSUME TypeOK, [Next]_vars PROVE TypeOK'
  OBVIOUS
<1>1. ASSUME NEW c \in Car, SpawnWorker(c) PROVE TypeOK'
  BY <1>1, SpawnTyped DEF SpawnWorker, TypeOK
<1>2. ASSUME NEW c \in Car, SubmitNext(c) PROVE TypeOK'
  <2>1. rotations' \in Nat
    BY <1>2 DEF SubmitNext, TypeOK
  <2> QED
    BY <1>2, <2>1, SubmitTyped DEF SubmitNext, TypeOK
<1>3. ASSUME NEW c \in Car, Worker(c) PROVE TypeOK'
  BY <1>3, WorkerStepTyped DEF Worker, TypeOK
<1>4. CASE ReadOutput
  <2>1. WorkerTypeOK' /\ Head(slam_rx).val \in Nat
    BY <1>4, RecvOutputTyped DEF ReadOutput, TypeOK, SlamOutput
  <2> QED
    BY <1>4, <2>1 DEF ReadOutput, TypeOK
<1>6. CASE OtherEvent
  BY <1>6 DEF OtherEvent, workerVars, TypeOK, WorkerTypeOK
<1>5. CASE UNCHANGED vars
  BY <1>5 DEF vars, workerVars, TypeOK, WorkerTypeOK
<1> QED
  BY <1>1, <1>2, <1>3, <1>4, <1>5, <1>6 DEF Next

(* The workers' variables keep their types.                                *)
THEOREM TypeCorrect == Spec => []TypeOK
BY TypeInit, TypeNext, PTL DEF Spec

----------------------------------------------------------------------------
CounterInv == \A c \in Car : Counted(c)

LEMMA CounterInit == Init => CounterInv
BY CountedInit DEF Init, CounterInv

LEMMA CounterNext == TypeOK /\ CounterInv /\ [Next]_vars => CounterInv'
<1> SUFFICES ASSUME TypeOK, CounterInv, [Next]_vars, NEW d \in Car PROVE Counted(d)'
  BY DEF CounterInv
<1>1. WorkerTypeOK /\ Counted(d)
  BY DEF TypeOK, CounterInv
<1>2. ASSUME NEW c \in Car, SpawnWorker(c) PROVE Counted(d)'
  BY <1>1, <1>2, SpawnCounted DEF SpawnWorker
<1>3. ASSUME NEW c \in Car, SubmitNext(c) PROVE Counted(d)'
  BY <1>1, <1>3, OtherCounted DEF SubmitNext, Submit
<1>4. ASSUME NEW c \in Car, Worker(c) PROVE Counted(d)'
  BY <1>1, <1>4, WorkerStepCounted DEF Worker
<1>5. CASE ReadOutput
  BY <1>1, <1>5, OtherCounted DEF ReadOutput, RecvOutput
<1>6. CASE OtherEvent \/ UNCHANGED vars
  BY <1>1, <1>6, OtherCounted DEF OtherEvent, vars, workerVars
<1> QED
  BY <1>2, <1>3, <1>4, <1>5, <1>6 DEF Next

(* Between two maps a worker matches at most MapEvery rotations.           *)
THEOREM MapInTime == Spec => []MapNeverOverdue
<1>1. TypeOK /\ CounterInv => MapNeverOverdue
  BY CountedInTime DEF TypeOK, CounterInv, MapNeverOverdue
<1> QED
  BY TypeInit, TypeNext, CounterInit, CounterNext, <1>1, PTL DEF Spec

----------------------------------------------------------------------------
OrderInv == \A c \in Car : Ordered(c, pose[c], rotations)

LEMMA OrderInit == Init => OrderInv
BY OrderedInit DEF Init, OrderInv

LEMMA OrderNext == TypeOK /\ TypeOK' /\ OrderInv /\ [Next]_vars => OrderInv'
<1> SUFFICES ASSUME TypeOK, TypeOK', OrderInv, [Next]_vars, NEW d \in Car
             PROVE  Ordered(d, pose[d], rotations)'
  BY DEF OrderInv
<1>1. PICK p \in Nat, n \in Nat : p = pose[d] /\ n = rotations
  BY DEF TypeOK
<1>2. WorkerTypeOK /\ WorkerTypeOK' /\ Ordered(d, p, n)
  BY <1>1 DEF TypeOK, OrderInv
<1>3. ASSUME NEW c \in Car, SpawnWorker(c) PROVE Ordered(d, pose[d], rotations)'
  BY <1>1, <1>2, <1>3, SpawnOrdered DEF SpawnWorker
<1>4. ASSUME NEW c \in Car, SubmitNext(c) PROVE Ordered(d, pose[d], rotations)'
  BY <1>1, <1>2, <1>4, SubmitOrdered DEF SubmitNext
<1>5. ASSUME NEW c \in Car, Worker(c) PROVE Ordered(d, pose[d], rotations)'
  BY <1>1, <1>2, <1>5, WorkerStepOrdered DEF Worker
<1>6. CASE ReadOutput
  <2>1. PICK q : q = IF IsTracked(Head(slam_rx), d) THEN Head(slam_rx).val ELSE p
    OBVIOUS
  <2>2. Ordered(d, q, n)'
    BY <1>2, <1>6, <2>1, RecvOrdered DEF ReadOutput
  <2>3. pose'[d] = q /\ rotations' = n
    BY <1>1, <1>6, <2>1 DEF ReadOutput
  <2> QED
    BY <2>2, <2>3
<1>7. CASE OtherEvent
  BY <1>1, <1>2, <1>7, OtherOrdered DEF OtherEvent
<1>8. CASE UNCHANGED vars
  BY <1>1, <1>2, <1>8, OtherOrdered DEF vars
<1> QED
  BY <1>3, <1>4, <1>5, <1>6, <1>7, <1>8 DEF Next

(* No rotation is matched twice and none overtakes another.                *)
THEOREM OrderKept == Spec => []RotationsInOrder
<1>1. OrderInv => RotationsInOrder
  BY DEF OrderInv, Ordered, Within, RotationsInOrder
<1> QED
  BY TypeInit, TypeNext, OrderInit, OrderNext, <1>1, PTL DEF Spec
=============================================================================
