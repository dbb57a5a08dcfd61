------------------------- MODULE MqttIngestProofs -------------------------
(***************************************************************************)
(* What holds of the subscribing MQTT client for every channel capacity    *)
(* and any number of statuses and broken links.                            *)
(***************************************************************************)
EXTENDS MqttIngest, TLAPS

(* What a queue of statuses keeps when its head is taken or one is added. *)
LEMMA StatusQueues ==
  ASSUME NEW q \in Seq(1..MaxStatuses)
  PROVE  /\ \A n \in 1..MaxStatuses : /\ Append(q, n) \in Seq(1..MaxStatuses)
                                      /\ Len(Append(q, n)) = Len(q) + 1
         /\ q # <<>> => /\ Head(q) \in 1..MaxStatuses
                        /\ Tail(q) \in Seq(1..MaxStatuses)
                        /\ Len(Tail(q)) = Len(q) - 1
         /\ <<>> \in Seq(1..MaxStatuses)
         /\ Len(q) \in Nat
  BY IngestAssumption

(* Every variable of the client keeps its type; the pipeline's channel     *)
(* stays within its capacity because the task waits (mqtt.rs:41).          *)
THEOREM TypeCorrect == Spec => []TypeOK
<1>1. Init => TypeOK
  <2>1. <<>> \in Seq(1..MaxStatuses) /\ Len(<<>>) <= ChannelCap
    BY IngestAssumption
  <2>2. 0 \in 0..MaxStatuses
    BY IngestAssumption
  <2> QED
    BY <2>1, <2>2 DEF Init, TypeOK
<1>2. TypeOK /\ [Next]_vars => TypeOK'
  <2> SUFFICES ASSUME TypeOK, [Next]_vars PROVE TypeOK'
    OBVIOUS
  <2> USE IngestAssumption
  <2>q. /\ inbox \in Seq(1..MaxStatuses) /\ rx \in Seq(1..MaxStatuses)
    BY DEF TypeOK
  <2>1. CASE Publish
    <3>1. retained' \in 1..MaxStatuses
      BY <2>1 DEF Publish, TypeOK
    <3>2. inbox' \in Seq(1..MaxStatuses)
      BY <2>1, <2>q, <3>1, StatusQueues DEF Publish
    <3> QED BY <2>1, <3>1, <3>2 DEF Publish, TypeOK
  <2>2. CASE Break
    BY <2>2 DEF Break, TypeOK
  <2>3. CASE Recv
    <3>1. /\ heard' \in 0..MaxStatuses
          /\ rx' \in Seq(1..MaxStatuses) /\ Len(rx') <= ChannelCap
      BY <2>3, <2>q, StatusQueues DEF Recv, TypeOK
    <3> QED BY <2>3, <3>1 DEF Recv, TypeOK
  <2>4. CASE PollConnAck
    BY <2>4 DEF PollConnAck, TypeOK
  <2>5. CASE PollPublish
    <3>1. event' \in 1..MaxStatuses /\ inbox' \in Seq(1..MaxStatuses)
      BY <2>5, <2>q, StatusQueues DEF PollPublish
    <3> QED BY <2>5, <3>1 DEF PollPublish, TypeOK
  <2>6. CASE PollOutgoing
    <3>1. retained # 0 => retained \in 1..MaxStatuses
      BY DEF TypeOK
    <3>2. inbox' \in Seq(1..MaxStatuses)
      BY <2>6, <2>q, <3>1, StatusQueues DEF PollOutgoing
    <3> QED BY <2>6, <3>2 DEF PollOutgoing, TypeOK
  <2>7. CASE PollError
    BY <2>7, <2>q, StatusQueues DEF PollError, TypeOK
  <2>8. CASE Send
    <3>1. event \in 1..MaxStatuses
      BY <2>8 DEF Send, TypeOK
    <3>2. rx' \in Seq(1..MaxStatuses) /\ Len(rx') <= ChannelCap
      BY <2>8, <2>q, <3>1, StatusQueues DEF Send
    <3> QED BY <2>8, <3>2 DEF Send, TypeOK
  <2>9. CASE Check
    BY <2>9 DEF Check, TypeOK
  <2>10. CASE UNCHANGED vars
    BY <2>10 DEF vars, TypeOK
  <2> QED
    BY <2>1, <2>2, <2>3, <2>4, <2>5, <2>6, <2>7, <2>8, <2>9, <2>10
    DEF Next, Ingest
<1> QED BY <1>1, <1>2, PTL DEF Spec

(* The hub is never connected and deaf, however often and wherever the     *)
(* link breaks (mqtt.rs:34-37, 54-62).  NeverDeaf is inductive on typed    *)
(* states.                                                                 *)
THEOREM HubNeverDeaf == Spec => []NeverDeaf
<1>1. Init => NeverDeaf
  BY DEF Init, NeverDeaf
<1>2. TypeOK /\ NeverDeaf /\ [Next]_vars => NeverDeaf'
  <2> SUFFICES ASSUME TypeOK, NeverDeaf, [Next]_vars PROVE NeverDeaf'
    OBVIOUS
  <2> USE DEF NeverDeaf
  <2>1. CASE Publish \/ Break \/ Recv
    BY <2>1 DEF Publish, Break, Recv
  <2>2. CASE PollConnAck
    BY <2>2 DEF PollConnAck
  <2>3. CASE PollPublish
    BY <2>3 DEF PollPublish
  <2>4. CASE PollOutgoing
    BY <2>4 DEF PollOutgoing, TypeOK
  <2>5. CASE PollError
    BY <2>5 DEF PollError
  <2>6. CASE Send
    BY <2>6 DEF Send
  <2>7. CASE Check
    BY <2>7 DEF Check, TypeOK
  <2>8. CASE UNCHANGED vars
    BY <2>8 DEF vars
  <2> QED BY <2>1, <2>2, <2>3, <2>4, <2>5, <2>6, <2>7, <2>8 DEF Next, Ingest
<1> QED BY <1>1, <1>2, TypeCorrect, PTL DEF Spec

----------------------------------------------------------------------------
(* Statuses in order: between the broker and the pipeline lie five         *)
(* sequences, each without descents and none beyond the next ones.         *)

Sorted(q) == \A i, j \in DOMAIN q : i < j => q[i] <= q[j]

Precedes(p, q) == \A i \in DOMAIN p, j \in DOMAIN q : p[i] <= q[j]

LEMMA ConcatElements ==
  ASSUME NEW p \in Seq(Nat), NEW q \in Seq(Nat)
  PROVE  /\ p \o q \in Seq(Nat)
         /\ \A i \in DOMAIN (p \o q) :
              \/ i \in DOMAIN p /\ (p \o q)[i] = p[i]
              \/ i - Len(p) \in DOMAIN q /\ (p \o q)[i] = q[i - Len(p)] /\ i > Len(p)
OBVIOUS

LEMMA AppendElements ==
  ASSUME NEW q \in Seq(Nat), NEW n \in Nat
  PROVE  /\ Append(q, n) \in Seq(Nat)
         /\ \A i \in DOMAIN Append(q, n) :
              \/ i \in DOMAIN q /\ Append(q, n)[i] = q[i]
              \/ i = Len(q) + 1 /\ Append(q, n)[i] = n
OBVIOUS

LEMMA TailElements ==
  ASSUME NEW q \in Seq(Nat), q # <<>>
  PROVE  /\ Tail(q) \in Seq(Nat) /\ Head(q) \in Nat
         /\ 1 \in DOMAIN q /\ q[1] = Head(q)
         /\ \A i \in DOMAIN Tail(q) :
              i \in Nat \ {0} /\ i + 1 \in DOMAIN q /\ Tail(q)[i] = q[i + 1]
OBVIOUS

LEMMA One ==
  ASSUME NEW n \in Nat
  PROVE  <<n>> \in Seq(Nat) /\ DOMAIN <<n>> = {1} /\ <<n>>[1] = n
OBVIOUS

LEMMA SortedConcat ==
  ASSUME NEW p \in Seq(Nat), NEW q \in Seq(Nat), Sorted(p), Sorted(q), Precedes(p, q)
  PROVE  Sorted(p \o q)
<1> SUFFICES ASSUME NEW i \in DOMAIN (p \o q), NEW j \in DOMAIN (p \o q), i < j
             PROVE  (p \o q)[i] <= (p \o q)[j]
  BY DEF Sorted
<1>1. i \in Nat /\ j \in Nat /\ Len(p) \in Nat /\ DOMAIN p = 1..Len(p)
  OBVIOUS
<1>2. CASE i \in DOMAIN p /\ j \in DOMAIN p
  <2>1. (p \o q)[i] = p[i] /\ (p \o q)[j] = p[j]
    BY <1>1, <1>2
  <2> QED
    BY <1>2, <2>1 DEF Sorted
<1>3. CASE i \in DOMAIN p /\ j \notin DOMAIN p
  <2>1. (p \o q)[i] = p[i]
    BY <1>1, <1>3
  <2>2. j - Len(p) \in DOMAIN q /\ (p \o q)[j] = q[j - Len(p)]
    BY <1>3, ConcatElements
  <2> QED
    BY <1>3, <2>1, <2>2 DEF Precedes
<1>4. CASE i \notin DOMAIN p
  <2>1. j \notin DOMAIN p
    BY <1>1, <1>4
  <2>2. /\ i - Len(p) \in DOMAIN q /\ (p \o q)[i] = q[i - Len(p)]
        /\ j - Len(p) \in DOMAIN q /\ (p \o q)[j] = q[j - Len(p)]
    BY <1>4, <2>1, ConcatElements
  <2>3. i - Len(p) < j - Len(p)
    BY <1>1
  <2> QED
    BY <2>2, <2>3 DEF Sorted
<1> QED
  BY <1>2, <1>3, <1>4

LEMMA ConcatPrecedes ==
  ASSUME NEW p \in Seq(Nat), NEW q \in Seq(Nat), NEW r \in Seq(Nat),
         Precedes(p, r), Precedes(q, r)
  PROVE  Precedes(p \o q, r)
BY ConcatElements DEF Precedes

LEMMA AppendPrecedes ==
  ASSUME NEW q \in Seq(Nat), NEW n \in Nat, NEW r \in Seq(Nat)
  PROVE  /\ Precedes(q, r) /\ Precedes(<<n>>, r) => Precedes(Append(q, n), r)
         /\ Precedes(r, q) /\ Precedes(r, <<n>>) => Precedes(r, Append(q, n))
BY AppendElements, One DEF Precedes

LEMMA SortedAppend ==
  ASSUME NEW q \in Seq(Nat), NEW n \in Nat, Sorted(q), Precedes(q, <<n>>)
  PROVE  Sorted(Append(q, n))
<1> SUFFICES ASSUME NEW i \in DOMAIN Append(q, n), NEW j \in DOMAIN Append(q, n), i < j
             PROVE  Append(q, n)[i] <= Append(q, n)[j]
  BY DEF Sorted
<1>1. DOMAIN Append(q, n) = 1..(Len(q) + 1) /\ DOMAIN q = 1..Len(q) /\ Len(q) \in Nat
  OBVIOUS
<1>2. i \in DOMAIN q /\ Append(q, n)[i] = q[i]
  BY <1>1, AppendElements
<1>3. \/ j \in DOMAIN q /\ Append(q, n)[j] = q[j]
      \/ Append(q, n)[j] = n
  BY AppendElements
<1> QED
  BY <1>2, <1>3, One DEF Sorted, Precedes

LEMMA TailPrecedes ==
  ASSUME NEW q \in Seq(Nat), NEW r \in Seq(Nat), q # <<>>
  PROVE  /\ Precedes(q, r) => Precedes(<<Head(q)>>, r) /\ Precedes(Tail(q), r)
         /\ Precedes(r, q) => Precedes(r, <<Head(q)>>) /\ Precedes(r, Tail(q))
<1>1. Head(q) \in Nat
  BY TailElements
<1> QED
  BY <1>1, TailElements, One DEF Precedes

LEMMA SortedTail ==
  ASSUME NEW q \in Seq(Nat), q # <<>>, Sorted(q)
  PROVE  Sorted(Tail(q)) /\ Precedes(<<Head(q)>>, Tail(q))
<1>1. Sorted(Tail(q))
  BY TailElements DEF Sorted
<1>2. Head(q) \in Nat
  BY TailElements
<1>3. \A i \in DOMAIN Tail(q) : Head(q) <= Tail(q)[i]
  BY TailElements DEF Sorted
<1> QED
  BY <1>1, <1>2, <1>3, One DEF Precedes

LEMMA EmptyPrecedes ==
  ASSUME NEW r \in Seq(Nat)
  PROVE  /\ <<>> \in Seq(Nat) /\ Sorted(<<>>)
         /\ Precedes(<<>>, r) /\ Precedes(r, <<>>)
BY DEF Sorted, Precedes

LEMMA OnePrecedes ==
  ASSUME NEW m \in Nat, NEW n \in Nat
  PROVE  Sorted(<<m>>) /\ (Precedes(<<m>>, <<n>>) <=> m <= n)
BY One DEF Sorted, Precedes

Handed == IF event = 0 THEN <<>> ELSE <<event>>

Chain(a, b, c, d, e) ==
  /\ Sorted(b) /\ Sorted(d)
  /\ Precedes(a, b) /\ Precedes(a, c) /\ Precedes(a, d) /\ Precedes(a, e)
  /\ Precedes(b, c) /\ Precedes(b, d) /\ Precedes(b, e)
  /\ Precedes(c, d) /\ Precedes(c, e)
  /\ Precedes(d, e)

Ordered == Chain(<<heard>>, rx, Handed, inbox, <<retained>>)

LEMMA StatusTypes ==
  ASSUME TypeOK
  PROVE  /\ heard \in Nat /\ retained \in Nat /\ event \in Nat
         /\ rx \in Seq(Nat) /\ inbox \in Seq(Nat)
         /\ Handed \in Seq(Nat) /\ Sorted(Handed)
         /\ <<heard>> \in Seq(Nat) /\ <<retained>> \in Seq(Nat)
<1>1. heard \in Nat /\ retained \in Nat /\ event \in Nat
  BY IngestAssumption DEF TypeOK
<1>2. \A q \in Seq(1..MaxStatuses) : q \in Seq(Nat)
  BY IngestAssumption
<1>3. rx \in Seq(Nat) /\ inbox \in Seq(Nat)
  BY <1>2 DEF TypeOK
<1>4. Handed \in Seq(Nat) /\ Sorted(Handed)
  BY <1>1, One, OnePrecedes, EmptyPrecedes DEF Handed
<1> QED
  BY <1>1, <1>3, <1>4, One

LEMMA OrderedNext ==
  ASSUME TypeOK, TypeOK', Ordered, [Next]_vars
  PROVE  Ordered'
<1>t. /\ heard \in Nat /\ retained \in Nat /\ event \in Nat
      /\ rx \in Seq(Nat) /\ inbox \in Seq(Nat) /\ Handed \in Seq(Nat)
      /\ <<heard>> \in Seq(Nat) /\ <<retained>> \in Seq(Nat) /\ <<>> \in Seq(Nat)
  BY StatusTypes, EmptyPrecedes
<1>o. Chain(<<heard>>, rx, Handed, inbox, <<retained>>)
  BY DEF Ordered
<1>1. CASE Publish
  <2>1. retained' = retained + 1 /\ UNCHANGED <<heard, rx, Handed>>
    BY <1>1 DEF Publish, Handed
  <2>2. retained' \in Nat /\ <<retained'>> \in Seq(Nat)
    BY <1>t, <2>1, One
  <2>3. ASSUME NEW q \in Seq(Nat), Precedes(q, <<retained>>)
        PROVE  Precedes(q, <<retained'>>)
    BY <1>t, <2>1, <2>2, <2>3, One DEF Precedes
  <2>4. /\ Precedes(<<heard>>, <<retained'>>) /\ Precedes(rx, <<retained'>>)
        /\ Precedes(Handed, <<retained'>>) /\ Precedes(inbox, <<retained'>>)
    BY <1>t, <1>o, <2>3 DEF Chain
  <2>5. CASE inbox' = inbox
    BY <1>o, <2>1, <2>4, <2>5 DEF Ordered, Chain
  <2>6. CASE inbox' = Append(inbox, retained')
    <3>1. Sorted(inbox')
      BY <1>t, <1>o, <2>2, <2>4, <2>6, SortedAppend DEF Chain
    <3>2. /\ Precedes(<<heard>>, inbox') /\ Precedes(rx, inbox')
          /\ Precedes(Handed, inbox')
      BY <1>t, <1>o, <2>2, <2>4, <2>6, AppendPrecedes DEF Chain
    <3>3. Precedes(<<retained'>>, <<retained'>>)
      BY <2>2, OnePrecedes
    <3>4. Precedes(inbox', <<retained'>>)
      BY <1>t, <2>2, <2>4, <2>6, <3>3, AppendPrecedes
    <3> QED
      BY <1>o, <2>1, <2>4, <3>1, <3>2, <3>4 DEF Ordered, Chain
  <2> QED
    BY <1>1, <2>5, <2>6 DEF Publish
<1>2. CASE Break \/ PollConnAck \/ Check \/ UNCHANGED vars
  BY <1>2, <1>o DEF Break, PollConnAck, Check, vars, Ordered, Handed
<1>3. CASE Recv
  <2>1. /\ rx # <<>> /\ heard' = Head(rx) /\ rx' = Tail(rx)
        /\ UNCHANGED <<Handed, inbox, retained>>
    BY <1>3 DEF Recv, Handed
  <2>2. Sorted(Tail(rx)) /\ Precedes(<<Head(rx)>>, Tail(rx))
    BY <1>t, <1>o, <2>1, SortedTail DEF Chain
  <2>3. ASSUME NEW r \in Seq(Nat), Precedes(rx, r)
        PROVE  Precedes(<<Head(rx)>>, r) /\ Precedes(Tail(rx), r)
    BY <1>t, <2>1, <2>3, TailPrecedes
  <2> QED
    BY <1>t, <1>o, <2>1, <2>2, <2>3 DEF Ordered, Chain
<1>4. CASE PollPublish
  <2>1. /\ inbox # <<>> /\ inbox' = Tail(inbox) /\ event' = Head(inbox)
        /\ UNCHANGED <<heard, rx, retained>>
    BY <1>4 DEF PollPublish
  <2>2. Handed' = <<Head(inbox)>>
    BY <1>4, <2>1 DEF PollPublish, Handed, TypeOK
  <2>3. Sorted(Tail(inbox)) /\ Precedes(<<Head(inbox)>>, Tail(inbox))
    BY <1>t, <1>o, <2>1, SortedTail DEF Chain
  <2>4. ASSUME NEW r \in Seq(Nat), Precedes(r, inbox)
        PROVE  Precedes(r, <<Head(inbox)>>) /\ Precedes(r, Tail(inbox))
    BY <1>t, <2>1, <2>4, TailPrecedes
  <2>5. Precedes(<<Head(inbox)>>, <<retained>>) /\ Precedes(Tail(inbox), <<retained>>)
    BY <1>t, <1>o, <2>1, TailPrecedes DEF Chain
  <2> QED
    BY <1>t, <1>o, <2>1, <2>2, <2>3, <2>4, <2>5 DEF Ordered, Chain
<1>5. CASE PollOutgoing
  <2>1. UNCHANGED <<heard, rx, Handed, retained>>
    BY <1>5 DEF PollOutgoing, Handed
  <2>2. CASE inbox' = inbox
    BY <1>o, <2>1, <2>2 DEF Ordered, Chain
  <2>3. CASE inbox' = Append(inbox, retained)
    <3>1. Sorted(inbox')
      BY <1>t, <1>o, <2>3, SortedAppend DEF Chain
    <3>2. /\ Precedes(<<heard>>, inbox') /\ Precedes(rx, inbox')
          /\ Precedes(Handed, inbox')
      BY <1>t, <1>o, <2>3, AppendPrecedes DEF Chain
    <3>3. Precedes(<<retained>>, <<retained>>)
      BY <1>t, OnePrecedes
    <3>4. Precedes(inbox', <<retained>>)
      BY <1>t, <1>o, <2>3, <3>3, AppendPrecedes DEF Chain
    <3> QED
      BY <1>o, <2>1, <3>1, <3>2, <3>4 DEF Ordered, Chain
  <2> QED
    BY <1>5, <2>2, <2>3 DEF PollOutgoing
<1>6. CASE PollError
  <2>1. inbox' = <<>> /\ UNCHANGED <<heard, rx, Handed, retained>>
    BY <1>6 DEF PollError, Handed
  <2> QED
    BY <1>t, <1>o, <2>1, EmptyPrecedes DEF Ordered, Chain
<1>7. CASE Send
  <2>1. /\ rx' = Append(rx, event) /\ event' = 0
        /\ UNCHANGED <<heard, inbox, retained>>
    BY <1>7 DEF Send
  <2>2. Handed = <<event>> /\ Handed' = <<>>
    BY <1>7, <2>1 DEF Send, Handed, TypeOK
  <2>3. Sorted(rx')
    BY <1>t, <1>o, <2>1, <2>2, SortedAppend DEF Chain
  <2>4. /\ Precedes(<<heard>>, rx') /\ Precedes(rx', inbox)
        /\ Precedes(rx', <<retained>>)
    BY <1>t, <1>o, <2>1, <2>2, AppendPrecedes DEF Chain
  <2>5. rx' \in Seq(Nat)
    BY <1>t, <2>1
  <2> QED
    BY <1>t, <1>o, <2>1, <2>2, <2>3, <2>4, <2>5, EmptyPrecedes DEF Ordered, Chain
<1> QED
  BY <1>1, <1>2, <1>3, <1>4, <1>5, <1>6, <1>7 DEF Next, Ingest

(* A status the pipeline has, or will get, is never followed by an older   *)
(* one, however often the retained one is sent again (mqtt.rs:38-46).      *)
THEOREM HubStatusesInOrder == Spec => []StatusesInOrder
<1>1. Init => Ordered
  <2> SUFFICES ASSUME Init PROVE Ordered
    OBVIOUS
  <2>1. heard = 0 /\ retained = 0 /\ rx = <<>> /\ inbox = <<>> /\ Handed = <<>>
    BY DEF Init, Handed
  <2>2. <<0>> \in Seq(Nat) /\ Precedes(<<0>>, <<0>>) /\ <<>> \in Seq(Nat)
    BY One, OnePrecedes, EmptyPrecedes
  <2> QED
    BY <2>1, <2>2, EmptyPrecedes DEF Ordered, Chain
<1>2. TypeOK /\ Ordered => StatusesInOrder
  <2> SUFFICES ASSUME TypeOK, Ordered PROVE StatusesInOrder
    OBVIOUS
  <2> DEFINE two == <<heard>> \o rx
             three == two \o Handed
             four == three \o inbox
             five == four \o <<retained>>
  <2>t. /\ heard \in Nat /\ retained \in Nat /\ rx \in Seq(Nat) /\ inbox \in Seq(Nat)
        /\ Handed \in Seq(Nat) /\ Sorted(Handed)
        /\ <<heard>> \in Seq(Nat) /\ <<retained>> \in Seq(Nat)
    BY StatusTypes
  <2>o. Chain(<<heard>>, rx, Handed, inbox, <<retained>>)
    BY DEF Ordered
  <2>1. Sorted(<<heard>>) /\ Sorted(<<retained>>)
    BY <2>t, OnePrecedes
  <2>2. /\ two \in Seq(Nat) /\ Sorted(two) /\ Precedes(two, Handed)
        /\ Precedes(two, inbox) /\ Precedes(two, <<retained>>)
    BY <2>t, <2>o, <2>1, ConcatElements, SortedConcat, ConcatPrecedes DEF Chain
  <2> HIDE DEF two
  <2>3. /\ three \in Seq(Nat) /\ Sorted(three)
        /\ Precedes(three, inbox) /\ Precedes(three, <<retained>>)
    BY <2>t, <2>o, <2>2, ConcatElements, SortedConcat, ConcatPrecedes DEF Chain
  <2> HIDE DEF three
  <2>4. four \in Seq(Nat) /\ Sorted(four) /\ Precedes(four, <<retained>>)
    BY <2>t, <2>o, <2>3, ConcatElements, SortedConcat, ConcatPrecedes DEF Chain
  <2> HIDE DEF four
  <2>5. Sorted(five)
    BY <2>t, <2>1, <2>4, SortedConcat
  <2>6. StatusesInOrder <=> Sorted(five)
    BY DEF StatusesInOrder, Sorted, Handed, two, three, four
  <2> QED
    BY <2>5, <2>6
<1>3. TypeOK /\ TypeOK' /\ Ordered /\ [Next]_vars => Ordered'
  BY OrderedNext
<1> QED
  BY <1>1, <1>2, <1>3, TypeCorrect, PTL DEF Spec
=============================================================================
