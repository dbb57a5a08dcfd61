--------------------------- MODULE SessionProofs ---------------------------
(***************************************************************************)
(* For any lengths, capacities, interval of flushes and number of events:  *)
(* what is recorded reads back, and plays back, as it was, up to where an  *)
(* I/O error or a kill cut it off.                                         *)
(*                                                                         *)
(* The argument is one of positions: record n begins after start[n] bytes, *)
(* every byte of a record that no error touched lies in its place, and the *)
(* reader stands where a record begins.                                    *)
(***************************************************************************)
EXTENDS Replay, SequenceTheorems, TLAPS

----------------------------------------------------------------------------
(* Sequences. *)

LEMMA Split ==
  ASSUME NEW S, NEW p \in Seq(S), NEW q \in Seq(S), NEW k \in 0..Len(q)
  PROVE  (p \o SubSeq(q, 1, k)) \o SubSeq(q, k + 1, Len(q)) = p \o q
<1> DEFINE a == SubSeq(q, 1, k)
           b == SubSeq(q, k + 1, Len(q))
<1>1. \A i \in 1..Len(q) : q[i] \in S
  BY ElementOfSeq
<1>2. Len(q) \in Nat
  BY LenProperties
<1>3. a \in Seq(S) /\ b \in Seq(S)
  BY <1>1, <1>2, SubSeqProperties
<1>4. a \o b = q
  <2>1. 1 \in 1..(Len(q) + 1) /\ k \in (1 - 1)..Len(q) /\ Len(q) \in k..Len(q)
    BY <1>2
  <2>2. a \o b = SubSeq(q, 1, Len(q))
    BY <2>1, ConcatAdjacentSubSeq
  <2> QED
    BY <2>2, SubSeqFull
<1> HIDE DEF a, b
<1>5. (p \o a) \o b = p \o (a \o b)
  BY <1>3, ConcatAssociative, SMTT(30)
<1>6. (p \o a) \o b = p \o q
  BY <1>4, <1>5
<1> QED
  BY <1>6 DEF a, b

LEMMA PartOf ==
  ASSUME NEW S, NEW q \in Seq(S), NEW a \in Nat \ {0}, NEW b \in Nat,
         a <= b + 1, b <= Len(q)
  PROVE  /\ SubSeq(q, a, b) \in Seq(S)
         /\ Len(SubSeq(q, a, b)) = b + 1 - a
         /\ DOMAIN SubSeq(q, a, b) = 1..(b + 1 - a)
         /\ \A i \in 1..(b + 1 - a) : SubSeq(q, a, b)[i] = q[a + i - 1]
<1>1. \A i \in 1..Len(q) : q[i] \in S
  BY ElementOfSeq
<1>2. Len(q) \in Nat
  BY LenProperties
<1>3. \A i \in a..b : q[i] \in S
  BY <1>1, <1>2
<1>4. b - a + 1 = b + 1 - a /\ (a > b => b + 1 - a = 0)
  OBVIOUS
<1>5. SubSeq(q, a, b) \in Seq(S)
  BY <1>3, SubSeqProperties
<1>6. Len(SubSeq(q, a, b)) = b + 1 - a
  BY <1>3, <1>4, SubSeqProperties
<1>7. \A i \in 1..(b - a + 1) : SubSeq(q, a, b)[i] = q[a + i - 1]
  BY <1>3, SubSeqProperties
<1> QED
  BY <1>4, <1>5, <1>6, <1>7, LenProperties

LEMMA Joined ==
  ASSUME NEW S, NEW p \in Seq(S), NEW q \in Seq(S)
  PROVE  /\ p \o q \in Seq(S)
         /\ Len(p \o q) = Len(p) + Len(q)
         /\ \A i \in 1..Len(p) : (p \o q)[i] = p[i]
         /\ \A i \in (Len(p) + 1)..(Len(p) + Len(q)) :
              i - Len(p) \in 1..Len(q) /\ (p \o q)[i] = q[i - Len(p)]
<1>1. Len(p) \in Nat /\ Len(q) \in Nat
  BY LenProperties
<1> QED
  BY <1>1, ConcatProperties

LEMMA Tabulated ==
  ASSUME NEW S, NEW n \in Nat, NEW q \in [1..n -> S]
  PROVE  q \in Seq(S) /\ Len(q) = n /\ DOMAIN q = 1..n
OBVIOUS

----------------------------------------------------------------------------
(* The recorder's types. *)

Intact(n) == failed = 0 \/ n < failed

Size(n) == HeaderLen + lens[n]

LEMMA Sizes ==
  ASSUME TypeOK, NEW n \in DOMAIN lens
  PROVE  /\ lens[n] \in Nat \ {0} /\ lens[n] \in PayloadLens
         /\ Size(n) \in Nat /\ Size(n) > HeaderLen
         /\ n \in Nat \ {0} /\ n <= Len(lens)
<1>1. /\ DOMAIN lens = 1..Len(lens) /\ Len(lens) \in Nat
      /\ \A i \in 1..Len(lens) : lens[i] \in PayloadLens
  BY ElementOfSeq, LenProperties DEF TypeOK
<1>2. lens[n] \in PayloadLens /\ lens[n] \in Nat \ {0} /\ HeaderLen \in Nat \ {0}
  BY <1>1, RecorderAssumption
<1> QED
  BY <1>1, <1>2 DEF Size

LEMMA ChunkTypes ==
  ASSUME TypeOK, NEW n \in DOMAIN lens
  PROVE  /\ Header(n) \in Seq(Byte) /\ Len(Header(n)) = HeaderLen
         /\ DOMAIN Header(n) = 1..HeaderLen
         /\ Payload(n) \in Seq(Byte) /\ Len(Payload(n)) = lens[n]
         /\ DOMAIN Payload(n) = 1..lens[n]
<1>1. HeaderLen \in Nat /\ lens[n] \in Nat /\ n \in Nat \ {0}
  BY Sizes, RecorderAssumption
<1>2. \A i \in 1..HeaderLen : [rec |-> n, at |-> i] \in Byte
  BY <1>1 DEF Byte
<1>3. \A i \in 1..lens[n] : [rec |-> n, at |-> HeaderLen + i] \in Byte
  BY <1>1 DEF Byte
<1>4. Header(n) \in [1..HeaderLen -> Byte] /\ Payload(n) \in [1..lens[n] -> Byte]
  BY <1>2, <1>3 DEF Header, Payload
<1> QED
  BY <1>1, <1>4, Tabulated

(* Where the writer is in its work. *)
Progress ==
  /\ Writing => lens # <<>> /\ records < Len(lens)
  /\ pc = "header" => sent = 0
  /\ sent > 0 => /\ pc \in {"payload", "killed"} /\ buf = <<>>
                 /\ lens # <<>> /\ BufferCap <= lens[Len(lens)]
                 /\ sent < lens[Len(lens)]
  /\ pc \notin Ended => reader = "reading" /\ pos = 0 /\ events = <<>>

LEMMA LastLength ==
  ASSUME TypeOK, lens # <<>>
  PROVE  Len(lens) \in DOMAIN lens /\ Len(lens) \in Nat \ {0}
BY DEF TypeOK

LEMMA ChunkIsBytes ==
  ASSUME TypeOK, Progress, Writing
  PROVE  /\ Chunk \in Seq(Byte) /\ DOMAIN Chunk = 1..Len(Chunk)
         /\ Len(Chunk) = IF pc = "header" THEN HeaderLen ELSE lens[Len(lens)]
         /\ Len(Chunk) \in Nat \ {0}
         /\ \A i \in 1..Len(Chunk) : Chunk[i] =
              [rec |-> Len(lens), at |-> IF pc = "header" THEN i ELSE HeaderLen + i]
<1>1. Len(lens) \in DOMAIN lens
  BY LastLength DEF Progress
<1>2. HeaderLen \in Nat \ {0} /\ lens[Len(lens)] \in Nat \ {0}
  BY <1>1, Sizes, RecorderAssumption
<1>3. CASE pc = "header"
  BY <1>1, <1>2, <1>3, ChunkTypes DEF Chunk, Header
<1>4. CASE pc # "header"
  BY <1>1, <1>2, <1>4, ChunkTypes DEF Chunk, Payload
<1> QED
  BY <1>3, <1>4

----------------------------------------------------------------------------
(* Where the bytes are. *)

Stream == file \o buf

(* Record n begins after start[n] bytes; the last place is the end. *)
Places(start) ==
  /\ start \in [1..(Len(lens) + 1) -> Nat]
  /\ start[1] = 0
  /\ \A n \in DOMAIN lens : start[n + 1] = start[n] + Size(n)
  /\ \A m, n \in 1..(Len(lens) + 1) : m <= n => start[m] <= start[n]

InPlace(start) ==
  \A i \in DOMAIN Stream :
    /\ Stream[i].rec \in DOMAIN lens
    /\ Intact(Stream[i].rec) =>
         /\ Stream[i].at <= Size(Stream[i].rec)
         /\ i = start[Stream[i].rec] + Stream[i].at

InOrder ==
  \A i, j \in DOMAIN Stream : i < j => Stream[i].rec <= Stream[j].rec

(* How many bytes write_all has been given so far. *)
Given(start) ==
  LET n == Len(lens)
  IN IF pc = "header" THEN start[n]
     ELSE IF pc = "payload" THEN start[n] + HeaderLen + sent
     ELSE start[n + 1]

AllThere(start) ==
  failed = 0 /\ pc # "killed" =>
    /\ Len(Stream) = Given(start)
    /\ pc = "closed" => buf = <<>>

(* No flush was due after record m, whose bytes the system has. *)
Flushed(start) ==
  failed = 0 =>
    \E m \in 0..records :
      /\ start[m + 1] <= Len(file)
      /\ \A k \in (m + 1)..records :
           k < records \/ pc \in {"idle", "header", "payload"} => ~FlushDue(k)

(* read_all has decoded the first records and stands behind them. *)
ReadSoFar(start) ==
  failed = 0 =>
    LET k == Len(events)
    IN /\ k <= Len(lens)
       /\ \A i \in 1..k : events[i] = i
       /\ reader # "error"
       /\ reader \in {"reading", "end"} => pos = start[k + 1]
       /\ reader = "end" => Len(file) < start[k + 1] + HeaderLen
       /\ reader = "truncated" => k < Len(lens) /\ Len(file) < start[k + 2]

LaidOut(start) ==
  Places(start) /\ InPlace(start) /\ AllThere(start) /\ Flushed(start) /\ ReadSoFar(start)

Counted ==
  failed = 0 /\ pc # "killed" =>
    Len(lens) = IF Writing THEN records + 1 ELSE records

RecorderInv ==
  /\ TypeOK /\ Progress /\ Counted /\ InOrder
  /\ \E start \in [1..(Len(lens) + 1) -> Nat] : LaidOut(start)

LEMMA Lengths ==
  ASSUME TypeOK
  PROVE  /\ Len(lens) \in Nat /\ DOMAIN lens = 1..Len(lens)
         /\ Len(file) \in Nat /\ DOMAIN file = 1..Len(file)
         /\ Len(buf) \in Nat /\ DOMAIN buf = 1..Len(buf)
         /\ Len(events) \in Nat /\ DOMAIN events = 1..Len(events)
         /\ HeaderLen \in Nat \ {0} /\ BufferCap \in Nat
BY LenProperties, RecorderAssumption DEF TypeOK

LEMMA StreamIsBytes ==
  ASSUME TypeOK
  PROVE  /\ Stream \in Seq(Byte)
         /\ Len(Stream) = Len(file) + Len(buf)
         /\ DOMAIN Stream = 1..Len(Stream)
         /\ \A i \in DOMAIN Stream :
              Stream[i].rec \in Nat \ {0} /\ Stream[i].at \in Nat \ {0}
         /\ \A i \in DOMAIN file : i \in DOMAIN Stream /\ Stream[i] = file[i]
<1>1. file \in Seq(Byte) /\ buf \in Seq(Byte)
  BY DEF TypeOK
<1>2. /\ Stream \in Seq(Byte)
      /\ Len(Stream) = Len(file) + Len(buf)
      /\ \A i \in 1..Len(file) : Stream[i] = file[i]
  BY <1>1, Joined DEF Stream
<1>3. DOMAIN Stream = 1..Len(Stream) /\ \A i \in 1..Len(Stream) : Stream[i] \in Byte
  BY <1>2, LenProperties, ElementOfSeq
<1>4. \A b \in Byte : b.rec \in Nat \ {0} /\ b.at \in Nat \ {0}
  BY DEF Byte
<1>5. \A i \in DOMAIN file : i \in 1..Len(file) /\ i \in 1..Len(Stream)
  <2>1. /\ DOMAIN file = 1..Len(file) /\ Len(file) \in Nat /\ Len(buf) \in Nat
        /\ Len(Stream) = Len(file) + Len(buf)
    BY <1>2, Lengths
  <2> HIDE DEF Stream
  <2> QED
    BY <2>1
<1> QED
  BY <1>2, <1>3, <1>4, <1>5

LEMMA RecordPlaces ==
  ASSUME TypeOK, NEW start, Places(start), NEW n \in DOMAIN lens
  PROVE  /\ start[n] \in Nat /\ start[n + 1] \in Nat
         /\ start[n + 1] = start[n] + HeaderLen + lens[n]
         /\ start[n] + HeaderLen < start[n + 1]
         /\ n + 1 \in 1..(Len(lens) + 1) /\ n \in 1..Len(lens)
<1>1. n \in 1..Len(lens) /\ Len(lens) \in Nat
  BY Lengths
<1>2. lens[n] \in Nat \ {0} /\ HeaderLen \in Nat
  BY Sizes, Lengths
<1>3. n \in 1..(Len(lens) + 1) /\ n + 1 \in 1..(Len(lens) + 1)
  BY <1>1
<1>4. start[n] \in Nat /\ start[n + 1] \in Nat
  BY <1>3 DEF Places
<1>5. start[n + 1] = start[n] + (HeaderLen + lens[n])
  BY DEF Places, Size
<1> QED
  BY <1>1, <1>2, <1>3, <1>4, <1>5

LEMMA PlacesInOrder ==
  ASSUME TypeOK, NEW start, Places(start),
         NEW m \in 1..(Len(lens) + 1), NEW n \in 1..(Len(lens) + 1)
  PROVE  /\ start[m] \in Nat /\ start[n] \in Nat
         /\ m <= n => start[m] <= start[n]
         /\ m < n => start[m] + HeaderLen < start[n]
         /\ start[m] < start[n] => m < n
<1>1. Len(lens) \in Nat
  BY Lengths
<1>2. start[m] \in Nat /\ start[n] \in Nat
  BY DEF Places
<1>3. \A k, l \in 1..(Len(lens) + 1) : k <= l => start[k] <= start[l]
  BY DEF Places
<1>4. ASSUME m < n PROVE start[m] + HeaderLen < start[n]
  <2>1. m \in DOMAIN lens
    BY <1>1, <1>4, Lengths
  <2>2. m + 1 \in 1..(Len(lens) + 1) /\ m + 1 <= n
    BY <1>1, <1>4
  <2>3. start[m + 1] <= start[n] /\ start[m + 1] \in Nat
    BY <1>3, <2>1, <2>2, RecordPlaces
  <2> QED
    BY <1>2, <2>1, <2>3, RecordPlaces, Lengths, SMTT(30)
<1> QED
  BY <1>2, <1>3, <1>4

(* The byte at a place of record n is a byte of record n. *)
LEMMA FoundInPlace ==
  ASSUME TypeOK, failed = 0, NEW start, Places(start), InPlace(start),
         NEW n \in DOMAIN lens, NEW p \in DOMAIN Stream,
         start[n] < p, p <= start[n + 1]
  PROVE  Stream[p].rec = n /\ p = start[n] + Stream[p].at
<1> DEFINE m == Stream[p].rec
<1>1. /\ m \in DOMAIN lens /\ Stream[p].at \in Nat \ {0} /\ p \in Nat
      /\ Stream[p].at <= Size(m) /\ p = start[m] + Stream[p].at
  BY StreamIsBytes DEF InPlace, Intact
<1>2. Size(m) = HeaderLen + lens[m] /\ Size(m) \in Nat
  BY <1>1, Sizes DEF Size
<1> HIDE DEF m
<1>a. ASSUME NEW k \in DOMAIN lens
      PROVE  /\ start[k + 1] = start[k] + HeaderLen + lens[k]
             /\ start[k] \in Nat /\ start[k + 1] \in Nat
             /\ k \in 1..(Len(lens) + 1) /\ k + 1 \in 1..(Len(lens) + 1)
  <2>1. k \in 1..Len(lens) /\ Len(lens) \in Nat
    BY Lengths
  <2>2. k \in 1..(Len(lens) + 1)
    BY <2>1
  <2> QED
    BY <2>2, RecordPlaces
<1>3. /\ start[m + 1] = start[m] + HeaderLen + lens[m]
      /\ start[m] \in Nat /\ start[m + 1] \in Nat
      /\ m \in 1..(Len(lens) + 1) /\ m + 1 \in 1..(Len(lens) + 1)
  BY <1>1, <1>a
<1>4. /\ start[n] \in Nat /\ start[n + 1] \in Nat
      /\ n \in 1..(Len(lens) + 1) /\ n + 1 \in 1..(Len(lens) + 1)
  BY <1>a
<1>5. lens[m] \in Nat /\ HeaderLen \in Nat
  BY <1>1, Sizes, Lengths
<1>6. start[m] < p /\ p <= start[m + 1]
  BY <1>1, <1>2, <1>3, <1>5, SMTT(30)
<1>7. start[m] < start[n + 1] /\ start[n] < start[m + 1]
  BY <1>1, <1>3, <1>4, <1>6
<1>8. m < n + 1
  BY <1>3, <1>4, <1>7, PlacesInOrder
<1>9. n < m + 1
  BY <1>3, <1>4, <1>7, PlacesInOrder
<1>10. m \in Nat /\ n \in Nat
  BY <1>3, <1>4, Lengths
<1>11. m = n
  BY <1>8, <1>9, <1>10
<1> QED
  BY <1>1, <1>11 DEF m

(* Bytes of the newest record, put in their place, disturb nothing. *)
LEMMA Extended ==
  ASSUME TypeOK, lens # <<>>, NEW start, Places(start), InPlace(start), InOrder,
         NEW more \in Seq(Byte), Stream' = Stream \o more, UNCHANGED <<lens, failed>>,
         \A i \in 1..Len(more) :
           /\ more[i].rec = Len(lens)
           /\ failed = 0 => /\ more[i].at <= Size(Len(lens))
                            /\ Len(Stream) + i = start[Len(lens)] + more[i].at
  PROVE  InPlace(start)' /\ InOrder'
<1>1. /\ Stream' \in Seq(Byte) /\ Len(Stream') = Len(Stream) + Len(more)
      /\ \A i \in 1..Len(Stream) : Stream'[i] = Stream[i]
      /\ \A i \in (Len(Stream) + 1)..(Len(Stream) + Len(more)) :
           i - Len(Stream) \in 1..Len(more) /\ Stream'[i] = more[i - Len(Stream)]
  BY StreamIsBytes, Joined
<1>2. /\ Len(Stream) \in Nat /\ Len(more) \in Nat /\ Len(lens) \in DOMAIN lens
      /\ Len(lens) \in Nat /\ failed \in Nat /\ failed <= Len(lens)
  BY StreamIsBytes, LenProperties, LastLength DEF TypeOK
<1>3. DOMAIN Stream' = 1..(Len(Stream) + Len(more))
  BY <1>1, LenProperties
<1>d. DOMAIN Stream = 1..Len(Stream) /\ DOMAIN lens = 1..Len(lens)
  BY StreamIsBytes, Lengths
<1>4. \A i \in 1..Len(Stream) : Stream[i].rec \in DOMAIN lens /\ Stream[i].rec <= Len(lens)
  BY <1>2, <1>d DEF InPlace
<1>5. \A i \in (Len(Stream) + 1)..(Len(Stream) + Len(more)) :
        /\ Stream'[i].rec = Len(lens)
        /\ failed = 0 => /\ Stream'[i].at <= Size(Len(lens))
                         /\ i = start[Len(lens)] + Stream'[i].at
  <2> TAKE i \in (Len(Stream) + 1)..(Len(Stream) + Len(more))
  <2>1. i - Len(Stream) \in 1..Len(more) /\ Stream'[i] = more[i - Len(Stream)]
    BY <1>1
  <2>2. Len(Stream) + (i - Len(Stream)) = i
    BY <1>2
  <2> QED
    BY <2>1, <2>2
<1>6. Intact(Len(lens)) => failed = 0
  BY <1>2 DEF Intact
<1>7. InPlace(start)'
  <2> SUFFICES ASSUME NEW i \in 1..(Len(Stream) + Len(more))
               PROVE  /\ Stream'[i].rec \in DOMAIN lens
                      /\ Intact(Stream'[i].rec) =>
                           /\ Stream'[i].at <= Size(Stream'[i].rec)
                           /\ i = start[Stream'[i].rec] + Stream'[i].at
    BY <1>3 DEF InPlace, Intact, Size
  <2>1. CASE i \in 1..Len(Stream)
    BY <1>1, <2>1, StreamIsBytes DEF InPlace
  <2>2. CASE i \in (Len(Stream) + 1)..(Len(Stream) + Len(more))
    BY <1>2, <1>5, <1>6, <2>2
  <2> QED
    BY <1>2, <2>1, <2>2
<1>8. InOrder'
  <2> SUFFICES ASSUME NEW i \in 1..(Len(Stream) + Len(more)),
                      NEW j \in 1..(Len(Stream) + Len(more)), i < j
               PROVE  Stream'[i].rec <= Stream'[j].rec
    BY <1>3 DEF InOrder
  <2>1. CASE j \in 1..Len(Stream)
    <3>1. i \in 1..Len(Stream)
      BY <1>2, <2>1
    <3>2. Stream'[i] = Stream[i] /\ Stream'[j] = Stream[j]
      BY <1>1, <2>1, <3>1
    <3> QED
      BY <1>d, <2>1, <3>1, <3>2 DEF InOrder
  <2>2. CASE j \in (Len(Stream) + 1)..(Len(Stream) + Len(more))
    <3>1. Stream'[j].rec = Len(lens)
      BY <1>5, <2>2
    <3>2. Stream'[i].rec <= Len(lens)
      BY <1>1, <1>2, <1>4, <1>5
    <3> QED
      BY <3>1, <3>2
  <2> QED
    BY <1>2, <2>1, <2>2
<1> QED
  BY <1>7, <1>8

----------------------------------------------------------------------------
(* The writer's and the reader's steps: types and counts. *)

Stepping == TypeOK /\ Progress /\ Counted

LEMMA SteppingInit == Init => Stepping
<1> SUFFICES ASSUME Init PROVE Stepping
  OBVIOUS
<1>1. /\ pc = "idle" /\ lens = <<>> /\ buf = <<>> /\ file = <<>>
      /\ flushing = FALSE /\ sent = 0 /\ records = 0 /\ failed = 0
      /\ reader = "reading" /\ pos = 0 /\ events = <<>>
  BY DEF Init
<1>2. TypeOK
  <2>1. /\ lens \in Seq(PayloadLens) /\ buf \in Seq(Byte) /\ file \in Seq(Byte)
        /\ events \in Seq(0..Len(lens))
        /\ Len(lens) = 0 /\ Len(buf) = 0 /\ Len(file) = 0
    BY <1>1
  <2>2. /\ Len(buf) <= BufferCap /\ records \in 0..Len(lens) /\ failed \in 0..Len(lens)
        /\ pos \in 0..Len(file) /\ sent \in Nat
    BY <1>1, <2>1, RecorderAssumption
  <2>3. /\ pc \in {"idle", "header", "payload", "flush", "drop", "close"} \cup Ended
        /\ reader \in {"reading", "end", "truncated", "error"}
        /\ flushing \in BOOLEAN
    BY <1>1
  <2> QED
    BY <2>1, <2>2, <2>3 DEF TypeOK
<1>3. Progress /\ Counted
  BY <1>1 DEF Progress, Counted, Writing
<1> QED
  BY <1>2, <1>3 DEF Stepping

LEMMA SteppingWrite ==
  ASSUME Stepping, NEW len \in PayloadLens, Write(len)
  PROVE  Stepping'
<1>1. /\ lens \in Seq(PayloadLens) /\ lens' = Append(lens, len) /\ pc = "idle"
      /\ pc' = "header" /\ UNCHANGED <<buf, flushing, sent, file, records, failed, reader, pos, events>>
  BY DEF Write, Stepping, TypeOK, readerVars
<1>2. lens' \in Seq(PayloadLens) /\ Len(lens') = Len(lens) + 1 /\ Len(lens) \in Nat
      /\ lens' # <<>>
  BY <1>1
<1>3. events = <<>> /\ pos = 0 /\ reader = "reading" /\ ~(sent > 0) /\ sent \in Nat
  BY <1>1 DEF Stepping, Progress, Ended, TypeOK
<1>4. TypeOK'
  BY <1>1, <1>2, <1>3 DEF Stepping, TypeOK, Ended
<1>5. Progress'
  BY <1>1, <1>2, <1>3 DEF Stepping, TypeOK, Progress, Writing, Ended
<1>6. Counted'
  BY <1>1, <1>2 DEF Stepping, TypeOK, Counted, Writing
<1> QED
  BY <1>4, <1>5, <1>6 DEF Stepping

(* What the end of a chunk leaves alone and where it leads. *)
LEMMA ChunkDoneSteps ==
  ASSUME Stepping, Writing, ChunkDone, UNCHANGED <<lens, failed, reader, pos, events>>,
         buf' \in Seq(Byte), Len(buf') <= BufferCap, flushing' = flushing,
         file' \in Seq(Byte), Len(file) <= Len(file')
  PROVE  Stepping'
<1>1. /\ lens # <<>> /\ records < Len(lens) /\ Len(lens) \in Nat /\ records \in Nat
      /\ failed = 0 => Len(lens) = records + 1
      /\ reader = "reading" /\ pos = 0 /\ events = <<>>
  BY LenProperties DEF Stepping, TypeOK, Progress, Counted, Writing, Ended
<1>2. sent' = 0
  BY DEF ChunkDone
<1>3. CASE pc = "header"
  <2>1. pc' = "payload" /\ records' = records
    BY <1>3 DEF ChunkDone
  <2> QED
    BY <1>1, <1>2, <2>1 DEF Stepping, TypeOK, Progress, Counted, Writing, Ended
<1>4. CASE pc = "payload"
  <2>1. records' = records + 1 /\ pc' \in {"flush", "idle"}
    BY <1>4 DEF ChunkDone
  <2> QED
    BY <1>1, <1>2, <2>1 DEF Stepping, TypeOK, Progress, Counted, Writing, Ended
<1> QED
  BY <1>3, <1>4 DEF Writing

LEMMA SteppingBuffer ==
  ASSUME Stepping, Buffer
  PROVE  Stepping'
<1>1. /\ Writing /\ Len(Chunk) <= Spare /\ buf' = buf \o Chunk /\ ChunkDone
      /\ UNCHANGED <<lens, flushing, file, failed, reader, pos, events>>
  BY DEF Buffer, readerVars
<1>2. Chunk \in Seq(Byte) /\ buf \in Seq(Byte) /\ file \in Seq(Byte)
  BY <1>1, ChunkIsBytes DEF Stepping, TypeOK
<1>3. buf' \in Seq(Byte) /\ Len(buf') = Len(buf) + Len(Chunk)
  BY <1>1, <1>2, Joined
<1>4. Len(buf) \in Nat /\ Len(Chunk) \in Nat /\ BufferCap \in Nat /\ Len(file) \in Nat
  BY <1>2, LenProperties, RecorderAssumption
<1>5. Len(buf') <= BufferCap
  BY <1>1, <1>3, <1>4 DEF Spare
<1> QED
  BY <1>1, <1>2, <1>3, <1>4, <1>5, ChunkDoneSteps

LEMMA DrainedParts ==
  ASSUME TypeOK, NEW k \in 1..Len(buf)
  PROVE  /\ file \o SubSeq(buf, 1, k) \in Seq(Byte)
         /\ Len(file \o SubSeq(buf, 1, k)) = Len(file) + k
         /\ SubSeq(buf, k + 1, Len(buf)) \in Seq(Byte)
         /\ Len(SubSeq(buf, k + 1, Len(buf))) = Len(buf) - k
         /\ k = Len(buf) => SubSeq(buf, k + 1, Len(buf)) = <<>>
         /\ k \in Nat \ {0} /\ k <= Len(buf)
<1>1. file \in Seq(Byte) /\ buf \in Seq(Byte) /\ Len(file) \in Nat /\ Len(buf) \in Nat
  BY Lengths DEF TypeOK
<1>2. SubSeq(buf, 1, k) \in Seq(Byte) /\ Len(SubSeq(buf, 1, k)) = k
  BY <1>1, PartOf
<1>3. /\ SubSeq(buf, k + 1, Len(buf)) \in Seq(Byte)
      /\ Len(SubSeq(buf, k + 1, Len(buf))) = Len(buf) - k
  <2>1. k + 1 \in Nat \ {0} /\ k + 1 <= Len(buf) + 1 /\ Len(buf) + 1 - (k + 1) = Len(buf) - k
    BY <1>1
  <2> QED
    BY <1>1, <2>1, PartOf
<1>4. k = Len(buf) => SubSeq(buf, k + 1, Len(buf)) = <<>>
  BY <1>1, <1>3, EmptySeq
<1> QED
  BY <1>1, <1>2, <1>3, <1>4, Joined

LEMMA SteppingDrain ==
  ASSUME Stepping, Drain
  PROVE  Stepping'
<1>1. PICK k \in 1..Len(buf) : /\ file' = file \o SubSeq(buf, 1, k)
                               /\ buf' = SubSeq(buf, k + 1, Len(buf))
  BY Zenon DEF Drain
<1>2. Draining /\ UNCHANGED <<pc, lens, sent, records, failed, reader, pos, events>>
  BY DEF Drain, readerVars
<1>3. /\ file' \in Seq(Byte) /\ buf' \in Seq(Byte)
      /\ Len(file') = Len(file) + k /\ Len(buf') = Len(buf) - k
      /\ k \in Nat /\ Len(buf) \in Nat /\ Len(file) \in Nat /\ BufferCap \in Nat
  BY <1>1, DrainedParts, Lengths, Zenon DEF Stepping
<1>f. flushing' \in BOOLEAN
  BY Zenon DEF Drain
<1>4. TypeOK'
  BY <1>2, <1>3, <1>f, SMTT(30) DEF Stepping, TypeOK, Ended
<1>5. ~(sent > 0)
  BY <1>2 DEF Stepping, Progress, Draining
<1> QED
  BY <1>2, <1>4, <1>5 DEF Stepping, Progress, Counted, Writing

LEMMA BypassedParts ==
  ASSUME TypeOK, Progress, Bypassing, NEW k \in (sent + 1)..Len(Chunk)
  PROVE  /\ SubSeq(Chunk, sent + 1, k) \in Seq(Byte)
         /\ Len(SubSeq(Chunk, sent + 1, k)) = k - sent
         /\ \A i \in 1..(k - sent) :
              SubSeq(Chunk, sent + 1, k)[i] = [rec |-> Len(lens), at |-> HeaderLen + sent + i]
         /\ file \o SubSeq(Chunk, sent + 1, k) \in Seq(Byte)
         /\ Len(file \o SubSeq(Chunk, sent + 1, k)) = Len(file) + (k - sent)
         /\ pc = "payload" /\ Len(Chunk) = lens[Len(lens)] /\ sent < k
<1>1. /\ Writing /\ Chunk \in Seq(Byte) /\ Len(Chunk) \in Nat /\ sent \in Nat
      /\ file \in Seq(Byte) /\ HeaderLen \in Nat
  BY ChunkIsBytes, Lengths DEF Bypassing, TypeOK
<1>2. pc = "payload" /\ Len(Chunk) = lens[Len(lens)]
  <2>1. Len(Chunk) = IF pc = "header" THEN HeaderLen ELSE lens[Len(lens)]
    BY <1>1, ChunkIsBytes
  <2>2. HeaderLen < BufferCap /\ BufferCap \in Nat /\ BufferCap <= Len(Chunk)
    BY RecorderAssumption DEF Bypassing
  <2> QED
    BY <1>1, <2>1, <2>2 DEF Writing
<1>3. sent + 1 \in Nat \ {0} /\ k \in Nat /\ sent + 1 <= k + 1 /\ k <= Len(Chunk)
      /\ k + 1 - (sent + 1) = k - sent
  BY <1>1
<1>4. /\ SubSeq(Chunk, sent + 1, k) \in Seq(Byte)
      /\ Len(SubSeq(Chunk, sent + 1, k)) = k - sent
      /\ \A i \in 1..(k - sent) : SubSeq(Chunk, sent + 1, k)[i] = Chunk[sent + 1 + i - 1]
  BY <1>1, <1>3, PartOf
<1>5. ASSUME NEW i \in 1..(k - sent)
      PROVE  SubSeq(Chunk, sent + 1, k)[i] = [rec |-> Len(lens), at |-> HeaderLen + sent + i]
  <2>1. sent + 1 + i - 1 = sent + i /\ sent + i \in 1..Len(Chunk)
        /\ HeaderLen + (sent + i) = HeaderLen + sent + i
    BY <1>1, <1>3
  <2>2. SubSeq(Chunk, sent + 1, k)[i] = Chunk[sent + i]
    BY <1>4, <2>1
  <2>3. Chunk[sent + i] = [rec |-> Len(lens), at |-> HeaderLen + (sent + i)]
    BY <1>1, <1>2, <2>1, ChunkIsBytes
  <2> QED
    BY <2>1, <2>2, <2>3
<1>6. /\ file \o SubSeq(Chunk, sent + 1, k) \in Seq(Byte)
      /\ Len(file \o SubSeq(Chunk, sent + 1, k)) = Len(file) + (k - sent)
  BY <1>1, <1>4, Joined
<1>7. sent < k
  BY <1>1
<1> QED
  BY <1>2, <1>4, <1>5, <1>6, <1>7

LEMMA SteppingBypass ==
  ASSUME Stepping, Bypass
  PROVE  Stepping'
<1>1. Bypassing /\ UNCHANGED <<lens, buf, flushing, failed, reader, pos, events>>
  BY DEF Bypass, readerVars
<1>2. PICK k \in (sent + 1)..Len(Chunk) :
        /\ file' = file \o SubSeq(Chunk, sent + 1, k)
        /\ \/ k < Len(Chunk) /\ sent' = k /\ UNCHANGED <<pc, records>>
           \/ k = Len(Chunk) /\ ChunkDone
  BY DEF Bypass
<1>3. /\ file' \in Seq(Byte) /\ Len(file') = Len(file) + (k - sent) /\ sent < k
      /\ pc = "payload" /\ Len(Chunk) = lens[Len(lens)]
      /\ buf = <<>> /\ BufferCap <= Len(Chunk) /\ Writing
      /\ Len(file) \in Nat /\ sent \in Nat /\ Len(Chunk) \in Nat
  BY <1>1, <1>2, BypassedParts, ChunkIsBytes, Lengths DEF Stepping, Bypassing, TypeOK
<1>4. k \in Nat /\ Len(file) <= Len(file')
  BY <1>3
<1>5. CASE k < Len(Chunk) /\ sent' = k /\ UNCHANGED <<pc, records>>
  <2>1. TypeOK'
    BY <1>1, <1>3, <1>4, <1>5 DEF Stepping, TypeOK, Ended
  <2>2. Progress'
    BY <1>1, <1>3, <1>4, <1>5 DEF Stepping, Progress, Writing, Ended
  <2> QED
    BY <1>1, <1>5, <2>1, <2>2 DEF Stepping, Counted, Writing
<1>6. CASE k = Len(Chunk) /\ ChunkDone
  BY <1>1, <1>3, <1>4, <1>6, ChunkDoneSteps DEF Stepping, TypeOK
<1> QED
  BY <1>2, <1>5, <1>6

(* Only bytes of records are drained, so that a failure has a record.      *)
LEMMA FailureHasRecord ==
  ASSUME TypeOK, Progress, NEW start, InPlace(start), Draining \/ Bypassing
  PROVE  lens # <<>>
<1>1. CASE Bypassing
  BY <1>1 DEF Bypassing, Progress
<1>2. CASE buf # <<>>
  <2>1. Len(buf) \in Nat \ {0} /\ Len(file) \in Nat
    BY <1>2, EmptySeq, Lengths DEF TypeOK
  <2>2. 1 \in DOMAIN Stream
    BY <2>1, StreamIsBytes
  <2>3. Stream[1].rec \in DOMAIN lens
    BY <2>2 DEF InPlace
  <2> QED
    BY <2>3, Lengths, EmptySeq DEF TypeOK
<1> QED
  BY <1>1, <1>2 DEF Draining

LEMMA SteppingFail ==
  ASSUME Stepping, NEW start, InPlace(start), Fail
  PROVE  Stepping' /\ failed' # 0
<1>1. /\ failed' = IF failed = 0 THEN Len(lens) ELSE failed
      /\ pc' \in {"idle", "close", "closed"}
      /\ flushing' = FALSE /\ sent' = 0
      /\ UNCHANGED <<lens, buf, file, records, reader, pos, events>>
      /\ Draining \/ Bypassing
  BY DEF Fail, AfterFailure, readerVars
<1>2. Len(lens) \in Nat \ {0}
  BY <1>1, FailureHasRecord, LastLength DEF Stepping
<1>3. failed' # 0 /\ failed' \in 0..Len(lens)
  BY <1>1, <1>2 DEF Stepping, TypeOK
<1>4. TypeOK'
  BY <1>1, <1>3 DEF Stepping, TypeOK, Ended
<1>5. reader = "reading" /\ pos = 0 /\ events = <<>>
  BY <1>1 DEF Draining, Bypassing, Writing, Stepping, Progress, Ended
<1>6. Progress'
  BY <1>1, <1>5 DEF Progress, Writing, Ended
<1>7. Counted'
  BY <1>3 DEF Counted
<1> QED
  BY <1>3, <1>4, <1>6, <1>7 DEF Stepping

LEMMA SteppingEnd ==
  ASSUME Stepping, FlushEnd \/ Drop \/ DropEnd \/ Kill
  PROVE  Stepping'
<1>1. /\ UNCHANGED <<lens, sent, file, records, failed, reader, pos, events>>
      /\ pc \notin Ended
      /\ buf' = buf \/ buf' = <<>>
      /\ flushing' = flushing \/ flushing' = FALSE
  BY DEF FlushEnd, Drop, DropEnd, Kill, readerVars, Ended
<1>2. \/ pc \in {"idle", "flush", "drop", "close"} /\ pc' \in {"idle", "drop", "closed"} /\ buf' = buf
      \/ pc' = "killed" /\ buf' = <<>>
  BY DEF FlushEnd, Drop, DropEnd, Kill
<1>3. <<>> \in Seq(Byte) /\ Len(<<>>) <= BufferCap
  BY RecorderAssumption
<1>4. TypeOK'
  BY <1>1, <1>2, <1>3 DEF Stepping, TypeOK, Ended
<1>5. Progress'
  BY <1>1, <1>2 DEF Stepping, Progress, Writing, Ended
<1>6. Counted'
  BY <1>1, <1>2 DEF Stepping, Counted, Writing, Ended
<1> QED
  BY <1>4, <1>5, <1>6 DEF Stepping

LEMMA LengthsAreNumbers ==
  ASSUME TypeOK, NEW p \in Nat
  PROVE  \A len \in LengthsAt(p) : len \in Nat
<1> DEFINE intact == {n \in DOMAIN lens : SubSeq(file, p + 1, p + HeaderLen) = Header(n)}
<1>1. \A n \in DOMAIN lens : lens[n] \in Nat
  BY Sizes
<1>2. LengthsAt(p) = IF intact # {} THEN {lens[n] : n \in intact} ELSE 0..(Len(file) + 1)
  BY DEF LengthsAt
<1>3. intact \subseteq DOMAIN lens
  OBVIOUS
<1>4. 0..(Len(file) + 1) \subseteq Nat
  BY Lengths
<1> HIDE DEF intact
<1> QED
  BY <1>1, <1>2, <1>3, <1>4

LEMMA SteppingRead ==
  ASSUME Stepping, ReadRecord \/ ReadEnd
  PROVE  Stepping'
<1>1. UNCHANGED <<pc, lens, buf, flushing, sent, file, records, failed>> /\ pc \in Ended
  BY DEF ReadRecord, ReadEnd, writerVars, More
<1>2. /\ pos \in Nat /\ pos <= Len(file) /\ Len(file) \in Nat /\ HeaderLen \in Nat
      /\ events \in Seq(0..Len(lens)) /\ Len(lens) \in Nat
  BY Lengths DEF Stepping, TypeOK
<1>3. /\ reader' \in {"reading", "end", "truncated", "error"}
      /\ pos' \in 0..Len(file)
      /\ events' \in Seq(0..Len(lens))
  <2>1. CASE ReadEnd
    BY <1>2, <2>1 DEF ReadEnd
  <2>2. CASE ReadRecord
    <3> DEFINE start == pos + HeaderLen
    <3>1. PICK len \in LengthsAt(pos) :
            \/ start + len > Len(file) /\ reader' = "truncated" /\ pos' = start /\ UNCHANGED events
            \/ /\ start + len <= Len(file)
               /\ \/ /\ \E e \in IF EncodedBy(SubSeq(file, start + 1, start + len)) # {}
                                   THEN EncodedBy(SubSeq(file, start + 1, start + len))
                                   ELSE {NotRecorded} : events' = Append(events, e)
                     /\ pos' = start + len /\ UNCHANGED reader
                  \/ reader' = "error" /\ UNCHANGED <<pos, events>>
      BY <2>2 DEF ReadRecord
    <3>2. len \in Nat /\ start \in Nat /\ start <= Len(file)
      BY <1>2, <2>2, LengthsAreNumbers DEF Stepping, ReadRecord, More
    <3>3. \A b : EncodedBy(b) \subseteq 0..Len(lens)
      BY Lengths DEF EncodedBy, Stepping
    <3>4. \A e \in 0..Len(lens) : Append(events, e) \in Seq(0..Len(lens))
      BY <1>2
    <3>5. NotRecorded \in 0..Len(lens)
      BY <1>2 DEF NotRecorded
    <3>6. events' \in Seq(0..Len(lens))
      BY <1>2, <3>1, <3>3, <3>4, <3>5
    <3>7. reader \in {"reading", "end", "truncated", "error"}
      BY DEF Stepping, TypeOK
    <3> HIDE DEF start
    <3> QED
      BY <1>2, <3>1, <3>2, <3>6, <3>7, SMTT(30)
  <2> QED
    BY <2>1, <2>2
<1>4. TypeOK'
  BY <1>1, <1>3 DEF Stepping, TypeOK, Ended
<1>5. Progress' /\ Counted'
  BY <1>1 DEF Stepping, Progress, Counted, Writing
<1> QED
  BY <1>4, <1>5 DEF Stepping

----------------------------------------------------------------------------
(* The writer's and the reader's steps: places. *)

LEMMA SamePlaces ==
  ASSUME NEW start, Places(start), UNCHANGED lens
  PROVE  Places(start)'
BY DEF Places, Size

LEMMA SameStream ==
  ASSUME NEW start, InPlace(start), InOrder, Stream' = Stream, UNCHANGED <<lens, failed>>
  PROVE  InPlace(start)' /\ InOrder'
BY DEF InPlace, InOrder, Intact, Size

LEMMA NothingRead ==
  ASSUME NEW start, start[1] = 0, reader' = "reading", pos' = 0, events' = <<>>,
         Len(lens') \in Nat
  PROVE  ReadSoFar(start)'
BY DEF ReadSoFar

LEMMA PlacesWrite ==
  ASSUME Stepping, InOrder, NEW start, LaidOut(start),
         NEW len \in PayloadLens, Write(len), NEW next,
         next = [n \in 1..(Len(lens) + 2) |->
                   IF n <= Len(lens) + 1 THEN start[n]
                   ELSE start[Len(lens) + 1] + (HeaderLen + len)]
  PROVE  next \in [1..(Len(lens') + 1) -> Nat] /\ LaidOut(next)' /\ InOrder'
<1> DEFINE L == Len(lens)
<1>1. /\ lens' = Append(lens, len) /\ pc = "idle" /\ pc' = "header"
      /\ UNCHANGED <<buf, flushing, sent, file, records, failed, reader, pos, events>>
  BY DEF Write, readerVars
<1>2. /\ L \in Nat /\ DOMAIN lens = 1..L /\ DOMAIN lens' = 1..(L + 1) /\ Len(lens') = L + 1
      /\ \A n \in 1..L : lens'[n] = lens[n]
      /\ lens'[L + 1] = len
      /\ len \in Nat /\ HeaderLen \in Nat
  BY <1>1, Lengths, RecorderAssumption DEF Stepping, TypeOK
<1>3. /\ start \in [1..(L + 1) -> Nat] /\ start[1] = 0
      /\ \A n \in 1..L : start[n + 1] = start[n] + (HeaderLen + lens[n])
      /\ \A m, n \in 1..(L + 1) : m <= n => start[m] <= start[n]
  BY <1>2 DEF LaidOut, Places, Size
<1>4. /\ next \in [1..(L + 2) -> Nat]
      /\ \A n \in 1..(L + 1) : next[n] = start[n]
      /\ next[L + 2] = start[L + 1] + (HeaderLen + len)
  <2>1. start[L + 1] \in Nat /\ \A n \in 1..(L + 1) : start[n] \in Nat
    BY <1>2, <1>3
  <2> QED
    BY <1>2, <2>1
<1> HIDE DEF L
<1>5. Places(next)'
  <2>1. next \in [1..(Len(lens') + 1) -> Nat] /\ next[1] = 0
    BY <1>2, <1>3, <1>4
  <2>2. \A n \in DOMAIN lens' : next[n + 1] = next[n] + (HeaderLen + lens'[n])
    BY <1>2, <1>3, <1>4, SMTT(30)
  <2>3. ASSUME NEW m \in 1..(L + 2), NEW n \in 1..(L + 2), m <= n
        PROVE  next[m] <= next[n]
    <3>1. CASE n <= L + 1
      BY <1>2, <1>3, <1>4, <2>3, <3>1
    <3>2. CASE n = L + 2 /\ m <= L + 1
      <4>1. m \in 1..(L + 1) /\ L + 1 \in 1..(L + 1) /\ n = L + 2
        BY <1>2, <3>2
      <4>2. start[m] \in Nat /\ start[L + 1] \in Nat /\ start[m] <= start[L + 1]
        BY <1>2, <1>3, <4>1
      <4> QED
        BY <1>2, <1>4, <4>1, <4>2
    <3>3. CASE n = L + 2 /\ m = L + 2
      <4>1. next[n] \in Nat
        BY <1>4
      <4> QED
        BY <3>3, <4>1
    <3> QED
      BY <1>2, <2>3, <3>1, <3>2, <3>3
  <2>4. Len(lens') + 1 = L + 2
    BY <1>2
  <2>5. \A m, n \in 1..(Len(lens') + 1) : m <= n => next[m] <= next[n]
    BY <2>3, <2>4
  <2> QED
    BY <2>1, <2>2, <2>5 DEF Places, Size
<1>6. Stream' = Stream /\ \A n \in DOMAIN lens : n \in DOMAIN lens' /\ Size(n)' = Size(n)
  BY <1>1, <1>2 DEF Stream, Size
<1>7. InPlace(next)'
  <2> SUFFICES ASSUME NEW i \in DOMAIN Stream
               PROVE  /\ Stream[i].rec \in DOMAIN lens'
                      /\ Intact(Stream[i].rec) =>
                           /\ Stream[i].at <= Size(Stream[i].rec)'
                           /\ i = next[Stream[i].rec] + Stream[i].at
    BY <1>1, <1>6 DEF InPlace, Intact, Size
  <2>1. /\ Stream[i].rec \in DOMAIN lens
        /\ Intact(Stream[i].rec) => /\ Stream[i].at <= Size(Stream[i].rec)
                                    /\ i = start[Stream[i].rec] + Stream[i].at
    BY DEF LaidOut, InPlace
  <2>2. next[Stream[i].rec] = start[Stream[i].rec]
    BY <1>2, <1>4, <2>1
  <2> QED
    BY <1>6, <2>1, <2>2
<1>8. AllThere(next)'
  BY <1>1, <1>2, <1>4, <1>6 DEF LaidOut, AllThere, Given, L
<1>9. Flushed(next)'
  <2> SUFFICES ASSUME failed = 0
               PROVE  \E m \in 0..records :
                        /\ next[m + 1] <= Len(file)
                        /\ \A k \in (m + 1)..records : ~FlushDue(k)
    BY <1>1 DEF Flushed, FlushDue
  <2>1. PICK m \in 0..records : /\ start[m + 1] <= Len(file)
                                /\ \A k \in (m + 1)..records : ~FlushDue(k)
    BY <1>1 DEF LaidOut, Flushed
  <2>2. m + 1 \in 1..(L + 1)
    BY <1>2 DEF Stepping, TypeOK, L
  <2> QED
    BY <1>4, <2>1, <2>2
<1>10. ReadSoFar(next)'
  <2>1. next[1] = 0
    BY <1>2, <1>3, <1>4
  <2>2. reader' = "reading" /\ pos' = 0 /\ events' = <<>> /\ Len(lens') \in Nat
    BY <1>1, <1>2 DEF Stepping, Progress, Ended
  <2> QED
    BY <2>1, <2>2, NothingRead
<1>11. InOrder'
  BY <1>6 DEF InOrder
<1> QED
  BY <1>2, <1>4, <1>5, <1>7, <1>8, <1>9, <1>10, <1>11 DEF LaidOut

(* The places while the writer works on its newest record. *)
LEMMA NewestPlaces ==
  ASSUME Stepping, Writing, NEW start, LaidOut(start)
  PROVE  /\ Len(lens) \in DOMAIN lens /\ Len(lens) \in Nat \ {0}
         /\ start[Len(lens)] \in Nat /\ start[Len(lens) + 1] \in Nat
         /\ start[Len(lens) + 1] = start[Len(lens)] + HeaderLen + lens[Len(lens)]
         /\ Size(Len(lens)) = HeaderLen + lens[Len(lens)]
         /\ lens[Len(lens)] \in Nat /\ HeaderLen \in Nat /\ sent \in Nat
         /\ Len(Stream) \in Nat
         /\ failed = 0 => Len(Stream) = IF pc = "header" THEN start[Len(lens)]
                                        ELSE start[Len(lens)] + HeaderLen + sent
         /\ start[1] = 0 /\ reader = "reading" /\ pos = 0 /\ events = <<>>
<1>1. Len(lens) \in DOMAIN lens /\ Len(lens) \in Nat \ {0}
  BY LastLength DEF Stepping, Progress
<1>2. lens[Len(lens)] \in Nat /\ HeaderLen \in Nat /\ sent \in Nat /\ Len(Stream) \in Nat
  BY <1>1, Sizes, Lengths, StreamIsBytes, LenProperties DEF Stepping, TypeOK
<1>3. failed = 0 => Len(Stream) = IF pc = "header" THEN start[Len(lens)]
                                  ELSE start[Len(lens)] + HeaderLen + sent
  BY DEF LaidOut, AllThere, Given, Writing
<1>4. start[1] = 0 /\ reader = "reading" /\ pos = 0 /\ events = <<>>
  BY DEF LaidOut, Places, Stepping, Progress, Writing, Ended
<1> QED
  BY <1>1, <1>2, <1>3, <1>4, RecordPlaces DEF LaidOut, Stepping, Size

LEMMA FlushedChunk ==
  ASSUME Stepping, Writing, NEW start, LaidOut(start), ChunkDone,
         UNCHANGED <<lens, failed>>, Len(file) <= Len(file'), Len(file') \in Nat
  PROVE  Flushed(start)'
<1> SUFFICES ASSUME failed = 0
             PROVE  \E m \in 0..records' :
                      /\ start[m + 1] <= Len(file')
                      /\ \A k \in (m + 1)..records' :
                           k < records' \/ pc' \in {"idle", "header", "payload"} => ~FlushDue(k)
  BY DEF Flushed, FlushDue
<1>1. PICK m \in 0..records : /\ start[m + 1] <= Len(file)
                              /\ \A k \in (m + 1)..records : ~FlushDue(k)
  BY DEF LaidOut, Flushed, Writing
<1>2. records \in Nat /\ Len(lens) \in Nat /\ records < Len(lens) /\ Len(file) \in Nat
  BY Lengths DEF Stepping, TypeOK, Progress
<1>3. start[m + 1] \in Nat
  <2>1. m + 1 \in 1..(Len(lens) + 1)
    BY <1>2
  <2> QED
    BY <2>1 DEF LaidOut, Places
<1>4. start[m + 1] <= Len(file')
  BY <1>1, <1>2, <1>3
<1>5. CASE records' = records
  BY <1>1, <1>4, <1>5
<1>6. CASE records' = records + 1 /\ pc' = IF FlushDue(records') THEN "flush" ELSE "idle"
  <2>1. m \in 0..records'
    BY <1>2, <1>6
  <2>2. ASSUME NEW k \in (m + 1)..records',
               k < records' \/ pc' \in {"idle", "header", "payload"}
        PROVE  ~FlushDue(k)
    <3>1. CASE k < records'
      BY <1>1, <1>2, <1>6, <3>1
    <3>2. CASE k = records'
      BY <1>2, <1>6, <2>2, <3>2
    <3> QED
      BY <1>2, <1>6, <3>1, <3>2
  <2> QED
    BY <1>4, <2>1, <2>2
<1> QED
  BY <1>5, <1>6 DEF ChunkDone

LEMMA PlacesBuffer ==
  ASSUME Stepping, InOrder, NEW start, LaidOut(start), Buffer
  PROVE  LaidOut(start)' /\ InOrder'
<1> DEFINE n == Len(lens)
<1>1. /\ Writing /\ buf' = buf \o Chunk /\ ChunkDone /\ Len(Chunk) < BufferCap
      /\ UNCHANGED <<lens, flushing, file, failed, reader, pos, events>>
  BY DEF Buffer, readerVars
<1>2. /\ Chunk \in Seq(Byte) /\ Len(Chunk) \in Nat
      /\ Len(Chunk) = IF pc = "header" THEN HeaderLen ELSE lens[n]
      /\ \A i \in 1..Len(Chunk) : Chunk[i] =
           [rec |-> n, at |-> IF pc = "header" THEN i ELSE HeaderLen + i]
  BY <1>1, ChunkIsBytes DEF Stepping
<1>c. Len(Chunk) \in Nat /\ Len(Chunk) = IF pc = "header" THEN HeaderLen ELSE lens[n]
  BY <1>2
<1>3. sent = 0
  BY <1>1, <1>2, RecorderAssumption DEF Stepping, Progress, TypeOK
<1>4. Stream' = Stream \o Chunk /\ Len(Stream') = Len(Stream) + Len(Chunk)
  <2>1. file \in Seq(Byte) /\ buf \in Seq(Byte)
    BY DEF Stepping, TypeOK
  <2>2. ASSUME NEW chunk \in Seq(Byte)
        PROVE  (file \o buf) \o chunk = file \o (buf \o chunk)
    BY <2>1, ConcatAssociative
  <2>3. Stream' = Stream \o Chunk
    BY <1>1, <1>2, <2>2 DEF Stream
  <2> QED
    BY <1>2, <2>3, StreamIsBytes, Joined DEF Stepping
<1>n. /\ n \in Nat \ {0} /\ start[n] \in Nat
      /\ start[n + 1] = start[n] + HeaderLen + lens[n]
      /\ Size(n) = HeaderLen + lens[n]
      /\ lens[n] \in Nat /\ HeaderLen \in Nat /\ Len(Stream) \in Nat
      /\ failed = 0 => Len(Stream) = IF pc = "header" THEN start[n]
                                     ELSE start[n] + HeaderLen + sent
  BY <1>1, NewestPlaces
<1>5. InPlace(start)' /\ InOrder'
  <2>1. ASSUME NEW i \in 1..Len(Chunk)
        PROVE  /\ Chunk[i].rec = n
               /\ failed = 0 => /\ Chunk[i].at <= Size(n)
                                /\ Len(Stream) + i = start[n] + Chunk[i].at
    <3>1. i \in Nat /\ i <= (IF pc = "header" THEN HeaderLen ELSE lens[n])
      BY <1>c, <1>n
    <3>2. /\ Chunk[i].rec = n
          /\ Chunk[i].at = IF pc = "header" THEN i ELSE HeaderLen + i
      <4>1. Chunk[i] = [rec |-> n, at |-> IF pc = "header" THEN i ELSE HeaderLen + i]
        BY <1>2
      <4> QED
        BY <4>1
    <3>3. CASE pc = "header"
      <4>1. Chunk[i].rec = n /\ Chunk[i].at = i /\ i \in Nat /\ i <= HeaderLen
        BY <3>1, <3>2, <3>3
      <4>2. failed = 0 => Len(Stream) = start[n]
        BY <1>n, <3>3
      <4>3. i <= Size(n)
        BY <1>n, <4>1
      <4> QED
        BY <4>1, <4>2, <4>3
    <3>4. CASE pc # "header"
      <4>1. Chunk[i].rec = n /\ Chunk[i].at = HeaderLen + i /\ i \in Nat /\ i <= lens[n]
        BY <3>1, <3>2, <3>4
      <4>2. failed = 0 => Len(Stream) + i = start[n] + (HeaderLen + i)
        <5>1. failed = 0 => Len(Stream) = start[n] + HeaderLen + sent
          BY <1>n, <3>4
        <5>2. start[n] \in Nat /\ HeaderLen \in Nat /\ i \in Nat /\ Len(Stream) \in Nat
          BY <1>n, <4>1
        <5> HIDE DEF n
        <5> QED
          BY <1>3, <5>1, <5>2
      <4>3. HeaderLen + i <= Size(n)
        BY <1>n, <4>1
      <4> QED
        BY <4>1, <4>2, <4>3
    <3> QED
      BY <3>3, <3>4
  <2>2. lens # <<>>
    BY <1>1 DEF Stepping, Progress
  <2> QED
    BY <1>1, <1>2, <1>4, <2>1, <2>2, Extended DEF Stepping, LaidOut
<1>6. AllThere(start)'
  <2>1. CASE pc = "header"
    <3>1. pc' = "payload" /\ sent' = 0
      BY <1>1, <2>1 DEF ChunkDone
    <3>2. ASSUME failed = 0 PROVE Len(Stream') = start[n] + HeaderLen
      <4>1. Len(Chunk) = HeaderLen
        BY <1>c, <2>1
      <4>2. Len(Stream) = start[n]
        BY <1>n, <2>1, <3>2
      <4> QED
        BY <1>4, <4>1, <4>2
    <3>3. UNCHANGED <<lens, failed>>
      BY <1>1
    <3>4. start[n] + HeaderLen + sent' = start[n] + HeaderLen
      BY <1>n, <3>1
    <3> HIDE DEF n
    <3>5. failed' = 0 => Len(Stream') = start[Len(lens')] + HeaderLen + sent'
      BY <3>2, <3>3, <3>4 DEF n
    <3> QED
      BY <3>1, <3>5 DEF AllThere, Given
  <2>2. CASE pc = "payload"
    <3>1. pc' \in {"flush", "idle"}
      BY <1>1, <2>2 DEF ChunkDone
    <3>2. ASSUME failed = 0 PROVE Len(Stream') = start[n + 1]
      <4>1. Len(Chunk) = lens[n]
        BY <1>c, <2>2
      <4>2. Len(Stream) = start[n] + HeaderLen
        BY <1>3, <1>n, <2>2, <3>2
      <4> QED
        BY <1>4, <1>n, <4>1, <4>2
    <3>3. UNCHANGED <<lens, failed>>
      BY <1>1
    <3> HIDE DEF n
    <3>4. failed' = 0 => Len(Stream') = start[Len(lens') + 1]
      BY <3>2, <3>3 DEF n
    <3> QED
      BY <3>1, <3>4 DEF AllThere, Given
  <2> QED
    BY <1>1, <2>1, <2>2 DEF Writing
<1>7. Flushed(start)'
  BY <1>1, FlushedChunk, Lengths DEF Stepping
<1>8. Places(start)' /\ ReadSoFar(start)'
  BY <1>1, <1>n, NewestPlaces, SamePlaces, NothingRead DEF LaidOut
<1> QED
  BY <1>5, <1>6, <1>7, <1>8 DEF LaidOut

LEMMA PlacesDrain ==
  ASSUME Stepping, InOrder, NEW start, LaidOut(start), Drain
  PROVE  LaidOut(start)' /\ InOrder'
<1>1. PICK k \in 1..Len(buf) : /\ file' = file \o SubSeq(buf, 1, k)
                               /\ buf' = SubSeq(buf, k + 1, Len(buf))
  BY DEF Drain
<1>2. Draining /\ UNCHANGED <<pc, lens, sent, records, failed, reader, pos, events>>
  BY DEF Drain, readerVars
<1>3. Stream' = Stream
  <2>1. file \in Seq(Byte) /\ buf \in Seq(Byte) /\ k \in 0..Len(buf)
    BY Lengths DEF Stepping, TypeOK
  <2> QED
    BY <1>1, <2>1, Split, Zenon DEF Stream
<1>4. Len(file') = Len(file) + k /\ k \in Nat /\ Len(file) \in Nat
  BY <1>1, DrainedParts, Lengths, Zenon DEF Stepping
<1>5. AllThere(start)'
  BY <1>2, <1>3 DEF LaidOut, AllThere, Given, Draining, Writing
<1>6. Flushed(start)'
  <2> SUFFICES ASSUME failed = 0
               PROVE  \E m \in 0..records :
                        /\ start[m + 1] <= Len(file')
                        /\ \A i \in (m + 1)..records :
                             i < records \/ pc \in {"idle", "header", "payload"} => ~FlushDue(i)
    BY <1>2 DEF Flushed, FlushDue
  <2>1. PICK m \in 0..records :
          /\ start[m + 1] <= Len(file)
          /\ \A i \in (m + 1)..records :
               i < records \/ pc \in {"idle", "header", "payload"} => ~FlushDue(i)
    BY DEF LaidOut, Flushed
  <2>2. m + 1 \in 1..(Len(lens) + 1)
    BY Lengths DEF Stepping, TypeOK
  <2>3. start[m + 1] \in Nat
    BY <2>2 DEF LaidOut, Places
  <2>4. start[m + 1] <= Len(file')
    BY <1>4, <2>1, <2>3
  <2> QED
    BY <2>1, <2>4
<1>7. reader = "reading" /\ pos = 0 /\ events = <<>> /\ start[1] = 0 /\ Len(lens) \in Nat
  BY <1>2, Lengths DEF Stepping, Progress, Draining, Writing, Ended, LaidOut, Places
<1>8. Places(start)' /\ ReadSoFar(start)' /\ InPlace(start)' /\ InOrder'
  BY <1>2, <1>3, <1>7, SamePlaces, SameStream, NothingRead DEF LaidOut
<1> QED
  BY <1>5, <1>6, <1>8 DEF LaidOut

LEMMA PlacesBypass ==
  ASSUME Stepping, InOrder, NEW start, LaidOut(start), Bypass
  PROVE  LaidOut(start)' /\ InOrder'
<1>1. Bypassing /\ Writing /\ buf = <<>> /\ UNCHANGED <<lens, buf, failed, reader, pos, events>>
  BY DEF Bypass, Bypassing, readerVars
<1>2. PICK k \in (sent + 1)..Len(Chunk) :
        /\ file' = file \o SubSeq(Chunk, sent + 1, k)
        /\ \/ k < Len(Chunk) /\ sent' = k /\ UNCHANGED <<pc, records>>
           \/ k = Len(Chunk) /\ ChunkDone
  BY DEF Bypass
<1> DEFINE more == SubSeq(Chunk, sent + 1, k)
           L == Len(lens)
<1>3. /\ more \in Seq(Byte) /\ Len(more) = k - sent
      /\ \A i \in 1..(k - sent) : more[i] = [rec |-> L, at |-> HeaderLen + sent + i]
      /\ file \o more \in Seq(Byte) /\ Len(file \o more) = Len(file) + (k - sent)
      /\ pc = "payload" /\ Len(Chunk) = lens[L] /\ sent < k
  BY <1>1, BypassedParts DEF Stepping
<1>4. /\ L \in Nat \ {0} /\ start[L] \in Nat
      /\ start[L + 1] = start[L] + HeaderLen + lens[L]
      /\ Size(L) = HeaderLen + lens[L]
      /\ lens[L] \in Nat /\ HeaderLen \in Nat /\ sent \in Nat /\ Len(Stream) \in Nat
  BY <1>1, NewestPlaces
<1>5. failed = 0 => Len(Stream) = start[L] + HeaderLen + sent
  BY <1>1, <1>3, NewestPlaces
<1>6. file' = file \o more
  BY <1>2 DEF more
<1>7. k \in Nat /\ k <= lens[L] /\ sent < k
  <2>1. Len(Chunk) = lens[L] /\ lens[L] \in Nat /\ sent \in Nat
    BY <1>3, <1>4
  <2> QED
    BY <2>1
<1> HIDE DEF more, L
<1>t. start[L] \in Nat /\ HeaderLen \in Nat /\ sent \in Nat /\ Len(Stream) \in Nat
  BY <1>4
<1>8. Stream' = Stream \o more /\ Len(Stream') = Len(Stream) + (k - sent)
  <2>1. Stream = file
    BY <1>1, ConcatEmptySeq DEF Stream, Stepping, TypeOK
  <2>2. Stream' = file'
    BY <1>1, <1>3, <1>6, ConcatEmptySeq DEF Stream
  <2> QED
    BY <1>3, <1>6, <2>1, <2>2
<1>s. Len(Stream') = Len(Stream) + (k - sent)
  BY <1>8
<1>u. failed = 0 => Len(Stream') = start[L] + HeaderLen + k
  <2> SUFFICES ASSUME failed = 0 PROVE Len(Stream') = start[L] + HeaderLen + k
    OBVIOUS
  <2>1. Len(Stream) = start[L] + HeaderLen + sent
    BY <1>5
  <2>2. Len(Stream') = (start[L] + HeaderLen + sent) + (k - sent)
    BY <1>s, <2>1
  <2>3. (start[L] + HeaderLen + sent) + (k - sent) = start[L] + HeaderLen + k
    BY <1>7, <1>t, SMTT(30)
  <2> QED
    BY <2>2, <2>3
<1>9. InPlace(start)' /\ InOrder'
  <2>1. ASSUME NEW i \in 1..Len(more)
        PROVE  /\ more[i].rec = Len(lens)
               /\ failed = 0 => /\ more[i].at <= Size(Len(lens))
                                /\ Len(Stream) + i = start[Len(lens)] + more[i].at
    <3>1. i \in 1..(k - sent)
      BY <1>3
    <3>2. more[i] = [rec |-> L, at |-> HeaderLen + sent + i]
      BY <1>3, <3>1
    <3>3. more[i].rec = L /\ more[i].at = HeaderLen + sent + i
      BY <3>2
    <3>4. HeaderLen + sent + i <= Size(L)
      BY <1>4, <1>7, <3>1
    <3>5. failed = 0 => Len(Stream) + i = start[L] + (HeaderLen + sent + i)
      BY <1>5, <1>7, <1>t, <3>1, SMTT(30)
    <3> QED
      BY <3>3, <3>4, <3>5 DEF L
  <2>2. lens # <<>>
    BY <1>1 DEF Stepping, Progress
  <2> QED
    BY <1>1, <1>3, <1>8, <2>1, <2>2, Extended DEF Stepping, LaidOut
<1>10. CASE k < Len(Chunk) /\ sent' = k /\ UNCHANGED <<pc, records>>
  <2>1. AllThere(start)'
    BY <1>1, <1>3, <1>10, <1>u DEF AllThere, Given, L
  <2>2. Flushed(start)'
    <3> SUFFICES ASSUME failed = 0
                 PROVE  \E m \in 0..records :
                          /\ start[m + 1] <= Len(file')
                          /\ \A i \in (m + 1)..records : ~FlushDue(i)
      BY <1>1, <1>10 DEF Flushed, FlushDue
    <3>1. PICK m \in 0..records : /\ start[m + 1] <= Len(file)
                                  /\ \A i \in (m + 1)..records : ~FlushDue(i)
      BY <1>3 DEF LaidOut, Flushed
    <3>2. m + 1 \in 1..(Len(lens) + 1)
      BY Lengths DEF Stepping, TypeOK
    <3>3. start[m + 1] \in Nat
      BY <3>2 DEF LaidOut, Places
    <3>4. Len(file') = Len(file) + (k - sent) /\ Len(file) \in Nat
      BY <1>3, <1>6, Lengths DEF Stepping
    <3>5. start[m + 1] <= Len(file')
      BY <1>4, <1>7, <3>1, <3>3, <3>4
    <3> QED
      BY <3>1, <3>5
  <2> QED
    BY <1>1, <1>9, <2>1, <2>2, NewestPlaces, SamePlaces, NothingRead DEF LaidOut
<1>11. CASE k = Len(Chunk) /\ ChunkDone
  <2>1. pc' \in {"flush", "idle"}
    BY <1>3, <1>11 DEF ChunkDone
  <2>2. AllThere(start)'
    <3>1. k = lens[L]
      BY <1>3, <1>11
    <3>2. failed = 0 => Len(Stream') = start[L] + HeaderLen + lens[L]
      BY <1>u, <3>1
    <3>3. failed = 0 => Len(Stream') = start[L + 1]
      BY <1>4, <3>2
    <3> QED
      BY <1>1, <2>1, <3>3 DEF AllThere, Given, L
  <2>3. Flushed(start)'
    <3>1. Len(file') = Len(file) + (k - sent) /\ Len(file) \in Nat
      BY <1>3, <1>6, Lengths DEF Stepping
    <3>2. Len(file) <= Len(file') /\ Len(file') \in Nat
      BY <1>4, <1>7, <3>1
    <3> QED
      BY <1>1, <1>11, <3>2, FlushedChunk
  <2> QED
    BY <1>1, <1>9, <2>2, <2>3, NewestPlaces, SamePlaces, NothingRead DEF LaidOut
<1> QED
  BY <1>2, <1>10, <1>11

LEMMA PlacesFlushEnd ==
  ASSUME Stepping, InOrder, NEW start, LaidOut(start), FlushEnd
  PROVE  LaidOut(start)' /\ InOrder'
<1>1. /\ pc = "flush" /\ buf = <<>> /\ pc' = "idle"
      /\ UNCHANGED <<lens, buf, sent, file, records, failed, reader, pos, events>>
  BY DEF FlushEnd, readerVars
<1>2. Stream' = Stream /\ Stream = file
  BY <1>1, ConcatEmptySeq DEF Stream, Stepping, TypeOK
<1>3. AllThere(start)'
  BY <1>1, <1>2 DEF LaidOut, AllThere, Given
<1>4. Flushed(start)'
  <2> SUFFICES ASSUME failed = 0
               PROVE  \E m \in 0..records :
                        /\ start[m + 1] <= Len(file)
                        /\ \A i \in (m + 1)..records : ~FlushDue(i)
    BY <1>1 DEF Flushed, FlushDue
  <2>1. records = Len(lens) /\ Len(lens) \in Nat
    BY <1>1, Lengths DEF Stepping, Counted, Writing
  <2>2. Len(file) = start[records + 1] /\ Len(file) \in Nat
    BY <1>1, <1>2, <2>1, Lengths DEF LaidOut, AllThere, Given, Stepping
  <2>3. records \in 0..records /\ (records + 1)..records = {} /\ start[records + 1] <= Len(file)
    BY <2>1, <2>2
  <2> QED
    BY <2>3
<1>5. reader = "reading" /\ pos = 0 /\ events = <<>> /\ start[1] = 0 /\ Len(lens) \in Nat
  BY <1>1, Lengths DEF Stepping, Progress, Ended, LaidOut, Places
<1> QED
  BY <1>1, <1>2, <1>3, <1>4, <1>5, SamePlaces, SameStream, NothingRead DEF LaidOut

LEMMA PlacesFail ==
  ASSUME Stepping, InOrder, NEW start, LaidOut(start), Fail
  PROVE  LaidOut(start)' /\ InOrder'
<1>1. /\ failed' = IF failed = 0 THEN Len(lens) ELSE failed
      /\ UNCHANGED <<lens, buf, file>>
  BY DEF Fail, readerVars
<1>2. failed' # 0
  BY SteppingFail DEF LaidOut
<1>3. Stream' = Stream
  BY <1>1 DEF Stream
<1>4. \A n : Intact(n)' => Intact(n)
  BY <1>1, <1>2 DEF Intact
<1>5. InPlace(start)' /\ InOrder'
  BY <1>1, <1>3, <1>4 DEF LaidOut, InPlace, InOrder, Size
<1>6. AllThere(start)' /\ Flushed(start)' /\ ReadSoFar(start)'
  BY <1>2 DEF AllThere, Flushed, ReadSoFar
<1> QED
  BY <1>1, <1>5, <1>6, SamePlaces DEF LaidOut

LEMMA PlacesEnd ==
  ASSUME Stepping, InOrder, NEW start, LaidOut(start), Drop \/ DropEnd
  PROVE  LaidOut(start)' /\ InOrder'
<1>1. /\ \/ pc = "idle" /\ pc' = "drop"
         \/ pc \in {"drop", "close"} /\ pc' = "closed" /\ buf = <<>>
      /\ UNCHANGED <<lens, buf, sent, file, records, failed, reader, pos, events>>
  BY DEF Drop, DropEnd, readerVars
<1>2. Stream' = Stream
  BY <1>1 DEF Stream
<1>3. AllThere(start)'
  BY <1>1, <1>2 DEF LaidOut, AllThere, Given
<1>4. Flushed(start)'
  BY <1>1 DEF LaidOut, Flushed, FlushDue
<1>5. reader = "reading" /\ pos = 0 /\ events = <<>> /\ start[1] = 0 /\ Len(lens) \in Nat
  BY <1>1, Lengths DEF Stepping, Progress, Ended, LaidOut, Places
<1> QED
  BY <1>1, <1>2, <1>3, <1>4, <1>5, SamePlaces, SameStream, NothingRead DEF LaidOut

LEMMA PlacesKill ==
  ASSUME Stepping, InOrder, NEW start, LaidOut(start), Kill
  PROVE  LaidOut(start)' /\ InOrder'
<1>1. /\ pc \notin Ended /\ pc' = "killed" /\ buf' = <<>>
      /\ UNCHANGED <<lens, sent, file, records, failed, reader, pos, events>>
  BY DEF Kill, readerVars
<1>2. Stream' = file
  BY <1>1, ConcatEmptySeq DEF Stream, Stepping, TypeOK
<1>3. \A i \in DOMAIN file : i \in DOMAIN Stream /\ Stream[i] = file[i]
  BY StreamIsBytes DEF Stepping
<1>4. InPlace(start)' /\ InOrder'
  BY <1>1, <1>2, <1>3 DEF LaidOut, InPlace, InOrder, Intact, Size
<1>5. AllThere(start)'
  BY <1>1 DEF AllThere
<1>6. Flushed(start)'
  BY <1>1 DEF LaidOut, Flushed, FlushDue
<1>7. reader = "reading" /\ pos = 0 /\ events = <<>> /\ start[1] = 0 /\ Len(lens) \in Nat
  BY <1>1, Lengths DEF Stepping, Progress, LaidOut, Places
<1> QED
  BY <1>1, <1>4, <1>5, <1>6, <1>7, SamePlaces, NothingRead DEF LaidOut

(* The file ends where the newest record does, or before. *)
LEMMA FileEnds ==
  ASSUME TypeOK, failed = 0, NEW start, Places(start), InPlace(start)
  PROVE  Len(file) <= start[Len(lens) + 1] /\ start[Len(lens) + 1] \in Nat
<1> DEFINE p == Len(file)
           m == Stream[p].rec
<1>1. p \in Nat /\ Len(lens) \in Nat /\ DOMAIN lens = 1..Len(lens) /\ DOMAIN file = 1..p
  BY Lengths
<1>2. Len(lens) + 1 \in 1..(Len(lens) + 1) /\ start[Len(lens) + 1] \in Nat
  BY <1>1 DEF Places
<1>3. CASE p # 0
  <2>1. p \in DOMAIN Stream
    BY <1>1, <1>3, StreamIsBytes
  <2>2. /\ m \in DOMAIN lens /\ Stream[p].at \in Nat
        /\ Stream[p].at <= Size(m) /\ p = start[m] + Stream[p].at
    BY <2>1, StreamIsBytes DEF InPlace, Intact
  <2>3. Size(m) = HeaderLen + lens[m] /\ Size(m) \in Nat /\ lens[m] \in Nat /\ HeaderLen \in Nat
    BY <2>2, Sizes, Lengths DEF Size
  <2>4. /\ start[m] \in Nat /\ start[m + 1] \in Nat
        /\ start[m + 1] = start[m] + HeaderLen + lens[m]
        /\ m + 1 \in 1..(Len(lens) + 1)
    BY <2>2, RecordPlaces
  <2> HIDE DEF p, m
  <2>5. p <= start[m + 1]
    <3>1. start[m] + Stream[p].at <= start[m] + Size(m)
      BY <2>2, <2>3, <2>4
    <3>2. start[m + 1] = start[m] + Size(m)
      BY <2>3, <2>4
    <3> QED
      BY <2>2, <3>1, <3>2
  <2>6. start[m + 1] <= start[Len(lens) + 1]
    BY <1>1, <1>2, <2>2, <2>4, PlacesInOrder
  <2>7. p <= start[Len(lens) + 1]
    BY <1>1, <1>2, <2>4, <2>5, <2>6
  <2> QED
    BY <1>2, <2>7 DEF p
<1> QED
  BY <1>2, <1>3

LEMMA FileBytes ==
  ASSUME TypeOK, failed = 0, NEW start, Places(start), InPlace(start),
         NEW n \in DOMAIN lens, NEW i \in 1..Size(n), start[n] + i <= Len(file)
  PROVE  file[start[n] + i] = [rec |-> n, at |-> i]
<1>1. /\ start[n] \in Nat /\ start[n + 1] = start[n] + HeaderLen + lens[n]
      /\ Size(n) \in Nat /\ Size(n) = HeaderLen + lens[n]
      /\ HeaderLen \in Nat /\ lens[n] \in Nat /\ Len(file) \in Nat
  BY RecordPlaces, Sizes, Lengths DEF Size
<1> DEFINE p == start[n] + i
<1>2. p \in DOMAIN file /\ start[n] < p /\ p <= start[n + 1]
  <2>1. i \in Nat \ {0} /\ i <= HeaderLen + lens[n]
    BY <1>1
  <2>2. start[n] < p /\ p <= start[n + 1] /\ p \in Nat \ {0}
    BY <1>1, <2>1
  <2>3. p \in 1..Len(file)
    BY <1>1, <2>2
  <2> QED
    BY <2>2, <2>3, Lengths
<1>3. p \in DOMAIN Stream /\ Stream[p] = file[p] /\ file[p] \in Byte
  BY <1>2, StreamIsBytes, ElementOfSeq, Lengths DEF TypeOK
<1>4. Stream[p].rec = n /\ p = start[n] + Stream[p].at
  BY <1>2, <1>3, FoundInPlace
<1>5. Stream[p].at \in Nat
  BY <1>3 DEF Byte
<1>6. Stream[p].at = i
  BY <1>1, <1>4, <1>5, SMTT(30)
<1> QED
  BY <1>3, <1>4, <1>6 DEF Byte

(* Where read_all stands it finds the next record. *)
LEMMA FindsRecord ==
  ASSUME Stepping, failed = 0, NEW start, LaidOut(start),
         reader = "reading", pos + HeaderLen <= Len(file), NEW n, n = Len(events) + 1
  PROVE  /\ n \in DOMAIN lens /\ pos = start[n]
         /\ LengthsAt(pos) = {lens[n]}
         /\ pos + HeaderLen + lens[n] <= Len(file) =>
              EncodedBy(SubSeq(file, pos + HeaderLen + 1, pos + HeaderLen + lens[n])) = {n}
<1>1. /\ Len(events) \in Nat /\ Len(lens) \in Nat /\ DOMAIN lens = 1..Len(lens)
      /\ Len(file) \in Nat /\ HeaderLen \in Nat \ {0}
      /\ file \in Seq(Byte)
  BY Lengths DEF Stepping, TypeOK
<1>2. pos = start[n] /\ Len(events) <= Len(lens)
  BY DEF LaidOut, ReadSoFar
<1>3. n \in DOMAIN lens
  <2>1. n \in 1..(Len(lens) + 1)
    BY <1>1, <1>2
  <2>2. n # Len(lens) + 1
    <3>1. Len(file) <= start[Len(lens) + 1] /\ start[Len(lens) + 1] \in Nat
      BY FileEnds DEF LaidOut, Stepping
    <3> QED
      BY <1>1, <1>2, <3>1
  <2> QED
    BY <1>1, <2>1, <2>2
<1>4. /\ start[n] \in Nat /\ n \in Nat /\ lens[n] \in Nat \ {0}
      /\ Size(n) = HeaderLen + lens[n]
  BY <1>3, RecordPlaces, Sizes, Lengths DEF LaidOut, Stepping, Size
<1>5. SubSeq(file, pos + 1, pos + HeaderLen) = Header(n)
  <2> DEFINE read == SubSeq(file, pos + 1, pos + HeaderLen)
  <2>1. pos + 1 \in Nat \ {0} /\ pos + HeaderLen \in Nat
        /\ pos + 1 <= (pos + HeaderLen) + 1 /\ (pos + HeaderLen) + 1 - (pos + 1) = HeaderLen
    BY <1>1, <1>2, <1>4, SMTT(30)
  <2>2. /\ read \in Seq(Byte) /\ Len(read) = HeaderLen
        /\ \A i \in 1..HeaderLen : read[i] = file[pos + 1 + i - 1]
    BY <1>1, <2>1, PartOf, SMTT(30)
  <2>3. Header(n) \in Seq(Byte) /\ Len(Header(n)) = HeaderLen
    BY <1>3, ChunkTypes DEF Stepping
  <2>4. ASSUME NEW i \in 1..HeaderLen PROVE read[i] = Header(n)[i]
    <3>1. pos + 1 + i - 1 = start[n] + i /\ i \in 1..Size(n) /\ start[n] + i <= Len(file)
      BY <1>1, <1>2, <1>4, SMTT(30)
    <3>2. file[start[n] + i] = [rec |-> n, at |-> i]
      BY <1>3, <3>1, FileBytes DEF LaidOut, Stepping
    <3> QED
      BY <2>2, <3>1, <3>2 DEF Header
  <2> HIDE DEF read
  <2>5. read = Header(n)
    BY <2>2, <2>3, <2>4, SeqEqual
  <2> QED
    BY <2>5 DEF read
<1>6. LengthsAt(pos) = {lens[n]}
  <2> DEFINE intact == {m \in DOMAIN lens : SubSeq(file, pos + 1, pos + HeaderLen) = Header(m)}
  <2>1. \A m \in DOMAIN lens : Header(m) = Header(n) => m = n
    <3> TAKE m \in DOMAIN lens
    <3>1. Header(m)[1] = [rec |-> m, at |-> 1] /\ Header(n)[1] = [rec |-> n, at |-> 1]
      BY <1>1 DEF Header
    <3> QED
      BY <3>1
  <2>2. intact = {n}
    BY <1>3, <1>5, <2>1
  <2>3. LengthsAt(pos) = IF intact # {} THEN {lens[m] : m \in intact} ELSE 0..(Len(file) + 1)
    BY DEF LengthsAt
  <2> HIDE DEF intact
  <2> QED
    BY <2>2, <2>3
<1>a. pos \in Nat /\ HeaderLen \in Nat /\ lens[n] \in Nat
  BY <1>1, <1>2, <1>4
<1>7. ASSUME pos + HeaderLen + lens[n] <= Len(file)
      PROVE  EncodedBy(SubSeq(file, pos + HeaderLen + 1, pos + HeaderLen + lens[n])) = {n}
  <2> DEFINE a == pos + HeaderLen + 1
             b == pos + HeaderLen + lens[n]
             read == SubSeq(file, a, b)
  <2>1. a \in Nat \ {0} /\ b \in Nat /\ a <= b + 1 /\ b + 1 - a = lens[n]
    BY <1>a
  <2> HIDE DEF a, b
  <2>2. /\ read \in Seq(Byte) /\ Len(read) = lens[n]
        /\ \A i \in 1..lens[n] : read[i] = file[a + i - 1]
    BY <1>1, <1>7, <2>1, PartOf, SMTT(30) DEF b
  <2>3. Payload(n) \in Seq(Byte) /\ Len(Payload(n)) = lens[n]
    BY <1>3, ChunkTypes DEF Stepping
  <2>4. ASSUME NEW i \in 1..lens[n] PROVE read[i] = Payload(n)[i]
    <3>1. /\ a + i - 1 = start[n] + (HeaderLen + i) /\ HeaderLen + i \in 1..Size(n)
          /\ start[n] + (HeaderLen + i) <= Len(file)
      <4>1. i \in Nat \ {0} /\ i <= lens[n] /\ a = pos + HeaderLen + 1
        BY <1>a DEF a
      <4>2. a + i - 1 = pos + (HeaderLen + i)
        BY <1>a, <4>1
      <4>3. HeaderLen + i \in Nat \ {0} /\ HeaderLen + i <= Size(n)
        BY <1>4, <1>a, <4>1
      <4>4. pos + (HeaderLen + i) <= Len(file)
        BY <1>1, <1>7, <1>a, <4>1
      <4> QED
        BY <1>2, <1>4, <1>a, <4>2, <4>3, <4>4
    <3>2. file[start[n] + (HeaderLen + i)] = [rec |-> n, at |-> HeaderLen + i]
      BY <1>3, <3>1, FileBytes DEF LaidOut, Stepping
    <3> QED
      BY <2>2, <3>1, <3>2 DEF Payload
  <2>5. \A m \in DOMAIN lens : Payload(m) = Payload(n) => m = n
    <3> TAKE m \in DOMAIN lens
    <3>1. lens[m] \in Nat \ {0}
      BY Sizes DEF Stepping
    <3>2. /\ Payload(m)[1] = [rec |-> m, at |-> HeaderLen + 1]
          /\ Payload(n)[1] = [rec |-> n, at |-> HeaderLen + 1]
      BY <1>4, <3>1 DEF Payload
    <3> QED
      BY <3>2
  <2> HIDE DEF read
  <2>6. read = Payload(n)
    BY <2>2, <2>3, <2>4, SeqEqual
  <2>7. EncodedBy(read) = {n}
    BY <1>3, <2>5, <2>6 DEF EncodedBy
  <2> QED
    BY <2>7 DEF read, a, b
<1> QED
  BY <1>2, <1>3, <1>6, <1>7

LEMMA PlacesRead ==
  ASSUME Stepping, InOrder, NEW start, LaidOut(start), ReadRecord \/ ReadEnd
  PROVE  LaidOut(start)' /\ InOrder'
<1> DEFINE k == Len(events)
           n == k + 1
<1>1. UNCHANGED <<pc, lens, buf, flushing, sent, file, records, failed>> /\ reader = "reading"
  BY DEF ReadRecord, ReadEnd, writerVars, More
<1>2. Stream' = Stream
  BY <1>1 DEF Stream
<1>3. AllThere(start)' /\ Flushed(start)'
  BY <1>1, <1>2 DEF LaidOut, AllThere, Given, Flushed, FlushDue
<1>4. k \in Nat /\ events \in Seq(0..Len(lens)) /\ Len(lens) \in Nat /\ Len(file) \in Nat
  BY Lengths DEF Stepping, TypeOK
<1>5. ReadSoFar(start)'
  <2> SUFFICES ASSUME failed = 0 PROVE ReadSoFar(start)'
    BY <1>1 DEF ReadSoFar
  <2>1. /\ k <= Len(lens) /\ pos = start[n]
        /\ \A i \in 1..k : events[i] = i
    BY <1>1 DEF LaidOut, ReadSoFar
  <2>2. CASE ReadEnd
    <3>1. reader' = "end" /\ events' = events /\ pos' = pos /\ Len(file) < start[n] + HeaderLen
      <4>1. pos + HeaderLen > Len(file)
        BY <2>2 DEF ReadEnd
      <4>2. start[n] \in Nat /\ HeaderLen \in Nat
        BY <1>4, <2>1, Lengths DEF LaidOut, Places, Stepping
      <4> QED
        BY <1>4, <2>1, <2>2, <4>1, <4>2 DEF ReadEnd
    <3> QED
      BY <1>1, <2>1, <3>1 DEF ReadSoFar
  <2>3. CASE ReadRecord
    <3>1. pos + HeaderLen <= Len(file)
      BY <2>3 DEF ReadRecord, More
    <3>2. /\ n \in DOMAIN lens /\ LengthsAt(pos) = {lens[n]}
          /\ pos + HeaderLen + lens[n] <= Len(file) =>
               EncodedBy(SubSeq(file, pos + HeaderLen + 1, pos + HeaderLen + lens[n])) = {n}
      BY <1>1, <3>1, FindsRecord
    <3>3. /\ start[n + 1] = start[n] + HeaderLen + lens[n]
          /\ start[n] \in Nat /\ start[n + 1] \in Nat /\ n \in 1..Len(lens)
      BY <3>2, RecordPlaces DEF LaidOut, Stepping
    <3>4. pos + HeaderLen + lens[n] = start[n + 1]
      BY <2>1, <3>3
    <3> DEFINE end == pos + HeaderLen + lens[n]
               encoded == EncodedBy(SubSeq(file, pos + HeaderLen + 1, end))
    <3>5. \/ end > Len(file) /\ reader' = "truncated" /\ UNCHANGED events
          \/ /\ end <= Len(file)
             /\ \/ /\ \E e \in IF encoded # {} THEN encoded ELSE {NotRecorded} :
                        events' = Append(events, e)
                   /\ pos' = end /\ UNCHANGED reader
                \/ encoded = {}
      BY <2>3, <3>2 DEF ReadRecord
    <3>6. CASE end > Len(file) /\ reader' = "truncated" /\ UNCHANGED events
      <4>1. k < Len(lens) /\ Len(file) < start[k + 2]
        <5>1. k + 2 = n + 1
          BY <1>4
        <5> QED
          BY <1>4, <3>3, <3>4, <3>6, <5>1
      <4> QED
        BY <1>1, <2>1, <3>6, <4>1 DEF ReadSoFar
    <3>7. CASE end <= Len(file)
      <4>1. encoded = {n}
        BY <3>2, <3>7
      <4>e. ~(end > Len(file))
        BY <1>4, <3>3, <3>4, <3>7
      <4> HIDE DEF n, end, encoded
      <4>2. events' = Append(events, n) /\ pos' = end /\ reader' = "reading"
        BY <1>1, <3>5, <4>e, <4>1
      <4>3. Len(events') = n /\ events'[n] = n /\ \A i \in 1..k : events'[i] = events[i]
        BY <1>4, <4>2 DEF n
      <4>4. \A i \in 1..n : events'[i] = i
        BY <1>4, <2>1, <4>3 DEF n
      <4>5. n <= Len(lens) /\ pos' = start[n + 1]
        BY <1>4, <3>3, <3>4, <4>2 DEF end
      <4> QED
        BY <1>1, <4>2, <4>3, <4>4, <4>5 DEF ReadSoFar
    <3> QED
      BY <3>5, <3>6, <3>7
  <2> QED
    BY <2>2, <2>3
<1> QED
  BY <1>1, <1>2, <1>3, <1>5, SamePlaces, SameStream DEF LaidOut

----------------------------------------------------------------------------
(* The invariant. *)

RecorderInvPlaced(start) == Stepping /\ InOrder /\ LaidOut(start)

LEMMA InvPlaced ==
  /\ RecorderInv <=> \E start \in [1..(Len(lens) + 1) -> Nat] : RecorderInvPlaced(start)
  /\ \A start : RecorderInvPlaced(start) => RecorderInv
BY DEF RecorderInv, RecorderInvPlaced, Stepping, LaidOut, Places

LEMMA RecorderInit == Init => RecorderInv
<1> SUFFICES ASSUME Init PROVE RecorderInv
  OBVIOUS
<1> DEFINE start == [n \in 1..1 |-> 0]
<1>1. /\ pc = "idle" /\ lens = <<>> /\ buf = <<>> /\ file = <<>> /\ sent = 0
      /\ records = 0 /\ failed = 0 /\ reader = "reading" /\ pos = 0 /\ events = <<>>
  BY DEF Init
<1>2. Stepping
  BY SteppingInit
<1>3. Len(lens) = 0 /\ DOMAIN lens = {} /\ Len(events) = 0 /\ Len(file) = 0
  BY <1>1
<1>4. Stream = <<>> /\ Len(Stream) = 0 /\ DOMAIN Stream = {}
  BY <1>1 DEF Stream
<1>5. start \in [1..(Len(lens) + 1) -> Nat] /\ start[1] = 0 /\ 1..(Len(lens) + 1) = {1}
  BY <1>3
<1> HIDE DEF start
<1>6. Places(start)
  BY <1>3, <1>5 DEF Places
<1>7. InPlace(start) /\ InOrder
  BY <1>4 DEF InPlace, InOrder
<1>8. AllThere(start)
  BY <1>1, <1>3, <1>4, <1>5 DEF AllThere, Given
<1>9. Flushed(start)
  <2>1. 0 \in 0..records /\ start[0 + 1] <= Len(file) /\ (0 + 1)..records = {}
    BY <1>1, <1>3, <1>5
  <2> QED
    BY <2>1 DEF Flushed
<1>10. ReadSoFar(start)
  BY <1>1, <1>3, <1>5 DEF ReadSoFar
<1> QED
  BY <1>2, <1>6, <1>7, <1>8, <1>9, <1>10, InvPlaced DEF RecorderInvPlaced, LaidOut

LEMMA RecorderNext ==
  ASSUME RecorderInv, [Next]_vars
  PROVE  RecorderInv'
<1>1. PICK start : RecorderInvPlaced(start)
  BY InvPlaced
<1>2. Stepping /\ InOrder /\ LaidOut(start)
  BY <1>1 DEF RecorderInvPlaced
<1>s. (\E next : RecorderInvPlaced(next)') => RecorderInv'
  BY DEF RecorderInv, RecorderInvPlaced, Stepping, LaidOut, Places
<1>3. ASSUME NEW len \in PayloadLens, Write(len) PROVE RecorderInv'
  <2>1. PICK next : next = [n \in 1..(Len(lens) + 2) |->
                              IF n <= Len(lens) + 1 THEN start[n]
                              ELSE start[Len(lens) + 1] + (HeaderLen + len)]
    OBVIOUS
  <2>2. LaidOut(next)' /\ InOrder'
    BY <1>2, <1>3, <2>1, PlacesWrite
  <2>3. Stepping'
    BY <1>2, <1>3, SteppingWrite
  <2> QED
    BY <1>s, <2>2, <2>3 DEF RecorderInvPlaced
<1>4. CASE Buffer
  BY <1>2, <1>4, <1>s, SteppingBuffer, PlacesBuffer DEF RecorderInvPlaced
<1>5. CASE Drain
  BY <1>2, <1>5, <1>s, SteppingDrain, PlacesDrain DEF RecorderInvPlaced
<1>6. CASE Bypass
  BY <1>2, <1>6, <1>s, SteppingBypass, PlacesBypass DEF RecorderInvPlaced
<1>7. CASE FlushEnd
  BY <1>2, <1>7, <1>s, SteppingEnd, PlacesFlushEnd DEF RecorderInvPlaced
<1>8. CASE Fail
  BY <1>2, <1>8, <1>s, SteppingFail, PlacesFail DEF RecorderInvPlaced, LaidOut
<1>9. CASE Drop \/ DropEnd
  BY <1>2, <1>9, <1>s, SteppingEnd, PlacesEnd DEF RecorderInvPlaced
<1>10. CASE Kill
  BY <1>2, <1>10, <1>s, SteppingEnd, PlacesKill DEF RecorderInvPlaced
<1>11. CASE ReadRecord \/ ReadEnd
  BY <1>2, <1>11, <1>s, SteppingRead, PlacesRead DEF RecorderInvPlaced
<1>12. CASE UNCHANGED vars
  <2>1. UNCHANGED <<pc, lens, buf, flushing, sent, file, records, failed, reader, pos, events>>
    BY <1>12 DEF vars, writerVars, readerVars
  <2>2. UNCHANGED Stream /\ Stepping'
    BY <1>2, <2>1 DEF Stream, Stepping, TypeOK, Progress, Counted, Writing
  <2>3. LaidOut(start)' /\ InOrder'
    BY <1>2, <2>1, <2>2, SamePlaces, SameStream
       DEF LaidOut, AllThere, Given, Flushed, FlushDue, ReadSoFar
  <2> QED
    BY <1>s, <2>2, <2>3 DEF RecorderInvPlaced
<1> QED
  BY <1>3, <1>4, <1>5, <1>6, <1>7, <1>8, <1>9, <1>10, <1>11, <1>12 DEF Next

----------------------------------------------------------------------------
(* The second hub. *)

AllPlayed == (received \o rx) \o left

ReplayInv ==
  /\ SessionTypeOK
  /\ player = "off" => left = <<>> /\ rx = <<>> /\ received = <<>>
  /\ player # "off" => reader # "reading"
  /\ player = "refused" => reader = "error" /\ left = <<>> /\ rx = <<>> /\ received = <<>>
  /\ player \in {"playing", "finished"} => reader # "error" /\ AllPlayed = events
  /\ player = "playing" <=> left # <<>>

SessionInv == RecorderInv /\ ReplayInv

LEMMA InvStepping == RecorderInv => Stepping
BY DEF RecorderInv, Stepping

LEMMA SessionInit0 == SessionInit => SessionInv
<1> SUFFICES ASSUME SessionInit PROVE SessionInv
  OBVIOUS
<1>1. RecorderInv /\ Stepping
  BY RecorderInit, InvStepping DEF SessionInit
<1>2. player = "off" /\ left = <<>> /\ rx = <<>> /\ received = <<>>
  BY DEF SessionInit
<1>3. <<>> \in Seq(0..Len(lens)) /\ Len(<<>>) <= ReplayCap
  BY ReplayAssumption
<1>4. SessionTypeOK
  BY <1>1, <1>2, <1>3 DEF SessionTypeOK, Stepping
<1> QED
  BY <1>1, <1>2, <1>4 DEF SessionInv, ReplayInv

(* What was read does not change any more. *)
LEMMA ReadIsFinal ==
  ASSUME Stepping, reader # "reading", [Next]_vars
  PROVE  UNCHANGED vars
<1>1. pc \in Ended /\ pc \notin {"idle", "header", "payload", "flush", "drop", "close"}
  BY DEF Stepping, Progress, Ended
<1>2. ~Next
  BY <1>1 DEF Next, Write, Buffer, Draining, Drain, Bypassing, Bypass, Writing, FlushEnd,
              Fail, Drop, DropEnd, Kill, ReadRecord, More, ReadEnd
<1> QED
  BY <1>2

LEMMA Moved ==
  ASSUME NEW S, NEW a \in Seq(S), NEW b \in Seq(S), b # <<>>
  PROVE  /\ Append(a, Head(b)) \in Seq(S) /\ Tail(b) \in Seq(S)
         /\ Append(a, Head(b)) \o Tail(b) = a \o b
<1>1. /\ Append(a, Head(b)) \in Seq(S) /\ Tail(b) \in Seq(S) /\ Head(b) \in S
      /\ Len(Append(a, Head(b))) = Len(a) + 1 /\ Len(Tail(b)) = Len(b) - 1
      /\ Len(a) \in Nat /\ Len(b) \in Nat \ {0}
  OBVIOUS
<1>2. Append(a, Head(b)) \o Tail(b) = a \o b
  OBVIOUS
<1> QED
  BY <1>1, <1>2

LEMMA QueueTypes ==
  ASSUME SessionTypeOK
  PROVE  /\ left \in Seq(0..Len(lens)) /\ rx \in Seq(0..Len(lens))
         /\ received \in Seq(0..Len(lens)) /\ Len(rx) <= ReplayCap
BY DEF SessionTypeOK

LEMMA SessionNext0 ==
  ASSUME SessionInv, [SessionNext]_session
  PROVE  SessionInv'
<1> DEFINE E == 0..Len(lens)
<1>1. Stepping /\ RecorderInv /\ ReplayInv /\ SessionTypeOK
  BY InvStepping DEF SessionInv, ReplayInv
<1>2. CASE [Next]_vars /\ UNCHANGED replayVars
  <2>1. RecorderInv' /\ TypeOK'
    BY <1>1, <1>2, RecorderNext, InvStepping DEF RecorderInv
  <2>2. UNCHANGED <<player, left, rx, received>>
    BY <1>2 DEF replayVars
  <2>3. CASE player = "off"
    <3>1. /\ left' = <<>> /\ rx' = <<>> /\ received' = <<>> /\ player' = "off"
          /\ <<>> \in Seq(0..Len(lens')) /\ Len(<<>>) <= ReplayCap
      BY <1>1, <2>2, <2>3, ReplayAssumption DEF ReplayInv
    <3> QED
      BY <2>1, <3>1 DEF SessionInv, ReplayInv, SessionTypeOK
  <2>4. CASE player # "off"
    <3>1. UNCHANGED vars
      BY <1>1, <1>2, <2>4, ReadIsFinal DEF ReplayInv
    <3>2. UNCHANGED <<lens, reader, events>>
      BY <3>1 DEF vars, writerVars, readerVars
    <3> QED
      BY <1>1, <2>1, <2>2, <3>2 DEF SessionInv, ReplayInv, SessionTypeOK, AllPlayed
  <2> QED
    BY <2>3, <2>4
<1>3. CASE UNCHANGED vars /\ (Load \/ Play \/ Receive)
  <2>1. RecorderInv' /\ TypeOK' /\ UNCHANGED <<lens, reader, events>>
    BY <1>1, <1>3, RecorderNext DEF RecorderInv, vars, writerVars, readerVars
  <2>q. /\ left \in Seq(E) /\ rx \in Seq(E) /\ received \in Seq(E) /\ Len(rx) <= ReplayCap
        /\ events \in Seq(E) /\ Len(rx) \in Nat /\ ReplayCap \in Nat
    BY <1>1, QueueTypes, ReplayAssumption DEF Stepping, TypeOK
  <2>2. CASE Load
    <3>1. /\ player = "off" /\ reader # "reading" /\ rx' = <<>> /\ received' = <<>>
          /\ left = <<>>
      BY <1>1, <2>2 DEF Load, ReplayInv
    <3>2. CASE reader = "error"
      <4>1. player' = "refused" /\ left' = <<>>
        BY <2>2, <3>1, <3>2 DEF Load
      <4> QED
        BY <1>1, <2>1, <2>q, <3>1, <3>2, <4>1 DEF SessionInv, ReplayInv, SessionTypeOK
    <3>3. CASE reader # "error"
      <4>1. left' = events /\ player' = IF events = <<>> THEN "finished" ELSE "playing"
        BY <2>2, <3>3 DEF Load, Playing
      <4>2. AllPlayed' = events
        BY <2>q, <3>1, <4>1, ConcatEmptySeq DEF AllPlayed
      <4>3. rx' \in Seq(E) /\ received' \in Seq(E) /\ Len(rx') <= ReplayCap
        BY <2>q, <3>1
      <4> QED
        BY <2>1, <2>q, <3>1, <3>3, <4>1, <4>2, <4>3 DEF SessionInv, ReplayInv, SessionTypeOK
    <3> QED
      BY <3>2, <3>3
  <2>3. CASE Play
    <3>1. /\ player = "playing" /\ Len(rx) < ReplayCap /\ left # <<>>
          /\ rx' = Append(rx, Head(left)) /\ left' = Tail(left) /\ received' = received
          /\ player' = IF left' = <<>> THEN "finished" ELSE "playing"
          /\ reader \notin {"reading", "error"} /\ AllPlayed = events
      BY <1>1, <2>3 DEF Play, Playing, ReplayInv
    <3>2. /\ rx' \in Seq(E) /\ left' \in Seq(E) /\ received' \in Seq(E)
          /\ Len(rx') = Len(rx) + 1
      BY <2>q, <3>1, SMTT(30)
    <3>3. AllPlayed' = events
      <4> HIDE DEF E
      <4>0. /\ received \in Seq(E) /\ rx \in Seq(E) /\ left \in Seq(E)
            /\ left # <<>>
        BY <2>q, <3>1
      <4>1. (received \o Append(rx, Head(left))) \o Tail(left) = (received \o rx) \o left
        <5> DEFINE m == Append(rx, Head(left))
                   t == Tail(left)
        <5>1. m \in Seq(E) /\ t \in Seq(E) /\ m \o t = rx \o left
          BY <4>0, Moved
        <5> HIDE DEF m, t
        <5>2. m \in Seq(E) /\ t \in Seq(E)
          BY <5>1
        <5>3. (received \o m) \o t = received \o (m \o t)
          BY <4>0, <5>2, ConcatAssociative, SMTT(30)
        <5>4. (received \o rx) \o left = received \o (rx \o left)
          BY <4>0, ConcatAssociative
        <5> QED
          BY <5>1, <5>3, <5>4, Zenon DEF m, t
      <4>2. (received' \o rx') \o left' = (received \o rx) \o left
        BY <3>1, <4>1
      <4> QED
        BY <3>1, <4>2 DEF AllPlayed
    <3>4. Len(rx') <= ReplayCap
      BY <2>q, <3>1, <3>2
    <3>5. player' \in {"playing", "finished"} /\ (player' = "playing" <=> left' # <<>>)
      BY <3>1
    <3>6. reader' \notin {"reading", "error"} /\ events' = events /\ lens' = lens
      BY <2>1, <3>1
    <3>7. SessionTypeOK'
      BY <2>1, <3>2, <3>4, <3>5, <3>6 DEF SessionTypeOK
    <3>8. ReplayInv'
      BY <3>3, <3>5, <3>6, <3>7 DEF ReplayInv
    <3> QED
      BY <2>1, <3>8 DEF SessionInv
  <2>4. CASE Receive
    <3>1. /\ rx # <<>> /\ received' = Append(received, Head(rx)) /\ rx' = Tail(rx)
          /\ UNCHANGED <<player, left>>
      BY <2>4 DEF Receive
    <3>2. /\ rx' \in Seq(E) /\ received' \in Seq(E) /\ left' \in Seq(E)
          /\ Len(rx') = Len(rx) - 1
      BY <2>q, <3>1
    <3>3. received' \o rx' = received \o rx
      <4> HIDE DEF E
      <4>1. Append(received, Head(rx)) \o Tail(rx) = received \o rx
        BY <2>q, <3>1, Moved
      <4> QED
        BY <3>1, <4>1
    <3>4. AllPlayed' = AllPlayed
      BY <3>1, <3>3 DEF AllPlayed
    <3>5. player \in {"playing", "finished"}
      BY <1>1, <3>1 DEF ReplayInv, SessionTypeOK
    <3>6. Len(rx') <= ReplayCap
      BY <2>q, <3>2
    <3> QED
      BY <1>1, <2>1, <3>1, <3>2, <3>4, <3>5, <3>6 DEF SessionInv, ReplayInv, SessionTypeOK
  <2> QED
    BY <1>3, <2>2, <2>3, <2>4
<1>4. [SessionNext]_session => \/ [Next]_vars /\ UNCHANGED replayVars
                               \/ UNCHANGED vars /\ (Load \/ Play \/ Receive)
  BY DEF SessionNext, session, Load, Play, Receive
<1> QED
  BY <1>2, <1>3, <1>4

LEMMA SessionInvariant == SessionSpec => []SessionInv
<1>1. SessionInv /\ [SessionNext]_session => SessionInv'
  BY SessionNext0
<1> QED
  BY SessionInit0, <1>1, PTL DEF SessionSpec

----------------------------------------------------------------------------
(* Flushes. *)

LEMMA RemainderUnique ==
  ASSUME NEW n \in Nat \ {0}, NEW q \in Nat, NEW r \in 0..(n - 1)
  PROVE  (n * q + r) % n = r
OBVIOUS

LEMMA Division ==
  ASSUME NEW a \in Nat, NEW n \in Nat \ {0}
  PROVE  /\ a \div n \in Nat
         /\ a % n \in 0..(n - 1)
         /\ a = n * (a \div n) + (a % n)
OBVIOUS

(* Of FlushEvery records in a row, one is due for a flush. *)
LEMMA FlushGap ==
  ASSUME NEW m \in Nat, NEW r \in Nat,
         \A k \in (m + 1)..r : k < r => ~FlushDue(k)
  PROVE  r <= m + FlushEvery
<1> DEFINE f == FlushEvery
           q == m \div f
           k == f * (q + 1) + 0
<1>1. f \in Nat \ {0}
  BY RecorderAssumption
<1>2. q \in Nat /\ m % f \in 0..(f - 1) /\ m = f * q + (m % f)
  BY <1>1, Division
<1>3. f * q \in Nat /\ k = f * q + f
  BY <1>1, <1>2
<1>4. k \in Nat /\ m + 1 <= k /\ k <= m + f
  BY <1>1, <1>2, <1>3
<1>5. k % f = 0
  BY <1>1, <1>2, RemainderUnique
<1> HIDE DEF k
<1>6. ~(k < r)
  BY <1>4, <1>5 DEF FlushDue
<1> QED
  BY <1>1, <1>4, <1>6

----------------------------------------------------------------------------
(* What the invariant says of the properties. *)

LEMMA Finished ==
  ASSUME Stepping, NEW start, LaidOut(start), failed = 0, reader # "reading"
  PROVE  /\ pc \in Ended /\ reader \in {"end", "truncated"}
         /\ Len(events) \in Nat /\ Len(events) <= Len(lens)
         /\ events = [i \in 1..Len(events) |-> i]
         /\ Len(events) < Len(lens) => Len(file) < start[Len(events) + 2]
<1> DEFINE k == Len(events)
<1>1. pc \in Ended
  BY DEF Stepping, Progress
<1>2. reader \in {"reading", "end", "truncated", "error"}
  BY DEF Stepping, TypeOK
<1>3. /\ k <= Len(lens) /\ \A i \in 1..k : events[i] = i
      /\ reader # "error"
      /\ reader = "end" => Len(file) < start[k + 1] + HeaderLen
      /\ reader = "truncated" => k < Len(lens) /\ Len(file) < start[k + 2]
  BY DEF LaidOut, ReadSoFar
<1>4. k \in Nat /\ Len(lens) \in Nat /\ Len(file) \in Nat /\ HeaderLen \in Nat
  BY Lengths DEF Stepping
<1>5. events = [i \in 1..k |-> i]
  <2>1. events = [i \in 1..k |-> events[i]]
    BY DEF Stepping, TypeOK
  <2> QED
    BY <1>3, <2>1
<1>6. ASSUME k < Len(lens) PROVE Len(file) < start[k + 2]
  <2>1. CASE reader = "truncated"
    BY <1>3, <2>1
  <2>2. CASE reader = "end"
    <3>1. k + 1 \in DOMAIN lens /\ (k + 1) + 1 = k + 2
      BY <1>4, <1>6, Lengths DEF Stepping
    <3>2. /\ start[k + 1] \in Nat /\ start[k + 2] \in Nat
          /\ start[k + 1] + HeaderLen < start[k + 2]
      BY <3>1, RecordPlaces DEF Stepping, LaidOut
    <3>3. Len(file) < start[k + 1] + HeaderLen
      BY <1>3, <2>2
    <3> QED
      BY <1>4, <3>2, <3>3
  <2> QED
    BY <1>2, <1>3, <2>1, <2>2
<1> QED
  BY <1>1, <1>2, <1>3, <1>4, <1>5, <1>6

LEMMA InvKillKeepsPrefix == RecorderInv => KillKeepsPrefix
<1> SUFFICES ASSUME RecorderInv, failed = 0, reader # "reading"
             PROVE  /\ reader # "error"
                    /\ events = [i \in 1..Len(events) |-> i]
                    /\ records <= Len(events) + FlushEvery
  BY DEF KillKeepsPrefix
<1> DEFINE k == Len(events)
<1>1. PICK start : Stepping /\ LaidOut(start)
  BY InvPlaced DEF RecorderInvPlaced
<1>2. /\ pc \in Ended /\ reader \in {"end", "truncated"} /\ k \in Nat
      /\ events = [i \in 1..k |-> i]
      /\ k < Len(lens) => Len(file) < start[k + 2]
  BY <1>1, Finished
<1>3. records \in Nat /\ records <= Len(lens) /\ Len(lens) \in Nat /\ Len(file) \in Nat
  BY <1>1, Lengths DEF Stepping, TypeOK
<1>4. PICK m \in 0..records :
        /\ start[m + 1] <= Len(file)
        /\ \A j \in (m + 1)..records :
             j < records \/ pc \in {"idle", "header", "payload"} => ~FlushDue(j)
  BY <1>1 DEF LaidOut, Flushed
<1>5. records <= m + FlushEvery
  BY <1>3, <1>4, FlushGap
<1>6. m <= k
  <2> SUFFICES ASSUME k < m PROVE FALSE
    BY <1>2, <1>3
  <2>1. k + 2 \in 1..(Len(lens) + 1) /\ m + 1 \in 1..(Len(lens) + 1) /\ k + 2 <= m + 1
    BY <1>2, <1>3
  <2>2. start[k + 2] <= start[m + 1] /\ start[k + 2] \in Nat /\ start[m + 1] \in Nat
    BY <1>1, <2>1, PlacesInOrder DEF Stepping, LaidOut
  <2>3. Len(file) < start[k + 2]
    BY <1>2, <1>3
  <2> QED
    BY <1>3, <1>4, <2>2, <2>3
<1>7. records <= k + FlushEvery
  BY <1>2, <1>3, <1>5, <1>6, RecorderAssumption
<1> QED
  BY <1>2, <1>7

LEMMA InvDropKeepsAll == RecorderInv => DropKeepsAll
<1> SUFFICES ASSUME RecorderInv, failed = 0, pc = "closed", reader # "reading"
             PROVE  reader = "end" /\ Len(events) = Len(lens)
  BY DEF DropKeepsAll
<1> DEFINE k == Len(events)
           n == Len(lens)
<1>1. PICK start : Stepping /\ LaidOut(start)
  BY InvPlaced DEF RecorderInvPlaced
<1>2. /\ reader \in {"end", "truncated"} /\ k \in Nat /\ k <= n
      /\ k < n => Len(file) < start[k + 2]
  BY <1>1, Finished
<1>3. n \in Nat /\ Len(file) \in Nat
  BY <1>1, Lengths DEF Stepping
<1>4. buf = <<>> /\ Len(Stream) = start[n + 1]
  BY <1>1 DEF LaidOut, AllThere, Given
<1>5. Len(file) = start[n + 1]
  BY <1>1, <1>3, <1>4, StreamIsBytes DEF Stepping
<1>6. k = n
  <2> SUFFICES ASSUME k < n PROVE FALSE
    BY <1>2, <1>3
  <2>1. k + 2 \in 1..(n + 1) /\ n + 1 \in 1..(n + 1) /\ k + 2 <= n + 1
    BY <1>2, <1>3
  <2>2. start[k + 2] <= start[n + 1] /\ start[k + 2] \in Nat /\ start[n + 1] \in Nat
    BY <1>1, <2>1, PlacesInOrder DEF Stepping, LaidOut
  <2> QED
    BY <1>2, <1>3, <1>5, <2>2
<1>7. reader # "truncated"
  BY <1>1, <1>6, <1>3 DEF LaidOut, ReadSoFar
<1> QED
  BY <1>2, <1>6, <1>7

LEMMA NextPlace ==
  ASSUME NEW p \in Nat, NEW q \in Nat, NEW r \in Nat, NEW size \in Nat,
         NEW a \in Nat \ {0}, NEW b \in Nat,
         p + b + 1 = r + a, q = p + size, b <= size, q <= r
  PROVE  a = 1 /\ r = q /\ b = size
OBVIOUS

(* Two bytes in a row, the second of a record that is intact.              *)
LEMMA Neighbours ==
  ASSUME TypeOK, InOrder, NEW start, Places(start), InPlace(start),
         NEW i \in DOMAIN Stream, Intact(Stream[i].rec),
         NEW m, NEW n, NEW a, NEW b,
         n = Stream[i].rec, a = Stream[i].at, i # 1,
         m = Stream[i - 1].rec, b = Stream[i - 1].at
  PROVE  \/ n = m /\ a = b + 1
         \/ n = m + 1 /\ a = 1 /\ b = HeaderLen + lens[m]
<1>1. i \in Nat \ {0, 1} /\ i - 1 \in DOMAIN Stream
  BY StreamIsBytes, LenProperties
<1>2. m <= n
  BY <1>1 DEF InOrder
<1>3. /\ n \in DOMAIN lens /\ m \in DOMAIN lens
      /\ a \in Nat \ {0} /\ b \in Nat \ {0}
      /\ a <= Size(n) /\ i = start[n] + a
  BY <1>1, StreamIsBytes DEF InPlace
<1>4. n \in Nat \ {0} /\ m \in Nat \ {0} /\ n <= Len(lens) /\ m <= Len(lens)
  BY <1>3, Sizes
<1>5. Intact(m)
  BY <1>2, <1>4, SMTT(30) DEF Intact, TypeOK
<1>6. b <= Size(m) /\ i - 1 = start[m] + b
  BY <1>1, <1>5 DEF InPlace
<1>7. /\ start[n] \in Nat /\ start[m] \in Nat /\ start[m + 1] \in Nat
      /\ start[m + 1] = start[m] + HeaderLen + lens[m]
      /\ m + 1 \in 1..(Len(lens) + 1) /\ n \in 1..(Len(lens) + 1)
  <2>1. /\ start[m] \in Nat /\ start[m + 1] \in Nat
        /\ start[m + 1] = start[m] + HeaderLen + lens[m]
        /\ m + 1 \in 1..(Len(lens) + 1)
    BY <1>3, RecordPlaces
  <2>2. start[n] \in Nat /\ n \in 1..Len(lens)
    BY <1>3, RecordPlaces
  <2>3. n \in 1..(Len(lens) + 1)
    BY <2>2, Lengths
  <2> QED
    BY <2>1, <2>2, <2>3
<1>8. Size(m) = HeaderLen + lens[m] /\ HeaderLen \in Nat /\ lens[m] \in Nat
  BY <1>3, Sizes, Lengths DEF Size
<1>9. start[m] + b + 1 = start[n] + a
  BY <1>1, <1>3, <1>6, <1>7, SMTT(30)
<1>t. a \in Nat \ {0} /\ b \in Nat \ {0} /\ start[n] \in Nat /\ start[m] \in Nat
  BY <1>3, <1>7
<1>10. CASE m = n
  <2>1. start[m] + b + 1 = start[m] + a
    BY <1>9, <1>10
  <2>2. a = b + 1
    BY <1>t, <2>1
  <2> QED
    BY <1>10, <2>2
<1>11. CASE m # n
  <2>1. m + 1 <= n
    BY <1>2, <1>4, <1>11
  <2>2. start[m + 1] <= start[n]
    BY <1>7, <2>1, PlacesInOrder
  <2>3. start[m + 1] = start[m] + Size(m) /\ start[m + 1] \in Nat /\ Size(m) \in Nat
    BY <1>7, <1>8, SMTT(30)
  <2>4. a = 1 /\ start[n] = start[m + 1] /\ b = Size(m)
    BY <1>6, <1>9, <1>t, <2>2, <2>3, NextPlace
  <2>5. b = HeaderLen + lens[m]
    BY <1>8, <2>4
  <2>6. ~(m + 1 < n)
    BY <1>7, <2>4, PlacesInOrder, Lengths, SMTT(30)
  <2> QED
    BY <1>4, <2>1, <2>4, <2>5, <2>6
<1> QED
  BY <1>10, <1>11

LEMMA FirstByte ==
  ASSUME TypeOK, NEW start, Places(start), InPlace(start),
         1 \in DOMAIN Stream, Intact(Stream[1].rec)
  PROVE  Stream[1].rec = 1 /\ Stream[1].at = 1
<1> DEFINE n == Stream[1].rec
           a == Stream[1].at
<1>1. n \in DOMAIN lens /\ a \in Nat \ {0} /\ 1 = start[n] + a
  BY StreamIsBytes DEF InPlace
<1>2. /\ n \in 1..(Len(lens) + 1) /\ 1 \in 1..(Len(lens) + 1) /\ start[n] \in Nat
      /\ n \in Nat \ {0} /\ HeaderLen \in Nat \ {0} /\ start[1] = 0
  BY <1>1, Lengths, RecordPlaces DEF Places
<1>3. start[n] = 0 /\ a = 1
  BY <1>1, <1>2
<1>4. ~(1 < n)
  BY <1>2, <1>3, PlacesInOrder
<1> QED
  BY <1>2, <1>3, <1>4

LEMMA InvIntactUntilError == RecorderInv => IntactUntilError
<1> SUFFICES ASSUME RecorderInv PROVE IntactUntilError
  OBVIOUS
<1>1. PICK start : TypeOK /\ InOrder /\ Places(start) /\ InPlace(start)
  BY InvPlaced DEF RecorderInvPlaced, Stepping, LaidOut
<1>2. SUFFICES ASSUME NEW i \in DOMAIN Stream, Intact(Stream[i].rec)
               PROVE  IF i = 1 THEN Stream[i].rec = 1 /\ Stream[i].at = 1
                      ELSE \/ /\ Stream[i].rec = Stream[i - 1].rec
                              /\ Stream[i].at = Stream[i - 1].at + 1
                           \/ /\ Stream[i].rec = Stream[i - 1].rec + 1
                              /\ Stream[i].at = 1
                              /\ Stream[i - 1].at = HeaderLen + lens[Stream[i - 1].rec]
  BY DEF IntactUntilError, Intact, Stream
<1>3. CASE i = 1
  BY <1>1, <1>2, <1>3, FirstByte
<1>4. CASE i # 1
  BY <1>1, <1>2, <1>4, Neighbours
<1> QED
  BY <1>3, <1>4

LEMMA InvPlaysWhatWasRecorded == SessionInv => PlaysWhatWasRecorded
<1> SUFFICES ASSUME SessionInv, failed = 0
             PROVE  /\ player # "refused"
                    /\ received = [i \in 1..Len(received) |-> i]
                    /\ player = "finished" =>
                         Len(received) + Len(rx) + FlushEvery >= records
                    /\ player = "finished" /\ pc = "closed" =>
                         Len(received) + Len(rx) = Len(lens)
  BY DEF PlaysWhatWasRecorded
<1>1. RecorderInv /\ ReplayInv /\ SessionTypeOK /\ Stepping
  BY InvStepping DEF SessionInv, ReplayInv
<1>2. /\ received \in Seq(0..Len(lens)) /\ rx \in Seq(0..Len(lens))
      /\ left \in Seq(0..Len(lens)) /\ events \in Seq(0..Len(lens))
      /\ Len(received) \in Nat /\ Len(rx) \in Nat /\ Len(left) \in Nat
      /\ Len(events) \in Nat /\ records \in Nat /\ FlushEvery \in Nat
  BY <1>1, QueueTypes, LenProperties, RecorderAssumption DEF Stepping, TypeOK
<1>3. reader # "reading" =>
        /\ reader # "error"
        /\ events = [i \in 1..Len(events) |-> i]
        /\ records <= Len(events) + FlushEvery
  BY <1>1, InvKillKeepsPrefix DEF KillKeepsPrefix
<1>4. player # "refused"
  BY <1>1, <1>3 DEF ReplayInv
<1>5. CASE player = "off"
  <2>1. received = <<>>
    BY <1>1, <1>5 DEF ReplayInv
  <2>2. Len(received) = 0 /\ received = [i \in 1..Len(received) |-> i]
    BY <2>1
  <2> QED
    BY <1>4, <1>5, <2>2
<1>6. CASE player # "off"
  <2>1. reader # "reading" /\ player \in {"playing", "finished"} /\ AllPlayed = events
    BY <1>1, <1>4, <1>6 DEF ReplayInv, SessionTypeOK
  <2>2. /\ received \o rx \in Seq(0..Len(lens))
        /\ Len(received \o rx) = Len(received) + Len(rx)
        /\ \A i \in 1..Len(received) : (received \o rx)[i] = received[i]
    BY <1>2, Joined
  <2>3. /\ Len(AllPlayed) = Len(received \o rx) + Len(left)
        /\ \A i \in 1..Len(received \o rx) : AllPlayed[i] = (received \o rx)[i]
    BY <1>2, <2>2, Joined DEF AllPlayed
  <2>4. Len(events) = Len(received) + Len(rx) + Len(left)
    BY <2>1, <2>2, <2>3
  <2>5. received = [i \in 1..Len(received) |-> i]
    <3>1. received = [i \in 1..Len(received) |-> received[i]]
      BY <1>2
    <3>2. ASSUME NEW i \in 1..Len(received) PROVE received[i] = i
      <4>1. i \in 1..Len(received \o rx) /\ i \in 1..Len(events)
        BY <1>2, <2>2, <2>4
      <4>2. received[i] = events[i]
        BY <2>1, <2>2, <2>3, <4>1
      <4>3. events[i] = i
        BY <1>3, <2>1, <4>1
      <4> QED
        BY <4>2, <4>3
    <3> QED
      BY <3>1, <3>2
  <2>6. ASSUME player = "finished" PROVE Len(events) = Len(received) + Len(rx)
    <3>1. left = <<>>
      BY <1>1, <2>6 DEF ReplayInv
    <3>2. Len(left) = 0
      BY <3>1
    <3> QED
      BY <1>2, <2>4, <3>2
  <2>7. player = "finished" /\ pc = "closed" => Len(events) = Len(lens)
    BY <1>1, <2>1, InvDropKeepsAll DEF DropKeepsAll
  <2>8. ASSUME player = "finished" PROVE Len(received) + Len(rx) + FlushEvery >= records
    BY <1>2, <1>3, <2>1, <2>6, <2>8
  <2> QED
    BY <1>4, <2>5, <2>6, <2>7, <2>8
<1> QED
  BY <1>5, <1>6

----------------------------------------------------------------------------
(* Every variable of the recorder and the replay keeps its type: the       *)
(* buffer stays within its capacity whatever lengths events have, and so   *)
(* does the channel because the replay waits (recorder.rs:27, replay.rs:26)*)
THEOREM TypeCorrect == SessionSpec => []SessionTypeOK
<1>1. SessionInv => SessionTypeOK
  BY DEF SessionInv, ReplayInv
<1> QED
  BY SessionInvariant, <1>1, PTL

(* What was recorded before the first I/O error is intact, once and in     *)
(* order, wherever the operating system cuts its writes and whether they   *)
(* fail before or after a part has made room (recorder.rs:24-34).          *)
THEOREM RecordingIntact == SessionSpec => []IntactUntilError
<1>1. SessionInv => IntactUntilError
  BY InvIntactUntilError DEF SessionInv
<1> QED
  BY SessionInvariant, <1>1, PTL

(* A kill at any byte costs at most the last FlushEvery of the records     *)
(* counted, and leaves a file that reads back (recorder.rs:30-32, 53).     *)
THEOREM KilledRecordingReadsBack == SessionSpec => []KillKeepsPrefix
<1>1. SessionInv => KillKeepsPrefix
  BY InvKillKeepsPrefix DEF SessionInv
<1> QED
  BY SessionInvariant, <1>1, PTL

(* The end of the hub costs nothing (recorder.rs:37-42).                   *)
THEOREM DroppedRecordingIsWhole == SessionSpec => []DropKeepsAll
<1>1. SessionInv => DropKeepsAll
  BY InvDropKeepsAll DEF SessionInv
<1> QED
  BY SessionInvariant, <1>1, PTL

(* The second hub receives what the first one recorded, in order and       *)
(* without a gap, however full its channel is (replay.rs:17-29).           *)
THEOREM ReplayIsFaithful == SessionSpec => []PlaysWhatWasRecorded
<1> QED
  BY SessionInvariant, InvPlaysWhatWasRecorded, PTL
=============================================================================
