----------------------------- MODULE Recorder -----------------------------
(***************************************************************************)
(* The session recording of src/session: the writer the pipeline calls for *)
(* every event, with the buffer between it and the file, and read_all,     *)
(* which parses what a hub that ended, or was killed, left behind.         *)
(*                                                                         *)
(* Bytes are named by the record they belong to and their place in it.     *)
(* What the operating system accepted survives the process; a write call   *)
(* may accept a part, and may fail, after which the pipeline goes on with  *)
(* the next event.                                                         *)
(***************************************************************************)
EXTENDS Naturals, Sequences

CONSTANTS HeaderLen,        \* bytes of the length field (4)
          PayloadLens,      \* lengths that an encoded event may have
          BufferCap,        \* capacity of the BufWriter (8192)
          FlushEvery,       \* records between two flushes (100)
          MaxEvents         \* bound: events the pipeline records

ASSUME RecorderAssumption ==
  /\ HeaderLen \in Nat \ {0}
  /\ PayloadLens \subseteq Nat \ {0}
  /\ BufferCap \in Nat /\ HeaderLen < BufferCap
  /\ FlushEvery \in Nat \ {0}
  /\ MaxEvents \in Nat

VARIABLES pc,               \* where the writer is
          lens,             \* payload length of each event, by its number
          buf,              \* bytes in the BufWriter
          flushing,         \* flush_buf is at work on them
          sent,             \* bytes of the chunk written past the buffer
          file,             \* bytes in the file
          records,          \* Recorder::records
          failed,           \* history: first event hit by an I/O error, or 0
          reader,           \* where read_all is
          pos,              \* how far read_all has read
          events            \* events read_all has decoded, by number

writerVars == <<pc, lens, buf, flushing, sent, file, records, failed>>
readerVars == <<reader, pos, events>>
vars == <<writerVars, readerVars>>

Byte == [rec : Nat \ {0}, at : Nat \ {0}]
Ended == {"closed", "killed"}

TypeOK ==
  /\ pc \in {"idle", "header", "payload", "flush", "drop", "close"} \cup Ended
  /\ lens \in Seq(PayloadLens)
  /\ buf \in Seq(Byte) /\ Len(buf) <= BufferCap
  /\ flushing \in BOOLEAN
  /\ sent \in Nat
  /\ file \in Seq(Byte)
  /\ records \in 0..Len(lens)
  /\ failed \in 0..Len(lens)
  /\ reader \in {"reading", "end", "truncated", "error"}
  /\ pos \in 0..Len(file)
  /\ events \in Seq(0..Len(lens))

Init ==
  /\ pc = "idle"
  /\ lens = <<>> /\ buf = <<>> /\ file = <<>>
  /\ flushing = FALSE /\ sent = 0 /\ records = 0 /\ failed = 0
  /\ reader = "reading" /\ pos = 0 /\ events = <<>>

Header(n) == [i \in 1..HeaderLen |-> [rec |-> n, at |-> i]]
Payload(n) == [i \in 1..lens[n] |-> [rec |-> n, at |-> HeaderLen + i]]

----------------------------------------------------------------------------
(* Recorder::write: a header, a payload, and a flush now and then. *)

Write(len) ==
  /\ pc = "idle" /\ Len(lens) < MaxEvents
  /\ lens' = Append(lens, len)
  /\ pc' = "header"
  /\ UNCHANGED <<buf, flushing, sent, file, records, failed, readerVars>>

(* The bytes write_all was last called with. *)
Chunk == IF pc = "header" THEN Header(Len(lens)) ELSE Payload(Len(lens))
Writing == pc \in {"header", "payload"}
Spare == BufferCap - Len(buf)

(* A faulty variant: no periodic flush. *)
FlushNever(n) == FALSE

FlushDue(n) == n % FlushEvery = 0

(* write_all returned Ok. *)
ChunkDone ==
  /\ sent' = 0
  /\ \/ /\ pc = "header"
        /\ pc' = "payload"
        /\ UNCHANGED records
     \/ /\ pc = "payload"
        /\ records' = records + 1
        /\ pc' = IF FlushDue(records') THEN "flush" ELSE "idle"

(* BufWriter::flush_buf: to make room for a chunk, for a flush, or before  *)
(* the file closes.  Once begun it goes on until the buffer is empty.      *)
Draining ==
  /\ buf # <<>>
  /\ \/ pc \in {"flush", "drop", "close"}
     \/ Writing /\ (flushing \/ Len(Chunk) > Spare)

Drain ==
  /\ Draining
  /\ \E k \in 1..Len(buf) :
       /\ file' = file \o SubSeq(buf, 1, k)
       /\ buf' = SubSeq(buf, k + 1, Len(buf))
  /\ flushing' = (buf' # <<>>)
  /\ UNCHANGED <<pc, lens, sent, records, failed, readerVars>>

(* BufWriter::write_all, for a chunk that fits. *)
Buffer ==
  /\ Writing /\ ~flushing
  /\ Len(Chunk) <= Spare /\ Len(Chunk) < BufferCap
  /\ buf' = buf \o Chunk
  /\ ChunkDone
  /\ UNCHANGED <<lens, flushing, file, failed, readerVars>>

(* A chunk as large as the buffer passes it by, once the buffer is empty.  *)
Bypassing == Writing /\ buf = <<>> /\ Len(Chunk) >= BufferCap

(* A faulty variant: write for write_all, so that a part is taken for all. *)
BypassOnce ==
  /\ Bypassing
  /\ \E k \in (sent + 1)..Len(Chunk) : file' = file \o SubSeq(Chunk, sent + 1, k)
  /\ ChunkDone
  /\ UNCHANGED <<lens, buf, flushing, failed, readerVars>>

Bypass ==
  /\ Bypassing
  /\ \E k \in (sent + 1)..Len(Chunk) :
       /\ file' = file \o SubSeq(Chunk, sent + 1, k)
       /\ \/ k < Len(Chunk) /\ sent' = k /\ UNCHANGED <<pc, records>>
          \/ k = Len(Chunk) /\ ChunkDone
  /\ UNCHANGED <<lens, buf, flushing, failed, readerVars>>

FlushEnd ==
  /\ pc = "flush" /\ buf = <<>>
  /\ pc' = "idle"
  /\ UNCHANGED <<lens, buf, flushing, sent, file, records, failed, readerVars>>

(* The operating system refuses a write; what it took before is gone from  *)
(* the buffer, the rest stays.  write returns the error, and the pipeline  *)
(* logs it and keeps the recorder; drop ignores it, and the BufWriter,     *)
(* dropped after it, tries once more.                                      *)
AfterFailure == IF pc = "drop" THEN "close" ELSE IF pc = "close" THEN "closed" ELSE "idle"

Fail ==
  /\ Draining \/ Bypassing
  /\ failed' = IF failed = 0 THEN Len(lens) ELSE failed
  /\ pc' = AfterFailure
  /\ flushing' = FALSE /\ sent' = 0
  /\ UNCHANGED <<lens, buf, file, records, readerVars>>

----------------------------------------------------------------------------
(* The end of the hub. *)

(* A faulty variant: the file is closed as it is. *)
DropUnflushed ==
  /\ pc = "idle"
  /\ pc' = "closed"
  /\ UNCHANGED <<lens, buf, flushing, sent, file, records, failed, readerVars>>

Drop ==
  /\ pc = "idle"
  /\ pc' = "drop"
  /\ UNCHANGED <<lens, buf, flushing, sent, file, records, failed, readerVars>>

DropEnd ==
  /\ pc \in {"drop", "close"} /\ buf = <<>>
  /\ pc' = "closed"
  /\ UNCHANGED <<lens, buf, flushing, sent, file, records, failed, readerVars>>

Kill ==
  /\ pc \notin Ended
  /\ pc' = "killed"
  /\ buf' = <<>> /\ flushing' = FALSE
  /\ UNCHANGED <<lens, sent, file, records, failed, readerVars>>

----------------------------------------------------------------------------
(* read_all, on what is left. *)

(* What a length field may say: the length of its record if its bytes are  *)
(* those of one, and anything otherwise.                                   *)
LengthsAt(p) ==
  LET bytes == SubSeq(file, p + 1, p + HeaderLen)
      intact == {n \in DOMAIN lens : bytes = Header(n)}
  IN IF intact # {} THEN {lens[n] : n \in intact} ELSE 0..(Len(file) + 1)

(* Events that bytes encode.  Other bytes decode to an error, or to an     *)
(* event nobody recorded.                                                  *)
EncodedBy(bytes) == {n \in DOMAIN lens : bytes = Payload(n)}
NotRecorded == 0

More == pc \in Ended /\ reader = "reading" /\ pos + HeaderLen <= Len(file)

ReadRecord ==
  /\ More
  /\ \E len \in LengthsAt(pos) :
       LET start == pos + HeaderLen
       IN \/ /\ start + len > Len(file)
             /\ reader' = "truncated"
             /\ pos' = start
             /\ UNCHANGED events
          \/ /\ start + len <= Len(file)
             /\ LET encoded == EncodedBy(SubSeq(file, start + 1, start + len))
                IN \/ /\ \E e \in IF encoded # {} THEN encoded ELSE {NotRecorded} :
                           events' = Append(events, e)
                      /\ pos' = start + len
                      /\ UNCHANGED reader
                   \/ /\ encoded = {}
                      /\ reader' = "error"
                      /\ UNCHANGED <<pos, events>>
  /\ UNCHANGED writerVars

ReadEnd ==
  /\ pc \in Ended /\ reader = "reading" /\ pos + HeaderLen > Len(file)
  /\ reader' = "end"
  /\ UNCHANGED <<writerVars, pos, events>>

----------------------------------------------------------------------------
Next ==
  \/ \E len \in PayloadLens : Write(len)
  \/ Buffer \/ Drain \/ Bypass \/ FlushEnd \/ Fail
  \/ Drop \/ DropEnd \/ Kill
  \/ ReadRecord \/ ReadEnd

Spec == Init /\ [][Next]_vars

----------------------------------------------------------------------------
(* A hub killed at any byte leaves a recording that reads back without an  *)
(* error as the first events, in order, and all but the last FlushEvery of *)
(* those counted (recorder.rs:30-32, 53).                                  *)
KillKeepsPrefix ==
  failed = 0 /\ reader # "reading" =>
    /\ reader # "error"
    /\ events = [i \in 1..Len(events) |-> i]
    /\ records <= Len(events) + FlushEvery

(* A hub that ends by itself leaves all events (recorder.rs:37-42).        *)
DropKeepsAll ==
  failed = 0 /\ pc = "closed" /\ reader # "reading" =>
    reader = "end" /\ Len(events) = Len(lens)

(* What was written before the first I/O error is intact, once and in      *)
(* order, whatever fails later: with the bytes still in the buffer, each   *)
(* byte of those records follows its predecessor.                          *)
IntactUntilError ==
  LET stream == file \o buf
      First(b) == b.rec = 1 /\ b.at = 1
      Follows(b, a) ==
        \/ b.rec = a.rec /\ b.at = a.at + 1
        \/ b.rec = a.rec + 1 /\ b.at = 1 /\ a.at = HeaderLen + lens[a.rec]
  IN \A i \in DOMAIN stream :
       failed = 0 \/ stream[i].rec < failed =>
         IF i = 1 THEN First(stream[i]) ELSE Follows(stream[i], stream[i - 1])

(* session/mod.rs:3: a recording is a sequence of records, so read_all     *)
(* decodes it, up to a record cut short, to events that were recorded.     *)
RecordsOnly ==
  reader # "error" /\ \A i \in DOMAIN events : events[i] # NotRecorded
=============================================================================
