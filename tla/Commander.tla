----------------------------- MODULE Commander -----------------------------
(***************************************************************************)
(* HTTP exchanges and the commands to the cars: a request to POST .../cmd  *)
(* (src/api/http.rs) puts its command in the queue of the publishing       *)
(* client (src/ingest/mqtt.rs) and is answered; that client's loop sends   *)
(* the queue to the broker whenever it has a connection, and tries again   *)
(* three seconds after an error.  A command is named by the HTTP client    *)
(* that posted it.                                                         *)
(*                                                                         *)
(* The broker and the client library are external: they come and go, and   *)
(* with a connection the queue may be lost, or kept for the next one.      *)
(***************************************************************************)
EXTENDS Naturals, Sequences, SequencesExt

CONSTANTS Client,           \* HTTP clients
          QueueCap          \* capacity of the request queue (16)

ASSUME CommanderAssumption ==
  QueueCap \in Nat \ {0}

VARIABLES broker,           \* the broker can be reached
          link,             \* its connection: "down", "up", "broken", "sleep"
          queue,            \* commands that wait to be sent
          request,          \* how far the exchange of each client is
          published         \* history: clients whose last command was sent

commandVars == <<broker, link, queue, request, published>>

CommanderTypeOK ==
  /\ broker \in BOOLEAN
  /\ link \in {"down", "up", "broken", "sleep"}
  /\ queue \in Seq(Client) /\ Len(queue) <= QueueCap
  /\ request \in [Client -> {"none", "sending", "waiting", "replying"}]
  /\ published \subseteq Client

CommanderInit ==
  /\ broker \in BOOLEAN
  /\ link = "down"
  /\ queue = <<>> /\ published = {}
  /\ request = [c \in Client |-> "none"]

(* A request comes in.  A handler of a GET has its response at once; that  *)
(* of a command waits for the rest of the request.                         *)
Begin(c) ==
  /\ request[c] = "none"
  /\ \E next \in {"sending", "replying"} : request' = [request EXCEPT ![c] = next]
  /\ UNCHANGED <<broker, link, queue, published>>

(* http.rs: cmd.  A body that is no command, or a car id that is too long, *)
(* is refused and changes nothing.                                         *)
Post(c) ==
  /\ request[c] = "sending"
  /\ \E next \in {"waiting", "replying"} : request' = [request EXCEPT ![c] = next]
  /\ UNCHANGED <<broker, link, queue, published>>

(* Commander::send has put the command in the queue: the answer is 200.    *)
Answer(c) ==
  /\ request[c] = "waiting" /\ Len(queue) < QueueCap
  /\ queue' = Append(queue, c)
  /\ request' = [request EXCEPT ![c] = "replying"]
  /\ published' = published \ {c}
  /\ UNCHANGED <<broker, link>>

(* The client has taken the whole response. *)
Replied(c) ==
  /\ request[c] = "replying"
  /\ request' = [request EXCEPT ![c] = "none"]
  /\ UNCHANGED <<broker, link, queue, published>>

(* The client closes its connection; a handler that waits is dropped.      *)
GiveUp(c) ==
  /\ request[c] # "none"
  /\ request' = [request EXCEPT ![c] = "none"]
  /\ UNCHANGED <<broker, link, queue, published>>

(* It is the client on whom the exchange waits. *)
ClientsTurn(c) == request[c] \in {"sending", "replying"}

----------------------------------------------------------------------------
(* mqtt.rs: the loop of commander(). *)

Connect ==
  /\ link = "down" /\ broker
  /\ link' = "up"
  /\ UNCHANGED <<broker, queue, request, published>>

Publish ==
  /\ link = "up" /\ queue # <<>>
  /\ published' = published \cup {Head(queue)}
  /\ queue' = Tail(queue)
  /\ UNCHANGED <<broker, link, request>>

Refused == link = "broken" \/ (link = "down" /\ ~broker)

(* A faulty variant: the loop ends with the first error.                   *)
PollErrorEnds ==
  /\ Refused
  /\ link' = "ended"
  /\ UNCHANGED <<broker, queue, request, published>>

PollError ==
  /\ Refused
  /\ link' = "sleep"
  /\ queue' \in IF link = "broken" THEN {queue, <<>>} ELSE {queue}
  /\ UNCHANGED <<broker, request, published>>

Retry ==
  /\ link = "sleep"
  /\ link' = "down"
  /\ UNCHANGED <<broker, queue, request, published>>

Poll == Connect \/ Publish \/ PollError \/ Retry

(* The broker comes, or goes and takes the connection along.               *)
BrokerTurns ==
  /\ broker' = ~broker
  /\ link' = IF link = "up" THEN "broken" ELSE link
  /\ UNCHANGED <<queue, request, published>>
=============================================================================
