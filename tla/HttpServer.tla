----------------------------- MODULE HttpServer -----------------------------
(***************************************************************************)
(* The HTTP/3 server of backend/http3.rs: one task per connection, one per *)
(* request, the guard that counts requests, and what of them notices that  *)
(* the client has gone or the server is stopping.                          *)
(***************************************************************************)
EXTENDS Naturals, FiniteSets

CONSTANTS Links, Requests

ASSUME HttpAssumption == Links # {} /\ IsFiniteSet(Requests)

VARIABLES
  listening,  \* the server's token is not cancelled
  link,       \* connections: is the client there, what is their task at
  request,    \* requests
  inFlight,   \* gauge
  answered    \* counter of requests with a status, requests_total

httpVars == <<listening, link, request, inFlight, answered>>

Link == [peer : BOOLEAN, task : {"none", "serving", "over"}]
Request == [pc : {"unsent", "body", "handler", "reply", "over"}, on : Links,
            entered : BOOLEAN]

HttpTypeOK ==
  /\ listening \in BOOLEAN
  /\ link \in [Links -> Link]
  /\ request \in [Requests -> Request]
  /\ inFlight \in 0..Cardinality(Requests) /\ answered \in 0..Cardinality(Requests)

HttpInit ==
  /\ listening = TRUE
  /\ link = [l \in Links |-> [peer |-> TRUE, task |-> "none"]]
  /\ request = [q \in Requests |-> [pc |-> "unsent", on |-> CHOOSE l \in Links : TRUE,
                                    entered |-> FALSE]]
  /\ inFlight = 0 /\ answered = 0

-----------------------------------------------------------------------------
(* Connections: the acceptor, the client, and the task that serves one.  When it
   ends, its drop guard cancels the token of its requests. *)
Accept(l) ==
  /\ listening /\ link[l].peer /\ link[l].task = "none"
  /\ link' = [link EXCEPT ![l].task = "serving"]
  /\ UNCHANGED <<listening, request, inFlight, answered>>

ClientLeaves(l) ==
  /\ link[l].peer
  /\ link' = [link EXCEPT ![l].peer = FALSE]
  /\ UNCHANGED <<listening, request, inFlight, answered>>

LinkEnds(l) ==
  /\ link[l].task = "serving" /\ (~listening \/ ~link[l].peer)
  /\ link' = [link EXCEPT ![l].task = "over"]
  /\ UNCHANGED <<listening, request, inFlight, answered>>

(* run: both listeners stop and the endpoint is closed, with every connection. *)
ShutDown ==
  /\ listening
  /\ listening' = FALSE
  /\ link' = [l \in Links |-> [link[l] EXCEPT !.peer = FALSE]]
  /\ UNCHANGED <<request, inFlight, answered>>

(* MUTANT of Cancelled: requests hold the server's token. *)
CancelledByServer(q) == ~listening

(* The connection's token, a child of the server's. *)
Cancelled(q) == ~listening \/ link[request[q].on].task = "over"

-----------------------------------------------------------------------------
RequestAt(q, pc) == request[q].pc = pc /\ UNCHANGED <<listening, link>>
Moves(q, pc) == request' = [request EXCEPT ![q].pc = pc]

AcceptRequest(q, l) ==
  /\ RequestAt(q, "unsent")
  /\ listening /\ link[l].peer /\ link[l].task = "serving"
  /\ request' = [request EXCEPT ![q].pc = "body", ![q].on = l]
  /\ UNCHANGED <<inFlight, answered>>

(* The body is complete: record_request enters its guard and calls the handler. *)
BodyReceived(q) ==
  /\ RequestAt(q, "body") /\ ~Cancelled(q) /\ link[request[q].on].peer
  /\ request' = [request EXCEPT ![q].pc = "handler", ![q].entered = TRUE]
  /\ inFlight' = inFlight + 1
  /\ UNCHANGED answered

(* Above the limit: a 413 that never reaches the router and counts itself. *)
BodyTooLarge(q) ==
  /\ RequestAt(q, "body") /\ ~Cancelled(q) /\ link[request[q].on].peer
  /\ request' = [request EXCEPT ![q].pc = "reply", ![q].entered = TRUE]
  /\ answered' = answered + 1
  /\ UNCHANGED inFlight

BodyLost(q) ==
  /\ RequestAt(q, "body") /\ (Cancelled(q) \/ ~link[request[q].on].peer)
  /\ Moves(q, "over")
  /\ UNCHANGED <<inFlight, answered>>

(* InFlightGuard: whatever ends the handler, the gauge falls and the request is
   counted, as 499 unless its response was. *)
GuardDrops == inFlight' = inFlight - 1 /\ answered' = answered + 1

HandlerAnswers(q) ==
  /\ RequestAt(q, "handler") /\ ~Cancelled(q)
  /\ Moves(q, "reply") /\ GuardDrops

(* MUTANT of HandlerDropped: what the guard does stands after the await. *)
HandlerDroppedUncounted(q) ==
  /\ RequestAt(q, "handler") /\ Cancelled(q)
  /\ Moves(q, "over")
  /\ UNCHANGED <<inFlight, answered>>

HandlerDropped(q) ==
  /\ RequestAt(q, "handler") /\ Cancelled(q)
  /\ Moves(q, "over") /\ GuardDrops

HandlerPanics(q) ==
  /\ RequestAt(q, "handler")
  /\ Moves(q, "over") /\ GuardDrops

(* pump_response listens to no token: it ends with the last frame, or when one
   cannot be sent. *)
ReplyEnds(q) ==
  /\ RequestAt(q, "reply")
  /\ Moves(q, "over")
  /\ UNCHANGED <<inFlight, answered>>

Departed(q) == ~link[request[q].on].peer

HttpNext ==
  \/ \E l \in Links : Accept(l) \/ ClientLeaves(l) \/ LinkEnds(l)
  \/ ShutDown
  \/ \E q \in Requests, l \in Links : AcceptRequest(q, l)
  \/ \E q \in Requests :
       \/ BodyReceived(q) \/ BodyTooLarge(q) \/ BodyLost(q)
       \/ HandlerAnswers(q) \/ HandlerDropped(q) \/ HandlerPanics(q) \/ ReplyEnds(q)

HttpSpec == HttpInit /\ [][HttpNext]_httpVars

-----------------------------------------------------------------------------
(* InFlightGuard: the gauge is the number of handlers at work and the counter that
   of all other requests that entered, whichever way -- answered, panicked, dropped
   with its connection or refused for its size -- each of them ended. *)
Reconciled ==
  /\ inFlight = Cardinality({q \in Requests : request[q].pc = "handler"})
  /\ answered + inFlight = Cardinality({q \in Requests : request[q].entered})

(* http3.rs: whoever's connection is gone -- closed by the client, failed, or by a
   shutdown -- has its request ended in every phase. *)
DeparturesAreNoticed ==
  \A q \in Requests :
    request[q].pc \in {"body", "handler", "reply"} /\ Departed(q)
      ~> request[q].pc = "over"
=============================================================================
