------------------------------ MODULE ChatTurn ------------------------------
(***************************************************************************)
(* One turn of OllamaHttpClient::chat_stream: the request, sent again when  *)
(* Ollama cannot parse its own model's tool call, then the stream of lines, *)
(* under a guard against silence and a timeout for each request.           *)
(***************************************************************************)
EXTENDS Naturals

CONSTANTS
  Guards,          \* what first_token_timeout_ms may be, 0 for no guard
  TurnTimeout,     \* turn_timeout_ms
  MaxParseRetries  \* MAX_TOOL_CALL_PARSE_RETRIES

ASSUME ChatAssumption ==
  /\ TurnTimeout \in Nat \ {0} /\ MaxParseRetries \in Nat
  /\ Guards \subseteq 0 .. TurnTimeout - 1

VARIABLES
  wall,  \* time since the turn began
  turn   \* the turn

turnVars == <<wall, turn>>

(* silence: the guard of this server.  sent: when the last request was sent.
   spoke: a delta, which is handed on at once, or a tool call has come. *)
Turn == [pc : {"post", "stream", "done"}, silence : Guards, sent : Nat,
         attempts : 0 .. MaxParseRetries, spoke : BOOLEAN,
         result : {"none", "ok", "cancelled", "silent", "failed"}]

ChatTypeOK == wall \in Nat /\ turn \in Turn

ChatInit ==
  /\ wall = 0
  /\ \E silence \in Guards :
       turn = [pc |-> "post", silence |-> silence, sent |-> 0, attempts |-> 0,
               spoke |-> FALSE, result |-> "none"]

-----------------------------------------------------------------------------
TurnEnds(result) ==
  /\ turn' = [turn EXCEPT !.pc = "done", !.result = result]
  /\ UNCHANGED wall

(* MUTANT of Guarded: the guard is never disarmed. *)
GuardedForever == turn.silence > 0

(* The guard spans the requests and the wait for the first delta. *)
Guarded == turn.silence > 0 /\ ~turn.spoke

(* reqwest's timeout covers one request to the end of its body. *)
TimedOut == wall >= turn.sent + TurnTimeout
TooSilent == Guarded /\ wall >= turn.silence

TurnTime ==
  /\ turn.pc # "done" /\ ~TimedOut /\ ~TooSilent
  /\ wall' = wall + 1
  /\ UNCHANGED turn

GuardFires == turn.pc # "done" /\ TooSilent /\ TurnEnds("silent")

(* Ollama is unreachable, the timeout fires, or a reply is not 200. *)
PostRefused == turn.pc = "post" /\ TurnEnds("failed")

(* 500 with "error parsing tool call": the same transcript at the next seed. *)
ParseError ==
  /\ turn.pc = "post" /\ turn.attempts < MaxParseRetries
  /\ turn' = [turn EXCEPT !.attempts = @ + 1, !.sent = wall]
  /\ UNCHANGED wall

StreamOpens ==
  /\ turn.pc = "post"
  /\ turn' = [turn EXCEPT !.pc = "stream"]
  /\ UNCHANGED wall

(* A line that is an answer: text or a tool call, and no empty message. *)
Speaks ==
  /\ turn.pc = "stream"
  /\ turn' = [turn EXCEPT !.spoke = TRUE]
  /\ UNCHANGED wall

(* The line with done: true, also of a turn that said nothing. *)
DoneLine == turn.pc = "stream" /\ TurnEnds("ok")

(* The stream ends without the marker, holds a line that does not parse or an
   error, breaks, or is cut by the timeout. *)
StreamBreaks == turn.pc = "stream" /\ TurnEnds("failed")

TurnCancelled == turn.pc # "done" /\ TurnEnds("cancelled")

ChatNext ==
  \/ TurnTime \/ GuardFires \/ PostRefused \/ ParseError \/ StreamOpens
  \/ Speaks \/ DoneLine \/ StreamBreaks \/ TurnCancelled

ChatSpec == ChatInit /\ [][ChatNext]_turnVars

-----------------------------------------------------------------------------
(* A turn that is given up as silent has handed nothing on, and no turn waits
   longer for its first delta; once there is one it ends with its last request,
   which was sent while the guard was armed: so a turn is over within the two
   limits together, and without a guard within one limit for every attempt. *)
TurnBounded ==
  /\ turn.result = "silent" => ~turn.spoke
  /\ Guarded => wall <= turn.silence
  /\ wall <= IF turn.silence > 0 THEN turn.silence + TurnTimeout
                                 ELSE (MaxParseRetries + 1) * TurnTimeout
=============================================================================
