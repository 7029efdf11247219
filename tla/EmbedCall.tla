----------------------------- MODULE EmbedCall -----------------------------
(***************************************************************************)
(* One call of OpenAiEmbedClient::embed: requests to an embedder that may   *)
(* be busy, slow, wrong or gone, with back-off between them, all inside one *)
(* budget of time.                                                         *)
(***************************************************************************)
EXTENDS Naturals

CONSTANTS
  Budget,      \* encode_timeout
  BackoffBase, \* backoff_base
  MaxRetries   \* max_429_retries

ASSUME EmbedAssumption ==
  Budget \in Nat \ {0} /\ BackoffBase \in Nat \ {0} /\ MaxRetries \in Nat

VARIABLES
  elapsed,  \* time since the call
  embed     \* the call

embedVars == <<elapsed, embed>>

(* pc: check, the top of the loop; request, until the response's head; body;
   sleep; done.  until: the time at which the request or the sleep ends on its
   own.  remaining: what was left of the budget at the last check. *)
Embed == [pc : {"check", "request", "body", "sleep", "done"}, attempt : Nat,
          until : Nat, remaining : Nat,
          result : {"none", "ok", "cancelled", "timeout", "request", "decode"}]

EmbedTypeOK == elapsed \in Nat /\ embed \in Embed

EmbedInit ==
  /\ elapsed = 0
  /\ embed = [pc |-> "check", attempt |-> 0, until |-> 0, remaining |-> Budget,
              result |-> "none"]

-----------------------------------------------------------------------------
Waits == embed.pc \in {"request", "body", "sleep"}

EmbedEnds(result) ==
  /\ embed' = [embed EXCEPT !.pc = "done", !.result = result]
  /\ UNCHANGED elapsed

(* Time passes while the call waits, until its wait runs out. *)
Elapse ==
  /\ Waits /\ elapsed < embed.until
  /\ elapsed' = elapsed + 1
  /\ UNCHANGED embed

(* checked_duration_since: nothing left is still an attempt, less is not. *)
Check ==
  /\ embed.pc = "check"
  /\ IF elapsed > Budget
       THEN EmbedEnds("timeout")
       ELSE /\ embed' = [embed EXCEPT !.pc = "request", !.until = Budget,
                                      !.remaining = Budget - elapsed]
            /\ UNCHANGED elapsed

(* The back-off doubles with each attempt. *)
Backoff == BackoffBase * 2 ^ embed.attempt

(* MUTANT of Pause: the back-off is not clamped. *)
PauseUnclamped == Backoff

(* 429 or 503, and a retry is left: sleep for the back-off of this attempt, but
   no longer than what was left when the request was sent. *)
Pause == IF Backoff < embed.remaining THEN Backoff ELSE embed.remaining

Busy429 ==
  /\ embed.pc = "request" /\ embed.attempt < MaxRetries
  /\ embed' = [embed EXCEPT !.pc = "sleep", !.until = elapsed + Pause,
                            !.attempt = @ + 1]
  /\ UNCHANGED elapsed

WakeUp ==
  /\ embed.pc = "sleep" /\ elapsed = embed.until
  /\ embed' = [embed EXCEPT !.pc = "check"]
  /\ UNCHANGED elapsed

Responds ==
  /\ embed.pc = "request"
  /\ embed' = [embed EXCEPT !.pc = "body"]
  /\ UNCHANGED elapsed

(* The request or its body fails, or its timeout fires; a response that is no
   success, busy for the last time included. *)
RequestFails == embed.pc \in {"request", "body"} /\ EmbedEnds("request")

(* validate: a row for each input, of the model's dimension, or an error. *)
Vectors == embed.pc = "body" /\ \E result \in {"ok", "decode"} : EmbedEnds(result)

(* Each select watches the token; the top of the loop does not. *)
EmbedCancelled == Waits /\ EmbedEnds("cancelled")

EmbedNext ==
  \/ Elapse \/ Check \/ Busy429 \/ WakeUp \/ Responds \/ RequestFails \/ Vectors
  \/ EmbedCancelled

EmbedSpec == EmbedInit /\ [][EmbedNext]_embedVars

-----------------------------------------------------------------------------
(* encode_timeout "bounds the whole call, retries and backoffs included": no
   request is out after it, so that whoever is busy gets no more of them; and
   with the sleep, whose clamp is as old as the request before it, the call is
   over within twice of it, however often and late the embedder is busy. *)
EmbedBounded ==
  /\ embed.pc \in {"request", "body"} => elapsed <= Budget
  /\ elapsed <= 2 * Budget
  /\ embed.result \in {"ok", "decode", "request"} => elapsed <= Budget
  /\ embed.result = "timeout" => elapsed > Budget /\ embed.attempt > 0
=============================================================================
