---------------------------- MODULE ModelGateway ----------------------------
(***************************************************************************)
(* One execution of a request by the model gateway                         *)
(* (src/src/aletheia_lab/model_gateway/runtime.py): a bounded number of    *)
(* attempts, each a call of the provider's adapter in a thread of its own  *)
(* that the gateway waits for until a deadline.  It cannot stop a thread:  *)
(* a call that missed its deadline runs on beside the next attempt's and   *)
(* may still answer, into a queue nobody reads any more.  The caller may   *)
(* cancel at any moment.                                                   *)
(*                                                                         *)
(* Times are abstracted: the deadline of a call may pass at any step, and  *)
(* a response may turn out to have come too late by the gateway's clock.   *)
(***************************************************************************)
EXTENDS Naturals, Sequences, FiniteSets

CONSTANTS
  MaxAttempts,  \* the runtime policy's limit
  None

ASSUME GatewayAssumption ==
  /\ MaxAttempts \in Nat \ {0}
  /\ None \notin 1..MaxAttempts

VARIABLES
  stage,      \* where the execution is
  ordinal,    \* the attempt it makes
  calls,      \* the adapter call of each attempt: "none", "running" or "replied"
  outbox,     \* the queue of each call: the reply in it, or None
  reply,      \* the reply taken from a queue: its kind and its call, or None
  records,    \* outcomes of the attempts so far
  result,     \* the result returned, or None
  cancelled,  \* the caller has cancelled
  tooLate     \* calls begun after that

vars == <<stage, ordinal, calls, outbox, reply, records, result, cancelled, tooLate>>

Ordinals == 1..MaxAttempts

\* What an adapter call can end with: an envelope,
Envelopes == {"valid", "oversized", "malformed", "mismatched"}
\* or an exception; "unknown_error" is any that is not the adapters' own, or no envelope at all.
AdapterErrors == {"provider_cancelled", "permanent_error", "transient_error", "provider_timeout",
                  "invalid_metadata", "unknown_error"}
Replies == Envelopes \cup AdapterErrors

AttemptOutcomes == {"response", "permanent_error", "timeout", "transient_error", "cancelled",
                    "identity_mismatch", "oversized_response", "parse_failure"}
Statuses == {"parsed", "provider_failed", "timed_out", "retry_exhausted", "cancelled",
             "identity_rejected", "oversized_response", "parse_failed"}

TypeOK ==
  /\ stage \in {"bind", "starting", "calling", "waiting", "returned", "accepting", "backoff",
                "ended"}
  /\ ordinal \in Ordinals
  /\ calls \in [Ordinals -> {"none", "running", "replied"}]
  /\ outbox \in [Ordinals -> Replies \cup {None}]
  /\ reply = None \/ reply \in [kind : Replies, call : Ordinals]
  /\ records \in Seq(AttemptOutcomes)
  /\ result = None \/ result \in [status : Statuses, response : Ordinals \cup {None}]
  /\ cancelled \in BOOLEAN
  /\ tooLate \in 0..MaxAttempts

Init ==
  /\ stage = "bind"
  /\ ordinal = 1
  /\ calls = [i \in Ordinals |-> "none"]
  /\ outbox = [i \in Ordinals |-> None]
  /\ reply = None
  /\ records = <<>>
  /\ result = None
  /\ cancelled = FALSE
  /\ tooLate = 0

----------------------------------------------------------------------------
\* The execution ends: the last attempt's record, and the result.
End(outcome, status, response) ==
  /\ records' = Append(records, outcome)
  /\ result' = [status |-> status, response |-> response]
  /\ stage' = "ended"

\* The attempt failed in a way that allows another one.
Retry(outcome) ==
  /\ records' = Append(records, outcome)
  /\ stage' = "backoff"
  /\ UNCHANGED result

MayRetry(i) == i < MaxAttempts

TimeoutStatus == IF MaxAttempts = 1 THEN "timed_out" ELSE "retry_exhausted"

\* Mutant: an attempt that ran out of time is tried again without a record of it.
ExpireSilently ==
  IF MayRetry(ordinal) THEN stage' = "backoff" /\ UNCHANGED <<records, result>>
  ELSE End("timeout", TimeoutStatus, None)

\* The attempt ran out of time.
Expire == IF MayRetry(ordinal) THEN Retry("timeout") ELSE End("timeout", TimeoutStatus, None)

----------------------------------------------------------------------------
\* The adapter's binding is compared with the request's before anything else.
Bind ==
  /\ stage = "bind"
  /\ \/ stage' = "starting" /\ UNCHANGED <<records, result>>
     \/ End("identity_mismatch", "identity_rejected", None)
  /\ UNCHANGED <<ordinal, calls, outbox, reply, cancelled, tooLate>>

\* Mutant: an attempt begins without asking whether the caller cancelled.
StartUnasked ==
  /\ stage = "starting"
  /\ stage' = "calling"
  /\ UNCHANGED <<ordinal, calls, outbox, reply, records, result, cancelled, tooLate>>

\* An attempt begins unless the caller cancelled.
StartAttempt ==
  /\ stage = "starting"
  /\ IF cancelled THEN End("cancelled", "cancelled", None)
     ELSE stage' = "calling" /\ UNCHANGED <<records, result>>
  /\ UNCHANGED <<ordinal, calls, outbox, reply, cancelled, tooLate>>

\* A thread calls the adapter.
CallAdapter ==
  /\ stage = "calling"
  /\ stage' = "waiting"
  /\ calls' = [calls EXCEPT ![ordinal] = "running"]
  /\ tooLate' = IF cancelled THEN tooLate + 1 ELSE tooLate
  /\ UNCHANGED <<ordinal, outbox, reply, records, result, cancelled>>

\* The thread of call i puts its reply into its queue, whether or not anyone waits for it.
Reply(i) ==
  /\ calls[i] = "running"
  /\ calls' = [calls EXCEPT ![i] = "replied"]
  /\ \E k \in Replies : outbox' = [outbox EXCEPT ![i] = k]
  /\ UNCHANGED <<stage, ordinal, reply, records, result, cancelled, tooLate>>

\* Mutant: all calls of a request share one queue.
ReadableShared == {i \in Ordinals : outbox[i] # None}
\* The queue the gateway reads: that of the attempt it makes.
Readable == {i \in {ordinal} : outbox[i] # None}

\* The gateway takes a reply.
TakeReply ==
  /\ stage = "waiting"
  /\ \E i \in Readable :
       /\ reply' = [kind |-> outbox[i], call |-> i]
       /\ outbox' = [outbox EXCEPT ![i] = None]
  /\ stage' = "returned"
  /\ UNCHANGED <<ordinal, calls, records, result, cancelled, tooLate>>

\* Mutant: the gateway waits for the call, however long it takes.
PassWhenReplied ==
  /\ stage = "waiting"
  /\ calls[ordinal] = "replied"
  /\ Expire
  /\ UNCHANGED <<ordinal, calls, outbox, reply, cancelled, tooLate>>

\* The deadline passes first, even when there is a reply.
DeadlinePasses ==
  /\ stage = "waiting"
  /\ Expire
  /\ UNCHANGED <<ordinal, calls, outbox, reply, cancelled, tooLate>>

\* No reply yet, and the caller has cancelled.
CancelWhileWaiting ==
  /\ stage = "waiting"
  /\ Readable = {}
  /\ cancelled
  /\ End("cancelled", "cancelled", None)
  /\ UNCHANGED <<ordinal, calls, outbox, reply, cancelled, tooLate>>

\* Mutant: the provider's own cancellation is retried.
RetryAnyError(kind) ==
  IF MayRetry(ordinal)
    THEN Retry(IF kind = "provider_cancelled" THEN "cancelled" ELSE "transient_error")
    ELSE End("transient_error", "retry_exhausted", None)

\* What becomes of an attempt whose adapter raised.
ErrorDisposition(kind) ==
  CASE kind = "provider_cancelled" -> End("cancelled", "cancelled", None)
    [] kind \in {"permanent_error", "invalid_metadata", "unknown_error"} ->
         End("permanent_error", "provider_failed", None)
    [] kind = "provider_timeout" -> Expire
    [] kind = "transient_error" ->
         IF MayRetry(ordinal) THEN Retry("transient_error")
         ELSE End("transient_error", "retry_exhausted", None)

AdapterRaised ==
  /\ stage = "returned"
  /\ reply.kind \in AdapterErrors
  /\ ErrorDisposition(reply.kind)
  /\ reply' = None
  /\ UNCHANGED <<ordinal, calls, outbox, cancelled, tooLate>>

\* A response belongs to the request, came in time, was not cancelled, is not too large, and
\* parses under the schema: checked in this order.
CheckResponse ==
  /\ stage = "returned"
  /\ reply.kind \in Envelopes
  /\ \E slow \in BOOLEAN :
       IF reply.kind = "mismatched" THEN End("identity_mismatch", "identity_rejected", None)
       ELSE IF slow THEN Expire
       ELSE IF cancelled THEN End("cancelled", "cancelled", None)
       ELSE IF reply.kind = "oversized"
         THEN End("oversized_response", "oversized_response", reply.call)
       ELSE IF reply.kind = "malformed" THEN End("parse_failure", "parse_failed", reply.call)
       ELSE stage' = "accepting" /\ UNCHANGED <<records, result>>
  /\ reply' = IF stage' = "accepting" THEN reply ELSE None
  /\ UNCHANGED <<ordinal, calls, outbox, cancelled, tooLate>>

\* The caller is asked a last time before the response counts.
Accept ==
  /\ stage = "accepting"
  /\ IF cancelled THEN End("cancelled", "cancelled", None)
     ELSE End("response", "parsed", reply.call)
  /\ reply' = None
  /\ UNCHANGED <<ordinal, calls, outbox, cancelled, tooLate>>

\* The wait before the next attempt is over.
Backoff ==
  /\ stage = "backoff"
  /\ stage' = "starting"
  /\ ordinal' = ordinal + 1
  /\ UNCHANGED <<calls, outbox, reply, records, result, cancelled, tooLate>>

\* The caller cancels; a cancellation is not taken back.
Cancel ==
  /\ ~cancelled
  /\ result = None
  /\ cancelled' = TRUE
  /\ UNCHANGED <<stage, ordinal, calls, outbox, reply, records, result, tooLate>>

\* The gateway's own thread.
Execute ==
  \/ Bind \/ StartAttempt \/ CallAdapter \/ TakeReply \/ DeadlinePasses \/ CancelWhileWaiting
  \/ AdapterRaised \/ CheckResponse \/ Accept \/ Backoff

Next == Execute \/ (\E i \in Ordinals : Reply(i)) \/ Cancel

Spec == Init /\ [][Next]_vars

\* The gateway's thread is scheduled.  An adapter need not ever reply.
FairSpec == Spec /\ WF_vars(Execute)

----------------------------------------------------------------------------
\* Properties

Retained == {"parsed", "oversized_response", "parse_failed"}
FinalOutcomes(status) ==
  CASE status = "parsed" -> {"response"}
    [] status = "provider_failed" -> {"permanent_error"}
    [] status = "timed_out" -> {"timeout"}
    [] status = "retry_exhausted" -> {"transient_error", "timeout"}
    [] status = "cancelled" -> {"cancelled"}
    [] status = "identity_rejected" -> {"identity_mismatch"}
    [] status = "oversized_response" -> {"oversized_response"}
    [] status = "parse_failed" -> {"parse_failure"}

\* Every result the execution makes passes the validation of GatewayExecutionResult: only
\* failures that allow a retry come before the last attempt, whose outcome is the status, and
\* only a response that was received in full is retained.  Otherwise the caller would get an
\* exception in place of a result, and the attempts would be lost.
ResultIsConsistent ==
  result # None =>
    /\ records # <<>>
    /\ records[Len(records)] \in FinalOutcomes(result.status)
    /\ \A k \in 1..(Len(records) - 1) : records[k] \in {"transient_error", "timeout"}
    /\ result.response # None <=> result.status \in Retained

\* The retained response is the one of the last attempt's own call: what an abandoned call
\* answers later is never taken for the answer of the call that replaced it.
ResponseIsOwn ==
  result # None => result.response \in {None, Len(records)}

\* Each call of the provider leaves a record, in order: none is made and forgotten, and only the
\* last record may be of an attempt that never called.
CallsAreRecorded ==
  result # None =>
    \A i \in Ordinals :
      /\ calls[i] # "none" => i <= Len(records)
      /\ i < Len(records) => calls[i] # "none"

\* After a cancellation at most one call still begins, the one that was just about to.
CancelStopsCalls == tooLate <= 1

\* An execution returns even when no adapter call ever does.
Returns == <>(result # None)
=============================================================================
