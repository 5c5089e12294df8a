------------------------ MODULE ModelGatewayProofs ------------------------
(***************************************************************************)
(* The safety properties of ModelGateway, for every number of attempts.    *)
(*                                                                         *)
(* All of them follow from one inductive invariant: between two attempts   *)
(* as many records are kept as attempts were made, each of a failure that  *)
(* allows a retry; the calls made are those of the attempts so far; and    *)
(* the reply in hand came from the present attempt's own queue.            *)
(***************************************************************************)
EXTENDS ModelGateway, TLAPS

Retryable == {"transient_error", "timeout"}
Calling == {"waiting", "returned", "accepting"}

\* The records kept are those of the attempts made.
RecordsFollow ==
  /\ stage = "bind" => ordinal = 1
  /\ stage \in {"bind", "starting", "calling"} \cup Calling => Len(records) = ordinal - 1
  /\ stage \in {"backoff", "ended"} => Len(records) = ordinal
  /\ stage = "backoff" => ordinal < MaxAttempts
  /\ \A k \in 1..Len(records) :
       (stage # "ended" \/ k < Len(records)) => records[k] \in Retryable

\* The calls made are those of the attempts so far.
CallsFollow ==
  /\ \A i \in Ordinals : (i < ordinal => calls[i] # "none") /\ (i > ordinal => calls[i] = "none")
  /\ stage \in Calling \cup {"backoff"} => calls[ordinal] # "none"
  /\ stage \in {"bind", "starting", "calling"} => calls[ordinal] = "none"

\* The reply in hand is the present attempt's.
ReplyIsOwn ==
  stage \in {"returned", "accepting"} => reply \in [kind : Replies, call : {ordinal}]

\* There is a result when the execution has ended, and it is of the last record.
ResultFollows ==
  /\ stage # "ended" => result = None
  /\ stage = "ended" =>
       /\ records[Len(records)] \in FinalOutcomes(result.status)
       /\ result.response # None <=> result.status \in Retained
       /\ result.response \in {None, ordinal}

\* A call that began after the cancellation is the last one.
LateCallIsLast ==
  \/ tooLate = 0
  \/ tooLate = 1 /\ cancelled /\ stage \notin {"bind", "calling"}

IInv ==
  /\ TypeOK
  /\ RecordsFollow
  /\ CallsFollow
  /\ ReplyIsOwn
  /\ ResultFollows
  /\ LateCallIsLast

\* A sequence with an element added.
LEMMA Appended ==
  ASSUME NEW S, NEW s \in Seq(S), NEW x \in S
  PROVE  /\ Append(s, x) \in Seq(S)
         /\ Len(Append(s, x)) = Len(s) + 1
         /\ Append(s, x)[Len(s) + 1] = x
         /\ \A k \in 1..Len(s) : Append(s, x)[k] = s[k]
         /\ Len(s) \in Nat
  OBVIOUS

\* The initial states satisfy the invariant.
LEMMA InitIInv == Init => IInv
  <1> SUFFICES ASSUME Init PROVE IInv
    OBVIOUS
  <1>1. TypeOK
    <2>1. 1 \in Ordinals /\ 0 \in 0..MaxAttempts
      BY GatewayAssumption DEF Ordinals
    <2>2. records \in Seq(AttemptOutcomes)
      BY DEF Init
    <2>3. /\ calls \in [Ordinals -> {"none", "running", "replied"}]
          /\ outbox \in [Ordinals -> Replies \cup {None}]
      BY DEF Init
    <2>. QED
      BY <2>1, <2>2, <2>3, Zenon DEF TypeOK, Init
  <1> USE GatewayAssumption DEF Init, Ordinals
  <1>2. RecordsFollow
    BY DEF RecordsFollow, Calling
  <1>3. CallsFollow
    BY DEF CallsFollow, Calling
  <1>4. ReplyIsOwn /\ ResultFollows /\ LateCallIsLast
    BY DEF ReplyIsOwn, ResultFollows, LateCallIsLast
  <1>. QED
    BY <1>1, <1>2, <1>3, <1>4 DEF IInv

\* Ending an attempt that may be the last: the records, the result and the stage are in order.
LEMMA EndInOrder ==
  ASSUME IInv, stage \in {"bind", "starting"} \cup Calling,
         NEW outcome \in AttemptOutcomes, NEW status \in Statuses,
         NEW response \in Ordinals \cup {None},
         outcome \in FinalOutcomes(status), response \in {None, ordinal},
         response # None <=> status \in Retained,
         End(outcome, status, response), ordinal' = ordinal
  PROVE  /\ stage' = "ended"
         /\ records' \in Seq(AttemptOutcomes)
         /\ result' \in [status : Statuses, response : Ordinals \cup {None}]
         /\ RecordsFollow'
         /\ ResultFollows'
  <1> USE DEF End
  <1>1. /\ records' \in Seq(AttemptOutcomes)
        /\ Len(records') = Len(records) + 1
        /\ records'[Len(records) + 1] = outcome
        /\ \A k \in 1..Len(records) : records'[k] = records[k]
        /\ Len(records) \in Nat
    BY Appended DEF IInv, TypeOK
  <1>2. Len(records) = ordinal - 1 /\ ordinal \in Nat
    BY GatewayAssumption DEF IInv, RecordsFollow, TypeOK, Ordinals, Calling
  <1>3. \A k \in 1..Len(records) : records[k] \in Retryable
    BY DEF IInv, RecordsFollow, Calling
  <1>4. RecordsFollow'
    BY <1>1, <1>2, <1>3 DEF RecordsFollow, Calling
  <1>5. ResultFollows'
    BY <1>1, <1>2 DEF ResultFollows
  <1>. QED
    BY <1>1, <1>4, <1>5

\* A retry leaves the records in order.
LEMMA RetryInOrder ==
  ASSUME IInv, stage \in Calling, NEW outcome \in Retryable, ordinal < MaxAttempts,
         Retry(outcome), ordinal' = ordinal
  PROVE  /\ stage' = "backoff"
         /\ records' \in Seq(AttemptOutcomes)
         /\ result' = None
         /\ RecordsFollow'
         /\ ResultFollows'
  <1> USE DEF Retry
  <1>1. outcome \in AttemptOutcomes
    BY DEF Retryable, AttemptOutcomes
  <1>2. /\ records' \in Seq(AttemptOutcomes)
        /\ Len(records') = Len(records) + 1
        /\ records'[Len(records) + 1] = outcome
        /\ \A k \in 1..Len(records) : records'[k] = records[k]
        /\ Len(records) \in Nat
    BY <1>1, Appended DEF IInv, TypeOK
  <1>3. Len(records) = ordinal - 1 /\ ordinal \in Nat
    BY GatewayAssumption DEF IInv, RecordsFollow, TypeOK, Ordinals, Calling
  <1>4. \A k \in 1..Len(records) : records[k] \in Retryable
    BY DEF IInv, RecordsFollow, Calling
  <1>5. RecordsFollow'
    BY <1>2, <1>3, <1>4 DEF RecordsFollow, Calling
  <1>6. result' = None /\ ResultFollows'
    BY DEF IInv, ResultFollows, Calling
  <1>. QED
    BY <1>2, <1>5, <1>6

\* Running out of time leaves everything in order, with another attempt or none.
LEMMA ExpireInOrder ==
  ASSUME IInv, stage \in Calling, Expire, ordinal' = ordinal
  PROVE  /\ stage' \in {"backoff", "ended"}
         /\ records' \in Seq(AttemptOutcomes)
         /\ result' = None \/ result' \in [status : Statuses, response : Ordinals \cup {None}]
         /\ RecordsFollow'
         /\ ResultFollows'
  <1>1. CASE MayRetry(ordinal)
    BY <1>1, RetryInOrder DEF Expire, MayRetry, Retryable
  <1>2. CASE ~MayRetry(ordinal)
    <2>1. End("timeout", TimeoutStatus, None)
      BY <1>2 DEF Expire
    <2>2. /\ TimeoutStatus \in Statuses
          /\ "timeout" \in FinalOutcomes(TimeoutStatus)
          /\ TimeoutStatus \notin Retained
      BY DEF TimeoutStatus, Statuses, FinalOutcomes, Retained
    <2>3. "timeout" \in AttemptOutcomes
      BY DEF AttemptOutcomes
    <2>. QED
      BY <2>1, <2>2, <2>3, EndInOrder
  <1>. QED
    BY <1>1, <1>2

\* What the execution ends with in each case is in order.
LEMMA EndsInOrder ==
  ASSUME IInv, stage \in {"bind", "starting"} \cup Calling, ordinal' = ordinal,
         \/ End("identity_mismatch", "identity_rejected", None)
         \/ End("cancelled", "cancelled", None)
         \/ End("permanent_error", "provider_failed", None)
         \/ End("transient_error", "retry_exhausted", None)
         \/ End("oversized_response", "oversized_response", ordinal)
         \/ End("parse_failure", "parse_failed", ordinal)
         \/ End("response", "parsed", ordinal)
  PROVE  /\ stage' = "ended"
         /\ records' \in Seq(AttemptOutcomes)
         /\ result' \in [status : Statuses, response : Ordinals \cup {None}]
         /\ RecordsFollow'
         /\ ResultFollows'
  <1>1. ordinal \in Ordinals /\ ordinal # None
    BY GatewayAssumption DEF IInv, TypeOK, Ordinals
  <1> USE EndInOrder DEF AttemptOutcomes, Statuses, FinalOutcomes, Retained
  <1>2. CASE End("identity_mismatch", "identity_rejected", None)
    BY <1>2
  <1>3. CASE End("cancelled", "cancelled", None)
    BY <1>3
  <1>4. CASE End("permanent_error", "provider_failed", None)
    BY <1>4
  <1>5. CASE End("transient_error", "retry_exhausted", None)
    BY <1>5
  <1>6. CASE End("oversized_response", "oversized_response", ordinal)
    BY <1>1, <1>6
  <1>7. CASE End("parse_failure", "parse_failed", ordinal)
    BY <1>1, <1>7
  <1>8. CASE End("response", "parsed", ordinal)
    BY <1>1, <1>8
  <1>. QED
    BY <1>2, <1>3, <1>4, <1>5, <1>6, <1>7, <1>8

\* An attempt that is over leaves the invariant: its calls and the late call are unchanged.
LEMMA OverInOrder ==
  ASSUME IInv, stage \in {"bind", "starting"} \cup Calling, stage' \in {"backoff", "ended"},
         stage' = "backoff" => stage \in Calling,
         records' \in Seq(AttemptOutcomes),
         result' = None \/ result' \in [status : Statuses, response : Ordinals \cup {None}],
         RecordsFollow', ResultFollows',
         UNCHANGED <<ordinal, calls, outbox, cancelled, tooLate>>,
         reply' = None \/ UNCHANGED reply
  PROVE  IInv'
  <1>1. TypeOK'
    BY DEF IInv, TypeOK
  <1>2. CallsFollow'
    BY DEF IInv, CallsFollow, Calling
  <1>3. ReplyIsOwn' /\ LateCallIsLast'
    BY DEF IInv, ReplyIsOwn, LateCallIsLast
  <1>. QED
    BY <1>1, <1>2, <1>3 DEF IInv

\* Every step of the gateway's thread, of an adapter call and of the caller keeps the invariant.
LEMMA NextIInv == IInv /\ [Next]_vars => IInv'
  <1> SUFFICES ASSUME IInv, [Next]_vars PROVE IInv'
    OBVIOUS
  <1> USE DEF Calling
  <1>1. ASSUME Bind PROVE IInv'
    <2>1. CASE stage' = "starting" /\ UNCHANGED <<records, result>>
      BY <1>1, <2>1 DEF Bind, IInv, TypeOK, RecordsFollow, CallsFollow, ReplyIsOwn,
         ResultFollows, LateCallIsLast
    <2>2. CASE End("identity_mismatch", "identity_rejected", None)
      BY <1>1, <2>2, EndsInOrder, OverInOrder DEF Bind
    <2>. QED
      BY <1>1, <2>1, <2>2 DEF Bind
  <1>2. ASSUME StartAttempt PROVE IInv'
    <2>1. CASE cancelled
      BY <1>2, <2>1, EndsInOrder, OverInOrder DEF StartAttempt
    <2>2. CASE ~cancelled
      BY <1>2, <2>2 DEF StartAttempt, IInv, TypeOK, RecordsFollow, CallsFollow, ReplyIsOwn,
         ResultFollows, LateCallIsLast
    <2>. QED
      BY <2>1, <2>2
  <1>3. ASSUME CallAdapter PROVE IInv'
    <2>1. TypeOK'
      BY <1>3, GatewayAssumption DEF CallAdapter, IInv, TypeOK, LateCallIsLast
    <2>2. RecordsFollow' /\ ReplyIsOwn' /\ ResultFollows' /\ LateCallIsLast'
      BY <1>3 DEF CallAdapter, IInv, RecordsFollow, ReplyIsOwn, ResultFollows, LateCallIsLast
    <2>3. CallsFollow'
      BY <1>3, GatewayAssumption DEF CallAdapter, IInv, TypeOK, CallsFollow, Ordinals
    <2>. QED
      BY <2>1, <2>2, <2>3 DEF IInv
  <1>4. ASSUME TakeReply PROVE IInv'
    <2>1. /\ ordinal \in Ordinals /\ outbox[ordinal] \in Replies
          /\ reply' = [kind |-> outbox[ordinal], call |-> ordinal]
          /\ outbox' = [outbox EXCEPT ![ordinal] = None]
      BY <1>4 DEF TakeReply, Readable, IInv, TypeOK
    <2>2. TypeOK'
      BY <1>4, <2>1 DEF TakeReply, IInv, TypeOK
    <2>3. ReplyIsOwn'
      BY <1>4, <2>1 DEF TakeReply, ReplyIsOwn
    <2>4. RecordsFollow' /\ CallsFollow' /\ ResultFollows' /\ LateCallIsLast'
      BY <1>4 DEF TakeReply, IInv, RecordsFollow, CallsFollow, ResultFollows, LateCallIsLast
    <2>. QED
      BY <2>2, <2>3, <2>4 DEF IInv
  <1>5. ASSUME DeadlinePasses PROVE IInv'
    BY <1>5, ExpireInOrder, OverInOrder DEF DeadlinePasses
  <1>6. ASSUME CancelWhileWaiting PROVE IInv'
    BY <1>6, EndsInOrder, OverInOrder DEF CancelWhileWaiting
  <1>7. ASSUME AdapterRaised PROVE IInv'
    <2>1. CASE reply.kind = "provider_cancelled"
      BY <1>7, <2>1, EndsInOrder, OverInOrder DEF AdapterRaised, ErrorDisposition
    <2>2. CASE reply.kind \in {"permanent_error", "invalid_metadata", "unknown_error"}
      BY <1>7, <2>2, EndsInOrder, OverInOrder DEF AdapterRaised, ErrorDisposition
    <2>3. CASE reply.kind = "provider_timeout"
      BY <1>7, <2>3, ExpireInOrder, OverInOrder DEF AdapterRaised, ErrorDisposition
    <2>4. CASE reply.kind = "transient_error"
      <3>1. CASE MayRetry(ordinal)
        BY <1>7, <2>4, <3>1, RetryInOrder, OverInOrder
           DEF AdapterRaised, ErrorDisposition, MayRetry, Retryable
      <3>2. CASE ~MayRetry(ordinal)
        BY <1>7, <2>4, <3>2, EndsInOrder, OverInOrder DEF AdapterRaised, ErrorDisposition
      <3>. QED
        BY <3>1, <3>2
    <2>. QED
      BY <1>7, <2>1, <2>2, <2>3, <2>4 DEF AdapterRaised, AdapterErrors
  <1>8. ASSUME CheckResponse PROVE IInv'
    <2> PICK slow \in BOOLEAN :
          IF reply.kind = "mismatched" THEN End("identity_mismatch", "identity_rejected", None)
          ELSE IF slow THEN Expire
          ELSE IF cancelled THEN End("cancelled", "cancelled", None)
          ELSE IF reply.kind = "oversized"
            THEN End("oversized_response", "oversized_response", reply.call)
          ELSE IF reply.kind = "malformed" THEN End("parse_failure", "parse_failed", reply.call)
          ELSE stage' = "accepting" /\ UNCHANGED <<records, result>>
      BY <1>8 DEF CheckResponse
    <2>1. reply.call = ordinal /\ stage = "returned"
      BY <1>8 DEF CheckResponse, IInv, ReplyIsOwn
    <2>2. /\ UNCHANGED <<ordinal, calls, outbox, cancelled, tooLate>>
          /\ reply' = None \/ UNCHANGED reply
      BY <1>8 DEF CheckResponse
    <2>3. CASE /\ stage' = "accepting" /\ UNCHANGED <<records, result>>
      <3>1. reply' = reply
        BY <1>8, <2>3 DEF CheckResponse
      <3>. QED
        BY <2>1, <2>2, <2>3, <3>1 DEF IInv, TypeOK, RecordsFollow, CallsFollow, ReplyIsOwn,
           ResultFollows, LateCallIsLast
    <2>4. CASE Expire
      BY <2>1, <2>2, <2>4, ExpireInOrder, OverInOrder
    <2>5. CASE \/ End("identity_mismatch", "identity_rejected", None)
               \/ End("cancelled", "cancelled", None)
               \/ End("oversized_response", "oversized_response", ordinal)
               \/ End("parse_failure", "parse_failed", ordinal)
      BY <2>1, <2>2, <2>5, EndsInOrder, OverInOrder
    <2>. QED
      BY <2>1, <2>3, <2>4, <2>5
  <1>9. ASSUME Accept PROVE IInv'
    <2>1. reply.call = ordinal
      BY <1>9 DEF Accept, IInv, ReplyIsOwn
    <2>2. CASE cancelled
      BY <1>9, <2>2, EndsInOrder, OverInOrder DEF Accept
    <2>3. CASE ~cancelled
      BY <1>9, <2>1, <2>3, EndsInOrder, OverInOrder DEF Accept
    <2>. QED
      BY <2>2, <2>3
  <1>10. ASSUME Backoff PROVE IInv'
    <2>1. ordinal \in Ordinals /\ ordinal < MaxAttempts /\ MaxAttempts \in Nat
      BY <1>10, GatewayAssumption DEF Backoff, IInv, TypeOK, RecordsFollow
    <2>2. ordinal' = ordinal + 1 /\ ordinal' \in Ordinals
      BY <1>10, <2>1 DEF Backoff, Ordinals
    <2>3. TypeOK'
      BY <1>10, <2>2 DEF Backoff, IInv, TypeOK
    <2>4. RecordsFollow'
      BY <1>10, <2>1, <2>2 DEF Backoff, IInv, RecordsFollow, Ordinals
    <2>5. CallsFollow'
      BY <1>10, <2>1, <2>2 DEF Backoff, IInv, CallsFollow, Ordinals
    <2>6. ReplyIsOwn' /\ ResultFollows' /\ LateCallIsLast'
      BY <1>10 DEF Backoff, IInv, ReplyIsOwn, ResultFollows, LateCallIsLast
    <2>. QED
      BY <2>3, <2>4, <2>5, <2>6 DEF IInv
  <1>11. ASSUME NEW i \in Ordinals, Reply(i) PROVE IInv'
    <2>1. TypeOK'
      BY <1>11 DEF Reply, IInv, TypeOK
    <2>2. CallsFollow'
      BY <1>11, GatewayAssumption DEF Reply, IInv, TypeOK, CallsFollow, Ordinals
    <2>3. RecordsFollow' /\ ReplyIsOwn' /\ ResultFollows' /\ LateCallIsLast'
      BY <1>11 DEF Reply, IInv, RecordsFollow, ReplyIsOwn, ResultFollows, LateCallIsLast
    <2>. QED
      BY <2>1, <2>2, <2>3 DEF IInv
  <1>12. ASSUME Cancel PROVE IInv'
    BY <1>12 DEF Cancel, IInv, TypeOK, RecordsFollow, CallsFollow, ReplyIsOwn, ResultFollows,
       LateCallIsLast
  <1>13. ASSUME UNCHANGED vars PROVE IInv'
    BY <1>13 DEF vars, IInv, TypeOK, RecordsFollow, CallsFollow, ReplyIsOwn, ResultFollows,
       LateCallIsLast
  <1>. QED
    BY <1>1, <1>2, <1>3, <1>4, <1>5, <1>6, <1>7, <1>8, <1>9, <1>10, <1>11, <1>12, <1>13
       DEF Next, Execute

LEMMA Invariance == Spec => []IInv
  BY InitIInv, NextIInv, PTL DEF Spec

\* The variables keep their types whatever the number of attempts.
THEOREM TypeCorrectness == Spec => []TypeOK
  <1>1. IInv => TypeOK
    BY DEF IInv
  <1>. QED
    BY <1>1, Invariance, PTL

\* Every result passes the validation of GatewayExecutionResult.
THEOREM ResultsAreConsistent == Spec => []ResultIsConsistent
  <1>1. IInv => ResultIsConsistent
    BY GatewayAssumption
       DEF IInv, TypeOK, RecordsFollow, ResultFollows, ResultIsConsistent, Retryable, Ordinals
  <1>. QED
    BY <1>1, Invariance, PTL

\* A retained response is that of the last attempt's own call.
THEOREM ResponsesAreOwn == Spec => []ResponseIsOwn
  <1>1. IInv => ResponseIsOwn
    BY DEF IInv, RecordsFollow, ResultFollows, ResponseIsOwn
  <1>. QED
    BY <1>1, Invariance, PTL

\* Every call of the provider has left its record in the result.
THEOREM EveryCallIsRecorded == Spec => []CallsAreRecorded
  <1>1. IInv => CallsAreRecorded
    BY GatewayAssumption
       DEF IInv, TypeOK, RecordsFollow, ResultFollows, CallsFollow, CallsAreRecorded, Ordinals
  <1>. QED
    BY <1>1, Invariance, PTL

\* At most one call begins after the caller has cancelled.
THEOREM CancellationStopsCalls == Spec => []CancelStopsCalls
  <1>1. IInv => CancelStopsCalls
    BY DEF IInv, LateCallIsLast, CancelStopsCalls
  <1>. QED
    BY <1>1, Invariance, PTL
=============================================================================
