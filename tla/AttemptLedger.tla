--------------------------- MODULE AttemptLedger ---------------------------
(***************************************************************************)
(* What the attempt store promises about one request, whoever writes to it *)
(* and whatever fails: its events come one at a time, in the lifecycle's   *)
(* order, all from the result of one run, and none is ever taken back.     *)
(***************************************************************************)
EXTENDS Naturals, Sequences, FiniteSets

CONSTANTS
  Runs,         \* the runs that write to the store, each of which calls the provider once at most
  MaxAttempts,  \* attempts a run's request may take
  None          \* no run, no result

VARIABLE chain  \* the events of the request, in order

\* An event: its state, the run whose result it records (None before there is one) and the
\* ordinal of an attempt.
Event(s, r, i) == [state |-> s, run |-> r, ordinal |-> i]

Opening == <<Event("prepared", None, 0), Event("started", None, 0)>>
LateStates == {"response_recorded", "parsed_or_failed", "closeout_pending", "terminal_published"}

Events ==
  {Opening[1], Opening[2]}
    \cup {Event("attempt_recorded", r, i) : r \in Runs, i \in 1..MaxAttempts}
    \cup {Event(s, r, 0) : s \in LateStates, r \in Runs}

\* The states an event may follow; "nothing" stands for an empty ledger.
Previous(s) ==
  CASE s = "prepared" -> {"nothing"}
    [] s = "started" -> {"prepared"}
    [] s = "attempt_recorded" -> {"started", "attempt_recorded"}
    [] s = "response_recorded" -> {"attempt_recorded"}
    [] s = "parsed_or_failed" -> {"attempt_recorded", "response_recorded"}
    [] s = "closeout_pending" -> {"parsed_or_failed"}
    [] s = "terminal_published" -> {"closeout_pending"}

LastState(c) == IF c = <<>> THEN "nothing" ELSE c[Len(c)].state
AttemptCount(c) == Cardinality({k \in 1..Len(c) : c[k].state = "attempt_recorded"})

\* e is the next event of the lifecycle after c.
Extends(c, e) ==
  /\ LastState(c) \in Previous(e.state)
  /\ e.state = "attempt_recorded" => e.ordinal = AttemptCount(c) + 1

\* ... and of the same result as what is recorded so far.
OfTheSameRun(c, e) == \A k \in 1..Len(c) : c[k].run \in {None, e.run}

Record(e) ==
  /\ Extends(chain, e)
  /\ OfTheSameRun(chain, e)
  /\ chain' = Append(chain, e)

Init == chain = <<>>
Next == \E e \in Events : Record(e)
Spec == Init /\ [][Next]_chain
=============================================================================
