---------------------------- MODULE AttemptStore ----------------------------
(***************************************************************************)
(* The immutable attempt store of one request                              *)
(* (src/src/aletheia_lab/evaluation/_attempt_store), and the runs that     *)
(* write to it: each records, in order, that it prepared and started the   *)
(* request, then every provider attempt, the response, the outcome, the    *)
(* pending closeout and the terminal of a gateway result.                  *)
(*                                                                         *)
(* An operation of the store verifies all that is on disk, lists the       *)
(* ledger, reads the terminal, writes the objects an event refers to,      *)
(* lists again, and publishes the event at the next free number.  Runs     *)
(* interleave at each of these steps, and a run may die at any of them.    *)
(* Files are published whole and never replaced (ImmutablePublication).    *)
(*                                                                         *)
(* The time stamps of an entry are left out: they make the bytes of a      *)
(* concurrent write of the same event differ, and the store answers a      *)
(* conflict and an identical file alike when it finds the event.           *)
(***************************************************************************)
EXTENDS Naturals, Sequences, FiniteSets, SequencesExt

CONSTANTS
  Runs,         \* runs of the execution that records the request
  MaxAttempts,  \* the runtime policy's limit
  None,
  Checked,      \* whether runs first look at the request's state and continue no partial one:
                \* {TRUE}, {FALSE} or BOOLEAN
  OneAtATime    \* a run begins after the one before has ended

VARIABLES
  dir,       \* the request's directory: "none", "request" (made, and empty) or "ledger"
  objects,   \* objects on disk, each named by the event it was first written for
  ledger,    \* events published in the ledger directory, by sequence number
  terminal,  \* the terminal index: an event and its sequence number, or None
  gained,    \* the gateway result of each run, or None
  counted,   \* attempts that were acknowledged as newly counted: run and event
  run,       \* the program state of each run
  orderly    \* so far each run checked, and began after those before it had ended

diskVars == <<dir, objects, ledger, terminal>>
vars == <<dir, objects, ledger, terminal, gained, counted, run, orderly>>

\* Stands for the ledger followed by the terminal.
History == ledger \o (IF terminal = None THEN <<>> ELSE <<terminal.event>>)

Abstract == INSTANCE AttemptLedger WITH chain <- History
Event(s, r, i) == Abstract!Event(s, r, i)

\* The results a gateway may return: how many attempts, and whether there is a response.
GatewayResults == [attempts : 1..MaxAttempts, raw : BOOLEAN]

\* None is none of the values it stands next to.
ASSUME AttemptAssumption ==
  /\ MaxAttempts \in Nat \ {0}
  /\ None \notin Runs \cup GatewayResults
  /\ None \notin [event : Abstract!Events, sequence : Nat \ {0}]
  /\ Checked \subseteq BOOLEAN
  /\ OneAtATime \in BOOLEAN

\* The events that record the result of run r, in order; the opening ones are everyone's.
Chain(r) ==
  Abstract!Opening
    \o [i \in 1..gained[r].attempts |-> Event("attempt_recorded", r, i)]
    \o (IF gained[r].raw THEN <<Event("response_recorded", r, 0)>> ELSE <<>>)
    \o <<Event("parsed_or_failed", r, 0), Event("closeout_pending", r, 0),
         Event("terminal_published", r, 0)>>

\* The object an event refers to: the record of its attempt, the raw response, or the result
\* (with it stand the parsed payload and the issue, written at the same time).
ObjectOf(e) ==
  CASE e.state \in {"prepared", "started"} -> {}
    [] e.state \in {"attempt_recorded", "response_recorded"} -> {e}
    [] OTHER -> {Event("result", e.run, 0)}

----------------------------------------------------------------------------
\* The reader

LastState(entries) == Abstract!LastState(entries)
AttemptCount(entries) == Abstract!AttemptCount(entries)

\* verify_stored_transition
StoredLegally(entries, e) ==
  /\ LastState(entries) \in Abstract!Previous(e.state)
  /\ e.state = "attempt_recorded" => e.ordinal = AttemptCount(entries) + 1

\* The attempts in the ledger are exactly those of the result of run r, in their order.
InventoryMatches(entries, r) ==
  /\ AttemptCount(entries) = gained[r].attempts
  /\ \A k \in 1..Len(entries) : entries[k].state = "attempt_recorded" =>
       entries[k] = Event("attempt_recorded", r, AttemptCount(SubSeq(entries, 1, k)))

\* _verify_result_links: the outcome is of the attempts and the response before it, and what
\* closes it is of the same result.
ResultLinks(entries, e) ==
  e.state = "parsed_or_failed" =>
    /\ InventoryMatches(entries, e.run)
    /\ {x.run : x \in {y \in ToSet(entries) : y.state = "response_recorded"}} =
         IF gained[e.run].raw THEN {e.run} ELSE {}
    /\ \A x \in ToSet(entries) : x.state \in {"closeout_pending", "terminal_published"} =>
                                   x.run = e.run

\* What _load_chain accepts: a listing of the ledger, with or without a terminal.
Reconciles(entries, last) ==
  LET all == entries \o (IF last = None THEN <<>> ELSE <<last.event>>) IN
  /\ \A k \in 1..Len(all) :
       /\ StoredLegally(SubSeq(all, 1, k - 1), all[k])
       /\ ObjectOf(all[k]) \subseteq objects
       /\ ResultLinks(all, all[k])
  /\ last # None => last.sequence = Len(entries) + 1

\* _load_chain, after a listing of n entries.
Loads(n) == dir # "request" /\ Reconciles(SubSeq(ledger, 1, n), terminal)

\* verify_integrity: every ledger without its terminal, then every terminal.
Sound ==
  /\ dir # "request"
  /\ Reconciles(ledger, None)
  /\ terminal # None => dir = "ledger" /\ Reconciles(ledger, terminal)

----------------------------------------------------------------------------
\* A run

Stages == {"idle", "check", "verify", "guard", "object", "append", "mkdir", "publish", "again",
           "receipt", "execute", "ended"}
Errors == {"integrity_error", "invalid_transition", "replay_rejected", "conflict"}
Outcomes == {"none", "done", "skipped", "refused", "crashed"} \cup Errors

Programs ==
  [stage : Stages,
   listed : BOOLEAN,               \* a stage that loads has listed the ledger
   seen : 0..(MaxAttempts + 5),    \* how many entries it found
   at : 1..(MaxAttempts + 6),      \* the event it works on, of its chain
   source : Runs,                  \* the run whose result it records
   created : BOOLEAN,              \* it published the event itself
   outcome : Outcomes]

TypeOK ==
  /\ dir \in {"none", "request", "ledger"}
  /\ objects \subseteq [state : {"attempt_recorded", "response_recorded", "result"}, run : Runs,
                        ordinal : 0..MaxAttempts]
  /\ ledger \in Seq(Abstract!Events)
  /\ terminal = None \/ terminal \in [event : Abstract!Events, sequence : Nat \ {0}]
  /\ gained \in [Runs -> [attempts : 1..MaxAttempts, raw : BOOLEAN] \cup {None}]
  /\ counted \subseteq [run : Runs, event : Abstract!Events]
  /\ run \in [Runs -> Programs]
  /\ orderly \in BOOLEAN

Init ==
  /\ dir = "none"
  /\ objects = {}
  /\ ledger = <<>>
  /\ terminal = None
  /\ gained = [w \in Runs |-> None]
  /\ counted = {}
  /\ run = [w \in Runs |->
       [stage |-> "idle", listed |-> FALSE, seen |-> 0, at |-> 1, source |-> w,
        created |-> FALSE, outcome |-> "none"]]
  /\ orderly = TRUE

\* The event run w works on.
Current(w) ==
  IF run[w].at <= 2 THEN Abstract!Opening[run[w].at] ELSE Chain(run[w].source)[run[w].at]

GoTo(w, s) == run' = [run EXCEPT ![w].stage = s, ![w].listed = FALSE, ![w].seen = 0]
Raise(w, o) ==
  run' = [run EXCEPT ![w].stage = "ended", ![w].listed = FALSE, ![w].seen = 0,
                     ![w].created = FALSE, ![w].outcome = o]

At(w, s) == run[w].stage = s
Listed(w, s) == At(w, s) /\ run[w].listed

NoneAtWork == \A x \in Runs : run[x].stage \in {"idle", "ended"}

\* The store is opened, which verifies it.  A checked run records a result of its own; any
\* other may also record again the result of another run.
Begin(w) ==
  /\ At(w, "idle")
  /\ OneAtATime => NoneAtWork
  /\ \E checked \in Checked :
       /\ orderly' = (orderly /\ checked /\ NoneAtWork)
       /\ IF ~Sound THEN Raise(w, "integrity_error")
          ELSE IF checked THEN GoTo(w, "check")
          ELSE \E r \in {w} \cup {x \in Runs : gained[x] # None} :
                 run' = [run EXCEPT ![w].stage = "verify", ![w].source = r]
  /\ UNCHANGED <<diskVars, gained, counted>>

\* A load lists the ledger first, and looks for the terminal after.
List(w) ==
  /\ run[w].stage \in {"check", "guard", "append", "again"}
  /\ ~run[w].listed
  /\ run' = [run EXCEPT ![w].listed = TRUE, ![w].seen = Len(ledger)]
  /\ UNCHANGED <<diskVars, gained, counted, orderly>>

Entries(w) == SubSeq(ledger, 1, run[w].seen)

\* Mutant: partial state does not stop a run.
MayRestart(w) == TRUE

\* run_live_execution: a finished request is skipped, a partial one refused.
MayStart(w) == Entries(w) = <<>>
CheckState(w) ==
  /\ Listed(w, "check")
  /\ IF ~Loads(run[w].seen) THEN Raise(w, "integrity_error")
     ELSE IF terminal # None THEN Raise(w, "skipped")
     ELSE IF MayStart(w) THEN GoTo(w, "verify")
     ELSE Raise(w, "refused")
  /\ UNCHANGED <<diskVars, gained, counted, orderly>>

----------------------------------------------------------------------------
\* An operation of the store: one event

\* What an operation does after each of its steps, up to the appending of event e.
Route(e) ==
  CASE e.state \in {"prepared", "started"} -> [verify |-> "append"]
    [] e.state = "attempt_recorded" -> [verify |-> "object", object |-> "append"]
    [] e.state \in {"response_recorded", "parsed_or_failed"} ->
         [verify |-> "guard", guard |-> "object", object |-> "append"]
    [] OTHER -> [verify |-> "object", object |-> "guard", guard |-> "append"]
After(w, s) == Route(Current(w))[s]

\* _checked_request
Verify(w) ==
  /\ At(w, "verify")
  /\ IF Sound THEN GoTo(w, After(w, "verify")) ELSE Raise(w, "integrity_error")
  /\ UNCHANGED <<diskVars, gained, counted, orderly>>

\* Why the stored entries do not admit event e of the result of run r: _verify_attempt_inventory
\* and the checks on the last entry.
HeadIs(entries, s, r) ==
  entries # <<>> /\ LastState(entries) = s /\ entries[Len(entries)].run = r
GuardError(entries, e) ==
  CASE e.state = "closeout_pending" ->
         IF terminal = None /\ HeadIs(entries, "parsed_or_failed", e.run)
           THEN "none" ELSE "replay_rejected"
    [] e.state = "terminal_published" ->
         IF terminal = None /\ HeadIs(entries, "closeout_pending", e.run)
           THEN "none" ELSE "replay_rejected"
    [] OTHER ->
         IF AttemptCount(entries) # gained[e.run].attempts THEN "invalid_transition"
         ELSE IF ~InventoryMatches(entries, e.run) THEN "replay_rejected"
         ELSE IF e.state = "response_recorded" THEN "none"
         ELSE IF IF gained[e.run].raw
                   THEN HeadIs(entries, "response_recorded", e.run)
                   ELSE LastState(entries) = "attempt_recorded"
           THEN "none" ELSE "invalid_transition"

Guard(w) ==
  LET error == GuardError(Entries(w), Current(w)) IN
  /\ Listed(w, "guard")
  /\ IF ~Loads(run[w].seen) THEN Raise(w, "integrity_error")
     ELSE IF error # "none" THEN Raise(w, error)
     ELSE GoTo(w, After(w, "guard"))
  /\ UNCHANGED <<diskVars, gained, counted, orderly>>

\* Mutant: the event is published before its object.
PutNothing(w) ==
  /\ At(w, "object")
  /\ GoTo(w, After(w, "object"))
  /\ UNCHANGED <<diskVars, gained, counted, orderly>>

\* The event's object is published, or found.
PutObject(w) ==
  /\ At(w, "object")
  /\ objects' = objects \cup ObjectOf(Current(w))
  /\ GoTo(w, After(w, "object"))
  /\ UNCHANGED <<dir, ledger, terminal, gained, counted, orderly>>

\* Mutant: the ordinal of an attempt is not compared with the attempts on record.
AnyOrdinal(entries, e) ==
  IF LastState(entries) \notin Abstract!Previous(e.state) THEN "invalid_transition" ELSE "none"

\* validate_transition
TransitionError(entries, e) ==
  IF LastState(entries) \notin Abstract!Previous(e.state) THEN "invalid_transition"
  ELSE IF e.state = "attempt_recorded" /\ e.ordinal # AttemptCount(entries) + 1
    THEN "replay_rejected"
  ELSE "none"

\* The event is in the ledger or the terminal: it is answered and not written again.
Recorded(w) ==
  Current(w) \in ToSet(Entries(w)) \cup (IF terminal = None THEN {} ELSE {terminal.event})

\* _append, up to the publication.
AppendEvent(w) ==
  LET e == Current(w)
      error == TransitionError(Entries(w), e)
      next == IF e.state # "terminal_published" /\ dir # "ledger" THEN "mkdir" ELSE "publish"
  IN
  /\ Listed(w, "append")
  /\ IF ~Loads(run[w].seen) THEN Raise(w, "integrity_error")
     ELSE IF Recorded(w) THEN GoTo(w, "receipt")
     ELSE IF terminal # None THEN Raise(w, "replay_rejected")
     ELSE IF error # "none" THEN Raise(w, error)
     ELSE run' = [run EXCEPT ![w].stage = next, ![w].listed = FALSE]
  /\ UNCHANGED <<diskVars, gained, counted, orderly>>

\* _ledger_root makes the request's directory, then the ledger in it.
MakeDirectory(w) ==
  /\ At(w, "mkdir")
  /\ dir' = IF dir = "none" THEN "request" ELSE "ledger"
  /\ run' = IF dir' = "ledger" THEN [run EXCEPT ![w].stage = "publish"] ELSE run
  /\ UNCHANGED <<objects, ledger, terminal, gained, counted, orderly>>

\* Mutant: the number is chosen when the entry is published, not when the ledger was listed.
TakesAnyNumber(w) == TRUE

\* The number after the listed entries is free: the event takes it.
TakesNumber(w) == Len(ledger) = run[w].seen
PublishEntry(w) ==
  /\ At(w, "publish")
  /\ Current(w).state # "terminal_published"
  /\ IF TakesNumber(w)
       THEN /\ ledger' = Append(ledger, Current(w))
            /\ run' = [run EXCEPT ![w].stage = "receipt", ![w].seen = 0, ![w].created = TRUE]
       ELSE /\ GoTo(w, "again")
            /\ UNCHANGED ledger
  /\ UNCHANGED <<dir, objects, terminal, gained, counted, orderly>>

\* The terminal has a place of its own.
PublishTerminal(w) ==
  /\ At(w, "publish")
  /\ Current(w).state = "terminal_published"
  /\ IF terminal = None
       THEN /\ terminal' = [event |-> Current(w), sequence |-> run[w].seen + 1]
            /\ run' = [run EXCEPT ![w].stage = "receipt", ![w].seen = 0, ![w].created = TRUE]
       ELSE /\ GoTo(w, "again")
            /\ UNCHANGED terminal
  /\ UNCHANGED <<dir, objects, ledger, gained, counted, orderly>>

\* Another run was there first: with the same event all is well.
LookAgain(w) ==
  /\ Listed(w, "again")
  /\ IF ~Loads(run[w].seen) THEN Raise(w, "integrity_error")
     ELSE IF Recorded(w) THEN GoTo(w, "receipt")
     ELSE Raise(w, "conflict")
  /\ UNCHANGED <<diskVars, gained, counted, orderly>>

\* Mutant: a replayed attempt counts too.
CountsReplays(w) == Current(w).state = "attempt_recorded"

\* The attempt that a receipt counts.
Counts(w) == run[w].created /\ Current(w).state = "attempt_recorded"

\* _receipt verifies the store once more; then the run goes to its next event.
Receipt(w) ==
  /\ At(w, "receipt")
  /\ IF ~Sound
       THEN /\ Raise(w, "integrity_error")
            /\ UNCHANGED counted
       ELSE /\ counted' = IF Counts(w) THEN counted \cup {[run |-> w, event |-> Current(w)]}
                          ELSE counted
            /\ IF Current(w).state = "terminal_published" THEN Raise(w, "done")
               ELSE run' = [run EXCEPT
                      ![w].at = @ + 1, ![w].created = FALSE,
                      ![w].stage = IF run[w].at = 2 /\ gained[run[w].source] = None
                                     THEN "execute" ELSE "verify"]
  /\ UNCHANGED <<diskVars, gained, orderly>>

----------------------------------------------------------------------------
\* execute_gateway_request: the provider is called.
Execute(w) ==
  /\ At(w, "execute")
  /\ \E g \in GatewayResults : gained' = [gained EXCEPT ![w] = g]
  /\ GoTo(w, "verify")
  /\ UNCHANGED <<diskVars, counted, orderly>>

\* The process of a run dies.
Crash(w) ==
  /\ run[w].stage \notin {"idle", "ended"}
  /\ Raise(w, "crashed")
  /\ UNCHANGED <<diskVars, gained, counted, orderly>>

Step(w) ==
  \/ Begin(w) \/ List(w) \/ CheckState(w) \/ Verify(w) \/ Guard(w) \/ PutObject(w)
  \/ AppendEvent(w) \/ MakeDirectory(w) \/ PublishEntry(w) \/ PublishTerminal(w)
  \/ LookAgain(w) \/ Receipt(w) \/ Execute(w) \/ Crash(w)

Next == \E w \in Runs : Step(w)
Spec == Init /\ [][Next]_vars

----------------------------------------------------------------------------
\* Properties

\* Whatever runs interleave and die, the ledger and the terminal on disk are what the reader
\* accepts: the numbers and attempts are contiguous, every object an event refers to is there,
\* and the outcome is of the attempts and the response recorded before it.
LedgerReconciles == Reconciles(ledger, None) /\ (terminal # None => Reconciles(ledger, terminal))

\* A terminal is published only over the whole chain of its result; the artifacts of a run that
\* died do not add up to one.
TerminalIsWhole == terminal # None => History = Chain(terminal.event.run)

\* However often an attempt is recorded again, it is counted once, and it stays in the ledger.
CountedOnce ==
  \A c \in counted :
    /\ c.event \in ToSet(ledger)
    /\ \A d \in counted : d.event.ordinal = c.event.ordinal => d = c

\* Results of different runs never mix: what one run records of its result shuts out the others.
OneResult == \A j, k \in 1..Len(History) :
               None \notin {History[j].run, History[k].run} => History[j].run = History[k].run

\* Validating against a listing and publishing at the number after it comes to adding the event
\* in one step: the store implements the one-event-at-a-time ledger.
ImplementsLedger == Abstract!Spec

\* Of runs that look at the request's state first, one after the other, only one ever calls the
\* provider, even when runs die.
OneProviderCall == orderly => Cardinality({w \in Runs : gained[w] # None}) <= 1

\* Recording again the result that is on record is answered as a replay, and not refused.
ReplayIsIdempotent ==
  \A w \in Runs :
    run[w].outcome \in {"invalid_transition", "replay_rejected", "conflict"} =>
      \E e \in ToSet(ledger) : e.run \notin {None, run[w].source}

\* After a crash the store can still be opened and read.
CrashLeavesReadable ==
  (\A w \in Runs : run[w].stage \in {"idle", "ended"}) => Sound
=============================================================================
