--------------------------- MODULE AttemptReceipts ---------------------------
(***************************************************************************)
(* AttemptReceiptStore                                                     *)
(* (src/src/aletheia_lab/evaluation/model_load_attempt_retention.py) keeps *)
(* the receipts of requests in SQLite and their life in memory.  It is     *)
(* told beforehand which attempts a request has and which of them will be  *)
(* asked about, and, when its selection is static, keeps only the receipts *)
(* that those questions can need.  A request whose attempts are settled    *)
(* and whose deliveries are acknowledged is drained; its receipts are      *)
(* deleted when Horizon more requests have been.                           *)
(*                                                                         *)
(* One lock makes every operation atomic, but not its failure: when SQLite *)
(* cannot commit, the rows are rolled back and the memory is not.          *)
(***************************************************************************)
EXTENDS LoadEvidence

CONSTANTS
  Services,     \* what may be registered: a request's attempts, and those that are queried
  Deliveries,   \* owner and receipt of what producers submit
  Horizon,      \* drained requests after which receipts expire
  MaxRequests,  \* the store's budgets of requests, ...
  MaxAttempts,  \* ... of attempts of all requests
  MaxCaptures,  \* ... and of submissions
  MaxPending,   \* bound of the model: deliveries that wait at a time
  MaxFailures   \* bound of the model: transactions that fail

ASSUME StoreAssumption ==
  /\ Services \subseteq [request : Requests, attempts : SUBSET Nat, queries : SUBSET Nat]
  /\ \A v \in Services : /\ IsFiniteSet(v.attempts)
                         /\ 0 \in v.attempts
                         /\ v.queries \subseteq v.attempts
                         /\ v.queries # {}
  /\ None \notin Services
  /\ IsFiniteSet(Requests)
  /\ Deliveries \subseteq Requests \X Records
  /\ Horizon \in Nat
  /\ MaxRequests \in Nat
  /\ MaxAttempts \in Nat
  /\ MaxCaptures \in Nat
  /\ MaxPending \in Nat
  /\ MaxFailures \in Nat

VARIABLES
  selection,    \* the constructor's argument
  service,      \* what each request was registered with, or None
  closed,       \* settled attempts
  pending,      \* deliveries that wait for an acknowledgement
  drained,      \* each request's place among the drained ones, or 0
  retired,      \* requests whose receipts have expired
  completions,  \* how many drains there were
  captures,     \* how many submissions there were
  rows,         \* the table: owner and receipt
  delayed,      \* rows that are not visible yet
  delivered,    \* what producers were told is delivered
  failures      \* how many transactions have failed

memory == <<service, closed, pending, drained, retired, completions, captures>>
table == <<rows, delayed>>
vars == <<selection, memory, table, delivered, failures>>

Selectors == {"full", "static_sufficient"}

TypeOK ==
  /\ selection \in Selectors
  /\ service \in [Requests -> Services \cup {None}]
  /\ closed \subseteq Scopes
  /\ pending \subseteq Deliveries
  /\ drained \in [Requests -> 0..completions]
  /\ retired \subseteq Requests
  /\ completions \in Nat
  /\ captures \in 0..MaxCaptures
  /\ rows \subseteq Deliveries
  /\ delayed \subseteq rows
  /\ delivered \subseteq Deliveries
  /\ failures \in 0..MaxFailures

Init ==
  /\ selection \in Selectors
  /\ service = [r \in Requests |-> None]
  /\ closed = {}
  /\ pending = {}
  /\ drained = [r \in Requests |-> 0]
  /\ retired = {}
  /\ completions = 0
  /\ captures = 0
  /\ rows = {}
  /\ delayed = {}
  /\ delivered = {}
  /\ failures = 0

----------------------------------------------------------------------------
Registered == {r \in Requests : service[r] # None}
Drained == {r \in Requests : drained[r] # 0}
AttemptsOf(r) == {<<r, a>> : a \in service[r].attempts}
Registrations == UNION {AttemptsOf(r) : r \in Registered}

\* Mutant: deliveries are taken until the receipts expire.
LiveUntilRetired(r) == r \in Registered \ retired

\* _live
Live(r) == r \in Registered \ Drained

\* register
Register(r) ==
  /\ r \notin Registered
  /\ Cardinality(Registered) < MaxRequests
  /\ \E v \in {s \in Services : s.request = r} :
       /\ Cardinality(Registrations) + Cardinality(v.attempts) <= MaxAttempts
       /\ service' = [service EXCEPT ![r] = v]
  /\ UNCHANGED <<selection, closed, pending, drained, retired, completions, captures, table,
                 delivered, failures>>

\* Mutant: the root's selections are taken to be needed for questions about the root only.
KeepsQueried(d) ==
  \/ selection = "full"
  \/ d[2].scope \in {<<d[1], a>> : a \in service[d[1]].queries}

\* The table is to have the delivery d.
Keeps(d) ==
  \/ selection = "full"
  \/ d[2].scope \in {<<d[1], a>> : a \in service[d[1]].queries}
  \/ d[2].scope = <<d[1], 0>> /\ d[2].kind = "selection"

\* A transaction cannot be committed.
Fail == failures < MaxFailures /\ failures' = failures + 1

\* What a submission changes before it comes to the table.
Capture(d, late) ==
  /\ Live(d[1])
  /\ late => Cardinality(pending \cup {d}) <= MaxPending
  /\ captures < MaxCaptures
  /\ captures' = captures + 1
  /\ pending' = IF late THEN pending \cup {d} ELSE pending \ {d}
  /\ UNCHANGED <<selection, service, closed, drained, retired, completions>>

\* A duplicate may make a delayed row visible, and never hides a visible one.
Insert(d, late) ==
  /\ rows' = rows \cup {d}
  /\ delayed' = IF late THEN delayed \cup ({d} \ rows) ELSE delayed \ {d}

\* submit
Submit(d, late) ==
  /\ Capture(d, late)
  /\ IF Keeps(d) THEN Insert(d, late) ELSE UNCHANGED table
  /\ delivered' = IF late THEN delivered ELSE delivered \cup {d}
  /\ UNCHANGED failures

SubmitFails(d, late) ==
  /\ Capture(d, late)
  /\ Keeps(d)
  /\ Fail
  /\ UNCHANGED <<table, delivered>>

Of(r, deliveries) == {d \in deliveries : d[1] = r}

\* release
Release(r) ==
  /\ Live(r)
  /\ delayed' = delayed \ Of(r, delayed)
  /\ pending' = pending \ Of(r, pending)
  /\ delivered' = delivered \cup Of(r, pending)
  /\ UNCHANGED <<selection, service, closed, drained, retired, completions, captures, rows, failures>>

ReleaseFails(r) ==
  /\ Live(r)
  /\ pending' = pending \ Of(r, pending)
  /\ Fail
  /\ UNCHANGED <<selection, service, closed, drained, retired, completions, captures, table,
                 delivered>>

\* settle
Settle(q) ==
  /\ Live(q[1])
  /\ q \in AttemptsOf(q[1]) \ closed
  /\ closed' = closed \cup {q}
  /\ UNCHANGED <<selection, service, pending, drained, retired, completions, captures, table,
                 delivered, failures>>

MayDrain(r) ==
  /\ Live(r)
  /\ AttemptsOf(r) \subseteq closed
  /\ Of(r, pending) = {}

\* Mutant: the drain itself counts into the horizon.
ExpiresEarly(r) ==
  {x \in Drained \cup {r} : /\ x \notin retired
                            /\ completions + 2 - (IF x = r THEN completions + 1 ELSE drained[x])
                                 >= Horizon}

\* What expires when r is drained.
Expires(r) ==
  {x \in Drained \cup {r} : /\ x \notin retired
                            /\ completions + 1 - (IF x = r THEN completions + 1 ELSE drained[x])
                                 >= Horizon}

Count(r) ==
  /\ completions' = completions + 1
  /\ drained' = [drained EXCEPT ![r] = completions + 1]

Delete(expired) ==
  /\ rows' = {d \in rows : d[1] \notin expired}
  /\ delayed' = {d \in delayed : d[1] \notin expired}

\* drain
Drain(r) ==
  /\ MayDrain(r)
  /\ Count(r)
  /\ Delete(Expires(r))
  /\ retired' = retired \cup Expires(r)
  /\ UNCHANGED <<selection, service, closed, pending, captures, delivered, failures>>

\* A deletion fails, or the commit after all of them: the requests before it count as retired.
DrainFails(r) ==
  /\ MayDrain(r)
  /\ Expires(r) # {}
  /\ Count(r)
  /\ \E n \in 0..(completions + 1) :
       retired' = retired \cup {x \in Expires(r) : drained'[x] <= n}
  /\ Fail
  /\ UNCHANGED <<selection, service, closed, pending, captures, table, delivered>>

Next ==
  \/ \E r \in Requests :
       Register(r) \/ Release(r) \/ ReleaseFails(r) \/ Drain(r) \/ DrainFails(r)
  \/ \E d \in Deliveries, late \in BOOLEAN : Submit(d, late) \/ SubmitFails(d, late)
  \/ \E r \in Registered : \E q \in AttemptsOf(r) : Settle(q)

Spec == Init /\ [][Next]_vars

----------------------------------------------------------------------------
\* snapshot

Queryable(q) ==
  /\ q[1] \in Registered \ retired
  /\ q[2] \in service[q[1]].queries

Visible(r) == {d[2] : d \in Of(r, rows \ delayed)}
Snapshot(q) == IF selection = "full" THEN Visible(q[1]) ELSE Sufficient(q, Visible(q[1]))
Decision(c, q) == ReceiptChecker(c, q, Snapshot(q))

Queries == {q \in Registrations : Queryable(q)}

----------------------------------------------------------------------------
\* Properties

\* Whatever is kept or left out, the answer about an attempt is the one that all receipts would
\* give that were ever delivered for its request.
SelectionKeepsDecisions ==
  failures = 0 => \A q \in Queries, c \in Contracts :
    Decision(c, q) = ReceiptChecker(c, q, {d[2] : d \in Of(q[1], delivered)})

\* The checker that looks for witnesses and the monitor that enumerates histories agree.
SAgreesWithT ==
  \A q \in Queries, c \in Contracts : CompletionMonitor(c, q, Snapshot(q)) = Decision(c, q)

\* A request is drained only when its attempts are settled and every delivery is visible; it
\* stays so.
DrainedIsComplete ==
  \A r \in Drained :
    /\ AttemptsOf(r) \subseteq closed
    /\ Of(r, pending) = {}
    /\ failures = 0 => Of(r, delayed) = {}

\* Receipts expire when, and not before, Horizon more requests have been drained, and nothing is
\* left of them.
RetirementIsExact ==
  \A r \in Drained :
    LET due == Cardinality({x \in Requests : drained[x] > drained[r]}) >= Horizon IN
    /\ r \in retired => due
    /\ failures = 0 => (due => r \in retired) /\ (r \in retired => Of(r, rows) = {})

\* A verdict that is not unknown stands, unless receipts contradict each other later: what has
\* been witnessed needs no closure, and a closure is conclusive.
DecisionsStand ==
  [][\A q \in {p \in Queries : p \in Queries' /\ Snapshot(p)' # Snapshot(p)}, c \in Contracts :
       Decision(c, q).verdict # "unknown" =>
         Decision(c, q)' \in {Decision(c, q), Decided("conflict")}]_vars

\* What is asked about a request is the same from its drain on, as long as it can be asked: no
\* receipt arrives late, and none is lost when another request expires.
AuditsRepeat ==
  [][\A q \in Queries : q[1] \in Drained' /\ q \in Queries' => Snapshot(q)' = Snapshot(q)]_vars
=============================================================================
