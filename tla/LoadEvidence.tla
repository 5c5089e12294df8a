---------------------------- MODULE LoadEvidence ----------------------------
(***************************************************************************)
(* What the receipts of one attempt say about the model it loaded          *)
(* (src/src/aletheia_lab/evaluation/model_load_contract.py).  A contract   *)
(* fixes when the artifact is selected, and allows one load of it.  Two    *)
(* deciders read the same admitted receipts: S, the receipt checker, looks *)
(* for what has been witnessed; T, the completion monitor, enumerates      *)
(* every history the receipts are compatible with.  Deliveries come in any *)
(* order and more than once, so both read a set of receipts.               *)
(***************************************************************************)
EXTENDS Naturals, FiniteSets

CONSTANTS
  Requests,   \* names of requests
  Digests,    \* of artifacts
  Tokens,     \* selection tokens, identifiers of records
  Contracts,  \* contracts that somebody asks about
  Records,    \* receipts that producers may deliver
  None

Scopes == Requests \X Nat
Kinds == {"selection", "load", "closure", "cache_hit", "registry"}
Policies == {"pin_at_acceptance", "resolve_at_load"}
Retries == {"inherit", "reselect"}

\* What Record.__post_init__ and LoadContract.__post_init__ accept.
ASSUME EvidenceAssumption ==
  /\ Records \subseteq
       [id : Tokens, scope : Scopes, kind : Kinds, digest : Digests \cup {None},
        token : Tokens \cup {None}, revision : Nat \cup {None},
        phase : Policies \cup Retries \cup {None}, count : Nat \cup {None},
        parent : Scopes \cup {None}, parentToken : Tokens \cup {None}]
  /\ \A r \in Records :
       /\ r.kind \in {"selection", "load"} => r.digest # None /\ r.token # None
       /\ r.kind = "closure" => r.count # None
  /\ \A c \in Contracts \ {None} :
       /\ c.policy \in Policies
       /\ c.retry \in Retries
       /\ c.domain \subseteq Digests
       /\ IsFiniteSet(c.domain)
       /\ Cardinality(c.domain) >= 2
  /\ None \notin Nat
  /\ None \notin Tokens
  /\ None \notin Scopes

----------------------------------------------------------------------------
\* Admission of receipts R to the question about attempt q

Own(q, R) == {r \in R : r.scope = q}
Selections(q, R) == {r \in Own(q, R) : r.kind = "selection"}
Loads(q, R) == {r \in Own(q, R) : r.kind = "load"}
Counts(q, R) == {r.count : r \in {s \in Own(q, R) : s.kind = "closure"}}

Binding(r) == <<r.digest, r.token, r.revision, r.phase, r.parent, r.parentToken>>
RootBinding(r) == <<r.digest, r.revision, r.phase>>

\* A retry that inherits is bound by the selections of the root attempt that its own one names.
Inherits(c, q) == q[2] # 0 /\ c.retry = "inherit"
RootsOf(s, q, R) ==
  {r \in R : /\ r.kind = "selection"
             /\ r.scope = s.parent
             /\ r.token = s.parentToken
             /\ s.parent = <<q[1], 0>>}
Roots(q, R) == UNION {RootsOf(s, q, R) : s \in Selections(q, R)}

\* Receipts of one attempt that contradict each other.
Contradictory(q, R) ==
  \/ \E r, s \in Own(q, R) : r.id = s.id /\ r # s
  \/ \E r, s \in Selections(q, R) : Binding(r) # Binding(s)
  \/ \E k, n \in Counts(q, R) : k # n

\* More loads than the model covers, or than the attempt was closed with.
OutOfBounds(q, R) ==
  \/ Cardinality(Loads(q, R)) > 2
  \/ \E k \in Counts(q, R) : k > 2 \/ k < Cardinality(Loads(q, R))

\* Artifacts that the contract does not know, and loads of another selection.
Misjoined(c, q, R) ==
  \/ \E r \in Loads(q, R) \cup Selections(q, R) : r.digest \notin c.domain
  \/ \E r \in Loads(q, R), s \in Selections(q, R) : r.token # s.token

\* The root's selections contradict each other, or name an artifact that the contract does not
\* know.
RootProblem(c, q, R) ==
  /\ Inherits(c, q)
  /\ \/ \E r, s \in Roots(q, R) : RootBinding(r) # RootBinding(s)
     \/ \E r \in Roots(q, R) : r.phase = c.policy /\ r.digest \notin c.domain

Problem(c, q, R) ==
  \/ Contradictory(q, R)
  \/ OutOfBounds(q, R)
  \/ c # None /\ (Misjoined(c, q, R) \/ RootProblem(c, q, R))

\* The artifact that the attempt was to load, if it is known: a set of one or none, unless there
\* is a problem.  A root that was not selected as the policy says binds nobody.
Expected(c, q, R) ==
  IF Inherits(c, q) THEN {r.digest : r \in {p \in Roots(q, R) : p.phase = c.policy}}
  ELSE {r.digest : r \in Selections(q, R)}

\* The selection was not made when, or not as, the contract says.
RuleViolation(c, q, R) ==
  \E s \in Selections(q, R) :
    \/ s.phase # IF q[2] # 0 THEN c.retry ELSE c.policy
    \/ /\ Inherits(c, q)
       /\ \E r \in RootsOf(s, q, R) : r.phase = c.policy /\ s.digest # r.digest

----------------------------------------------------------------------------
\* S: receipt_checker

Closed(q, R) == Counts(q, R) # {}
Witnessed(q, R) == Loads(q, R) # {} \/ Closed(q, R)

\* Mutant: an attempt that closed without a load can break the selection rule as well.
ViolatesAtOnce(c, q, R) ==
  \/ RuleViolation(c, q, R)
  \/ Cardinality(Loads(q, R)) > 1
  \/ 2 \in Counts(q, R)
  \/ \E e \in Expected(c, q, R), r \in Loads(q, R) : r.digest # e

Violates(c, q, R) ==
  \/ RuleViolation(c, q, R) /\ Witnessed(q, R)
  \/ Cardinality(Loads(q, R)) > 1
  \/ 2 \in Counts(q, R)
  \/ \E e \in Expected(c, q, R), r \in Loads(q, R) : r.digest # e

\* Mutant: a load of the right artifact complies before the attempt is closed.
CompliesUnclosed(c, q, R) == Expected(c, q, R) # {} /\ Loads(q, R) # {}

Complies(c, q, R) == Expected(c, q, R) # {} /\ Loads(q, R) # {} /\ Closed(q, R)

Unassessed == [verdict |-> "unknown", eligibility |-> "undetermined"]
Decided(verdict) == [verdict |-> verdict, eligibility |-> "load"]
NoNewLoad == [verdict |-> None, eligibility |-> "no_new_load"]

ReceiptChecker(c, q, R) ==
  IF Problem(c, q, R) THEN Decided("conflict")
  ELSE IF c = None THEN Unassessed
  ELSE IF 0 \in Counts(q, R) THEN NoNewLoad
  ELSE IF Violates(c, q, R) THEN Decided("violation")
  ELSE IF Complies(c, q, R) THEN Decided("compliant")
  ELSE IF Witnessed(q, R) THEN Decided("unknown")
  ELSE Unassessed

----------------------------------------------------------------------------
\* T: completion_monitor

\* Each load that was seen is one of those of the history.
Covers(loads, L) ==
  \E f \in [L -> DOMAIN loads] :
    /\ \A r, s \in L : f[r] = f[s] => r = s
    /\ \A r \in L : loads[f[r]] = r.digest

\* Histories of at most two loads that have everything the receipts say.
Completions(c, q, R) ==
  LET selected == IF Expected(c, q, R) # {} THEN Expected(c, q, R) ELSE c.domain
      counts == IF Closed(q, R) THEN Counts(q, R) ELSE 0..2
      histories == UNION {[1..n -> c.domain] : n \in counts}
  IN [selected : selected, loads : {h \in histories : Covers(h, Loads(q, R))}]

\* Which of them break the contract.
Breaks(c, q, R, w) ==
  \/ RuleViolation(c, q, R) /\ DOMAIN w.loads # {}
  \/ 2 \in DOMAIN w.loads
  \/ \E k \in DOMAIN w.loads : w.loads[k] # w.selected

CompletionMonitor(c, q, R) ==
  LET worlds == Completions(c, q, R)
      eligibility == IF \A w \in worlds : DOMAIN w.loads # {} THEN "load" ELSE "undetermined"
  IN IF Problem(c, q, R) THEN Decided("conflict")
     ELSE IF c = None THEN Unassessed
     ELSE IF worlds = {} THEN Decided("conflict")
     ELSE IF \A w \in worlds : DOMAIN w.loads = {} THEN NoNewLoad
     ELSE IF \A w \in worlds : Breaks(c, q, R, w)
       THEN [verdict |-> "violation", eligibility |-> eligibility]
     ELSE IF \A w \in worlds : ~Breaks(c, q, R, w)
       THEN [verdict |-> "compliant", eligibility |-> eligibility]
     ELSE [verdict |-> "unknown", eligibility |-> eligibility]

----------------------------------------------------------------------------
\* sufficient_records: the receipts of the attempt, and the selections that its own one names
Sufficient(q, R) ==
  LET parents == {<<s.parent, s.parentToken>> : s \in Selections(q, R)} IN
  {r \in R : r.scope = q \/ (r.kind = "selection" /\ <<r.scope, r.token>> \in parents)}
=============================================================================
