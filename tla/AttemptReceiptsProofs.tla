------------------------ MODULE AttemptReceiptsProofs ------------------------
(***************************************************************************)
(* The store of load receipts, for any requests, services, contracts,      *)
(* deliveries and budgets.                                                 *)
(***************************************************************************)
EXTENDS AttemptReceipts, LoadEvidenceProofs

----------------------------------------------------------------------------
\* Types

LEMMA TypeStep ==
  ASSUME TypeOK, [Next]_vars
  PROVE  TypeOK'
<1>1. ASSUME NEW r \in Requests, Register(r)
      PROVE  TypeOK'
  BY <1>1 DEF Register, TypeOK, table
<1>2. ASSUME NEW r \in Requests, Release(r) \/ ReleaseFails(r)
      PROVE  TypeOK'
  BY <1>2, StoreAssumption DEF Release, ReleaseFails, TypeOK, table, Of, Fail
<1>3. ASSUME NEW r \in Requests, Drain(r) \/ DrainFails(r)
      PROVE  TypeOK'
  <2>1. completions' = completions + 1 /\ drained' \in [Requests -> 0..completions']
    BY <1>3 DEF Drain, DrainFails, Count, TypeOK
  <2>2. retired' \subseteq Requests
    BY <1>3 DEF Drain, DrainFails, Expires, Drained, TypeOK
  <2>3. QED
    BY <1>3, <2>1, <2>2, StoreAssumption DEF Drain, DrainFails, TypeOK, table, Delete, Fail, Count
<1>4. ASSUME NEW d \in Deliveries, NEW late \in BOOLEAN, Submit(d, late) \/ SubmitFails(d, late)
      PROVE  TypeOK'
  BY <1>4, StoreAssumption DEF Submit, SubmitFails, Capture, TypeOK, table, Insert, Fail
<1>5. ASSUME NEW r \in Registered, NEW q \in AttemptsOf(r), Settle(q)
      PROVE  TypeOK'
  <2>1. q \in Scopes
    BY <1>5, StoreAssumption DEF AttemptsOf, Registered, TypeOK, Scopes
  <2>2. QED
    BY <1>5, <2>1 DEF Settle, TypeOK, table
<1>6. CASE UNCHANGED vars
  BY <1>6 DEF vars, memory, table, TypeOK
<1>7. QED
  BY <1>1, <1>2, <1>3, <1>4, <1>5, <1>6 DEF Next

LEMMA TypeInit == Init => TypeOK
BY StoreAssumption DEF Init, TypeOK, Selectors

----------------------------------------------------------------------------
\* The inductive invariant

\* Deliveries and drains are of registered requests.
Known ==
  /\ \A d \in pending \cup delivered \cup rows : d[1] \in Registered
  /\ Drained \subseteq Registered
  /\ retired \subseteq Drained
  /\ IsFiniteSet(rows)

\* As long as every transaction has been committed, what is visible of a request is what was
\* delivered for it and is kept, and a row is delayed only while its delivery is pending.
Faithful ==
  failures = 0 =>
    /\ \A d \in Deliveries : d[1] \notin retired =>
         (d \in rows \ delayed <=> d \in delivered /\ Keeps(d))
    /\ delayed \subseteq pending
    /\ \A d \in pending : Keeps(d) => d \in rows
    /\ \A d \in rows : Keeps(d)

Completed == \A r \in Drained : AttemptsOf(r) \subseteq closed /\ Of(r, pending) = {}

Later(r) == {x \in Requests : drained[x] > drained[r]}

\* Every drain after that of r has a request of its own.
Ranked ==
  \A r \in Drained : Cardinality(Later(r)) = completions - drained[r]

Retirement ==
  \A r \in Drained :
    /\ r \in retired => completions - drained[r] >= Horizon
    /\ failures = 0 => /\ (completions - drained[r] >= Horizon) => r \in retired
                       /\ r \in retired => Of(r, rows) = {}

IInv == TypeOK /\ Known /\ Faithful /\ Completed /\ Ranked /\ Retirement

LEMMA IInvInit == Init => IInv
<1>1. SUFFICES ASSUME Init PROVE IInv
  OBVIOUS
<1>2. Registered = {} /\ Drained = {}
  BY <1>1 DEF Init, Registered, Drained
<1>3. IsFiniteSet(rows)
  BY <1>1, FS_EmptySet DEF Init
<1>4. QED
  BY <1>1, <1>2, <1>3, TypeInit
     DEF Init, IInv, Known, Faithful, Completed, Ranked, Retirement

\* What a step does to registrations and drains.
LEMMA LifeStep ==
  ASSUME TypeOK, Known, [Next]_vars
  PROVE  /\ Registered \subseteq Registered'
         /\ \A r \in Registered : service'[r] = service[r]
         /\ selection' = selection
         /\ failures' = 0 => failures = 0
         /\ retired \subseteq retired'
         /\ \A r \in Drained : r \in Drained' /\ drained'[r] = drained[r]
<1>1. ASSUME NEW r \in Requests, Register(r)
      PROVE  /\ Registered \subseteq Registered'
             /\ \A x \in Registered : service'[x] = service[x]
  BY <1>1, StoreAssumption DEF Register, TypeOK, Registered
<1>2. ASSUME NEW r \in Requests, Drain(r) \/ DrainFails(r)
      PROVE  /\ \A x \in Drained : x \in Drained' /\ drained'[x] = drained[x]
             /\ retired \subseteq retired'
             /\ failures' = 0 => failures = 0
  <2>1. drained' = [drained EXCEPT ![r] = completions + 1] /\ r \notin Drained
    BY <1>2 DEF Drain, DrainFails, Count, MayDrain, Live
  <2>2. \A x \in Drained : x \in Drained' /\ drained'[x] = drained[x]
    BY <2>1 DEF TypeOK, Drained
  <2>3. QED
    BY <1>2, <2>2 DEF Drain, DrainFails, Fail, TypeOK
<1>3. ASSUME NEW r \in Requests, Register(r)
      PROVE  UNCHANGED <<selection, failures, retired, drained>>
  BY <1>3 DEF Register
<1>4. ASSUME NEW r \in Requests, Drain(r) \/ DrainFails(r)
      PROVE  UNCHANGED <<selection, service>>
  BY <1>4 DEF Drain, DrainFails
<1>5. ASSUME NEW r \in Requests, Release(r) \/ ReleaseFails(r)
      PROVE  /\ UNCHANGED <<selection, service, retired, drained>>
             /\ failures' = 0 => failures = 0
  BY <1>5 DEF Release, ReleaseFails, Fail, TypeOK
<1>6. ASSUME NEW d \in Deliveries, NEW late \in BOOLEAN, Submit(d, late) \/ SubmitFails(d, late)
      PROVE  /\ UNCHANGED <<selection, service, retired, drained>>
             /\ failures' = 0 => failures = 0
  BY <1>6 DEF Submit, SubmitFails, Capture, Fail, TypeOK
<1>7. ASSUME NEW r \in Registered, NEW q \in AttemptsOf(r), Settle(q)
      PROVE  UNCHANGED <<selection, service, retired, drained, failures>>
  BY <1>7 DEF Settle
<1>8. CASE UNCHANGED vars
  BY <1>8 DEF vars, memory, Registered, Drained
<1>9. QED
  BY <1>1, <1>2, <1>3, <1>4, <1>5, <1>6, <1>7, <1>8 DEF Next, Registered, Drained

LEMMA KnownStep ==
  ASSUME TypeOK, Known, [Next]_vars
  PROVE  Known'
<1>1. /\ Registered \subseteq Registered'
      /\ \A r \in Drained : r \in Drained' /\ drained'[r] = drained[r]
  BY LifeStep
<1>2. ASSUME NEW r \in Requests, Register(r)
      PROVE  Known'
  BY <1>1, <1>2 DEF Register, Known, table, Drained
<1>3. ASSUME NEW r \in Requests, Release(r) \/ ReleaseFails(r)
      PROVE  Known'
  BY <1>1, <1>3 DEF Release, ReleaseFails, Known, table, Drained, Of
<1>4. ASSUME NEW r \in Requests, Drain(r) \/ DrainFails(r)
      PROVE  Known'
  <2>1. r \in Registered /\ UNCHANGED <<service, pending, delivered>>
    BY <1>4 DEF Drain, DrainFails, MayDrain, Live
  <2>2. drained' = [drained EXCEPT ![r] = completions + 1]
    BY <1>4 DEF Drain, DrainFails, Count
  <2>3. Drained' = Drained \cup {r}
    BY <2>2 DEF Drained, TypeOK
  <2>4. retired' \subseteq retired \cup Drained \cup {r}
    BY <1>4 DEF Drain, DrainFails, Expires
  <2>5. rows' \subseteq rows
    BY <1>4 DEF Drain, DrainFails, Delete, table
  <2>6. IsFiniteSet(rows')
    BY <2>5, FS_Subset DEF Known
  <2>7. Registered' = Registered
    BY <2>1 DEF Registered
  <2>8. QED
    BY <2>1, <2>3, <2>4, <2>5, <2>6, <2>7 DEF Known
<1>5. ASSUME NEW d \in Deliveries, NEW late \in BOOLEAN, Submit(d, late) \/ SubmitFails(d, late)
      PROVE  Known'
  <2>1. d[1] \in Registered /\ UNCHANGED <<service, drained, retired>>
    BY <1>5 DEF Submit, SubmitFails, Capture, Live
  <2>2. /\ pending' \subseteq pending \cup {d}
        /\ delivered' \subseteq delivered \cup {d}
        /\ rows' = rows \/ rows' = rows \cup {d}
    BY <1>5 DEF Submit, SubmitFails, Capture, Insert, table
  <2>3. IsFiniteSet(rows')
    BY <2>2, FS_AddElement DEF Known
  <2>4. Registered' = Registered /\ Drained' = Drained
    BY <2>1 DEF Registered, Drained
  <2>5. QED
    BY <2>1, <2>2, <2>3, <2>4 DEF Known
<1>6. ASSUME NEW r \in Registered, NEW q \in AttemptsOf(r), Settle(q)
      PROVE  Known'
  BY <1>6 DEF Settle, Known, table, Registered, Drained
<1>7. CASE UNCHANGED vars
  BY <1>7 DEF vars, memory, table, Known, Registered, Drained
<1>8. QED
  BY <1>2, <1>3, <1>4, <1>5, <1>6, <1>7 DEF Next

LEMMA CompletedStep ==
  ASSUME TypeOK, Known, Completed, [Next]_vars
  PROVE  Completed'
<1>1. \A r \in Registered : service'[r] = service[r]
  BY LifeStep
<1>2. \A r \in Drained : AttemptsOf(r)' = AttemptsOf(r)
  BY <1>1 DEF AttemptsOf, Known
<1>3. ASSUME Drained' = Drained, closed \subseteq closed',
             \A r \in Drained : Of(r, pending)' \subseteq Of(r, pending)
      PROVE  Completed'
  BY <1>2, <1>3 DEF Completed
<1>4. ASSUME NEW r \in Requests, Register(r)
      PROVE  Completed'
  BY <1>3, <1>4 DEF Register, Drained, Of
<1>5. ASSUME NEW r \in Requests, Release(r) \/ ReleaseFails(r)
      PROVE  Completed'
  BY <1>3, <1>5 DEF Release, ReleaseFails, Drained, Of
<1>6. ASSUME NEW r \in Requests, Drain(r) \/ DrainFails(r)
      PROVE  Completed'
  <2>1. /\ AttemptsOf(r) \subseteq closed
        /\ Of(r, pending) = {}
        /\ UNCHANGED <<service, closed, pending>>
    BY <1>6 DEF Drain, DrainFails, MayDrain
  <2>2. drained' = [drained EXCEPT ![r] = completions + 1]
    BY <1>6 DEF Drain, DrainFails, Count
  <2>3. Drained' \subseteq Drained \cup {r}
    BY <2>2 DEF Drained, TypeOK
  <2>4. \A x \in Requests : AttemptsOf(x)' = AttemptsOf(x) /\ Of(x, pending)' = Of(x, pending)
    BY <2>1 DEF AttemptsOf, Of
  <2>5. Drained' \subseteq Requests
    BY DEF Drained
  <2>6. QED
    BY <2>1, <2>3, <2>4, <2>5 DEF Completed
<1>7. ASSUME NEW d \in Deliveries, NEW late \in BOOLEAN, Submit(d, late) \/ SubmitFails(d, late)
      PROVE  Completed'
  <2>1. /\ d[1] \notin Drained
        /\ UNCHANGED <<drained, closed>>
        /\ pending' \subseteq pending \cup {d}
    BY <1>7 DEF Submit, SubmitFails, Capture, Live
  <2>2. QED
    BY <1>3, <2>1 DEF Drained, Of
<1>8. ASSUME NEW r \in Registered, NEW q \in AttemptsOf(r), Settle(q)
      PROVE  Completed'
  BY <1>3, <1>8 DEF Settle, Drained, Of
<1>9. CASE UNCHANGED vars
  BY <1>3, <1>9 DEF vars, memory, Drained, Of
<1>10. QED
  BY <1>4, <1>5, <1>6, <1>7, <1>8, <1>9 DEF Next

LEMMA RankedStep ==
  ASSUME TypeOK, Ranked, [Next]_vars
  PROVE  Ranked'
<1>1. CASE UNCHANGED <<drained, completions>>
  BY <1>1 DEF Ranked, Later, Drained
<1>2. ASSUME NEW r \in Requests, Drain(r) \/ DrainFails(r)
      PROVE  Ranked'
  <2>1. /\ drained' = [drained EXCEPT ![r] = completions + 1]
        /\ completions' = completions + 1
        /\ r \notin Drained
    BY <1>2 DEF Drain, DrainFails, Count, MayDrain, Live
  <2>2. /\ \A x \in Requests : drained[x] \in 0..completions
        /\ completions \in Nat
        /\ drained[r] = 0
        /\ drained'[r] = completions + 1
        /\ \A x \in Requests \ {r} : drained'[x] = drained[x]
    BY <2>1 DEF TypeOK, Drained
  <2>3. Drained' = Drained \cup {r}
    BY <2>1, <2>2 DEF Drained
  <2>4. ASSUME NEW x \in Drained
        PROVE  Cardinality(Later(x)') = completions' - drained'[x]
    <3>1. Later(x)' = Later(x) \cup {r} /\ r \notin Later(x)
      BY <2>1, <2>2 DEF Later, Drained
    <3>2. IsFiniteSet(Later(x))
      BY StoreAssumption, FS_Subset DEF Later
    <3>3. Cardinality(Later(x)') = Cardinality(Later(x)) + 1
      BY <3>1, <3>2, FS_AddElement
    <3>4. drained'[x] = drained[x] /\ drained[x] \in Nat
      BY <2>1, <2>2 DEF Drained
    <3>5. QED
      BY <2>1, <2>2, <3>3, <3>4 DEF Ranked
  <2>5. Cardinality(Later(r)') = completions' - drained'[r]
    <3>1. Later(r)' = {}
      BY <2>2 DEF Later
    <3>2. QED
      BY <2>1, <2>2, <3>1, FS_EmptySet
  <2>6. QED
    BY <2>3, <2>4, <2>5 DEF Ranked
<1>3. QED
  BY <1>1, <1>2
     DEF Next, Register, Release, ReleaseFails, Submit, SubmitFails, Capture, Settle, vars, memory

LEMMA RetirementStep ==
  ASSUME TypeOK, Known, Retirement, [Next]_vars
  PROVE  Retirement'
<1>1. failures' = 0 => failures = 0
  BY LifeStep
<1>2. ASSUME UNCHANGED <<drained, retired, completions>>,
             \A r \in Drained : Of(r, rows)' \subseteq Of(r, rows)
      PROVE  Retirement'
  BY <1>1, <1>2 DEF Retirement, Drained
<1>3. ASSUME NEW r \in Requests, Register(r) \/ Release(r) \/ ReleaseFails(r)
      PROVE  Retirement'
  BY <1>2, <1>3 DEF Register, Release, ReleaseFails, table, Of
<1>4. ASSUME NEW d \in Deliveries, NEW late \in BOOLEAN, Submit(d, late) \/ SubmitFails(d, late)
      PROVE  Retirement'
  <2>1. /\ d[1] \notin Drained
        /\ UNCHANGED <<drained, retired, completions>>
        /\ rows' \subseteq rows \cup {d}
    BY <1>4 DEF Submit, SubmitFails, Capture, Live, Insert, table
  <2>2. QED
    BY <1>2, <2>1 DEF Of
<1>5. ASSUME NEW r \in Registered, NEW q \in AttemptsOf(r), Settle(q)
      PROVE  Retirement'
  BY <1>2, <1>5 DEF Settle, table, Of
<1>6. CASE UNCHANGED vars
  BY <1>2, <1>6 DEF vars, memory, table, Of
<1>7. ASSUME NEW r \in Requests, Drain(r) \/ DrainFails(r)
      PROVE  Retirement'
  <2>1. /\ drained' = [drained EXCEPT ![r] = completions + 1]
        /\ completions' = completions + 1
        /\ r \notin Drained
    BY <1>7 DEF Drain, DrainFails, Count, MayDrain, Live
  <2>2. /\ \A x \in Requests : drained[x] \in 0..completions
        /\ completions \in Nat
        /\ drained'[r] = completions + 1
        /\ \A x \in Requests \ {r} : drained'[x] = drained[x]
    BY <2>1 DEF TypeOK
  <2>3. Drained' = Drained \cup {r}
    BY <2>1, <2>2 DEF Drained
  <2>4. Expires(r) = {x \in Drained' : x \notin retired /\ completions' - drained'[x] >= Horizon}
    BY <2>1, <2>2, <2>3 DEF Expires, Drained
  <2>5. \A x \in Drained : drained'[x] = drained[x] /\ drained[x] \in Nat
    BY <2>1, <2>2 DEF Drained
  <2>6. retired' \subseteq retired \cup Expires(r)
    BY <1>7 DEF Drain, DrainFails
  <2>7. \A x \in Drained' : x \in retired' => completions' - drained'[x] >= Horizon
    <3>1. \A x \in retired : completions - drained[x] >= Horizon
      BY DEF Retirement, Known
    <3>2. \A x \in retired : completions' - drained'[x] >= Horizon
      BY <2>1, <2>2, <2>5, <3>1, StoreAssumption DEF Known
    <3>3. QED
      BY <2>4, <2>6, <3>2
  <2>8. ASSUME failures' = 0, NEW x \in Drained'
        PROVE  /\ (completions' - drained'[x] >= Horizon) => x \in retired'
               /\ x \in retired' => Of(x, rows)' = {}
    <3>1. Drain(r)
      BY <1>7, <2>8 DEF DrainFails, Fail, TypeOK
    <3>2. /\ retired' = retired \cup Expires(r)
          /\ rows' = {d \in rows : d[1] \notin Expires(r)}
      BY <3>1 DEF Drain, Delete
    <3>3. (completions' - drained'[x] >= Horizon) => x \in retired'
      BY <2>4, <2>8, <3>2
    <3>4. ASSUME x \in retired'
          PROVE  Of(x, rows)' = {}
      <4>1. CASE x \in Expires(r)
        BY <3>2, <4>1 DEF Of
      <4>2. CASE x \in retired
        BY <1>1, <2>8, <3>2, <4>2 DEF Of, Retirement, Known
      <4>3. QED
        BY <3>2, <3>4, <4>1, <4>2
    <3>5. QED
      BY <3>3, <3>4
  <2>9. QED
    BY <2>7, <2>8 DEF Retirement
<1>8. QED
  BY <1>3, <1>4, <1>5, <1>6, <1>7 DEF Next

LEMMA FaithfulStep ==
  ASSUME TypeOK, Known, Completed, Faithful, [Next]_vars
  PROVE  Faithful'
<1>1. /\ failures' = 0 => failures = 0
      /\ selection' = selection
      /\ retired \subseteq retired'
      /\ \A r \in Registered : service'[r] = service[r]
  BY LifeStep
<1>2. \A d \in Deliveries : d[1] \in Registered => (Keeps(d)' <=> Keeps(d))
  BY <1>1 DEF Keeps
<1>3. \A d \in pending \cup delivered \cup rows : d \in Deliveries /\ d[1] \in Registered
  BY DEF Known, TypeOK
<1>4. SUFFICES ASSUME failures' = 0 PROVE Faithful'
  BY DEF Faithful
<1>5. /\ \A d \in Deliveries : d[1] \notin retired =>
           (d \in rows \ delayed <=> d \in delivered /\ Keeps(d))
      /\ delayed \subseteq pending
      /\ \A d \in pending : Keeps(d) => d \in rows
      /\ \A d \in rows : Keeps(d)
  BY <1>1, <1>4 DEF Faithful
<1>6. CASE UNCHANGED <<pending, delivered, rows, delayed>>
  BY <1>1, <1>2, <1>3, <1>5, <1>6 DEF Faithful
<1>7. ASSUME NEW r \in Requests, Release(r)
      PROVE  Faithful'
  <2>1. /\ delayed' = delayed \ Of(r, delayed)
        /\ pending' = pending \ Of(r, pending)
        /\ delivered' = delivered \cup Of(r, pending)
        /\ UNCHANGED <<retired, rows>>
        /\ r \notin Drained
    BY <1>7 DEF Release, Live
  <2>2. \A d \in pending' \cup delivered' \cup rows' : d[1] \in Registered
    BY <1>3, <2>1 DEF Of
  <2>3. QED
    <3>1. delayed' \subseteq pending'
      BY <1>5, <2>1 DEF Of
    <3>2. \A d \in pending' : Keeps(d)' => d \in rows'
      BY <1>2, <1>3, <1>5, <2>1 DEF Of
    <3>3. ASSUME NEW d \in Deliveries, d[1] \notin retired'
          PROVE  d \in rows' \ delayed' <=> d \in delivered' /\ Keeps(d)'
      <4>1. CASE d[1] = r
        <5>1. d \in rows' \ delayed' <=> d \in rows
          BY <2>1, <4>1 DEF Of
        <5>2. d \in delivered' <=> d \in delivered \/ d \in pending
          BY <2>1, <4>1 DEF Of
        <5>3. d \in rows <=> d \in rows \ delayed \/ d \in delayed
          BY DEF TypeOK
        <5>4. QED
          BY <1>2, <1>3, <1>5, <2>1, <3>3, <5>1, <5>2, <5>3
      <4>2. CASE d[1] # r
        <5>1. /\ d \in rows' \ delayed' <=> d \in rows \ delayed
              /\ d \in delivered' <=> d \in delivered
          BY <2>1, <4>2 DEF Of
        <5>2. QED
          BY <1>2, <1>3, <1>5, <2>1, <3>3, <5>1
      <4>3. QED
        BY <4>1, <4>2
    <3>4. \A d \in rows' : Keeps(d)'
      BY <1>2, <1>3, <1>5, <2>1
    <3>5. QED
      BY <3>1, <3>2, <3>3, <3>4 DEF Faithful
<1>8. ASSUME NEW d \in Deliveries, NEW late \in BOOLEAN, Submit(d, late)
      PROVE  Faithful'
  <2>1. /\ d[1] \in Registered
        /\ pending' = IF late THEN pending \cup {d} ELSE pending \ {d}
        /\ delivered' = IF late THEN delivered ELSE delivered \cup {d}
        /\ retired' = retired
    BY <1>8 DEF Submit, Capture, Live
  <2>2. \A x \in pending' \cup delivered' : x[1] \in Registered
    BY <1>3, <2>1
  <2>3. CASE Keeps(d)
    <3>1. /\ rows' = rows \cup {d}
          /\ delayed' = IF late THEN delayed \cup ({d} \ rows) ELSE delayed \ {d}
      BY <1>8, <2>3 DEF Submit, Insert
    <3>2. delayed' \subseteq pending'
      BY <1>5, <2>1, <3>1
    <3>3. \A x \in pending' : Keeps(x)' => x \in rows'
      BY <1>2, <1>3, <1>5, <2>1, <3>1
    <3>4. ASSUME NEW x \in Deliveries, x[1] \notin retired'
          PROVE  x \in rows' \ delayed' <=> x \in delivered' /\ Keeps(x)'
      <4>1. CASE x = d
        BY <1>2, <1>5, <2>1, <2>3, <3>1, <3>4, <4>1
      <4>2. CASE x # d
        <5>1. /\ x \in rows' \ delayed' <=> x \in rows \ delayed
              /\ x \in delivered' <=> x \in delivered
          BY <2>1, <3>1, <4>2
        <5>2. QED
          BY <1>2, <1>3, <1>5, <2>1, <3>4, <5>1
      <4>3. QED
        BY <4>1, <4>2
    <3>5. \A x \in rows' : Keeps(x)'
      BY <1>2, <1>3, <1>5, <2>1, <2>3, <3>1
    <3>6. QED
      BY <3>2, <3>3, <3>4, <3>5 DEF Faithful
  <2>4. CASE ~Keeps(d)
    <3>1. UNCHANGED <<rows, delayed>>
      BY <1>8, <2>4 DEF Submit, table
    <3>2. QED
      BY <1>2, <1>3, <1>5, <2>1, <2>2, <2>4, <3>1 DEF Faithful, TypeOK
  <2>5. QED
    BY <2>3, <2>4
<1>9. ASSUME NEW r \in Requests, Drain(r)
      PROVE  Faithful'
  <2>1. /\ rows' = {d \in rows : d[1] \notin Expires(r)}
        /\ delayed' = {d \in delayed : d[1] \notin Expires(r)}
        /\ retired' = retired \cup Expires(r)
        /\ UNCHANGED <<pending, delivered, service>>
        /\ Of(r, pending) = {}
    BY <1>9 DEF Drain, Delete, MayDrain
  <2>2. \A d \in pending : d[1] \notin Expires(r)
    BY <2>1 DEF Expires, Completed, Of
  <2>3. QED
    BY <1>1, <1>2, <1>3, <1>5, <2>1, <2>2 DEF Faithful
<1>10. QED
  BY <1>4, <1>6, <1>7, <1>8, <1>9
     DEF Next, Register, ReleaseFails, SubmitFails, DrainFails, Fail, Settle, TypeOK, vars, memory,
         table

LEMMA IInvStep == IInv /\ [Next]_vars => IInv'
BY TypeStep, KnownStep, FaithfulStep, CompletedStep, RankedStep, RetirementStep DEF IInv

LEMMA IInvHolds == Spec => []IInv
BY IInvInit, IInvStep, PTL DEF Spec

----------------------------------------------------------------------------
\* Invariants

\* The variables of the store keep their types (AttemptReceiptStore).
THEOREM TypesHold == Spec => []TypeOK
<1>1. IInv => TypeOK
  BY DEF IInv
<1>2. QED
  BY <1>1, IInvHolds, PTL

\* A request is drained only when all its attempts are settled and no delivery waits (drain).
THEOREM DrainsAreComplete == Spec => []DrainedIsComplete
<1>1. IInv => DrainedIsComplete
  BY DEF IInv, DrainedIsComplete, Completed, Faithful, Of
<1>2. QED
  BY <1>1, IInvHolds, PTL

\* Receipts expire exactly when Horizon more requests have been drained (drain).
THEOREM RetirementHolds == Spec => []RetirementIsExact
<1>1. IInv => RetirementIsExact
  BY DEF IInv, RetirementIsExact, Ranked, Retirement, Later
<1>2. QED
  BY <1>1, IInvHolds, PTL

LEMMA QueryFacts ==
  ASSUME TypeOK, NEW q \in Queries
  PROVE  /\ q[1] \in Requests /\ q[1] \in Registered /\ q[1] \notin retired
         /\ q = <<q[1], q[2]>>
         /\ q[2] \in service[q[1]].queries
BY DEF Queries, Queryable, Registrations, AttemptsOf, Registered

\* What the static selector leaves out of D is not needed for q.
LEMMA SelectorIsSufficient ==
  ASSUME NEW c, NEW q, NEW D, NEW V, V \subseteq D,
         \A r \in D : r.scope = q => r \in V,
         \A r \in D : r.scope = <<q[1], 0>> /\ r.kind = "selection" => r \in V
  PROVE  ReceiptChecker(c, q, Sufficient(q, V)) = ReceiptChecker(c, q, D)
<1>1. Own(q, V) = Own(q, D)
  BY DEF Own
<1>2. Own(q, Sufficient(q, V)) = Own(q, V)
  BY DEF Own, Sufficient
<1>3. Selections(q, Sufficient(q, V)) = Selections(q, V)
  BY <1>2 DEF Selections
<1>4. ASSUME NEW s \in Selections(q, V)
      PROVE  RootsOf(s, q, Sufficient(q, V)) = RootsOf(s, q, D)
  <2>1. RootsOf(s, q, Sufficient(q, V)) \subseteq RootsOf(s, q, D)
    BY DEF RootsOf, Sufficient
  <2>2. ASSUME NEW r \in RootsOf(s, q, D)
        PROVE  r \in RootsOf(s, q, Sufficient(q, V))
    <3>1. /\ r \in D /\ r.kind = "selection"
          /\ r.scope = s.parent /\ r.token = s.parentToken /\ s.parent = <<q[1], 0>>
      BY DEF RootsOf
    <3>2. r \in V
      BY <3>1
    <3>3. <<r.scope, r.token>> \in {<<t.parent, t.parentToken>> : t \in Selections(q, V)}
      BY <3>1
    <3>4. r \in Sufficient(q, V)
      BY <3>1, <3>2, <3>3 DEF Sufficient
    <3>5. QED
      BY <3>1, <3>4 DEF RootsOf
  <2>3. QED
    BY <2>1, <2>2
<1>5. QED
  BY <1>1, <1>2, <1>3, <1>4, FrameDecides

LEMMA DecisionsAreKept == IInv => SelectionKeepsDecisions
<1>1. SUFFICES ASSUME IInv, failures = 0, NEW q \in Queries, NEW c \in Contracts
               PROVE  Decision(c, q) = ReceiptChecker(c, q, {d[2] : d \in Of(q[1], delivered)})
  BY DEF SelectionKeepsDecisions
<1> DEFINE D == {d[2] : d \in Of(q[1], delivered)}
           V == Visible(q[1])
<1>2. /\ q[1] \in Registered /\ q[1] \notin retired
      /\ q = <<q[1], q[2]>>
      /\ q[2] \in service[q[1]].queries
  BY <1>1, QueryFacts DEF IInv
<1>3. \A d \in Deliveries : d[1] = q[1] =>
        (d \in rows \ delayed <=> d \in delivered /\ Keeps(d))
  BY <1>1, <1>2 DEF IInv, Faithful
<1>4. /\ Of(q[1], rows \ delayed) \subseteq Of(q[1], delivered)
      /\ \A d \in Of(q[1], delivered) : Keeps(d) => d \in Of(q[1], rows \ delayed)
  BY <1>1, <1>3 DEF Of, IInv, TypeOK
<1>5. V \subseteq D /\ \A d \in Of(q[1], delivered) : Keeps(d) => d[2] \in V
  BY <1>4 DEF Visible
<1>6. \A d \in Of(q[1], delivered) : d[1] = q[1]
  BY DEF Of
<1>7. CASE selection = "full"
  <2>1. \A d \in Of(q[1], delivered) : Keeps(d)
    BY <1>7 DEF Keeps
  <2>2. V = D
    BY <1>5, <2>1
  <2>3. QED
    BY <1>7, <2>2 DEF Decision, Snapshot
<1>8. CASE selection # "full"
  <2>1. ASSUME NEW r \in D, r.scope = q
        PROVE  r \in V
    <3>1. PICK d \in Of(q[1], delivered) : r = d[2]
      BY DEF D
    <3>2. Keeps(d)
      BY <1>2, <1>6, <2>1, <3>1 DEF Keeps
    <3>3. QED
      BY <1>5, <3>1, <3>2
  <2>2. ASSUME NEW r \in D, r.scope = <<q[1], 0>>, r.kind = "selection"
        PROVE  r \in V
    <3>1. PICK d \in Of(q[1], delivered) : r = d[2]
      BY DEF D
    <3>2. Keeps(d)
      BY <1>6, <2>2, <3>1 DEF Keeps
    <3>3. QED
      BY <1>5, <3>1, <3>2
  <2> HIDE DEF D
  <2>3. ReceiptChecker(c, q, Sufficient(q, V)) = ReceiptChecker(c, q, D)
    BY <1>5, <2>1, <2>2, SelectorIsSufficient
  <2>4. QED
    BY <1>8, <2>3 DEF Decision, Snapshot, D
<1>9. QED
  BY <1>7, <1>8

\* Every question that may be asked has the answer that all delivered receipts give, whichever of
\* them were kept (submit, snapshot, sufficient_records).
THEOREM DecisionsSurviveSelection == Spec => []SelectionKeepsDecisions
BY DecisionsAreKept, IInvHolds, PTL

LEMMA ReceiptsAreFinite ==
  ASSUME NEW r, NEW T, IsFiniteSet(T), T \subseteq Deliveries, NEW D
  PROVE  LET R == {d[2] : d \in Of(r, T \ D)} IN R \subseteq Records /\ IsFiniteSet(R)
<1> DEFINE S == Of(r, T \ D)
           R == {d[2] : d \in S}
           f == [d \in S |-> d[2]]
<1>1. S \subseteq T
  BY DEF Of
<1>2. IsFiniteSet(S)
  BY <1>1, FS_Subset
<1>3. f \in Surjection(S, R)
  BY DEF Surjection
<1>4. IsFiniteSet(R)
  BY <1>2, <1>3, FS_Surjection
<1>5. \A d \in Deliveries : d[2] \in Records
  BY StoreAssumption
<1>6. R \subseteq Records
  BY <1>1, <1>5
<1>7. QED
  BY <1>4, <1>6

\* The two deciders agree on whatever the store answers (receipt_checker, completion_monitor).
THEOREM SAgreesWithTAlways == Spec => []SAgreesWithT
<1>1. IInv => SAgreesWithT
  <2>1. SUFFICES ASSUME IInv, NEW q \in Queries, NEW c \in Contracts
                 PROVE  CompletionMonitor(c, q, Snapshot(q)) = Decision(c, q)
    BY DEF SAgreesWithT
  <2>2. Visible(q[1]) \subseteq Records /\ IsFiniteSet(Visible(q[1]))
    BY <2>1, ReceiptsAreFinite DEF IInv, TypeOK, Known, Visible
  <2>3. Snapshot(q) \in SUBSET Visible(q[1])
    BY DEF Snapshot, Sufficient
  <2>4. Snapshot(q) \in SUBSET Records /\ IsFiniteSet(Snapshot(q))
    BY <2>2, <2>3, FS_Subset
  <2>5. QED
    BY <2>4, DecidersAgree DEF Decision
<1>2. QED
  BY <1>1, IInvHolds, PTL

----------------------------------------------------------------------------
\* Action properties

\* As long as a question may be asked, no receipt that was visible is lost.
LEMMA VisibleGrows ==
  ASSUME IInv, [Next]_vars, NEW q \in Queries, q \in Queries'
  PROVE  Snapshot(q) \subseteq Snapshot(q)'
<1>1. q[1] \notin retired' /\ q[1] \notin retired /\ selection' = selection
  BY LifeStep DEF Queries, Queryable, IInv
<1>2. \A d \in rows \ delayed : d[1] = q[1] => d \in rows' \ delayed'
  <2>1. CASE rows \subseteq rows' /\ delayed' \subseteq delayed
    BY <2>1
  <2>2. ASSUME NEW d \in Deliveries, NEW late \in BOOLEAN, Insert(d, late)
        PROVE  \A x \in rows \ delayed : x \in rows' \ delayed'
    BY <2>2 DEF Insert
  <2>3. ASSUME NEW r \in Requests, Drain(r)
        PROVE  \A d \in rows \ delayed : d[1] = q[1] => d \in rows' \ delayed'
    <3>1. q[1] \notin Expires(r)
      BY <1>1, <2>3 DEF Drain
    <3>2. QED
      BY <2>3, <3>1 DEF Drain, Delete
  <2>4. QED
    BY <2>1, <2>2, <2>3
       DEF Next, Register, Release, ReleaseFails, Submit, SubmitFails, DrainFails, Settle, vars, table
<1>3. Visible(q[1]) \subseteq Visible(q[1])'
  BY <1>2 DEF Visible, Of
<1>4. Sufficient(q, Visible(q[1])) \subseteq Sufficient(q, Visible(q[1])')
  BY <1>3, MoreReceipts
<1>5. QED
  BY <1>1, <1>3, <1>4 DEF Snapshot

\* A verdict stands until receipts contradict each other (receipt_checker).
THEOREM VerdictsStand == Spec => DecisionsStand
<1>1. ASSUME IInv, [Next]_vars, NEW q \in Queries, q \in Queries', NEW c \in Contracts,
             Decision(c, q).verdict # "unknown"
      PROVE  Decision(c, q)' \in {Decision(c, q), Decided("conflict")}
  <2>1. Snapshot(q) \subseteq Snapshot(q)'
    BY <1>1, VisibleGrows
  <2>2. Snapshot(q)' \in SUBSET Records /\ IsFiniteSet(Snapshot(q)')
    <3>1. TypeOK' /\ Known'
      BY <1>1, TypeStep, KnownStep DEF IInv
    <3>2. Visible(q[1])' \subseteq Records /\ IsFiniteSet(Visible(q[1])')
      BY <3>1, ReceiptsAreFinite DEF TypeOK, Known, Visible
    <3>3. Snapshot(q)' \in SUBSET Visible(q[1])'
      BY DEF Snapshot, Sufficient
    <3>4. QED
      BY <3>2, <3>3, FS_Subset
  <2>3. QED
    BY <1>1, <2>1, <2>2, VerdictsStay DEF Decision
<1>2. IInv /\ [Next]_vars =>
        [\A q \in {p \in Queries : p \in Queries' /\ Snapshot(p)' # Snapshot(p)}, c \in Contracts :
           Decision(c, q).verdict # "unknown" =>
             Decision(c, q)' \in {Decision(c, q), Decided("conflict")}]_vars
  BY <1>1
<1>3. QED
  BY <1>2, IInvHolds, PTL DEF DecisionsStand, Spec

\* Audits of a drained request are repeatable until it expires (drain, snapshot).
THEOREM AuditsRepeatable == Spec => AuditsRepeat
<1>1. ASSUME IInv, [Next]_vars, NEW q \in Queries, q[1] \in Drained', q \in Queries'
      PROVE  Snapshot(q)' = Snapshot(q)
  <2>1. q[1] \notin retired' /\ selection' = selection
    BY <1>1, LifeStep DEF Queries, Queryable, IInv
  <2>2. Of(q[1], rows')  = Of(q[1], rows) /\ Of(q[1], delayed') = Of(q[1], delayed)
    <3>1. ASSUME NEW r \in Requests, Drain(r)
          PROVE  Of(q[1], rows')  = Of(q[1], rows) /\ Of(q[1], delayed') = Of(q[1], delayed)
      <4>1. q[1] \notin Expires(r)
        BY <2>1, <3>1 DEF Drain
      <4>2. QED
        BY <3>1, <4>1 DEF Drain, Delete, Of
    <3>2. ASSUME NEW r \in Requests, Release(r)
          PROVE  Of(q[1], rows')  = Of(q[1], rows) /\ Of(q[1], delayed') = Of(q[1], delayed)
      <4>1. q[1] # r
        BY <1>1, <3>2 DEF Release, Live, Drained
      <4>2. QED
        BY <3>2, <4>1 DEF Release, Of
    <3>3. ASSUME NEW d \in Deliveries, NEW late \in BOOLEAN, Submit(d, late)
          PROVE  Of(q[1], rows')  = Of(q[1], rows) /\ Of(q[1], delayed') = Of(q[1], delayed)
      <4>1. d[1] # q[1]
        BY <1>1, <3>3 DEF Submit, Capture, Live, Drained
      <4>2. QED
        BY <3>3, <4>1 DEF Submit, Insert, table, Of
    <3>4. QED
      BY <1>1, <3>1, <3>2, <3>3
         DEF Next, Register, ReleaseFails, SubmitFails, DrainFails, Settle, vars, table, Of
  <2>3. Of(q[1], (rows \ delayed)') = Of(q[1], rows \ delayed)
    BY <2>2 DEF Of
  <2>4. QED
    BY <2>1, <2>3 DEF Snapshot, Visible
<1>2. IInv /\ [Next]_vars =>
        [\A q \in Queries : q[1] \in Drained' /\ q \in Queries' => Snapshot(q)' = Snapshot(q)]_vars
  BY <1>1
<1>3. QED
  BY <1>2, IInvHolds, PTL DEF AuditsRepeat, Spec
=============================================================================
