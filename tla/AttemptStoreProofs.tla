------------------------- MODULE AttemptStoreProofs -------------------------
(***************************************************************************)
(* The attempt store, for any number of runs and attempts: every listing   *)
(* and every file agree with the chain of one result, event by event, so   *)
(* that an event validated against a listing belongs right after it.       *)
(***************************************************************************)
EXTENDS AttemptStore, SequenceTheorems, FiniteSetTheorems, TLAPS

----------------------------------------------------------------------------
\* The chain of a result by position: result g of run r

\* How many of its events come before the outcome, and how many there are.
Before(g) == g.attempts + 2 + (IF g.raw THEN 1 ELSE 0)
Width(g) == Before(g) + 3

LateState(k) ==
  IF k = 1 THEN "parsed_or_failed" ELSE IF k = 2 THEN "closeout_pending" ELSE "terminal_published"

Nth(g, r, k) ==
  IF k = 1 THEN Event("prepared", None, 0)
  ELSE IF k = 2 THEN Event("started", None, 0)
  ELSE IF k <= g.attempts + 2 THEN Event("attempt_recorded", r, k - 2)
  ELSE IF k <= Before(g) THEN Event("response_recorded", r, 0)
  ELSE Event(LateState(k - Before(g)), r, 0)

----------------------------------------------------------------------------
\* The inductive invariant

\* The ledger holds the first events of the chain of run r, and not its terminal.
Holds(r) ==
  /\ gained[r] # None
  /\ Len(ledger) < Width(gained[r])
  /\ \A k \in 1..Len(ledger) : ledger[k] = Nth(gained[r], r, k)

LedgerInv ==
  /\ \A k \in 1..Len(ledger) : k <= 2 => ledger[k] = Abstract!Opening[k]
  /\ Len(ledger) > 2 => \E r \in Runs : Holds(r)
  /\ terminal # None =>
       \E r \in Runs :
         /\ Holds(r)
         /\ Len(ledger) + 1 = Width(gained[r])
         /\ terminal = [event |-> Nth(gained[r], r, Width(gained[r])),
                        sequence |-> Width(gained[r])]

ObjectsInv ==
  /\ \A k \in 1..Len(ledger) : ObjectOf(ledger[k]) \subseteq objects
  /\ terminal # None => ObjectOf(terminal.event) \subseteq objects

\* Every run records its chain event by event: those before the current one are in the ledger.
Busy(w) == run[w].stage \notin {"idle", "check", "ended"}
Works(w) == Busy(w) /\ run[w].stage # "execute"
Closes(w) == Current(w).state \in {"closeout_pending", "terminal_published"}
Result(w) == gained[run[w].source]

ProgramInv(w) ==
  /\ run[w].stage \in {"idle", "check"} =>
       run[w].at = 1 /\ run[w].source = w /\ gained[w] = None
  /\ run[w].listed => run[w].stage \in {"check", "guard", "append", "again"}
  /\ run[w].created => run[w].stage = "receipt"
  /\ gained[w] # None => Len(ledger) >= 2
  /\ Result(w) = None => run[w].source = w
  /\ run[w].stage = "execute" => run[w].at = 3 /\ Result(w) = None
  /\ Works(w) => IF Result(w) = None THEN run[w].at <= 2 ELSE run[w].at <= Width(Result(w))
  /\ Busy(w) => /\ run[w].at - 1 <= Len(ledger)
                /\ \A j \in 1..(run[w].at - 1) : ledger[j] = Nth(Result(w), run[w].source, j)

StageInv(w) ==
  /\ run[w].seen <= Len(ledger)
  /\ Busy(w) /\ run[w].listed => run[w].at - 1 <= run[w].seen
  /\ run[w].stage \in {"mkdir", "publish"} => run[w].seen = run[w].at - 1
  /\ run[w].stage = "object" => Current(w).state \notin {"prepared", "started"}
  /\ run[w].stage = "guard" => Current(w).state \in Abstract!LateStates
  /\ run[w].stage \in {"append", "mkdir", "publish"} \/ (run[w].stage = "guard" /\ Closes(w)) =>
       ObjectOf(Current(w)) \subseteq objects
  /\ run[w].stage = "receipt" =>
       IF Current(w).state = "terminal_published" THEN terminal # None
       ELSE run[w].at <= Len(ledger) /\ ledger[run[w].at] = Current(w)

\* An acknowledgement and a creation are of an entry, and no entry has two.
Claims ==
  /\ \A c \in counted : /\ c.event.state = "attempt_recorded"
                        /\ \E k \in 1..Len(ledger) : c.event = ledger[k]
  /\ \A c, d \in counted : c.event = d.event => c = d
  /\ \A w \in Runs, c \in counted : run[w].created => c.event # Current(w)
  /\ \A v, w \in Runs : run[v].created /\ run[w].created /\ Current(v) = Current(w) => v = w

Active(w) == run[w].stage \notin {"idle", "ended"}
Orderly ==
  orderly =>
    /\ \A v, w \in Runs : Active(v) /\ Active(w) => v = w
    /\ \A w \in Runs : Busy(w) => run[w].source = w
    /\ \A v, w \in Runs : Busy(w) /\ gained[v] # None => v = w
    /\ \A v, w \in Runs : gained[v] # None /\ gained[w] # None => v = w
    /\ \A w \in Runs : run[w].stage = "check" /\ run[w].listed => run[w].seen = Len(ledger)

IInv ==
  /\ TypeOK
  /\ LedgerInv
  /\ ObjectsInv
  /\ \A w \in Runs : ProgramInv(w) /\ StageInv(w)
  /\ Claims
  /\ Orderly

----------------------------------------------------------------------------
\* Facts about chains

\* The shape of a chain: opening, attempts, perhaps a response, and three closing events.
LEMMA NthFacts ==
  ASSUME NEW g \in GatewayResults
  PROVE  /\ Before(g) \in Nat /\ Width(g) \in Nat
         /\ g.attempts \in 1..MaxAttempts /\ g.attempts \in Nat
         /\ g.raw \in BOOLEAN
         /\ Before(g) >= 3 /\ Before(g) >= g.attempts + 2
         /\ Before(g) = g.attempts + 2 + (IF g.raw THEN 1 ELSE 0)
         /\ Width(g) = Before(g) + 3
         /\ Width(g) <= MaxAttempts + 6
  BY AttemptAssumption DEF GatewayResults, Before, Width

\* The opening is in every chain, whatever the result.
LEMMA NthOpening ==
  ASSUME NEW g, NEW r
  PROVE  \A k \in 1..2 : Nth(g, r, k) = Abstract!Opening[k]
  BY DEF Nth, Event, Abstract!Event, Abstract!Opening

\* The opening, spelt out.
LEMMA OpeningStates ==
  /\ Abstract!Opening[1] = [state |-> "prepared", run |-> None, ordinal |-> 0]
  /\ Abstract!Opening[2] = [state |-> "started", run |-> None, ordinal |-> 0]
  /\ Abstract!Opening[1] \in Abstract!Events /\ Abstract!Opening[2] \in Abstract!Events
  BY DEF Abstract!Event, Abstract!Opening, Abstract!Events

\* State, run and ordinal of each event of a chain.
LEMMA NthStates ==
  ASSUME NEW g \in GatewayResults, NEW r \in Runs, NEW k \in 1..Width(g)
  PROVE  /\ Nth(g, r, k).state =
              IF k = 1 THEN "prepared" ELSE IF k = 2 THEN "started"
              ELSE IF k <= g.attempts + 2 THEN "attempt_recorded"
              ELSE IF k <= Before(g) THEN "response_recorded"
              ELSE IF k = Before(g) + 1 THEN "parsed_or_failed"
              ELSE IF k = Before(g) + 2 THEN "closeout_pending"
              ELSE "terminal_published"
         /\ Nth(g, r, k).run = IF k <= 2 THEN None ELSE r
         /\ Nth(g, r, k).ordinal = IF 2 < k /\ k <= g.attempts + 2 THEN k - 2 ELSE 0
         /\ Nth(g, r, k) \in Abstract!Events
<1>1. /\ Before(g) \in Nat /\ Width(g) = Before(g) + 3
      /\ g.attempts \in 1..MaxAttempts /\ g.raw \in BOOLEAN
      /\ Before(g) >= g.attempts + 2
  BY NthFacts, AttemptAssumption
<1>2. k \in Nat /\ k >= 1 /\ k <= Before(g) + 3
  BY <1>1
<1>3. /\ Nth(g, r, k).run = IF k <= 2 THEN None ELSE r
      /\ Nth(g, r, k).ordinal = IF 2 < k /\ k <= g.attempts + 2 THEN k - 2 ELSE 0
  BY <1>1, <1>2 DEF Nth, Event, Abstract!Event
<1>4. Nth(g, r, k).state =
        IF k = 1 THEN "prepared" ELSE IF k = 2 THEN "started"
        ELSE IF k <= g.attempts + 2 THEN "attempt_recorded"
        ELSE IF k <= Before(g) THEN "response_recorded"
        ELSE IF k = Before(g) + 1 THEN "parsed_or_failed"
        ELSE IF k = Before(g) + 2 THEN "closeout_pending"
        ELSE "terminal_published"
  BY <1>1, <1>2 DEF Nth, Event, Abstract!Event, LateState
<1>5. Nth(g, r, k) \in Abstract!Events
  <2>1. CASE k <= 2
    BY <2>1, <1>2, NthOpening, OpeningStates
  <2>3. CASE 2 < k /\ k <= g.attempts + 2
    <3>1. k - 2 \in 1..MaxAttempts
      BY <2>3, <1>1, <1>2, AttemptAssumption
    <3>2. Nth(g, r, k) = Abstract!Event("attempt_recorded", r, k - 2)
      BY <2>3, <1>1, <1>2 DEF Nth, Event
    <3>3. QED
      BY <3>1, <3>2 DEF Abstract!Events
  <2>4. CASE k > g.attempts + 2
    <3>1. PICK s \in Abstract!LateStates : Nth(g, r, k) = Abstract!Event(s, r, 0)
      BY <2>4, <1>1, <1>2 DEF Nth, Event, LateState, Abstract!LateStates
    <3>2. QED
      BY <3>1 DEF Abstract!Events
  <2>5. QED
    BY <2>1, <2>3, <2>4, <1>1, <1>2
<1>6. QED
  BY <1>3, <1>4, <1>5

\* An event has one place.
LEMMA NthPlace ==
  ASSUME NEW g \in GatewayResults, NEW h \in GatewayResults, NEW r \in Runs, NEW s \in Runs,
         NEW j \in 1..Width(g), NEW k \in 1..Width(h), Nth(g, r, j) = Nth(h, s, k),
         r = s => g = h
  PROVE  j = k /\ (j > 2 => r = s)
<1>1. /\ Before(g) \in Nat /\ Width(g) = Before(g) + 3
      /\ g.attempts \in Nat /\ g.raw \in BOOLEAN
      /\ Before(g) = g.attempts + 2 + (IF g.raw THEN 1 ELSE 0)
      /\ Before(h) \in Nat /\ Width(h) = Before(h) + 3
      /\ h.attempts \in Nat /\ h.raw \in BOOLEAN
      /\ Before(h) = h.attempts + 2 + (IF h.raw THEN 1 ELSE 0)
  BY NthFacts, AttemptAssumption
<1>2. (j <= 2 <=> k <= 2) /\ (j > 2 => r = s)
  BY NthStates, <1>1, AttemptAssumption
<1>3. CASE j <= 2
  BY <1>3, <1>2, <1>1, NthStates
<1>4. CASE j > 2
  BY <1>4, <1>2, <1>1, NthStates
<1>5. QED
  BY <1>1, <1>3, <1>4

\* The chain of a run that has a result is what Nth says.
LEMMA ChainIs ==
  ASSUME NEW r \in Runs, gained[r] \in GatewayResults
  PROVE  /\ Chain(r) \in Seq(Abstract!Events)
         /\ Len(Chain(r)) = Width(gained[r])
         /\ \A k \in 1..Width(gained[r]) : Chain(r)[k] = Nth(gained[r], r, k)
<1> DEFINE n == gained[r].attempts
           E == Abstract!Events
           attempts == [i \in 1..n |-> Event("attempt_recorded", r, i)]
           response == IF gained[r].raw THEN <<Event("response_recorded", r, 0)>> ELSE <<>>
           closing == <<Event("parsed_or_failed", r, 0), Event("closeout_pending", r, 0),
                        Event("terminal_published", r, 0)>>
           opening == Abstract!Opening
           b == IF gained[r].raw THEN 1 ELSE 0
<1>1. n \in 1..MaxAttempts /\ n \in Nat /\ gained[r].raw \in BOOLEAN /\ b \in 0..1
  BY NthFacts, AttemptAssumption
<1>2. opening \in Seq(E) /\ Len(opening) = 2
  BY DEF Abstract!Opening, Abstract!Events
<1>3. attempts \in Seq(E) /\ Len(attempts) = n
  <2>1. \A i \in 1..n : Event("attempt_recorded", r, i) \in E
    BY <1>1, AttemptAssumption DEF Event, Abstract!Events
  <2>2. attempts \in [1..n -> E]
    BY <2>1
  <2>3. QED
    BY <2>2, <1>1
<1>4. response \in Seq(E) /\ Len(response) = b
  <2>1. Event("response_recorded", r, 0) \in E
    BY DEF Event, Abstract!Events, Abstract!LateStates
  <2>2. CASE gained[r].raw
    BY <2>1, <2>2
  <2>3. CASE ~gained[r].raw
    BY <2>3
  <2>4. QED
    BY <2>2, <2>3, <1>1
<1>5. closing \in Seq(E) /\ Len(closing) = 3
  BY DEF Event, Abstract!Events, Abstract!LateStates
<1> DEFINE two == opening \o attempts
           three == two \o response
           four == three \o closing
<1> HIDE DEF n, b, E, attempts, response, closing, opening, two, three, four
<1>6. /\ two \in Seq(E) /\ Len(two) = 2 + n
      /\ \A k \in 1..(2 + n) : two[k] = IF k <= 2 THEN opening[k] ELSE attempts[k - 2]
  <2>1. 2 \in Nat /\ n \in Nat
    BY <1>1
  <2>2. opening \in Seq(E) /\ attempts \in Seq(E) /\ Len(opening) = 2 /\ Len(attempts) = n
    BY <1>2, <1>3
  <2>3. /\ two \in Seq(E) /\ Len(two) = Len(opening) + Len(attempts)
        /\ \A k \in 1..(Len(opening) + Len(attempts)) :
             two[k] = IF k <= Len(opening) THEN opening[k] ELSE attempts[k - Len(opening)]
    BY <2>2, ConcatProperties DEF two
  <2>4. QED
    BY <2>1, <2>2, <2>3
<1>7. /\ three \in Seq(E) /\ Len(three) = (2 + n) + b
      /\ \A k \in 1..((2 + n) + b) :
           three[k] = IF k <= (2 + n) THEN two[k] ELSE response[k - (2 + n)]
  <2>1. (2 + n) \in Nat /\ b \in Nat
    BY <1>1
  <2>2. two \in Seq(E) /\ response \in Seq(E) /\ Len(two) = (2 + n) /\ Len(response) = b
    BY <1>6, <1>4
  <2>3. /\ three \in Seq(E) /\ Len(three) = Len(two) + Len(response)
        /\ \A k \in 1..(Len(two) + Len(response)) :
             three[k] = IF k <= Len(two) THEN two[k] ELSE response[k - Len(two)]
    BY <2>2, ConcatProperties DEF three
  <2>4. QED
    BY <2>1, <2>2, <2>3
<1>8. /\ four \in Seq(E) /\ Len(four) = (2 + n + b) + 3
      /\ \A k \in 1..((2 + n + b) + 3) :
           four[k] = IF k <= (2 + n + b) THEN three[k] ELSE closing[k - (2 + n + b)]
  <2>1. (2 + n + b) \in Nat /\ 3 \in Nat
    BY <1>1
  <2>2. three \in Seq(E) /\ closing \in Seq(E) /\ Len(three) = (2 + n + b) /\ Len(closing) = 3
    BY <1>7, <1>5
  <2>3. /\ four \in Seq(E) /\ Len(four) = Len(three) + Len(closing)
        /\ \A k \in 1..(Len(three) + Len(closing)) :
             four[k] = IF k <= Len(three) THEN three[k] ELSE closing[k - Len(three)]
    BY <2>2, ConcatProperties DEF four
  <2>4. QED
    BY <2>1, <2>2, <2>3
<1>9. Chain(r) = four
  BY DEF Chain, four, three, two, opening, attempts, response, closing, n
<1>10. Width(gained[r]) = 2 + n + b + 3 /\ Before(gained[r]) = 2 + n + b
  BY <1>1 DEF Width, Before, n, b
<1>11. ASSUME NEW k \in 1..Width(gained[r])
       PROVE  four[k] = Nth(gained[r], r, k)
  <2>1. k \in Nat /\ k >= 1 /\ k <= 2 + n + b + 3
    BY <1>1, <1>10
  <2>2. CASE k <= 2
    <3>1. four[k] = opening[k]
      BY <2>1, <2>2, <1>1, <1>6, <1>7, <1>8
    <3>2. QED
      BY <3>1, <2>1, <2>2 DEF opening, Abstract!Opening, Nth, Event, Abstract!Event
  <2>3. CASE 2 < k /\ k <= 2 + n
    <3>1. four[k] = attempts[k - 2]
      BY <2>1, <2>3, <1>1, <1>6, <1>7, <1>8
    <3>2. QED
      BY <3>1, <2>1, <2>3, <1>1 DEF attempts, n, Nth
  <2>4. CASE 2 + n < k /\ k <= 2 + n + b
    <3>1. four[k] = response[1] /\ b = 1
      BY <2>1, <2>4, <1>1, <1>7, <1>8
    <3>2. gained[r].raw
      BY <3>1 DEF b
    <3>3. response[1] = Event("response_recorded", r, 0)
      BY <3>2 DEF response
    <3>4. QED
      BY <3>1, <3>3, <2>1, <2>4, <1>1, <1>10 DEF n, Nth
  <2>5. CASE 2 + n + b < k
    <3>1. four[k] = closing[k - (2 + n + b)]
      BY <2>1, <2>5, <1>1, <1>8
    <3>2. k - (2 + n + b) \in 1..3
      BY <2>1, <2>5, <1>1
    <3>3. closing[k - (2 + n + b)] = Event(LateState(k - (2 + n + b)), r, 0)
      BY <3>2 DEF closing, LateState
    <3>4. QED
      BY <3>1, <3>3, <2>1, <2>5, <1>1, <1>10 DEF n, Nth
  <2>6. QED
    BY <2>1, <2>2, <2>3, <2>4, <2>5, <1>1
<1>12. QED
  BY <1>8, <1>9, <1>10, <1>11 DEF E

----------------------------------------------------------------------------
\* Facts about states

\* A run has no result or one a gateway may return.
LEMMA ResultType ==
  ASSUME TypeOK, NEW r \in Runs
  PROVE  gained[r] = None \/ gained[r] \in GatewayResults
  BY DEF TypeOK, GatewayResults

\* The ledger is made of events.
LEMMA LedgerType ==
  ASSUME TypeOK
  PROVE  /\ Len(ledger) \in Nat
         /\ \A k \in 1..Len(ledger) : ledger[k] \in Abstract!Events
<1>1. ledger \in Seq(Abstract!Events)
  BY DEF TypeOK
<1>2. QED
  BY <1>1, LenProperties, ElementOfSeq

\* What the type invariant says of one run.
LEMMA RunType ==
  ASSUME TypeOK, NEW w \in Runs
  PROVE  /\ run[w] \in Programs
         /\ run[w].stage \in Stages /\ run[w].listed \in BOOLEAN /\ run[w].created \in BOOLEAN
         /\ run[w].seen \in Nat /\ run[w].at \in Nat \ {0} /\ run[w].source \in Runs
         /\ run[w].outcome \in Outcomes
<1>1. run[w] \in Programs
  BY DEF TypeOK
<1>2. QED
  BY <1>1, AttemptAssumption DEF Programs

\* A listing finds no more entries than a run can note.
LEMMA LedgerWidth ==
  ASSUME TypeOK, LedgerInv
  PROVE  Len(ledger) <= MaxAttempts + 5
<1>1. CASE Len(ledger) <= 2
  BY <1>1, LedgerType, AttemptAssumption
<1>2. CASE Len(ledger) > 2
  <2>1. PICK r \in Runs : Holds(r)
    BY <1>2 DEF LedgerInv
  <2>2. gained[r] \in GatewayResults
    BY <2>1, ResultType DEF Holds
  <2>3. QED
    BY <2>1, <2>2, NthFacts, LedgerType, AttemptAssumption DEF Holds
<1>3. QED
  BY <1>1, <1>2, LedgerType

\* A ledger that agrees with the chain of run s beyond the opening is of run s.
LEMMA LedgerIsOf ==
  ASSUME TypeOK, NEW r \in Runs, Holds(r), NEW s \in Runs, gained[s] # None,
         NEW k \in 1..Len(ledger), k > 2, k <= Width(gained[s]),
         ledger[k] = Nth(gained[s], s, k)
  PROVE  r = s
<1>1. gained[r] \in GatewayResults /\ gained[s] \in GatewayResults
  BY ResultType DEF Holds
<1>2. Len(ledger) \in Nat /\ Width(gained[r]) \in Nat /\ Width(gained[s]) \in Nat
  BY <1>1, LedgerType, NthFacts
<1>3. ledger[k] = Nth(gained[r], r, k) /\ k \in 1..Width(gained[r]) /\ k \in 1..Width(gained[s])
  BY <1>2 DEF Holds
<1>4. ~(k <= 2)
  BY <1>2
<1>5. Nth(gained[r], r, k).run = r
  BY <1>1, <1>3, <1>4, NthStates
<1>6. Nth(gained[s], s, k).run = s
  <2>1. gained[s] \in GatewayResults /\ k \in 1..Width(gained[s])
    BY <1>1, <1>3
  <2>2. QED
    BY ONLY <2>1, <1>4, s \in Runs, NthStates
<1>7. QED
  BY <1>3, <1>5, <1>6

\* The event a run works on, by position.
LEMMA CurrentIs ==
  ASSUME TypeOK, NEW w \in Runs, ProgramInv(w), Works(w)
  PROVE  /\ Current(w) = Nth(Result(w), run[w].source, run[w].at)
         /\ Current(w) \in Abstract!Events
         /\ run[w].at <= 2 => Current(w) = Abstract!Opening[run[w].at]
         /\ run[w].at > 2 => Result(w) # None /\ Result(w) \in GatewayResults
         /\ Result(w) # None => run[w].at \in 1..Width(Result(w))
<1>1. run[w].at \in Nat \ {0} /\ run[w].source \in Runs
  BY RunType
<1>2. Result(w) = None \/ Result(w) \in GatewayResults
  BY <1>1, ResultType DEF Result
<1>3. CASE run[w].at <= 2
  <2>1. Current(w) = Abstract!Opening[run[w].at] /\ run[w].at \in 1..2
    BY <1>1, <1>3 DEF Current
  <2>2. Abstract!Opening[run[w].at] \in Abstract!Events
    BY <2>1, OpeningStates
  <2>3. Result(w) # None => run[w].at \in 1..Width(Result(w))
    BY <1>1, <1>2, <1>3, NthFacts
  <2>4. QED
    BY <1>3, <1>1, <2>1, <2>2, <2>3, NthOpening
<1>4. CASE run[w].at > 2
  <2>1. Result(w) # None /\ run[w].at <= Width(Result(w))
    BY <1>1, <1>4 DEF ProgramInv
  <2>2. Result(w) \in GatewayResults /\ run[w].at \in 1..Width(Result(w))
    BY <1>1, <1>2, <2>1, NthFacts
  <2>3. Current(w) = Chain(run[w].source)[run[w].at]
    BY <1>1, <1>4 DEF Current
  <2>4. Current(w) = Nth(Result(w), run[w].source, run[w].at)
    BY <1>1, <2>2, <2>3, ChainIs DEF Result
  <2>5. QED
    BY <1>1, <1>4, <2>1, <2>2, <2>4, NthStates
<1>5. QED
  BY <1>1, <1>3, <1>4

\* ... and its state.
LEMMA CurrentState ==
  ASSUME TypeOK, NEW w \in Runs, ProgramInv(w), Works(w)
  PROVE  /\ run[w].at = 1 <=> Current(w).state = "prepared"
         /\ run[w].at = 2 <=> Current(w).state = "started"
         /\ run[w].at <= 2 => Current(w).run = None
         /\ Current(w).state = "terminal_published" <=>
              Result(w) # None /\ run[w].at = Width(Result(w))
         /\ run[w].at = 3 => Current(w).state = "attempt_recorded" /\ Current(w).ordinal = 1
         /\ run[w].at > 2 => Current(w).run = run[w].source
         /\ Current(w).state \in {"prepared", "started", "attempt_recorded"} \cup
                                   Abstract!LateStates
<1>1. run[w].at \in Nat \ {0} /\ run[w].source \in Runs
  BY RunType
<1>2. CASE run[w].at <= 2
  <2>1. run[w].at \in 1..2 /\ Current(w) = Abstract!Opening[run[w].at]
    BY <1>1, <1>2, CurrentIs
  <2>2. Result(w) = None \/ Width(Result(w)) >= 6
    BY <1>1, ResultType, NthFacts DEF Result
  <2>3. QED
    BY <1>1, <1>2, <2>1, <2>2, OpeningStates
<1>3. CASE run[w].at > 2
  <2>1. /\ Result(w) \in GatewayResults /\ run[w].at \in 1..Width(Result(w))
        /\ Result(w) # None
        /\ Current(w) = Nth(Result(w), run[w].source, run[w].at)
    BY <1>3, CurrentIs
  <2>2. /\ Before(Result(w)) \in Nat /\ Width(Result(w)) = Before(Result(w)) + 3
        /\ Result(w).attempts \in Nat /\ Result(w).attempts >= 1
        /\ Before(Result(w)) >= Result(w).attempts + 2
    BY <2>1, NthFacts, AttemptAssumption
  <2>3. QED
    BY <1>1, <1>3, <2>1, <2>2, NthStates DEF Abstract!LateStates
<1>4. QED
  BY <1>1, <1>2, <1>3

\* The ledger, event by event, whoever recorded it.
LEMMA LedgerAt ==
  ASSUME TypeOK, LedgerInv, NEW k \in 1..Len(ledger)
  PROVE  /\ k <= 2 => ledger[k] = Abstract!Opening[k]
         /\ k > 2 => \E r \in Runs : /\ Holds(r) /\ gained[r] \in GatewayResults
                                     /\ k \in 1..Width(gained[r])
                                     /\ ledger[k] = Nth(gained[r], r, k)
<1>1. k <= 2 => ledger[k] = Abstract!Opening[k]
  BY DEF LedgerInv
<1>2. ASSUME k > 2
      PROVE  \E r \in Runs : /\ Holds(r) /\ gained[r] \in GatewayResults
                             /\ k \in 1..Width(gained[r])
                             /\ ledger[k] = Nth(gained[r], r, k)
  <2>1. Len(ledger) \in Nat /\ Len(ledger) > 2
    BY <1>2, LedgerType
  <2>2. PICK r \in Runs : Holds(r)
    BY <2>1 DEF LedgerInv
  <2>3. gained[r] \in GatewayResults
    BY <2>2, ResultType DEF Holds
  <2>4. k \in 1..Width(gained[r]) /\ ledger[k] = Nth(gained[r], r, k)
    BY <2>1, <2>2, <2>3, NthFacts DEF Holds
  <2>5. QED
    BY <2>2, <2>3, <2>4
<1>3. QED
  BY <1>1, <1>2

\* An event stands in the ledger at its own place.
LEMMA InLedger ==
  ASSUME TypeOK, LedgerInv, NEW w \in Runs, ProgramInv(w), Works(w),
         NEW k \in 1..Len(ledger), ledger[k] = Current(w)
  PROVE  k = run[w].at
<1>1. Len(ledger) \in Nat /\ run[w].at \in Nat \ {0} /\ run[w].source \in Runs
  BY LedgerType, RunType
<1>2. CASE k <= 2
  <2>1. k \in 1..2 /\ Current(w) = Abstract!Opening[k]
    BY <1>1, <1>2, LedgerAt
  <2>2. QED
    BY <2>1, OpeningStates, CurrentState
<1>3. CASE k > 2
  <2>1. PICK r \in Runs : /\ gained[r] \in GatewayResults /\ k \in 1..Width(gained[r])
                          /\ ledger[k] = Nth(gained[r], r, k)
    BY <1>3, LedgerAt
  <2>2. /\ Before(gained[r]) \in Nat /\ Before(gained[r]) >= gained[r].attempts + 2
        /\ gained[r].attempts \in Nat /\ Width(gained[r]) = Before(gained[r]) + 3
    BY <2>1, NthFacts
  <2>3. ~(k = 1) /\ ~(k = 2)
    BY <1>1, <1>3
  <2>4. Current(w).state \notin {"prepared", "started"}
    <3> DEFINE g == gained[r]
    <3>1. /\ g \in GatewayResults /\ k \in 1..Width(g) /\ r \in Runs
          /\ Current(w).state = Nth(g, r, k).state
      BY <2>1
    <3> HIDE DEF g
    <3>2. QED
      BY ONLY <3>1, <2>3, NthStates
  <2>5. run[w].at > 2
    BY <1>1, <2>4, CurrentState
  <2>6. /\ Result(w) \in GatewayResults /\ run[w].at \in 1..Width(Result(w))
        /\ Current(w) = Nth(Result(w), run[w].source, run[w].at)
    BY <2>5, CurrentIs
  <2>7. r = run[w].source => gained[r] = Result(w)
    BY DEF Result
  <2>8. Nth(gained[r], r, k) = Nth(Result(w), run[w].source, run[w].at)
    BY <2>1, <2>6
  <2> DEFINE g == gained[r]
             h == Result(w)
             s == run[w].source
  <2>9. /\ g \in GatewayResults /\ h \in GatewayResults /\ r \in Runs /\ s \in Runs
        /\ k \in 1..Width(g) /\ run[w].at \in 1..Width(h)
        /\ Nth(g, r, k) = Nth(h, s, run[w].at) /\ (r = s => g = h)
    BY <1>1, <2>1, <2>6, <2>7, <2>8
  <2> HIDE DEF g, h, s
  <2>10. QED
    BY ONLY <2>9, NthPlace
<1>4. QED
  BY <1>1, <1>2, <1>3

\* A run past its first attempt has the ledger to itself.
LEMMA HoldsOwn ==
  ASSUME TypeOK, LedgerInv, NEW w \in Runs, ProgramInv(w), Works(w), run[w].at >= 4
  PROVE  Holds(run[w].source)
<1>1. Len(ledger) \in Nat /\ run[w].at \in Nat \ {0} /\ run[w].source \in Runs
  BY LedgerType, RunType
<1>2. Busy(w)
  BY DEF Works
<1>3. 3 \in 1..(run[w].at - 1) /\ run[w].at - 1 <= Len(ledger)
  BY <1>1, <1>2 DEF ProgramInv
<1>4. ledger[3] = Nth(Result(w), run[w].source, 3)
  BY <1>2, <1>3 DEF ProgramInv
<1>5. Len(ledger) > 2 /\ 3 \in 1..Len(ledger)
  BY <1>1, <1>3
<1>6. PICK r \in Runs : Holds(r)
  BY <1>5 DEF LedgerInv
<1>7. Result(w) # None /\ Result(w) \in GatewayResults
  BY <1>1, CurrentIs
<1>8. 3 <= Width(Result(w))
  BY <1>7, NthFacts
<1>9. r = run[w].source
  BY <1>1, <1>4, <1>5, <1>6, <1>7, <1>8, LedgerIsOf DEF Result
<1>10. QED
  BY <1>6, <1>9

\* A listing, as a sequence.
LEMMA EntriesAre ==
  ASSUME TypeOK, NEW w \in Runs, run[w].seen <= Len(ledger)
  PROVE  /\ Entries(w) \in Seq(Abstract!Events)
         /\ Len(Entries(w)) = run[w].seen
         /\ \A k \in 1..run[w].seen : Entries(w)[k] = ledger[k]
<1>1. Len(ledger) \in Nat /\ run[w].seen \in Nat
  BY LedgerType, RunType
<1>2. \A k \in 1..run[w].seen : ledger[k] \in Abstract!Events
  BY <1>1, LedgerType
<1>3. /\ SubSeq(ledger, 1, run[w].seen) \in Seq(Abstract!Events)
      /\ Len(SubSeq(ledger, 1, run[w].seen)) =
           IF 1 <= run[w].seen THEN run[w].seen - 1 + 1 ELSE 0
      /\ \A k \in 1..(run[w].seen - 1 + 1) :
           SubSeq(ledger, 1, run[w].seen)[k] = ledger[1 + k - 1]
  BY <1>1, <1>2, SubSeqProperties
<1>4. run[w].seen - 1 + 1 = run[w].seen /\ \A k \in 1..run[w].seen : 1 + k - 1 = k
  BY <1>1
<1>5. QED
  BY <1>1, <1>3, <1>4 DEF Entries

\* Counting attempts gives a number, and a sequence with one has at least one.
LEMMA CountFacts ==
  ASSUME NEW c, Len(c) \in Nat
  PROVE  /\ AttemptCount(c) \in Nat
         /\ \A j \in 1..Len(c) : c[j].state = "attempt_recorded" => AttemptCount(c) # 0
<1> DEFINE A == {k \in 1..Len(c) : c[k].state = "attempt_recorded"}
<1>1. IsFiniteSet(1..Len(c))
  BY FS_Interval
<1>2. IsFiniteSet(A)
  BY <1>1, FS_Subset, A \in SUBSET (1..Len(c))
<1>3. AttemptCount(c) = Cardinality(A)
  <2>1. AttemptCount(c) = Abstract!AttemptCount(c)
    BY DEF AttemptCount
  <2>2. Abstract!AttemptCount(c) = Abstract!Cardinality(A)
    BY Zenon DEF Abstract!AttemptCount
  <2>3. Abstract!Cardinality(A) = Cardinality(A)
    BY Zenon DEF Cardinality, Abstract!Cardinality, IsFiniteSet, Abstract!IsFiniteSet
  <2>4. QED
    BY <2>1, <2>2, <2>3
<1>4. Cardinality(A) \in Nat /\ (A # {} => Cardinality(A) # 0)
  BY <1>2, FS_CardinalityType, FS_EmptySet
<1>5. ASSUME NEW j \in 1..Len(c), c[j].state = "attempt_recorded"
      PROVE  A # {}
  BY <1>5
<1>6. QED
  BY <1>3, <1>4, <1>5

\* A new event that passes the checks on a listing is the one right after it.
LEMMA NextInLine ==
  ASSUME TypeOK, LedgerInv, NEW w \in Runs, ProgramInv(w), StageInv(w), run[w].stage = "append",
         run[w].listed, ~Recorded(w), TransitionError(Entries(w), Current(w)) = "none"
  PROVE  run[w].seen = run[w].at - 1
<1>1. /\ Len(ledger) \in Nat /\ run[w].at \in Nat \ {0} /\ run[w].source \in Runs
      /\ run[w].seen \in Nat
  BY LedgerType, RunType
<1>2. Works(w) /\ Busy(w)
  BY DEF Works, Busy
<1>3. run[w].seen <= Len(ledger) /\ run[w].at - 1 <= run[w].seen
  BY <1>2 DEF StageInv
<1>4. SUFFICES ASSUME run[w].at <= run[w].seen PROVE FALSE
  BY <1>1, <1>3
<1>5. /\ Len(Entries(w)) = run[w].seen
      /\ \A k \in 1..run[w].seen : Entries(w)[k] = ledger[k]
  BY <1>3, EntriesAre
<1>6. run[w].at \in 1..run[w].seen /\ run[w].at \in 1..Len(ledger)
  BY <1>1, <1>3, <1>4
<1>7. ledger[run[w].at] # Current(w)
  <2>1. SUFFICES ASSUME ledger[run[w].at] = Current(w) PROVE FALSE
    OBVIOUS
  <2>2. Entries(w)[run[w].at] = Current(w)
    BY <2>1, <1>5, <1>6
  <2>3. Current(w) \in ToSet(Entries(w))
    BY <2>2, <1>5, <1>6 DEF ToSet
  <2>4. QED
    BY <2>3 DEF Recorded
<1>8. CASE run[w].at <= 2
  BY <1>6, <1>7, <1>8, <1>2, LedgerAt, CurrentIs
<1>9. CASE run[w].at = 3
  <2>1. /\ Current(w).state = "attempt_recorded" /\ Current(w).ordinal = 1
    BY <1>2, <1>9, CurrentState
  <2>2. PICK r \in Runs : /\ gained[r] \in GatewayResults /\ 3 \in 1..Width(gained[r])
                          /\ ledger[3] = Nth(gained[r], r, 3)
    BY <1>6, <1>9, LedgerAt
  <2>3. gained[r].attempts \in Nat /\ gained[r].attempts >= 1
    BY <2>2, NthFacts, AttemptAssumption
  <2>4. ledger[3].state = "attempt_recorded"
    BY <2>2, <2>3, NthStates
  <2>5. Entries(w)[3].state = "attempt_recorded" /\ 3 \in 1..Len(Entries(w))
    BY <2>4, <1>5, <1>6, <1>9
  <2>6. AttemptCount(Entries(w)) # 0
    BY <2>5, <1>5, <1>1, CountFacts
  <2>7. Current(w).ordinal = AttemptCount(Entries(w)) + 1
    BY <2>1 DEF TransitionError
  <2>8. AttemptCount(Entries(w)) \in Nat
    BY <1>1, <1>5, CountFacts
  <2>9. QED
    BY <2>1, <2>6, <2>7, <2>8
<1>10. CASE run[w].at >= 4
  <2>1. Holds(run[w].source)
    BY <1>2, <1>10, HoldsOwn
  <2>2. ledger[run[w].at] = Nth(Result(w), run[w].source, run[w].at)
    BY <2>1, <1>6 DEF Holds, Result
  <2>3. QED
    BY <2>2, <1>2, <1>7, CurrentIs
<1>11. QED
  BY <1>1, <1>8, <1>9, <1>10

----------------------------------------------------------------------------
\* What a step leaves alone

\* Nothing on disk is taken back.
Grows ==
  /\ Len(ledger) <= Len(ledger')
  /\ \A k \in 1..Len(ledger) : ledger'[k] = ledger[k]
  /\ objects \subseteq objects'
  /\ terminal # None => terminal' # None

\* A run works on the same event as long as its place, its source and the result stay.
LEMMA CurrentSame ==
  ASSUME NEW v \in Runs, run'[v].at = run[v].at, run'[v].source = run[v].source,
         gained'[run[v].source] = gained[run[v].source]
  PROVE  /\ Current(v)' = Current(v)
         /\ Result(v)' = Result(v)
         /\ ObjectOf(Current(v))' = ObjectOf(Current(v))
         /\ Closes(v)' = Closes(v)
<1>1. Result(v)' = Result(v)
  BY DEF Result
<1>2. Current(v)' = Current(v)
  BY DEF Current, Chain
<1>3. QED
  BY <1>1, <1>2 DEF Closes, ObjectOf

\* A run that takes no step keeps its invariant.
LEMMA Unmoved ==
  ASSUME TypeOK, TypeOK', Grows, NEW v \in Runs, ProgramInv(v), StageInv(v), run'[v] = run[v],
         gained'[v] = gained[v], gained'[run[v].source] = gained[run[v].source]
  PROVE  ProgramInv(v)' /\ StageInv(v)'
<1>1. /\ Current(v)' = Current(v) /\ Result(v)' = Result(v)
      /\ ObjectOf(Current(v))' = ObjectOf(Current(v)) /\ Closes(v)' = Closes(v)
  BY CurrentSame
<1>2. /\ Len(ledger) \in Nat /\ Len(ledger') \in Nat /\ run[v].at \in Nat \ {0}
      /\ run[v].source \in Runs /\ run[v].seen \in Nat
  BY LedgerType, RunType DEF TypeOK
<1>3. ProgramInv(v)'
  BY <1>1, <1>2 DEF ProgramInv, Grows, Busy, Works
<1>4. StageInv(v)'
  BY <1>1, <1>2 DEF StageInv, Grows, Busy
<1>5. QED
  BY <1>3, <1>4

\* Turns are kept when no run becomes active, and none turns to an event or another source.
LEMMA OrderlyMoves ==
  ASSUME Orderly, orderly' => orderly, UNCHANGED gained, NEW w \in Runs,
         \A v \in Runs \ {w} : run'[v] = run[v],
         Active(w)' => Active(w),
         Busy(w)' => Busy(w) /\ run'[w].source = run[w].source,
         run'[w].stage = "check" /\ run'[w].listed => run'[w].seen = Len(ledger'),
         ledger' = ledger \/ Busy(w)
  PROVE  Orderly'
<1>1. SUFFICES ASSUME orderly' PROVE Orderly'
  BY DEF Orderly
<1>2. /\ \A v \in Runs : Active(v)' => Active(v)
      /\ \A v \in Runs : Busy(v)' => Busy(v) /\ run'[v].source = run[v].source
  BY DEF Active, Busy
<1>3. ASSUME NEW v \in Runs, run'[v].stage = "check", run'[v].listed
      PROVE  run'[v].seen = Len(ledger')
  <2>1. CASE v = w
    BY <1>3, <2>1
  <2>2. CASE v # w
    <3>1. run'[v] = run[v] /\ Active(v)
      BY <1>3, <2>2 DEF Active
    <3>2. ~Busy(w)
      BY <1>1, <2>2, <3>1 DEF Orderly, Active, Busy
    <3>3. QED
      BY <1>1, <1>3, <3>1, <3>2 DEF Orderly
  <2>3. QED
    BY <2>1, <2>2
<1>4. QED
  BY <1>1, <1>2, <1>3 DEF Orderly

\* A step of run w that adds nothing to the ledger and calls no provider.
LEMMA RunMoves ==
  ASSUME IInv, TypeOK', UNCHANGED <<ledger, terminal, gained, counted>>, objects \subseteq objects',
         NEW w \in Runs, \A v \in Runs \ {w} : run'[v] = run[v], ~run'[w].created,
         ProgramInv(w)', StageInv(w)', Orderly'
  PROVE  IInv'
<1>1. Grows
  BY LedgerType DEF Grows, IInv
<1>2. \A v \in Runs : ProgramInv(v)' /\ StageInv(v)'
  <2>1. SUFFICES ASSUME NEW v \in Runs, v # w PROVE ProgramInv(v)' /\ StageInv(v)'
    OBVIOUS
  <2>2. run'[v] = run[v] /\ ProgramInv(v) /\ StageInv(v) /\ TypeOK
    BY <2>1 DEF IInv
  <2>3. QED
    BY <1>1, <2>2, Unmoved
<1>3. LedgerInv'
  BY DEF IInv, LedgerInv, Holds
<1>4. ObjectsInv'
  BY DEF IInv, ObjectsInv
<1>5. Claims'
  <2>1. ASSUME NEW v \in Runs, run'[v].created
        PROVE  run[v].created /\ Current(v)' = Current(v)
    BY <2>1, CurrentSame
  <2>2. QED
    BY <2>1 DEF Claims, IInv
<1>6. QED
  BY <1>2, <1>3, <1>4, <1>5 DEF IInv

\* What going to a stage leaves in a run's record.
LEMMA GoToFacts ==
  ASSUME TypeOK, NEW w \in Runs, NEW s \in Stages, GoTo(w, s)
  PROVE  /\ run' \in [Runs -> Programs]
         /\ \A v \in Runs \ {w} : run'[v] = run[v]
         /\ run'[w].stage = s /\ run'[w].listed = FALSE /\ run'[w].seen = 0
         /\ run'[w].at = run[w].at /\ run'[w].source = run[w].source
         /\ run'[w].created = run[w].created /\ run'[w].outcome = run[w].outcome
<1>1. run \in [Runs -> Programs] /\ 0 \in 0..(MaxAttempts + 5)
  BY AttemptAssumption DEF TypeOK
<1> DEFINE p == [run[w] EXCEPT !.stage = s, !.listed = FALSE, !.seen = 0]
<1>2. run' = [run EXCEPT ![w] = p]
  BY <1>1 DEF GoTo
<1>3. /\ p \in Programs
      /\ p.stage = s /\ p.listed = FALSE /\ p.seen = 0 /\ p.at = run[w].at
      /\ p.source = run[w].source /\ p.created = run[w].created /\ p.outcome = run[w].outcome
  <2> DEFINE q == run[w]
  <2>1. q \in Programs
    BY <1>1
  <2> HIDE DEF q
  <2>2. [q EXCEPT !.stage = s, !.listed = FALSE, !.seen = 0] \in Programs
    BY <1>1, <2>1 DEF Programs
  <2>3. /\ p = [q EXCEPT !.stage = s, !.listed = FALSE, !.seen = 0]
        /\ q = run[w]
    BY DEF q
  <2> HIDE DEF p
  <2>4. QED
    BY <2>1, <2>2, <2>3 DEF Programs
<1> HIDE DEF p
<1>4. QED
  BY <1>1, <1>2, <1>3

\* What stopping leaves in a run's record.
LEMMA RaiseFacts ==
  ASSUME TypeOK, NEW w \in Runs, NEW o \in Outcomes, Raise(w, o)
  PROVE  /\ run' \in [Runs -> Programs]
         /\ \A v \in Runs \ {w} : run'[v] = run[v]
         /\ run'[w].stage = "ended" /\ run'[w].listed = FALSE /\ run'[w].seen = 0
         /\ run'[w].at = run[w].at /\ run'[w].source = run[w].source
         /\ run'[w].created = FALSE
<1>1. run \in [Runs -> Programs] /\ 0 \in 0..(MaxAttempts + 5)
  BY AttemptAssumption DEF TypeOK
<1> DEFINE p == [run[w] EXCEPT !.stage = "ended", !.listed = FALSE, !.seen = 0,
                               !.created = FALSE, !.outcome = o]
<1>2. run' = [run EXCEPT ![w] = p]
  BY <1>1 DEF Raise
<1>3. /\ p \in Programs
      /\ p.stage = "ended" /\ p.listed = FALSE /\ p.seen = 0 /\ p.at = run[w].at
      /\ p.source = run[w].source /\ p.created = FALSE
  <2> DEFINE q == run[w]
  <2>1. q \in Programs /\ "ended" \in Stages
    BY <1>1 DEF Stages
  <2> HIDE DEF q
  <2>2. [q EXCEPT !.stage = "ended", !.listed = FALSE, !.seen = 0, !.created = FALSE,
                  !.outcome = o] \in Programs
    BY <1>1, <2>1 DEF Programs
  <2>3. /\ p = [q EXCEPT !.stage = "ended", !.listed = FALSE, !.seen = 0, !.created = FALSE,
                         !.outcome = o]
        /\ q = run[w]
    BY DEF q
  <2> HIDE DEF p
  <2>4. QED
    BY <2>1, <2>2, <2>3 DEF Programs
<1> HIDE DEF p
<1>4. QED
  BY <1>1, <1>2, <1>3

\* Steps that change runs alone keep the types of the rest.
LEMMA TypeKept ==
  ASSUME TypeOK, run' \in [Runs -> Programs], orderly' \in BOOLEAN,
         UNCHANGED <<dir, objects, ledger, terminal, gained, counted>>
  PROVE  TypeOK'
  BY DEF TypeOK

\* A run that stops, for whatever reason.
LEMMA RaiseKeeps ==
  ASSUME IInv, NEW w \in Runs, NEW o \in Outcomes, Raise(w, o), orderly' \in BOOLEAN,
         orderly' => orderly, UNCHANGED <<dir, objects, ledger, terminal, gained, counted>>
  PROVE  IInv'
<1>1. TypeOK /\ ProgramInv(w) /\ StageInv(w) /\ Orderly
  BY DEF IInv
<1>2. /\ run' \in [Runs -> Programs]
      /\ \A v \in Runs \ {w} : run'[v] = run[v]
      /\ run'[w].stage = "ended" /\ run'[w].listed = FALSE /\ run'[w].seen = 0
      /\ run'[w].at = run[w].at /\ run'[w].source = run[w].source /\ run'[w].created = FALSE
  BY <1>1, RaiseFacts
<1>3. TypeOK'
  BY <1>1, <1>2, TypeKept
<1>4. ~Busy(w)' /\ ~Works(w)' /\ ~Active(w)'
  BY <1>2 DEF Busy, Works, Active
<1>5. ProgramInv(w)'
  BY <1>1, <1>2, <1>4 DEF ProgramInv, Result
<1>6. StageInv(w)'
  BY <1>1, <1>2, <1>4, LedgerType DEF StageInv
<1>7. Orderly'
  BY <1>1, <1>2, <1>4, OrderlyMoves
<1>8. QED
  BY <1>2, <1>3, <1>5, <1>6, <1>7, RunMoves

\* A run that goes on to stage s of the operation it is in.
LEMMA GoToKeeps ==
  ASSUME IInv, NEW w \in Runs, Works(w), run[w].stage # "receipt",
         NEW s \in {"guard", "object", "append", "again", "receipt"}, GoTo(w, s), TypeOK',
         objects \subseteq objects', UNCHANGED <<ledger, terminal, gained, counted, orderly>>,
         s = "object" => Current(w).state \notin {"prepared", "started"},
         s = "guard" => Current(w).state \in Abstract!LateStates,
         s = "append" \/ (s = "guard" /\ Closes(w)) => ObjectOf(Current(w)) \subseteq objects',
         s = "receipt" => IF Current(w).state = "terminal_published" THEN terminal # None
                          ELSE run[w].at <= Len(ledger) /\ ledger[run[w].at] = Current(w)
  PROVE  IInv'
<1>1. TypeOK /\ ProgramInv(w) /\ StageInv(w) /\ Orderly /\ s \in Stages
  BY DEF IInv, Stages
<1>2. /\ run' \in [Runs -> Programs]
      /\ \A v \in Runs \ {w} : run'[v] = run[v]
      /\ run'[w].stage = s /\ run'[w].listed = FALSE /\ run'[w].seen = 0
      /\ run'[w].at = run[w].at /\ run'[w].source = run[w].source
      /\ run'[w].created = run[w].created
  BY <1>1, GoToFacts
<1>3. ~run[w].created
  BY <1>1 DEF ProgramInv
<1>4. Busy(w) /\ Busy(w)' /\ Works(w)' /\ Active(w)
  BY <1>2 DEF Busy, Works, Active
<1>5. /\ Current(w)' = Current(w) /\ Result(w)' = Result(w)
      /\ ObjectOf(Current(w))' = ObjectOf(Current(w)) /\ Closes(w)' = Closes(w)
  BY <1>2, CurrentSame
<1>6. ProgramInv(w)'
  BY <1>1, <1>2, <1>3, <1>4, <1>5 DEF ProgramInv
<1>7. StageInv(w)'
  BY <1>1, <1>2, <1>4, <1>5, LedgerType DEF StageInv
<1>8. Orderly'
  BY <1>1, <1>2, <1>4, OrderlyMoves
<1>9. QED
  BY <1>2, <1>3, <1>6, <1>7, <1>8, RunMoves

----------------------------------------------------------------------------
\* The steps, one by one

\* The order of an operation's steps, by the state of its event.
LEMMA AfterFacts ==
  ASSUME NEW w
  PROVE  /\ Current(w).state \in {"prepared", "started"} => After(w, "verify") = "append"
         /\ Current(w).state \in {"attempt_recorded", "closeout_pending", "terminal_published"} =>
              After(w, "verify") = "object"
         /\ Current(w).state \in {"response_recorded", "parsed_or_failed"} =>
              After(w, "verify") = "guard" /\ After(w, "guard") = "object"
         /\ Current(w).state \in {"attempt_recorded", "response_recorded", "parsed_or_failed"} =>
              After(w, "object") = "append"
         /\ Current(w).state \in {"closeout_pending", "terminal_published"} =>
              After(w, "object") = "guard" /\ After(w, "guard") = "append"
  BY DEF After, Route

\* Which events have objects.
LEMMA ObjectFacts ==
  ASSUME NEW e \in Abstract!Events
  PROVE  /\ e.state \in {"prepared", "started"} => ObjectOf(e) = {}
         /\ e.state \notin {"prepared", "started"} =>
              ObjectOf(e) \subseteq [state : {"attempt_recorded", "response_recorded", "result"},
                                     run : Runs, ordinal : 0..MaxAttempts]
<1>1. CASE e.state \in {"prepared", "started"}
  BY <1>1 DEF ObjectOf
<1>2. CASE e \in {Abstract!Event("attempt_recorded", r, i) : r \in Runs, i \in 1..MaxAttempts}
  <2>1. PICK r \in Runs, i \in 1..MaxAttempts : e = Abstract!Event("attempt_recorded", r, i)
    BY <1>2
  <2>2. QED
    BY <2>1, AttemptAssumption DEF ObjectOf, Abstract!Event
<1>3. CASE e \in {Abstract!Event(s, r, 0) : s \in Abstract!LateStates, r \in Runs}
  <2>1. PICK s \in Abstract!LateStates, r \in Runs : e = Abstract!Event(s, r, 0)
    BY <1>3
  <2>2. QED
    BY <2>1, AttemptAssumption DEF ObjectOf, Event, Abstract!Event, Abstract!LateStates
<1>4. QED
  BY <1>1, <1>2, <1>3, OpeningStates DEF Abstract!Events

\* _checked_request
LEMMA VerifyKeeps ==
  ASSUME IInv, NEW w \in Runs, Verify(w)
  PROVE  IInv'
<1>1. TypeOK /\ ProgramInv(w) /\ StageInv(w) /\ orderly \in BOOLEAN
  BY DEF IInv, TypeOK
<1>2. UNCHANGED <<dir, objects, ledger, terminal, gained, counted, orderly>>
  BY DEF Verify, diskVars
<1>3. CASE ~Sound
  BY <1>1, <1>2, <1>3, RaiseKeeps DEF Verify, Outcomes, Errors
<1>4. CASE Sound
  <2> DEFINE s == After(w, "verify")
  <2>1. Works(w) /\ GoTo(w, s) /\ run[w].stage # "receipt"
    BY <1>4 DEF Verify, At, Works, Busy
  <2>2. Current(w).state \in {"prepared", "started", "attempt_recorded"} \cup Abstract!LateStates
        /\ Current(w) \in Abstract!Events
    BY <1>1, <2>1, CurrentState, CurrentIs
  <2>3. /\ s \in {"guard", "object", "append"}
        /\ s = "append" => Current(w).state \in {"prepared", "started"}
        /\ s = "object" => Current(w).state \notin {"prepared", "started"}
        /\ s = "guard" => Current(w).state \in {"response_recorded", "parsed_or_failed"}
    BY <2>2, AfterFacts DEF Abstract!LateStates
  <2>4. s \in Stages
    BY <2>3 DEF Stages
  <2>5. TypeOK'
    BY <1>1, <1>2, <2>1, <2>4, GoToFacts, TypeKept
  <2>6. s = "append" \/ (s = "guard" /\ Closes(w)) => ObjectOf(Current(w)) \subseteq objects'
    BY <2>2, <2>3, ObjectFacts DEF Closes
  <2> HIDE DEF s
  <2>7. QED
    BY <1>2, <2>1, <2>3, <2>5, <2>6, GoToKeeps DEF Abstract!LateStates
<1>5. QED
  BY <1>3, <1>4

\* The guards of an operation.
LEMMA GuardKeeps ==
  ASSUME IInv, NEW w \in Runs, Guard(w)
  PROVE  IInv'
<1>1. TypeOK /\ ProgramInv(w) /\ StageInv(w) /\ orderly \in BOOLEAN
  BY DEF IInv, TypeOK
<1>2. UNCHANGED <<dir, objects, ledger, terminal, gained, counted, orderly>>
  BY DEF Guard, diskVars
<1>3. GuardError(Entries(w), Current(w)) \in {"none", "invalid_transition", "replay_rejected"}
  BY DEF GuardError
<1>4. CASE Raise(w, "integrity_error") \/ Raise(w, "invalid_transition")
             \/ Raise(w, "replay_rejected")
  BY <1>1, <1>2, <1>4, RaiseKeeps DEF Outcomes, Errors
<1>5. CASE GoTo(w, After(w, "guard"))
  <2> DEFINE s == After(w, "guard")
  <2>1. Works(w) /\ GoTo(w, s) /\ run[w].stage = "guard"
    BY <1>5 DEF Guard, Listed, At, Works, Busy
  <2>2. Current(w).state \in Abstract!LateStates
    BY <1>1, <2>1 DEF StageInv
  <2>3. /\ s \in {"object", "append"}
        /\ s = "append" => Closes(w)
        /\ s = "object" => Current(w).state \notin {"prepared", "started"}
    BY <2>2, AfterFacts DEF Abstract!LateStates, Closes
  <2>4. s \in Stages
    BY <2>3 DEF Stages
  <2>5. TypeOK'
    BY <1>1, <1>2, <2>1, <2>4, GoToFacts, TypeKept
  <2>6. s = "append" => ObjectOf(Current(w)) \subseteq objects'
    BY <1>1, <1>2, <2>1, <2>3 DEF StageInv
  <2> HIDE DEF s
  <2>7. QED
    BY <1>2, <2>1, <2>3, <2>5, <2>6, GoToKeeps
<1>6. QED
  BY <1>3, <1>4, <1>5 DEF Guard

\* An object is written before the event that refers to it.
LEMMA PutObjectKeeps ==
  ASSUME IInv, NEW w \in Runs, PutObject(w)
  PROVE  IInv'
<1>1. TypeOK /\ ProgramInv(w) /\ StageInv(w)
  BY DEF IInv
<1>2. /\ UNCHANGED <<dir, ledger, terminal, gained, counted, orderly>>
      /\ objects' = objects \cup ObjectOf(Current(w)) /\ run[w].stage = "object"
  BY DEF PutObject, At
<1> DEFINE s == After(w, "object")
<1>3. Works(w) /\ GoTo(w, s)
  BY <1>2 DEF PutObject, Works, Busy
<1>4. /\ Current(w).state \in {"attempt_recorded"} \cup Abstract!LateStates
      /\ Current(w) \in Abstract!Events
  BY <1>1, <1>2, <1>3, CurrentState, CurrentIs DEF StageInv
<1>5. /\ s \in {"guard", "append"}
      /\ s = "guard" => Current(w).state \in Abstract!LateStates
  BY <1>4, AfterFacts DEF Abstract!LateStates
<1>6. s \in Stages
  BY <1>5 DEF Stages
<1>7. run' \in [Runs -> Programs]
  BY <1>1, <1>3, <1>6, GoToFacts
<1>8. ObjectOf(Current(w)) \subseteq [state : {"attempt_recorded", "response_recorded", "result"},
                                      run : Runs, ordinal : 0..MaxAttempts]
  BY <1>4, ObjectFacts DEF Abstract!LateStates
<1>9. TypeOK'
  BY <1>1, <1>2, <1>7, <1>8 DEF TypeOK
<1> HIDE DEF s
<1>10. QED
  BY <1>2, <1>3, <1>5, <1>9, GoToKeeps

\* The terminal index holds a terminal event.
LEMMA TerminalState ==
  ASSUME TypeOK, LedgerInv, terminal # None
  PROVE  terminal.event.state = "terminal_published"
<1>1. PICK r \in Runs : /\ Holds(r)
                        /\ terminal = [event |-> Nth(gained[r], r, Width(gained[r])),
                                       sequence |-> Width(gained[r])]
  BY DEF LedgerInv
<1>2. gained[r] \in GatewayResults
  BY <1>1, ResultType DEF Holds
<1>3. /\ Width(gained[r]) \in 1..Width(gained[r])
      /\ Before(gained[r]) \in Nat /\ Width(gained[r]) = Before(gained[r]) + 3
      /\ gained[r].attempts \in Nat /\ Before(gained[r]) >= gained[r].attempts + 2
  BY <1>2, NthFacts
<1>4. Nth(gained[r], r, Width(gained[r])).state = "terminal_published"
  BY <1>2, <1>3, NthStates
<1>5. QED
  BY <1>1, <1>4

\* What is found recorded stands at its place.
LEMMA RecordedPlace ==
  ASSUME TypeOK, LedgerInv, NEW w \in Runs, ProgramInv(w), Works(w),
         run[w].seen <= Len(ledger), Recorded(w)
  PROVE  IF Current(w).state = "terminal_published" THEN terminal # None
         ELSE run[w].at <= Len(ledger) /\ ledger[run[w].at] = Current(w)
<1>1. /\ Len(ledger) \in Nat /\ run[w].at \in Nat \ {0} /\ run[w].seen \in Nat
      /\ run[w].source \in Runs
  BY LedgerType, RunType
<1>2. CASE terminal # None /\ Current(w) = terminal.event
  BY <1>2, TerminalState
<1>3. CASE Current(w) \in ToSet(Entries(w))
  <2>1. PICK k \in 1..run[w].seen : Entries(w)[k] = Current(w)
    BY <1>3, EntriesAre DEF ToSet
  <2>2. k \in 1..Len(ledger) /\ ledger[k] = Current(w)
    BY <2>1, <1>1, EntriesAre
  <2>3. k = run[w].at
    BY <2>2, InLedger
  <2>4. Current(w).state # "terminal_published"
    <3>1. SUFFICES ASSUME Current(w).state = "terminal_published" PROVE FALSE
      OBVIOUS
    <3>2. Result(w) # None /\ run[w].at = Width(Result(w))
      BY <3>1, CurrentState
    <3>3. Result(w) \in GatewayResults
      BY <3>2, <1>1, ResultType DEF Result
    <3>4. run[w].at >= 4
      BY <3>2, <3>3, NthFacts
    <3>5. Len(ledger) < Width(Result(w))
      BY <3>4, HoldsOwn DEF Holds, Result
    <3>6. QED
      BY <1>1, <2>2, <2>3, <3>2, <3>5
  <2>5. QED
    BY <1>1, <2>2, <2>3, <2>4
<1>4. QED
  BY <1>2, <1>3 DEF Recorded

\* After a conflict the event is found, or the run stops.
LEMMA LookAgainKeeps ==
  ASSUME IInv, NEW w \in Runs, LookAgain(w)
  PROVE  IInv'
<1>1. /\ TypeOK /\ LedgerInv /\ ProgramInv(w) /\ StageInv(w) /\ orderly \in BOOLEAN
      /\ run[w].seen <= Len(ledger)
  BY DEF IInv, TypeOK, StageInv
<1>2. UNCHANGED <<dir, objects, ledger, terminal, gained, counted, orderly>>
  BY DEF LookAgain, diskVars
<1>3. CASE Raise(w, "integrity_error") \/ Raise(w, "conflict")
  BY <1>1, <1>2, <1>3, RaiseKeeps DEF Outcomes, Errors
<1>4. CASE Recorded(w) /\ GoTo(w, "receipt")
  <2>1. Works(w) /\ run[w].stage = "again"
    BY DEF LookAgain, Listed, At, Works, Busy
  <2>2. TypeOK'
    BY <1>1, <1>2, <1>4, GoToFacts, TypeKept DEF Stages
  <2>3. IF Current(w).state = "terminal_published" THEN terminal # None
        ELSE run[w].at <= Len(ledger) /\ ledger[run[w].at] = Current(w)
    BY <1>1, <1>4, <2>1, RecordedPlace
  <2>4. QED
    BY <1>2, <1>4, <2>1, <2>2, <2>3, GoToKeeps
<1>5. QED
  BY <1>3, <1>4 DEF LookAgain

\* A new event is checked against a listing that ends right before its place.
LEMMA AppendEventKeeps ==
  ASSUME IInv, NEW w \in Runs, AppendEvent(w)
  PROVE  IInv'
<1>1. /\ TypeOK /\ LedgerInv /\ ProgramInv(w) /\ StageInv(w) /\ Orderly /\ orderly \in BOOLEAN
      /\ run[w].seen <= Len(ledger)
  BY DEF IInv, TypeOK, StageInv
<1>2. UNCHANGED <<dir, objects, ledger, terminal, gained, counted, orderly>>
  BY DEF AppendEvent, diskVars
<1>3. Works(w) /\ Busy(w) /\ Active(w) /\ run[w].stage = "append" /\ run[w].listed
  BY DEF AppendEvent, Listed, At, Works, Busy, Active
<1>4. CASE \E o \in {"integrity_error", "replay_rejected", "invalid_transition"} : Raise(w, o)
  BY <1>1, <1>2, <1>4, RaiseKeeps DEF Outcomes, Errors
<1>5. CASE Recorded(w) /\ GoTo(w, "receipt")
  <2>1. TypeOK'
    BY <1>1, <1>2, <1>5, GoToFacts, TypeKept DEF Stages
  <2>2. IF Current(w).state = "terminal_published" THEN terminal # None
        ELSE run[w].at <= Len(ledger) /\ ledger[run[w].at] = Current(w)
    BY <1>1, <1>3, <1>5, RecordedPlace
  <2>3. QED
    BY <1>2, <1>3, <1>5, <2>1, <2>2, GoToKeeps
<1>6. ASSUME ~Recorded(w), TransitionError(Entries(w), Current(w)) = "none",
             NEW next \in {"mkdir", "publish"},
             run' = [run EXCEPT ![w].stage = next, ![w].listed = FALSE]
      PROVE  IInv'
  <2>1. run[w].seen = run[w].at - 1
    BY <1>1, <1>3, <1>6, NextInLine
  <2>2. /\ run' \in [Runs -> Programs]
        /\ \A v \in Runs \ {w} : run'[v] = run[v]
        /\ run'[w].stage = next /\ run'[w].listed = FALSE /\ run'[w].seen = run[w].seen
        /\ run'[w].at = run[w].at /\ run'[w].source = run[w].source
        /\ run'[w].created = run[w].created
    <3> DEFINE q == run[w]
               p == [q EXCEPT !.stage = next, !.listed = FALSE]
    <3>1. run \in [Runs -> Programs] /\ q \in Programs /\ next \in Stages
      BY <1>1 DEF TypeOK, Stages
    <3>2. run' = [run EXCEPT ![w] = p]
      BY <1>6, <3>1
    <3> HIDE DEF q
    <3>3. /\ p \in Programs
          /\ p.stage = next /\ p.listed = FALSE /\ p.seen = q.seen /\ p.at = q.at
          /\ p.source = q.source /\ p.created = q.created
      BY <3>1 DEF Programs
    <3> HIDE DEF p
    <3>4. QED
      BY <3>1, <3>2, <3>3 DEF q
  <2>3. TypeOK'
    BY <1>1, <1>2, <2>2, TypeKept
  <2>4. ~run[w].created
    BY <1>1, <1>3 DEF ProgramInv
  <2>5. Busy(w)' /\ Works(w)'
    BY <2>2 DEF Busy, Works
  <2>6. /\ Current(w)' = Current(w) /\ Result(w)' = Result(w)
        /\ ObjectOf(Current(w))' = ObjectOf(Current(w)) /\ Closes(w)' = Closes(w)
    BY <1>2, <2>2, CurrentSame
  <2>7. ProgramInv(w)'
    BY <1>1, <1>2, <1>3, <2>2, <2>4, <2>5, <2>6 DEF ProgramInv
  <2>8. StageInv(w)'
    BY <1>1, <1>2, <1>3, <2>1, <2>2, <2>5, <2>6 DEF StageInv
  <2>9. Orderly'
    BY <1>1, <1>2, <1>3, <2>2, OrderlyMoves
  <2>10. QED
    BY <1>2, <2>2, <2>3, <2>4, <2>7, <2>8, <2>9, RunMoves
<1>7. TransitionError(Entries(w), Current(w)) \in {"none", "invalid_transition", "replay_rejected"}
  BY DEF TransitionError
<1>8. QED
  BY <1>4, <1>5, <1>6, <1>7 DEF AppendEvent

\* A listing.
LEMMA ListKeeps ==
  ASSUME IInv, NEW w \in Runs, List(w)
  PROVE  IInv'
<1>1. /\ TypeOK /\ LedgerInv /\ ProgramInv(w) /\ StageInv(w) /\ Orderly /\ orderly \in BOOLEAN
      /\ Len(ledger) \in Nat /\ Len(ledger) <= MaxAttempts + 5
  BY LedgerType, LedgerWidth DEF IInv, TypeOK
<1>2. UNCHANGED <<dir, objects, ledger, terminal, gained, counted, orderly>>
  BY DEF List, diskVars
<1>3. run[w].stage \in {"check", "guard", "append", "again"}
  BY DEF List
<1>4. /\ run' \in [Runs -> Programs]
      /\ \A v \in Runs \ {w} : run'[v] = run[v]
      /\ run'[w].stage = run[w].stage /\ run'[w].listed = TRUE /\ run'[w].seen = Len(ledger)
      /\ run'[w].at = run[w].at /\ run'[w].source = run[w].source
      /\ run'[w].created = run[w].created
  <2> DEFINE q == run[w]
             n == Len(ledger)
             p == [q EXCEPT !.listed = TRUE, !.seen = n]
  <2>1. run \in [Runs -> Programs] /\ q \in Programs /\ n \in 0..(MaxAttempts + 5)
    BY <1>1, AttemptAssumption DEF TypeOK
  <2>2. run' = [run EXCEPT ![w] = p]
    BY <2>1 DEF List
  <2> HIDE DEF q, n
  <2>3. /\ p \in Programs
        /\ p.stage = q.stage /\ p.listed = TRUE /\ p.seen = n /\ p.at = q.at
        /\ p.source = q.source /\ p.created = q.created
    BY <2>1 DEF Programs
  <2> HIDE DEF p
  <2>4. QED
    BY <2>1, <2>2, <2>3 DEF q, n
<1>5. TypeOK'
  BY <1>1, <1>2, <1>4, TypeKept
<1>6. /\ Busy(w)' <=> Busy(w)
      /\ Works(w)' <=> Works(w)
      /\ Active(w)' <=> Active(w)
  BY <1>4 DEF Busy, Works, Active
<1>7. /\ Current(w)' = Current(w) /\ Result(w)' = Result(w)
      /\ ObjectOf(Current(w))' = ObjectOf(Current(w)) /\ Closes(w)' = Closes(w)
  BY <1>2, <1>4, CurrentSame
<1>8. ProgramInv(w)'
  BY <1>1, <1>2, <1>3, <1>4, <1>6, <1>7 DEF ProgramInv
<1>9. StageInv(w)'
  BY <1>1, <1>2, <1>3, <1>4, <1>6, <1>7 DEF StageInv, ProgramInv
<1>10. Orderly'
  BY <1>1, <1>2, <1>4, <1>6, OrderlyMoves
<1>11. ~run'[w].created
  BY <1>1, <1>3, <1>4 DEF ProgramInv
<1>12. QED
  BY <1>2, <1>4, <1>5, <1>8, <1>9, <1>10, <1>11, RunMoves

\* The directories of the request.
LEMMA MakeDirectoryKeeps ==
  ASSUME IInv, NEW w \in Runs, MakeDirectory(w)
  PROVE  IInv'
<1>1. /\ TypeOK /\ ProgramInv(w) /\ StageInv(w) /\ Orderly
  BY DEF IInv
<1>2. UNCHANGED <<objects, ledger, terminal, gained, counted, orderly>>
      /\ run[w].stage = "mkdir" /\ dir' \in {"request", "ledger"}
  BY DEF MakeDirectory, At
<1>3. /\ run' \in [Runs -> Programs]
      /\ \A v \in Runs \ {w} : run'[v] = run[v]
      /\ run'[w].stage \in {"mkdir", "publish"} /\ run'[w].listed = run[w].listed
      /\ run'[w].seen = run[w].seen /\ run'[w].at = run[w].at
      /\ run'[w].source = run[w].source /\ run'[w].created = run[w].created
  <2> DEFINE q == run[w]
             p == [q EXCEPT !.stage = "publish"]
  <2>1. run \in [Runs -> Programs] /\ q \in Programs /\ "publish" \in Stages
    BY <1>1 DEF TypeOK, Stages
  <2>2. run' = [run EXCEPT ![w] = p] \/ run' = run
    BY <2>1 DEF MakeDirectory
  <2> HIDE DEF q
  <2>3. /\ p \in Programs
        /\ p.stage = "publish" /\ p.listed = q.listed /\ p.seen = q.seen /\ p.at = q.at
        /\ p.source = q.source /\ p.created = q.created
    BY <2>1 DEF Programs
  <2> HIDE DEF p
  <2>4. CASE run' = run
    BY <1>2, <2>1, <2>4
  <2>5. CASE run' = [run EXCEPT ![w] = p]
    BY <2>1, <2>3, <2>5 DEF q
  <2>6. QED
    BY <2>2, <2>4, <2>5
<1>4. TypeOK'
  BY <1>1, <1>2, <1>3 DEF TypeOK
<1>5. Busy(w) /\ Works(w) /\ Active(w) /\ Busy(w)' /\ Works(w)' /\ Active(w)'
  BY <1>2, <1>3 DEF Busy, Works, Active
<1>6. /\ Current(w)' = Current(w) /\ Result(w)' = Result(w)
      /\ ObjectOf(Current(w))' = ObjectOf(Current(w)) /\ Closes(w)' = Closes(w)
  BY <1>2, <1>3, CurrentSame
<1>7. ~run[w].listed /\ ~run[w].created
  BY <1>1, <1>2 DEF ProgramInv
<1>8. ProgramInv(w)'
  BY <1>1, <1>2, <1>3, <1>5, <1>6, <1>7 DEF ProgramInv
<1>9. StageInv(w)'
  BY <1>1, <1>2, <1>3, <1>5, <1>6, <1>7 DEF StageInv
<1>10. Orderly'
  BY <1>1, <1>2, <1>3, <1>5, OrderlyMoves
<1>11. QED
  BY <1>2, <1>3, <1>4, <1>7, <1>8, <1>9, <1>10, RunMoves

\* A run that dies leaves the disk as it is.
LEMMA CrashKeeps ==
  ASSUME IInv, NEW w \in Runs, Crash(w)
  PROVE  IInv'
  BY RaiseKeeps DEF Crash, Outcomes, diskVars, IInv, TypeOK

\* An orderly run starts only over an empty ledger, where nobody has a result.
LEMMA CheckStateKeeps ==
  ASSUME IInv, NEW w \in Runs, CheckState(w)
  PROVE  IInv'
<1>1. /\ TypeOK /\ ProgramInv(w) /\ StageInv(w) /\ Orderly /\ orderly \in BOOLEAN
      /\ Len(ledger) \in Nat
      /\ \A v \in Runs : ProgramInv(v)
  BY LedgerType DEF IInv, TypeOK
<1>2. UNCHANGED <<dir, objects, ledger, terminal, gained, counted, orderly>>
  BY DEF CheckState, diskVars
<1>3. run[w].stage = "check" /\ run[w].listed
  BY DEF CheckState, Listed, At
<1>4. CASE \E o \in {"integrity_error", "skipped", "refused"} : Raise(w, o)
  BY <1>1, <1>2, <1>4, RaiseKeeps DEF Outcomes, Errors
<1>5. CASE MayStart(w) /\ GoTo(w, "verify")
  <2>1. /\ run' \in [Runs -> Programs]
        /\ \A v \in Runs \ {w} : run'[v] = run[v]
        /\ run'[w].stage = "verify" /\ run'[w].listed = FALSE /\ run'[w].seen = 0
        /\ run'[w].at = run[w].at /\ run'[w].source = run[w].source
        /\ run'[w].created = run[w].created
    BY <1>1, <1>5, GoToFacts DEF Stages
  <2>2. TypeOK'
    BY <1>1, <1>2, <2>1, TypeKept
  <2>3. run[w].at = 1 /\ run[w].source = w /\ gained[w] = None /\ ~run[w].created
    BY <1>1, <1>3 DEF ProgramInv
  <2>4. ProgramInv(w)'
    BY <1>1, <1>2, <2>1, <2>3 DEF ProgramInv, Result, Busy, Works
  <2>5. StageInv(w)'
    BY <1>1, <1>2, <2>1 DEF StageInv, Busy
  <2>6. Orderly'
    <3>1. SUFFICES ASSUME orderly PROVE Orderly'
      BY <1>2 DEF Orderly
    <3>2. run[w].seen = 0
      BY <1>1, <1>5, RunType, EntriesAre DEF MayStart, StageInv
    <3>3. Len(ledger) = 0
      BY <1>1, <1>3, <3>1, <3>2 DEF Orderly
    <3>4. \A v \in Runs : gained[v] = None
      BY <1>1, <3>3 DEF ProgramInv
    <3>5. /\ \A v \in Runs : Active(v)' => Active(v)
          /\ \A v \in Runs : Busy(v)' => run'[v].source = v
          /\ \A v \in Runs : run'[v].stage = "check" => run'[v] = run[v]
      BY <1>1, <1>3, <2>1, <2>3, <3>1 DEF Orderly, Active, Busy
    <3>6. QED
      BY <1>1, <1>2, <3>1, <3>4, <3>5 DEF Orderly
  <2>7. QED
    BY <1>2, <2>1, <2>2, <2>3, <2>4, <2>5, <2>6, RunMoves
<1>6. QED
  BY <1>4, <1>5 DEF CheckState

\* A run begins with nothing of its own.
LEMMA BeginKeeps ==
  ASSUME IInv, NEW w \in Runs, Begin(w)
  PROVE  IInv'
<1>1. /\ TypeOK /\ LedgerInv /\ ProgramInv(w) /\ StageInv(w) /\ Orderly /\ orderly \in BOOLEAN
      /\ Len(ledger) \in Nat
  BY LedgerType DEF IInv, TypeOK
<1>2. UNCHANGED <<dir, objects, ledger, terminal, gained, counted>> /\ run[w].stage = "idle"
  BY DEF Begin, diskVars, At
<1>3. PICK checked \in Checked :
        /\ orderly' = (orderly /\ checked /\ NoneAtWork)
        /\ IF ~Sound THEN Raise(w, "integrity_error")
           ELSE IF checked THEN GoTo(w, "check")
           ELSE \E r \in {w} \cup {x \in Runs : gained[x] # None} :
                  run' = [run EXCEPT ![w].stage = "verify", ![w].source = r]
  BY DEF Begin
<1>4. orderly' \in BOOLEAN /\ (orderly' => orderly /\ checked /\ NoneAtWork)
  BY <1>3
<1>5. run[w].at = 1 /\ run[w].source = w /\ gained[w] = None /\ ~run[w].created /\ ~run[w].listed
  BY <1>1, <1>2 DEF ProgramInv
<1>6. CASE ~Sound
  BY <1>1, <1>2, <1>3, <1>4, <1>6, RaiseKeeps DEF Outcomes, Errors
<1>7. ASSUME NEW s \in {"check", "verify"}, NEW r \in Runs,
             run' \in [Runs -> Programs],
             \A v \in Runs \ {w} : run'[v] = run[v],
             run'[w].stage = s, run'[w].listed = FALSE,
             run'[w].seen = run[w].seen \/ run'[w].seen = 0,
             run'[w].at = 1, run'[w].source = r, ~run'[w].created,
             gained[r] = None => r = w, s = "check" => r = w, s = "verify" => ~checked
      PROVE  IInv'
  <2>1. TypeOK'
    BY <1>1, <1>2, <1>4, <1>7, TypeKept
  <2>2. gained[r] = None \/ Width(gained[r]) >= 1
    BY <1>1, ResultType, NthFacts
  <2>3. ProgramInv(w)'
    BY <1>1, <1>2, <1>5, <1>7, <2>2 DEF ProgramInv, Result, Busy, Works
  <2>4. StageInv(w)'
    BY <1>1, <1>2, <1>7 DEF StageInv, Busy
  <2>5. Orderly'
    <3>1. SUFFICES ASSUME orderly' PROVE Orderly'
      BY DEF Orderly
    <3>2. s = "check" /\ orderly /\ \A v \in Runs : run[v].stage \in {"idle", "ended"}
      BY <1>4, <1>7, <3>1 DEF NoneAtWork
    <3>3. \A v \in Runs : (Active(v)' => v = w) /\ ~Busy(v)'
      BY <1>7, <3>2 DEF Active, Busy
    <3>4. \A v \in Runs : ~(run'[v].stage = "check" /\ run'[v].listed)
      BY <1>7, <3>2
    <3>5. QED
      BY <1>1, <1>2, <3>2, <3>3, <3>4 DEF Orderly
  <2>6. QED
    BY <1>2, <1>7, <2>1, <2>3, <2>4, <2>5, RunMoves
<1>8. CASE Sound /\ checked
  <2>1. GoTo(w, "check") /\ "check" \in Stages
    BY <1>3, <1>8 DEF Stages
  <2>2. QED
    BY <1>1, <1>5, <2>1, <1>7, GoToFacts
<1>9. CASE Sound /\ ~checked
  <2>1. PICK r \in {w} \cup {x \in Runs : gained[x] # None} :
          run' = [run EXCEPT ![w].stage = "verify", ![w].source = r]
    BY <1>3, <1>9
  <2> DEFINE q == run[w]
             p == [q EXCEPT !.stage = "verify", !.source = r]
  <2>2. run \in [Runs -> Programs] /\ q \in Programs /\ "verify" \in Stages /\ r \in Runs
    BY <1>1 DEF TypeOK, Stages
  <2>3. run' = [run EXCEPT ![w] = p]
    BY <2>1, <2>2
  <2>4. q.at = 1 /\ ~q.created /\ ~q.listed /\ q.listed \in BOOLEAN /\ q.seen = run[w].seen
    BY <1>1, <1>5, RunType
  <2> HIDE DEF q
  <2>5. /\ p \in Programs
        /\ p.stage = "verify" /\ p.listed = q.listed /\ p.seen = q.seen /\ p.at = q.at
        /\ p.source = r /\ p.created = q.created
    BY <2>2 DEF Programs
  <2> HIDE DEF p
  <2>6. /\ run' \in [Runs -> Programs]
        /\ \A v \in Runs \ {w} : run'[v] = run[v]
        /\ run'[w] = p
    BY <2>2, <2>3, <2>5
  <2>7. QED
    BY <1>7, <1>9, <2>1, <2>2, <2>4, <2>5, <2>6
<1>10. QED
  BY <1>6, <1>8, <1>9

\* The result of the provider's call never changes after.
LEMMA ExecuteKeeps ==
  ASSUME IInv, NEW w \in Runs, Execute(w)
  PROVE  IInv'
<1>1. /\ TypeOK /\ LedgerInv /\ ObjectsInv /\ Claims /\ Orderly
      /\ \A v \in Runs : ProgramInv(v) /\ StageInv(v)
      /\ Len(ledger) \in Nat
  BY LedgerType DEF IInv
<1>2. /\ UNCHANGED <<dir, objects, ledger, terminal, counted, orderly>>
      /\ run[w].stage = "execute" /\ GoTo(w, "verify")
  BY DEF Execute, diskVars, At
<1>3. PICK g \in GatewayResults : gained' = [gained EXCEPT ![w] = g]
  BY DEF Execute
<1>4. /\ run' \in [Runs -> Programs]
      /\ \A v \in Runs \ {w} : run'[v] = run[v]
      /\ run'[w].stage = "verify" /\ run'[w].listed = FALSE /\ run'[w].seen = 0
      /\ run'[w].at = run[w].at /\ run'[w].source = run[w].source
      /\ run'[w].created = run[w].created
  BY <1>1, <1>2, GoToFacts DEF Stages
<1>5. /\ gained' \in [Runs -> GatewayResults \cup {None}] /\ gained'[w] = g /\ g # None
      /\ \A r \in Runs \ {w} : gained'[r] = gained[r]
  BY <1>1, <1>3, AttemptAssumption DEF TypeOK, GatewayResults
<1>6. TypeOK'
  BY <1>1, <1>2, <1>4, <1>5 DEF TypeOK, GatewayResults
<1>7. /\ run[w].at = 3 /\ run[w].source = w /\ gained[w] = None /\ ~run[w].created
      /\ Busy(w) /\ Active(w) /\ Len(ledger) >= 2
      /\ \A j \in 1..2 : ledger[j] = Nth(gained[w], w, j)
  BY <1>1, <1>2 DEF ProgramInv, Busy, Active, Result
<1>8. \A r \in Runs : gained[r] # None => gained'[r] = gained[r]
  BY <1>5, <1>7
<1>9. Grows
  BY <1>1, <1>2 DEF Grows
<1>10. ASSUME NEW v \in Runs
       PROVE  ProgramInv(v)' /\ StageInv(v)'
  <2>1. CASE v # w
    <3>1. run'[v] = run[v] /\ gained'[v] = gained[v]
      BY <2>1, <1>4, <1>5
    <3>2. run[v].source \in Runs /\ (gained[run[v].source] = None => run[v].source = v)
      BY <1>1, RunType DEF ProgramInv, Result
    <3>3. gained'[run[v].source] = gained[run[v].source]
      BY <2>1, <3>2, <1>5, <1>8
    <3>4. QED
      BY <1>1, <1>6, <1>9, <3>1, <3>3, Unmoved
  <2>2. CASE v = w
    <3>1. Width(g) >= 3
      BY NthFacts
    <3>2. \A j \in 1..2 : ledger[j] = Nth(g, w, j)
      BY <1>7, NthOpening
    <3>3. ProgramInv(w)'
      BY <1>2, <1>4, <1>5, <1>7, <3>1, <3>2 DEF ProgramInv, Result, Busy, Works
    <3>4. StageInv(w)'
      BY <1>1, <1>2, <1>4 DEF StageInv
    <3>5. QED
      BY <2>2, <3>3, <3>4
  <2>3. QED
    BY <2>1, <2>2
<1>11. LedgerInv'
  <2>1. \A r \in Runs : Holds(r) => Holds(r)' /\ gained'[r] = gained[r]
    BY <1>2, <1>8 DEF Holds
  <2>2. QED
    BY <1>1, <1>2, <2>1 DEF LedgerInv
<1>12. ObjectsInv'
  BY <1>1, <1>2 DEF ObjectsInv
<1>13. Claims'
  <2>1. ASSUME NEW v \in Runs, run'[v].created
        PROVE  run[v].created /\ Current(v)' = Current(v)
    <3>1. v # w /\ run'[v] = run[v]
      BY <2>1, <1>4, <1>7
    <3>2. run[v].source \in Runs /\ (gained[run[v].source] = None => run[v].source = v)
      BY <1>1, RunType DEF ProgramInv, Result
    <3>3. gained'[run[v].source] = gained[run[v].source]
      BY <3>1, <3>2, <1>5, <1>8
    <3>4. QED
      BY <2>1, <3>1, <3>3, CurrentSame
  <2>2. QED
    BY <1>1, <1>2, <2>1 DEF Claims
<1>14. Orderly'
  <2>1. SUFFICES ASSUME orderly PROVE Orderly'
    BY <1>2 DEF Orderly
  <2>2. /\ \A v \in Runs : Active(v)' => Active(v)
        /\ \A v \in Runs : Busy(v)' => Busy(v) /\ run'[v].source = run[v].source
    BY <1>4, <1>7 DEF Active, Busy
  <2>3. \A v \in Runs : Active(v) => v = w
    BY <1>1, <1>7, <2>1 DEF Orderly
  <2>4. \A v \in Runs : gained'[v] # None => v = w
    BY <1>1, <1>5, <1>7, <2>1 DEF Orderly
  <2>5. \A v \in Runs : Busy(v) => Active(v)
    BY DEF Busy, Active
  <2>6. \A v \in Runs : run'[v].stage # "check" \/ ~run'[v].listed
    BY <1>4, <2>3 DEF Active
  <2>7. QED
    BY <1>1, <1>2, <2>1, <2>2, <2>3, <2>4, <2>5, <2>6 DEF Orderly
<1>15. QED
  BY <1>6, <1>10, <1>11, <1>12, <1>13, <1>14 DEF IInv

\* A run that publishes: at its place, and with the ledger's opening or the whole ledger its own.
LEMMA PublishFacts ==
  ASSUME IInv, NEW w \in Runs, run[w].stage = "publish"
  PROVE  /\ Works(w) /\ Busy(w) /\ Active(w) /\ ~run[w].listed /\ ~run[w].created
         /\ run[w].seen = run[w].at - 1 /\ run[w].at \in 1..(MaxAttempts + 6)
         /\ Current(w) \in Abstract!Events
         /\ ObjectOf(Current(w)) \subseteq objects
         /\ \A j \in 1..(run[w].at - 1) : ledger[j] = Nth(Result(w), run[w].source, j)
<1>1. TypeOK /\ ProgramInv(w) /\ StageInv(w) /\ run[w] \in Programs
  BY RunType DEF IInv
<1>2. Works(w) /\ Busy(w) /\ Active(w)
  BY DEF Works, Busy, Active
<1>3. run[w].at \in 1..(MaxAttempts + 6)
  BY <1>1 DEF Programs
<1>4. QED
  BY <1>1, <1>2, <1>3, CurrentIs DEF ProgramInv, StageInv

\* What a run that publishes leaves in its own record.
LEMMA PublishedFacts ==
  ASSUME TypeOK, NEW w \in Runs,
         run' = [run EXCEPT ![w].stage = "receipt", ![w].seen = 0, ![w].created = TRUE]
  PROVE  /\ run' \in [Runs -> Programs]
         /\ \A v \in Runs \ {w} : run'[v] = run[v]
         /\ run'[w].stage = "receipt" /\ run'[w].listed = run[w].listed /\ run'[w].seen = 0
         /\ run'[w].at = run[w].at /\ run'[w].source = run[w].source
         /\ run'[w].created = TRUE
<1> DEFINE q == run[w]
           p == [q EXCEPT !.stage = "receipt", !.seen = 0, !.created = TRUE]
<1>1. run \in [Runs -> Programs] /\ q \in Programs /\ "receipt" \in Stages
      /\ 0 \in 0..(MaxAttempts + 5)
  BY AttemptAssumption DEF TypeOK, Stages
<1>2. run' = [run EXCEPT ![w] = p]
  BY <1>1
<1> HIDE DEF q
<1>3. /\ p \in Programs
      /\ p.stage = "receipt" /\ p.listed = q.listed /\ p.seen = 0 /\ p.at = q.at
      /\ p.source = q.source /\ p.created = TRUE
  BY <1>1 DEF Programs
<1> HIDE DEF p
<1>4. QED
  BY <1>1, <1>2, <1>3 DEF q

\* An entry that takes its number: the ledger grows by the run's event, at its place.
LEMMA EntryKeeps ==
  ASSUME IInv, NEW w \in Runs, run[w].stage = "publish",
         Current(w).state # "terminal_published", TakesNumber(w),
         ledger' = Append(ledger, Current(w)),
         run' = [run EXCEPT ![w].stage = "receipt", ![w].seen = 0, ![w].created = TRUE],
         UNCHANGED <<dir, objects, terminal, gained, counted, orderly>>
  PROVE  IInv' /\ terminal = None
<1>1. /\ TypeOK /\ LedgerInv /\ ObjectsInv /\ Claims /\ Orderly
      /\ \A v \in Runs : ProgramInv(v) /\ StageInv(v)
      /\ Len(ledger) \in Nat /\ ledger \in Seq(Abstract!Events)
      /\ run[w].source \in Runs
  BY LedgerType, RunType DEF IInv, TypeOK
<1>2. /\ Works(w) /\ Busy(w) /\ Active(w) /\ ~run[w].listed /\ ~run[w].created
      /\ run[w].at \in 1..(MaxAttempts + 6) /\ Len(ledger) = run[w].at - 1
      /\ Current(w) \in Abstract!Events
      /\ ObjectOf(Current(w)) \subseteq objects
      /\ \A j \in 1..(run[w].at - 1) : ledger[j] = Nth(Result(w), run[w].source, j)
  BY PublishFacts DEF TakesNumber
<1>3. /\ ledger' \in Seq(Abstract!Events) /\ Len(ledger') = run[w].at
      /\ \A k \in 1..Len(ledger) : ledger'[k] = ledger[k]
      /\ ledger'[run[w].at] = Current(w)
  <2>1. /\ Append(ledger, Current(w)) \in Seq(Abstract!Events)
        /\ Len(Append(ledger, Current(w))) = Len(ledger) + 1
        /\ \A k \in 1..Len(ledger) : Append(ledger, Current(w))[k] = ledger[k]
        /\ Append(ledger, Current(w))[Len(ledger) + 1] = Current(w)
    BY <1>1, <1>2, AppendProperties
  <2>2. Len(ledger) + 1 = run[w].at
    BY <1>2
  <2>3. QED
    BY <2>1, <2>2
<1>4. /\ run' \in [Runs -> Programs]
      /\ \A v \in Runs \ {w} : run'[v] = run[v]
      /\ run'[w].stage = "receipt" /\ run'[w].listed = run[w].listed /\ run'[w].seen = 0
      /\ run'[w].at = run[w].at /\ run'[w].source = run[w].source
      /\ run'[w].created = TRUE
  BY <1>1, PublishedFacts
<1>5. TypeOK'
  BY <1>1, <1>3, <1>4 DEF TypeOK
<1>6. Grows
  BY <1>1, <1>2, <1>3 DEF Grows
<1>7. /\ \A v \in Runs : Current(v)' = Current(v) /\ Result(v)' = Result(v)
      /\ ObjectOf(Current(w))' = ObjectOf(Current(w)) /\ Closes(w)' = Closes(w)
  <2>1. \A v \in Runs : run'[v].at = run[v].at /\ run'[v].source = run[v].source
    BY <1>4
  <2>2. QED
    BY <2>1, CurrentSame
<1>8. Busy(w)' /\ Works(w)' /\ Active(w)'
  BY <1>4 DEF Busy, Works, Active
<1>9. ASSUME NEW v \in Runs
      PROVE  ProgramInv(v)' /\ StageInv(v)'
  <2>1. CASE v # w
    BY <2>1, <1>1, <1>4, <1>5, <1>6, Unmoved
  <2>2. CASE v = w
    <3>1. ProgramInv(w)'
      BY <1>1, <1>2, <1>3, <1>4, <1>7, <1>8 DEF ProgramInv
    <3>2. StageInv(w)'
      BY <1>1, <1>2, <1>3, <1>4, <1>7, <1>8 DEF StageInv
    <3>3. QED
      BY <2>2, <3>1, <3>2
  <2>3. QED
    BY <2>1, <2>2
<1>10. ~(Result(w) # None /\ run[w].at = Width(Result(w)))
  BY <1>1, <1>2, CurrentState
<1>11. run[w].at > 2 => \E r \in Runs : Holds(r)'
  <2>1. SUFFICES ASSUME run[w].at > 2 PROVE \E r \in Runs : Holds(r)'
    OBVIOUS
  <2>2. /\ Result(w) # None /\ Result(w) \in GatewayResults
        /\ run[w].at \in 1..Width(Result(w))
        /\ Current(w) = Nth(Result(w), run[w].source, run[w].at)
    BY <1>1, <1>2, <2>1, CurrentIs
  <2>3. run[w].at < Width(Result(w))
    BY <1>2, <1>10, <2>2, NthFacts
  <2>4. \A k \in 1..Len(ledger') : ledger'[k] = Nth(Result(w), run[w].source, k)
    BY <1>2, <1>3, <2>2
  <2>5. PICK r \in Runs : r = run[w].source
    BY <1>1
  <2>6. gained'[r] = Result(w)
    BY <2>5 DEF Result
  <2>7. Holds(r)'
    BY <1>3, <2>2, <2>3, <2>4, <2>5, <2>6 DEF Holds
  <2>8. QED
    BY <2>7
<1>12. terminal = None
  <2>1. SUFFICES ASSUME terminal # None PROVE FALSE
    OBVIOUS
  <2>2. PICK r \in Runs : Holds(r) /\ Len(ledger) + 1 = Width(gained[r])
    BY <1>1, <2>1 DEF LedgerInv
  <2>3. gained[r] \in GatewayResults
    BY <1>1, <2>2, ResultType DEF Holds
  <2>4. Width(gained[r]) >= 6 /\ run[w].at = Width(gained[r])
    BY <1>2, <2>2, <2>3, NthFacts
  <2>5. Holds(run[w].source) /\ Result(w) \in GatewayResults /\ 3 <= Width(Result(w))
    BY <1>1, <1>2, <2>4, HoldsOwn, CurrentIs, NthFacts
  <2>6. 3 \in 1..Len(ledger) /\ ledger[3] = Nth(gained[run[w].source], run[w].source, 3)
    BY <1>2, <2>4, <2>5 DEF Holds
  <2>7. r = run[w].source
    BY <1>1, <2>2, <2>5, <2>6, LedgerIsOf DEF Holds, Result
  <2>8. QED
    BY <1>10, <2>2, <2>4, <2>7 DEF Result, Holds
<1>13. LedgerInv'
  <2>1. \A k \in 1..Len(ledger') : k <= 2 => ledger'[k] = Abstract!Opening[k]
    <3>1. run[w].at <= 2 => Current(w) = Abstract!Opening[run[w].at]
      BY <1>1, <1>2, CurrentIs
    <3>2. QED
      BY <1>1, <1>2, <1>3, <3>1 DEF LedgerInv
  <2>2. QED
    BY <1>1, <1>3, <1>11, <1>12, <2>1 DEF LedgerInv
<1>14. ObjectsInv'
  BY <1>1, <1>2, <1>3, <1>12 DEF ObjectsInv, ObjectOf
<1>15. \A k \in 1..Len(ledger) : ledger[k] # Current(w)
  BY <1>1, <1>2, InLedger
<1>16. Claims'
  <2>1. \A c \in counted : c.event # Current(w)
    BY <1>1, <1>15 DEF Claims
  <2>2. \A v \in Runs : run[v].created => Current(v) # Current(w)
    <3>1. SUFFICES ASSUME NEW v \in Runs, run[v].created, Current(v) = Current(w) PROVE FALSE
      OBVIOUS
    <3>2. run[v].stage = "receipt"
      BY <1>1, <3>1 DEF ProgramInv
    <3>3. run[v].at <= Len(ledger) /\ ledger[run[v].at] = Current(w) /\ run[v].at \in Nat \ {0}
      BY <1>1, <3>1, <3>2, RunType DEF StageInv
    <3>4. QED
      BY <1>1, <3>3, <1>15
  <2>3. \A v \in Runs : run'[v].created => run[v].created \/ v = w
    BY <1>4
  <2>4. \A c \in counted : c.event.state = "attempt_recorded"
                           /\ \E k \in 1..Len(ledger') : c.event = ledger'[k]
    BY <1>1, <1>2, <1>3 DEF Claims
  <2>5. \A v \in Runs, c \in counted : run'[v].created => c.event # Current(v)'
    BY <1>1, <1>7, <2>1, <2>3 DEF Claims
  <2>6. \A u, v \in Runs : run'[u].created /\ run'[v].created /\ Current(u)' = Current(v)' => u = v
    BY <1>1, <1>7, <2>2, <2>3 DEF Claims
  <2>7. QED
    BY <1>1, <2>4, <2>5, <2>6 DEF Claims
<1>17. Orderly'
  BY <1>1, <1>2, <1>4, <1>8, OrderlyMoves
<1>18. QED
  BY <1>5, <1>9, <1>12, <1>13, <1>14, <1>16, <1>17 DEF IInv

\* An event takes its number, or finds it taken.
LEMMA PublishEntryKeeps ==
  ASSUME IInv, NEW w \in Runs, PublishEntry(w)
  PROVE  IInv'
<1>1. run[w].stage = "publish" /\ TypeOK
  BY DEF PublishEntry, At, IInv
<1>2. CASE TakesNumber(w)
  BY <1>1, <1>2, EntryKeeps DEF PublishEntry
<1>3. CASE ~TakesNumber(w)
  <2>1. /\ GoTo(w, "again")
        /\ UNCHANGED <<dir, objects, ledger, terminal, gained, counted, orderly>>
    BY <1>3 DEF PublishEntry
  <2>2. orderly' \in BOOLEAN
    BY <1>1, <2>1 DEF TypeOK
  <2>3. TypeOK'
    BY <1>1, <2>1, <2>2, GoToFacts, TypeKept DEF Stages
  <2>4. Works(w)
    BY PublishFacts, <1>1
  <2>5. QED
    BY <1>1, <2>1, <2>3, <2>4, GoToKeeps
<1>4. QED
  BY <1>2, <1>3

\* A run that publishes a terminal has recorded all the rest of its chain, and nothing follows.
LEMMA TerminalPlace ==
  ASSUME IInv, NEW w \in Runs, run[w].stage = "publish", Current(w).state = "terminal_published"
  PROVE  /\ Result(w) # None /\ Result(w) \in GatewayResults
         /\ run[w].at = Width(Result(w)) /\ Len(ledger) + 1 = run[w].at
         /\ Current(w) = Nth(Result(w), run[w].source, run[w].at)
         /\ Holds(run[w].source)
<1>1. /\ TypeOK /\ LedgerInv /\ ProgramInv(w)
      /\ Len(ledger) \in Nat /\ run[w].source \in Runs /\ run[w].at \in Nat \ {0}
  BY LedgerType, RunType DEF IInv
<1>2. Works(w) /\ Busy(w)
  BY PublishFacts
<1>3. /\ Result(w) # None /\ Result(w) \in GatewayResults /\ run[w].at = Width(Result(w))
      /\ Current(w) = Nth(Result(w), run[w].source, run[w].at)
  BY <1>1, <1>2, CurrentState, CurrentIs, ResultType DEF Result
<1>4. Width(Result(w)) >= 6
  BY <1>3, NthFacts
<1>5. Holds(run[w].source) /\ Len(ledger) < Width(Result(w))
  BY <1>1, <1>2, <1>3, <1>4, HoldsOwn DEF Holds, Result
<1>6. Len(ledger) + 1 = run[w].at
  BY <1>1, <1>2, <1>3, <1>5 DEF ProgramInv
<1>7. QED
  BY <1>3, <1>5, <1>6

\* A terminal that takes its place: the whole chain of its result is then on disk.
LEMMA TerminalKeeps ==
  ASSUME IInv, NEW w \in Runs, run[w].stage = "publish",
         Current(w).state = "terminal_published", terminal = None,
         terminal' = [event |-> Current(w), sequence |-> run[w].seen + 1],
         run' = [run EXCEPT ![w].stage = "receipt", ![w].seen = 0, ![w].created = TRUE],
         UNCHANGED <<dir, objects, ledger, gained, counted, orderly>>
  PROVE  IInv'
<1>1. /\ TypeOK /\ LedgerInv /\ ObjectsInv /\ Claims /\ Orderly
      /\ \A v \in Runs : ProgramInv(v) /\ StageInv(v)
      /\ Len(ledger) \in Nat /\ run[w].source \in Runs
  BY LedgerType, RunType DEF IInv
<1>2. /\ Works(w) /\ Busy(w) /\ Active(w) /\ ~run[w].listed /\ ~run[w].created
      /\ run[w].at \in 1..(MaxAttempts + 6) /\ run[w].seen = run[w].at - 1
      /\ Current(w) \in Abstract!Events
      /\ ObjectOf(Current(w)) \subseteq objects
  BY PublishFacts
<1>3. terminal' \in [event : Abstract!Events, sequence : Nat \ {0}] /\ terminal' # None
      /\ terminal'.event = Current(w)
  <2>1. run[w].seen + 1 \in Nat \ {0}
    BY <1>2
  <2>2. QED
    BY <1>2, <2>1, AttemptAssumption
<1>4. /\ run' \in [Runs -> Programs]
      /\ \A v \in Runs \ {w} : run'[v] = run[v]
      /\ run'[w].stage = "receipt" /\ run'[w].listed = run[w].listed /\ run'[w].seen = 0
      /\ run'[w].at = run[w].at /\ run'[w].source = run[w].source
      /\ run'[w].created = TRUE
  BY <1>1, PublishedFacts
<1>5. TypeOK'
  BY <1>1, <1>3, <1>4 DEF TypeOK
<1>6. Grows
  BY <1>1 DEF Grows
<1>7. /\ \A v \in Runs : Current(v)' = Current(v) /\ Result(v)' = Result(v)
      /\ ObjectOf(Current(w))' = ObjectOf(Current(w)) /\ Closes(w)' = Closes(w)
  <2>1. \A v \in Runs : run'[v].at = run[v].at /\ run'[v].source = run[v].source
    BY <1>4
  <2>2. QED
    BY <2>1, CurrentSame
<1>8. Busy(w)' /\ Works(w)' /\ Active(w)'
  BY <1>4 DEF Busy, Works, Active
<1>9. ASSUME NEW v \in Runs
      PROVE  ProgramInv(v)' /\ StageInv(v)'
  <2>1. CASE v # w
    BY <2>1, <1>1, <1>4, <1>5, <1>6, Unmoved
  <2>2. CASE v = w
    <3>1. ProgramInv(w)'
      BY <1>1, <1>2, <1>4, <1>7, <1>8 DEF ProgramInv
    <3>2. StageInv(w)'
      BY <1>1, <1>2, <1>3, <1>4, <1>7, <1>8 DEF StageInv
    <3>3. QED
      BY <2>2, <3>1, <3>2
  <2>3. QED
    BY <2>1, <2>2
<1>10. /\ Result(w) # None /\ run[w].at = Width(Result(w)) /\ Len(ledger) + 1 = run[w].at
       /\ Current(w) = Nth(Result(w), run[w].source, run[w].at)
       /\ Holds(run[w].source)
  BY TerminalPlace
<1>11. LedgerInv'
  <2>1. PICK r \in Runs : r = run[w].source
    BY <1>1
  <2>2. Holds(r)' /\ gained'[r] = Result(w)
    BY <1>10, <2>1 DEF Holds, Result
  <2>3. terminal' = [event |-> Nth(gained'[r], r, Width(gained'[r])),
                     sequence |-> Width(gained'[r])]
    BY <1>2, <1>10, <2>1, <2>2
  <2>4. Len(ledger') + 1 = Width(gained'[r])
    BY <1>10, <2>2
  <2>5. QED
    BY <1>1, <2>2, <2>3, <2>4 DEF LedgerInv
<1>12. ObjectsInv'
  BY <1>1, <1>2, <1>3 DEF ObjectsInv, ObjectOf
<1>13. Claims'
  <2>1. \A c \in counted : c.event # Current(w)
    BY <1>1 DEF Claims
  <2>2. \A v \in Runs : run[v].created => Current(v) # Current(w)
    BY <1>1 DEF ProgramInv, StageInv
  <2>3. \A v \in Runs : run'[v].created => run[v].created \/ v = w
    BY <1>4
  <2>4. \A v \in Runs, c \in counted : run'[v].created => c.event # Current(v)'
    BY <1>1, <1>7, <2>1, <2>3 DEF Claims
  <2>5. \A u, v \in Runs : run'[u].created /\ run'[v].created /\ Current(u)' = Current(v)' => u = v
    BY <1>1, <1>7, <2>2, <2>3 DEF Claims
  <2>6. QED
    BY <1>1, <2>4, <2>5 DEF Claims
<1>14. Orderly'
  BY <1>1, <1>2, <1>4, <1>8, OrderlyMoves
<1>15. QED
  BY <1>5, <1>9, <1>11, <1>12, <1>13, <1>14 DEF IInv

\* The terminal takes its place, or finds it taken.
LEMMA PublishTerminalKeeps ==
  ASSUME IInv, NEW w \in Runs, PublishTerminal(w)
  PROVE  IInv'
<1>1. run[w].stage = "publish" /\ TypeOK
  BY DEF PublishTerminal, At, IInv
<1>2. CASE terminal = None
  BY <1>1, <1>2, TerminalKeeps DEF PublishTerminal
<1>3. CASE terminal # None
  <2>1. /\ GoTo(w, "again")
        /\ UNCHANGED <<dir, objects, ledger, terminal, gained, counted, orderly>>
    BY <1>3 DEF PublishTerminal
  <2>2. orderly' \in BOOLEAN
    BY <1>1, <2>1 DEF TypeOK
  <2>3. TypeOK'
    BY <1>1, <2>1, <2>2, GoToFacts, TypeKept DEF Stages
  <2>4. Works(w)
    BY PublishFacts, <1>1
  <2>5. QED
    BY <1>1, <2>1, <2>3, <2>4, GoToKeeps
<1>4. QED
  BY <1>2, <1>3

\* A receipt counts an event its run created, and moves on to the next place.
LEMMA ReceiptKeeps ==
  ASSUME IInv, NEW w \in Runs, Receipt(w)
  PROVE  IInv'
<1>1. /\ TypeOK /\ LedgerInv /\ ObjectsInv /\ Claims /\ Orderly /\ orderly \in BOOLEAN
      /\ \A v \in Runs : ProgramInv(v) /\ StageInv(v)
      /\ Len(ledger) \in Nat /\ run[w].source \in Runs /\ run[w].at \in Nat \ {0}
      /\ run[w].seen \in Nat
  BY LedgerType, RunType DEF IInv, TypeOK
<1>2. /\ UNCHANGED <<dir, objects, ledger, terminal, gained, orderly>>
      /\ run[w].stage = "receipt"
  BY DEF Receipt, diskVars, At
<1>3. Works(w) /\ Busy(w) /\ Active(w)
  BY <1>2 DEF Works, Busy, Active
<1>4. CASE ~Sound
  BY <1>1, <1>2, <1>4, RaiseKeeps DEF Receipt, Outcomes, Errors
<1>5. CASE Sound /\ Current(w).state = "terminal_published"
  <2>1. counted' = counted /\ Raise(w, "done")
    BY <1>5 DEF Receipt, Counts
  <2>2. QED
    BY <1>1, <1>2, <2>1, RaiseKeeps DEF Outcomes
<1>6. CASE Sound /\ Current(w).state # "terminal_published"
  <2> DEFINE s == IF run[w].at = 2 /\ gained[run[w].source] = None THEN "execute" ELSE "verify"
             a == run[w].at + 1
  <2>1. /\ counted' = IF Counts(w) THEN counted \cup {[run |-> w, event |-> Current(w)]}
                      ELSE counted
        /\ run' = [run EXCEPT ![w].at = @ + 1, ![w].created = FALSE, ![w].stage = s]
    BY <1>6 DEF Receipt
  <2>2. run[w].at <= Len(ledger) /\ ledger[run[w].at] = Current(w)
    BY <1>1, <1>2, <1>6 DEF StageInv
  <2>3. /\ Current(w) = Nth(Result(w), run[w].source, run[w].at)
        /\ Current(w) \in Abstract!Events
        /\ Result(w) = None => run[w].at <= 2
        /\ Result(w) # None => run[w].at + 1 <= Width(Result(w))
                               /\ Result(w) \in GatewayResults
    <3>1. Result(w) # None => Result(w) \in GatewayResults
      BY <1>1, ResultType DEF Result
    <3>2. Result(w) # None => run[w].at \in 1..Width(Result(w)) /\ run[w].at # Width(Result(w))
      BY <1>1, <1>3, <1>6, CurrentIs, CurrentState
    <3>3. Result(w) # None => Width(Result(w)) \in Nat
      BY <3>1, NthFacts
    <3>4. Result(w) = None => run[w].at <= 2
      BY <1>1, <1>3 DEF ProgramInv
    <3>5. QED
      BY <1>1, <1>3, <3>1, <3>2, <3>3, <3>4, CurrentIs
  <2>4. a \in 1..(MaxAttempts + 6)
    <3>1. CASE Result(w) = None
      BY <1>1, <2>3, <3>1, AttemptAssumption
    <3>2. CASE Result(w) # None
      BY <1>1, <2>3, <3>2, NthFacts, AttemptAssumption
    <3>3. QED
      BY <3>1, <3>2
  <2>5. /\ run' \in [Runs -> Programs]
        /\ \A v \in Runs \ {w} : run'[v] = run[v]
        /\ run'[w].stage = s /\ run'[w].listed = run[w].listed /\ run'[w].seen = run[w].seen
        /\ run'[w].at = a /\ run'[w].source = run[w].source
        /\ run'[w].created = FALSE
    <3> DEFINE q == run[w]
               p == [q EXCEPT !.at = a, !.created = FALSE, !.stage = s]
    <3>1. run \in [Runs -> Programs] /\ q \in Programs /\ s \in Stages
      BY <1>1 DEF TypeOK, Stages
    <3>2. run' = [run EXCEPT ![w] = p]
      BY <2>1, <3>1
    <3> HIDE DEF q, s, a
    <3>3. /\ p \in Programs
          /\ p.stage = s /\ p.listed = q.listed /\ p.seen = q.seen /\ p.at = a
          /\ p.source = q.source /\ p.created = FALSE
      BY <2>4, <3>1 DEF Programs
    <3> HIDE DEF p
    <3>4. QED
      BY <3>1, <3>2, <3>3 DEF q
  <2>6. TypeOK'
    <3>1. [run |-> w, event |-> Current(w)] \in [run : Runs, event : Abstract!Events]
      BY <2>3
    <3>2. counted' \subseteq [run : Runs, event : Abstract!Events]
      BY <1>1, <2>1, <3>1 DEF TypeOK
    <3>3. QED
      BY <1>1, <1>2, <2>5, <3>2 DEF TypeOK
  <2>7. Grows
    BY <1>1, <1>2 DEF Grows
  <2>8. /\ Result(w)' = Result(w)
        /\ \A v \in Runs \ {w} : Current(v)' = Current(v)
    BY <1>2, <2>5, CurrentSame DEF Result
  <2>9. ASSUME NEW v \in Runs
        PROVE  ProgramInv(v)' /\ StageInv(v)'
    <3>1. CASE v # w
      BY <3>1, <1>1, <1>2, <2>5, <2>6, <2>7, Unmoved
    <3>2. CASE v = w
      <4>1. ~run[w].listed /\ run[w].seen <= Len(ledger)
        BY <1>1, <1>2 DEF ProgramInv, StageInv
      <4>2. /\ s = "execute" => a = 3 /\ Result(w) = None
            /\ s # "execute" => IF Result(w) = None THEN a <= 2 ELSE a <= Width(Result(w))
            /\ s \in {"execute", "verify"}
        BY <1>1, <2>3 DEF Result
      <4>3. /\ a - 1 <= Len(ledger)
            /\ \A j \in 1..(a - 1) : ledger[j] = Nth(Result(w), run[w].source, j)
        BY <1>1, <1>3, <2>2, <2>3 DEF ProgramInv
      <4> HIDE DEF s, a
      <4>4. ProgramInv(w)'
        BY <1>1, <1>2, <1>3, <2>5, <2>8, <4>1, <4>2, <4>3 DEF ProgramInv, Works, Busy
      <4>5. StageInv(w)'
        BY <1>1, <1>2, <2>5, <4>1, <4>2 DEF StageInv
      <4>6. QED
        BY <3>2, <4>4, <4>5
    <3>3. QED
      BY <3>1, <3>2
  <2>10. LedgerInv'
    BY <1>1, <1>2 DEF LedgerInv, Holds
  <2>11. ObjectsInv'
    BY <1>1, <1>2 DEF ObjectsInv
  <2>12. Claims'
    <3> DEFINE new == [run |-> w, event |-> Current(w)]
    <3>1. /\ counted \subseteq counted'
          /\ \A c \in counted' : c \in counted \/ (c = new /\ Counts(w))
      BY <2>1
    <3>2. new.event = Current(w)
      OBVIOUS
    <3> HIDE DEF new
    <3>3. \A c \in counted' : /\ c.event.state = "attempt_recorded"
                              /\ \E k \in 1..Len(ledger) : c.event = ledger[k]
      BY <1>1, <2>2, <3>1, <3>2 DEF Claims, Counts
    <3>4. \A c, d \in counted' : c.event = d.event => c = d
      BY <1>1, <3>1, <3>2 DEF Claims, Counts
    <3>5. \A v \in Runs : run'[v].created => v # w /\ run[v].created /\ Current(v)' = Current(v)
      BY <2>5, <2>8
    <3>6. \A v \in Runs, c \in counted' : run'[v].created => c.event # Current(v)'
      BY <1>1, <3>1, <3>2, <3>5 DEF Claims, Counts
    <3>7. \A u, v \in Runs : run'[u].created /\ run'[v].created /\ Current(u)' = Current(v)'
                               => u = v
      BY <1>1, <3>5 DEF Claims
    <3>8. QED
      BY <1>2, <3>3, <3>4, <3>6, <3>7 DEF Claims
  <2>13. Orderly'
    <3>1. s \in {"execute", "verify"}
      OBVIOUS
    <3>2. run'[w].stage # "check"
      BY <2>5
    <3> HIDE DEF s, a
    <3>3. QED
      BY <1>1, <1>2, <1>3, <2>5, <3>2, OrderlyMoves
  <2>14. QED
    BY <2>6, <2>9, <2>10, <2>11, <2>12, <2>13 DEF IInv
<1>7. QED
  BY <1>4, <1>5, <1>6

----------------------------------------------------------------------------
\* The invariant

\* The invariant holds at the start,
LEMMA Starts == Init => IInv
<1> SUFFICES ASSUME Init PROVE IInv
  OBVIOUS
<1> DEFINE p(w) == [stage |-> "idle", listed |-> FALSE, seen |-> 0, at |-> 1, source |-> w,
                    created |-> FALSE, outcome |-> "none"]
<1>1. \A w \in Runs : /\ run[w] = p(w) /\ gained[w] = None
                      /\ run[w].stage = "idle" /\ ~run[w].listed /\ run[w].seen = 0
                      /\ run[w].at = 1 /\ run[w].source = w /\ ~run[w].created
  BY DEF Init
<1>2. \A w \in Runs : p(w) \in Programs
  BY AttemptAssumption DEF Programs, Stages, Outcomes
<1>3. /\ ledger = <<>> /\ Len(ledger) = 0 /\ terminal = None /\ objects = {} /\ counted = {}
      /\ ledger \in Seq(Abstract!Events)
  BY DEF Init
<1>4. TypeOK
  <2>1. run \in [Runs -> Programs]
    BY <1>1, <1>2 DEF Init
  <2>2. QED
    BY <1>3, <2>1 DEF Init, TypeOK
<1>5. LedgerInv /\ ObjectsInv
  BY <1>3 DEF LedgerInv, ObjectsInv
<1> HIDE DEF p
<1>6. \A w \in Runs : ~Busy(w) /\ ~Works(w) /\ ~Active(w)
  BY <1>1 DEF Busy, Works, Active
<1>7. \A w \in Runs : ProgramInv(w) /\ StageInv(w)
  BY <1>1, <1>3, <1>6 DEF ProgramInv, StageInv, Result
<1>8. Claims /\ Orderly
  BY <1>1, <1>3, <1>6 DEF Claims, Orderly
<1>9. QED
  BY <1>4, <1>5, <1>7, <1>8 DEF IInv

\* ... and every step keeps it.
LEMMA Steps == IInv /\ [Next]_vars => IInv'
<1> SUFFICES ASSUME IInv, [Next]_vars PROVE IInv'
  OBVIOUS
<1>1. ASSUME NEW w \in Runs, Step(w)
      PROVE  IInv'
  BY <1>1, BeginKeeps, ListKeeps, CheckStateKeeps, VerifyKeeps, GuardKeeps, PutObjectKeeps,
     AppendEventKeeps, MakeDirectoryKeeps, PublishEntryKeeps, PublishTerminalKeeps,
     LookAgainKeeps, ReceiptKeeps, ExecuteKeeps, CrashKeeps DEF Step
<1>2. CASE UNCHANGED vars
  <2>1. UNCHANGED <<dir, objects, ledger, terminal, gained, counted, run, orderly>>
    BY <1>2 DEF vars
  <2>2. TypeOK'
    BY <2>1 DEF IInv, TypeOK
  <2>3. Grows
    BY <2>1, LedgerType DEF Grows, IInv
  <2>4. \A v \in Runs : ProgramInv(v)' /\ StageInv(v)'
    BY <2>1, <2>2, <2>3, Unmoved DEF IInv
  <2>5. \A v \in Runs : Current(v)' = Current(v)
    BY <2>1, CurrentSame
  <2>6. LedgerInv' /\ ObjectsInv'
    BY <2>1 DEF IInv, LedgerInv, Holds, ObjectsInv
  <2>7. Claims'
    BY <2>1, <2>5 DEF IInv, Claims
  <2>8. Orderly'
    BY <2>1 DEF IInv, Orderly, Active, Busy
  <2>9. QED
    BY <2>2, <2>4, <2>6, <2>7, <2>8 DEF IInv
<1>3. QED
  BY <1>1, <1>2 DEF Next

\* The invariant holds in every reachable state.
THEOREM Invariance == Spec => []IInv
  BY Starts, Steps, PTL DEF Spec

\* The state of the store and of the runs is always of its type.
THEOREM TypeCorrect == Spec => []TypeOK
<1>1. IInv => TypeOK
  BY DEF IInv
<1>2. QED
  BY <1>1, Invariance, PTL

\* However often an attempt is recorded again, it is counted once, and stays in the ledger.
THEOREM AttemptsCountedOnce == Spec => []CountedOnce
<1>1. IInv => CountedOnce
  <2>1. SUFFICES ASSUME IInv, NEW c \in counted
                 PROVE  /\ c.event \in ToSet(ledger)
                        /\ \A d \in counted : d.event.ordinal = c.event.ordinal => d = c
    BY DEF CountedOnce
  <2>2. TypeOK /\ LedgerInv /\ Claims
    BY <2>1 DEF IInv
  <2>3. ASSUME NEW e \in counted
        PROVE  \E k \in 1..Len(ledger) : e.event = ledger[k] /\ e.event.ordinal = k - 2
    <3>1. PICK k \in 1..Len(ledger) : e.event = ledger[k]
      BY <2>2 DEF Claims
    <3>2. ledger[k].state = "attempt_recorded"
      BY <2>2, <3>1 DEF Claims
    <3>3. k \in Nat /\ k >= 1
      BY <2>2, LedgerType
    <3>4. k > 2
      <4>1. k <= 2 => k \in 1..2 /\ ledger[k] = Abstract!Opening[k]
        BY <2>2, <3>3, LedgerAt
      <4>2. QED
        BY <3>2, <3>3, <4>1, OpeningStates
    <3>5. PICK r \in Runs : /\ gained[r] \in GatewayResults /\ k \in 1..Width(gained[r])
                            /\ ledger[k] = Nth(gained[r], r, k)
      BY <2>2, <3>4, LedgerAt
    <3> DEFINE g == gained[r]
    <3>6. /\ g \in GatewayResults /\ k \in 1..Width(g) /\ r \in Runs
          /\ ledger[k] = Nth(g, r, k)
      BY <3>5
    <3> HIDE DEF g
    <3>7. ~(k = 1) /\ ~(k = 2) /\ k > 2
      BY <3>3, <3>4
    <3>8. /\ Before(g) \in Nat /\ Before(g) >= g.attempts + 2 /\ g.attempts \in Nat
          /\ Width(g) = Before(g) + 3
      BY <3>6, NthFacts
    <3>9. k <= g.attempts + 2
      BY <3>2, <3>6, <3>7, <3>8, NthStates
    <3>10. ledger[k].ordinal = k - 2
      BY <3>6, <3>7, <3>9, NthStates
    <3>11. QED
      BY <3>1, <3>10
  <2>4. c.event \in ToSet(ledger)
    BY <2>3 DEF ToSet
  <2>5. ASSUME NEW d \in counted, d.event.ordinal = c.event.ordinal
        PROVE  d = c
    <3>1. PICK j \in 1..Len(ledger) : c.event = ledger[j] /\ c.event.ordinal = j - 2
      BY <2>3
    <3>2. PICK k \in 1..Len(ledger) : d.event = ledger[k] /\ d.event.ordinal = k - 2
      BY <2>3
    <3>3. j = k
      BY <2>2, <2>5, <3>1, <3>2, LedgerType
    <3>4. QED
      BY <2>2, <3>1, <3>2, <3>3 DEF Claims
  <2>6. QED
    BY <2>4, <2>5
<1>2. QED
  BY <1>1, Invariance, PTL

\* Of orderly runs only one calls the provider.
THEOREM ProviderCalledOnce == Spec => []OneProviderCall
<1>1. IInv => OneProviderCall
  <2>1. SUFFICES ASSUME IInv, orderly
                 PROVE  Cardinality({w \in Runs : gained[w] # None}) <= 1
    BY DEF OneProviderCall
  <2> DEFINE Callers == {w \in Runs : gained[w] # None}
  <2>2. \A v, w \in Callers : v = w
    BY <2>1 DEF IInv, Orderly
  <2>3. CASE Callers = {}
    BY <2>3, FS_EmptySet
  <2>4. CASE \E w : w \in Callers
    <3>1. PICK w \in Callers : TRUE
      BY <2>4
    <3>2. Callers = {w}
      BY <2>2, <3>1
    <3>3. QED
      BY <3>2, FS_Singleton
  <2>5. QED
    BY <2>3, <2>4
<1>2. QED
  BY <1>1, Invariance, PTL

----------------------------------------------------------------------------
\* What is on disk, read back

\* c is the first events of the chain of the result g of run r.
Starting(c, g, r) ==
  /\ c \in Seq(Abstract!Events)
  /\ Len(c) <= Width(g)
  /\ \A k \in 1..Len(c) : c[k] = Nth(g, r, k)

\* Attempts are counted by the places they stand at.
LEMMA CountIs ==
  ASSUME NEW c
  PROVE  AttemptCount(c) = Cardinality({k \in 1..Len(c) : c[k].state = "attempt_recorded"})
<1> DEFINE A == {k \in 1..Len(c) : c[k].state = "attempt_recorded"}
<1>1. AttemptCount(c) = Abstract!AttemptCount(c)
  BY DEF AttemptCount
<1>2. Abstract!AttemptCount(c) = Abstract!Cardinality(A)
  BY Zenon DEF Abstract!AttemptCount
<1>3. Abstract!Cardinality(A) = Cardinality(A)
  BY Zenon DEF Cardinality, Abstract!Cardinality, IsFiniteSet, Abstract!IsFiniteSet
<1>4. QED
  BY <1>1, <1>2, <1>3

\* How many attempts the first events of a chain hold.
LEMMA CountOfStart ==
  ASSUME NEW g \in GatewayResults, NEW r \in Runs, NEW c, Starting(c, g, r)
  PROVE  AttemptCount(c) = IF Len(c) <= 2 THEN 0
                           ELSE IF Len(c) <= g.attempts + 2 THEN Len(c) - 2 ELSE g.attempts
<1> DEFINE A == {k \in 1..Len(c) : c[k].state = "attempt_recorded"}
           m == IF Len(c) <= g.attempts + 2 THEN Len(c) ELSE g.attempts + 2
<1>1. /\ Before(g) \in Nat /\ Width(g) = Before(g) + 3 /\ g.attempts \in Nat
      /\ g.attempts >= 1 /\ Before(g) >= g.attempts + 2
  BY NthFacts, AttemptAssumption
<1>2. Len(c) \in Nat /\ Len(c) <= Width(g)
  BY LenProperties DEF Starting
<1>3. \A k \in 1..Len(c) : c[k].state = "attempt_recorded" <=> k \in 3..m
  <2>1. SUFFICES ASSUME NEW k \in 1..Len(c)
                 PROVE  c[k].state = "attempt_recorded" <=> 2 < k /\ k <= g.attempts + 2
    BY <1>1, <1>2
  <2>2. k \in 1..Width(g) /\ c[k] = Nth(g, r, k)
    BY <1>1, <1>2, <2>1 DEF Starting
  <2>3. QED
    BY <1>1, <2>2, NthStates
<1>4. m \in Nat /\ m <= Len(c)
  BY <1>1, <1>2
<1>5. A = 3..m
  BY <1>2, <1>3, <1>4
<1>6. Cardinality(3..m) = IF 3 > m THEN 0 ELSE m - 3 + 1
  BY <1>4, FS_Interval
<1>7. AttemptCount(c) = Cardinality(A)
  BY CountIs
<1>8. m = IF Len(c) <= g.attempts + 2 THEN Len(c) ELSE g.attempts + 2
  OBVIOUS
<1> HIDE DEF A, m
<1>9. AttemptCount(c) = IF 3 > m THEN 0 ELSE m - 3 + 1
  BY <1>5, <1>6, <1>7
<1>10. QED
  BY <1>1, <1>2, <1>4, <1>8, <1>9

\* The next event of a chain extends the ones before it.
LEMMA NextIsLegal ==
  ASSUME NEW g \in GatewayResults, NEW r \in Runs, NEW c, Starting(c, g, r),
         NEW n \in Nat, n = Len(c), n < Width(g)
  PROVE  /\ LastState(c) \in Abstract!Previous(Nth(g, r, n + 1).state)
         /\ Nth(g, r, n + 1).state = "attempt_recorded" =>
              Nth(g, r, n + 1).ordinal = AttemptCount(c) + 1
         /\ \A k \in 1..n : c[k].run \in {None, Nth(g, r, n + 1).run}
<1>1. /\ Before(g) \in Nat /\ Width(g) = Before(g) + 3 /\ g.attempts \in Nat
      /\ g.attempts >= 1 /\ Before(g) >= g.attempts + 2 /\ g.raw \in BOOLEAN
      /\ Before(g) = g.attempts + 2 + (IF g.raw THEN 1 ELSE 0)
  BY NthFacts, AttemptAssumption
<1>2. n + 1 \in 1..Width(g) /\ (n > 0 => n \in 1..Width(g) /\ n \in 1..Len(c))
  BY <1>1
<1>3. n > 0 => c[n] = Nth(g, r, n)
  BY <1>2 DEF Starting
<1>4. LastState(c) = IF n = 0 THEN "nothing" ELSE Nth(g, r, n).state
  <2>1. c = <<>> <=> n = 0
    BY EmptySeq DEF Starting
  <2>2. QED
    BY <1>3, <2>1 DEF LastState, Abstract!LastState
<1>5. LastState(c) \in Abstract!Previous(Nth(g, r, n + 1).state)
  <2> DEFINE last == IF n = 0 THEN "nothing" ELSE Nth(g, r, n).state
             next == Nth(g, r, n + 1).state
  <2>1. next = IF n = 0 THEN "prepared" ELSE IF n = 1 THEN "started"
               ELSE IF n + 1 <= g.attempts + 2 THEN "attempt_recorded"
               ELSE IF n + 1 <= Before(g) THEN "response_recorded"
               ELSE IF n = Before(g) THEN "parsed_or_failed"
               ELSE IF n = Before(g) + 1 THEN "closeout_pending"
               ELSE "terminal_published"
    BY <1>1, <1>2, NthStates
  <2>2. last = IF n = 0 THEN "nothing" ELSE IF n = 1 THEN "prepared" ELSE IF n = 2 THEN "started"
               ELSE IF n <= g.attempts + 2 THEN "attempt_recorded"
               ELSE IF n <= Before(g) THEN "response_recorded"
               ELSE IF n = Before(g) + 1 THEN "parsed_or_failed"
               ELSE IF n = Before(g) + 2 THEN "closeout_pending"
               ELSE "terminal_published"
    <3>1. CASE n = 0
      BY <3>1
    <3>2. CASE n > 0
      <4>1. last = Nth(g, r, n).state /\ n \in 1..Width(g) /\ ~(n = 0)
        BY <1>2, <3>2
      <4> HIDE DEF last, next
      <4>2. QED
        BY <4>1, NthStates
    <3>3. QED
      BY <3>1, <3>2
  <2> HIDE DEF last, next
  <2>3. last \in Abstract!Previous(next)
    <3>1. CASE n <= 2
      BY <1>1, <2>1, <2>2, <3>1 DEF Abstract!Previous
    <3>2. CASE 2 < n /\ n <= g.attempts + 2
      <4>1. last = "attempt_recorded"
        BY <2>2, <3>2
      <4>2. next \in {"attempt_recorded", "response_recorded", "parsed_or_failed"}
        <5>1. CASE n + 1 <= g.attempts + 2
          BY <2>1, <3>2, <5>1
        <5>2. CASE n = g.attempts + 2 /\ Before(g) = n
          BY <2>1, <3>2, <5>2
        <5>3. CASE n = g.attempts + 2 /\ Before(g) = n + 1
          BY <2>1, <3>2, <5>3
        <5>4. QED
          BY <1>1, <3>2, <5>1, <5>2, <5>3
      <4>3. QED
        BY <4>1, <4>2 DEF Abstract!Previous
    <3>3. CASE g.attempts + 2 < n /\ n <= Before(g)
      <4>1. last = "response_recorded" /\ n = Before(g)
        BY <1>1, <2>2, <3>3
      <4>2. next = "parsed_or_failed"
        BY <1>1, <2>1, <3>3, <4>1
      <4>3. QED
        BY <4>1, <4>2 DEF Abstract!Previous
    <3>4. CASE n = Before(g) + 1
      BY <1>1, <2>1, <2>2, <3>4 DEF Abstract!Previous
    <3>5. CASE n = Before(g) + 2
      BY <1>1, <2>1, <2>2, <3>5 DEF Abstract!Previous
    <3>6. QED
      BY <1>1, <3>1, <3>2, <3>3, <3>4, <3>5
  <2>4. QED
    BY <1>4, <2>3 DEF last, next
<1>6. Nth(g, r, n + 1).state = "attempt_recorded" => Nth(g, r, n + 1).ordinal = AttemptCount(c) + 1
  <2>1. SUFFICES ASSUME Nth(g, r, n + 1).state = "attempt_recorded"
                 PROVE  Nth(g, r, n + 1).ordinal = AttemptCount(c) + 1
    OBVIOUS
  <2>2. 2 < n + 1 /\ n + 1 <= g.attempts + 2
    BY <1>1, <1>2, <2>1, NthStates
  <2>3. Nth(g, r, n + 1).ordinal = n + 1 - 2
    BY <1>2, <2>2, NthStates
  <2>4. AttemptCount(c) = n - 2
    BY <1>1, <2>2, CountOfStart
  <2>5. QED
    BY <2>2, <2>3, <2>4
<1>7. \A k \in 1..n : c[k].run \in {None, Nth(g, r, n + 1).run}
  <2>1. SUFFICES ASSUME NEW k \in 1..n PROVE c[k].run \in {None, Nth(g, r, n + 1).run}
    OBVIOUS
  <2>2. k \in 1..Width(g) /\ c[k] = Nth(g, r, k) /\ k < n + 1
    BY <1>1 DEF Starting
  <2>3. c[k].run = IF k <= 2 THEN None ELSE r
    BY <2>2, NthStates
  <2>4. Nth(g, r, n + 1).run = IF n + 1 <= 2 THEN None ELSE r
    BY <1>2, NthStates
  <2>5. QED
    BY <2>2, <2>3, <2>4
<1>8. QED
  BY <1>5, <1>6, <1>7

\* The same for an opening, which needs no result.
LEMMA OpeningIsLegal ==
  ASSUME NEW c \in Seq(Abstract!Events), NEW n \in 0..1, Len(c) = n,
         \A k \in 1..n : c[k] = Abstract!Opening[k]
  PROVE  /\ LastState(c) \in Abstract!Previous(Abstract!Opening[n + 1].state)
         /\ Abstract!Opening[n + 1].state # "attempt_recorded"
         /\ \A k \in 1..n : c[k].run = None
<1>1. c = <<>> <=> n = 0
  BY EmptySeq
<1>2. CASE n = 0
  BY <1>1, <1>2, OpeningStates DEF LastState, Abstract!LastState, Abstract!Previous
<1>3. CASE n = 1
  BY <1>1, <1>3, OpeningStates DEF LastState, Abstract!LastState, Abstract!Previous
<1>4. QED
  BY <1>2, <1>3

\* The first elements of a sequence.
LEMMA SubSeqIs ==
  ASSUME NEW S, NEW c \in Seq(S), NEW n \in 0..Len(c)
  PROVE  /\ SubSeq(c, 1, n) \in Seq(S)
         /\ Len(SubSeq(c, 1, n)) = n
         /\ \A k \in 1..n : SubSeq(c, 1, n)[k] = c[k]
<1>1. Len(c) \in Nat /\ n \in Nat /\ \A k \in 1..n : c[k] \in S
  BY LenProperties, ElementOfSeq
<1>2. /\ SubSeq(c, 1, n) \in Seq(S)
      /\ Len(SubSeq(c, 1, n)) = IF 1 <= n THEN n - 1 + 1 ELSE 0
      /\ \A k \in 1..(n - 1 + 1) : SubSeq(c, 1, n)[k] = c[1 + k - 1]
  BY <1>1, SubSeqProperties
<1>3. n - 1 + 1 = n /\ \A k \in 1..n : 1 + k - 1 = k
  BY <1>1
<1>4. QED
  BY <1>1, <1>2, <1>3

\* The first of the first events of a chain.
LEMMA StartOfStart ==
  ASSUME NEW g \in GatewayResults, NEW r \in Runs, NEW c, Starting(c, g, r), NEW n \in 0..Len(c)
  PROVE  Starting(SubSeq(c, 1, n), g, r) /\ Len(SubSeq(c, 1, n)) = n
<1>1. c \in Seq(Abstract!Events) /\ Len(c) \in Nat
  BY LenProperties DEF Starting
<1>2. /\ SubSeq(c, 1, n) \in Seq(Abstract!Events)
      /\ Len(SubSeq(c, 1, n)) = n
      /\ \A k \in 1..n : SubSeq(c, 1, n)[k] = c[k]
  BY <1>1, SubSeqIs
<1>3. Width(g) \in Nat
  BY NthFacts
<1>4. QED
  BY <1>1, <1>2, <1>3 DEF Starting

\* The reader accepts the first events of a chain, whatever their number.
LEMMA StartReconciles ==
  ASSUME NEW r \in Runs, gained[r] \in GatewayResults, NEW c, Starting(c, gained[r], r),
         NEW k \in 1..Len(c)
  PROVE  StoredLegally(SubSeq(c, 1, k - 1), c[k]) /\ ResultLinks(c, c[k])
<1> DEFINE g == gained[r]
<1>1. /\ g \in GatewayResults /\ Starting(c, g, r)
      /\ c \in Seq(Abstract!Events) /\ Len(c) \in Nat /\ Len(c) <= Width(g)
      /\ \A j \in 1..Len(c) : c[j] = Nth(g, r, j)
  BY LenProperties DEF Starting
<1>2. /\ Before(g) \in Nat /\ Width(g) = Before(g) + 3 /\ g.attempts \in Nat
      /\ g.attempts >= 1 /\ Before(g) >= g.attempts + 2 /\ g.raw \in BOOLEAN
      /\ Before(g) = g.attempts + 2 + (IF g.raw THEN 1 ELSE 0)
  BY <1>1, NthFacts, AttemptAssumption
<1>3. \A j \in 1..Len(c) : j \in 1..Width(g)
  BY <1>1, <1>2
<1> HIDE DEF g
<1>4. StoredLegally(SubSeq(c, 1, k - 1), c[k])
  <2> DEFINE b == SubSeq(c, 1, k - 1)
             n == k - 1
  <2>1. Starting(b, g, r) /\ Len(b) = n /\ n \in Nat /\ n < Width(g) /\ n + 1 = k
    BY <1>1, <1>2, StartOfStart
  <2> HIDE DEF b, n
  <2>2. /\ LastState(b) \in Abstract!Previous(Nth(g, r, n + 1).state)
        /\ Nth(g, r, n + 1).state = "attempt_recorded" =>
             Nth(g, r, n + 1).ordinal = AttemptCount(b) + 1
    BY <1>1, <2>1, NextIsLegal
  <2>3. c[k] = Nth(g, r, n + 1)
    BY <1>1, <2>1
  <2>4. StoredLegally(b, c[k])
    BY <2>2, <2>3 DEF StoredLegally
  <2>5. QED
    BY <2>4 DEF b
<1>5. ASSUME c[k].state = "parsed_or_failed"
      PROVE  /\ InventoryMatches(c, c[k].run)
             /\ {x.run : x \in {y \in ToSet(c) : y.state = "response_recorded"}} =
                  IF gained[c[k].run].raw THEN {c[k].run} ELSE {}
             /\ \A x \in ToSet(c) : x.state \in {"closeout_pending", "terminal_published"} =>
                                      x.run = c[k].run
  <2>1. k = Before(g) + 1 /\ c[k].run = r
    <3>1. k \in 1..Width(g) /\ c[k] = Nth(g, r, k)
      BY <1>1, <1>3
    <3>2. k = Before(g) + 1
      BY <1>1, <1>2, <1>5, <3>1, NthStates
    <3>3. Nth(g, r, k).run = r
      BY <1>1, <1>2, <3>1, <3>2, NthStates
    <3>4. QED
      BY <3>1, <3>2, <3>3
  <2>2. Len(c) >= Before(g) + 1
    BY <1>1, <2>1
  <2>3. AttemptCount(c) = g.attempts
    BY <1>1, <1>2, <2>2, CountOfStart
  <2>4. ASSUME NEW j \in 1..Len(c), c[j].state = "attempt_recorded"
        PROVE  c[j] = Event("attempt_recorded", r, AttemptCount(SubSeq(c, 1, j)))
    <3>1. j \in 1..Width(g) /\ c[j] = Nth(g, r, j) /\ j \in 0..Len(c)
      BY <1>1, <1>3
    <3>2. 2 < j /\ j <= g.attempts + 2
      BY <1>1, <1>2, <2>4, <3>1, NthStates
    <3>3. Starting(SubSeq(c, 1, j), g, r) /\ Len(SubSeq(c, 1, j)) = j
      BY <1>1, <3>1, StartOfStart
    <3>4. AttemptCount(SubSeq(c, 1, j)) = j - 2
      <4> DEFINE b == SubSeq(c, 1, j)
      <4>1. Starting(b, g, r) /\ Len(b) = j
        BY <3>3
      <4> HIDE DEF b
      <4>2. AttemptCount(b) = IF Len(b) <= 2 THEN 0
                              ELSE IF Len(b) <= g.attempts + 2 THEN Len(b) - 2 ELSE g.attempts
        BY <1>1, <4>1, CountOfStart
      <4>3. AttemptCount(b) = j - 2
        BY <1>2, <3>2, <4>1, <4>2
      <4>4. QED
        BY <4>3 DEF b
    <3>5. Nth(g, r, j) = Event("attempt_recorded", r, j - 2)
      BY <1>1, <3>2 DEF Nth
    <3>6. QED
      BY <3>1, <3>4, <3>5
  <2>5. InventoryMatches(c, r)
    BY <2>3, <2>4 DEF InventoryMatches, g
  <2>6. \A x \in ToSet(c) : \E j \in 1..Len(c) : x = Nth(g, r, j)
    BY <1>1 DEF ToSet
  <2>7. ASSUME NEW j \in 1..Len(c)
        PROVE  /\ Nth(g, r, j).state \in Abstract!LateStates => Nth(g, r, j).run = r
               /\ Nth(g, r, j).state = "response_recorded" => g.raw
    <3>1. j \in 1..Width(g)
      BY <1>3
    <3>2. Nth(g, r, j).state \in Abstract!LateStates => j > 2
      BY <1>1, <1>2, <3>1, NthStates DEF Abstract!LateStates
    <3>3. j > 2 => Nth(g, r, j).run = r
      BY <1>1, <3>1, NthStates
    <3>4. Nth(g, r, j).state = "response_recorded" => g.raw
      BY <1>1, <1>2, <3>1, NthStates
    <3>5. QED
      BY <3>2, <3>3, <3>4
  <2>8. \A x \in ToSet(c) : /\ x.state \in Abstract!LateStates => x.run = r
                            /\ x.state = "response_recorded" => g.raw
    BY <2>6, <2>7
  <2>9. g.raw => \E x \in ToSet(c) : x.state = "response_recorded" /\ x.run = r
    <3>1. SUFFICES ASSUME g.raw
                   PROVE  \E x \in ToSet(c) : x.state = "response_recorded" /\ x.run = r
      OBVIOUS
    <3>2. Before(g) \in 1..Len(c) /\ Before(g) = g.attempts + 3
      BY <1>1, <1>2, <2>2, <3>1
    <3>3. c[Before(g)] \in ToSet(c) /\ c[Before(g)] = Nth(g, r, Before(g))
          /\ Before(g) \in 1..Width(g)
      BY <1>1, <1>2, <3>2 DEF ToSet
    <3>4. Nth(g, r, Before(g)).state = "response_recorded" /\ Nth(g, r, Before(g)).run = r
      BY <1>1, <1>2, <3>2, <3>3, NthStates
    <3>5. QED
      BY <3>3, <3>4
  <2>10. {x.run : x \in {y \in ToSet(c) : y.state = "response_recorded"}} =
           IF g.raw THEN {r} ELSE {}
    <3>1. \A x \in ToSet(c) : x.state = "response_recorded" => x.run = r /\ g.raw
      BY <2>8 DEF Abstract!LateStates
    <3>2. CASE g.raw
      BY <2>9, <3>1, <3>2
    <3>3. CASE ~g.raw
      BY <3>1, <3>3
    <3>4. QED
      BY <3>2, <3>3
  <2>11. QED
    BY <2>1, <2>5, <2>8, <2>10 DEF Abstract!LateStates, g
<1>6. QED
  BY <1>4, <1>5 DEF ResultLinks

\* Nor has it anything against an opening.
LEMMA OpeningReconciles ==
  ASSUME NEW c \in Seq(Abstract!Events), Len(c) <= 2, NEW k \in 1..Len(c),
         \A j \in 1..Len(c) : c[j] = Abstract!Opening[j]
  PROVE  StoredLegally(SubSeq(c, 1, k - 1), c[k]) /\ ResultLinks(c, c[k])
<1>1. Len(c) \in Nat /\ k - 1 \in 0..1 /\ k - 1 \in 0..Len(c) /\ k - 1 + 1 = k /\ k \in 1..2
  BY LenProperties
<1> DEFINE b == SubSeq(c, 1, k - 1)
           n == k - 1
<1>2. /\ b \in Seq(Abstract!Events) /\ Len(b) = n
      /\ \A j \in 1..n : b[j] = c[j]
  BY <1>1, SubSeqIs
<1>3. n \in 0..1 /\ n + 1 = k /\ \A j \in 1..n : b[j] = Abstract!Opening[j]
  BY <1>1, <1>2
<1> HIDE DEF b, n
<1>4. /\ LastState(b) \in Abstract!Previous(Abstract!Opening[n + 1].state)
      /\ Abstract!Opening[n + 1].state # "attempt_recorded"
  BY <1>2, <1>3, OpeningIsLegal
<1>5. c[k].state \in {"prepared", "started"} /\ c[k] = Abstract!Opening[n + 1]
  BY <1>1, <1>3, OpeningStates
<1>6. StoredLegally(b, c[k])
  BY <1>4, <1>5 DEF StoredLegally
<1>7. QED
  BY <1>5, <1>6 DEF b, ResultLinks

\* What the ledger and the terminal make up: an opening, or the first events of one chain, and
\* with a terminal all of them.
LEMMA HistoryIs ==
  ASSUME TypeOK, LedgerInv
  PROVE  /\ History \in Seq(Abstract!Events)
         /\ terminal = None => History = ledger
         /\ terminal # None => /\ Len(History) = Len(ledger) + 1
                               /\ History[Len(ledger) + 1] = terminal.event
         /\ \A k \in 1..Len(ledger) : History[k] = ledger[k]
         /\ \/ terminal = None /\ Len(ledger) <= 2
                /\ \A k \in 1..Len(ledger) : ledger[k] = Abstract!Opening[k]
            \/ \E r \in Runs : /\ gained[r] \in GatewayResults
                               /\ Holds(r)
                               /\ Starting(ledger, gained[r], r)
                               /\ Starting(History, gained[r], r)
                               /\ terminal # None =>
                                    /\ Len(History) = Width(gained[r])
                                    /\ terminal.event = Nth(gained[r], r, Width(gained[r]))
                                    /\ terminal.sequence = Width(gained[r])
<1>1. ledger \in Seq(Abstract!Events) /\ Len(ledger) \in Nat
  BY LedgerType DEF TypeOK
<1>2. CASE terminal = None
  <2>1. History = ledger
    BY <1>1, <1>2, ConcatEmptySeq DEF History
  <2>2. CASE Len(ledger) <= 2
    BY <1>1, <1>2, <2>1, <2>2, LedgerAt
  <2>3. CASE Len(ledger) > 2
    <3>1. PICK r \in Runs : Holds(r)
      BY <2>3 DEF LedgerInv
    <3>2. gained[r] \in GatewayResults
      BY <3>1, ResultType DEF Holds
    <3>3. Starting(ledger, gained[r], r)
      BY <1>1, <3>1, <3>2, NthFacts DEF Starting, Holds
    <3>4. QED
      BY <1>1, <1>2, <2>1, <3>1, <3>2, <3>3
  <2>4. QED
    BY <1>1, <2>2, <2>3
<1>3. CASE terminal # None
  <2>1. PICK r \in Runs : /\ Holds(r)
                          /\ Len(ledger) + 1 = Width(gained[r])
                          /\ terminal = [event |-> Nth(gained[r], r, Width(gained[r])),
                                         sequence |-> Width(gained[r])]
    BY <1>3 DEF LedgerInv
  <2>2. gained[r] \in GatewayResults
    BY <2>1, ResultType DEF Holds
  <2>3. terminal.event \in Abstract!Events
    BY <1>3 DEF TypeOK
  <2> DEFINE last == <<terminal.event>>
  <2>4. last \in Seq(Abstract!Events) /\ Len(last) = 1 /\ last[1] = terminal.event
    BY <2>3
  <2> HIDE DEF last
  <2>5. History = ledger \o last
    BY <1>3 DEF History, last
  <2>6. /\ History \in Seq(Abstract!Events) /\ Len(History) = Len(ledger) + Len(last)
        /\ \A k \in 1..(Len(ledger) + Len(last)) :
             History[k] = IF k <= Len(ledger) THEN ledger[k] ELSE last[k - Len(ledger)]
    BY <1>1, <2>4, <2>5, ConcatProperties
  <2>7. /\ Len(History) = Len(ledger) + 1
        /\ \A k \in 1..Len(ledger) : History[k] = ledger[k]
        /\ History[Len(ledger) + 1] = terminal.event
    BY <1>1, <2>4, <2>6
  <2>8. Starting(ledger, gained[r], r)
    BY <1>1, <2>1, <2>2, NthFacts DEF Starting, Holds
  <2>9. \A k \in 1..Len(History) : History[k] = Nth(gained[r], r, k)
    <3>1. SUFFICES ASSUME NEW k \in 1..Len(History) PROVE History[k] = Nth(gained[r], r, k)
      OBVIOUS
    <3>2. CASE k <= Len(ledger)
      BY <1>1, <2>1, <2>7, <3>2 DEF Holds
    <3>3. CASE k = Len(ledger) + 1
      BY <2>1, <2>7, <3>3
    <3>4. QED
      BY <1>1, <2>7, <3>2, <3>3
  <2>10. Starting(History, gained[r], r)
    BY <1>1, <2>1, <2>6, <2>7, <2>9 DEF Starting
  <2>11. QED
    BY <1>1, <1>3, <2>1, <2>2, <2>6, <2>7, <2>8, <2>10
<1>4. QED
  BY <1>2, <1>3

\* Results of different runs never mix.
THEOREM ResultsNeverMix == Spec => []OneResult
<1>1. IInv => OneResult
  <2>1. SUFFICES ASSUME IInv, NEW j \in 1..Len(History), NEW k \in 1..Len(History),
                        None \notin {History[j].run, History[k].run}
                 PROVE  History[j].run = History[k].run
    BY DEF OneResult
  <2>2. TypeOK /\ LedgerInv
    BY <2>1 DEF IInv
  <2>3. CASE terminal = None /\ Len(ledger) <= 2
              /\ \A i \in 1..Len(ledger) : ledger[i] = Abstract!Opening[i]
    <3>1. j \in 1..2 /\ History[j] = Abstract!Opening[j]
      BY <2>1, <2>2, <2>3, HistoryIs, LedgerType
    <3>2. QED
      BY <2>1, <3>1, OpeningStates
  <2>4. CASE \E r \in Runs : gained[r] \in GatewayResults /\ Starting(History, gained[r], r)
    <3>1. PICK r \in Runs : gained[r] \in GatewayResults /\ Starting(History, gained[r], r)
      BY <2>4
    <3>2. ASSUME NEW i \in 1..Len(History), History[i].run # None
          PROVE  History[i].run = r
      <4>1. i \in 1..Width(gained[r]) /\ History[i] = Nth(gained[r], r, i)
        BY <3>1, NthFacts, LenProperties DEF Starting
      <4>2. QED
        BY <3>1, <3>2, <4>1, NthStates
    <3>3. QED
      BY <2>1, <3>2
  <2>5. QED
    BY <2>2, <2>3, <2>4, HistoryIs
<1>2. QED
  BY <1>1, Invariance, PTL

\* A terminal closes the whole chain of its result.
THEOREM TerminalsAreWhole == Spec => []TerminalIsWhole
<1>1. IInv => TerminalIsWhole
  <2>1. SUFFICES ASSUME IInv, terminal # None
                 PROVE  History = Chain(terminal.event.run)
    BY DEF TerminalIsWhole
  <2>2. TypeOK /\ LedgerInv
    BY <2>1 DEF IInv
  <2>3. PICK r \in Runs : /\ gained[r] \in GatewayResults
                          /\ Starting(History, gained[r], r)
                          /\ Len(History) = Width(gained[r])
                          /\ terminal.event = Nth(gained[r], r, Width(gained[r]))
    BY <2>1, <2>2, HistoryIs
  <2>4. Width(gained[r]) \in 1..Width(gained[r]) /\ ~(Width(gained[r]) <= 2)
    BY <2>3, NthFacts
  <2>5. terminal.event.run = r
    BY <2>3, <2>4, NthStates
  <2>6. /\ Chain(r) \in Seq(Abstract!Events) /\ Len(Chain(r)) = Width(gained[r])
        /\ \A k \in 1..Width(gained[r]) : Chain(r)[k] = Nth(gained[r], r, k)
    BY <2>3, ChainIs
  <2>7. /\ History \in Seq(Abstract!Events) /\ Len(History) = Len(Chain(r))
        /\ \A k \in 1..Len(History) : History[k] = Chain(r)[k]
    BY <2>3, <2>6 DEF Starting
  <2>8. History = Chain(r)
    BY <2>6, <2>7, SeqEqual
  <2>9. QED
    BY <2>5, <2>8
<1>2. QED
  BY <1>1, Invariance, PTL

\* Whatever runs interleave and die, what is on disk is what the reader accepts.
THEOREM LedgerAlwaysReconciles == Spec => []LedgerReconciles
<1>1. IInv => LedgerReconciles
  <2>1. SUFFICES ASSUME IInv PROVE LedgerReconciles
    OBVIOUS
  <2>2. TypeOK /\ LedgerInv /\ ObjectsInv /\ ledger \in Seq(Abstract!Events) /\ Len(ledger) \in Nat
    BY <2>1, LedgerType DEF IInv, TypeOK
  <2>3. \A k \in 1..Len(ledger) : /\ StoredLegally(SubSeq(ledger, 1, k - 1), ledger[k])
                                  /\ ResultLinks(ledger, ledger[k])
                                  /\ ObjectOf(ledger[k]) \subseteq objects
    <3>1. CASE Len(ledger) <= 2 /\ \A k \in 1..Len(ledger) : ledger[k] = Abstract!Opening[k]
      BY <2>2, <3>1, OpeningReconciles DEF ObjectsInv
    <3>2. CASE \E r \in Runs : gained[r] \in GatewayResults /\ Starting(ledger, gained[r], r)
      BY <2>2, <3>2, StartReconciles DEF ObjectsInv
    <3>3. QED
      BY <2>2, <3>1, <3>2, HistoryIs
  <2>4. Reconciles(ledger, None)
    <3>1. ledger \o <<>> = ledger
      BY <2>2, ConcatEmptySeq
    <3>2. QED
      BY <2>3, <3>1 DEF Reconciles
  <2>5. ASSUME terminal # None
        PROVE  Reconciles(ledger, terminal)
    <3>1. PICK r \in Runs : /\ gained[r] \in GatewayResults /\ Starting(History, gained[r], r)
                            /\ Len(History) = Width(gained[r])
                            /\ terminal.sequence = Width(gained[r])
      BY <2>2, <2>5, HistoryIs
    <3>2. /\ Len(History) = Len(ledger) + 1
          /\ \A k \in 1..Len(ledger) : History[k] = ledger[k]
          /\ History[Len(ledger) + 1] = terminal.event
      BY <2>2, <2>5, HistoryIs
    <3>3. \A k \in 1..Len(History) : ObjectOf(History[k]) \subseteq objects
      <4>1. ASSUME NEW k \in 1..Len(History)
            PROVE  ObjectOf(History[k]) \subseteq objects
        <5>1. CASE k <= Len(ledger)
          <6>1. k \in 1..Len(ledger) /\ History[k] = ledger[k]
            BY <2>2, <3>2, <5>1
          <6>2. QED
            BY <2>3, <6>1
        <5>2. CASE k = Len(ledger) + 1
          BY <2>2, <2>5, <3>2, <5>2 DEF ObjectsInv
        <5>3. QED
          BY <2>2, <3>2, <5>1, <5>2
      <4>2. QED
        BY <4>1
    <3>4. \A k \in 1..Len(History) : /\ StoredLegally(SubSeq(History, 1, k - 1), History[k])
                                     /\ ResultLinks(History, History[k])
      BY <3>1, StartReconciles
    <3>5. History = ledger \o <<terminal.event>>
      BY <2>5 DEF History
    <3>6. QED
      BY <2>5, <3>1, <3>2, <3>3, <3>4, <3>5 DEF Reconciles
  <2>6. QED
    BY <2>4, <2>5 DEF LedgerReconciles
<1>2. QED
  BY <1>1, Invariance, PTL

\* Validating against a listing and publishing at the next number adds the event in one step.
LEMMA EntryIsRecorded ==
  ASSUME IInv, NEW w \in Runs, PublishEntry(w), TakesNumber(w)
  PROVE  Abstract!Next
<1>1. /\ run[w].stage = "publish" /\ Current(w).state # "terminal_published"
      /\ ledger' = Append(ledger, Current(w))
      /\ run' = [run EXCEPT ![w].stage = "receipt", ![w].seen = 0, ![w].created = TRUE]
      /\ UNCHANGED <<dir, objects, terminal, gained, counted, orderly>>
  BY DEF PublishEntry, At, TakesNumber
<1>2. IInv' /\ terminal = None
  BY <1>1, EntryKeeps
<1>3. /\ TypeOK /\ LedgerInv /\ ProgramInv(w)
      /\ ledger \in Seq(Abstract!Events) /\ Len(ledger) \in Nat
      /\ run[w].source \in Runs
  BY LedgerType, RunType DEF IInv, TypeOK
<1>4. /\ Works(w) /\ run[w].at \in Nat \ {0} /\ Len(ledger) = run[w].at - 1
      /\ Current(w) \in Abstract!Events
      /\ \A j \in 1..(run[w].at - 1) : ledger[j] = Nth(Result(w), run[w].source, j)
  BY <1>1, PublishFacts DEF TakesNumber
<1>5. History = ledger /\ History' = Append(History, Current(w))
  <2>1. ledger' \in Seq(Abstract!Events) /\ terminal' = None
    BY <1>1, <1>2 DEF IInv, TypeOK
  <2>2. ledger \o <<>> = ledger /\ ledger' \o <<>> = ledger'
    BY <1>3, <2>1, ConcatEmptySeq
  <2>3. QED
    BY <1>1, <1>2, <2>1, <2>2 DEF History
<1> DEFINE e == Current(w)
<1>6. /\ LastState(ledger) \in Abstract!Previous(e.state)
      /\ e.state = "attempt_recorded" => e.ordinal = AttemptCount(ledger) + 1
      /\ \A k \in 1..Len(ledger) : ledger[k].run \in {None, e.run}
  <2>1. CASE run[w].at <= 2
    <3> DEFINE n == run[w].at - 1
    <3>1. n \in 0..1 /\ n = Len(ledger) /\ n + 1 = run[w].at
      BY <1>4, <2>1
    <3>2. e = Abstract!Opening[n + 1]
      BY <1>3, <1>4, <2>1, <3>1, CurrentIs
    <3>3. \A k \in 1..n : ledger[k] = Abstract!Opening[k]
      BY <1>3, <3>1, LedgerAt
    <3> HIDE DEF n, e
    <3>4. QED
      BY <1>3, <3>1, <3>2, <3>3, OpeningIsLegal
  <2>2. CASE run[w].at > 2
    <3> DEFINE g == Result(w)
               r == run[w].source
               n == run[w].at - 1
    <3>1. /\ g \in GatewayResults /\ r \in Runs /\ run[w].at \in 1..Width(g)
          /\ e = Nth(g, r, run[w].at)
      BY <1>3, <1>4, <2>2, CurrentIs
    <3>2. n \in Nat /\ n = Len(ledger) /\ n < Width(g) /\ e = Nth(g, r, n + 1)
      <4>1. Width(g) \in Nat
        BY <3>1, NthFacts
      <4>2. n \in Nat /\ n = Len(ledger) /\ n + 1 = run[w].at /\ run[w].at <= Width(g)
        BY <1>3, <1>4, <3>1, <4>1
      <4>3. n < Width(g)
        BY <4>1, <4>2
      <4>4. QED
        BY <3>1, <4>2, <4>3
    <3>3. Starting(ledger, g, r)
      BY <1>3, <1>4, <3>1, <3>2, NthFacts DEF Starting
    <3> HIDE DEF g, r, n, e
    <3>4. QED
      BY <3>1, <3>2, <3>3, NextIsLegal
  <2>3. QED
    BY <1>4, <2>1, <2>2
<1>7. Abstract!Record(e)
  BY <1>5, <1>6 DEF Abstract!Record, Abstract!Extends, Abstract!OfTheSameRun, LastState,
                    AttemptCount
<1>8. QED
  BY <1>4, <1>7 DEF Abstract!Next

\* Publishing the terminal adds the last event in one step.
LEMMA TerminalIsRecorded ==
  ASSUME IInv, NEW w \in Runs, PublishTerminal(w), terminal = None
  PROVE  Abstract!Next
<1>1. /\ run[w].stage = "publish" /\ Current(w).state = "terminal_published"
      /\ terminal' = [event |-> Current(w), sequence |-> run[w].seen + 1]
      /\ UNCHANGED ledger
  BY DEF PublishTerminal, At
<1>2. /\ ledger \in Seq(Abstract!Events) /\ Len(ledger) \in Nat
      /\ run[w].source \in Runs /\ run[w].at \in Nat \ {0} /\ run[w].seen = run[w].at - 1
      /\ Current(w) \in Abstract!Events
  BY <1>1, LedgerType, RunType, PublishFacts DEF IInv, TypeOK
<1> DEFINE g == Result(w)
           r == run[w].source
           n == Len(ledger)
           e == Current(w)
<1>3. /\ g \in GatewayResults /\ r \in Runs /\ n \in Nat /\ n < Width(g)
      /\ e = Nth(g, r, n + 1)
  BY <1>1, <1>2, TerminalPlace, NthFacts
<1>4. Starting(ledger, g, r)
  BY <1>1, <1>2, <1>3, TerminalPlace, NthFacts DEF Starting, Holds, Result
<1>5. /\ LastState(ledger) \in Abstract!Previous(e.state)
      /\ e.state = "attempt_recorded" => e.ordinal = AttemptCount(ledger) + 1
      /\ \A k \in 1..Len(ledger) : ledger[k].run \in {None, e.run}
  <2> HIDE DEF g, r, e
  <2>1. QED
    BY <1>3, <1>4, NextIsLegal
<1>6. History = ledger
  BY <1>2, ConcatEmptySeq DEF History
<1>7. History' = Append(History, e)
  <2>1. [event |-> e, sequence |-> run[w].seen + 1] # None
    <3>1. run[w].seen + 1 \in Nat \ {0}
      BY <1>2
    <3>2. [event |-> e, sequence |-> run[w].seen + 1]
            \in [event : Abstract!Events, sequence : Nat \ {0}]
      BY <1>2, <3>1
    <3>3. QED
      BY <3>2, AttemptAssumption
  <2>2. terminal' # None /\ terminal'.event = e
    BY <1>1, <2>1
  <2>3. Append(ledger, e) = ledger \o <<e>>
    BY <1>2, AppendIsConcat
  <2>4. QED
    BY <1>1, <1>6, <2>2, <2>3 DEF History
<1>8. Abstract!Record(e)
  BY <1>5, <1>6, <1>7 DEF Abstract!Record, Abstract!Extends, Abstract!OfTheSameRun, LastState,
                          AttemptCount
<1>9. QED
  BY <1>2, <1>8 DEF Abstract!Next

\* The store implements the ledger that takes one event at a time.
THEOREM StoreImplementsLedger == Spec => ImplementsLedger
<1>1. Init => Abstract!Init
  <2>1. SUFFICES ASSUME Init PROVE Abstract!Init
    OBVIOUS
  <2>2. <<>> \o <<>> = <<>>
    OBVIOUS
  <2>3. QED
    BY <2>1, <2>2 DEF Init, Abstract!Init, History
<1>2. IInv /\ [Next]_vars => [Abstract!Next]_History
  <2>1. SUFFICES ASSUME IInv, [Next]_vars PROVE Abstract!Next \/ UNCHANGED History
    OBVIOUS
  <2>2. CASE UNCHANGED <<ledger, terminal>>
    BY <2>2 DEF History
  <2>3. ASSUME NEW w \in Runs, Step(w)
        PROVE  Abstract!Next \/ UNCHANGED <<ledger, terminal>>
    <3>1. CASE PublishEntry(w)
      BY <2>1, <3>1, EntryIsRecorded DEF PublishEntry
    <3>2. CASE PublishTerminal(w)
      BY <2>1, <3>2, TerminalIsRecorded DEF PublishTerminal
    <3>3. CASE ~PublishEntry(w) /\ ~PublishTerminal(w)
      BY <2>3, <3>3 DEF Step, Begin, List, CheckState, Verify, Guard, PutObject, AppendEvent,
                        MakeDirectory, LookAgain, Receipt, Execute, Crash, diskVars
    <3>4. QED
      BY <3>1, <3>2, <3>3
  <2>4. QED
    BY <2>1, <2>2, <2>3 DEF Next, vars
<1>3. QED
  BY <1>1, <1>2, Invariance, PTL DEF Spec, ImplementsLedger, Abstract!Spec

----------------------------------------------------------------------------
\* What a crash can damage

\* Whoever publishes has found, or made, the ledger's directory, and so has what is published.
DirInv ==
  /\ ledger # <<>> => dir = "ledger"
  /\ \A w \in Runs : run[w].stage = "publish" => dir = "ledger"

\* The stages that follow in an operation come before the event is published.
LEMMA AfterIsEarly ==
  ASSUME IInv, NEW w \in Runs, run[w].stage \in {"verify", "guard", "object"}
  PROVE  After(w, run[w].stage) \in {"append", "object", "guard"}
<1>1. /\ TypeOK /\ ProgramInv(w) /\ StageInv(w) /\ Works(w)
  BY DEF IInv, Works, Busy
<1>2. Current(w).state \in {"prepared", "started", "attempt_recorded"} \cup Abstract!LateStates
  BY <1>1, CurrentState
<1>3. /\ run[w].stage = "object" => Current(w).state \notin {"prepared", "started"}
      /\ run[w].stage = "guard" => Current(w).state \in Abstract!LateStates
  BY <1>1 DEF StageInv
<1> QED BY <1>2, <1>3, AfterFacts DEF Abstract!LateStates

\* Nobody goes to publish without the ledger's directory.
LEMMA DirKept ==
  ASSUME IInv, DirInv, NEW w \in Runs, Step(w)
  PROVE  DirInv'
<1>1. CASE dir = "ledger"
  <2>1. dir' = "ledger"
    BY <1>1 DEF Step, Begin, List, CheckState, Verify, Guard, PutObject, AppendEvent,
         MakeDirectory, PublishEntry, PublishTerminal, LookAgain, Receipt, Execute, Crash, diskVars
  <2> QED BY <2>1 DEF DirInv
<1>2. CASE dir # "ledger"
  <2>1. ledger = <<>> /\ \A v \in Runs : run[v].stage # "publish"
    BY <1>2 DEF DirInv
  <2>2. TypeOK /\ run \in [Runs -> Programs]
    BY DEF IInv, TypeOK
  <2>3. ASSUME NEW s \in Stages \ {"publish"}, GoTo(w, s)
        PROVE  \A v \in Runs : run'[v].stage # "publish"
    BY <2>1, <2>2, <2>3, GoToFacts
  <2>4. ASSUME NEW o \in Outcomes, Raise(w, o)
        PROVE  \A v \in Runs : run'[v].stage # "publish"
    BY <2>1, <2>2, <2>4, RaiseFacts
  <2>5. ASSUME NEW r, run' = [run EXCEPT ![w] = r], r.stage # "publish"
        PROVE  \A v \in Runs : run'[v].stage # "publish"
    BY <2>1, <2>2, <2>5
  <2>6. CASE MakeDirectory(w)
    <3>1. UNCHANGED ledger
      BY <2>6 DEF MakeDirectory
    <3>2. dir' # "ledger" => run' = run
      BY <2>6 DEF MakeDirectory
    <3> QED BY <2>1, <3>1, <3>2 DEF DirInv
  <2>7. ~At(w, "publish") /\ ~PublishEntry(w) /\ ~PublishTerminal(w)
    BY <2>1 DEF At, PublishEntry, PublishTerminal
  <2>8. CASE AppendEvent(w)
    <3>1. UNCHANGED ledger
      BY <2>8 DEF AppendEvent, diskVars
    <3>2. /\ ProgramInv(w) /\ Works(w) /\ Busy(w) /\ run[w].at \in Nat
      BY <2>2, <2>8, RunType DEF IInv, AppendEvent, Listed, At, Works, Busy
    <3>3. run[w].at - 1 <= 0
      <4>1. Len(ledger) = 0
        BY <2>1
      <4> QED BY <3>2, <4>1 DEF ProgramInv
    <3>4. Current(w).state # "terminal_published"
      <4>1. Result(w) # None => Width(Result(w)) >= 6
        BY <2>2, ResultType, RunType, NthFacts, AttemptAssumption DEF Result, Width, Before
      <4> QED BY <2>2, <3>2, <3>3, <4>1, CurrentState
    <3>5. \/ \E o \in {"integrity_error", "replay_rejected", "invalid_transition"} : Raise(w, o)
          \/ GoTo(w, "receipt")
          \/ run' = [run EXCEPT ![w].stage = "mkdir", ![w].listed = FALSE]
      BY <1>2, <2>8, <3>4 DEF AppendEvent, TransitionError
    <3>6. CASE run' = [run EXCEPT ![w].stage = "mkdir", ![w].listed = FALSE]
      <4>1. run' = [run EXCEPT ![w] = [run[w] EXCEPT !.stage = "mkdir", !.listed = FALSE]]
        BY <2>2, <3>6
      <4>2. [run[w] EXCEPT !.stage = "mkdir", !.listed = FALSE].stage # "publish"
        BY <2>2 DEF Programs
      <4>3. \A v \in Runs : run'[v].stage # "publish"
        BY <2>5, <4>1, <4>2
      <4> QED BY <2>1, <3>1, <4>3 DEF DirInv
    <3> QED BY <2>1, <2>3, <2>4, <3>1, <3>5, <3>6 DEF DirInv, Stages, Outcomes, Errors
  <2>9. CASE Verify(w) \/ Guard(w) \/ PutObject(w)
    <3>1. UNCHANGED ledger
      BY <2>9 DEF Verify, Guard, PutObject, diskVars
    <3>2. \/ \E s \in {"append", "object", "guard"} : GoTo(w, s)
          \/ Raise(w, "integrity_error")
          \/ \E o \in {"invalid_transition", "replay_rejected"} : Raise(w, o)
      BY <2>9, AfterIsEarly DEF Verify, Guard, PutObject, At, Listed, GuardError
    <3> QED BY <2>1, <2>3, <2>4, <3>1, <3>2 DEF DirInv, Stages, Outcomes, Errors
  <2>10. CASE CheckState(w) \/ LookAgain(w) \/ Execute(w) \/ Crash(w)
    <3>1. UNCHANGED ledger
      BY <2>10 DEF CheckState, LookAgain, Execute, Crash, diskVars
    <3>2. \/ \E s \in {"verify", "receipt"} : GoTo(w, s)
          \/ \E o \in {"integrity_error", "skipped", "refused", "conflict", "crashed"} : Raise(w, o)
      BY <2>10 DEF CheckState, LookAgain, Execute, Crash
    <3> QED BY <2>1, <2>3, <2>4, <3>1, <3>2 DEF DirInv, Stages, Outcomes, Errors
  <2>11. CASE List(w)
    <3>1. UNCHANGED ledger /\ run[w].stage # "publish"
      BY <2>1, <2>11 DEF List, diskVars
    <3>2. run' = [run EXCEPT ![w] = [run[w] EXCEPT !.listed = TRUE, !.seen = Len(ledger)]]
      BY <2>2, <2>11 DEF List
    <3>3. [run[w] EXCEPT !.listed = TRUE, !.seen = Len(ledger)].stage = run[w].stage
      BY <2>2 DEF Programs
    <3>4. \A v \in Runs : run'[v].stage # "publish"
      BY <2>5, <3>1, <3>2, <3>3
    <3> QED BY <2>1, <3>1, <3>4 DEF DirInv
  <2>12. CASE Begin(w)
    <3>1. UNCHANGED ledger
      BY <2>12 DEF Begin, diskVars
    <3>2. \/ GoTo(w, "check")
          \/ Raise(w, "integrity_error")
          \/ \E r \in Runs : run' = [run EXCEPT ![w].stage = "verify", ![w].source = r]
      BY <2>12 DEF Begin
    <3>3. ASSUME NEW r \in Runs, run' = [run EXCEPT ![w].stage = "verify", ![w].source = r]
          PROVE  \A v \in Runs : run'[v].stage # "publish"
      <4>1. run' = [run EXCEPT ![w] = [run[w] EXCEPT !.stage = "verify", !.source = r]]
        BY <2>2, <3>3
      <4>2. [run[w] EXCEPT !.stage = "verify", !.source = r].stage # "publish"
        BY <2>2 DEF Programs
      <4> QED BY <2>5, <4>1, <4>2
    <3> QED BY <2>1, <2>3, <2>4, <3>1, <3>2, <3>3 DEF DirInv, Stages, Outcomes, Errors
  <2>13. CASE Receipt(w)
    <3>1. UNCHANGED ledger
      BY <2>13 DEF Receipt, diskVars
    <3>2. FALSE
      <4>1. run[w].stage = "receipt" /\ StageInv(w) /\ LedgerInv /\ run[w].at \in Nat \ {0}
        BY <2>2, <2>13, RunType DEF Receipt, At, IInv
      <4>2. Len(ledger) = 0
        BY <2>1
      <4>3. terminal # None
        BY <4>1, <4>2 DEF StageInv
      <4>4. PICK r \in Runs : Holds(r) /\ Len(ledger) + 1 = Width(gained[r])
        BY <4>1, <4>3 DEF LedgerInv
      <4>5. Width(gained[r]) >= 6
        BY <2>2, <4>4, ResultType, NthFacts, AttemptAssumption DEF Holds, Width, Before
      <4> QED BY <4>2, <4>4, <4>5
    <3> QED BY <3>2
  <2> QED BY <2>6, <2>7, <2>8, <2>9, <2>10, <2>11, <2>12, <2>13 DEF Step
<1> QED BY <1>1, <1>2

\* So nobody publishes, at any point of a behaviour, without the directory.
LEMMA DirHolds == Spec => [](IInv /\ DirInv)
<1>1. Init => IInv /\ DirInv
  <2>1. Init => DirInv
    BY DEF Init, DirInv
  <2> QED BY <2>1, Starts
<1>2. IInv /\ DirInv /\ [Next]_vars => (IInv /\ DirInv)'
  <2>1. ASSUME UNCHANGED vars, DirInv PROVE DirInv'
    BY <2>1 DEF vars, DirInv
  <2> QED BY <2>1, DirKept, Steps DEF Next
<1> QED BY <1>1, <1>2, PTL DEF Spec

\* When the store cannot be read, a run has died, or is at work, between the two directories it
\* makes for the request's first event: nothing is on record then.  No other interruption, at
\* whatever step and of however many runs, damages what is stored.
THEOREM OnlyTheEmptyDirectoryIsUnreadable ==
  Spec => [](Sound \/ (dir = "request" /\ ledger = <<>> /\ terminal = None))
<1>1. IInv /\ DirInv /\ LedgerReconciles =>
        Sound \/ (dir = "request" /\ ledger = <<>> /\ terminal = None)
  <2> SUFFICES ASSUME IInv, DirInv, LedgerReconciles
               PROVE  Sound \/ (dir = "request" /\ ledger = <<>> /\ terminal = None)
    OBVIOUS
  <2>1. terminal # None => ledger # <<>>
    <3> SUFFICES ASSUME terminal # None, ledger = <<>> PROVE FALSE
      OBVIOUS
    <3>1. PICK r \in Runs : Holds(r) /\ Len(ledger) + 1 = Width(gained[r])
      BY DEF IInv, LedgerInv
    <3>2. Width(gained[r]) >= 6
      BY <3>1, ResultType, NthFacts, AttemptAssumption DEF Holds, Width, Before, IInv
    <3> QED BY <3>1, <3>2
  <2> QED BY <2>1 DEF DirInv, LedgerReconciles, Sound
<1> QED BY <1>1, DirHolds, LedgerAlwaysReconciles, PTL

=============================================================================
