------------------------ MODULE CircuitBreaker_proofs ------------------------
(***************************************************************************)
(* Proofs about CircuitBreaker, for any settings and any number of         *)
(* requests at a time.                                                     *)
(***************************************************************************)
EXTENDS CircuitBreaker, FiniteSetTheorems, TLAPS

\* The counts of c stand for every admitted request but n: each one is in the
\* counts as a result, still out, or was cut short.
Accounts(c, n) ==
  /\ c \in Breaker
  /\ Cardinality(c.own) <= c.requests
  /\ c.requests <= c.successes + c.failures + Cardinality(c.own) + c.lost + n
  /\ c.state = "half" =>
       /\ c.requests <= MaxRequests
       /\ c.consecutive = 0 \/ c.consecutive < MaxRequests
       /\ c.requests <= c.consecutive + Cardinality(c.own) + c.lost + n

\* The inductive invariant: ProbesDecide needs that half-open is left as soon
\* as enough successes are in, and that every slot given away is accounted for.
BreakerInv == TypeOK /\ Accounts(cb, 0)

-----------------------------------------------------------------------------
(* The functions of the breaker.                                           *)

\* The requests in flight are finitely many.
LEMMA OwnFinite ==
  ASSUME NEW c \in Breaker
  PROVE  IsFiniteSet(c.own) /\ Cardinality(c.own) \in Nat
<1>1. IsFiniteSet(c.own)
  BY SettingsOK, FS_Subset DEF Breaker
<1> QED
  BY <1>1, FS_CardinalityType

\* Giving fields of a breaker new values of their types leaves it a breaker.
LEMMA UpdatedTyped ==
  ASSUME NEW c \in Breaker, NEW m \in Nat, NEW n \in Nat,
         NEW S \in SUBSET Requests
  PROVE  /\ [c EXCEPT !.successes = m, !.consecutive = n] \in Breaker
         /\ [c EXCEPT !.failures = m, !.consecutive = n] \in Breaker
         /\ [c EXCEPT !.requests = m, !.own = S] \in Breaker
  BY DEF Breaker

\* A breaker that has just changed state or begun a period owes nothing.
LEMMA ClearedAccounts ==
  ASSUME NEW c \in Breaker, NEW s \in {"closed", "open", "half"}
  PROVE  /\ Accounts(SetState(c, s), 0)
         /\ SetState(c, s).own = {}
         /\ c.state # "half" => Accounts(ToNewGeneration(c), 0)
         /\ ToNewGeneration(c).own = {}
<1>1. Cardinality({}) = 0
  BY FS_EmptySet
<1>2. /\ SetState(c, s) \in Breaker
      /\ ToNewGeneration(c) \in Breaker
  BY SettingsOK DEF SetState, ToNewGeneration, Reset, Breaker
<1>3. /\ SetState(c, s).own = {}
      /\ SetState(c, s).requests = 0
      /\ SetState(c, s).successes = 0
      /\ SetState(c, s).failures = 0
      /\ SetState(c, s).consecutive = 0
      /\ SetState(c, s).lost = 0
  BY DEF SetState, Reset, Breaker
<1>4. /\ ToNewGeneration(c).own = {}
      /\ ToNewGeneration(c).requests = 0
      /\ ToNewGeneration(c).successes = 0
      /\ ToNewGeneration(c).failures = 0
      /\ ToNewGeneration(c).lost = 0
      /\ ToNewGeneration(c).state = c.state
  BY DEF ToNewGeneration, Reset, Breaker
<1> QED
  BY <1>1, <1>2, <1>3, <1>4, SettingsOK DEF Accounts

\* Bringing the breaker up to date loses no request, and forgets those of the
\* counts it clears.
LEMMA CurrentAccounts ==
  ASSUME NEW c, Accounts(c, 0)
  PROVE  /\ Accounts(CurrentState(c), 0)
         /\ CurrentState(c).own \subseteq c.own
<1>1. c \in Breaker
  BY DEF Accounts
<1> QED
  BY <1>1, ClearedAccounts DEF CurrentState

\* A request that ends is owed until its result is counted.
LEMMA ReturnedAccounts ==
  ASSUME TypeOK, Accounts(cb, 0), NEW r \in Requests
  PROVE  /\ Accounts(Returned(r), 1)
         /\ Returned(r).own = cb.own \ {r}
         /\ r \notin cb.own => Returned(r) = cb
<1>1. cb \in Breaker
  BY DEF TypeOK
<1>2. IsFiniteSet(cb.own) /\ Cardinality(cb.own) \in Nat
  BY <1>1, OwnFinite
<1>3. /\ Cardinality(cb.own \ {r}) \in Nat
      /\ Cardinality(cb.own \ {r}) <= Cardinality(cb.own)
      /\ Cardinality(cb.own) <= Cardinality(cb.own \ {r}) + 1
  <2>1. CASE r \in cb.own
    <3>1. Cardinality(cb.own \ {r}) = Cardinality(cb.own) - 1
      BY <1>2, <2>1, FS_RemoveElement
    <3>2. Cardinality(cb.own \ {r}) \in Nat
      BY <1>2, FS_Subset, FS_CardinalityType, cb.own \ {r} \subseteq cb.own
    <3> QED
      BY <1>2, <3>1, <3>2
  <2>2. CASE r \notin cb.own
    <3>1. cb.own \ {r} = cb.own
      BY <2>2
    <3> QED
      BY <1>2, <3>1
  <2> QED
    BY <2>1, <2>2
<1>4. /\ Returned(r) \in Breaker
      /\ Returned(r).own = cb.own \ {r}
      /\ Returned(r).requests = cb.requests
      /\ Returned(r).successes = cb.successes
      /\ Returned(r).failures = cb.failures
      /\ Returned(r).consecutive = cb.consecutive
      /\ Returned(r).lost = cb.lost
      /\ Returned(r).state = cb.state
  BY <1>1 DEF Returned, Breaker
<1>5. Accounts(Returned(r), 1)
  BY <1>1, <1>2, <1>3, <1>4, SettingsOK DEF Accounts, Breaker
<1>6. r \notin cb.own => Returned(r) = cb
  BY <1>1 DEF Returned, Breaker
<1> QED
  BY <1>4, <1>5, <1>6

\* Counting a result settles what was owed.
LEMMA ResultAccounts ==
  ASSUME NEW c, Accounts(c, 1)
  PROVE  /\ Accounts(OnSuccess(c), 0)
         /\ Accounts(OnFailure(c), 0)
         /\ OnSuccess(c).own \subseteq c.own
         /\ OnFailure(c).own \subseteq c.own
<1> DEFINE won == [c EXCEPT !.successes = @ + 1, !.consecutive = @ + 1]
           bad == [c EXCEPT !.failures = @ + 1, !.consecutive = 0]
<1>1. c \in Breaker
  BY DEF Accounts
<1>2. Cardinality(c.own) \in Nat
  BY <1>1, OwnFinite
<1>a. /\ c.successes + 1 \in Nat
      /\ c.consecutive + 1 \in Nat
      /\ c.failures + 1 \in Nat
  BY <1>1 DEF Breaker
<1>b. won \in Breaker /\ bad \in Breaker
  BY <1>1, <1>a, UpdatedTyped
<1>3. /\ won.own = c.own
      /\ won.requests = c.requests
      /\ won.successes = c.successes + 1
      /\ won.failures = c.failures
      /\ won.consecutive = c.consecutive + 1
      /\ won.lost = c.lost
      /\ won.state = c.state
  BY <1>1 DEF Breaker
<1>4. /\ bad.own = c.own
      /\ bad.requests = c.requests
      /\ bad.successes = c.successes
      /\ bad.failures = c.failures + 1
      /\ bad.lost = c.lost
      /\ bad.state = c.state
  BY <1>1 DEF Breaker
<1>5. ~(c.state = "half" /\ won.consecutive >= MaxRequests) => Accounts(won, 0)
  BY <1>1, <1>2, <1>b, <1>3, SettingsOK DEF Accounts, Breaker
<1>6. c.state # "half" => Accounts(bad, 0)
  BY <1>1, <1>2, <1>b, <1>4, SettingsOK DEF Accounts, Breaker
<1>7. /\ Accounts(OnSuccess(c), 0)
      /\ OnSuccess(c).own \subseteq c.own
  <2> HIDE DEF won
  <2>1. OnSuccess(c) = IF c.state = "half" /\ won.consecutive >= MaxRequests
                       THEN SetState(won, "closed") ELSE won
    BY DEF OnSuccess, won
  <2> QED
    BY <1>b, <1>3, <1>5, <2>1, ClearedAccounts
<1>8. /\ Accounts(OnFailure(c), 0)
      /\ OnFailure(c).own \subseteq c.own
  <2> HIDE DEF bad
  <2>1. OnFailure(c) = IF c.state = "half" \/ (c.state = "closed" /\ ShouldTrip(bad))
                       THEN SetState(bad, "open") ELSE bad
    BY DEF OnFailure, bad
  <2> QED
    BY <1>b, <1>4, <1>6, <2>1, ClearedAccounts
<1> QED
  BY <1>7, <1>8

-----------------------------------------------------------------------------
(* The invariant.                                                          *)

\* Every admission, result, abort and clock step keeps the accounts.
LEMMA BreakerStep == BreakerInv /\ [Next]_vars => BreakerInv'
<1> SUFFICES ASSUME BreakerInv, [Next]_vars PROVE BreakerInv'
  OBVIOUS
<1> USE DEF BreakerInv
<1>0. cb \in Breaker
  BY DEF TypeOK
<1>1. ASSUME NEW r \in Requests, Admit(r) PROVE BreakerInv'
  <2> DEFINE c == CurrentState(cb)
  <2>1. /\ Accounts(c, 0)
        /\ c.own \subseteq cb.own
    BY CurrentAccounts
  <2> HIDE DEF c
  <2>2. /\ r \notin inFlight
        /\ Admits(c)
        /\ cb' = [c EXCEPT !.requests = @ + 1, !.own = @ \cup {r}]
        /\ inFlight' = inFlight \cup {r}
        /\ UNCHANGED <<tripped, aborts>>
    BY <1>1 DEF Admit, c
  <2>3. c \in Breaker
    BY <2>1 DEF Accounts
  <2>4. r \notin c.own
    BY <2>1, <2>2 DEF TypeOK
  <2>5. /\ Cardinality(c.own) \in Nat
        /\ Cardinality(c.own \cup {r}) = Cardinality(c.own) + 1
    BY <2>3, <2>4, OwnFinite, FS_AddElement
  <2>c. c.requests + 1 \in Nat /\ c.own \cup {r} \in SUBSET Requests
    BY <2>3 DEF Breaker
  <2>d. cb' \in Breaker
    BY <2>2, <2>3, <2>c, UpdatedTyped
  <2>6. /\ cb'.own = c.own \cup {r}
        /\ cb'.requests = c.requests + 1
        /\ cb'.successes = c.successes
        /\ cb'.failures = c.failures
        /\ cb'.consecutive = c.consecutive
        /\ cb'.lost = c.lost
        /\ cb'.state = c.state
    BY <2>2, <2>3 DEF Breaker
  <2>7. Accounts(cb', 0)
    BY <2>1, <2>2, <2>3, <2>5, <2>6, <2>d, SettingsOK DEF Accounts, Admits, Breaker
  <2>8. TypeOK'
    BY <2>1, <2>2, <2>6, <2>d DEF TypeOK
  <2> QED
    BY <2>7, <2>8
<1>2. ASSUME NEW r \in Requests, Ends(r), NEW c, cb' = c, Accounts(c, 0),
             c.own \subseteq cb.own \ {r},
             tripped' \in BOOLEAN, aborts' \in Nat
      PROVE  BreakerInv'
  <2>1. TypeOK'
    BY <1>2 DEF TypeOK, Ends, Accounts
  <2> QED
    BY <1>2, <2>1
<1>3. ASSUME NEW r \in Requests, Succeeds(r) PROVE BreakerInv'
  <2>1. /\ Accounts(OnSuccess(Returned(r)), 0)
        /\ OnSuccess(Returned(r)).own \subseteq cb.own \ {r}
    BY ReturnedAccounts, ResultAccounts
  <2> QED
    BY <1>2, <1>3, <2>1 DEF Succeeds, TypeOK
<1>4. ASSUME NEW r \in Requests, Fails(r) PROVE BreakerInv'
  <2>1. /\ Accounts(OnFailure(Returned(r)), 0)
        /\ OnFailure(Returned(r)).own \subseteq cb.own \ {r}
    BY ReturnedAccounts, ResultAccounts
  <2>2. tripped' \in BOOLEAN
    BY <1>4 DEF Fails, TypeOK
  <2> QED
    BY <1>2, <1>4, <2>1, <2>2 DEF Fails, TypeOK
<1>5. ASSUME NEW r \in Requests, Aborts(r) PROVE BreakerInv'
  <2> DEFINE c == Returned(r)
  <2>1. /\ Accounts(c, 1)
        /\ c.own = cb.own \ {r}
        /\ r \notin cb.own => c = cb
    BY ReturnedAccounts
  <2> HIDE DEF c
  <2>2. cb' = [c EXCEPT !.lost = IF r \in cb.own THEN @ + 1 ELSE @]
    BY <1>5 DEF Aborts, c
  <2>3. c \in Breaker
    BY <2>1 DEF Accounts
  <2>4. aborts' \in Nat /\ tripped' \in BOOLEAN
    BY <1>5 DEF Aborts, TypeOK
  <2>5. CASE r \in cb.own
    <3>1. /\ cb' \in Breaker
          /\ cb'.own = c.own
          /\ cb'.requests = c.requests
          /\ cb'.successes = c.successes
          /\ cb'.failures = c.failures
          /\ cb'.consecutive = c.consecutive
          /\ cb'.lost = c.lost + 1
          /\ cb'.state = c.state
      BY <2>2, <2>3, <2>5 DEF Breaker
    <3>2. Cardinality(c.own) \in Nat
      BY <2>3, OwnFinite
    <3>3. Accounts(cb', 0)
      BY <2>1, <2>3, <3>1, <3>2, SettingsOK DEF Accounts, Breaker
    <3>4. cb'.own \subseteq cb.own \ {r}
      BY <2>1, <3>1
    <3> QED
      BY <1>2, <1>5, <2>4, <3>3, <3>4 DEF Aborts
  <2>6. CASE r \notin cb.own
    <3>1. cb' = cb
      BY <2>1, <2>2, <2>3, <2>6 DEF Breaker
    <3>2. cb.own \subseteq cb.own \ {r}
      BY <2>6
    <3> QED
      BY <1>2, <1>5, <2>4, <3>1, <3>2 DEF Aborts
  <2> QED
    BY <2>5, <2>6
<1>6. CASE Observe
  BY <1>6, CurrentAccounts DEF Observe, TypeOK, Accounts
<1>7. CASE TimePasses
  <2>1. /\ cb' \in Breaker
        /\ cb'.own = cb.own
        /\ cb'.requests = cb.requests
        /\ cb'.successes = cb.successes
        /\ cb'.failures = cb.failures
        /\ cb'.consecutive = cb.consecutive
        /\ cb'.lost = cb.lost
        /\ cb'.state = cb.state
    BY <1>0, <1>7 DEF TimePasses, Breaker
  <2> QED
    BY <1>7, <2>1 DEF TimePasses, TypeOK, Accounts
<1>8. CASE UNCHANGED vars
  BY <1>8 DEF vars, TypeOK, Accounts
<1> QED
  BY <1>1, <1>3, <1>4, <1>5, <1>6, <1>7, <1>8 DEF Next

\* The invariant holds in every reachable state.
LEMMA BreakerInvariant == Spec => []BreakerInv
<1>1. Init => BreakerInv
  <2> SUFFICES ASSUME Init PROVE BreakerInv
    OBVIOUS
  <2>1. /\ cb \in Breaker
        /\ cb.own = {}
    BY DEF Init, Breaker
  <2>2. Cardinality(cb.own) = 0
    BY <2>1, FS_EmptySet
  <2>3. /\ cb.requests = 0
        /\ cb.successes = 0
        /\ cb.failures = 0
        /\ cb.lost = 0
        /\ cb.state = "closed"
    BY DEF Init
  <2>4. Accounts(cb, 0)
    BY <2>1, <2>2, <2>3 DEF Accounts
  <2>5. TypeOK
    BY <2>1 DEF Init, TypeOK
  <2> QED
    BY <2>4, <2>5 DEF BreakerInv
<1> QED
  BY <1>1, BreakerStep, PTL DEF Spec

\* The types of the breaker, with any number of requests in flight.
THEOREM BreakerTypeCorrect == Spec => []TypeOK
<1>1. BreakerInv => TypeOK
  BY DEF BreakerInv
<1> QED
  BY <1>1, BreakerInvariant, PTL

\* A recovering backend never has more than MaxRequests probes out.
THEOREM ProbesBoundedCorrect == Spec => []ProbesBounded
<1>1. BreakerInv => ProbesBounded
  <2> SUFFICES ASSUME BreakerInv, cb.state = "half"
               PROVE  Cardinality(cb.own) <= MaxRequests
    BY DEF ProbesBounded
  <2>1. cb \in Breaker /\ Cardinality(cb.own) \in Nat
    BY OwnFinite DEF BreakerInv, TypeOK
  <2> QED
    BY <2>1, SettingsOK DEF BreakerInv, Accounts, Breaker
<1> QED
  BY <1>1, BreakerInvariant, PTL

\* Half-open with all slots given away waits for a result or lost a request
\* (circuitbreaker.go: Execute), provided that it has slots to give away.
THEOREM ProbesDecideCorrect == ASSUME MaxRequests > 0 PROVE Spec => []ProbesDecide
<1>1. BreakerInv => ProbesDecide
  <2> SUFFICES ASSUME BreakerInv, cb.state = "half", cb.requests >= MaxRequests,
                      cb.own = {}
               PROVE  cb.lost > 0
    BY DEF ProbesDecide
  <2>1. cb \in Breaker /\ Cardinality(cb.own) = 0
    BY FS_EmptySet DEF BreakerInv, TypeOK
  <2> QED
    BY <2>1, SettingsOK DEF BreakerInv, Accounts, Breaker
<1> QED
  BY <1>1, BreakerInvariant, PTL

\* The counts account for every request they admitted.
THEOREM CountsConservedCorrect == Spec => []CountsConserved
<1>1. BreakerInv => CountsConserved
  <2> SUFFICES ASSUME BreakerInv PROVE CountsConserved
    OBVIOUS
  <2>1. cb \in Breaker /\ Cardinality(cb.own) \in Nat
    BY OwnFinite DEF BreakerInv, TypeOK
  <2> QED
    BY <2>1 DEF BreakerInv, Accounts, CountsConserved, Breaker
<1> QED
  BY <1>1, BreakerInvariant, PTL

-----------------------------------------------------------------------------
(* Open and closed periods.                                                *)

\* What the functions of the breaker do to its state and to its clock.
LEMMA ClockOf ==
  ASSUME NEW c \in Breaker
  PROVE  /\ \A s \in {"closed", "open", "half"} :
              /\ SetState(c, s).state = s
              /\ ~SetState(c, s).aged
              /\ s = "closed" /\ HasInterval => SetState(c, s).expiry = "ahead"
         /\ ToNewGeneration(c).state = c.state
         /\ ~ToNewGeneration(c).aged
         /\ HasInterval => ToNewGeneration(c).expiry = "ahead"
  BY DEF SetState, ToNewGeneration, Reset, Breaker

\* A breaker has the same state and the same clock as another.
SameClock(c, d) == c.state = d.state /\ c.expiry = d.expiry /\ c.aged = d.aged

\* Counting a result leaves state and clock alone or changes the state: from
\* half-open to closed, or from closed or half-open to open.
LEMMA ResultClock ==
  ASSUME NEW c \in Breaker
  PROVE  /\ \/ SameClock(OnSuccess(c), c)
            \/ /\ c.state = "half"
               /\ OnSuccess(c).state = "closed"
               /\ ~OnSuccess(c).aged
               /\ HasInterval => OnSuccess(c).expiry = "ahead"
         /\ \/ SameClock(OnFailure(c), c)
            \/ c.state \in {"closed", "half"} /\ OnFailure(c).state = "open"
<1> DEFINE won == [c EXCEPT !.successes = @ + 1, !.consecutive = @ + 1]
           bad == [c EXCEPT !.failures = @ + 1, !.consecutive = 0]
<1>a. c.successes + 1 \in Nat /\ c.consecutive + 1 \in Nat /\ c.failures + 1 \in Nat
  BY DEF Breaker
<1>1. won \in Breaker /\ bad \in Breaker
  BY <1>a, UpdatedTyped
<1>2. SameClock(won, c) /\ SameClock(bad, c)
  BY DEF SameClock, Breaker
<1>3. /\ OnSuccess(c) = IF c.state = "half" /\ won.consecutive >= MaxRequests
                        THEN SetState(won, "closed") ELSE won
      /\ OnFailure(c) = IF c.state = "half" \/ (c.state = "closed" /\ ShouldTrip(bad))
                        THEN SetState(bad, "open") ELSE bad
  BY DEF OnSuccess, OnFailure
<1> HIDE DEF won, bad
<1> QED
  BY <1>1, <1>2, <1>3, ClockOf

\* A request that returns changes neither state nor clock.
LEMMA ReturnedClock ==
  ASSUME TypeOK, NEW r \in Requests
  PROVE  Returned(r) \in Breaker /\ SameClock(Returned(r), cb)
  BY DEF TypeOK, Returned, Breaker, SameClock

\* Open admits nothing before its timeout has passed, and late results of
\* requests admitted before do not move it.
THEOREM OpenShieldsCorrect == Spec => OpenShields
<1>1. ASSUME TypeOK, [Next]_vars, cb.state = "open", cb.expiry = "ahead"
      PROVE  inFlight' \subseteq inFlight /\ cb'.state = "open"
  <2>0. cb \in Breaker /\ CurrentState(cb) = cb
    BY <1>1 DEF TypeOK, CurrentState
  <2>1. ASSUME NEW r \in Requests, Admit(r) PROVE FALSE
    BY <1>1, <2>0, <2>1 DEF Admit, Admits
  <2>2. ASSUME NEW r \in Requests, Succeeds(r)
        PROVE  inFlight' \subseteq inFlight /\ cb'.state = "open"
    BY <1>1, <2>2, ReturnedClock, ResultClock DEF Succeeds, Ends, SameClock
  <2>3. ASSUME NEW r \in Requests, Fails(r)
        PROVE  inFlight' \subseteq inFlight /\ cb'.state = "open"
    BY <1>1, <2>3, ReturnedClock, ResultClock DEF Fails, Ends, SameClock
  <2>4. ASSUME NEW r \in Requests, Aborts(r)
        PROVE  inFlight' \subseteq inFlight /\ cb'.state = "open"
    BY <1>1, <2>0, <2>4 DEF Aborts, Ends, Returned, Breaker
  <2>5. CASE Observe
    BY <2>0, <2>5 DEF Observe
  <2>6. CASE TimePasses
    BY <1>1, <2>0, <2>6 DEF TimePasses, Breaker
  <2>7. CASE UNCHANGED vars
    BY <1>1, <2>7 DEF vars
  <2> QED
    BY <1>1, <2>1, <2>2, <2>3, <2>4, <2>5, <2>6, <2>7 DEF Next
<1> QED
  BY <1>1, BreakerTypeCorrect, PTL DEF Spec, OpenShields

\* After the first trip a closed breaker has an expiry, and it is behind when
\* the counts are older than Interval: PeriodsAreCyclic needs that the lazy
\* end of a period, looked for at each admission, cannot be missed.
PeriodEnds ==
  HasInterval /\ tripped /\ cb.state = "closed" =>
    cb.expiry # "zero" /\ (cb.aged => cb.expiry = "behind")

\* Bringing the breaker up to date begins a new period for aged counts.
LEMMA CurrentIsFresh ==
  ASSUME TypeOK, PeriodEnds, HasInterval, tripped,
         CurrentState(cb).state = "closed"
  PROVE  ~CurrentState(cb).aged /\ CurrentState(cb).expiry # "zero"
<1>1. cb \in Breaker
  BY DEF TypeOK
<1>2. CASE cb.state = "closed" /\ cb.expiry = "behind"
  BY <1>1, <1>2, ClockOf DEF CurrentState
<1>3. CASE cb.state = "open" /\ cb.expiry = "behind"
  <2>1. CurrentState(cb).state = "half"
    BY <1>1, <1>3, ClockOf DEF CurrentState
  <2> QED
    BY <2>1
<1>4. CASE cb.expiry # "behind" \/ cb.state = "half"
  <2>1. CurrentState(cb) = cb
    BY <1>4 DEF CurrentState
  <2> QED
    BY <1>1, <1>4, <2>1 DEF PeriodEnds, Breaker
<1> QED
  BY <1>1, <1>2, <1>3, <1>4 DEF Breaker

\* Admissions, results and the clock keep the end of the period in sight.
LEMMA PeriodStep == TypeOK /\ PeriodEnds /\ [Next]_vars => PeriodEnds'
<1> SUFFICES ASSUME TypeOK, PeriodEnds, [Next]_vars PROVE PeriodEnds'
  OBVIOUS
<1>0. cb \in Breaker
  BY DEF TypeOK
<1>1. ASSUME NEW r \in Requests, Admit(r) PROVE PeriodEnds'
  <2> DEFINE c == CurrentState(cb)
  <2>1. c \in Breaker
    BY <1>0, SettingsOK DEF CurrentState, ToNewGeneration, SetState, Reset, Breaker
  <2>2. /\ cb' = [c EXCEPT !.requests = @ + 1, !.own = @ \cup {r}]
        /\ tripped' = tripped
    BY <1>1 DEF Admit
  <2>3. HasInterval /\ tripped /\ c.state = "closed" => ~c.aged /\ c.expiry # "zero"
    BY CurrentIsFresh
  <2> HIDE DEF c
  <2>4. cb'.state = c.state /\ cb'.expiry = c.expiry /\ cb'.aged = c.aged
    BY <2>1, <2>2 DEF Breaker
  <2> QED
    BY <2>2, <2>3, <2>4 DEF PeriodEnds
<1>2. ASSUME NEW r \in Requests, Succeeds(r) PROVE PeriodEnds'
  <2>1. cb' = OnSuccess(Returned(r)) /\ tripped' = tripped
    BY <1>2 DEF Succeeds
  <2> QED
    BY <2>1, ReturnedClock, ResultClock DEF PeriodEnds, SameClock
<1>3. ASSUME NEW r \in Requests, Fails(r) PROVE PeriodEnds'
  <2>1. /\ cb' = OnFailure(Returned(r))
        /\ tripped' = (tripped \/ cb'.state = "open")
    BY <1>3 DEF Fails
  <2>2. cb'.state = "closed" => (tripped' <=> tripped)
    BY <2>1 DEF TypeOK
  <2> QED
    BY <2>1, <2>2, ReturnedClock, ResultClock DEF PeriodEnds, SameClock
<1>4. ASSUME NEW r \in Requests, Aborts(r) PROVE PeriodEnds'
  <2>1. SameClock(cb', cb) /\ tripped' = tripped
    BY <1>0, <1>4 DEF Aborts, Returned, Breaker, SameClock
  <2> QED
    BY <2>1 DEF PeriodEnds, SameClock
<1>5. CASE Observe
  <2>1. cb' = CurrentState(cb) /\ tripped' = tripped
    BY <1>5 DEF Observe
  <2> QED
    BY <2>1, CurrentIsFresh DEF PeriodEnds
<1>6. CASE TimePasses
  <2>1. /\ tripped' = tripped
        /\ cb'.state = cb.state
        /\ cb'.expiry = IF cb.expiry = "ahead" THEN "behind" ELSE cb.expiry
    BY <1>0, <1>6 DEF TimePasses, Breaker
  <2> QED
    BY <1>0, <2>1 DEF PeriodEnds, Breaker
<1>7. CASE UNCHANGED vars
  BY <1>7 DEF vars, PeriodEnds
<1> QED
  BY <1>1, <1>2, <1>3, <1>4, <1>5, <1>6, <1>7 DEF Next

\* Once the breaker has tripped, no request that closed admits joins counts
\* older than Interval, although periods end only when somebody looks.
THEOREM PeriodsAreCyclicCorrect == Spec => PeriodsAreCyclic
<1>1. Init => PeriodEnds
  BY DEF Init, PeriodEnds
<1>2. ASSUME TypeOK, PeriodEnds, [Next]_vars
      PROVE  HasInterval /\ tripped /\ cb'.state = "closed"
               /\ inFlight' # inFlight /\ inFlight \subseteq inFlight'
               => ~cb'.aged
  <2> SUFFICES ASSUME HasInterval, tripped, cb'.state = "closed",
                      inFlight' # inFlight, inFlight \subseteq inFlight'
               PROVE  ~cb'.aged
    OBVIOUS
  <2>1. PICK r \in Requests : Admit(r)
    BY <1>2 DEF Next, Succeeds, Fails, Aborts, Ends, Observe, TimePasses, vars
  <2> DEFINE c == CurrentState(cb)
  <2>2. c \in Breaker
    BY <1>2, SettingsOK
       DEF CurrentState, ToNewGeneration, SetState, Reset, TypeOK, Breaker
  <2>3. cb' = [c EXCEPT !.requests = @ + 1, !.own = @ \cup {r}]
    BY <2>1 DEF Admit
  <2>4. c.state = "closed" => ~c.aged
    BY <1>2, CurrentIsFresh
  <2> HIDE DEF c
  <2> QED
    BY <1>2, <2>2, <2>3, <2>4 DEF Breaker
<1> QED
  BY <1>1, <1>2, PeriodStep, BreakerTypeCorrect, PTL DEF Spec, PeriodsAreCyclic

-----------------------------------------------------------------------------
(* What a wedged breaker needs, and how it recovers.                       *)

\* None of the functions invents a lost request.
LEMMA LostKept ==
  ASSUME NEW c \in Breaker
  PROVE  /\ CurrentState(c).lost \in {0, c.lost}
         /\ OnSuccess(c).lost \in {0, c.lost}
         /\ OnFailure(c).lost \in {0, c.lost}
<1>1. ASSUME NEW d \in Breaker, NEW s
      PROVE  SetState(d, s).lost = 0 /\ ToNewGeneration(d).lost = 0
  BY <1>1 DEF SetState, ToNewGeneration, Reset, Breaker
<1>2. CurrentState(c).lost \in {0, c.lost}
  BY <1>1 DEF CurrentState
<1> DEFINE won == [c EXCEPT !.successes = @ + 1, !.consecutive = @ + 1]
           bad == [c EXCEPT !.failures = @ + 1, !.consecutive = 0]
<1>3. /\ won \in Breaker /\ won.lost = c.lost
      /\ bad \in Breaker /\ bad.lost = c.lost
  <2>1. c.successes + 1 \in Nat /\ c.consecutive + 1 \in Nat /\ c.failures + 1 \in Nat
    BY DEF Breaker
  <2>2. won \in Breaker /\ bad \in Breaker
    BY <2>1, UpdatedTyped
  <2> QED
    BY <2>2 DEF Breaker
<1>4. /\ OnSuccess(c) = won \/ OnSuccess(c) = SetState(won, "closed")
      /\ OnFailure(c) = bad \/ OnFailure(c) = SetState(bad, "open")
  BY DEF OnSuccess, OnFailure
<1> HIDE DEF won, bad
<1> QED
  BY <1>1, <1>2, <1>3, <1>4

\* Every loss on record is an aborted request.
LossIsAbort == cb.lost <= aborts

LEMMA LossStep == BreakerInv /\ LossIsAbort /\ [Next]_vars => LossIsAbort'
<1> SUFFICES ASSUME BreakerInv, LossIsAbort, [Next]_vars PROVE LossIsAbort'
  OBVIOUS
<1>0. cb \in Breaker /\ cb.lost \in Nat /\ aborts \in Nat /\ TypeOK
  BY DEF BreakerInv, TypeOK, Breaker
<1>1. ASSUME cb'.lost \in {0, cb.lost}, aborts' = aborts PROVE LossIsAbort'
  BY <1>0, <1>1 DEF LossIsAbort
<1>2. ASSUME NEW r \in Requests, Admit(r) PROVE LossIsAbort'
  <2> DEFINE c == CurrentState(cb)
  <2>1. c \in Breaker
    BY CurrentAccounts DEF BreakerInv, Accounts
  <2>2. c.lost \in {0, cb.lost}
    BY <1>0, LostKept
  <2>3. cb' = [c EXCEPT !.requests = @ + 1, !.own = @ \cup {r}] /\ aborts' = aborts
    BY <1>2 DEF Admit
  <2> HIDE DEF c
  <2>4. cb'.lost = c.lost
    BY <2>1, <2>3 DEF Breaker
  <2> QED
    BY <1>1, <2>2, <2>3, <2>4
<1>3. ASSUME NEW r \in Requests, Succeeds(r) \/ Fails(r) PROVE LossIsAbort'
  <2>1. Returned(r) \in Breaker /\ Returned(r).lost = cb.lost
    BY <1>0, ReturnedClock DEF Returned, Breaker
  <2>2. /\ OnSuccess(Returned(r)).lost \in {0, cb.lost}
        /\ OnFailure(Returned(r)).lost \in {0, cb.lost}
    BY <2>1, LostKept
  <2> QED
    BY <1>1, <1>3, <2>2 DEF Succeeds, Fails
<1>4. ASSUME NEW r \in Requests, Aborts(r) PROVE LossIsAbort'
  <2>1. Returned(r) \in Breaker /\ Returned(r).lost = cb.lost
    BY <1>0, ReturnedClock DEF Returned, Breaker
  <2>2. cb'.lost \in {cb.lost, cb.lost + 1} /\ aborts' = aborts + 1
    BY <1>4, <2>1 DEF Aborts, Breaker
  <2> QED
    BY <1>0, <2>2 DEF LossIsAbort
<1>5. CASE Observe
  BY <1>0, <1>1, <1>5, LostKept DEF Observe
<1>6. CASE TimePasses
  BY <1>0, <1>1, <1>6 DEF TimePasses, Breaker
<1>7. CASE UNCHANGED vars
  BY <1>1, <1>7 DEF vars
<1> QED
  BY <1>2, <1>3, <1>4, <1>5, <1>6, <1>7 DEF Next

\* Half-open with its slots given away and none of them out.
Wedged == cb.state = "half" /\ cb.requests >= MaxRequests /\ cb.own = {}

\* A breaker wedges in half-open only through requests that were cut short, one
\* for each success it is short of (circuitbreaker.go: Execute): with no such
\* request HalfOpenKeepsProbing has nothing to fear.
THEOREM WedgeNeedsAborts ==
  ASSUME MaxRequests > 0
  PROVE  Spec => [](Wedged => cb.consecutive + aborts >= MaxRequests /\ aborts > 0)
<1>1. ASSUME BreakerInv, LossIsAbort, Wedged
      PROVE  cb.consecutive + aborts >= MaxRequests /\ aborts > 0
  <2>1. /\ cb \in Breaker
        /\ Cardinality(cb.own) = 0
        /\ aborts \in Nat
    BY <1>1, FS_EmptySet DEF BreakerInv, TypeOK, Wedged
  <2> QED
    BY <1>1, <2>1, SettingsOK
    DEF BreakerInv, Accounts, Breaker, LossIsAbort, Wedged
<1>2. Init => LossIsAbort
  BY DEF Init, LossIsAbort
<1>3. BreakerInv /\ LossIsAbort =>
        (Wedged => cb.consecutive + aborts >= MaxRequests /\ aborts > 0)
  BY <1>1
<1> QED
  BY <1>2, <1>3, LossStep, BreakerInvariant, PTL DEF Spec

\* How the state of the breaker may change: it opens from either other state, goes
\* back to probing once its timeout has passed, and is closed by the success that
\* makes MaxRequests of them in a row (by any success, if that is 0), no sooner
\* and no later.
StateAdvances ==
  /\ cb.state = "closed" => cb'.state \in {"closed", "open"}
  /\ cb.state = "open" /\ cb'.state # "open" =>
       cb'.state = "half" /\ cb.expiry = "behind"
  /\ cb.state = "half" /\ cb'.state = "closed" =>
       cb.consecutive + 1 = IF MaxRequests = 0 THEN 1 ELSE MaxRequests

\* An open breaker reaches closed through half-open only, however late results and
\* admissions overlap (circuitbreaker.go: currentState, onSuccess, onFailure).
THEOREM StateAdvancesCorrect == Spec => [][StateAdvances]_vars
<1>1. ASSUME BreakerInv, Next PROVE StateAdvances
  <2>0. cb \in Breaker /\ TypeOK
    BY <1>1 DEF BreakerInv, TypeOK
  <2>1. ASSUME cb'.state = CurrentState(cb).state PROVE StateAdvances
    BY <2>0, <2>1, ClockOf DEF CurrentState, StateAdvances
  <2>2. ASSUME NEW r \in Requests, Admit(r) PROVE StateAdvances
    <3> DEFINE c == CurrentState(cb)
    <3>1. c \in Breaker
      BY <1>1, CurrentAccounts DEF BreakerInv, Accounts
    <3>2. cb' = [c EXCEPT !.requests = @ + 1, !.own = @ \cup {r}]
      BY <2>2 DEF Admit
    <3> HIDE DEF c
    <3>3. cb'.state = c.state
      BY <3>1, <3>2 DEF Breaker
    <3> QED
      BY <2>1, <3>3 DEF c
  <2>3. ASSUME cb'.state = cb.state PROVE StateAdvances
    BY <2>0, <2>3 DEF StateAdvances, Breaker
  <2>4. ASSUME NEW r \in Requests, Succeeds(r) PROVE StateAdvances
    <3> DEFINE c == Returned(r)
               won == [c EXCEPT !.successes = @ + 1, !.consecutive = @ + 1]
    <3>1. c \in Breaker /\ c.state = cb.state /\ c.consecutive = cb.consecutive
      BY <2>0, ReturnedClock DEF SameClock, Returned, Breaker
    <3>2. cb' = IF c.state = "half" /\ won.consecutive >= MaxRequests
                THEN SetState(won, "closed") ELSE won
      BY <2>4 DEF Succeeds, OnSuccess
    <3> HIDE DEF c
    <3>3. /\ won \in Breaker
          /\ won.consecutive = c.consecutive + 1
          /\ won.state = c.state
      <4>1. c.successes + 1 \in Nat /\ c.consecutive + 1 \in Nat
        BY <3>1 DEF Breaker
      <4>2. won \in Breaker
        BY <3>1, <4>1, UpdatedTyped
      <4> QED
        BY <3>1, <4>2 DEF Breaker
    <3> HIDE DEF won
    <3>4. SetState(won, "closed").state = "closed"
      BY <3>3, ClockOf
    <3>5. cb.state = "half" => cb.consecutive = 0 \/ cb.consecutive < MaxRequests
      BY <1>1 DEF BreakerInv, Accounts
    <3> QED
      BY <2>0, <2>3, <3>1, <3>2, <3>3, <3>4, <3>5, SettingsOK
      DEF StateAdvances, Breaker
  <2>5. ASSUME NEW r \in Requests, Fails(r) PROVE StateAdvances
    <3>1. Returned(r) \in Breaker /\ SameClock(Returned(r), cb)
      BY <2>0, ReturnedClock
    <3>2. \/ SameClock(cb', Returned(r))
          \/ cb.state \in {"closed", "half"} /\ cb'.state = "open"
      BY <2>5, <3>1, ResultClock DEF Fails, SameClock
    <3> QED
      BY <2>3, <3>1, <3>2 DEF SameClock, StateAdvances
  <2>6. ASSUME NEW r \in Requests, Aborts(r) PROVE StateAdvances
    BY <2>0, <2>3, <2>6 DEF Aborts, Returned, Breaker
  <2>7. CASE Observe
    BY <2>1, <2>7 DEF Observe
  <2>8. CASE TimePasses
    BY <2>0, <2>3, <2>8 DEF TimePasses, Breaker
  <2> QED
    BY <1>1, <2>2, <2>4, <2>5, <2>6, <2>7, <2>8 DEF Next
<1>2. BreakerInv /\ [Next]_vars => [StateAdvances]_vars
  BY <1>1
<1> QED
  BY <1>2, BreakerInvariant, PTL DEF Spec

\* With CB_MAX_REQUESTS=0, which nothing refuses (config.go), half-open probes
\* nothing: it admits no request, and once none of those admitted before is out
\* nothing changes the breaker any more (circuitbreaker.go: Execute).
ProbesNothing == cb.state = "half" =>
  /\ inFlight' \subseteq inFlight
  /\ inFlight = {} => UNCHANGED vars

THEOREM NoProbesNoEnd == ASSUME MaxRequests = 0 PROVE Spec => [][ProbesNothing]_vars
<1>1. ASSUME BreakerInv, Next, cb.state = "half"
      PROVE  inFlight' \subseteq inFlight /\ inFlight # {}
  <2>1. CurrentState(cb) = cb
    BY <1>1 DEF CurrentState
  <2>2. ~Admits(cb)
    BY <1>1, SettingsOK DEF Admits, BreakerInv, TypeOK, Breaker
  <2>3. PICK r \in Requests : Succeeds(r) \/ Fails(r) \/ Aborts(r)
    BY <1>1, <2>1, <2>2 DEF Next, Admit, Observe, TimePasses
  <2> QED
    BY <2>3 DEF Succeeds, Fails, Aborts, Ends
<1>2. BreakerInv /\ [Next]_vars => [ProbesNothing]_vars
  BY <1>1 DEF ProbesNothing
<1> QED
  BY <1>2, BreakerInvariant, PTL DEF Spec
=============================================================================
