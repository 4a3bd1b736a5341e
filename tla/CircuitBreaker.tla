---------------------------- MODULE CircuitBreaker ----------------------------
(***************************************************************************)
(* The circuit breaker the api-gateway keeps for one backend.  Execute     *)
(* takes the mutex twice, before and after the request is proxied, so a    *)
(* request is admitted in one step and its result counted in a later one,  *)
(* when the breaker may have changed state or cleared its counters.        *)
(*                                                                         *)
(* The breaker is the record cb; the functions of circuitbreaker.go are    *)
(* operators on it.  The clock is abstracted to what the code compares:    *)
(* whether the expiry is unset, ahead or behind.                           *)
(***************************************************************************)
EXTENDS Naturals, FiniteSets

CONSTANTS
  Requests,       \* slots for requests the gateway handles at a time
  MaxRequests,    \* CB_MAX_REQUESTS
  HasInterval,    \* CB_INTERVAL_SECONDS > 0
  RatioNum,       \* CB_FAILURE_RATIO = RatioNum / RatioDen
  RatioDen,
  MaxCount,       \* bound on the requests one counting period admits
  MaxAborts       \* bound on aborted requests

\* The gateway checks none of its settings, so MaxRequests may be 0.
ASSUME SettingsOK == /\ IsFiniteSet(Requests)
                     /\ MaxRequests \in Nat
                     /\ HasInterval \in BOOLEAN
                     /\ RatioNum \in Nat
                     /\ RatioDen \in Nat
                     /\ MaxCount \in Nat
                     /\ MaxAborts \in Nat

VARIABLES
  cb,         \* the CircuitBreaker, and what its current counts stand for:
              \*   own   requests in flight that were counted in them
              \*   lost  of those, how many ended without a result
              \*   aged  they were last cleared longer than Interval ago
  inFlight,   \* requests being proxied
  tripped,    \* history: the breaker has opened before
  aborts      \* aborted requests so far

vars == <<cb, inFlight, tripped, aborts>>

Breaker == [state : {"closed", "open", "half"},
            expiry : {"zero", "ahead", "behind"},
            requests : Nat, successes : Nat, failures : Nat, consecutive : Nat,
            own : SUBSET Requests, lost : Nat, aged : BOOLEAN]

TypeOK == /\ cb \in Breaker
          /\ cb.own \subseteq inFlight
          /\ inFlight \in SUBSET Requests
          /\ tripped \in BOOLEAN
          /\ aborts \in Nat

Init ==
  /\ cb = [state |-> "closed", expiry |-> "zero",
           requests |-> 0, successes |-> 0, failures |-> 0, consecutive |-> 0,
           own |-> {}, lost |-> 0, aged |-> FALSE]
  /\ inFlight = {}
  /\ tripped = FALSE
  /\ aborts = 0

-----------------------------------------------------------------------------
(* circuitbreaker.go, function by function.                                *)

Reset(c) == [c EXCEPT !.requests = 0, !.successes = 0, !.failures = 0,
                      !.consecutive = 0, !.own = {}, !.lost = 0, !.aged = FALSE]

\* Mutant: the counters survive a change of state.
SetStateKeeps(c, s) ==
  [c EXCEPT !.state = s,
            !.expiry = IF s = "half" THEN "zero"
                       ELSE IF s = "open" \/ HasInterval THEN "ahead"
                       ELSE c.expiry]

SetState(c, s) ==
  [Reset(c) EXCEPT !.state = s,
                   !.expiry = IF s = "half" THEN "zero"
                              ELSE IF s = "open" \/ HasInterval THEN "ahead"
                              ELSE c.expiry]

\* Mutant: the next period gets no end.
ToNewGenerationEndless(c) == [Reset(c) EXCEPT !.expiry = "zero"]

ToNewGeneration(c) ==
  [Reset(c) EXCEPT !.expiry = IF HasInterval THEN "ahead" ELSE "zero"]

\* Mutant: open ends whether or not its timeout has passed.
CurrentStateEager(c) ==
  IF c.state = "closed" /\ c.expiry = "behind" THEN ToNewGeneration(c)
  ELSE IF c.state = "open" THEN SetState(c, "half")
  ELSE c

CurrentState(c) ==
  IF c.state = "closed" /\ c.expiry = "behind" THEN ToNewGeneration(c)
  ELSE IF c.state = "open" /\ c.expiry = "behind" THEN SetState(c, "half")
  ELSE c

MinSample == 5

ShouldTrip(c) ==
  LET total == c.successes + c.failures IN
  /\ total >= MinSample
  /\ c.failures * RatioDen >= RatioNum * total

\* Mutant: one success more than half-open admits is asked for.
OnSuccessOffByOne(c) ==
  LET counted == [c EXCEPT !.successes = @ + 1, !.consecutive = @ + 1] IN
  IF c.state = "half" /\ counted.consecutive > MaxRequests
  THEN SetState(counted, "closed") ELSE counted

OnSuccess(c) ==
  LET counted == [c EXCEPT !.successes = @ + 1, !.consecutive = @ + 1] IN
  IF c.state = "half" /\ counted.consecutive >= MaxRequests
  THEN SetState(counted, "closed") ELSE counted

OnFailure(c) ==
  LET counted == [c EXCEPT !.failures = @ + 1, !.consecutive = 0] IN
  IF c.state = "half" \/ (c.state = "closed" /\ ShouldTrip(counted))
  THEN SetState(counted, "open") ELSE counted

-----------------------------------------------------------------------------
(* Requests.                                                               *)

\* Mutant: half-open admits one request too many.
AdmitsOneMore(c) ==
  /\ c.state # "open"
  /\ c.state = "half" => c.requests <= MaxRequests

\* Execute goes on to proxy the request.
Admits(c) ==
  /\ c.state # "open"
  /\ c.state = "half" => c.requests < MaxRequests

\* Execute up to ServeHTTP.
Admit(r) ==
  LET c == CurrentState(cb) IN
  /\ r \notin inFlight
  /\ c.requests < MaxCount
  /\ Admits(c)
  /\ cb' = [c EXCEPT !.requests = @ + 1, !.own = @ \cup {r}]
  /\ inFlight' = inFlight \cup {r}
  /\ UNCHANGED <<tripped, aborts>>

\* Execute returns an error, or State() is asked for the log: either way the
\* breaker is brought up to date.
Observe ==
  /\ CurrentState(cb) # cb
  /\ cb' = CurrentState(cb)
  /\ UNCHANGED <<inFlight, tripped, aborts>>

Ends(r) == /\ r \in inFlight
           /\ inFlight' = inFlight \ {r}

Returned(r) == [cb EXCEPT !.own = @ \ {r}]

\* Mutant: a success is not counted.
SucceedsUncounted(r) ==
  /\ Ends(r)
  /\ cb' = Returned(r)
  /\ UNCHANGED <<tripped, aborts>>

\* Mutant: a request that ends gives its slot back.
SucceedsFreesSlot(r) ==
  /\ Ends(r)
  /\ cb' = OnSuccess([Returned(r) EXCEPT !.requests = @ - 1])
  /\ UNCHANGED <<tripped, aborts>>

\* The response has a status below 500.
Succeeds(r) ==
  /\ Ends(r)
  /\ cb' = OnSuccess(Returned(r))
  /\ UNCHANGED <<tripped, aborts>>

\* The backend answers 5xx, cannot be reached, or the client gives up before
\* it has answered (the proxy's error handler writes 502).
Fails(r) ==
  /\ Ends(r)
  /\ cb' = OnFailure(Returned(r))
  /\ tripped' = (tripped \/ cb'.state = "open")
  /\ UNCHANGED aborts

\* The copy of the response body breaks off: ReverseProxy panics with
\* http.ErrAbortHandler and the second half of Execute is skipped.
Aborts(r) ==
  /\ aborts < MaxAborts
  /\ Ends(r)
  /\ aborts' = aborts + 1
  /\ cb' = [Returned(r) EXCEPT !.lost = IF r \in cb.own THEN @ + 1 ELSE @]
  /\ UNCHANGED tripped

\* Interval has passed since the counts were cleared, or Timeout since the
\* breaker opened.
TimePasses ==
  /\ \/ cb.state = "closed" /\ HasInterval /\ ~cb.aged
     \/ cb.state = "open" /\ cb.expiry = "ahead"
  /\ cb' = [cb EXCEPT !.aged = (cb.state = "closed"),
                      !.expiry = IF @ = "ahead" THEN "behind" ELSE @]
  /\ UNCHANGED <<inFlight, tripped, aborts>>

Next == \/ \E r \in Requests : \/ Admit(r)
                               \/ Succeeds(r)
                               \/ Fails(r)
                               \/ Aborts(r)
        \/ Observe
        \/ TimePasses

\* The code promises no progress at all: the server's WriteTimeout does not end
\* a handler blocked on its backend, the transport has no
\* ResponseHeaderTimeout, and an upgraded /socket.io connection stays inside
\* Execute as long as the socket lives.
Spec == Init /\ [][Next]_vars

\* A hypothesis, not a promise: every proxied request ends.  It makes
\* HalfOpenKeepsProbing easier to satisfy, and the code violates it still.
RequestsEnd ==
  \A r \in Requests : WF_vars(Succeeds(r) \/ Fails(r) \/ Aborts(r))
SpecRequestsEnd == Spec /\ RequestsEnd

-----------------------------------------------------------------------------
(* Properties.                                                             *)

\* A recovering backend is never sent more probes at a time than MaxRequests,
\* whatever requests of earlier periods are still out.
ProbesBounded ==
  cb.state = "half" => Cardinality(cb.own) <= MaxRequests

\* Half-open never runs out of probes without a verdict: when every slot has
\* been given away, a result is still to come or a request was cut short.
ProbesDecide ==
  cb.state = "half" /\ cb.requests >= MaxRequests => cb.own # {} \/ cb.lost > 0

\* No admitted request is forgotten: each one the counts stand for was counted
\* as a result, is still out or was cut short.
CountsConserved ==
  cb.requests <= cb.successes + cb.failures + Cardinality(cb.own) + cb.lost

\* An open breaker keeps the backend free of new requests until its timeout
\* has passed, even if results of old requests keep coming in.
OpenShields ==
  [][cb.state = "open" /\ cb.expiry = "ahead" =>
       inFlight' \subseteq inFlight /\ cb'.state = "open"]_vars

\* Once the breaker has opened for the first time, a request that closed
\* admits joins counts that are no older than Interval.
PeriodsAreCyclic ==
  [][HasInterval /\ tripped /\ cb'.state = "closed" /\ inFlight' # inFlight
       /\ inFlight \subseteq inFlight' => ~cb'.aged]_vars

\* If no request is out for ever, half-open comes to a verdict once it has given
\* away its slots, unless a request was cut short.  Nothing in the code makes a
\* request end: one that hangs keeps its slot, and that is the premise.
FullHalfOpenDecides ==
  (\A r \in Requests : []<>(r \notin inFlight))
    => ((cb.state = "half" /\ cb.requests >= MaxRequests)
          ~> (cb.state # "half" \/ cb.lost > 0))

\* Half-open is for probe requests: it does not end up admitting none for ever,
\* provided the requests end.
HalfOpenKeepsProbing ==
  (cb.state = "half" /\ cb.requests >= MaxRequests) ~> cb.state # "half"
=============================================================================
