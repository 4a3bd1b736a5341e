------------------------ MODULE CollabService_writes ------------------------
(***************************************************************************)
(* Proofs about what CollabService stores: the writes of a document reach  *)
(* Redis in the order their states were encoded, what is in memory and not *)
(* in the newest write is there because a write failed, and without failed *)
(* commands the service implements DurableDocument.                        *)
(***************************************************************************)
EXTENDS CollabService_proofs, SequenceTheorems

\* The states in a sequence of writes only grow, from lo and up to hi.
Ordered(q) == \A i, j \in DOMAIN q : i <= j => q[i].state \subseteq q[j].state
Above(lo, q) == \A i \in DOMAIN q : lo \subseteq q[i].state
Below(q, hi) == \A i \in DOMAIN q : q[i].state \subseteq hi

\* The inductive invariant behind the order of writes: from Redis over the
\* issued writes to memory, the states of a document only grow.
OrderedAt(d) == /\ Ordered(pipe[d])
                /\ Above(redis[d], pipe[d])
                /\ InMemory(d) => /\ redis[d] \subseteq documents[d]
                                  /\ Below(pipe[d], documents[d])
WritesOrdered == \A d \in Docs : OrderedAt(d)

-----------------------------------------------------------------------------
(* Sequences of writes.                                                    *)

\* The last state of a document in order: nothing was ever further.
LEMMA NewestIsLast ==
  ASSUME TypeOK, NEW d \in Docs, Ordered(pipe[d]), Above(redis[d], pipe[d])
  PROVE  /\ Newest(d) \in SUBSET Updates
         /\ redis[d] \subseteq Newest(d)
         /\ Below(pipe[d], Newest(d))
         /\ Newest(d) = redis[d] \/ Newest(d) \in PipeStates(d)
<1>1. CASE pipe[d] = <<>>
  BY <1>1 DEF Newest, Below, TypeOK
<1>2. CASE pipe[d] # <<>>
  <2> DEFINE q == pipe[d]
             n == Len(q)
  <2>1. q \in Seq(Write) /\ n \in DOMAIN q /\ DOMAIN q = 1..n /\ n \in Nat
    BY <1>2 DEF TypeOK
  <2>2. q[n] \in Write
    BY <2>1
  <2>3. Newest(d) = q[n].state
    BY <1>2 DEF Newest
  <2>4. Below(q, q[n].state)
    BY <2>1 DEF Below, Ordered
  <2> QED
    BY <2>1, <2>2, <2>3, <2>4 DEF Write, Above, PipeStates
<1> QED
  BY <1>1, <1>2

\* Appending a write of a state no smaller than those before keeps the order.
LEMMA AppendOrdered ==
  ASSUME NEW q \in Seq(Write), NEW w \in Write, Ordered(q), Below(q, w.state)
  PROVE  /\ Ordered(Append(q, w))
         /\ Below(Append(q, w), w.state)
         /\ \A lo : Above(lo, q) /\ lo \subseteq w.state => Above(lo, Append(q, w))
<1>1. /\ DOMAIN Append(q, w) = 1..(Len(q) + 1)
      /\ Len(q) \in Nat
      /\ DOMAIN q = 1..Len(q)
      /\ \A i \in 1..Len(q) : Append(q, w)[i] = q[i]
      /\ Append(q, w)[Len(q) + 1] = w
  OBVIOUS
<1>2. \A i \in DOMAIN Append(q, w) : i \in DOMAIN q \/ i = Len(q) + 1
  BY <1>1
<1>3. Below(Append(q, w), w.state)
  BY <1>1, <1>2 DEF Below
<1>4. Ordered(Append(q, w))
  BY <1>1, <1>2, <1>3 DEF Below, Ordered
<1> QED
  BY <1>1, <1>2, <1>3, <1>4 DEF Above

\* Taking the first write away keeps the order of the rest.
LEMMA TailOrdered ==
  ASSUME NEW q \in Seq(Write), q # <<>>, Ordered(q)
  PROVE  /\ Head(q) \in Write
         /\ Ordered(Tail(q))
         /\ Above(Head(q).state, Tail(q))
         /\ \A lo : Above(lo, q) => lo \subseteq Head(q).state /\ Above(lo, Tail(q))
         /\ \A hi : Below(q, hi) => Head(q).state \subseteq hi /\ Below(Tail(q), hi)
<1>1. /\ Len(q) \in Nat
      /\ Len(q) >= 1
      /\ DOMAIN q = 1..Len(q)
      /\ DOMAIN Tail(q) = 1..(Len(q) - 1)
      /\ Head(q) = q[1]
      /\ \A i \in 1..(Len(q) - 1) : Tail(q)[i] = q[i + 1]
  OBVIOUS
<1>2. /\ 1 \in DOMAIN q
      /\ \A i \in DOMAIN Tail(q) : i + 1 \in DOMAIN q /\ 1 <= i + 1
  BY <1>1
<1>3. Head(q) \in Write
  BY <1>1, <1>2
<1>4. Ordered(Tail(q))
  BY <1>1, <1>2 DEF Ordered
<1>5. Above(Head(q).state, Tail(q))
  BY <1>1, <1>2 DEF Ordered, Above
<1>6. \A lo : Above(lo, q) => lo \subseteq Head(q).state /\ Above(lo, Tail(q))
  BY <1>1, <1>2 DEF Above
<1>7. \A hi : Below(q, hi) => Head(q).state \subseteq hi /\ Below(Tail(q), hi)
  BY <1>1, <1>2 DEF Below
<1> QED
  BY <1>3, <1>4, <1>5, <1>6, <1>7

\* Newest, of a sequence of writes q over a stored state r.
NewestOf(q, r) == IF q = <<>> THEN r ELSE q[Len(q)].state

\* Issuing a write makes its state the newest; executing one changes nothing;
\* dropping one takes back its state at most.
LEMMA NewestMoves ==
  ASSUME NEW q \in Seq(Write), NEW r
  PROVE  /\ \A w \in Write : NewestOf(Append(q, w), r) = w.state
         /\ q # <<>> => NewestOf(Tail(q), Head(q).state) = NewestOf(q, r)
         /\ q # <<>> => \/ NewestOf(Tail(q), r) = NewestOf(q, r)
                        \/ /\ NewestOf(Tail(q), r) = r
                           /\ NewestOf(q, r) = Head(q).state
<1>1. ASSUME NEW w \in Write PROVE NewestOf(Append(q, w), r) = w.state
  <2>1. /\ Append(q, w) # <<>>
        /\ Append(q, w)[Len(Append(q, w))] = w
    OBVIOUS
  <2> QED
    BY <2>1 DEF NewestOf
<1>2. CASE q # <<>> /\ Tail(q) = <<>>
  <2>1. Len(Tail(q)) = Len(q) - 1 /\ Len(q) \in Nat /\ q[1] = Head(q)
    BY <1>2
  <2>2. Tail(q) \in Seq(Write)
    BY <1>2
  <2>3. \A t \in Seq(Write) : t = <<>> <=> Len(t) = 0
    BY EmptySeq
  <2>4. q[Len(q)] = Head(q)
    BY <1>2, <2>1, <2>2, <2>3
  <2> QED
    BY <1>1, <1>2, <2>4 DEF NewestOf
<1>3. CASE q # <<>> /\ Tail(q) # <<>>
  <2>1. /\ Len(Tail(q)) = Len(q) - 1
        /\ Len(q) \in Nat
        /\ \A i \in 1..(Len(q) - 1) : Tail(q)[i] = q[i + 1]
    BY <1>3
  <2>2. Len(q) - 1 >= 1
    BY <1>3, <2>1
  <2>3. Tail(q)[Len(q) - 1] = q[Len(q)]
    BY <2>1, <2>2
  <2> QED
    BY <1>1, <1>3, <2>1, <2>3 DEF NewestOf
<1> QED
  BY <1>1, <1>2, <1>3

-----------------------------------------------------------------------------
(* What a step of the service does to one document.                        *)

Same(d) == /\ documents'[d] = documents[d]
           /\ pipe'[d] = pipe[d]
           /\ redis'[d] = redis[d]
           /\ failed'[d] = failed[d]
           /\ accepted'[d] = accepted[d]

\* The state in memory is issued as a write.
Saves(d) == /\ InMemory(d)
            /\ documents'[d] = documents[d]
            /\ \E w \in Write : /\ w.state = documents[d]
                                /\ pipe'[d] = Append(pipe[d], w)
            /\ redis'[d] = redis[d]
            /\ failed'[d] = failed[d]
            /\ accepted'[d] = accepted[d]

\* An update is applied and the new state issued as a write.
Takes(d, u) == /\ InMemory(d)
               /\ documents'[d] = documents[d] \cup {u}
               /\ \E w \in Write : /\ w.state = documents[d] \cup {u}
                                   /\ pipe'[d] = Append(pipe[d], w)
               /\ redis'[d] = redis[d]
               /\ failed'[d] = failed[d]
               /\ accepted'[d] = accepted[d] \cup {u}

\* The stored state is loaded.
Loads(d) == /\ ~InMemory(d)
            /\ pipe[d] = <<>>
            /\ documents'[d] = redis[d]
            /\ pipe'[d] = pipe[d]
            /\ redis'[d] = redis[d]
            /\ failed'[d] = failed[d]
            /\ accepted'[d] = accepted[d]

\* The document leaves memory.
Evicts(d) == /\ documents'[d] = Absent
             /\ pipe'[d] = pipe[d]
             /\ redis'[d] = redis[d]
             /\ failed'[d] = failed[d]
             /\ accepted'[d] = accepted[d]

\* The oldest issued write executes, answered or not.
Executes(d) == /\ pipe[d] # <<>>
               /\ documents'[d] = documents[d]
               /\ pipe'[d] = Tail(pipe[d])
               /\ redis'[d] = Head(pipe[d]).state
               /\ failed'[d] = failed[d] \ Head(pipe[d]).state
               /\ accepted'[d] = accepted[d]

\* The oldest issued write is rejected and not executed.
Rejects(d) == /\ MaxFaults > 0
              /\ pipe[d] # <<>>
              /\ documents'[d] = documents[d]
              /\ pipe'[d] = Tail(pipe[d])
              /\ redis'[d] = redis[d]
              /\ failed'[d] = failed[d] \cup (Head(pipe[d]).state \ redis[d])
              /\ accepted'[d] = accepted[d]

\* The process ends.
Ends(d) == /\ documents'[d] = Absent
           /\ pipe'[d] = <<>>
           /\ redis'[d] \in {redis[d]} \cup PipeStates(d)
           /\ failed'[d] = {}
           /\ accepted'[d] = redis'[d]

Keeps(d) == Same(d) \/ Saves(d) \/ Loads(d) \/ Evicts(d)

\* The four kinds of step.
BackgroundStep == \A d \in Docs : Keeps(d)
UpdateStep == \E d \in Docs, u \in Updates :
                Takes(d, u) /\ \A e \in Docs \ {d} : Same(e)
RedisStep == \E d \in Docs : /\ Executes(d) \/ Rejects(d)
                             /\ \A e \in Docs \ {d} : Same(e)
EndStep == mode' = "down" /\ \A d \in Docs : Ends(d)

\* A cleanup issues a write of each document it starts on.
LEMMA CleanupSaves ==
  ASSUME TypeOK, NEW D, StartCleanup(D),
         UNCHANGED <<documents, redis, failed, accepted>>
  PROVE  BackgroundStep
<1> SUFFICES ASSUME NEW d \in Docs PROVE Same(d) \/ Saves(d)
  BY DEF BackgroundStep, Keeps
<1>1. CASE d \in D /\ cleaningUp[d] = "idle" /\ InMemory(d)
  <2> DEFINE w == [by |-> "cleanup", state |-> documents[d]]
  <2>1. pipe'[d] = Append(pipe[d], w)
    BY <1>1 DEF StartCleanup
  <2>2. w \in Write /\ w.state = documents[d]
    BY <1>1 DEF Write, Writers, TypeOK, InMemory
  <2> QED
    BY <1>1, <2>1, <2>2 DEF Saves
<1>2. CASE ~(d \in D /\ cleaningUp[d] = "idle" /\ InMemory(d))
  <2>1. pipe'[d] = pipe[d]
    BY <1>2 DEF StartCleanup
  <2> QED
    BY <2>1 DEF Same
<1> QED
  BY <1>1, <1>2

\* The periodic loop and stop() issue a write of one document.
LEMMA LoopSaves ==
  ASSUME TypeOK, NEW d \in Docs, InMemory(d), NEW by \in Writers,
         pipe' = [pipe EXCEPT ![d] = Append(@, [by |-> by, state |-> documents[d]])],
         UNCHANGED <<documents, redis, failed, accepted>>
  PROVE  BackgroundStep
<1> DEFINE w == [by |-> by, state |-> documents[d]]
<1>1. w \in Write /\ w.state = documents[d]
  BY DEF Write, TypeOK, InMemory
<1>2. pipe'[d] = Append(pipe[d], w)
  BY DEF TypeOK
<1>3. Saves(d)
  BY <1>1, <1>2 DEF Saves
<1>4. \A e \in Docs \ {d} : Same(e)
  BY DEF Same, TypeOK
<1> QED
  BY <1>3, <1>4 DEF BackgroundStep, Keeps

\* Whatever happens, a document is saved, updated, loaded, evicted, stored or
\* lost with the process: no step does anything else to it.
LEMMA StepKinds ==
  ASSUME TypeOK, OneLoad, [Next]_vars
  PROVE  BackgroundStep \/ UpdateStep \/ RedisStep \/ EndStep
<1>1. ASSUME NEW s \in Sockets, NEW d \in Docs, JoinDocument(s, d)
      PROVE  BackgroundStep
  <2> DEFINE old == socketToDocument[s]
             left == IF old \notin {NoDoc, d} THEN {old} ELSE {}
             D == {e \in left : users'[e] = {}}
  <2>1. StartCleanup(D) /\ UNCHANGED <<documents, redis, failed, accepted>>
    BY <1>1 DEF JoinDocument
  <2> HIDE DEF D
  <2> QED
    BY <2>1, CleanupSaves
<1>2. ASSUME NEW s \in Sockets, NEW d \in Docs, LeaveDocument(s, d)
      PROVE  BackgroundStep
  <2> DEFINE tracked == socketToDocument[s]
             target == IF tracked # NoDoc THEN tracked ELSE d
             D == IF users'[target] = {} THEN {target} ELSE {}
  <2>1. StartCleanup(D) /\ UNCHANGED <<documents, redis, failed, accepted>>
    BY <1>2 DEF LeaveDocument
  <2> HIDE DEF D
  <2> QED
    BY <2>1, CleanupSaves
<1>3. ASSUME NEW s \in Sockets, Disconnect(s) PROVE BackgroundStep
  <2> DEFINE tracked == {socketToDocument[s]} \ {NoDoc}
             D == {d \in tracked : users'[d] = {}}
  <2>1. StartCleanup(D) /\ UNCHANGED <<documents, redis, failed, accepted>>
    BY <1>3 DEF Disconnect
  <2> HIDE DEF D
  <2> QED
    BY <2>1, CleanupSaves
<1>4. CASE SweepStaleUsers
  <2> DEFINE stale(d) == users[d] \ active
             affected == {d \in Docs : stale(d) # {}}
             D == {d \in affected : users'[d] = {}}
  <2>1. StartCleanup(D) /\ UNCHANGED <<documents, redis, failed, accepted>>
    BY <1>4 DEF SweepStaleUsers
  <2> HIDE DEF D
  <2> QED
    BY <2>1, CleanupSaves
<1>5. ASSUME NEW d \in Docs, PersistPeriodically(d) PROVE BackgroundStep
  BY <1>5, LoopSaves DEF PersistPeriodically, Writers
<1>6. ASSUME NEW d \in Docs, StopFlush(d) PROVE BackgroundStep
  BY <1>6, LoopSaves DEF StopFlush, Writers
<1>7. ASSUME NEW s \in Sockets, NEW d \in Docs, NEW u \in Updates,
             DocumentUpdate(s, d, u)
      PROVE  UpdateStep
  <2> DEFINE w == [by |-> "update", state |-> documents[d] \cup {u}]
  <2>1. InMemory(d) /\ UNCHANGED <<redis, failed>>
    BY <1>7 DEF DocumentUpdate
  <2>2. documents[d] \in SUBSET Updates
    BY <2>1 DEF TypeOK, InMemory
  <2>3. w \in Write /\ w.state = documents[d] \cup {u}
    BY <2>2 DEF Write, Writers
  <2>4. /\ documents' = [documents EXCEPT ![d] = @ \cup {u}]
        /\ accepted' = [accepted EXCEPT ![d] = @ \cup {u}]
        /\ pipe' = [pipe EXCEPT ![d] = Append(@, w)]
    BY <1>7 DEF DocumentUpdate
  <2>5. Takes(d, u)
    BY <2>1, <2>3, <2>4 DEF Takes, TypeOK
  <2>6. \A e \in Docs \ {d} : Same(e)
    BY <2>1, <2>4 DEF Same, TypeOK
  <2> QED
    BY <2>5, <2>6 DEF UpdateStep
<1>8. ASSUME NEW d \in Docs, LoadDone(d) PROVE BackgroundStep
  <2>1. Loads(d)
    BY <1>8 DEF LoadDone, Loads, OneLoad, TypeOK, storeVars
  <2>2. \A e \in Docs \ {d} : Same(e)
    BY <1>8 DEF LoadDone, Same, TypeOK, storeVars
  <2> QED
    BY <2>1, <2>2 DEF BackgroundStep, Keeps
<1>9. ASSUME NEW d \in Docs, CleanupDone(d) PROVE BackgroundStep
  <2>1. Same(d) \/ Evicts(d)
    BY <1>9 DEF CleanupDone, Same, Evicts, TypeOK, storeVars
  <2>2. \A e \in Docs \ {d} : Same(e)
    BY <1>9 DEF CleanupDone, Same, TypeOK, storeVars
  <2> QED
    BY <2>1, <2>2 DEF BackgroundStep, Keeps
<1>10. ASSUME NEW d \in Docs, RedisSet(d) PROVE RedisStep
  <2>1. Executes(d)
    BY <1>10 DEF RedisSet, Executes, TypeOK
  <2>2. \A e \in Docs \ {d} : Same(e)
    BY <1>10 DEF RedisSet, Same, TypeOK
  <2> QED
    BY <2>1, <2>2 DEF RedisStep
<1>11. ASSUME NEW d \in Docs, RedisSetFails(d) PROVE RedisStep
  <2>1. MaxFaults > 0
    BY <1>11, ConstantsOK DEF RedisSetFails, TypeOK
  <2>2. Executes(d) \/ Rejects(d)
    BY <1>11, <2>1 DEF RedisSetFails, Executes, Rejects, TypeOK
  <2>3. \A e \in Docs \ {d} : Same(e)
    BY <1>11 DEF RedisSetFails, Same, TypeOK
  <2> QED
    BY <2>2, <2>3 DEF RedisStep
<1>12. CASE Exit \/ Crash
  BY <1>12 DEF Exit, Crash, ProcessEnds, EndStep, Ends
<1>13. CASE \/ \E s \in Sockets : Connect(s) \/ GoIdle(s)
            \/ \E s \in Sockets, d \in Docs : JoinLoaded(s, d) \/ JoinWaits(s, d)
            \/ \E d \in Docs : LoadFails(d) \/ CleanupFails(d)
            \/ BeginStop \/ CloseServer \/ Restart \/ UNCHANGED vars
  <2>1. UNCHANGED <<documents, storeVars, accepted>>
    BY <1>13 DEF Connect, GoIdle, JoinLoaded, JoinWaits, LoadFails,
                 CleanupFails, BeginStop, CloseServer, Restart, vars
  <2> QED
    BY <2>1 DEF storeVars, Same, BackgroundStep, Keeps
<1> QED
  BY <1>1, <1>2, <1>3, <1>4, <1>5, <1>6, <1>7, <1>8, <1>9, <1>10, <1>11,
     <1>12, <1>13 DEF Next, ClientStep, ServerStep, ProcessStep

-----------------------------------------------------------------------------
(* Writes are issued and executed in order.                                *)

\* Issuing what is in memory, with or without one more update, keeps the order.
LEMMA OrderedIssued ==
  ASSUME TypeOK, NEW d \in Docs, OrderedAt(d), InMemory(d),
         NEW w \in Write, pipe'[d] = Append(pipe[d], w),
         documents[d] \subseteq w.state, documents'[d] = w.state,
         redis'[d] = redis[d]
  PROVE  OrderedAt(d)'
<1>1. pipe[d] \in Seq(Write)
  BY DEF TypeOK
<1>2. /\ Ordered(pipe[d])
      /\ Below(pipe[d], w.state)
      /\ Above(redis[d], pipe[d])
      /\ redis[d] \subseteq w.state
  BY DEF OrderedAt, Below
<1>3. /\ Ordered(Append(pipe[d], w))
      /\ Below(Append(pipe[d], w), w.state)
      /\ Above(redis[d], Append(pipe[d], w))
  BY <1>1, <1>2, AppendOrdered
<1> QED
  BY <1>2, <1>3 DEF OrderedAt, Ordered, Above, Below

\* Executing or dropping the oldest write keeps the order of the others.
LEMMA OrderedPopped ==
  ASSUME TypeOK, NEW d \in Docs, OrderedAt(d), pipe[d] # <<>>,
         pipe'[d] = Tail(pipe[d]), documents'[d] = documents[d],
         redis'[d] \in {redis[d], Head(pipe[d]).state}
  PROVE  OrderedAt(d)' /\ redis[d] \subseteq redis'[d]
<1>1. pipe[d] \in Seq(Write)
  BY DEF TypeOK
<1>2. /\ Ordered(pipe[d])
      /\ Above(redis[d], pipe[d])
      /\ InMemory(d) => /\ redis[d] \subseteq documents[d]
                        /\ Below(pipe[d], documents[d])
  BY DEF OrderedAt
<1>3. /\ Ordered(Tail(pipe[d]))
      /\ Above(Head(pipe[d]).state, Tail(pipe[d]))
      /\ redis[d] \subseteq Head(pipe[d]).state
      /\ Above(redis[d], Tail(pipe[d]))
      /\ InMemory(d) => /\ Head(pipe[d]).state \subseteq documents[d]
                        /\ Below(Tail(pipe[d]), documents[d])
  BY <1>1, <1>2, TailOrdered
<1> QED
  BY <1>2, <1>3 DEF OrderedAt, Ordered, Above, Below, InMemory

\* The order is kept by every step, and a document Redis stores only grows.
LEMMA OrderedStep ==
  ASSUME TypeOK, OneLoad, WritesOrdered, [Next]_vars
  PROVE  WritesOrdered' /\ \A d \in Docs : redis[d] \subseteq redis'[d]
<1> SUFFICES ASSUME NEW d \in Docs
             PROVE  OrderedAt(d)' /\ redis[d] \subseteq redis'[d]
  BY DEF WritesOrdered
<1>1. OrderedAt(d)
  BY DEF WritesOrdered
<1>2. CASE Same(d)
  BY <1>1, <1>2 DEF Same, OrderedAt, Ordered, Above, Below, InMemory
<1>3. CASE Saves(d)
  BY <1>1, <1>3, OrderedIssued DEF Saves
<1>4. ASSUME NEW u \in Updates, Takes(d, u)
      PROVE  OrderedAt(d)' /\ redis[d] \subseteq redis'[d]
  <2>1. PICK w \in Write : /\ w.state = documents[d] \cup {u}
                           /\ pipe'[d] = Append(pipe[d], w)
    BY <1>4 DEF Takes
  <2> QED
    BY <1>1, <1>4, <2>1, OrderedIssued DEF Takes
<1>5. CASE Loads(d)
  BY <1>1, <1>5 DEF Loads, OrderedAt, Ordered, Above, Below, InMemory
<1>6. CASE Evicts(d)
  BY <1>1, <1>6 DEF Evicts, OrderedAt, Ordered, Above, Below, InMemory
<1>7. CASE Executes(d)
  BY <1>1, <1>7, OrderedPopped DEF Executes
<1>8. CASE Rejects(d)
  BY <1>1, <1>8, OrderedPopped DEF Rejects
<1>9. CASE Ends(d)
  BY <1>1, <1>9 DEF Ends, OrderedAt, Ordered, Above, Below, InMemory, PipeStates
<1> QED
  BY <1>2, <1>3, <1>4, <1>5, <1>6, <1>7, <1>8, <1>9, StepKinds
     DEF BackgroundStep, Keeps, UpdateStep, RedisStep, EndStep

\* From Redis over the issued writes to memory, the states of a document grow
\* in every reachable state: one connection carries full states in order.
THEOREM WritesOrderedCorrect == Spec => []WritesOrdered
<1>1. Init => WritesOrdered
  BY DEF Init, WritesOrdered, OrderedAt, Ordered, Above, Below, InMemory
<1> QED
  BY <1>1, OrderedStep, TypeCorrect, OneLoadCorrect, PTL DEF Spec

\* No write, rejected or late, and no crash makes a stored document go back.
THEOREM RedisNeverShrinksCorrect == Spec => RedisNeverShrinks
<1>1. TypeOK /\ OneLoad /\ WritesOrdered /\ [Next]_vars
        => [\A d \in Docs : redis[d] \subseteq redis'[d]]_redis
  BY OrderedStep
<1> QED
  BY <1>1, TypeCorrect, OneLoadCorrect, WritesOrderedCorrect, PTL
     DEF Spec, RedisNeverShrinks

-----------------------------------------------------------------------------
(* What is not in the newest write, and what is lost.                      *)

\* What a step does to the newest write of a document.
LEMMA NewestStep ==
  ASSUME TypeOK, NEW d \in Docs
  PROVE  /\ \A w \in Write : pipe'[d] = Append(pipe[d], w) => Newest(d)' = w.state
         /\ Same(d) \/ Loads(d) \/ Evicts(d) \/ Executes(d) => Newest(d)' = Newest(d)
         /\ Rejects(d) => \/ Newest(d)' = Newest(d)
                          \/ /\ Newest(d)' = redis[d]
                             /\ Newest(d) = Head(pipe[d]).state
         /\ Ends(d) => Newest(d)' = redis'[d]
<1>1. pipe[d] \in Seq(Write)
  BY DEF TypeOK
<1>2. /\ Newest(d) = NewestOf(pipe[d], redis[d])
      /\ Newest(d)' = NewestOf(pipe'[d], redis'[d])
  BY DEF Newest, NewestOf
<1>3. ASSUME NEW w \in Write, pipe'[d] = Append(pipe[d], w)
      PROVE  Newest(d)' = w.state
  BY <1>1, <1>2, <1>3, NewestMoves
<1>4. Same(d) \/ Loads(d) \/ Evicts(d) => Newest(d)' = Newest(d)
  BY <1>2 DEF Same, Loads, Evicts
<1>5. Executes(d) => Newest(d)' = Newest(d)
  BY <1>1, <1>2, NewestMoves DEF Executes
<1>6. Rejects(d) => \/ Newest(d)' = Newest(d)
                    \/ /\ Newest(d)' = redis[d]
                       /\ Newest(d) = Head(pipe[d]).state
  BY <1>1, <1>2, NewestMoves DEF Rejects
<1>7. Ends(d) => Newest(d)' = redis'[d]
  BY <1>2 DEF Ends, NewestOf
<1> QED
  BY <1>3, <1>4, <1>5, <1>6, <1>7

\* The parts of the two invariants about one document.
UnsavedAt(d) == InMemory(d) => documents[d] \ Newest(d) \subseteq failed[d]
LossAt(d) == accepted[d] \subseteq Visible(d) \cup failed[d]

\* The two invariants hold together: an eviction loses only what was unsaved.
LEMMA LossStep ==
  ASSUME TypeOK, OneLoad, WritesOrdered, UnsavedOnlyByFailure,
         LossNeedsFailedWrite, [Next]_vars
  PROVE  UnsavedOnlyByFailure' /\ LossNeedsFailedWrite'
<1> SUFFICES ASSUME NEW d \in Docs PROVE UnsavedAt(d)' /\ LossAt(d)'
  BY DEF UnsavedAt, LossAt, UnsavedOnlyByFailure, LossNeedsFailedWrite
<1>1. OrderedAt(d) /\ UnsavedAt(d) /\ LossAt(d)
  BY DEF WritesOrdered, UnsavedAt, LossAt, UnsavedOnlyByFailure,
         LossNeedsFailedWrite
<1>2. /\ InMemory(d) => documents[d] \in SUBSET Updates
      /\ \A S \in SUBSET Updates : Absent # S
      /\ redis[d] \in SUBSET Updates
  BY ConstantsOK DEF TypeOK, InMemory
<1>3. CASE Same(d)
  <2>1. Newest(d)' = Newest(d)
    BY <1>3, NewestStep
  <2> QED
    BY <1>1, <1>3, <2>1 DEF Same, UnsavedAt, LossAt, InMemory, Visible
<1>4. CASE Saves(d)
  <2>1. Newest(d)' = documents[d]
    BY <1>4, NewestStep DEF Saves
  <2> QED
    BY <1>1, <1>4, <2>1 DEF Saves, UnsavedAt, LossAt, InMemory, Visible
<1>5. ASSUME NEW u \in Updates, Takes(d, u) PROVE UnsavedAt(d)' /\ LossAt(d)'
  <2>1. Newest(d)' = documents'[d]
    BY <1>5, NewestStep DEF Takes
  <2>2. InMemory(d)'
    BY <1>2, <1>5 DEF Takes, InMemory
  <2> QED
    BY <1>1, <1>5, <2>1, <2>2 DEF Takes, UnsavedAt, LossAt, Visible
<1>6. CASE Loads(d)
  <2>1. Newest(d) = redis[d] /\ Newest(d)' = redis[d]
    BY <1>6, NewestStep DEF Loads, Newest
  <2>2. InMemory(d)'
    BY <1>2, <1>6 DEF Loads, InMemory
  <2> QED
    BY <1>1, <1>6, <2>1, <2>2 DEF Loads, UnsavedAt, LossAt, Visible
<1>7. CASE Evicts(d)
  <2>1. Newest(d)' = Newest(d)
    BY <1>7, NewestStep
  <2> QED
    BY <1>1, <1>7, <2>1 DEF Evicts, UnsavedAt, LossAt, InMemory, Visible
<1>8. CASE Executes(d)
  <2> DEFINE written == Head(pipe[d]).state
  <2>1. Newest(d)' = Newest(d)
    BY <1>8, NewestStep
  <2>2. written \in PipeStates(d)
    BY <1>8 DEF Executes, PipeStates, TypeOK
  <2>3. written \subseteq Newest(d) /\ (InMemory(d) => written \subseteq documents[d])
    BY <1>1, <2>2, NewestIsLast DEF OrderedAt, Below, PipeStates
  <2> HIDE DEF written
  <2>4. failed'[d] = failed[d] \ written /\ documents'[d] = documents[d]
    BY <1>8 DEF Executes, written
  <2>5. accepted'[d] = accepted[d]
    BY <1>8 DEF Executes
  <2> QED
    BY <1>1, <2>1, <2>3, <2>4, <2>5 DEF UnsavedAt, LossAt, InMemory, Visible
<1>9. CASE Rejects(d)
  <2>1. \/ Newest(d)' = Newest(d)
        \/ /\ Newest(d)' = redis[d]
           /\ Newest(d) = Head(pipe[d]).state
    BY <1>9, NewestStep
  <2> QED
    BY <1>1, <1>9, <2>1 DEF Rejects, UnsavedAt, LossAt, InMemory, Visible
<1>10. CASE Ends(d)
  <2>1. Newest(d)' = redis'[d]
    BY <1>10, NewestStep
  <2> QED
    BY <1>10, <2>1 DEF Ends, UnsavedAt, LossAt, InMemory, Visible
<1> QED
  BY <1>3, <1>4, <1>5, <1>6, <1>7, <1>8, <1>9, <1>10, StepKinds
     DEF BackgroundStep, Keeps, UpdateStep, RedisStep, EndStep

\* What both invariants rest on, taken together.
LossInv == UnsavedOnlyByFailure /\ LossNeedsFailedWrite

THEOREM LossInvCorrect == Spec => []LossInv
<1>1. Init => LossInv
  BY DEF Init, LossInv, UnsavedOnlyByFailure, LossNeedsFailedWrite, InMemory,
         Visible, Newest
<1>2. TypeOK /\ OneLoad /\ WritesOrdered /\ LossInv /\ [Next]_vars => LossInv'
  BY LossStep DEF LossInv
<1> QED
  BY <1>1, <1>2, TypeCorrect, OneLoadCorrect, WritesOrderedCorrect, PTL DEF Spec

\* No handler forgets to save: what is in memory and not in the newest write is
\* there because a write of it failed.
THEOREM UnsavedCorrect == Spec => []UnsavedOnlyByFailure
  BY LossInvCorrect, PTL DEF LossInv

\* Only an update whose own save was rejected can be lost, for any number of
\* failures, restarts, clients and overlapping saves.
THEOREM LossCorrect == Spec => []LossNeedsFailedWrite
  BY LossInvCorrect, PTL DEF LossInv

\* What the end of the process may take from a document.
LEMMA EndTakes ==
  ASSUME TypeOK, WritesOrdered, UnsavedOnlyByFailure, NEW d \in Docs,
         redis'[d] \in {redis[d]} \cup PipeStates(d)
  PROVE  Visible(d) \ redis'[d] \subseteq (UNION PipeStates(d)) \cup failed[d]
<1>1. /\ redis[d] \subseteq Newest(d)
      /\ Newest(d) = redis[d] \/ Newest(d) \in PipeStates(d)
  BY NewestIsLast DEF WritesOrdered, OrderedAt
<1>3. redis[d] \subseteq redis'[d]
  BY DEF WritesOrdered, OrderedAt, Above, PipeStates
<1>4. Visible(d) \subseteq Newest(d) \cup failed[d]
  BY DEF Visible, UnsavedOnlyByFailure
<1>5. Newest(d) \subseteq redis[d] \cup (UNION PipeStates(d))
  BY <1>1
<1> HIDE DEF PipeStates
<1> QED
  BY <1>3, <1>4, <1>5

\* Only Exit and Crash take the process down.
LEMMA DownByEnd ==
  ASSUME [Next]_vars, mode' = "down", mode # "down"
  PROVE  ProcessEnds
<1>1. ASSUME NEW s \in Sockets, NEW d \in Docs, NEW u \in Updates,
             DocumentUpdate(s, d, u)
      PROVE  mode' = mode
  BY <1>1 DEF DocumentUpdate
<1>2. ASSUME NEW s \in Sockets, Connect(s) \/ Disconnect(s) \/ GoIdle(s)
      PROVE  mode' = mode
  BY <1>2 DEF Connect, Disconnect, GoIdle
<1>3. ASSUME NEW s \in Sockets, NEW d \in Docs,
             \/ JoinDocument(s, d) \/ LeaveDocument(s, d)
             \/ JoinLoaded(s, d) \/ JoinWaits(s, d)
      PROVE  mode' = mode
  BY <1>3 DEF JoinDocument, LeaveDocument, JoinLoaded, JoinWaits
<1>4. ASSUME NEW d \in Docs,
             \/ LoadDone(d) \/ LoadFails(d) \/ RedisSet(d) \/ RedisSetFails(d)
             \/ CleanupDone(d) \/ CleanupFails(d) \/ PersistPeriodically(d)
      PROVE  mode' = mode
  BY <1>4 DEF LoadDone, LoadFails, CleanupDone, RedisSet, RedisSetFails,
              CleanupFails, PersistPeriodically
<1>5. ASSUME NEW d \in Docs, StopFlush(d) PROVE mode' = mode
  BY <1>5 DEF StopFlush
<1>6. /\ UNCHANGED vars \/ SweepStaleUsers => mode' = mode
      /\ BeginStop \/ CloseServer \/ Restart => mode' # "down"
      /\ Exit \/ Crash => ProcessEnds
  BY DEF vars, SweepStaleUsers, BeginStop, CloseServer, Restart, Exit, Crash
<1> QED
  BY <1>1, <1>2, <1>3, <1>4, <1>5, <1>6
     DEF Next, ClientStep, ServerStep, ProcessStep

\* A crash or an exit takes from a document only writes that were still on
\* their way to Redis, or had been rejected.
THEOREM EndLosesCorrect == Spec => EndLosesOnlyInFlight
<1>1. TypeOK /\ WritesOrdered /\ UnsavedOnlyByFailure /\ [Next]_vars
        => [mode' = "down" =>
              \A d \in Docs : Visible(d) \ redis'[d]
                                \subseteq (UNION PipeStates(d)) \cup failed[d]]_mode
  BY EndTakes, DownByEnd DEF ProcessEnds
<1> QED
  BY <1>1, TypeCorrect, WritesOrderedCorrect, UnsavedCorrect, PTL
     DEF Spec, EndLosesOnlyInFlight

-----------------------------------------------------------------------------
(* While no Redis command fails.                                           *)

NoFailure == \A d \in Docs : failed[d] = {}

\* No write is ever listed as failed: rejections need a failing command.
LEMMA NoFailureStep ==
  ASSUME MaxFaults = 0, TypeOK, OneLoad, NoFailure, [Next]_vars
  PROVE  NoFailure'
<1> SUFFICES ASSUME NEW d \in Docs PROVE failed'[d] = {}
  BY DEF NoFailure
<1>1. failed[d] = {}
  BY DEF NoFailure
<1>2. ~Rejects(d)
  BY DEF Rejects
<1>3. \A u : Takes(d, u) => failed'[d] = {}
  BY <1>1 DEF Takes
<1>4. Keeps(d) \/ Executes(d) \/ Ends(d) => failed'[d] = {}
  BY <1>1 DEF Keeps, Same, Saves, Loads, Evicts, Executes, Ends
<1>5. Same(d) => failed'[d] = {}
  BY <1>1 DEF Same
<1> QED
  BY <1>2, <1>3, <1>4, <1>5, StepKinds
     DEF BackgroundStep, UpdateStep, RedisStep, EndStep

\* So it is in every reachable state.
LEMMA NoFailureCorrect == ASSUME MaxFaults = 0 PROVE Spec => []NoFailure
<1>1. Init => NoFailure
  BY DEF Init, NoFailure
<1>2. TypeOK /\ OneLoad /\ NoFailure /\ [Next]_vars => NoFailure'
  BY NoFailureStep
<1> QED
  BY <1>1, <1>2, TypeCorrect, OneLoadCorrect, PTL DEF Spec

\* No step takes an accepted update out of sight but the end of the process, and
\* that only one whose write was still on its way.  What was accepted before the
\* step counts, so an end is not excused by the bookkeeping that starts afresh
\* with it.
AcceptedIsKept ==
  [][\A d \in Docs : accepted[d] \ Visible(d)'
                       \subseteq IF mode' = "down" THEN UNION PipeStates(d) ELSE {}]_vars

\* What was accepted stays so, until the process ends.
LEMMA AcceptedGrows ==
  ASSUME TypeOK, OneLoad, [Next]_vars, NEW d \in Docs
  PROVE  accepted[d] \subseteq accepted'[d] \/ (mode' = "down" /\ Ends(d))
<1>1. Keeps(d) \/ Executes(d) \/ Rejects(d) => accepted'[d] = accepted[d]
  BY DEF Keeps, Same, Saves, Loads, Evicts, Executes, Rejects
<1>2. \A u : Takes(d, u) => accepted[d] \subseteq accepted'[d]
  BY DEF Takes
<1>3. Same(d) => Keeps(d)
  BY DEF Keeps
<1> QED
  BY <1>1, <1>2, <1>3, StepKinds DEF BackgroundStep, UpdateStep, RedisStep, EndStep

\* Without failed commands evictions, reloads and overlapping saves lose no
\* accepted update, and a crash or a shutdown only what was in a write that
\* Redis had not executed yet.
THEOREM NoLossCorrect ==
  ASSUME MaxFaults = 0
  PROVE  Spec => []NoAcceptedUpdateLost /\ AcceptedIsKept
<1>1. LossNeedsFailedWrite /\ NoFailure => NoAcceptedUpdateLost
  BY DEF LossNeedsFailedWrite, NoFailure, NoAcceptedUpdateLost
<1>2. ASSUME TypeOK, OneLoad, WritesOrdered, UnsavedOnlyByFailure, NoFailure,
             NoAcceptedUpdateLost, NoAcceptedUpdateLost', [Next]_vars, NEW d \in Docs
      PROVE  accepted[d] \ Visible(d)'
               \subseteq IF mode' = "down" THEN UNION PipeStates(d) ELSE {}
  <2>1. CASE accepted[d] \subseteq accepted'[d]
    <3>1. accepted'[d] \subseteq Visible(d)'
      BY <1>2 DEF NoAcceptedUpdateLost
    <3>2. accepted[d] \ Visible(d)' = {}
      BY <2>1, <3>1
    <3> QED
      BY <3>2
  <2>2. CASE mode' = "down" /\ Ends(d)
    <3>1. accepted[d] \subseteq Visible(d) /\ failed[d] = {}
      BY <1>2 DEF NoAcceptedUpdateLost, NoFailure
    <3>2. Visible(d)' = redis'[d]
      BY <1>2, <2>2, NewestStep DEF Ends, Visible, InMemory
    <3>3. Visible(d) \ redis'[d] \subseteq (UNION PipeStates(d)) \cup failed[d]
      BY <1>2, <2>2, EndTakes DEF Ends
    <3>4. accepted[d] \ Visible(d)' \subseteq UNION PipeStates(d)
      BY <3>1, <3>2, <3>3
    <3> QED
      BY <2>2, <3>4
  <2> QED
    BY <1>2, <2>1, <2>2, AcceptedGrows
<1>3. TypeOK /\ OneLoad /\ WritesOrdered /\ UnsavedOnlyByFailure /\ NoFailure
        /\ NoAcceptedUpdateLost /\ NoAcceptedUpdateLost' /\ [Next]_vars
        => [\A d \in Docs : accepted[d] \ Visible(d)'
              \subseteq IF mode' = "down" THEN UNION PipeStates(d) ELSE {}]_vars
  BY <1>2
<1> QED
  BY <1>1, <1>3, TypeCorrect, OneLoadCorrect, WritesOrderedCorrect, UnsavedCorrect,
     LossCorrect, NoFailureCorrect, PTL DEF Spec, AcceptedIsKept

-----------------------------------------------------------------------------
(* While no Redis command fails the service implements DurableDocument.    *)

\* A process that is down has no connection, no suspended work, no memory.
NothingRuns == /\ \A s \in Sockets : conn[s] # "on"
               /\ active = {}
               /\ entering = <<>>
               /\ initPromises = {}
               /\ documents = [d \in Docs |-> Absent]
               /\ cleaningUp = [d \in Docs |-> "idle"]
               /\ pipe = [d \in Docs |-> <<>>]
DownIsQuiet == mode = "down" => NothingRuns

\* Nothing but a restart happens to a process that is down.
LEMMA DownOnlyRestarts ==
  ASSUME mode = "down", NothingRuns, [Next]_vars
  PROVE  Restart \/ UNCHANGED vars
<1>1. ASSUME NEW s \in Sockets
      PROVE  /\ ~Connect(s) /\ ~Disconnect(s)
             /\ \A d \in Docs : ~JoinDocument(s, d) /\ ~LeaveDocument(s, d)
             /\ \A d \in Docs, u \in Updates : ~DocumentUpdate(s, d, u)
  <2>1. conn[s] # "on" /\ ~Receives(s)
    BY DEF NothingRuns, Receives
  <2>2. ~Connect(s) /\ ~Disconnect(s)
    BY <2>1 DEF Connect, Disconnect
  <2>3. \A d \in Docs : ~JoinDocument(s, d) /\ ~LeaveDocument(s, d)
    BY <2>1 DEF JoinDocument, LeaveDocument
  <2>4. \A d \in Docs, u \in Updates : ~DocumentUpdate(s, d, u)
    BY <2>1 DEF DocumentUpdate
  <2> QED
    BY <2>2, <2>3, <2>4
<1>2. ASSUME NEW d \in Docs
      PROVE  /\ ~LoadDone(d) /\ ~LoadFails(d)
             /\ ~RedisSet(d) /\ ~RedisSetFails(d)
             /\ ~CleanupDone(d) /\ ~CleanupFails(d)
             /\ ~PersistPeriodically(d) /\ ~StopFlush(d)
  BY DEF NothingRuns, LoadDone, LoadFails, RedisSet, RedisSetFails, CleanupDone,
         CleanupFails, PersistPeriodically, StopFlush
<1>3. ~SweepStaleUsers /\ ~BeginStop /\ ~CloseServer /\ ~Exit /\ ~Crash
  BY DEF SweepStaleUsers, BeginStop, CloseServer, Exit, Crash
<1>4. ASSUME NEW s \in Sockets
      PROVE  /\ ~GoIdle(s)
             /\ \A d \in Docs : ~JoinLoaded(s, d) /\ ~JoinWaits(s, d)
  BY DEF NothingRuns, GoIdle, JoinLoaded, JoinWaits, Quiet
<1> QED
  BY <1>1, <1>2, <1>3, <1>4
     DEF Next, ClientStep, ServerStep, ProcessStep

\* It stays so until it is started again.
LEMMA DownStep == TypeOK /\ DownIsQuiet /\ [Next]_vars => DownIsQuiet'
<1> SUFFICES ASSUME TypeOK, DownIsQuiet, [Next]_vars, mode' = "down"
             PROVE  NothingRuns'
  BY DEF DownIsQuiet
<1>1. CASE mode = "down"
  <2>1. UNCHANGED vars
    BY <1>1, DownOnlyRestarts DEF DownIsQuiet, Restart
  <2> QED
    BY <1>1, <2>1 DEF DownIsQuiet, NothingRuns, vars, socketVars, joinVars,
                      storeVars
<1>2. CASE mode # "down"
  <2>1. ProcessEnds
    BY <1>2, DownByEnd
  <2> QED
    BY <2>1 DEF ProcessEnds, NothingRuns, TypeOK
<1> QED
  BY <1>1, <1>2

\* So it is in every reachable state.
LEMMA DownCorrect == Spec => []DownIsQuiet
<1>1. Init => DownIsQuiet
  BY DEF Init, DownIsQuiet
<1> QED
  BY <1>1, DownStep, TypeCorrect, PTL DEF Spec

\* What a client is shown lies between the stored state and what was issued,
\* and memory holds nothing that was not issued.
LEMMA ShownIsNewest ==
  ASSUME TypeOK, WritesOrdered, UnsavedOnlyByFailure, NoFailure, NEW d \in Docs
  PROVE  /\ Visible(d) = Newest(d)
         /\ redis[d] \subseteq Visible(d)
         /\ \A S \in PipeStates(d) : S \subseteq Visible(d)
<1>1. /\ redis[d] \subseteq Newest(d)
      /\ Below(pipe[d], Newest(d))
      /\ Newest(d) = redis[d] \/ Newest(d) \in PipeStates(d)
  BY NewestIsLast DEF WritesOrdered, OrderedAt
<1>2. InMemory(d) => Newest(d) \subseteq documents[d]
  BY <1>1 DEF WritesOrdered, OrderedAt, Below, PipeStates
<1>3. InMemory(d) => documents[d] = Newest(d)
  <2>1. InMemory(d) => documents[d] \ Newest(d) = {}
    BY DEF UnsavedOnlyByFailure, NoFailure
  <2> QED
    BY <1>2, <2>1, NewestIsLast DEF TypeOK, InMemory, WritesOrdered, OrderedAt
<1>4. Visible(d) = Newest(d)
  BY <1>3 DEF Visible
<1> QED
  BY <1>1, <1>4 DEF Below, PipeStates

\* A client is shown the newest write.
ShownNewest == \A d \in Docs : Visible(d) = Newest(d)

\* The invariants the refinement rests on.
FaultFreeInv == /\ TypeOK
                /\ OneLoad
                /\ WritesOrdered
                /\ UnsavedOnlyByFailure
                /\ NoFailure
                /\ DownIsQuiet
                /\ ShownNewest

\* Every step of a fault-free service is one of the durable document.
LEMMA DurableStep ==
  ASSUME MaxFaults = 0, FaultFreeInv, FaultFreeInv', [Next]_vars
  PROVE  [Durable!Next]_Durable!vars
<1> DEFINE content == [d \in Docs |-> Visible(d)]
<1> USE DEF FaultFreeInv
<1>1. \A d \in Docs : /\ Visible(d) = Newest(d) /\ Visible(d)' = Newest(d)'
                      /\ redis[d] \subseteq Visible(d)
                      /\ \A S \in PipeStates(d) : S \subseteq Visible(d)
  BY ShownIsNewest DEF ShownNewest
<1>2. CASE mode = "down"
  <2>1. CASE UNCHANGED vars
    <3>1. UNCHANGED <<mode, documents, pipe, redis>>
      BY <2>1 DEF vars, storeVars
    <3>2. content' = content
      BY <3>1 DEF Visible, InMemory, Newest
    <3> QED
      BY <3>1, <3>2 DEF Durable!vars
  <2>2. CASE Restart
    <3>1. mode' = "up" /\ UNCHANGED <<documents, pipe, redis>>
      BY <2>2 DEF Restart, storeVars
    <3>2. content' = content
      BY <3>1 DEF Visible, InMemory, Newest
    <3> QED
      BY <1>2, <3>1, <3>2 DEF Durable!Next, Durable!Restart
  <2> QED
    BY <1>2, <2>1, <2>2, DownOnlyRestarts DEF DownIsQuiet
<1>3. CASE mode # "down" /\ mode' = "down"
  <2>1. ProcessEnds
    BY <1>3, DownByEnd
  <2>2. redis' \in [Docs -> SUBSET Updates]
    BY <2>1 DEF ProcessEnds
  <2>3. \A d \in Docs : redis[d] \subseteq redis'[d] /\ redis'[d] \subseteq Visible(d)
    BY <1>1, <2>1, OrderedStep DEF ProcessEnds
  <2>4. content' = redis'
    <3>1. \A d \in Docs : Visible(d)' = redis'[d]
      BY <2>1 DEF ProcessEnds, Visible, InMemory, Newest
    <3> QED
      BY <2>2, <3>1
  <2> QED
    BY <1>3, <2>2, <2>3, <2>4 DEF Durable!Next, Durable!Crash
<1>4. CASE mode # "down" /\ mode' # "down"
  <2>1. CASE BackgroundStep
    <3>1. ASSUME NEW d \in Docs
          PROVE  Newest(d)' = Newest(d) /\ redis'[d] = redis[d]
      <4>1. CASE Saves(d)
        BY <1>1, <4>1, NewestStep DEF Saves, Visible
      <4>2. CASE Same(d) \/ Loads(d) \/ Evicts(d)
        BY <4>2, NewestStep DEF Same, Loads, Evicts
      <4> QED
        BY <2>1, <4>1, <4>2 DEF BackgroundStep, Keeps
    <3>2. content' = content
      BY <1>1, <3>1
    <3>3. redis' = redis
      BY <3>1 DEF TypeOK
    <3> QED
      BY <1>4, <3>2, <3>3 DEF Durable!vars
  <2>2. ASSUME NEW d \in Docs, NEW u \in Updates, Takes(d, u),
               \A e \in Docs \ {d} : Same(e)
        PROVE  Durable!Accept(d, u)
    <3>1. Visible(d)' = Visible(d) \cup {u}
      BY <1>1, <2>2, NewestStep DEF Takes, Visible
    <3>2. \A e \in Docs \ {d} : Visible(e)' = Visible(e)
      BY <1>1, <2>2, NewestStep
    <3>3. content' = [content EXCEPT ![d] = @ \cup {u}]
      BY <3>1, <3>2
    <3>4. redis' = redis
      BY <2>2 DEF Takes, Same, TypeOK
    <3> QED
      BY <1>4, <3>3, <3>4 DEF Durable!Accept
  <2>3. ASSUME NEW d \in Docs, Executes(d), \A e \in Docs \ {d} : Same(e)
        PROVE  Durable!Stabilize(d)
    <3> DEFINE written == Head(pipe[d]).state
    <3>1. written \in SUBSET Updates /\ written \in PipeStates(d)
      BY <2>3 DEF Executes, PipeStates, TypeOK, Write
    <3>2. redis[d] \subseteq redis'[d] /\ redis'[d] = written
      BY <2>3, OrderedStep DEF Executes
    <3>3. content' = content
      BY <1>1, <2>3, NewestStep
    <3> HIDE DEF written
    <3>4. redis' = [redis EXCEPT ![d] = written]
      BY <2>3, <3>2 DEF Same, TypeOK
    <3> QED
      BY <1>1, <1>4, <3>1, <3>2, <3>3, <3>4 DEF Durable!Stabilize
  <2> QED
    BY <1>4, <2>1, <2>2, <2>3, StepKinds
       DEF UpdateStep, RedisStep, EndStep, Rejects, Durable!Next
<1> QED
  BY <1>2, <1>3, <1>4

\* Without failed commands the service implements the durable document, with
\* any number of clients, documents, updates, crashes and shutdowns.
THEOREM DurableCorrect == ASSUME MaxFaults = 0 PROVE Spec => ImplementsDurable
<1>1. Init => Durable!Init
  BY DEF Init, Durable!Init, Visible, InMemory, Newest
<1>2. FaultFreeInv /\ FaultFreeInv' /\ [Next]_vars => [Durable!Next]_Durable!vars
  BY DurableStep
<1>3. TypeOK /\ WritesOrdered /\ UnsavedOnlyByFailure /\ NoFailure => ShownNewest
  BY ShownIsNewest DEF ShownNewest
<1> QED
  BY <1>1, <1>2, <1>3, TypeCorrect, OneLoadCorrect, WritesOrderedCorrect,
     UnsavedCorrect, NoFailureCorrect, DownCorrect, PTL
     DEF Spec, ImplementsDurable, Durable!Spec, FaultFreeInv
=============================================================================
