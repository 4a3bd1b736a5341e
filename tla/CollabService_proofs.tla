------------------------ MODULE CollabService_proofs ------------------------
(***************************************************************************)
(* Proofs about CollabService, for any number of sockets, documents,       *)
(* updates, failures and restarts.                                         *)
(***************************************************************************)
EXTENDS CollabService, TLAPS

-----------------------------------------------------------------------------
(* Typing.                                                                 *)

\* Cleaning up a set of documents that are in memory keeps the types of the
\* two variables it changes.
LEMMA StartCleanupTyped ==
  ASSUME TypeOK, NEW D \in SUBSET Docs, StartCleanup(D)
  PROVE  /\ cleaningUp' \in [Docs -> {"idle", "writing", "wrote"}]
         /\ pipe' \in [Docs -> Seq(Write)]
<1>1. cleaningUp' \in [Docs -> {"idle", "writing", "wrote"}]
  BY DEF TypeOK, StartCleanup
<1>2. ASSUME NEW d \in Docs, InMemory(d)
      PROVE  Append(pipe[d], [by |-> "cleanup", state |-> documents[d]])
               \in Seq(Write)
  <2>1. documents[d] \in SUBSET Updates
    BY <1>2 DEF TypeOK, InMemory
  <2>2. [by |-> "cleanup", state |-> documents[d]] \in Write
    BY <2>1 DEF Write, Writers
  <2> QED
    BY <2>2 DEF TypeOK
<1>3. pipe' \in [Docs -> Seq(Write)]
  BY <1>2 DEF TypeOK, StartCleanup
<1> QED
  BY <1>1, <1>3

\* A write appended to a document's pipe keeps its type.
LEMMA AppendTyped ==
  ASSUME TypeOK, NEW d \in Docs, NEW w \in Write,
         pipe' = [pipe EXCEPT ![d] = Append(@, w)]
  PROVE  pipe' \in [Docs -> Seq(Write)]
  BY DEF TypeOK

\* Every variable keeps its type, whatever the clients, Redis, the timers and
\* the process do.
LEMMA TypeStep == TypeOK /\ [Next]_vars => TypeOK'
<1> SUFFICES ASSUME TypeOK, [Next]_vars PROVE TypeOK'
  OBVIOUS
<1> USE ConstantsOK
<1>1. ASSUME NEW s \in Sockets, Connect(s) PROVE TypeOK'
  BY <1>1 DEF Connect, TypeOK, joinVars, storeVars, bounds
<1>2. ASSUME NEW s \in Sockets, NEW d \in Docs, JoinDocument(s, d) PROVE TypeOK'
  <2> DEFINE old == socketToDocument[s]
             left == IF old \notin {NoDoc, d} THEN {old} ELSE {}
  <2>1. left \in SUBSET Docs
    BY DEF TypeOK
  <2>2. StartCleanup({e \in left : users'[e] = {}})
    BY <1>2 DEF JoinDocument
  <2>3. /\ cleaningUp' \in [Docs -> {"idle", "writing", "wrote"}]
        /\ pipe' \in [Docs -> Seq(Write)]
    <3> HIDE DEF left
    <3> QED BY <2>1, <2>2, StartCleanupTyped
  <2>4. entering' \in Seq(Sockets \X Docs)
    BY <1>2 DEF JoinDocument, TypeOK
  <2> QED
    BY <1>2, <2>3, <2>4 DEF JoinDocument, TypeOK, WithoutUser, bounds
<1>3. ASSUME NEW s \in Sockets, NEW d \in Docs, JoinLoaded(s, d) PROVE TypeOK'
  <2>1. entering' \in Seq(Sockets \X Docs)
    BY <1>3 DEF JoinLoaded, TypeOK, Quiet
  <2> QED
    BY <1>3, <2>1 DEF JoinLoaded, TypeOK, WithUsers, storeVars, bounds
<1>4. ASSUME NEW s \in Sockets, NEW d \in Docs, JoinWaits(s, d) PROVE TypeOK'
  <2>1. entering' \in Seq(Sockets \X Docs)
    BY <1>4 DEF JoinWaits, TypeOK, Quiet
  <2> QED
    BY <1>4, <2>1 DEF JoinWaits, TypeOK, socketVars, storeVars, bounds
<1>5. ASSUME NEW s \in Sockets, NEW d \in Docs, LeaveDocument(s, d)
      PROVE  TypeOK'
  <2> DEFINE tracked == socketToDocument[s]
             target == IF tracked # NoDoc THEN tracked ELSE d
  <2>1. target \in Docs
    BY DEF TypeOK
  <2>2. StartCleanup(IF users'[target] = {} THEN {target} ELSE {})
    BY <1>5 DEF LeaveDocument
  <2>3. /\ cleaningUp' \in [Docs -> {"idle", "writing", "wrote"}]
        /\ pipe' \in [Docs -> Seq(Write)]
    <3> HIDE DEF target
    <3> QED BY <2>1, <2>2, StartCleanupTyped
  <2> QED
    BY <1>5, <2>3 DEF LeaveDocument, TypeOK, WithoutUser, joinVars, bounds
<1>6. ASSUME NEW s \in Sockets, Disconnect(s) PROVE TypeOK'
  <2> DEFINE tracked == {socketToDocument[s]} \ {NoDoc}
  <2>1. tracked \in SUBSET Docs
    BY DEF TypeOK
  <2>2. StartCleanup({d \in tracked : users'[d] = {}})
    BY <1>6 DEF Disconnect
  <2>3. /\ cleaningUp' \in [Docs -> {"idle", "writing", "wrote"}]
        /\ pipe' \in [Docs -> Seq(Write)]
    <3> HIDE DEF tracked
    <3> QED BY <2>1, <2>2, StartCleanupTyped
  <2> QED
    BY <1>6, <2>3 DEF Disconnect, TypeOK, WithoutUser, joinVars, bounds
<1>7. ASSUME NEW s \in Sockets, NEW d \in Docs, NEW u \in Updates,
             DocumentUpdate(s, d, u)
      PROVE  TypeOK'
  <2>1. documents[d] \in SUBSET Updates
    BY <1>7 DEF DocumentUpdate, TypeOK, InMemory
  <2>2. [by |-> "update", state |-> documents[d] \cup {u}] \in Write
    BY <2>1 DEF Write, Writers
  <2>3. pipe' \in [Docs -> Seq(Write)]
    BY <1>7, <2>2, AppendTyped DEF DocumentUpdate
  <2> QED
    BY <1>7, <2>1, <2>3 DEF DocumentUpdate, TypeOK, joinVars, bounds
<1>8. ASSUME NEW d \in Docs, LoadDone(d) PROVE TypeOK'
  BY <1>8 DEF LoadDone, TypeOK, WithUsers, storeVars, bounds
<1>9. ASSUME NEW d \in Docs, LoadFails(d) PROVE TypeOK'
  BY <1>9 DEF LoadFails, TypeOK, storeVars
<1>10. ASSUME NEW d \in Docs, RedisSet(d) PROVE TypeOK'
  <2>1. /\ Head(pipe[d]) \in Write
        /\ Tail(pipe[d]) \in Seq(Write)
    BY <1>10 DEF RedisSet, TypeOK
  <2> QED
    BY <1>10, <2>1 DEF RedisSet, TypeOK, Write, socketVars, joinVars, bounds
<1>11. ASSUME NEW d \in Docs, RedisSetFails(d) PROVE TypeOK'
  <2>1. /\ Head(pipe[d]) \in Write
        /\ Tail(pipe[d]) \in Seq(Write)
    BY <1>11 DEF RedisSetFails, TypeOK
  <2>2. Head(pipe[d]).state \in SUBSET Updates
    BY <2>1 DEF Write
  <2>3. /\ redis' \in [Docs -> SUBSET Updates]
        /\ failed' \in [Docs -> SUBSET Updates]
    <3> DEFINE written == Head(pipe[d]).state
    <3>1. CASE /\ redis' = [redis EXCEPT ![d] = written]
               /\ failed' = [failed EXCEPT ![d] = @ \ written]
      BY <2>2, <3>1 DEF TypeOK
    <3>2. CASE /\ failed' = [failed EXCEPT ![d] = @ \cup (written \ redis[d])]
               /\ redis' = redis
      BY <2>2, <3>2 DEF TypeOK
    <3> QED
      BY <1>11, <3>1, <3>2 DEF RedisSetFails
  <2>4. pipe' \in [Docs -> Seq(Write)]
    BY <1>11, <2>1 DEF RedisSetFails, TypeOK
  <2> QED
    BY <1>11, <2>3, <2>4 DEF RedisSetFails, TypeOK, socketVars, joinVars
<1>12. ASSUME NEW d \in Docs, CleanupDone(d) PROVE TypeOK'
  BY <1>12 DEF CleanupDone, TypeOK, socketVars, joinVars, storeVars, bounds
<1>13. ASSUME NEW d \in Docs, CleanupFails(d) PROVE TypeOK'
  BY <1>13 DEF CleanupFails, TypeOK, socketVars, joinVars, storeVars
<1>14. ASSUME NEW s \in Sockets, GoIdle(s) PROVE TypeOK'
  BY <1>14 DEF GoIdle, TypeOK, joinVars, storeVars, bounds
<1>15. CASE SweepStaleUsers
  <2> DEFINE stale(d) == users[d] \ active
             affected == {d \in Docs : stale(d) # {}}
  <2>1. StartCleanup({d \in affected : users'[d] = {}})
    BY <1>15 DEF SweepStaleUsers
  <2>2. /\ cleaningUp' \in [Docs -> {"idle", "writing", "wrote"}]
        /\ pipe' \in [Docs -> Seq(Write)]
    BY <2>1, StartCleanupTyped
  <2> QED
    BY <1>15, <2>2 DEF SweepStaleUsers, TypeOK, joinVars, bounds
<1>16. ASSUME NEW d \in Docs, PersistPeriodically(d) PROVE TypeOK'
  <2>1. [by |-> "periodic", state |-> documents[d]] \in Write
    BY <1>16 DEF PersistPeriodically, TypeOK, InMemory, Write, Writers
  <2>2. pipe' \in [Docs -> Seq(Write)]
    BY <1>16, <2>1, AppendTyped DEF PersistPeriodically
  <2> QED
    BY <1>16, <2>2 DEF PersistPeriodically, TypeOK, socketVars, joinVars, bounds
<1>17. CASE BeginStop
  BY <1>17 DEF BeginStop, TypeOK, socketVars, joinVars, storeVars
<1>18. ASSUME NEW d \in Docs, StopFlush(d) PROVE TypeOK'
  <2>1. [by |-> "stop", state |-> documents[d]] \in Write
    BY <1>18 DEF StopFlush, TypeOK, InMemory, Write, Writers
  <2>2. pipe' \in [Docs -> Seq(Write)]
    BY <1>18, <2>1, AppendTyped DEF StopFlush
  <2> QED
    BY <1>18, <2>2 DEF StopFlush, TypeOK, socketVars, joinVars, bounds
<1>19. CASE CloseServer
  BY <1>19 DEF CloseServer, TypeOK, socketVars, joinVars, storeVars, bounds
<1>20. CASE Exit
  BY <1>20 DEF Exit, ProcessEnds, TypeOK
<1>21. CASE Crash
  BY <1>21 DEF Crash, ProcessEnds, TypeOK
<1>22. CASE Restart
  BY <1>22 DEF Restart, TypeOK, socketVars, joinVars, storeVars, bounds
<1>23. CASE UNCHANGED vars
  BY <1>23 DEF vars, TypeOK, socketVars, joinVars, storeVars, bounds
<1> QED
  BY <1>1, <1>2, <1>3, <1>4, <1>5, <1>6, <1>7, <1>8, <1>9, <1>10, <1>11,
     <1>12, <1>13, <1>14, <1>15, <1>16, <1>17, <1>18, <1>19, <1>20, <1>21,
     <1>22, <1>23
     DEF Next, ClientStep, ServerStep, ProcessStep

\* The type invariant holds in every reachable state of the service.
THEOREM TypeCorrect == Spec => []TypeOK
<1>1. Init => TypeOK
  BY ConstantsOK DEF Init, TypeOK
<1> QED
  BY <1>1, TypeStep, PTL DEF Spec

-----------------------------------------------------------------------------
(* The two awareness maps.                                                 *)

\* A step that leaves both awareness maps alone keeps them in agreement.
LEMMA AwarenessUntouched ==
  AwarenessAgrees /\ UNCHANGED <<users, socketToDocument>> => AwarenessAgrees'
  BY DEF AwarenessAgrees

\* Removing the user of one socket from both maps keeps them in agreement.
LEMMA AwarenessRemoved ==
  ASSUME TypeOK, AwarenessAgrees, NEW s \in Sockets,
         users' = WithoutUser(s),
         socketToDocument' = [socketToDocument EXCEPT ![s] = NoDoc]
  PROVE  AwarenessAgrees'
  BY ConstantsOK DEF AwarenessAgrees, TypeOK, WithoutUser

\* Adding a set of users to a document moves them there in both maps.
LEMMA AwarenessAdded ==
  ASSUME TypeOK, AwarenessAgrees, NEW d \in Docs, NEW S \in SUBSET Sockets,
         users' = WithUsers(S, d),
         socketToDocument' = [s \in Sockets |-> IF s \in S THEN d
                                                ELSE socketToDocument[s]]
  PROVE  AwarenessAgrees'
  BY ConstantsOK DEF AwarenessAgrees, TypeOK, WithUsers

\* Joins, switches, leaves, disconnects, loads and sweeps all change the two
\* maps of the AwarenessService together.
LEMMA AwarenessStep == TypeOK /\ AwarenessAgrees /\ [Next]_vars => AwarenessAgrees'
<1> SUFFICES ASSUME TypeOK, AwarenessAgrees, [Next]_vars PROVE AwarenessAgrees'
  OBVIOUS
<1>1. ASSUME NEW s \in Sockets, NEW d \in Docs, JoinDocument(s, d)
      PROVE  AwarenessAgrees'
  <2>1. CASE socketToDocument[s] \notin {NoDoc, d}
    <3>1. /\ users' = WithoutUser(s)
          /\ socketToDocument' = [socketToDocument EXCEPT ![s] = NoDoc]
      BY <1>1, <2>1 DEF JoinDocument
    <3> QED
      BY <3>1, AwarenessRemoved
  <2>2. CASE socketToDocument[s] \in {NoDoc, d}
    <3>1. UNCHANGED <<users, socketToDocument>>
      BY <1>1, <2>2 DEF JoinDocument
    <3> QED
      BY <3>1, AwarenessUntouched
  <2> QED
    BY <2>1, <2>2
<1>2. ASSUME NEW s \in Sockets, NEW d \in Docs, JoinLoaded(s, d)
      PROVE  AwarenessAgrees'
  <2>1. /\ users' = WithUsers({s}, d)
        /\ socketToDocument' = [socketToDocument EXCEPT ![s] = d]
    BY <1>2 DEF JoinLoaded
  <2>2. socketToDocument' = [t \in Sockets |-> IF t \in {s} THEN d
                                               ELSE socketToDocument[t]]
    BY <2>1 DEF TypeOK
  <2> QED
    BY <2>1, <2>2, AwarenessAdded
<1>3. ASSUME NEW s \in Sockets, NEW d \in Docs, LeaveDocument(s, d)
      PROVE  AwarenessAgrees'
  BY <1>3, AwarenessRemoved DEF LeaveDocument
<1>4. ASSUME NEW s \in Sockets, Disconnect(s) PROVE AwarenessAgrees'
  BY <1>4, AwarenessRemoved DEF Disconnect
<1>5. ASSUME NEW d \in Docs, LoadDone(d) PROVE AwarenessAgrees'
  <2> DEFINE joiners == {s \in Sockets : <<s, d>> \in waiting}
  <2>1. /\ users' = WithUsers(joiners, d)
        /\ socketToDocument' = [s \in Sockets |-> IF s \in joiners THEN d
                                                  ELSE socketToDocument[s]]
    BY <1>5 DEF LoadDone
  <2>2. joiners \in SUBSET Sockets
    OBVIOUS
  <2> HIDE DEF joiners
  <2> QED
    BY <2>1, <2>2, AwarenessAdded
<1>6. CASE SweepStaleUsers
  BY <1>6, ConstantsOK DEF SweepStaleUsers, AwarenessAgrees, TypeOK
<1>7. CASE \/ \E s \in Sockets : Connect(s) \/ GoIdle(s)
           \/ \E s \in Sockets, d \in Docs :
                JoinWaits(s, d) \/ \E u \in Updates : DocumentUpdate(s, d, u)
  <2>1. UNCHANGED <<users, socketToDocument>>
    BY <1>7 DEF Connect, GoIdle, JoinWaits, DocumentUpdate, socketVars
  <2> QED
    BY <2>1, AwarenessUntouched
<1>8. CASE \E d \in Docs : \/ LoadFails(d) \/ RedisSet(d) \/ RedisSetFails(d)
                           \/ CleanupDone(d) \/ CleanupFails(d)
                           \/ PersistPeriodically(d) \/ StopFlush(d)
  <2>1. UNCHANGED <<users, socketToDocument>>
    BY <1>8 DEF LoadFails, RedisSet, RedisSetFails, CleanupDone, CleanupFails,
                PersistPeriodically, StopFlush, socketVars
  <2> QED
    BY <2>1, AwarenessUntouched
<1>9. CASE BeginStop \/ CloseServer \/ Restart \/ UNCHANGED vars
  <2>1. UNCHANGED <<users, socketToDocument>>
    BY <1>9 DEF BeginStop, CloseServer, Restart, vars, socketVars
  <2> QED
    BY <2>1, AwarenessUntouched
<1>10. CASE Exit \/ Crash
  BY <1>10, ConstantsOK DEF Exit, Crash, ProcessEnds, AwarenessAgrees
<1> QED
  BY <1>1, <1>2, <1>3, <1>4, <1>5, <1>6, <1>7, <1>8, <1>9, <1>10
     DEF Next, ClientStep, ServerStep, ProcessStep

\* The two maps of the AwarenessService describe the same membership in every
\* reachable state, however joins, switches, sweeps and late loads interleave.
THEOREM AwarenessCorrect == Spec => []AwarenessAgrees
<1>1. Init => AwarenessAgrees
  BY ConstantsOK DEF Init, AwarenessAgrees
<1> QED
  BY <1>1, AwarenessStep, TypeCorrect, PTL DEF Spec

-----------------------------------------------------------------------------
(* Documents in memory.                                                    *)

\* Nobody is added to a document and nothing leaves memory: then whatever is
\* tracked stays in memory.
LEMMA TrackedKept ==
  ASSUME TypeOK, TrackedInMemory,
         \A d \in Docs : users'[d] \subseteq users[d],
         \A d \in Docs : InMemory(d) => InMemory(d)'
  PROVE  TrackedInMemory'
  BY DEF TrackedInMemory, TypeOK

\* A cleanup evicts only after a second look at the users, and users are added
\* only to a document that is in memory at that moment.
LEMMA TrackedStep == TypeOK /\ TrackedInMemory /\ [Next]_vars => TrackedInMemory'
<1> SUFFICES ASSUME TypeOK, TrackedInMemory, [Next]_vars PROVE TrackedInMemory'
  OBVIOUS
<1> USE ConstantsOK
<1>1. CASE \/ \E s \in Sockets, d \in Docs :
                JoinDocument(s, d) \/ LeaveDocument(s, d)
           \/ \E s \in Sockets : Disconnect(s)
           \/ SweepStaleUsers
  <2>1. documents' = documents
    BY <1>1 DEF JoinDocument, LeaveDocument, Disconnect, SweepStaleUsers
  <2>2. \/ users' = users
        \/ \E s \in Sockets : users' = WithoutUser(s)
        \/ users' = [d \in Docs |-> users[d] \cap active]
    <3>1. ASSUME NEW s \in Sockets, NEW d \in Docs, JoinDocument(s, d)
          PROVE  users' = users \/ users' = WithoutUser(s)
      BY <3>1 DEF JoinDocument
    <3>2. ASSUME NEW s \in Sockets, NEW d \in Docs, LeaveDocument(s, d)
          PROVE  users' = WithoutUser(s)
      BY <3>2 DEF LeaveDocument
    <3>3. ASSUME NEW s \in Sockets, Disconnect(s)
          PROVE  users' = WithoutUser(s)
      BY <3>3 DEF Disconnect
    <3>4. CASE SweepStaleUsers
      BY <3>4 DEF SweepStaleUsers
    <3> QED
      BY <1>1, <3>1, <3>2, <3>3, <3>4
  <2>3. \A d \in Docs : users'[d] \subseteq users[d]
    BY <2>2 DEF WithoutUser
  <2> QED
    BY <2>1, <2>3, TrackedKept DEF InMemory
<1>2. ASSUME NEW s \in Sockets, NEW d \in Docs, JoinLoaded(s, d)
      PROVE  TrackedInMemory'
  BY <1>2 DEF JoinLoaded, TrackedInMemory, InMemory, WithUsers, TypeOK
<1>3. ASSUME NEW d \in Docs, LoadDone(d) PROVE TrackedInMemory'
  <2>1. InMemory(d)'
    BY <1>3 DEF LoadDone, InMemory, TypeOK
  <2>2. \A e \in Docs \ {d} : /\ users'[e] \subseteq users[e]
                              /\ documents'[e] = documents[e]
    BY <1>3 DEF LoadDone, WithUsers, TypeOK
  <2> QED
    BY <2>1, <2>2 DEF TrackedInMemory, InMemory
<1>4. ASSUME NEW d \in Docs, CleanupDone(d) PROVE TrackedInMemory'
  BY <1>4 DEF CleanupDone, TrackedInMemory, InMemory, TypeOK, socketVars
<1>5. ASSUME NEW s \in Sockets, NEW d \in Docs, NEW u \in Updates,
             DocumentUpdate(s, d, u)
      PROVE  TrackedInMemory'
  <2>1. documents[d] \in SUBSET Updates
    BY <1>5 DEF DocumentUpdate, TypeOK, InMemory
  <2>2. \A e \in Docs : InMemory(e) => InMemory(e)'
    BY <1>5, <2>1 DEF DocumentUpdate, InMemory, TypeOK
  <2>3. users' = users
    BY <1>5 DEF DocumentUpdate
  <2> QED
    BY <2>2, <2>3, TrackedKept
<1>6. CASE \/ \E s \in Sockets : Connect(s) \/ GoIdle(s)
           \/ \E s \in Sockets, d \in Docs : JoinWaits(s, d)
           \/ \E d \in Docs : \/ LoadFails(d) \/ RedisSet(d) \/ RedisSetFails(d)
                              \/ CleanupFails(d) \/ PersistPeriodically(d)
                              \/ StopFlush(d)
           \/ BeginStop \/ CloseServer \/ Restart \/ UNCHANGED vars
  <2>1. UNCHANGED <<users, documents>>
    BY <1>6 DEF Connect, GoIdle, JoinWaits, LoadFails, RedisSet, RedisSetFails,
                CleanupFails, PersistPeriodically, StopFlush, BeginStop,
                CloseServer, Restart, vars, socketVars
  <2> QED
    BY <2>1, TrackedKept DEF InMemory
<1>7. CASE Exit \/ Crash
  BY <1>7 DEF Exit, Crash, ProcessEnds, TrackedInMemory
<1> QED
  BY <1>1, <1>2, <1>3, <1>4, <1>5, <1>6, <1>7
     DEF Next, ClientStep, ServerStep, ProcessStep

\* A document somebody is tracked in is in memory in every reachable state: no
\* eviction races a join.
THEOREM TrackedCorrect == Spec => []TrackedInMemory
<1>1. Init => TrackedInMemory
  BY DEF Init, TrackedInMemory
<1> QED
  BY <1>1, TrackedStep, TypeCorrect, PTL DEF Spec

\* A load is listed until it is over, a join waits for a listed load only, and
\* the joins that wait for a load stay until it is over.
LEMMA OneLoadStep == TypeOK /\ OneLoad /\ [Next]_vars => OneLoad'
<1> SUFFICES ASSUME TypeOK, OneLoad, [Next]_vars PROVE OneLoad'
  OBVIOUS
<1>1. ASSUME NEW s \in Sockets, NEW d \in Docs, JoinWaits(s, d) PROVE OneLoad'
  <2>1. /\ ~InMemory(d)
        /\ waiting' = waiting \cup {<<s, d>>}
        /\ initPromises' = initPromises \cup {d}
        /\ documents' = documents
    BY <1>1 DEF JoinWaits
  <2>2. \A e \in initPromises' : \E t \in Sockets : <<t, e>> \in waiting'
    BY <2>1 DEF OneLoad
  <2>3. \A w \in waiting' : w[2] \in initPromises'
    BY <2>1 DEF OneLoad
  <2>4. \A e \in initPromises' : ~InMemory(e)'
    BY <2>1 DEF OneLoad, InMemory
  <2> QED
    BY <2>2, <2>3, <2>4 DEF OneLoad
<1>2. ASSUME NEW d \in Docs, LoadDone(d) PROVE OneLoad'
  BY <1>2 DEF LoadDone, OneLoad, InMemory, TypeOK
<1>3. ASSUME NEW d \in Docs, LoadFails(d) PROVE OneLoad'
  BY <1>3 DEF LoadFails, OneLoad, InMemory, TypeOK
<1>4. ASSUME NEW d \in Docs, CleanupDone(d) PROVE OneLoad'
  BY <1>4 DEF CleanupDone, OneLoad, InMemory, TypeOK, joinVars
<1>5. ASSUME NEW s \in Sockets, NEW d \in Docs, NEW u \in Updates,
             DocumentUpdate(s, d, u)
      PROVE  OneLoad'
  <2>1. d \notin initPromises
    BY <1>5 DEF DocumentUpdate, OneLoad
  <2>2. \A e \in Docs \ {d} : documents'[e] = documents[e]
    BY <1>5 DEF DocumentUpdate, TypeOK
  <2>3. UNCHANGED <<initPromises, waiting>>
    BY <1>5 DEF DocumentUpdate, joinVars
  <2> QED
    BY <2>1, <2>2, <2>3 DEF OneLoad, InMemory, TypeOK
<1>6. CASE \/ \E s \in Sockets : Connect(s) \/ Disconnect(s) \/ GoIdle(s)
           \/ \E s \in Sockets, d \in Docs :
                JoinDocument(s, d) \/ LeaveDocument(s, d) \/ JoinLoaded(s, d)
           \/ SweepStaleUsers
  <2>1. UNCHANGED <<waiting, initPromises, documents>>
    BY <1>6 DEF Connect, Disconnect, GoIdle, JoinDocument, LeaveDocument,
                JoinLoaded, SweepStaleUsers, joinVars
  <2> QED
    BY <2>1 DEF OneLoad, InMemory
<1>7. CASE \/ \E d \in Docs : \/ RedisSet(d) \/ RedisSetFails(d)
                              \/ CleanupFails(d) \/ PersistPeriodically(d)
                              \/ StopFlush(d)
           \/ BeginStop \/ CloseServer \/ Restart \/ UNCHANGED vars
  <2>1. UNCHANGED <<waiting, initPromises, documents>>
    BY <1>7 DEF RedisSet, RedisSetFails, CleanupFails, PersistPeriodically,
                StopFlush, BeginStop, CloseServer, Restart, vars, joinVars
  <2> QED
    BY <2>1 DEF OneLoad, InMemory
<1>8. CASE Exit \/ Crash
  BY <1>8 DEF Exit, Crash, ProcessEnds, OneLoad
<1> QED
  BY <1>1, <1>2, <1>3, <1>4, <1>5, <1>6, <1>7, <1>8
     DEF Next, ClientStep, ServerStep, ProcessStep

\* Concurrent joins of a document share one Y.Doc in every reachable state.
THEOREM OneLoadCorrect == Spec => []OneLoad
<1>1. Init => OneLoad
  BY DEF Init, OneLoad
<1> QED
  BY <1>1, OneLoadStep, TypeCorrect, PTL DEF Spec

-----------------------------------------------------------------------------
(* Presence lists and rooms.                                               *)

\* A client that waits for its acks has one join under way at most, suspended
\* or waiting for a load but never both.
OneJoin ==
  \A s \in Patient :
    /\ \A i, j \in DOMAIN entering :
         entering[i][1] = s /\ entering[j][1] = s => i = j
    /\ \A i \in DOMAIN entering :
         entering[i][1] = s => \A d \in Docs : <<s, d>> \notin waiting
    /\ \A d, e \in Docs : <<s, d>> \in waiting /\ <<s, e>> \in waiting => d = e

\* A socket that has not connected yet has left no trace.
NewIsOutside ==
  \A s \in Sockets :
    conn[s] = "new" => /\ rooms[s] = {}
                       /\ socketToDocument[s] = NoDoc
                       /\ Pending(s) = {}

\* A join enters the room before the presence list, so a connected client is in
\* the room of the document it is tracked in and of the one it is joining; and
\* a join has left any other document first, connected or not.
RoomsFollowJoins ==
  \A s \in Patient :
    /\ conn[s] = "on" =>
         rooms[s] = ({socketToDocument[s]} \ {NoDoc}) \cup Pending(s)
    /\ \A d \in Pending(s) : socketToDocument[s] \in {NoDoc, d}

PresenceInv == OneJoin /\ NewIsOutside /\ RoomsFollowJoins
AwarenessInv == TypeOK /\ AwarenessAgrees /\ TrackedInMemory /\ OneLoad

\* What a join pending means, without the set of suspended joins.
LEMMA PendingMeans ==
  ASSUME NEW s, NEW d \in Docs
  PROVE  d \in Pending(s) <=> \/ \E i \in DOMAIN entering : entering[i] = <<s, d>>
                              \/ <<s, d>> \in waiting
  BY DEF Pending, Suspended

\* Between ticks a join is pending exactly when it waits for a load.
LEMMA PendingWhenQuiet ==
  ASSUME Quiet, NEW s
  PROVE  Pending(s) = {d \in Docs : <<s, d>> \in waiting}
<1>1. DOMAIN entering = {}
  BY DEF Quiet
<1> QED
  BY <1>1 DEF Pending, Suspended

\* A document somebody waits for is being loaded, so nobody is tracked in it.
LEMMA AwaitedIsUntracked ==
  ASSUME AwarenessInv, NEW s \in Sockets, NEW d \in Docs, NEW t \in Sockets,
         <<s, d>> \in waiting
  PROVE  t \notin users[d] /\ socketToDocument[t] # d
<1>1. d \in initPromises
  BY DEF AwarenessInv, OneLoad
<1>2. ~InMemory(d)
  BY <1>1 DEF AwarenessInv, OneLoad
<1>3. users[d] = {}
  BY <1>2 DEF AwarenessInv, TrackedInMemory
<1> QED
  BY <1>3 DEF AwarenessInv, AwarenessAgrees

\* A step that leaves the joins, rooms and mappings of the waiting clients
\* alone keeps the invariant.
LEMMA PresenceUntouched ==
  ASSUME PresenceInv,
         UNCHANGED <<conn, rooms, socketToDocument, entering, waiting>>
  PROVE  PresenceInv'
  BY DEF PresenceInv, OneJoin, NewIsOutside, RoomsFollowJoins, Pending, Suspended

\* handleJoinDocument leaves the old document, enters the room and suspends.
LEMMA PresenceJoin ==
  ASSUME AwarenessInv, PresenceInv, NEW s \in Sockets, NEW d \in Docs,
         JoinDocument(s, d)
  PROVE  PresenceInv'
<1> USE ConstantsOK
<1>1. /\ entering \in Seq(Sockets \X Docs)
      /\ entering' = Append(entering, <<s, d>>)
      /\ waiting' = waiting
      /\ conn' = conn
  BY DEF JoinDocument, AwarenessInv, TypeOK
<1>2. DOMAIN entering = 1 .. Len(entering) /\ Len(entering) \in Nat
  BY <1>1
<1>3. /\ DOMAIN entering' = 1 .. Len(entering) + 1
      /\ \A i \in DOMAIN entering : entering'[i] = entering[i]
      /\ entering'[Len(entering) + 1] = <<s, d>>
  BY <1>1, <1>2
<1>4. \A t \in Sockets, e \in Docs :
        e \in Pending(t)' <=> e \in Pending(t) \/ (t = s /\ e = d)
  <2> SUFFICES ASSUME NEW t \in Sockets, NEW e \in Docs
               PROVE  e \in Pending(t)' <=> e \in Pending(t) \/ (t = s /\ e = d)
    OBVIOUS
  <2>1. (\E i \in DOMAIN entering' : entering'[i] = <<t, e>>)
          <=> \/ \E i \in DOMAIN entering : entering[i] = <<t, e>>
              \/ <<s, d>> = <<t, e>>
    BY <1>2, <1>3
  <2>2. <<s, d>> = <<t, e>> <=> t = s /\ e = d
    OBVIOUS
  <2>3. e \in Pending(t)'
          <=> \/ \E i \in DOMAIN entering' : entering'[i] = <<t, e>>
              \/ <<t, e>> \in waiting'
    BY DEF Pending, Suspended
  <2> QED
    BY <1>1, <2>1, <2>2, <2>3, PendingMeans
<1>5. \A t \in Sockets : t # s => Pending(t)' = Pending(t)
  BY <1>4 DEF Pending
<1>6. s \in Patient => Pending(s) = {} /\ Pending(s)' = {d} /\ conn[s] = "on"
  <2>1. s \in Patient => Pending(s) = {} /\ conn[s] = "on"
    BY DEF JoinDocument, Receives
  <2> QED
    BY <1>4, <2>1 DEF Pending
<1>7. s \in Patient => /\ \A i \in DOMAIN entering : entering[i][1] # s
                       /\ \A e \in Docs : <<s, e>> \notin waiting
  <2>1. \A i \in DOMAIN entering :
          entering[i][1] = s => entering[i][2] \in Docs
                                /\ entering[i] = <<s, entering[i][2]>>
    BY <1>1
  <2> QED
    BY <1>6, <2>1, PendingMeans
<1>8. OneJoin'
  <2> SUFFICES ASSUME NEW t \in Patient
               PROVE  /\ \A i, j \in DOMAIN entering' :
                           entering'[i][1] = t /\ entering'[j][1] = t => i = j
                      /\ \A i \in DOMAIN entering' :
                           entering'[i][1] = t =>
                             \A e \in Docs : <<t, e>> \notin waiting'
                      /\ \A e, f \in Docs :
                           <<t, e>> \in waiting' /\ <<t, f>> \in waiting' => e = f
    BY DEF OneJoin
  <2>1. CASE t = s
    BY <1>1, <1>2, <1>3, <1>7, <2>1
  <2>2. CASE t # s
    <3>1. \A i \in DOMAIN entering' : entering'[i][1] = t => i \in DOMAIN entering
      BY <1>2, <1>3, <2>2
    <3> QED
      BY <1>1, <1>3, <3>1 DEF PresenceInv, OneJoin
  <2> QED
    BY <2>1, <2>2
<1>9. \A t \in Sockets : t # s => /\ rooms'[t] = rooms[t]
                                  /\ socketToDocument'[t] = socketToDocument[t]
  BY DEF JoinDocument, AwarenessInv, TypeOK
<1>10. NewIsOutside'
  <2>1. conn'[s] = "on"
    BY <1>1 DEF JoinDocument, Receives
  <2> QED
    BY <1>1, <1>5, <1>9, <2>1 DEF PresenceInv, NewIsOutside
<1>11. RoomsFollowJoins'
  <2>1. ASSUME s \in Patient
        PROVE  /\ rooms'[s] = ({socketToDocument'[s]} \ {NoDoc}) \cup {d}
               /\ socketToDocument'[s] \in {NoDoc, d}
    <3>1. rooms[s] = {socketToDocument[s]} \ {NoDoc}
      BY <1>6, <2>1 DEF PresenceInv, RoomsFollowJoins
    <3>2. CASE socketToDocument[s] \notin {NoDoc, d}
      <4>1. /\ rooms'[s] = (rooms[s] \ {socketToDocument[s]}) \cup {d}
            /\ socketToDocument'[s] = NoDoc
        BY <3>2 DEF JoinDocument, AwarenessInv, TypeOK
      <4> QED
        BY <3>1, <4>1
    <3>3. CASE socketToDocument[s] \in {NoDoc, d}
      <4>1. /\ rooms'[s] = rooms[s] \cup {d}
            /\ socketToDocument'[s] = socketToDocument[s]
        BY <3>3 DEF JoinDocument, AwarenessInv, TypeOK
      <4> QED
        BY <3>1, <3>3, <4>1
    <3> QED
      BY <3>2, <3>3
  <2> QED
    BY <1>1, <1>5, <1>6, <1>9, <2>1 DEF PresenceInv, RoomsFollowJoins
<1> QED
  BY <1>8, <1>10, <1>11 DEF PresenceInv

\* The first suspended join resumes: the other joins stay where they are.
LEMMA PresenceResume ==
  ASSUME AwarenessInv, PresenceInv, NEW s \in Sockets, NEW d \in Docs,
         ~Quiet, Head(entering) = <<s, d>>, entering' = Tail(entering),
         waiting' \in {waiting, waiting \cup {<<s, d>>}}
  PROVE  /\ OneJoin'
         /\ d \in Pending(s)
         /\ s \in Patient => Pending(s) = {d} /\ Pending(s)' =
                               IF <<s, d>> \in waiting' THEN {d} ELSE {}
         /\ \A t \in Sockets : t # s => Pending(t)' = Pending(t)
<1> USE ConstantsOK
<1> DEFINE n == Len(entering)
<1>1. /\ entering \in Seq(Sockets \X Docs)
      /\ n \in Nat \ {0}
      /\ DOMAIN entering = 1 .. n
      /\ entering[1] = <<s, d>>
  BY DEF AwarenessInv, TypeOK, Quiet
<1>2. /\ DOMAIN entering' = 1 .. n - 1
      /\ \A i \in 1 .. n - 1 : entering'[i] = entering[i + 1]
  BY <1>1
<1> HIDE DEF n
<1>3. d \in Pending(s)
  BY <1>1, PendingMeans
<1>4. \A t \in Sockets, e \in Docs :
        <<t, e>> # <<s, d>> => (e \in Pending(t)' <=> e \in Pending(t))
  <2> SUFFICES ASSUME NEW t \in Sockets, NEW e \in Docs, <<t, e>> # <<s, d>>
               PROVE  e \in Pending(t)' <=> e \in Pending(t)
    OBVIOUS
  <2>1. (\E i \in DOMAIN entering' : entering'[i] = <<t, e>>)
          => (\E i \in DOMAIN entering : entering[i] = <<t, e>>)
    <3> SUFFICES ASSUME NEW i \in 1 .. n - 1, entering'[i] = <<t, e>>
                 PROVE  \E j \in 1 .. n : entering[j] = <<t, e>>
      BY <1>1, <1>2
    <3>1. i + 1 \in 1 .. n
      BY <1>1
    <3> QED
      BY <1>2, <3>1
  <2>2. (\E i \in DOMAIN entering : entering[i] = <<t, e>>)
          => (\E i \in DOMAIN entering' : entering'[i] = <<t, e>>)
    <3> SUFFICES ASSUME NEW i \in 1 .. n, entering[i] = <<t, e>>
                 PROVE  \E j \in 1 .. n - 1 : entering'[j] = <<t, e>>
      BY <1>1, <1>2
    <3>1. i # 1
      BY <1>1
    <3>2. i - 1 \in 1 .. n - 1 /\ (i - 1) + 1 = i
      BY <1>1, <3>1
    <3> QED
      BY <1>2, <3>2
  <2>3. <<t, e>> \in waiting' <=> <<t, e>> \in waiting
    OBVIOUS
  <2>4. e \in Pending(t)'
          <=> \/ \E i \in DOMAIN entering' : entering'[i] = <<t, e>>
              \/ <<t, e>> \in waiting'
    BY DEF Pending, Suspended
  <2> QED
    BY <2>1, <2>2, <2>3, <2>4, PendingMeans
<1>5. \A t \in Sockets : t # s => Pending(t)' = Pending(t)
  BY <1>4 DEF Pending
<1>6. ASSUME s \in Patient
      PROVE  /\ \A i \in DOMAIN entering' : entering'[i][1] # s
             /\ \A e \in Docs : <<s, e>> \notin waiting
  <2>1. \A i \in DOMAIN entering : entering[i][1] = s => i = 1
    BY <1>1, <1>6 DEF PresenceInv, OneJoin
  <2>2. \A i \in 1 .. n - 1 : i + 1 \in 1 .. n /\ i + 1 # 1
    BY <1>1
  <2>3. \A e \in Docs : <<s, e>> \notin waiting
    <3>1. 1 \in DOMAIN entering /\ entering[1][1] = s
      BY <1>1
    <3> QED
      BY <1>6, <3>1 DEF PresenceInv, OneJoin
  <2> QED
    BY <1>1, <1>2, <2>1, <2>2, <2>3
<1>7. ASSUME s \in Patient
      PROVE  /\ Pending(s) = {d}
             /\ Pending(s)' = IF <<s, d>> \in waiting' THEN {d} ELSE {}
  <2>1. \A e \in Docs : e \in Pending(s)' <=> <<s, e>> \in waiting'
    <3>1. \A e \in Docs, i \in DOMAIN entering' : entering'[i] # <<s, e>>
      BY <1>6, <1>7
    <3> QED
      BY <3>1 DEF Pending, Suspended
  <2>2. \A e \in Docs : <<s, e>> \in waiting' => e = d
    BY <1>6, <1>7
  <2>3. Pending(s)' = IF <<s, d>> \in waiting' THEN {d} ELSE {}
    BY <2>1, <2>2 DEF Pending
  <2>4. \A e \in Docs : e # d => e \notin Pending(s)
    BY <1>4, <2>1, <2>2
  <2> QED
    BY <1>3, <2>3, <2>4 DEF Pending
<1>8. OneJoin'
  <2> SUFFICES ASSUME NEW t \in Patient
               PROVE  /\ \A i, j \in DOMAIN entering' :
                           entering'[i][1] = t /\ entering'[j][1] = t => i = j
                      /\ \A i \in DOMAIN entering' :
                           entering'[i][1] = t =>
                             \A e \in Docs : <<t, e>> \notin waiting'
                      /\ \A e, f \in Docs :
                           <<t, e>> \in waiting' /\ <<t, f>> \in waiting' => e = f
    BY DEF OneJoin
  <2>1. CASE t = s
    BY <1>6, <2>1
  <2>2. CASE t # s
    <3>1. \A e \in Docs : <<t, e>> \in waiting' <=> <<t, e>> \in waiting
      BY <2>2
    <3>2. \A i \in 1 .. n - 1 : i + 1 \in DOMAIN entering
      BY <1>1
    <3>3. ASSUME NEW i \in 1 .. n - 1, NEW j \in 1 .. n - 1,
                 entering'[i][1] = t, entering'[j][1] = t
          PROVE  i = j
      <4>1. entering[i + 1][1] = t /\ entering[j + 1][1] = t
        BY <1>2, <3>3
      <4>2. i + 1 = j + 1
        BY <3>2, <4>1 DEF PresenceInv, OneJoin
      <4> QED
        BY <1>1, <4>2
    <3>4. ASSUME NEW i \in 1 .. n - 1, entering'[i][1] = t, NEW e \in Docs
          PROVE  <<t, e>> \notin waiting'
      <4>1. entering[i + 1][1] = t
        BY <1>2, <3>4
      <4> QED
        BY <3>1, <3>2, <4>1 DEF PresenceInv, OneJoin
    <3>5. \A e, f \in Docs :
            <<t, e>> \in waiting' /\ <<t, f>> \in waiting' => e = f
      BY <3>1 DEF PresenceInv, OneJoin
    <3> QED
      BY <1>2, <3>3, <3>4, <3>5
  <2> QED
    BY <2>1, <2>2
<1> QED
  BY <1>3, <1>5, <1>7, <1>8

\* A step between ticks that adds no join keeps the uniqueness of the rest.
LEMMA OneJoinKept ==
  ASSUME PresenceInv, entering' = entering, waiting' \subseteq waiting
  PROVE  OneJoin'
  BY DEF PresenceInv, OneJoin

\* The load succeeds: every client that waited for d is tracked in d, and it is
\* in no other room.
LEMMA PresenceLoadDone ==
  ASSUME AwarenessInv, PresenceInv, NEW d \in Docs, LoadDone(d)
  PROVE  PresenceInv'
<1> USE ConstantsOK
<1>1. /\ Quiet /\ Quiet'
      /\ waiting' = {w \in waiting : w[2] # d}
      /\ UNCHANGED <<conn, rooms, entering>>
      /\ socketToDocument' = [s \in Sockets |->
           IF <<s, d>> \in waiting THEN d ELSE socketToDocument[s]]
  BY DEF LoadDone, Quiet
<1>2. OneJoin'
  BY <1>1, OneJoinKept
<1>3. ASSUME NEW s \in Sockets
      PROVE  /\ Pending(s) = {e \in Docs : <<s, e>> \in waiting}
             /\ Pending(s)' = {e \in Docs : <<s, e>> \in waiting'}
  <2>1. DOMAIN entering = {} /\ DOMAIN entering' = {}
    BY <1>1 DEF Quiet
  <2> QED
    BY <2>1 DEF Pending, Suspended
<1>4. ASSUME NEW s \in Patient, <<s, d>> \in waiting
      PROVE  /\ Pending(s) = {d}
             /\ Pending(s)' = {}
             /\ socketToDocument'[s] = d
  <2>1. \A e \in Docs : <<s, e>> \in waiting => e = d
    BY <1>4 DEF PresenceInv, OneJoin
  <2>2. s \in Sockets
    OBVIOUS
  <2>3. /\ Pending(s) = {e \in Docs : <<s, e>> \in waiting}
        /\ Pending(s)' = {e \in Docs : <<s, e>> \in waiting'}
    BY <1>3, <2>2
  <2> QED
    BY <1>1, <1>4, <2>1, <2>2, <2>3
<1>5. ASSUME NEW s \in Sockets, <<s, d>> \notin waiting
      PROVE  /\ Pending(s)' = Pending(s)
             /\ socketToDocument'[s] = socketToDocument[s]
  <2>1. \A e \in Docs : <<s, e>> \in waiting' <=> <<s, e>> \in waiting
    BY <1>1, <1>5
  <2> QED
    BY <1>1, <1>3, <1>5, <2>1
<1>6. NewIsOutside'
  <2>1. \A s \in Sockets : conn[s] = "new" => <<s, d>> \notin waiting
    BY <1>3 DEF PresenceInv, NewIsOutside
  <2> QED
    BY <1>1, <1>5, <2>1 DEF PresenceInv, NewIsOutside
<1>7. RoomsFollowJoins'
  <2> SUFFICES ASSUME NEW s \in Patient
               PROVE  /\ conn[s] = "on" =>
                           rooms'[s] = ({socketToDocument'[s]} \ {NoDoc})
                                         \cup Pending(s)'
                      /\ \A e \in Pending(s)' : socketToDocument'[s] \in {NoDoc, e}
    BY <1>1 DEF RoomsFollowJoins
  <2>1. /\ conn[s] = "on" =>
             rooms[s] = ({socketToDocument[s]} \ {NoDoc}) \cup Pending(s)
        /\ \A e \in Pending(s) : socketToDocument[s] \in {NoDoc, e}
    BY DEF PresenceInv, RoomsFollowJoins
  <2>2. CASE <<s, d>> \in waiting
    BY <1>1, <1>4, <2>1, <2>2
  <2>3. CASE <<s, d>> \notin waiting
    BY <1>1, <1>5, <2>1, <2>3
  <2> QED
    BY <2>2, <2>3
<1> QED
  BY <1>2, <1>6, <1>7 DEF PresenceInv

\* The load fails: every client that waited for d leaves its room, and none of
\* them is tracked in d, which is not in memory.
LEMMA PresenceLoadFails ==
  ASSUME AwarenessInv, PresenceInv, NEW d \in Docs, LoadFails(d)
  PROVE  PresenceInv'
<1> USE ConstantsOK
<1>1. /\ Quiet /\ Quiet'
      /\ waiting' = {w \in waiting : w[2] # d}
      /\ UNCHANGED <<conn, socketToDocument, entering>>
      /\ rooms' = [s \in Sockets |-> IF <<s, d>> \in waiting THEN rooms[s] \ {d}
                                                             ELSE rooms[s]]
  BY DEF LoadFails, Quiet
<1>2. OneJoin'
  BY <1>1, OneJoinKept
<1>3. ASSUME NEW s \in Sockets
      PROVE  /\ Pending(s) = {e \in Docs : <<s, e>> \in waiting}
             /\ Pending(s)' = {e \in Docs : <<s, e>> \in waiting'}
  <2>1. DOMAIN entering = {} /\ DOMAIN entering' = {}
    BY <1>1 DEF Quiet
  <2> QED
    BY <2>1 DEF Pending, Suspended
<1>4. ASSUME NEW s \in Patient, <<s, d>> \in waiting
      PROVE  /\ Pending(s) = {d}
             /\ Pending(s)' = {}
             /\ rooms'[s] = rooms[s] \ {d}
             /\ socketToDocument[s] # d
  <2>1. \A e \in Docs : <<s, e>> \in waiting => e = d
    BY <1>4 DEF PresenceInv, OneJoin
  <2>2. socketToDocument[s] # d
    BY <1>4, AwaitedIsUntracked
  <2>3. s \in Sockets
    OBVIOUS
  <2>4. /\ Pending(s) = {e \in Docs : <<s, e>> \in waiting}
        /\ Pending(s)' = {e \in Docs : <<s, e>> \in waiting'}
    BY <1>3, <2>3
  <2> QED
    BY <1>1, <1>4, <2>1, <2>2, <2>3, <2>4
<1>5. ASSUME NEW s \in Sockets, <<s, d>> \notin waiting
      PROVE  Pending(s)' = Pending(s) /\ rooms'[s] = rooms[s]
  <2>1. \A e \in Docs : <<s, e>> \in waiting' <=> <<s, e>> \in waiting
    BY <1>1, <1>5
  <2> QED
    BY <1>1, <1>3, <1>5, <2>1
<1>6. NewIsOutside'
  <2>1. \A s \in Sockets : conn[s] = "new" => <<s, d>> \notin waiting
    BY <1>3 DEF PresenceInv, NewIsOutside
  <2> QED
    BY <1>1, <1>5, <2>1 DEF PresenceInv, NewIsOutside
<1>7. RoomsFollowJoins'
  <2> SUFFICES ASSUME NEW s \in Patient
               PROVE  /\ conn[s] = "on" =>
                           rooms'[s] = ({socketToDocument[s]} \ {NoDoc})
                                         \cup Pending(s)'
                      /\ \A e \in Pending(s)' : socketToDocument[s] \in {NoDoc, e}
    BY <1>1 DEF RoomsFollowJoins
  <2>1. /\ conn[s] = "on" =>
             rooms[s] = ({socketToDocument[s]} \ {NoDoc}) \cup Pending(s)
        /\ \A e \in Pending(s) : socketToDocument[s] \in {NoDoc, e}
    BY DEF PresenceInv, RoomsFollowJoins
  <2>2. CASE <<s, d>> \in waiting
    BY <1>4, <2>1, <2>2
  <2>3. CASE <<s, d>> \notin waiting
    BY <1>5, <2>1, <2>3
  <2> QED
    BY <2>2, <2>3
<1> QED
  BY <1>2, <1>6, <1>7 DEF PresenceInv

\* The sweep takes an idle user out of the list and out of the room of the same
\* document; the one it may be waiting for is not in memory and has no users.
LEMMA PresenceSweep ==
  ASSUME AwarenessInv, PresenceInv, SweepStaleUsers
  PROVE  PresenceInv'
<1> USE ConstantsOK
<1> DEFINE stale(d) == users[d] \ active
           affected == {d \in Docs : stale(d) # {}}
<1>1. /\ Quiet
      /\ UNCHANGED <<conn, entering, waiting>>
      /\ socketToDocument' = [s \in Sockets |->
           IF \E d \in affected : s \in stale(d) THEN NoDoc
           ELSE socketToDocument[s]]
      /\ rooms' = [s \in Sockets |->
           rooms[s] \ {d \in affected : s \in stale(d)}]
  BY DEF SweepStaleUsers, joinVars
<1>2. OneJoin'
  BY <1>1, OneJoinKept
<1>3. \A s : Pending(s)' = Pending(s)
  BY <1>1 DEF Pending, Suspended
<1>4. ASSUME NEW s \in Sockets, NEW d \in Docs, s \in stale(d)
      PROVE  /\ socketToDocument[s] = d
             /\ {e \in affected : s \in stale(e)} = {d}
             /\ socketToDocument'[s] = NoDoc
             /\ rooms'[s] = rooms[s] \ {d}
             /\ d \notin Pending(s)
  <2>1. \A e \in Docs : s \in users[e] <=> socketToDocument[s] = e
    BY DEF AwarenessInv, AwarenessAgrees
  <2>2. socketToDocument[s] = d
    BY <1>4, <2>1
  <2>3. {e \in affected : s \in stale(e)} = {d}
    BY <1>4, <2>1, <2>2
  <2>4. d \notin Pending(s)
    BY <1>1, <2>2, AwaitedIsUntracked, PendingWhenQuiet
  <2>5. \E e \in affected : s \in stale(e)
    BY <1>4
  <2>6. socketToDocument'[s] = NoDoc /\ rooms'[s] = rooms[s] \ {d}
    <3> HIDE DEF stale, affected
    <3> QED BY <1>1, <2>3, <2>5
  <2> QED
    BY <2>2, <2>3, <2>4, <2>6
<1>5. ASSUME NEW s \in Sockets, \A d \in Docs : s \notin stale(d)
      PROVE  socketToDocument'[s] = socketToDocument[s] /\ rooms'[s] = rooms[s]
  <2>1. {d \in affected : s \in stale(d)} = {}
    BY <1>5
  <2>2. ~ \E d \in affected : s \in stale(d)
    BY <1>5
  <2> HIDE DEF stale, affected
  <2> QED
    BY <1>1, <2>1, <2>2
<1> HIDE DEF stale, affected
<1>6. NewIsOutside'
  <2> SUFFICES ASSUME NEW s \in Sockets, conn[s] = "new"
               PROVE  rooms'[s] = {} /\ socketToDocument'[s] = NoDoc
                      /\ Pending(s)' = {}
    BY <1>1 DEF NewIsOutside
  <2>1. rooms[s] = {} /\ socketToDocument[s] = NoDoc /\ Pending(s) = {}
    BY DEF PresenceInv, NewIsOutside
  <2>2. \A d \in Docs : s \notin stale(d)
    BY <1>4, <2>1
  <2> QED
    BY <1>3, <1>5, <2>1, <2>2
<1>7. RoomsFollowJoins'
  <2> SUFFICES ASSUME NEW s \in Patient
               PROVE  /\ conn[s] = "on" =>
                           rooms'[s] = ({socketToDocument'[s]} \ {NoDoc})
                                         \cup Pending(s)
                      /\ \A e \in Pending(s) : socketToDocument'[s] \in {NoDoc, e}
    BY <1>1, <1>3 DEF RoomsFollowJoins
  <2>1. /\ conn[s] = "on" =>
             rooms[s] = ({socketToDocument[s]} \ {NoDoc}) \cup Pending(s)
        /\ \A e \in Pending(s) : socketToDocument[s] \in {NoDoc, e}
    BY DEF PresenceInv, RoomsFollowJoins
  <2>2. CASE \E d \in Docs : s \in stale(d)
    <3> PICK d \in Docs : s \in stale(d)
      BY <2>2
    <3> QED
      BY <1>4, <2>1
  <2>3. CASE \A d \in Docs : s \notin stale(d)
    BY <1>5, <2>1, <2>3
  <2> QED
    BY <2>2, <2>3
<1> QED
  BY <1>2, <1>6, <1>7 DEF PresenceInv

\* Joins, switches, leaves, disconnects, loads that succeed or fail and sweeps
\* keep rooms, presence lists and pending joins in step.
LEMMA PresenceStep ==
  AwarenessInv /\ PresenceInv /\ [Next]_vars => PresenceInv'
<1> SUFFICES ASSUME AwarenessInv, PresenceInv, [Next]_vars PROVE PresenceInv'
  OBVIOUS
<1> USE ConstantsOK
<1>1. ASSUME NEW s \in Sockets, Connect(s) PROVE PresenceInv'
  <2>1. /\ conn[s] = "new"
        /\ \A t \in Sockets : conn'[t] = IF t = s THEN "on" ELSE conn[t]
        /\ UNCHANGED <<rooms, socketToDocument, entering, waiting>>
    BY <1>1 DEF Connect, joinVars, AwarenessInv, TypeOK
  <2>2. OneJoin'
    BY <2>1, OneJoinKept
  <2>3. \A t : Pending(t)' = Pending(t)
    BY <2>1 DEF Pending, Suspended
  <2>4. NewIsOutside' /\ RoomsFollowJoins'
    BY <2>1, <2>3 DEF PresenceInv, NewIsOutside, RoomsFollowJoins
  <2> QED
    BY <2>2, <2>4 DEF PresenceInv
<1>2. ASSUME NEW s \in Sockets, Disconnect(s) PROVE PresenceInv'
  <2>1. /\ conn' = [conn EXCEPT ![s] = "gone"]
        /\ rooms' = [rooms EXCEPT ![s] = {}]
        /\ socketToDocument' = [socketToDocument EXCEPT ![s] = NoDoc]
        /\ UNCHANGED <<entering, waiting>>
    BY <1>2 DEF Disconnect, joinVars
  <2>2. /\ conn'[s] = "gone" /\ socketToDocument'[s] = NoDoc
        /\ \A t \in Sockets : t # s =>
             /\ conn'[t] = conn[t]
             /\ rooms'[t] = rooms[t]
             /\ socketToDocument'[t] = socketToDocument[t]
    BY <2>1 DEF AwarenessInv, TypeOK
  <2>3. OneJoin'
    BY <2>1, OneJoinKept
  <2>4. \A t : Pending(t)' = Pending(t)
    BY <2>1 DEF Pending, Suspended
  <2>5. NewIsOutside' /\ RoomsFollowJoins'
    BY <2>2, <2>4 DEF PresenceInv, NewIsOutside, RoomsFollowJoins
  <2> QED
    BY <2>3, <2>5 DEF PresenceInv
<1>3. ASSUME NEW s \in Sockets, NEW d \in Docs, JoinDocument(s, d)
      PROVE  PresenceInv'
  BY <1>3, PresenceJoin
<1>4. ASSUME NEW s \in Sockets, NEW d \in Docs, LeaveDocument(s, d)
      PROVE  PresenceInv'
  <2> DEFINE target == IF socketToDocument[s] # NoDoc THEN socketToDocument[s]
                       ELSE d
  <2>1. /\ rooms' = [rooms EXCEPT ![s] = @ \ {target}]
        /\ socketToDocument' = [socketToDocument EXCEPT ![s] = NoDoc]
        /\ UNCHANGED <<conn, entering, waiting>>
    BY <1>4 DEF LeaveDocument, joinVars
  <2>2. /\ rooms'[s] = rooms[s] \ {target}
        /\ socketToDocument'[s] = NoDoc
        /\ \A t \in Sockets : t # s =>
             /\ rooms'[t] = rooms[t]
             /\ socketToDocument'[t] = socketToDocument[t]
    BY <2>1 DEF AwarenessInv, TypeOK
  <2>3. OneJoin'
    BY <2>1, OneJoinKept
  <2>4. \A t : Pending(t)' = Pending(t)
    BY <2>1 DEF Pending, Suspended
  <2>5. s \in Patient => Pending(s) = {} /\ conn[s] = "on"
    BY <1>4 DEF LeaveDocument, Receives
  <2>6. s \in Patient => rooms'[s] = {}
    <3>1. s \in Patient => rooms[s] = {socketToDocument[s]} \ {NoDoc}
      BY <2>5 DEF PresenceInv, RoomsFollowJoins
    <3> QED
      BY <2>2, <3>1
  <2>7. NewIsOutside' /\ RoomsFollowJoins'
    BY <2>1, <2>2, <2>4, <2>5, <2>6 DEF PresenceInv, NewIsOutside, RoomsFollowJoins
  <2> QED
    BY <2>3, <2>7 DEF PresenceInv
<1>5. ASSUME NEW s \in Sockets, NEW d \in Docs, JoinLoaded(s, d)
      PROVE  PresenceInv'
  <2>1. /\ ~Quiet /\ Head(entering) = <<s, d>> /\ InMemory(d)
        /\ entering' = Tail(entering)
        /\ socketToDocument' = [socketToDocument EXCEPT ![s] = d]
        /\ UNCHANGED <<conn, rooms, waiting>>
    BY <1>5 DEF JoinLoaded
  <2>2. /\ socketToDocument'[s] = d
        /\ \A t \in Sockets : t # s => socketToDocument'[t] = socketToDocument[t]
    BY <2>1 DEF AwarenessInv, TypeOK
  <2>3. <<s, d>> \notin waiting'
    BY <2>1 DEF AwarenessInv, OneLoad
  <2>4. /\ OneJoin'
        /\ d \in Pending(s)
        /\ s \in Patient => Pending(s) = {d} /\ Pending(s)' = {}
        /\ \A t \in Sockets : t # s => Pending(t)' = Pending(t)
    BY <2>1, <2>3, PresenceResume
  <2>5. NewIsOutside'
    BY <2>1, <2>2, <2>4 DEF PresenceInv, NewIsOutside
  <2>6. RoomsFollowJoins'
    <3>1. ASSUME s \in Patient, conn[s] = "on"
          PROVE  rooms[s] = {d}
      BY <2>4, <3>1 DEF PresenceInv, RoomsFollowJoins
    <3>2. ASSUME s \in Patient, conn[s] = "on"
          PROVE  /\ rooms'[s] = ({socketToDocument'[s]} \ {NoDoc})
                                  \cup Pending(s)'
                 /\ Pending(s)' = {}
      BY <2>1, <2>2, <2>4, <3>1, <3>2
    <3> QED
      BY <2>1, <2>2, <2>4, <3>2 DEF PresenceInv, RoomsFollowJoins
  <2> QED
    BY <2>4, <2>5, <2>6 DEF PresenceInv
<1>6. ASSUME NEW s \in Sockets, NEW d \in Docs, JoinWaits(s, d)
      PROVE  PresenceInv'
  <2>1. /\ ~Quiet /\ Head(entering) = <<s, d>>
        /\ entering' = Tail(entering)
        /\ waiting' = waiting \cup {<<s, d>>}
        /\ UNCHANGED <<conn, rooms, socketToDocument>>
    BY <1>6 DEF JoinWaits, socketVars
  <2>2. /\ OneJoin'
        /\ d \in Pending(s)
        /\ s \in Patient => Pending(s)' = Pending(s)
        /\ \A t \in Sockets : t # s => Pending(t)' = Pending(t)
    BY <2>1, PresenceResume
  <2>3. NewIsOutside' /\ RoomsFollowJoins'
    BY <2>1, <2>2 DEF PresenceInv, NewIsOutside, RoomsFollowJoins
  <2> QED
    BY <2>2, <2>3 DEF PresenceInv
<1>7. ASSUME NEW d \in Docs, LoadDone(d) PROVE PresenceInv'
  BY <1>7, PresenceLoadDone
<1>8. ASSUME NEW d \in Docs, LoadFails(d) PROVE PresenceInv'
  BY <1>8, PresenceLoadFails
<1>9. CASE SweepStaleUsers
  BY <1>9, PresenceSweep
<1>10. CASE \/ \E s \in Sockets : GoIdle(s)
            \/ \E s \in Sockets, d \in Docs, u \in Updates : DocumentUpdate(s, d, u)
            \/ \E d \in Docs : \/ RedisSet(d) \/ RedisSetFails(d)
                               \/ CleanupDone(d) \/ CleanupFails(d)
                               \/ PersistPeriodically(d) \/ StopFlush(d)
            \/ BeginStop \/ CloseServer \/ Restart \/ UNCHANGED vars
  <2>1. UNCHANGED <<conn, rooms, socketToDocument, entering, waiting>>
    BY <1>10 DEF GoIdle, DocumentUpdate, RedisSet, RedisSetFails, CleanupDone,
                 CleanupFails, PersistPeriodically, StopFlush, BeginStop,
                 CloseServer, Restart, vars, socketVars, joinVars
  <2> QED
    BY <2>1, PresenceUntouched
<1>11. CASE Exit \/ Crash
  <2>1. /\ \A s \in Sockets :
             conn'[s] # "on" /\ rooms'[s] = {} /\ socketToDocument'[s] = NoDoc
        /\ entering' = <<>>
        /\ waiting' = {}
    BY <1>11 DEF Exit, Crash, ProcessEnds
  <2>2. DOMAIN entering' = {}
    BY <2>1
  <2>3. \A s : Pending(s)' = {}
    BY <2>1, <2>2 DEF Pending, Suspended
  <2> QED
    BY <2>1, <2>2, <2>3 DEF PresenceInv, OneJoin, NewIsOutside, RoomsFollowJoins
<1> QED
  BY <1>1, <1>2, <1>3, <1>4, <1>5, <1>6, <1>7, <1>8, <1>9, <1>10, <1>11
     DEF Next, ClientStep, ServerStep, ProcessStep

\* Nobody has connected yet.
LEMMA PresenceInit == Init => PresenceInv
<1> SUFFICES ASSUME Init PROVE PresenceInv
  OBVIOUS
<1>1. DOMAIN entering = {}
  BY DEF Init
<1> QED
  BY <1>1, ConstantsOK
     DEF Init, PresenceInv, OneJoin, NewIsOutside, RoomsFollowJoins, Pending,
         Suspended

\* What the sections above have shown, in one piece.
LEMMA AwarenessInvCorrect == Spec => []AwarenessInv
  BY TypeCorrect, AwarenessCorrect, TrackedCorrect, OneLoadCorrect, PTL
     DEF AwarenessInv

\* A connected client that waits for its acks is, between joins, in exactly the
\* room the presence lists show it in: no sweep, switch, failed or late load
\* takes it out of one and leaves it in the other.
THEOREM PresenceCorrect == Spec => []PresenceMatchesRooms
<1>1. PresenceInv => PresenceMatchesRooms
  BY DEF PresenceInv, RoomsFollowJoins, PresenceMatchesRooms
<1> QED
  BY <1>1, PresenceInit, AwarenessInvCorrect, PresenceStep, PTL DEF Spec

-----------------------------------------------------------------------------
(* Documents without users.                                                *)

\* A cleanup write of d has been issued and not answered.
CleanupIssued(d) == \E i \in DOMAIN pipe[d] : pipe[d][i].by = "cleanup"

\* A cleanup that awaits its save has a write to wait for.
CleanupsWrite == \A d \in Docs : cleaningUp[d] = "writing" => CleanupIssued(d)

\* Every client that has connected waits for its acks, and Redis has answered.
AllWait == (\A s \in Sockets : s \in Patient \/ conn[s] = "new") /\ faults = 0

Leaving(d) == InMemory(d) /\ users[d] = {} => cleaningUp[d] # "idle"

LeavingInv == CleanupsWrite /\ (AllWait => \A d \in Docs : Leaving(d))

\* A write issued behind the others leaves a cleanup's where it is.
LEMMA IssuedKept ==
  ASSUME TypeOK, NEW d \in Docs, NEW w, CleanupIssued(d),
         pipe'[d] = Append(pipe[d], w)
  PROVE  CleanupIssued(d)'
<1>1. pipe[d] \in Seq(Write)
  BY DEF TypeOK
<1>2. PICK i \in DOMAIN pipe[d] : pipe[d][i].by = "cleanup"
  BY DEF CleanupIssued
<1>3. i \in DOMAIN pipe'[d] /\ pipe'[d][i] = pipe[d][i]
  BY <1>1, <1>2
<1> QED
  BY <1>2, <1>3 DEF CleanupIssued

\* The oldest write is answered: a cleanup behind it waits on.
LEMMA IssuedPopped ==
  ASSUME TypeOK, NEW d \in Docs, CleanupIssued(d), pipe[d] # <<>>,
         Head(pipe[d]).by # "cleanup", pipe'[d] = Tail(pipe[d])
  PROVE  CleanupIssued(d)'
<1>1. pipe[d] \in Seq(Write) /\ Len(pipe[d]) \in Nat \ {0}
  BY DEF TypeOK
<1>2. PICK i \in 1 .. Len(pipe[d]) : pipe[d][i].by = "cleanup"
  BY <1>1 DEF CleanupIssued
<1>3. i # 1
  BY <1>1, <1>2
<1>4. i - 1 \in DOMAIN pipe'[d] /\ pipe'[d][i - 1] = pipe[d][i]
  BY <1>1, <1>2, <1>3
<1> QED
  BY <1>2, <1>4 DEF CleanupIssued

\* Starting a cleanup issues its write, and every document of D that is in
\* memory is being cleaned up afterwards.
LEMMA CleanupStarts ==
  ASSUME TypeOK, CleanupsWrite, NEW D, StartCleanup(D)
  PROVE  /\ CleanupsWrite'
         /\ \A d \in Docs : cleaningUp[d] # "idle" => cleaningUp'[d] # "idle"
         /\ \A d \in D \cap Docs : InMemory(d) => cleaningUp'[d] # "idle"
<1> DEFINE started == {d \in D : cleaningUp[d] = "idle" /\ InMemory(d)}
<1>1. \A d \in Docs : cleaningUp'[d] = IF d \in started THEN "writing"
                                       ELSE cleaningUp[d]
  BY DEF StartCleanup
<1>2. ASSUME NEW d \in Docs, cleaningUp'[d] = "writing" PROVE CleanupIssued(d)'
  <2>1. CASE d \in started
    <3> DEFINE w == [by |-> "cleanup", state |-> documents[d]]
    <3>1. pipe'[d] = Append(pipe[d], w)
      BY <2>1 DEF StartCleanup
    <3>2. pipe[d] \in Seq(Write) /\ w.by = "cleanup"
      BY DEF TypeOK
    <3> HIDE DEF w
    <3>3. /\ Len(pipe[d]) + 1 \in DOMAIN pipe'[d]
          /\ pipe'[d][Len(pipe[d]) + 1] = w
      BY <3>1, <3>2
    <3> QED
      BY <3>2, <3>3 DEF CleanupIssued
  <2>2. CASE d \notin started
    <3>1. pipe'[d] = pipe[d] /\ cleaningUp[d] = "writing"
      BY <1>1, <1>2, <2>2 DEF StartCleanup
    <3> QED
      BY <3>1 DEF CleanupsWrite, CleanupIssued
  <2> QED
    BY <2>1, <2>2
<1> QED
  BY <1>1, <1>2 DEF CleanupsWrite

\* A step that takes users out of documents and starts a cleanup of each one it
\* empties.
LEMMA LeavingEmptied ==
  ASSUME TypeOK, LeavingInv, NEW D, StartCleanup(D), documents' = documents,
         \A d \in Docs : users'[d] = {} => users[d] = {} \/ d \in D,
         AllWait' => AllWait
  PROVE  LeavingInv'
<1>1. /\ CleanupsWrite'
      /\ \A d \in Docs : cleaningUp[d] # "idle" => cleaningUp'[d] # "idle"
      /\ \A d \in D \cap Docs : InMemory(d) => cleaningUp'[d] # "idle"
  BY CleanupStarts DEF LeavingInv
<1>2. ASSUME AllWait, NEW d \in Docs PROVE Leaving(d)'
  <2>1. InMemory(d)' = InMemory(d)
    BY DEF InMemory
  <2>2. Leaving(d)
    BY <1>2 DEF LeavingInv
  <2> QED
    BY <1>1, <2>1, <2>2 DEF Leaving
<1> QED
  BY <1>1, <1>2 DEF LeavingInv

\* Leaves, disconnects, switches and sweeps start the cleanup of what they
\* empty; a join moves no user out of another document; a load has a user; and
\* a cleanup ends by evicting the document or finding a user in it.
LEMMA LeavingStep ==
  AwarenessInv /\ PresenceInv /\ LeavingInv /\ [Next]_vars => LeavingInv'
<1> SUFFICES ASSUME AwarenessInv, PresenceInv, LeavingInv, [Next]_vars
             PROVE  LeavingInv'
  OBVIOUS
<1> USE ConstantsOK
<1>0. TypeOK /\ AwarenessAgrees /\ CleanupsWrite
  BY DEF AwarenessInv, LeavingInv
<1>w. AllWait' => AllWait
  <2> DEFINE Fewer == \A s \in Sockets : conn'[s] = "new" => conn[s] = "new"
             More == faults' = faults \/ faults' = faults + 1
  <2>1. ASSUME NEW s \in Sockets, Connect(s) \/ Disconnect(s) PROVE Fewer /\ More
    BY <1>0, <2>1 DEF Connect, Disconnect, TypeOK, bounds
  <2>2. ASSUME NEW d \in Docs,
               LoadFails(d) \/ RedisSetFails(d) \/ CleanupFails(d)
        PROVE  Fewer /\ More
    BY <2>2 DEF LoadFails, RedisSetFails, CleanupFails, socketVars
  <2>3. ASSUME Exit \/ Crash PROVE Fewer /\ More
    <3>1. /\ conn' = [s \in Sockets |-> IF conn[s] = "on" THEN "gone" ELSE conn[s]]
          /\ faults' = faults
      BY <2>3 DEF Exit, Crash, ProcessEnds
    <3>2. \A s \in Sockets : conn'[s] = IF conn[s] = "on" THEN "gone" ELSE conn[s]
      BY <3>1
    <3> QED
      BY <3>1, <3>2
  <2>4. ASSUME NEW s \in Sockets, NEW d \in Docs, NEW u \in Updates,
               DocumentUpdate(s, d, u)
        PROVE  Fewer /\ More
    BY <2>4 DEF DocumentUpdate, bounds
  <2>5. ASSUME NEW s \in Sockets, NEW d \in Docs,
               JoinDocument(s, d) \/ LeaveDocument(s, d)
                 \/ JoinLoaded(s, d) \/ JoinWaits(s, d)
        PROVE  Fewer /\ More
    BY <2>5 DEF JoinDocument, LeaveDocument, JoinLoaded, JoinWaits,
                socketVars, bounds
  <2>6. ASSUME NEW s \in Sockets, GoIdle(s) PROVE Fewer /\ More
    BY <2>6 DEF GoIdle, bounds
  <2>7. ASSUME NEW d \in Docs,
               LoadDone(d) \/ RedisSet(d) \/ CleanupDone(d)
                 \/ PersistPeriodically(d) \/ StopFlush(d)
        PROVE  Fewer /\ More
    BY <2>7 DEF LoadDone, RedisSet, CleanupDone, PersistPeriodically, StopFlush,
                socketVars, bounds
  <2>8. ASSUME \/ SweepStaleUsers \/ BeginStop \/ CloseServer \/ Restart
               \/ UNCHANGED vars
        PROVE  Fewer /\ More
    <3>1. UNCHANGED <<conn, faults>>
      BY <2>8 DEF SweepStaleUsers, BeginStop, CloseServer, Restart, vars,
                  socketVars, bounds
    <3> QED
      BY <3>1
  <2> HIDE DEF Fewer, More
  <2>9. Fewer /\ More
    BY <2>1, <2>2, <2>3, <2>4, <2>5, <2>6, <2>7, <2>8
       DEF Next, ClientStep, ServerStep, ProcessStep
  <2>10. faults \in Nat
    BY <1>0 DEF TypeOK
  <2> QED
    BY <2>9, <2>10 DEF AllWait, Fewer, More
<1>1. ASSUME NEW s \in Sockets, NEW d \in Docs, JoinDocument(s, d)
      PROVE  LeavingInv'
  <2> DEFINE old == socketToDocument[s]
             left == IF old \notin {NoDoc, d} THEN {old} ELSE {}
             D == {e \in left : users'[e] = {}}
  <2>1. StartCleanup(D) /\ documents' = documents
    BY <1>1 DEF JoinDocument
  <2>2. \A e \in Docs : users'[e] = {} => users[e] = {} \/ e \in D
    BY <1>0, <1>1 DEF JoinDocument, WithoutUser, TypeOK
  <2> HIDE DEF D
  <2> QED
    BY <1>0, <1>w, <2>1, <2>2, LeavingEmptied
<1>2. ASSUME NEW s \in Sockets, NEW d \in Docs, LeaveDocument(s, d)
      PROVE  LeavingInv'
  <2> DEFINE tracked == socketToDocument[s]
             target == IF tracked # NoDoc THEN tracked ELSE d
             D == IF users'[target] = {} THEN {target} ELSE {}
  <2>1. StartCleanup(D) /\ documents' = documents
    BY <1>2 DEF LeaveDocument
  <2>2. \A e \in Docs : users'[e] = {} => users[e] = {} \/ e \in D
    BY <1>0, <1>2 DEF LeaveDocument, WithoutUser, TypeOK
  <2> HIDE DEF D
  <2> QED
    BY <1>0, <1>w, <2>1, <2>2, LeavingEmptied
<1>3. ASSUME NEW s \in Sockets, Disconnect(s) PROVE LeavingInv'
  <2> DEFINE tracked == {socketToDocument[s]} \ {NoDoc}
             D == {d \in tracked : users'[d] = {}}
  <2>1. StartCleanup(D) /\ documents' = documents
    BY <1>3 DEF Disconnect
  <2>2. \A e \in Docs : users'[e] = {} => users[e] = {} \/ e \in D
    BY <1>0, <1>3 DEF Disconnect, WithoutUser, TypeOK
  <2> HIDE DEF D
  <2> QED
    BY <1>0, <1>w, <2>1, <2>2, LeavingEmptied
<1>4. CASE SweepStaleUsers
  <2> DEFINE stale(d) == users[d] \ active
             affected == {d \in Docs : stale(d) # {}}
             D == {d \in affected : users'[d] = {}}
  <2>1. StartCleanup(D) /\ documents' = documents
    BY <1>4 DEF SweepStaleUsers
  <2>2. \A e \in Docs : users'[e] = {} => users[e] = {} \/ e \in D
    BY <1>0, <1>4 DEF SweepStaleUsers, TypeOK
  <2> HIDE DEF D
  <2> QED
    BY <1>0, <1>w, <2>1, <2>2, LeavingEmptied
<1>5. ASSUME NEW s \in Sockets, NEW d \in Docs, JoinLoaded(s, d)
      PROVE  LeavingInv'
  <2>1. /\ users' = WithUsers({s}, d)
        /\ ~Quiet /\ Head(entering) = <<s, d>>
        /\ entering' = Tail(entering) /\ waiting' = waiting
        /\ UNCHANGED <<documents, cleaningUp, pipe, conn>>
    BY <1>5 DEF JoinLoaded, storeVars
  <2>2. d \in Pending(s)
    BY <2>1, PresenceResume
  <2>3. ASSUME AllWait PROVE socketToDocument[s] \in {NoDoc, d}
    <3>1. conn[s] # "new"
      BY <2>2 DEF PresenceInv, NewIsOutside
    <3>2. s \in Patient
      BY <2>3, <3>1 DEF AllWait
    <3> QED
      BY <2>2, <3>2 DEF PresenceInv, RoomsFollowJoins
  <2>4. ASSUME AllWait, NEW e \in Docs PROVE users'[e] = {} => users[e] = {}
    BY <1>0, <2>1, <2>3, <2>4 DEF WithUsers, AwarenessAgrees, TypeOK
  <2>5. ASSUME AllWait, NEW e \in Docs PROVE Leaving(e)'
    BY <2>1, <2>4, <2>5 DEF LeavingInv, Leaving, InMemory
  <2>6. CleanupsWrite'
    BY <1>0, <2>1 DEF CleanupsWrite, CleanupIssued
  <2> QED
    BY <1>w, <2>5, <2>6 DEF LeavingInv
<1>6. ASSUME NEW d \in Docs, LoadDone(d) PROVE LeavingInv'
  <2> DEFINE joiners == {s \in Sockets : <<s, d>> \in waiting}
  <2>1. /\ Quiet
        /\ d \in initPromises
        /\ users' = WithUsers(joiners, d)
        /\ documents' = [documents EXCEPT ![d] = redis[d]]
        /\ UNCHANGED <<cleaningUp, pipe>>
    BY <1>6 DEF LoadDone, storeVars
  <2>2. joiners # {}
    BY <2>1 DEF AwarenessInv, OneLoad
  <2>3. users'[d] # {}
    BY <2>1, <2>2 DEF WithUsers
  <2>4. ASSUME AllWait, NEW s \in joiners PROVE socketToDocument[s] \in {NoDoc, d}
    <3>1. d \in Pending(s)
      BY <2>4, PendingMeans
    <3>2. conn[s] # "new"
      BY <3>1 DEF PresenceInv, NewIsOutside
    <3>3. s \in Patient
      BY <2>4, <3>2 DEF AllWait
    <3> QED
      BY <3>1, <3>3 DEF PresenceInv, RoomsFollowJoins
  <2>5. ASSUME AllWait, NEW e \in Docs \ {d} PROVE users'[e] = users[e]
    <3>1. users'[e] = users[e] \ {s \in joiners : socketToDocument[s] = e}
      BY <2>1 DEF WithUsers
    <3>2. {s \in joiners : socketToDocument[s] = e} = {}
      BY <2>4, <2>5
    <3> HIDE DEF joiners
    <3> QED
      BY <3>1, <3>2
  <2>6. ASSUME AllWait, NEW e \in Docs PROVE Leaving(e)'
    <3>1. CASE e = d
      BY <2>3, <3>1 DEF Leaving
    <3>2. CASE e # d
      <4>1. documents'[e] = documents[e] /\ users'[e] = users[e]
        BY <1>0, <2>1, <2>5, <2>6, <3>2 DEF TypeOK
      <4> QED
        BY <2>1, <2>6, <4>1 DEF LeavingInv, Leaving, InMemory
    <3> QED
      BY <3>1, <3>2
  <2>7. CleanupsWrite'
    BY <1>0, <2>1 DEF CleanupsWrite, CleanupIssued
  <2> QED
    BY <1>w, <2>6, <2>7 DEF LeavingInv
<1>7. ASSUME NEW d \in Docs, CleanupDone(d) PROVE LeavingInv'
  <2>1. /\ cleaningUp' = [cleaningUp EXCEPT ![d] = "idle"]
        /\ documents' = [documents EXCEPT ![d] = IF users[d] = {} THEN Absent ELSE @]
        /\ users' = users /\ pipe' = pipe
    BY <1>7 DEF CleanupDone, socketVars, storeVars
  <2>2. CleanupsWrite'
    BY <1>0, <2>1 DEF CleanupsWrite, CleanupIssued, TypeOK
  <2>3. ASSUME AllWait, NEW e \in Docs PROVE Leaving(e)'
    BY <1>0, <2>1, <2>3 DEF LeavingInv, Leaving, InMemory, TypeOK
  <2> QED
    BY <1>w, <2>2, <2>3 DEF LeavingInv
<1>8. ASSUME NEW d \in Docs, RedisSet(d) \/ RedisSetFails(d)
      PROVE  CleanupsWrite'
  <2>1. /\ pipe[d] # <<>>
        /\ pipe' = [pipe EXCEPT ![d] = Tail(@)]
        /\ \E stage \in {"wrote", "idle"} :
             cleaningUp' = IF Head(pipe[d]).by = "cleanup"
                           THEN [cleaningUp EXCEPT ![d] = stage] ELSE cleaningUp
    BY <1>8 DEF RedisSet, RedisSetFails
  <2> SUFFICES ASSUME NEW e \in Docs, cleaningUp'[e] = "writing"
               PROVE  CleanupIssued(e)'
    BY DEF CleanupsWrite
  <2>2. cleaningUp[e] = "writing" /\ CleanupIssued(e)
    BY <1>0, <2>1 DEF TypeOK, CleanupsWrite
  <2>3. CASE e = d
    <3>1. Head(pipe[d]).by # "cleanup" /\ pipe'[d] = Tail(pipe[d])
      BY <1>0, <2>1, <2>3 DEF TypeOK
    <3> QED
      BY <1>0, <2>1, <2>2, <2>3, <3>1, IssuedPopped
  <2>4. CASE e # d
    <3>1. pipe'[e] = pipe[e]
      BY <1>0, <2>1, <2>4 DEF TypeOK
    <3> QED
      BY <2>2, <3>1 DEF CleanupIssued
  <2> QED
    BY <2>3, <2>4
<1>9. ASSUME NEW d \in Docs, RedisSet(d) PROVE LeavingInv'
  <2>1. /\ UNCHANGED <<users, documents>>
        /\ \A e \in Docs : cleaningUp[e] # "idle" => cleaningUp'[e] # "idle"
    BY <1>0, <1>9 DEF RedisSet, socketVars, TypeOK
  <2>2. ASSUME AllWait, NEW e \in Docs PROVE Leaving(e)'
    BY <2>1, <2>2 DEF LeavingInv, Leaving, InMemory
  <2> QED
    BY <1>w, <1>8, <1>9, <2>2 DEF LeavingInv
<1>10. ASSUME NEW d \in Docs, RedisSetFails(d) PROVE LeavingInv'
  <2>1. ~AllWait'
    BY <1>0, <1>10 DEF RedisSetFails, AllWait, TypeOK
  <2> QED
    BY <1>8, <1>10, <2>1 DEF LeavingInv
<1>11. ASSUME NEW d \in Docs, CleanupFails(d) PROVE LeavingInv'
  <2>1. ~AllWait'
    BY <1>0, <1>11 DEF CleanupFails, AllWait, TypeOK
  <2>2. CleanupsWrite'
    BY <1>0, <1>11 DEF CleanupFails, CleanupsWrite, CleanupIssued, TypeOK, storeVars
  <2> QED
    BY <2>1, <2>2 DEF LeavingInv
<1>12. ASSUME NEW d \in Docs, NEW w, pipe' = [pipe EXCEPT ![d] = Append(@, w)],
              UNCHANGED <<users, cleaningUp>>,
              \A e \in Docs : InMemory(e)' => InMemory(e)
       PROVE  LeavingInv'
  <2>1. CleanupsWrite'
    <3> SUFFICES ASSUME NEW e \in Docs, cleaningUp[e] = "writing"
                 PROVE  CleanupIssued(e)'
      BY <1>12 DEF CleanupsWrite
    <3>1. CleanupIssued(e)
      BY <1>0 DEF CleanupsWrite
    <3>2. pipe'[e] = IF e = d THEN Append(pipe[e], w) ELSE pipe[e]
      BY <1>0, <1>12 DEF TypeOK
    <3>3. CASE e = d
      BY <1>0, <3>1, <3>2, <3>3, IssuedKept
    <3>4. CASE e # d
      BY <3>1, <3>2, <3>4 DEF CleanupIssued
    <3> QED
      BY <3>3, <3>4
  <2>2. ASSUME AllWait, NEW e \in Docs PROVE Leaving(e)'
    BY <1>12, <2>2 DEF LeavingInv, Leaving
  <2> QED
    BY <1>w, <2>1, <2>2 DEF LeavingInv
<1>13. ASSUME NEW s \in Sockets, NEW d \in Docs, NEW u \in Updates,
              DocumentUpdate(s, d, u)
       PROVE  LeavingInv'
  <2>1. /\ pipe' = [pipe EXCEPT ![d] =
                      Append(@, [by |-> "update", state |-> documents[d] \cup {u}])]
        /\ UNCHANGED <<users, cleaningUp>>
    BY <1>13 DEF DocumentUpdate
  <2>2. \A e \in Docs : InMemory(e)' => InMemory(e)
    BY <1>0, <1>13 DEF DocumentUpdate, InMemory, TypeOK
  <2> QED
    BY <1>12, <2>1, <2>2
<1>14. ASSUME NEW d \in Docs, PersistPeriodically(d) \/ StopFlush(d)
       PROVE  LeavingInv'
  <2>1. /\ \E w : pipe' = [pipe EXCEPT ![d] = Append(@, w)]
        /\ UNCHANGED <<users, cleaningUp, documents>>
    BY <1>14 DEF PersistPeriodically, StopFlush, socketVars
  <2> QED
    BY <1>12, <2>1 DEF InMemory
<1>15. CASE Exit \/ Crash
  <2>1. \A d \in Docs : documents'[d] = Absent /\ cleaningUp'[d] = "idle"
    BY <1>15 DEF Exit, Crash, ProcessEnds
  <2> QED
    BY <2>1 DEF LeavingInv, CleanupsWrite, Leaving, InMemory
<1>16. CASE \/ \E s \in Sockets : Connect(s) \/ GoIdle(s)
            \/ \E s \in Sockets, d \in Docs : JoinWaits(s, d)
            \/ \E d \in Docs : LoadFails(d)
            \/ BeginStop \/ CloseServer \/ Restart \/ UNCHANGED vars
  <2>1. UNCHANGED <<users, documents, cleaningUp, pipe>>
    BY <1>16 DEF Connect, GoIdle, JoinWaits, LoadFails, BeginStop, CloseServer,
                 Restart, vars, socketVars, storeVars
  <2> QED
    BY <1>w, <2>1 DEF LeavingInv, CleanupsWrite, CleanupIssued, Leaving, InMemory
<1> QED
  BY <1>1, <1>2, <1>3, <1>4, <1>5, <1>6, <1>7, <1>9, <1>10, <1>11, <1>13, <1>14,
     <1>15, <1>16 DEF Next, ClientStep, ServerStep, ProcessStep

\* Clients that wait for their acks leak no document, as long as Redis answers:
\* whatever is in memory without users has a cleanup that is still to evict it,
\* with a write to wait for (collaboration.ts: persistAndCleanupDocument).
THEOREM EmptyIsLeavingCorrect == Spec => []EmptyIsLeaving
<1>1. Init => PresenceInv /\ LeavingInv
  <2> SUFFICES ASSUME Init PROVE PresenceInv /\ LeavingInv
    OBVIOUS
  <2>1. PresenceInv
    BY PresenceInit
  <2>2. LeavingInv
    BY DEF Init, LeavingInv, CleanupsWrite, Leaving, InMemory
  <2> QED
    BY <2>1, <2>2
<1>2. ASSUME TypeOK, LeavingInv PROVE EmptyIsLeaving
  BY <1>2 DEF TypeOK, LeavingInv, CleanupsWrite, CleanupIssued, AllWait, Leaving,
     EmptyIsLeaving
<1>3. AwarenessInv => TypeOK
  BY DEF AwarenessInv
<1> QED
  BY <1>1, <1>2, <1>3, AwarenessInvCorrect, PresenceStep, LeavingStep, PTL DEF Spec
=============================================================================
