---------------------------- MODULE CollabService ----------------------------
(***************************************************************************)
(* One process of the collab-service: the Socket.IO handlers of            *)
(* CollaborationManager, the awareness maps, the idle sweep, the periodic  *)
(* persistence loop, graceful shutdown and crashes, over the Redis key     *)
(* that holds each document's full state.                                  *)
(*                                                                         *)
(* Node runs one callback at a time, so an action is the code between two  *)
(* awaits.  A document is the set of updates its Y.Doc has absorbed: Yjs   *)
(* merges are commutative and idempotent, and encodeStateAsUpdate encodes  *)
(* all of them.  Commands on one document reach Redis in the order they    *)
(* were issued, because the adapter uses a single connection.              *)
(***************************************************************************)
EXTENDS Naturals, Sequences, FiniteSets

CONSTANTS
  Sockets,        \* socket ids; an id is never reused by Socket.IO
  Docs,           \* document ids
  Updates,        \* CRDT updates the clients may send, each once
  Absent,         \* documents.get(d) === undefined
  NoDoc,          \* the socket is tracked in no document
  Patient,        \* sockets whose client waits for the join ack: a hypothesis,
                  \*   the server asks it of nobody
  MaxFaults,      \* bound on failed Redis commands
  MaxRestarts     \* bound on crashes and shutdowns

ASSUME ConstantsOK == /\ \A S \in SUBSET Updates : Absent # S
                      /\ NoDoc \notin Docs
                      /\ Patient \subseteq Sockets
                      /\ MaxFaults \in Nat
                      /\ MaxRestarts \in Nat

VARIABLES
  mode,             \* of the process: up, stopping (in stop()), closing, down
  conn,             \* of each socket: new, on, gone
  rooms,            \* Socket.IO rooms a socket is in
  users,            \* AwarenessService.states: sockets per document
  socketToDocument, \* AwarenessService.socketToDocument
  active,           \* sockets whose lastActive is within maxIdleMs
  entering,         \* joins suspended at `await socket.join(room)`, in order
  waiting,          \* joins suspended at `await getOrCreateDoc`
  initPromises,     \* documentInitPromises: documents being loaded
  documents,        \* CollaborationManager.documents
  cleaningUp,       \* persistAndCleanupDocument: idle, writing, wrote
  flushed,          \* documents stop() has already visited
  pipe,             \* writes issued and not yet executed by Redis
  redis,            \* the state key of each document, {} when missing
  accepted,         \* history: updates applied and broadcast
  failed,           \* history: updates whose write failed, not saved since
  faults,           \* failed Redis commands so far
  restarts          \* crashes and shutdowns so far

socketVars == <<conn, rooms, users, socketToDocument, active>>
joinVars   == <<entering, waiting, initPromises>>
storeVars  == <<pipe, redis, failed>>
bounds     == <<faults, restarts>>
vars == <<mode, socketVars, joinVars, documents, cleaningUp, flushed,
          storeVars, accepted, bounds>>

Writers == {"update", "cleanup", "periodic", "stop"}
Write == [by : Writers, state : SUBSET Updates]

TypeOK ==
  /\ mode \in {"up", "stopping", "closing", "down"}
  /\ conn \in [Sockets -> {"new", "on", "gone"}]
  /\ rooms \in [Sockets -> SUBSET Docs]
  /\ users \in [Docs -> SUBSET Sockets]
  /\ socketToDocument \in [Sockets -> Docs \cup {NoDoc}]
  /\ active \in SUBSET Sockets
  /\ entering \in Seq(Sockets \X Docs)
  /\ waiting \in SUBSET (Sockets \X Docs)
  /\ initPromises \in SUBSET Docs
  /\ documents \in [Docs -> {Absent} \cup SUBSET Updates]
  /\ cleaningUp \in [Docs -> {"idle", "writing", "wrote"}]
  /\ flushed \in SUBSET Docs
  /\ pipe \in [Docs -> Seq(Write)]
  /\ redis \in [Docs -> SUBSET Updates]
  /\ accepted \in [Docs -> SUBSET Updates]
  /\ failed \in [Docs -> SUBSET Updates]
  /\ faults \in Nat
  /\ restarts \in Nat

Init ==
  /\ mode = "up"
  /\ conn = [s \in Sockets |-> "new"]
  /\ rooms = [s \in Sockets |-> {}]
  /\ users = [d \in Docs |-> {}]
  /\ socketToDocument = [s \in Sockets |-> NoDoc]
  /\ active = {}
  /\ entering = <<>>
  /\ waiting = {}
  /\ initPromises = {}
  /\ documents = [d \in Docs |-> Absent]
  /\ cleaningUp = [d \in Docs |-> "idle"]
  /\ flushed = {}
  /\ pipe = [d \in Docs |-> <<>>]
  /\ redis = [d \in Docs |-> {}]
  /\ accepted = [d \in Docs |-> {}]
  /\ failed = [d \in Docs |-> {}]
  /\ faults = 0
  /\ restarts = 0

-----------------------------------------------------------------------------
(* Helpers.                                                                *)

InMemory(d) == documents[d] # Absent

PipeStates(d) == {pipe[d][i].state : i \in DOMAIN pipe[d]}

\* What Redis will hold for d once every issued write has executed.
Newest(d) == IF pipe[d] = <<>> THEN redis[d] ELSE pipe[d][Len(pipe[d])].state

\* What a client that joins d is shown: the live Y.Doc, or the one a load
\* behind the issued writes rebuilds.
Visible(d) == IF InMemory(d) THEN documents[d] ELSE Newest(d)

Suspended == {entering[i] : i \in DOMAIN entering}
Pending(s) == {d \in Docs : <<s, d>> \in Suspended \cup waiting}

\* `await socket.join(room)` yields for a microtask only: timers, Redis replies
\* and other connections wait until the suspended joins have resumed.
Quiet == entering = <<>>

\* A packet of s is handled: packets of one transport payload share a tick, so
\* it may come between a join of s and its resumption.  A client that waits
\* for acks sends nothing while a join is pending.
Receives(s) == /\ conn[s] = "on"
               /\ \A i \in DOMAIN entering : entering[i][1] = s
               /\ s \in Patient => Pending(s) = {}

\* awareness.removeUser: the entry in the document the mapping names.
WithoutUser(s) == [d \in Docs |-> IF d = socketToDocument[s] THEN users[d] \ {s}
                                                            ELSE users[d]]

\* Mutant: addUser forgets the entry of the old mapping.
WithUsersNotMoved(S, d) ==
  [e \in Docs |-> IF e = d THEN users[e] \cup S
                  ELSE users[e]]

\* awareness.addUser for each socket of S: the entry of an old mapping is
\* dropped, its room and its document are left as they are.
WithUsers(S, d) ==
  [e \in Docs |-> IF e = d THEN users[e] \cup S
                  ELSE users[e] \ {s \in S : socketToDocument[s] = e}]

\* persistAndCleanupDocument called for each document of D, up to its await.
StartCleanup(D) ==
  LET started == {d \in D : cleaningUp[d] = "idle" /\ InMemory(d)} IN
  /\ cleaningUp' = [d \in Docs |-> IF d \in started THEN "writing"
                                                    ELSE cleaningUp[d]]
  /\ pipe' = [d \in Docs |->
                IF d \in started
                THEN Append(pipe[d], [by |-> "cleanup", state |-> documents[d]])
                ELSE pipe[d]]

-----------------------------------------------------------------------------
(* Client events.                                                          *)

Connect(s) ==
  /\ Quiet
  /\ mode \in {"up", "stopping"}
  /\ conn[s] = "new"
  /\ conn' = [conn EXCEPT ![s] = "on"]
  /\ UNCHANGED <<mode, rooms, users, socketToDocument, active, joinVars,
                 documents, cleaningUp, flushed, storeVars, accepted, bounds>>

\* Mutant: a switch does not look whether the document it leaves is empty.
JoinWithoutCleanup(s, d) ==
  LET old == socketToDocument[s]
      left == IF old \in {NoDoc, d} THEN {} ELSE {old} IN
  /\ Receives(s)
  /\ <<s, d>> \notin Suspended
  /\ rooms' = [rooms EXCEPT ![s] = (@ \ left) \cup {d}]
  /\ users' = IF left = {} THEN users ELSE WithoutUser(s)
  /\ socketToDocument' = IF left = {} THEN socketToDocument
                                      ELSE [socketToDocument EXCEPT ![s] = NoDoc]
  /\ active' = IF left = {} THEN active ELSE active \ {s}
  /\ entering' = Append(entering, <<s, d>>)
  /\ UNCHANGED <<mode, conn, waiting, initPromises, documents, cleaningUp, pipe,
                 flushed, redis, failed, accepted, bounds>>

\* handleJoinDocument up to `await socket.join(room)`: leave the tracked
\* document if it is another one, then enter the room.
JoinDocument(s, d) ==
  LET old == socketToDocument[s]
      switching == old \notin {NoDoc, d}
      left == IF switching THEN {old} ELSE {} IN
  /\ Receives(s)
  /\ <<s, d>> \notin Suspended        \* bound: one join per document and tick
  /\ rooms' = [rooms EXCEPT ![s] = (@ \ left) \cup {d}]
  /\ users' = IF switching THEN WithoutUser(s) ELSE users
  /\ socketToDocument' = IF switching THEN [socketToDocument EXCEPT ![s] = NoDoc]
                                      ELSE socketToDocument
  /\ active' = IF switching THEN active \ {s} ELSE active
  /\ StartCleanup({e \in left : users'[e] = {}})
  /\ entering' = Append(entering, <<s, d>>)
  /\ UNCHANGED <<mode, conn, waiting, initPromises, documents, flushed, redis,
                 failed, accepted, bounds>>

\* The join resumes and finds the document in memory: the user is tracked,
\* synced and acked in one go.
JoinLoaded(s, d) ==
  /\ ~Quiet
  /\ Head(entering) = <<s, d>>
  /\ InMemory(d)
  /\ entering' = Tail(entering)
  /\ users' = WithUsers({s}, d)
  /\ socketToDocument' = [socketToDocument EXCEPT ![s] = d]
  /\ active' = active \cup {s}
  /\ UNCHANGED <<mode, conn, rooms, waiting, initPromises, documents,
                 cleaningUp, flushed, storeVars, accepted, bounds>>

\* The join resumes and has to wait for the load, its own or a pending one.
JoinWaits(s, d) ==
  /\ ~Quiet
  /\ Head(entering) = <<s, d>>
  /\ ~InMemory(d)
  /\ entering' = Tail(entering)
  /\ waiting' = waiting \cup {<<s, d>>}
  /\ initPromises' = initPromises \cup {d}
  /\ UNCHANGED <<mode, socketVars, documents, cleaningUp, flushed, storeVars,
                 accepted, bounds>>

\* Mutant: leaving does not look for an empty document.
LeaveWithoutCleanup(s, d) ==
  LET tracked == socketToDocument[s]
      target == IF tracked # NoDoc THEN tracked ELSE d IN
  /\ Receives(s)
  /\ rooms' = [rooms EXCEPT ![s] = @ \ {target}]
  /\ users' = WithoutUser(s)
  /\ socketToDocument' = [socketToDocument EXCEPT ![s] = NoDoc]
  /\ active' = active \ {s}
  /\ UNCHANGED <<mode, conn, joinVars, documents, cleaningUp, flushed,
                 storeVars, accepted, bounds>>

\* handleLeaveDocument: d is the id the client names, used only when the
\* awareness service tracks the socket nowhere.
LeaveDocument(s, d) ==
  LET tracked == socketToDocument[s]
      target == IF tracked # NoDoc THEN tracked ELSE d IN
  /\ Receives(s)
  /\ rooms' = [rooms EXCEPT ![s] = @ \ {target}]
  /\ users' = WithoutUser(s)
  /\ socketToDocument' = [socketToDocument EXCEPT ![s] = NoDoc]
  /\ active' = active \ {s}
  /\ StartCleanup(IF users'[target] = {} THEN {target} ELSE {})
  /\ UNCHANGED <<mode, conn, joinVars, documents, flushed, redis, failed,
                 accepted, bounds>>

\* handleDisconnect; Socket.IO has taken the socket out of its rooms.
Disconnect(s) ==
  LET tracked == {socketToDocument[s]} \ {NoDoc} IN
  /\ Quiet
  /\ conn[s] = "on"
  /\ conn' = [conn EXCEPT ![s] = "gone"]
  /\ rooms' = [rooms EXCEPT ![s] = {}]
  /\ users' = WithoutUser(s)
  /\ socketToDocument' = [socketToDocument EXCEPT ![s] = NoDoc]
  /\ active' = active \ {s}
  /\ StartCleanup({d \in tracked : users'[d] = {}})
  /\ UNCHANGED <<mode, joinVars, documents, flushed, redis, failed, accepted,
                 bounds>>

\* Mutant: refreshActivity is called with the document id.
DocumentUpdateWrongKey(s, d, u) ==
  /\ Receives(s)
  /\ InMemory(d)
  /\ \A e \in Docs : u \notin accepted[e]
  /\ documents' = [documents EXCEPT ![d] = @ \cup {u}]
  /\ accepted' = [accepted EXCEPT ![d] = @ \cup {u}]
  /\ active' = IF socketToDocument[s] # NoDoc THEN active \cup {d} ELSE active
  /\ pipe' = [pipe EXCEPT ![d] =
                Append(@, [by |-> "update", state |-> documents[d] \cup {u}])]
  /\ UNCHANGED <<mode, conn, rooms, users, socketToDocument, joinVars,
                 cleaningUp, flushed, redis, failed, bounds>>

\* Mutant: no save after an update, the loop will do it.
DocumentUpdateUnsaved(s, d, u) ==
  /\ Receives(s)
  /\ InMemory(d)
  /\ \A e \in Docs : u \notin accepted[e]
  /\ documents' = [documents EXCEPT ![d] = @ \cup {u}]
  /\ accepted' = [accepted EXCEPT ![d] = @ \cup {u}]
  /\ active' = IF socketToDocument[s] # NoDoc THEN active \cup {s} ELSE active
  /\ UNCHANGED <<mode, conn, rooms, users, socketToDocument, joinVars,
                 cleaningUp, flushed, storeVars, bounds>>

\* handleDocumentUpdate up to the await of its best-effort save.  Nothing
\* checks that the sender has joined d.
DocumentUpdate(s, d, u) ==
  /\ Receives(s)
  /\ InMemory(d)
  /\ \A e \in Docs : u \notin accepted[e]
  /\ documents' = [documents EXCEPT ![d] = @ \cup {u}]
  /\ accepted' = [accepted EXCEPT ![d] = @ \cup {u}]
  /\ active' = IF socketToDocument[s] # NoDoc THEN active \cup {s} ELSE active
  /\ pipe' = [pipe EXCEPT ![d] =
                Append(@, [by |-> "update", state |-> documents[d] \cup {u}])]
  /\ UNCHANGED <<mode, conn, rooms, users, socketToDocument, joinVars,
                 cleaningUp, flushed, redis, failed, bounds>>

-----------------------------------------------------------------------------
(* Redis answers.                                                          *)

\* Mutant: the init promise is not deleted after the load.
LoadDoneUnlisted(d) ==
  LET joiners == {s \in Sockets : <<s, d>> \in waiting} IN
  /\ Quiet
  /\ d \in initPromises
  /\ pipe[d] = <<>>
  /\ documents' = [documents EXCEPT ![d] = redis[d]]
  /\ initPromises' = initPromises
  /\ waiting' = {w \in waiting : w[2] # d}
  /\ users' = WithUsers(joiners, d)
  /\ socketToDocument' = [s \in Sockets |-> IF s \in joiners THEN d
                                            ELSE socketToDocument[s]]
  /\ active' = active \cup joiners
  /\ UNCHANGED <<mode, conn, rooms, entering, cleaningUp, flushed, storeVars,
                 accepted, bounds>>

\* Mutant: loads use a connection of their own and overtake writes.
LoadDoneAhead(d) ==
  LET joiners == {s \in Sockets : <<s, d>> \in waiting} IN
  /\ Quiet
  /\ d \in initPromises
  /\ documents' = [documents EXCEPT ![d] = redis[d]]
  /\ initPromises' = initPromises \ {d}
  /\ waiting' = {w \in waiting : w[2] # d}
  /\ users' = WithUsers(joiners, d)
  /\ socketToDocument' = [s \in Sockets |-> IF s \in joiners THEN d
                                            ELSE socketToDocument[s]]
  /\ active' = active \cup joiners
  /\ UNCHANGED <<mode, conn, rooms, entering, cleaningUp, flushed, storeVars,
                 accepted, bounds>>

\* Mutant: the saved state is not applied to the new Y.Doc.
LoadDoneEmpty(d) ==
  LET joiners == {s \in Sockets : <<s, d>> \in waiting} IN
  /\ Quiet
  /\ d \in initPromises
  /\ pipe[d] = <<>>
  /\ documents' = [documents EXCEPT ![d] = {}]
  /\ initPromises' = initPromises \ {d}
  /\ waiting' = {w \in waiting : w[2] # d}
  /\ users' = WithUsers(joiners, d)
  /\ socketToDocument' = [s \in Sockets |-> IF s \in joiners THEN d
                                            ELSE socketToDocument[s]]
  /\ active' = active \cup joiners
  /\ UNCHANGED <<mode, conn, rooms, entering, cleaningUp, flushed, storeVars,
                 accepted, bounds>>

\* getOrCreateDoc's load: the GET is answered behind every earlier write, the
\* Y.Doc is built and every waiting join completes, also for sockets that
\* have left or disconnected meanwhile.
LoadDone(d) ==
  LET joiners == {s \in Sockets : <<s, d>> \in waiting} IN
  /\ Quiet
  /\ d \in initPromises
  /\ pipe[d] = <<>>
  /\ documents' = [documents EXCEPT ![d] = redis[d]]
  /\ initPromises' = initPromises \ {d}
  /\ waiting' = {w \in waiting : w[2] # d}
  /\ users' = WithUsers(joiners, d)
  /\ socketToDocument' = [s \in Sockets |-> IF s \in joiners THEN d
                                            ELSE socketToDocument[s]]
  /\ active' = active \cup joiners
  /\ UNCHANGED <<mode, conn, rooms, entering, cleaningUp, flushed, storeVars,
                 accepted, bounds>>

\* Mutant: only the join that began the load sees its rejection.
LoadFailsUnanswered(d) ==
  /\ Quiet
  /\ faults < MaxFaults
  /\ d \in initPromises
  /\ faults' = faults + 1
  /\ initPromises' = initPromises \ {d}
  /\ waiting' = waiting
  /\ rooms' = [s \in Sockets |-> IF <<s, d>> \in waiting THEN rooms[s] \ {d}
                                                         ELSE rooms[s]]
  /\ UNCHANGED <<mode, conn, users, socketToDocument, active, entering,
                 documents, cleaningUp, flushed, storeVars, accepted, restarts>>

\* The GET is rejected: every waiting join fails and leaves the room.
LoadFails(d) ==
  /\ Quiet
  /\ faults < MaxFaults
  /\ d \in initPromises
  /\ faults' = faults + 1
  /\ initPromises' = initPromises \ {d}
  /\ waiting' = {w \in waiting : w[2] # d}
  /\ rooms' = [s \in Sockets |-> IF <<s, d>> \in waiting THEN rooms[s] \ {d}
                                                         ELSE rooms[s]]
  /\ UNCHANGED <<mode, conn, users, socketToDocument, active, entering,
                 documents, cleaningUp, flushed, storeVars, accepted, restarts>>

\* The SET of a saveDocumentState executes; only a cleanup looks at the rest.
RedisSet(d) ==
  /\ Quiet
  /\ pipe[d] # <<>>
  /\ redis' = [redis EXCEPT ![d] = Head(pipe[d]).state]
  /\ failed' = [failed EXCEPT ![d] = @ \ Head(pipe[d]).state]
  /\ pipe' = [pipe EXCEPT ![d] = Tail(@)]
  /\ cleaningUp' = IF Head(pipe[d]).by = "cleanup"
                   THEN [cleaningUp EXCEPT ![d] = "wrote"] ELSE cleaningUp
  /\ UNCHANGED <<mode, socketVars, joinVars, documents, flushed, accepted,
                 bounds>>

\* The SET is rejected, executed or not; every caller logs and goes on.
RedisSetFails(d) ==
  /\ Quiet
  /\ faults < MaxFaults
  /\ pipe[d] # <<>>
  /\ faults' = faults + 1
  /\ \E executed \in BOOLEAN :
       LET written == Head(pipe[d]).state IN
       IF executed
       THEN /\ redis' = [redis EXCEPT ![d] = written]
            /\ failed' = [failed EXCEPT ![d] = @ \ written]
       ELSE /\ failed' = [failed EXCEPT ![d] = @ \cup (written \ redis[d])]
            /\ UNCHANGED redis
  /\ pipe' = [pipe EXCEPT ![d] = Tail(@)]
  /\ cleaningUp' = IF Head(pipe[d]).by = "cleanup"
                   THEN [cleaningUp EXCEPT ![d] = "idle"] ELSE cleaningUp
  /\ UNCHANGED <<mode, socketVars, joinVars, documents, flushed, accepted,
                 restarts>>

\* Mutant: the document is evicted without the second look at its users.
CleanupDoneUnchecked(d) ==
  /\ Quiet
  /\ cleaningUp[d] = "wrote"
  /\ cleaningUp' = [cleaningUp EXCEPT ![d] = "idle"]
  /\ documents' = [documents EXCEPT ![d] = Absent]
  /\ flushed' = flushed \ {d}
  /\ UNCHANGED <<mode, socketVars, joinVars, storeVars, accepted, bounds>>

\* persistAndCleanupDocument resumes after its save: the document is evicted
\* unless somebody has joined meanwhile.
CleanupDone(d) ==
  /\ Quiet
  /\ cleaningUp[d] = "wrote"
  /\ cleaningUp' = [cleaningUp EXCEPT ![d] = "idle"]
  /\ documents' = [documents EXCEPT ![d] = IF users[d] = {} THEN Absent ELSE @]
  /\ flushed' = IF users[d] = {} THEN flushed \ {d} ELSE flushed
  /\ UNCHANGED <<mode, socketVars, joinVars, storeVars, accepted, bounds>>

\* One of the metadata commands of the cleanup's save is rejected.
CleanupFails(d) ==
  /\ Quiet
  /\ faults < MaxFaults
  /\ cleaningUp[d] = "wrote"
  /\ faults' = faults + 1
  /\ cleaningUp' = [cleaningUp EXCEPT ![d] = "idle"]
  /\ UNCHANGED <<mode, socketVars, joinVars, documents, flushed, storeVars,
                 accepted, restarts>>

-----------------------------------------------------------------------------
(* Timers.                                                                 *)

\* maxIdleMs pass without activity of s.
GoIdle(s) ==
  /\ Quiet
  /\ s \in active
  /\ active' = active \ {s}
  /\ UNCHANGED <<mode, conn, rooms, users, socketToDocument, joinVars,
                 documents, cleaningUp, flushed, storeVars, accepted, bounds>>

\* Mutant: evicted sockets stay in the room.
SweepStaysInRoom ==
  LET stale(d) == users[d] \ active
      affected == {d \in Docs : stale(d) # {}} IN
  /\ Quiet
  /\ mode = "up"
  /\ affected # {}
  /\ users' = [d \in Docs |-> users[d] \cap active]
  /\ socketToDocument' = [s \in Sockets |->
                             IF \E d \in affected : s \in stale(d) THEN NoDoc
                             ELSE socketToDocument[s]]
  /\ rooms' = rooms
  /\ StartCleanup({d \in affected : users'[d] = {}})
  /\ UNCHANGED <<mode, conn, active, joinVars, documents, flushed, redis,
                 failed, accepted, bounds>>

\* The presence interval: drop every idle user, take those still connected
\* out of the room, clean up the documents this empties.
SweepStaleUsers ==
  LET stale(d) == users[d] \ active
      affected == {d \in Docs : stale(d) # {}} IN
  /\ Quiet
  /\ mode = "up"
  /\ affected # {}
  /\ users' = [d \in Docs |-> users[d] \cap active]
  /\ socketToDocument' = [s \in Sockets |->
                             IF \E d \in affected : s \in stale(d) THEN NoDoc
                             ELSE socketToDocument[s]]
  /\ rooms' = [s \in Sockets |-> rooms[s] \ {d \in affected : s \in stale(d)}]
  /\ StartCleanup({d \in affected : users'[d] = {}})
  /\ UNCHANGED <<mode, conn, active, joinVars, documents, flushed, redis,
                 failed, accepted, bounds>>

\* Mutant: the loop visits only documents nobody edits.
PersistIdleOnly(d) ==
  /\ Quiet
  /\ mode = "up"
  /\ InMemory(d)
  /\ users[d] = {}
  /\ \A i \in DOMAIN pipe[d] : pipe[d][i].by # "periodic"
  /\ pipe' = [pipe EXCEPT ![d] =
                Append(@, [by |-> "periodic", state |-> documents[d]])]
  /\ UNCHANGED <<mode, socketVars, joinVars, documents, cleaningUp, flushed,
                 redis, failed, accepted, bounds>>

\* One iteration of the persistence loop.  Bound: one periodic write of a
\* document in flight, as long as Redis answers within the interval.
PersistPeriodically(d) ==
  /\ Quiet
  /\ mode = "up"
  /\ InMemory(d)
  /\ \A i \in DOMAIN pipe[d] : pipe[d][i].by # "periodic"
  /\ pipe' = [pipe EXCEPT ![d] =
                Append(@, [by |-> "periodic", state |-> documents[d]])]
  /\ UNCHANGED <<mode, socketVars, joinVars, documents, cleaningUp, flushed,
                 redis, failed, accepted, bounds>>

-----------------------------------------------------------------------------
(* Shutdown, crash, restart.                                               *)

\* SIGTERM: the timers are cleared; sockets stay connected.
BeginStop ==
  /\ Quiet
  /\ mode = "up"
  /\ restarts < MaxRestarts
  /\ mode' = "stopping"
  /\ restarts' = restarts + 1
  /\ UNCHANGED <<socketVars, joinVars, documents, cleaningUp, flushed,
                 storeVars, accepted, faults>>

FlushInFlight == \E d \in Docs : \E i \in DOMAIN pipe[d] : pipe[d][i].by = "stop"

\* One iteration of stop(): documents are written one after the other.
StopFlush(d) ==
  /\ Quiet
  /\ mode = "stopping"
  /\ InMemory(d)
  /\ d \notin flushed
  /\ ~FlushInFlight
  /\ flushed' = flushed \cup {d}
  /\ pipe' = [pipe EXCEPT ![d] =
                Append(@, [by |-> "stop", state |-> documents[d]])]
  /\ UNCHANGED <<mode, socketVars, joinVars, documents, cleaningUp, redis,
                 failed, accepted, bounds>>

\* stop() has visited every document and httpServer.close is called: no new
\* connections, but the open ones go on until the process exits.
CloseServer ==
  /\ Quiet
  /\ mode = "stopping"
  /\ \A d \in Docs : InMemory(d) => d \in flushed
  /\ ~FlushInFlight
  /\ mode' = "closing"
  /\ UNCHANGED <<socketVars, joinVars, documents, cleaningUp, flushed,
                 storeVars, accepted, bounds>>

\* The process ends: memory is gone, of the issued writes of a document Redis
\* executes the first few.
ProcessEnds ==
  /\ mode' = "down"
  /\ conn' = [s \in Sockets |-> IF conn[s] = "on" THEN "gone" ELSE conn[s]]
  /\ rooms' = [s \in Sockets |-> {}]
  /\ users' = [d \in Docs |-> {}]
  /\ socketToDocument' = [s \in Sockets |-> NoDoc]
  /\ active' = {}
  /\ entering' = <<>>
  /\ waiting' = {}
  /\ initPromises' = {}
  /\ documents' = [d \in Docs |-> Absent]
  /\ cleaningUp' = [d \in Docs |-> "idle"]
  /\ flushed' = {}
  /\ pipe' = [d \in Docs |-> <<>>]
  /\ redis' \in [Docs -> SUBSET Updates]
  /\ \A d \in Docs : redis'[d] \in {redis[d]} \cup PipeStates(d)
  /\ accepted' = redis'
  /\ failed' = [d \in Docs |-> {}]
  /\ UNCHANGED faults

\* The last connection is gone, or the ten seconds are over.
Exit ==
  /\ Quiet
  /\ mode = "closing"
  /\ ProcessEnds
  /\ UNCHANGED restarts

Crash ==
  /\ Quiet
  /\ mode \in {"up", "stopping"}
  /\ restarts < MaxRestarts
  /\ restarts' = restarts + 1
  /\ ProcessEnds

Restart ==
  /\ mode = "down"
  /\ mode' = "up"
  /\ UNCHANGED <<socketVars, joinVars, documents, cleaningUp, flushed,
                 storeVars, accepted, bounds>>

-----------------------------------------------------------------------------
ClientStep ==
  \E s \in Sockets :
    \/ Connect(s)
    \/ Disconnect(s)
    \/ \E d \in Docs : \/ JoinDocument(s, d)
                       \/ LeaveDocument(s, d)
                       \/ \E u \in Updates : DocumentUpdate(s, d, u)

ServerStep ==
  \/ \E s \in Sockets, d \in Docs : JoinLoaded(s, d) \/ JoinWaits(s, d)
  \/ \E d \in Docs : \/ LoadDone(d)
                     \/ LoadFails(d)
                     \/ RedisSet(d)
                     \/ RedisSetFails(d)
                     \/ CleanupDone(d)
                     \/ CleanupFails(d)
                     \/ PersistPeriodically(d)
  \/ \E s \in Sockets : GoIdle(s)
  \/ SweepStaleUsers

ProcessStep == \/ BeginStop
               \/ \E d \in Docs : StopFlush(d)
               \/ CloseServer
               \/ Exit
               \/ Crash
               \/ Restart

Next == ClientStep \/ ServerStep \/ ProcessStep

\* A user of a closed connection nobody has removed: its join resumed late.
Ghosts == {s \in Sockets : conn[s] = "gone" /\ socketToDocument[s] # NoDoc}

\* The event loop reaches every callback that is due, timers keep firing and a
\* stop that has begun goes on.  The fairness is strong because a callback is
\* not due while joins resume, and clients may keep joining.  Steps that are
\* never enabled together share one conjunct.  The sweep owes something to
\* ghosts only: they stay idle, other users may be active whenever it fires.
\* Clients promise nothing, and neither do failures.
Fairness ==
  /\ WF_vars(\E s \in Sockets, d \in Docs : JoinLoaded(s, d) \/ JoinWaits(s, d))
  /\ \A d \in Docs : /\ SF_vars(RedisSet(d) \/ LoadDone(d))
                     /\ SF_vars(CleanupDone(d))
                     /\ SF_vars(PersistPeriodically(d) \/ StopFlush(d))
  /\ SF_vars(\/ \E s \in Ghosts : GoIdle(s)
             \/ Ghosts \ active # {} /\ SweepStaleUsers)
  /\ SF_vars(CloseServer \/ Exit \/ Restart)

Spec == Init /\ [][Next]_vars
FairSpec == Spec /\ Fairness

-----------------------------------------------------------------------------
(* Safety.                                                                 *)

\* The two maps of the AwarenessService describe the same membership, however
\* joins, switches, sweeps and late loads interleave.
AwarenessAgrees ==
  \A s \in Sockets, d \in Docs : s \in users[d] <=> socketToDocument[s] = d

\* A document somebody is tracked in is in memory, so no update of a joined
\* client is dropped as one for an unknown document: an eviction that raced a
\* join would break this.
TrackedInMemory == \A d \in Docs : users[d] # {} => InMemory(d)

\* Concurrent joins share one Y.Doc: nothing is in memory while it is being
\* loaded, a join never waits for a load that is already over, and no load puts
\* a document in memory that nobody has asked for.
OneLoad == /\ \A d \in initPromises : ~InMemory(d)
           /\ \A w \in waiting : w[2] \in initPromises
           /\ \A d \in initPromises : \E s \in Sockets : <<s, d>> \in waiting

\* Whatever is in memory and not in the newest write of the document is there
\* because a write of it failed: no handler forgets to save.
UnsavedOnlyByFailure ==
  \A d \in Docs : InMemory(d) => documents[d] \ Newest(d) \subseteq failed[d]

\* An accepted update stays visible to whoever opens the document: evictions,
\* reloads and saves that overlap lose none.
NoAcceptedUpdateLost == \A d \in Docs : accepted[d] \subseteq Visible(d)

\* With failing writes, only an update whose own save was rejected is lost.
LossNeedsFailedWrite ==
  \A d \in Docs : accepted[d] \subseteq Visible(d) \cup failed[d]

\* A client that waits for its acks is in exactly the room the presence lists
\* show it in: sweeps, switches and failed joins keep the two in step.
PresenceMatchesRooms ==
  \A s \in Patient : conn[s] = "on" /\ Pending(s) = {}
                     => rooms[s] = {socketToDocument[s]} \ {NoDoc}

\* As long as every client that has connected waits for its acks and no Redis
\* command has failed, a document without users is on its way out of memory: no
\* leave, disconnect, switch, sweep or late load empties it, or loads it, and
\* leaves no cleanup behind that is still to look at it.
EmptyIsLeaving ==
  (\A s \in Sockets : s \in Patient \/ conn[s] = "new") /\ faults = 0 =>
    \A d \in Docs : InMemory(d) /\ users[d] = {} =>
      \/ cleaningUp[d] = "wrote"
      \/ /\ cleaningUp[d] = "writing"
         /\ \E i \in DOMAIN pipe[d] : pipe[d][i].by = "cleanup"

\* Full states are written in the order they were encoded: no write, retry or
\* crash makes the stored document go back.
RedisNeverShrinks == [][\A d \in Docs : redis[d] \subseteq redis'[d]]_redis

\* The end of the process takes only updates whose write was still on its way
\* or had been rejected.
EndLosesOnlyInFlight ==
  [][mode' = "down" =>
       \A d \in Docs : Visible(d) \ redis'[d]
                         \subseteq (UNION PipeStates(d)) \cup failed[d]]_mode

-----------------------------------------------------------------------------
(* Liveness.                                                               *)

\* A document without users leaves memory or somebody joins it, unless a Redis
\* command failed: a cleanup that fails is not tried again.
EmptyDocumentEvicted ==
  \A d \in Docs : (InMemory(d) /\ users[d] = {})
                    ~> (~InMemory(d) \/ users[d] # {} \/ faults > 0)

\* What stays in memory reaches Redis, also after a rejected write.
EventuallyPersisted ==
  \A d \in Docs, u \in Updates :
    (InMemory(d) /\ u \in documents[d]) ~> (u \in redis[d] \/ ~InMemory(d))

\* Every join is answered.
JoinsSettle == \A s \in Sockets : Pending(s) # {} ~> Pending(s) = {}

-----------------------------------------------------------------------------
(* Refinement: the service implements the durable document.                *)

Durable == INSTANCE DurableDocument
             WITH content <- [d \in Docs |-> Visible(d)], stable <- redis,
                  up <- mode # "down"
ImplementsDurable == Durable!Spec
=============================================================================
