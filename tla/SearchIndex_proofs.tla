-------------------------- MODULE SearchIndex_proofs --------------------------
(***************************************************************************)
(* Proofs about SearchIndex, for any number of documents, files, consumers *)
(* and reindexes, and any number of faults.                                *)
(***************************************************************************)
EXTENDS SearchIndex, TLAPS

OnItsWay(m) == m \in queue \/ \E c \in Consumers : m \in batch[c]

\* Where a consumer is in the processing of what kind of event.
StepFits == \A c \in Consumers :
  /\ step[c] \in {"found", "deleting"} => current[c].act = "delete"
  /\ step[c] \in {"adding", "clash", "removing", "removed", "readding"} =>
       current[c].act = "index"

\* What the task does that its owner waits for.
Awaited(c) == Only(current[c].item,
                   IF step[c] \in {"adding", "readding"} THEN current[c].ver ELSE 0)

CrawlTask == [i \in Items |-> IF i \notin Kind THEN Keep
                              ELSE IF crawl = "clearing" THEN 0 ELSE fetched[i]]

\* Whoever owns a task waits for it, and for no other.
Waiters == Consumers \cup {Crawler}

Awaits(o) == IF o = Crawler THEN crawl \in {"clearing", "filling"} ELSE step[o] \in Waiting

Wants(o) == IF o = Crawler THEN CrawlTask ELSE Awaited(o)

Owned == \A k \in 1 .. Len(tasks) : \A o \in Waiters :
  tasks[k].owner = o => Awaits(o) /\ tasks[k].does = Wants(o)

Waited == \A o \in Waiters :
  Awaits(o) => \E k \in 1 .. Len(tasks) : tasks[k].owner = o

OneEach == \A j, k \in 1 .. Len(tasks) :
  tasks[j].owner = tasks[k].owner /\ tasks[j].owner # Nobody => j = k

\* The reindex, by where it is.
Filling == {"page", "fill", "filling"}

CrawlFits ==
  /\ crawl = "off" => calm = {} /\ fetched = Nothing
  /\ crawl = "fetch" => ~weekly
  /\ crawl = "page" => weekly /\ fetched = Nothing
  /\ weekly /\ crawl \in {"clear", "clearing"} => left = Items /\ fetched = Nothing
  /\ at = 2 /\ (crawl = "fetch" \/ (weekly /\ crawl \in Filling)) => left \cap Docs = {}
  /\ weekly => \A i \in Items : fetched[i] # Keep => i \in Kind /\ i \notin left
  /\ crawl = "fetch" => \A i \in left : fetched[i] = Keep

-----------------------------------------------------------------------------
\* What is on its way of an item that was changed in peace agrees with it.
Agrees(i) ==
  /\ \A m \in Message : OnItsWay(m) /\ Told(m, i) =>
       m.ver = Listed(i) /\ (m.act = "delete" => Listed(i) = 0)
  /\ \A m, n \in Message :
       OnItsWay(m) /\ Told(m, i) /\ OnItsWay(n) /\ Told(n, i) => m = n

Harmless(i) ==
  /\ \A k \in 1 .. Len(tasks) : tasks[k].does[i] \in {Keep, 0, Listed(i)}
  /\ fetched[i] \in {Keep, Listed(i)}

AllAgree == \A i \in sure \cup calm : Agrees(i) /\ Harmless(i)

\* An item that is only calm has nothing on its way.
CalmIsQuiet == \A i \in calm \ sure :
  /\ \A m \in Message : OnItsWay(m) => ~Told(m, i)
  /\ \A k \in 1 .. Len(tasks) : tasks[k].owner # Crawler => tasks[k].does[i] = Keep

-----------------------------------------------------------------------------
\* The items that a settled index must have right: once the reindex has begun to
\* clear, those that it can set right.
Live == IF crawl \in {"off", "fetch"} THEN sure ELSE calm

-----------------------------------------------------------------------------
\* What an operation on the task queue does to it.
Owners == Consumers \cup {Crawler, Nobody}

LEMMA Submitted ==
  ASSUME tasks \in Seq(Task), NEW does \in Effects, NEW o \in Owners, Submit(does, o)
  PROVE  /\ tasks' \in Seq(Task)
         /\ Len(tasks') = Len(tasks) + 1
         /\ \A k \in 1 .. Len(tasks) : tasks'[k] = tasks[k]
         /\ tasks'[Len(tasks) + 1] = [does |-> does, owner |-> o]
  BY DEF Submit, Task, Owners

LEMMA Popped ==
  ASSUME tasks \in Seq(Task), tasks # <<>>, tasks' = Tail(tasks)
  PROVE  /\ tasks' \in Seq(Task)
         /\ Len(tasks) \in Nat /\ Len(tasks) >= 1
         /\ Len(tasks') = Len(tasks) - 1
         /\ \A k \in 1 .. Len(tasks') : tasks'[k] = tasks[k + 1]
         /\ Head(tasks) = tasks[1]
         /\ tasks[1] \in Task
  OBVIOUS

LEMMA Left ==
  ASSUME tasks \in Seq(Task), NEW o, tasks' = Disowned(o)
  PROVE  /\ tasks' \in Seq(Task)
         /\ Len(tasks') = Len(tasks)
         /\ \A k \in 1 .. Len(tasks) :
              /\ tasks'[k].does = tasks[k].does
              /\ tasks'[k].owner = IF tasks[k].owner = o THEN Nobody ELSE tasks[k].owner
<1>1. \A k \in 1 .. Len(tasks) : tasks[k] \in Task
  OBVIOUS
<1>2. \A k \in 1 .. Len(tasks) :
        /\ tasks'[k] = IF tasks[k].owner = o THEN [tasks[k] EXCEPT !.owner = Nobody]
                                             ELSE tasks[k]
        /\ tasks'[k] \in Task
  BY <1>1 DEF Disowned, Task
<1>3. tasks' \in Seq(Task) /\ Len(tasks') = Len(tasks)
  BY <1>1, <1>2 DEF Disowned
<1>4. \A k \in 1 .. Len(tasks) :
        /\ tasks'[k].does = tasks[k].does
        /\ tasks'[k].owner = IF tasks[k].owner = o THEN Nobody ELSE tasks[k].owner
  BY <1>1, <1>2 DEF Task
<1>. QED
  BY <1>3, <1>4

LEMMA OnlyTypes ==
  ASSUME NEW i \in Items, NEW v \in {Keep} \cup 0 .. MaxChanges
  PROVE  Only(i, v) \in Effects
  BY DEF Only, Effects

LEMMA CurrentTypes ==
  ASSUME TypeOK, NEW c \in Consumers, step[c] # "idle"
  PROVE  /\ current[c] \in Message
         /\ current[c].item \in Items
         /\ current[c].ver \in 0 .. MaxChanges
         /\ current[c] \in batch[c]
  BY DEF TypeOK, Message

-----------------------------------------------------------------------------
LEMMA Parameters == /\ MaxChanges \in Nat /\ MaxCrawls \in Nat /\ MaxFaults \in Nat
                    /\ Nobody \notin Consumers /\ Crawler \notin Consumers
                    /\ Nobody # Crawler
                    /\ Docs \cap Files = {}
  BY SearchOK DEF SearchOK

LEMMA AnnounceTypes ==
  ASSUME TypeOK, NEW i \in Items, NEW act \in {"index", "delete", "skip"},
         state' \in [Items -> {"none", "listed", "trashed", "gone"}],
         content' \in [Items -> 0 .. MaxChanges],
         nameless' \subseteq Files,
         Announce(i, act)
  PROVE  TypeOK'
<1>. DEFINE said == IF act = "index" /\ i \in nameless' THEN "void" ELSE act
<1>. DEFINE m == [n |-> changes + 1, item |-> i, act |-> said,
                  ver |-> IF said = "index" THEN content'[i] ELSE 0]
<1>1. m \in Message
  BY Parameters DEF Announce, TypeOK, Message
<1>2. /\ changes' \in 0 .. MaxChanges
      /\ queue' \in {queue, queue \cup {m}}
      /\ visible' \in {visible, visible \cup {m}}
      /\ visible' \subseteq queue'
      /\ faults' \in 0 .. MaxFaults
      /\ sure' \subseteq Items
      /\ calm' \subseteq Items
  BY Parameters DEF Announce, TypeOK, messages, Fault
<1>3. UNCHANGED <<consumer, meili, crawler>>
  BY DEF Announce
<1>. QED
  BY <1>1, <1>2, <1>3 DEF TypeOK, consumer, meili, crawler

LEMMA ChangeTypes == TypeOK /\ Change => TypeOK'
<1>. SUFFICES ASSUME TypeOK, NEW i \in Items,
                     \/ CreateItem(i) \/ UpdateItem(i) \/ MoveFile(i)
                     \/ TrashFile(i) \/ RestoreFile(i) \/ DeleteItem(i)
              PROVE  TypeOK'
  BY DEF Change
<1>. DEFINE acts == {"index", "delete", "skip"}
<1>1. \E act \in acts : Announce(i, act)
  BY DEF CreateItem, UpdateItem, MoveFile, TrashFile, RestoreFile, DeleteItem
<1>2. changes + 1 \in 0 .. MaxChanges
  BY <1>1, Parameters DEF Announce, TypeOK
<1>3. \/ content' = content
      \/ content' = [content EXCEPT ![i] = changes + 1]
  BY DEF CreateItem, UpdateItem, MoveFile, TrashFile, RestoreFile, DeleteItem
<1>4. content' \in [Items -> 0 .. MaxChanges]
  BY <1>2, <1>3 DEF TypeOK
<1>5. \/ state' = state
      \/ \E s \in {"listed", "trashed", "gone"} : state' = [state EXCEPT ![i] = s]
  BY DEF CreateItem, UpdateItem, MoveFile, TrashFile, RestoreFile, DeleteItem
<1>6. state' \in [Items -> {"none", "listed", "trashed", "gone"}]
  BY <1>5 DEF TypeOK
<1>7. nameless' \subseteq Files
  BY DEF CreateItem, UpdateItem, MoveFile, TrashFile, RestoreFile, DeleteItem, TypeOK
<1>. QED
  BY <1>1, <1>4, <1>6, <1>7, AnnounceTypes

\* What a step of a consumer leaves of the types that it touches.
LEMMA ConsumerTypes ==
  ASSUME TypeOK, tasks' \in Seq(Task), step' \in [Consumers -> {"idle", "found", "clash",
           "removed", "ack", "drop"} \cup Waiting],
         batch' \in [Consumers -> SUBSET Message],
         current' \in [Consumers -> Message \cup {NoMessage}],
         \A c \in Consumers : step'[c] # "idle" => current'[c] \in batch'[c],
         queue' \subseteq Message, visible' \subseteq queue',
         sure' \subseteq Items, calm' \subseteq Items, faults' \in 0 .. MaxFaults,
         UNCHANGED <<services, index, crawler>>
  PROVE  TypeOK'
  BY DEF TypeOK, services, crawler

LEMMA ConsumeTypes == TypeOK /\ (\E c \in Consumers : Consume(c) \/ Mishap(c)) => TypeOK'
<1>. SUFFICES ASSUME TypeOK, NEW c \in Consumers,
                     Consume(c) \/ Mishap(c)
              PROVE  TypeOK'
  OBVIOUS
<1>. USE Parameters
<1>t. tasks \in Seq(Task) /\ Keep \in {Keep} \cup 0 .. MaxChanges /\ 0 \in {Keep} \cup 0 .. MaxChanges
      /\ c \in Owners
  BY DEF TypeOK, Owners
<1>f. Fault => faults' \in 0 .. MaxFaults
  BY DEF Fault, TypeOK
<1>1. ASSUME NEW B \in SUBSET visible, Receive(c, B) PROVE TypeOK'
  BY <1>1 DEF Receive, TypeOK, services, meili, crawler, history
<1>2. ASSUME NEW m \in batch[c], IndexItem(c, m) PROVE TypeOK'
  <2>1. m \in Message /\ m.item \in Items /\ m.ver \in {Keep} \cup 0 .. MaxChanges
    BY DEF TypeOK, Message
  <2>2. tasks' \in Seq(Task)
    BY <1>2, <1>t, <2>1, Submitted, OnlyTypes DEF IndexItem
  <2>. QED
    BY <1>2, <2>1, <2>2, ConsumerTypes DEF IndexItem, Begin, TypeOK, messages, history, Waiting
<1>3. ASSUME NEW m \in batch[c], LookUp(c, m) \/ SkipEvent(c, m) \/ RejectEvent(c, m)
      PROVE  TypeOK'
  <2>1. m \in Message
    BY DEF TypeOK
  <2>. QED
    BY <1>3, <2>1 DEF LookUp, SkipEvent, RejectEvent, Begin, TypeOK, services, messages, meili,
                      crawler, history
<1>4. CASE RemoveItem(c) \/ RemoveEntry(c) \/ AddAgain(c)
  <2>1. /\ step[c] # "idle"
        /\ \E v \in {0, current[c].ver} : Submit(Only(current[c].item, v), c)
    BY <1>4 DEF RemoveItem, RemoveEntry, AddAgain
  <2>2. tasks' \in Seq(Task)
    BY <1>t, <2>1, CurrentTypes, Submitted, OnlyTypes
  <2>3. sure' \subseteq sure /\ calm' \subseteq calm
    BY <1>4 DEF RemoveItem, RemoveEntry, AddAgain, history
  <2>. QED
    BY <1>4, <2>2, <2>3, ConsumerTypes DEF RemoveItem, RemoveEntry, AddAgain, Proceed, TypeOK,
       messages, Waiting
<1>5. CASE Acknowledge(c)
  BY <1>5 DEF Acknowledge, Finish, TypeOK, services, meili, crawler, history
<1>6. CASE TimesOut(c)
  <2>1. tasks' \in Seq(Task)
    BY <1>6, <1>t, Left DEF TimesOut
  <2>. QED
    BY <1>6, <1>f, <2>1, ConsumerTypes DEF TimesOut, Finish, TypeOK, messages, history
<1>7. CASE CallFails(c)
  BY <1>7, <1>f DEF CallFails, Finish, TypeOK, services, messages, meili, crawler, history
<1>8. CASE Crash(c)
  <2>1. tasks' \in Seq(Task)
    BY <1>8, <1>t, Left DEF Crash
  <2>. QED
    BY <1>8, <1>f, <2>1, ConsumerTypes DEF Crash, TypeOK, messages, history
<1>9. ASSUME NEW m \in batch[c], NoAnswer(c, m) PROVE TypeOK'
  BY <1>9, <1>f DEF NoAnswer, TypeOK, services, messages, meili, crawler, history
<1>10. ASSUME NEW m \in batch[c], Misread(c, m) \/ UnreadableFirst(c, m) PROVE TypeOK'
  <2>1. m \in Message
    BY DEF TypeOK
  <2>2. sure' \subseteq sure /\ calm' \subseteq calm
    BY <1>10 DEF Misread, UnreadableFirst, GivenUp
  <2>. QED
    BY <1>10, <1>f, <2>1, <2>2 DEF Misread, UnreadableFirst, Begin, TypeOK, services, messages,
                                   meili, crawler
<1>11. CASE Unreadable(c)
  <2>1. tasks' \in Seq(Task)
    BY <1>11, <1>t, Left DEF Unreadable
  <2>2. step[c] # "idle" /\ sure' \subseteq sure /\ calm' \subseteq calm
    BY <1>11 DEF Unreadable, GivenUp, Waiting
  <2>. QED
    BY <1>11, <1>f, <2>1, <2>2, ConsumerTypes DEF Unreadable, Proceed, TypeOK, messages
<1>. QED
  BY <1>1, <1>2, <1>3, <1>4, <1>5, <1>6, <1>7, <1>8, <1>9, <1>10, <1>11
  DEF Consume, Mishap, GivesUp

\* The variables of the reindex.
CrawlerTypes == /\ crawl \in {"off", "fetch", "clear", "clearing", "page", "fill", "filling"}
                /\ weekly \in BOOLEAN
                /\ at \in 1 .. 2
                /\ left \subseteq Items
                /\ fetched \in Effects
                /\ crawls \in 0 .. MaxCrawls

LEMMA CrawlOnTypes ==
  ASSUME TypeOK, UNCHANGED crawler \/ EndCrawl \/ Cleared \/ Filled \/ TurnsPage
  PROVE  CrawlerTypes'
<1>1. Nothing \in Effects
  BY Parameters DEF Nothing, Effects
<1>2. CASE EndCrawl
  <2>1. weekly' \in BOOLEAN
    BY <1>2 DEF EndCrawl
  <2>2. /\ crawl' = "off" /\ at' = 1 /\ left' = {} /\ fetched' = Nothing
        /\ crawls' = crawls
    BY <1>2 DEF EndCrawl
  <2>. QED
    BY <1>1, <2>1, <2>2 DEF CrawlerTypes, TypeOK
<1>3. CASE UNCHANGED crawler
  BY <1>3 DEF crawler, CrawlerTypes, TypeOK
<1>4. CASE Cleared
  BY <1>4 DEF Cleared, NextIndex, CrawlerTypes, TypeOK
<1>5. CASE TurnsPage
  BY <1>1, <1>5 DEF TurnsPage, CrawlerTypes, TypeOK
<1>6. CASE Filled /\ ~EndCrawl
  BY <1>1, <1>6 DEF Filled, TurnsPage, CrawlerTypes, TypeOK
<1>. QED
  BY <1>2, <1>3, <1>4, <1>5, <1>6

LEMMA HistoryTypes ==
  ASSUME TypeOK, UNCHANGED history \/ Filled \/ Unheeded \/ Aborts
  PROVE  sure' \subseteq Items /\ calm' \subseteq Items
  BY DEF TypeOK, history, Filled, EndCrawl, Unheeded, Aborts

LEMMA CrawlTypes == TypeOK /\ ((\E script \in BOOLEAN : BeginCrawl(script)) \/ Crawl
                                 \/ FetchFails \/ CrawlerTimesOut \/ CrawlerStops) => TypeOK'
<1>. SUFFICES ASSUME TypeOK,
                     (\E script \in BOOLEAN : BeginCrawl(script)) \/ Crawl
                       \/ FetchFails \/ CrawlerTimesOut \/ CrawlerStops
              PROVE  TypeOK'
  OBVIOUS
<1>. USE Parameters
<1>t. tasks \in Seq(Task) /\ Crawler \in Owners /\ Keep \in {Keep} \cup 0 .. MaxChanges
      /\ 0 \in {Keep} \cup 0 .. MaxChanges
  BY DEF TypeOK, Owners
<1>n. Nothing \in Effects
  BY DEF Nothing, Effects
<1>f. Fault => faults' \in 0 .. MaxFaults
  BY DEF Fault, TypeOK
<1>p. \A P \in SUBSET left : Page(P) => left' \subseteq Items /\ fetched' \in Effects
  <2>. SUFFICES ASSUME NEW P \in SUBSET left, Page(P)
                PROVE  left' \subseteq Items /\ fetched' \in Effects
    OBVIOUS
  <2>1. \A i \in Items : /\ Listed(i) \in {Keep} \cup 0 .. MaxChanges
                         /\ fetched[i] \in {Keep} \cup 0 .. MaxChanges
    BY DEF Listed, TypeOK, Effects
  <2>2. left' \subseteq Items
    BY DEF Page, TypeOK
  <2>3. PICK missed \in SUBSET P :
          fetched' = [i \in Items |->
                     IF i \in P THEN IF i \in missed \/ Listed(i) = 0 THEN Keep
                                     ELSE Listed(i)
                     ELSE IF weekly THEN Keep ELSE fetched[i]]
    BY DEF Page
  <2>4. fetched' \in Effects
    BY <2>1, <2>3, <1>t DEF Effects
  <2>. QED
    BY <2>2, <2>4
<1>1. ASSUME NEW script \in BOOLEAN, BeginCrawl(script) PROVE TypeOK'
  BY <1>1, <1>n DEF BeginCrawl, TypeOK, services, messages, consumer, meili
<1>2. ASSUME NEW P \in SUBSET left, FetchPage(P) \/ ScriptPage(P) PROVE TypeOK'
  BY <1>2, <1>p DEF FetchPage, ScriptPage, TypeOK, services, messages, consumer, meili, history
<1>3. CASE FetchedKind
  BY <1>3 DEF FetchedKind, NextIndex, TypeOK, services, messages, consumer, meili, history
<1>4. CASE ClearIndex \/ FillIndex
  <2>1. [i \in Items |-> IF i \in Kind THEN 0 ELSE Keep] \in Effects
    BY <1>t DEF Effects
  <2>2. [i \in Items |-> IF i \in Kind THEN fetched[i] ELSE Keep] \in Effects
    BY <1>t DEF Effects, TypeOK
  <2>3. tasks' \in Seq(Task)
    BY <1>4, <1>t, <2>1, <2>2, Submitted DEF ClearIndex, FillIndex
  <2>. QED
    BY <1>4, <2>3 DEF ClearIndex, FillIndex, TypeOK, services, messages, consumer, history
<1>5. CASE ScriptKindDone
  <2>1. CASE at = 1
    BY <1>5, <2>1 DEF ScriptKindDone, TypeOK, services, messages, consumer, meili, history
  <2>2. CASE at = 2
    <3>0. EndCrawl /\ sure' = calm
      BY <1>5, <2>2 DEF ScriptKindDone
    <3>1. CrawlerTypes' /\ sure' \subseteq Items /\ calm' \subseteq Items
      BY <3>0, CrawlOnTypes DEF EndCrawl, TypeOK
    <3>. QED
      BY <1>5, <2>2, <3>1 DEF ScriptKindDone, CrawlerTypes, TypeOK, services, messages, consumer, meili
  <2>. QED
    BY <2>1, <2>2 DEF TypeOK
<1>6. CASE FetchFails
  BY <1>6, <1>f DEF FetchFails, TypeOK, services, messages, consumer, meili
<1>7. CASE CrawlerTimesOut
  <2>1. tasks' \in Seq(Task)
    BY <1>7, <1>t, Left DEF CrawlerTimesOut
  <2>2. CrawlerTypes' /\ sure' \subseteq Items /\ calm' \subseteq Items
    BY <1>7, CrawlOnTypes, HistoryTypes DEF CrawlerTimesOut, Unheeded, Aborts
  <2>. QED
    BY <1>7, <1>f, <2>1, <2>2 DEF CrawlerTimesOut, CrawlerTypes, TypeOK, services, messages, consumer
<1>8. CASE CrawlerStops
  <2>1. tasks' \in Seq(Task)
    BY <1>8, <1>t, Left DEF CrawlerStops
  <2>2. CrawlerTypes' /\ sure' \subseteq Items /\ calm' \subseteq Items
    BY <1>8, CrawlOnTypes DEF CrawlerStops, EndCrawl, TypeOK
  <2>. QED
    BY <1>8, <1>f, <2>1, <2>2 DEF CrawlerStops, CrawlerTypes, TypeOK, services, messages, consumer
<1>9. CASE NothingToFill
  <2>1. CrawlerTypes' /\ sure' \subseteq Items /\ calm' \subseteq Items
    BY <1>9, CrawlOnTypes, HistoryTypes DEF NothingToFill
  <2>. QED
    BY <1>9, <2>1 DEF NothingToFill, CrawlerTypes, TypeOK, services, messages, consumer, meili
<1>. QED
  BY <1>1, <1>2, <1>3, <1>4, <1>5, <1>6, <1>7, <1>8, <1>9 DEF Crawl


LEMMA ExecuteTypes == TypeOK /\ Owned /\ (Succeeds \/ Fails) => TypeOK'
<1>. SUFFICES ASSUME TypeOK, Owned, Succeeds \/ Fails PROVE TypeOK'
  OBVIOUS
<1>1. /\ tasks' \in Seq(Task)
      /\ Head(tasks).does \in Effects
      /\ Head(tasks).owner \in Consumers => step[Head(tasks).owner] \in Waiting
  <2>1. tasks # <<>> /\ tasks' = Tail(tasks) /\ tasks \in Seq(Task)
    BY DEF Succeeds, Fails, TypeOK
  <2>. QED
    BY <2>1, Popped, Parameters DEF Task, Owned, Waiters, Awaits
<1>2. index' \in [Items -> 0 .. MaxChanges]
  BY <1>1, Parameters DEF Succeeds, Fails, Applied, TypeOK, Effects
<1>3. CrawlerTypes' /\ sure' \subseteq Items /\ calm' \subseteq Items
  BY CrawlOnTypes, HistoryTypes DEF Succeeds, Fails, Unheeded, Aborts, crawler
<1>4. faults' \in 0 .. MaxFaults
  BY Parameters DEF Succeeds, Fails, Fault, TypeOK
<1>. DEFINE typed == /\ step' \in [Consumers -> {"idle", "found", "clash", "removed", "ack", "drop"} \cup Waiting]
                     /\ batch' \in [Consumers -> SUBSET Message]
                     /\ current' \in [Consumers -> Message \cup {NoMessage}]
                     /\ \A c \in Consumers : step'[c] # "idle" => current'[c] \in batch'[c]
<1>5. typed
  <2>1. CASE UNCHANGED consumer
    BY <2>1 DEF consumer, TypeOK
  <2>2. ASSUME NEW c \in Consumers, step[c] \in Waiting,
               Finish(c) \/ \E s \in {"removed", "ack", "clash"} : Proceed(c, s)
        PROVE  typed
    BY <2>2 DEF Proceed, Finish, TypeOK, Waiting
  <2>3. \/ UNCHANGED consumer
        \/ /\ Head(tasks).owner \in Consumers
           /\ \/ Finish(Head(tasks).owner)
              \/ \E s \in {"removed", "ack", "clash"} : Proceed(Head(tasks).owner, s)
    BY DEF Succeeds, Fails
  <2>. QED
    BY <1>1, <2>1, <2>2, <2>3
<1>. QED
  BY <1>1, <1>2, <1>3, <1>4, <1>5 DEF Succeeds, Fails, services, messages, TypeOK, CrawlerTypes

-----------------------------------------------------------------------------
\* A step leaves the queue of tasks alone, submits, disowns or takes out a task.
\* Only the owner of that task begins to wait or ends it; whoever else waits goes
\* on waiting for the same.
Kept(o) == /\ Awaits(o) <=> Awaits(o)'
           /\ Awaits(o) => Wants(o)' = Wants(o)

OthersKept(o) == \A p \in Waiters : p # o => Kept(p)

Submits == \E o \in Waiters, does \in Effects :
  Submit(does, o) /\ ~Awaits(o) /\ Awaits(o)' /\ does = Wants(o)' /\ OthersKept(o)

Disowns == \E o \in Waiters : /\ tasks' = Disowned(o)
                              /\ ~Awaits(o)' /\ OthersKept(o)
                              /\ o = Crawler => calm' = {}
                              /\ o = Crawler /\ Awaits(o) => Live' = {}

TakesOut == /\ tasks # <<>> /\ tasks' = Tail(tasks)
            /\ OthersKept(Head(tasks).owner)
            /\ \A o \in Waiters : o = Head(tasks).owner => ~Awaits(o)'

TaskStep == \/ tasks' = tasks /\ \A p \in Waiters : Kept(p)
            \/ Submits \/ Disowns \/ TakesOut

\* A step of one consumer concerns no other owner.
LEMMA OnlyConsumer ==
  ASSUME TypeOK, NEW c \in Consumers, UNCHANGED crawler,
         \A d \in Consumers \ {c} : step'[d] = step[d] /\ current'[d] = current[d]
  PROVE  OthersKept(c)
  BY Parameters DEF OthersKept, Kept, Waiters, Awaits, Wants, Awaited, CrawlTask, Kind, crawler

LEMMA OnlyCrawler ==
  ASSUME UNCHANGED consumer
  PROVE  OthersKept(Crawler)
  BY Parameters DEF OthersKept, Kept, Waiters, Awaits, Wants, Awaited, consumer

LEMMA NoneKept ==
  ASSUME TypeOK, UNCHANGED tasks, NEW o \in Waiters, OthersKept(o), ~Awaits(o), ~Awaits(o)'
  PROVE  TaskStep
  BY DEF TaskStep, OthersKept, Kept

\* A reindex that has lost a task can set nothing right.
LEMMA CrawlerLost ==
  ASSUME TypeOK, crawl \in {"clearing", "filling"}, Unheeded \/ Aborts \/ CrawlerTimesOut \/ CrawlerStops
  PROVE  Live' = {}
<1>1. CASE Unheeded \/ Aborts
  BY <1>1 DEF Unheeded, Aborts, EndCrawl, Cleared, TurnsPage, NextIndex, Live, TypeOK
<1>2. CASE CrawlerTimesOut
  BY <1>1, <1>2 DEF CrawlerTimesOut
<1>3. CASE CrawlerStops
  BY <1>3 DEF CrawlerStops, EndCrawl, Live
<1>. QED
  BY <1>1, <1>2, <1>3

LEMMA TaskSteps == TypeOK /\ Next => TaskStep
<1>. SUFFICES ASSUME TypeOK, Next PROVE TaskStep
  OBVIOUS
<1>. USE Parameters
<1>1. CASE Change \/ \E m \in queue : Reappears(m)
  <2>1. UNCHANGED <<consumer, meili, crawler>>
    BY <1>1 DEF Change, CreateItem, UpdateItem, MoveFile, TrashFile, RestoreFile, DeleteItem,
                Announce, Reappears
  <2>. QED
    BY <2>1 DEF TaskStep, Kept, Awaits, Wants, Awaited, CrawlTask, Kind, consumer, meili, crawler
<1>2. ASSUME NEW c \in Consumers, Consume(c) \/ Mishap(c)
      PROVE  TaskStep
  <2>. DEFINE others == \A d \in Consumers \ {c} : step'[d] = step[d] /\ current'[d] = current[d]
  <2>0. c \in Waiters /\ c # Crawler
    BY DEF Waiters
  <2>1. UNCHANGED crawler
    BY <1>2 DEF Consume, Mishap, GivesUp, TimesOut, CallFails, NoAnswer, Misread, Unreadable,
         UnreadableFirst, GivenUp, Crash, Receive, IndexItem, LookUp, SkipEvent, RejectEvent, RemoveItem,
                RemoveEntry, AddAgain, Acknowledge
  <2>2. others
    BY <1>2 DEF Consume, Mishap, GivesUp, TimesOut, CallFails, NoAnswer, Misread, Unreadable,
         UnreadableFirst, GivenUp, Crash, Receive, IndexItem, LookUp, SkipEvent, RejectEvent, RemoveItem,
                RemoveEntry, AddAgain, Acknowledge, Begin, Proceed, Finish, TypeOK
  <2>3. OthersKept(c)
    BY <2>1, <2>2, OnlyConsumer
  <2>4. ASSUME NEW m \in batch[c], IndexItem(c, m) PROVE Submits
    <3>1. /\ Submit(Only(m.item, m.ver), c) /\ step[c] = "idle"
          /\ step'[c] = "adding" /\ current'[c] = m
          /\ m.item \in Items /\ m.ver \in 0 .. MaxChanges
      BY <2>4 DEF IndexItem, Begin, TypeOK, Message
    <3>2. Only(m.item, m.ver) \in Effects
      BY <3>1, OnlyTypes
    <3>. QED
      BY <2>0, <2>3, <3>1, <3>2 DEF Submits, Awaits, Wants, Awaited, Waiting
  <2>5. CASE RemoveItem(c) \/ RemoveEntry(c)
    <3>1. /\ Submit(Only(current[c].item, 0), c) /\ step[c] \in {"found", "clash"}
          /\ step'[c] \in {"deleting", "removing"} /\ current'[c] = current[c]
      BY <2>5 DEF RemoveItem, RemoveEntry, Proceed, TypeOK
    <3>2. Only(current[c].item, 0) \in Effects
      BY <3>1, CurrentTypes, OnlyTypes
    <3>3. Submits
      BY <2>0, <2>3, <3>1, <3>2 DEF Submits, Awaits, Wants, Awaited, Waiting
    <3>. QED
      BY <3>3 DEF TaskStep
  <2>6. CASE AddAgain(c)
    <3>1. /\ Submit(Only(current[c].item, current[c].ver), c) /\ step[c] = "removed"
          /\ step'[c] = "readding" /\ current'[c] = current[c]
      BY <2>6 DEF AddAgain, Proceed, TypeOK
    <3>2. Only(current[c].item, current[c].ver) \in Effects
      BY <3>1, CurrentTypes, OnlyTypes
    <3>3. Submits
      BY <2>0, <2>3, <3>1, <3>2 DEF Submits, Awaits, Wants, Awaited, Waiting
    <3>. QED
      BY <3>3 DEF TaskStep
  <2>7. ASSUME \/ \E B \in SUBSET visible : Receive(c, B)
               \/ \E m \in batch[c] : \/ LookUp(c, m) \/ SkipEvent(c, m) \/ RejectEvent(c, m)
                                     \/ NoAnswer(c, m) \/ Misread(c, m) \/ UnreadableFirst(c, m)
               \/ Acknowledge(c) \/ CallFails(c)
        PROVE  TaskStep
    <3>1. tasks' = tasks /\ step[c] \notin Waiting /\ step'[c] \notin Waiting
      BY <2>7 DEF Receive, LookUp, SkipEvent, RejectEvent, NoAnswer, Misread, UnreadableFirst, Begin,
                  Acknowledge, CallFails, Finish, TypeOK, meili, Waiting
    <3>. QED
      BY <2>0, <2>3, <3>1, NoneKept DEF Awaits
  <2>8. CASE TimesOut(c) \/ Crash(c) \/ Unreadable(c)
    <3>1. tasks' = Disowned(c) /\ step'[c] \in {"idle", "drop"}
      BY <2>8 DEF TimesOut, Crash, Unreadable, Finish, Proceed, TypeOK
    <3>. QED
      BY <2>0, <2>3, <3>1 DEF TaskStep, Disowns, Awaits, Waiting
  <2>. QED
    BY <1>2, <2>4, <2>5, <2>6, <2>7, <2>8 DEF Consume, Mishap, GivesUp, TaskStep
<1>3. CASE (\E script \in BOOLEAN : BeginCrawl(script)) \/ Crawl
             \/ FetchFails \/ CrawlerTimesOut \/ CrawlerStops
  <2>0. Crawler \in Waiters
    BY DEF Waiters
  <2>1. UNCHANGED consumer
    BY <1>3 DEF BeginCrawl, Crawl, FetchPage, ScriptPage, FetchedKind, ClearIndex, ScriptKindDone,
                FillIndex, NothingToFill, FetchFails, CrawlerTimesOut, CrawlerStops
  <2>2. OthersKept(Crawler)
    BY <2>1, OnlyCrawler
  <2>3. CASE ClearIndex
    <3>1. /\ Submit([i \in Items |-> IF i \in Kind THEN 0 ELSE Keep], Crawler)
          /\ crawl = "clear" /\ crawl' = "clearing" /\ at' = at
      BY <2>3 DEF ClearIndex
    <3>2. [i \in Items |-> IF i \in Kind THEN 0 ELSE Keep] \in Effects
      BY DEF Effects
    <3>3. [i \in Items |-> IF i \in Kind THEN 0 ELSE Keep] = CrawlTask'
      BY <3>1 DEF CrawlTask, Kind
    <3>. QED
      BY <2>0, <2>2, <3>1, <3>2, <3>3 DEF TaskStep, Submits, Awaits, Wants
  <2>4. CASE FillIndex
    <3>1. /\ Submit([i \in Items |-> IF i \in Kind THEN fetched[i] ELSE Keep], Crawler)
          /\ crawl = "fill" /\ crawl' = "filling" /\ at' = at /\ fetched' = fetched
      BY <2>4 DEF FillIndex
    <3>2. [i \in Items |-> IF i \in Kind THEN fetched[i] ELSE Keep] \in Effects
      BY DEF Effects, TypeOK
    <3>3. [i \in Items |-> IF i \in Kind THEN fetched[i] ELSE Keep] = CrawlTask'
      BY <3>1 DEF CrawlTask, Kind
    <3>. QED
      BY <2>0, <2>2, <3>1, <3>2, <3>3 DEF TaskStep, Submits, Awaits, Wants
  <2>5. CASE \/ \E script \in BOOLEAN : BeginCrawl(script)
             \/ \E P \in SUBSET left : FetchPage(P) \/ ScriptPage(P)
             \/ FetchedKind \/ ScriptKindDone \/ NothingToFill \/ FetchFails
    <3>1. tasks' = tasks /\ crawl \notin {"clearing", "filling"} /\ crawl' \notin {"clearing", "filling"}
      BY <2>5 DEF BeginCrawl, FetchPage, ScriptPage, FetchedKind, NextIndex, ScriptKindDone, EndCrawl,
                  NothingToFill, Filled, TurnsPage, FetchFails, meili
    <3>. QED
      BY <2>0, <2>2, <3>1, NoneKept DEF Awaits
  <2>6. CASE CrawlerTimesOut \/ CrawlerStops
    <3>1. tasks' = Disowned(Crawler) /\ calm' = {}
      BY <2>6 DEF CrawlerTimesOut, CrawlerStops, Unheeded, Aborts, EndCrawl
    <3>2. Awaits(Crawler) => Live' = {}
      BY <2>6, CrawlerLost DEF Awaits
    <3>3. ~Awaits(Crawler)'
      BY <2>6 DEF CrawlerTimesOut, CrawlerStops, Unheeded, Cleared, NextIndex, TurnsPage, Aborts, EndCrawl,
                  Awaits
    <3>. QED
      BY <2>0, <2>2, <3>1, <3>2, <3>3 DEF TaskStep, Disowns
  <2>. QED
    BY <1>3, <2>3, <2>4, <2>5, <2>6 DEF Crawl
<1>4. CASE Succeeds \/ Fails
  <2>0. tasks # <<>> /\ tasks' = Tail(tasks)
    BY <1>4 DEF Succeeds, Fails
  <2>1. CASE Head(tasks).owner \in Consumers
    <3>1. \A d \in Consumers \ {Head(tasks).owner} :
            step'[d] = step[d] /\ current'[d] = current[d]
      BY <1>4, <2>1 DEF Succeeds, Fails, Proceed, Finish, TypeOK
    <3>2. UNCHANGED crawler
      BY <1>4, <2>1 DEF Succeeds, Fails
    <3>3. step'[Head(tasks).owner] \in {"idle", "removed", "ack", "clash"}
      BY <1>4, <2>1 DEF Succeeds, Fails, Proceed, Finish, TypeOK
    <3>4. OthersKept(Head(tasks).owner)
      BY <2>1, <3>1, <3>2, OnlyConsumer
    <3>5. \A o \in Waiters : o = Head(tasks).owner => ~Awaits(o)'
      BY <2>1, <3>3 DEF Awaits, Waiting
    <3>. QED
      BY <2>0, <3>4, <3>5 DEF TaskStep, TakesOut
  <2>2. CASE Head(tasks).owner = Crawler
    <3>1. UNCHANGED consumer
      BY <1>4, <2>2 DEF Succeeds, Fails
    <3>2. Cleared \/ Filled \/ Unheeded \/ Aborts
      BY <1>4, <2>2 DEF Succeeds, Fails
    <3>3. crawl' \notin {"clearing", "filling"}
      BY <3>2 DEF Cleared, Filled, Unheeded, Aborts, EndCrawl, TurnsPage, NextIndex
    <3>4. OthersKept(Head(tasks).owner)
      BY <2>2, <3>1, OnlyCrawler
    <3>5. \A o \in Waiters : o = Head(tasks).owner => ~Awaits(o)'
      BY <2>2, <3>3 DEF Awaits
    <3>. QED
      BY <2>0, <3>4, <3>5 DEF TaskStep, TakesOut
  <2>3. CASE Head(tasks).owner = Nobody
    <3>1. UNCHANGED <<consumer, crawler>>
      BY <1>4, <2>3 DEF Succeeds, Fails
    <3>. QED
      BY <2>0, <2>3, <3>1 DEF TaskStep, TakesOut, OthersKept, Kept, Waiters, Awaits, Wants, Awaited, CrawlTask, Kind,
                        consumer, crawler
  <2>4. Head(tasks).owner \in Owners
    <3>1. Head(tasks) \in Task
      BY <2>0, Popped DEF TypeOK
    <3>. QED
      BY <3>1 DEF Task, Owners
  <2>. QED
    BY <2>1, <2>2, <2>3, <2>4 DEF Owners
<1>. QED
  BY <1>1, <1>2, <1>3, <1>4 DEF Next

LEMMA OwnedKept ==
  ASSUME TypeOK, Owned, OneEach, TaskStep
  PROVE  Owned' /\ OneEach'
<1>. USE Parameters
<1>t. tasks \in Seq(Task) /\ Len(tasks) \in Nat
  BY DEF TypeOK
<1>o. \A k \in 1 .. Len(tasks) : tasks[k].owner # Nobody => tasks[k].owner \in Waiters
  <2>1. \A k \in 1 .. Len(tasks) : tasks[k] \in Task
    BY <1>t
  <2>. QED
    BY <2>1 DEF Task, Waiters
<1>1. CASE tasks' = tasks /\ \A p \in Waiters : Kept(p)
  BY <1>1 DEF Owned, OneEach, Kept
<1>2. CASE Submits
  <2>1. PICK o \in Waiters, does \in Effects :
          Submit(does, o) /\ ~Awaits(o) /\ Awaits(o)' /\ does = Wants(o)' /\ OthersKept(o)
    BY <1>2 DEF Submits
  <2>2. /\ Len(tasks') = Len(tasks) + 1
        /\ \A k \in 1 .. Len(tasks) : tasks'[k] = tasks[k]
        /\ tasks'[Len(tasks) + 1] = [does |-> does, owner |-> o]
    BY <1>t, <2>1, Submitted DEF Owners, Waiters
  <2>3. \A k \in 1 .. Len(tasks) : tasks[k].owner # o
    BY <2>1 DEF Owned
  <2>4. \A k \in 1 .. Len(tasks') : k \in 1 .. Len(tasks) \/ k = Len(tasks) + 1
    BY <1>t, <2>2
  <2>5. ASSUME NEW k \in 1 .. Len(tasks'), NEW p \in Waiters, tasks'[k].owner = p
        PROVE  Awaits(p)' /\ tasks'[k].does = Wants(p)'
    <3>1. CASE k = Len(tasks) + 1
      BY <2>1, <2>2, <2>5, <3>1
    <3>2. CASE k \in 1 .. Len(tasks)
      BY <2>1, <2>2, <2>3, <2>5, <3>2 DEF Owned, OthersKept, Kept
    <3>. QED
      BY <2>4, <3>1, <3>2
  <2>6. Owned'
    BY <2>5 DEF Owned
  <2>7. OneEach'
    BY <2>2, <2>3, <2>4 DEF OneEach
  <2>. QED
    BY <2>6, <2>7
<1>3. CASE Disowns
  <2>1. PICK o \in Waiters : tasks' = Disowned(o) /\ OthersKept(o)
    BY <1>3 DEF Disowns
  <2>2. /\ Len(tasks') = Len(tasks)
        /\ \A k \in 1 .. Len(tasks) :
              /\ tasks'[k].does = tasks[k].does
              /\ tasks'[k].owner = IF tasks[k].owner = o THEN Nobody ELSE tasks[k].owner
    BY <1>t, <2>1, Left
  <2>3. Nobody \notin Waiters
    BY DEF Waiters
  <2>4. ASSUME NEW k \in 1 .. Len(tasks), NEW p \in Waiters, tasks'[k].owner = p
        PROVE  Awaits(p)' /\ tasks'[k].does = Wants(p)'
    BY <2>1, <2>2, <2>3, <2>4 DEF Owned, OthersKept, Kept
  <2>5. Owned'
    BY <2>2, <2>4 DEF Owned
  <2>6. OneEach'
    BY <2>2 DEF OneEach
  <2>. QED
    BY <2>5, <2>6
<1>4. CASE TakesOut
  <2>1. /\ Len(tasks) >= 1
        /\ Len(tasks') = Len(tasks) - 1
        /\ \A k \in 1 .. Len(tasks') : tasks'[k] = tasks[k + 1] /\ k + 1 \in 1 .. Len(tasks)
        /\ OthersKept(tasks[1].owner)
    BY <1>t, <1>4, Popped DEF TakesOut
  <2>2. ASSUME NEW k \in 1 .. Len(tasks'), NEW p \in Waiters, tasks'[k].owner = p
        PROVE  Awaits(p)' /\ tasks'[k].does = Wants(p)'
    <3>1. tasks[k + 1].owner = p /\ k + 1 \in 1 .. Len(tasks) /\ tasks'[k].does = tasks[k + 1].does
      BY <2>1, <2>2
    <3>2. p # tasks[1].owner
      <4>1. 1 \in 1 .. Len(tasks) /\ k + 1 # 1
        BY <1>t, <2>1
      <4>. QED
        BY <3>1, <4>1 DEF OneEach, Waiters
    <3>3. Kept(p)
      BY <2>1, <3>2 DEF OthersKept
    <3>. QED
      BY <3>1, <3>3 DEF Owned, Kept
  <2>3. Owned'
    BY <2>2 DEF Owned
  <2>4. OneEach'
    BY <1>t, <2>1 DEF OneEach
  <2>. QED
    BY <2>3, <2>4
<1>. QED
  BY <1>1, <1>2, <1>3, <1>4 DEF TaskStep

\* Who waits has a task: it began with its submission, and it ends when the task
\* is taken out or disowned.
LEMMA WaitedKept ==
  ASSUME TypeOK, Waited, TaskStep
  PROVE  Waited'
<1>. USE Parameters
<1>t. tasks \in Seq(Task) /\ Len(tasks) \in Nat
  BY DEF TypeOK
<1>. SUFFICES ASSUME NEW p \in Waiters, Awaits(p)'
              PROVE  \E k \in 1 .. Len(tasks') : tasks'[k].owner = p
  BY DEF Waited
<1>1. CASE tasks' = tasks /\ \A o \in Waiters : Kept(o)
  BY <1>1 DEF Waited, Kept
<1>2. CASE Submits
  <2>1. PICK o \in Waiters, does \in Effects : Submit(does, o) /\ OthersKept(o)
    BY <1>2 DEF Submits
  <2>2. /\ Len(tasks') = Len(tasks) + 1
        /\ \A k \in 1 .. Len(tasks) : tasks'[k] = tasks[k]
        /\ tasks'[Len(tasks) + 1] = [does |-> does, owner |-> o]
    BY <1>t, <2>1, Submitted DEF Owners, Waiters
  <2>3. CASE p = o
    <3>1. Len(tasks) + 1 \in 1 .. Len(tasks') /\ tasks'[Len(tasks) + 1].owner = p
      BY <1>t, <2>2, <2>3
    <3>. QED
      BY <3>1
  <2>4. CASE p # o
    <3>1. PICK k \in 1 .. Len(tasks) : tasks[k].owner = p
      BY <2>1, <2>4 DEF Waited, OthersKept, Kept
    <3>2. k \in 1 .. Len(tasks') /\ tasks'[k].owner = p
      BY <1>t, <2>2, <3>1
    <3>. QED
      BY <3>2
  <2>. QED
    BY <2>3, <2>4
<1>3. CASE Disowns
  <2>1. PICK o \in Waiters : tasks' = Disowned(o) /\ ~Awaits(o)' /\ OthersKept(o)
    BY <1>3 DEF Disowns
  <2>2. PICK k \in 1 .. Len(tasks) : tasks[k].owner = p
    BY <2>1 DEF Waited, OthersKept, Kept
  <2>. QED
    BY <1>t, <2>1, <2>2, Left
<1>4. CASE TakesOut
  <2>1. /\ Len(tasks') = Len(tasks) - 1
        /\ \A k \in 1 .. Len(tasks') : tasks'[k] = tasks[k + 1]
        /\ OthersKept(tasks[1].owner)
        /\ p # tasks[1].owner
    BY <1>t, <1>4, Popped DEF TakesOut
  <2>2. PICK k \in 1 .. Len(tasks) : tasks[k].owner = p
    BY <2>1 DEF Waited, OthersKept, Kept
  <2>3. k - 1 \in 1 .. Len(tasks') /\ tasks'[k - 1] = tasks[k]
    BY <1>t, <2>1, <2>2
  <2>. QED
    BY <2>2, <2>3
<1>. QED
  BY <1>1, <1>2, <1>3, <1>4 DEF TaskStep

-----------------------------------------------------------------------------
\* The types and the owners of tasks, together.
TypeInv == TypeOK /\ Owned /\ OneEach /\ Waited

LEMMA InitTypes == Init => TypeInv
<1>. SUFFICES ASSUME Init PROVE TypeInv
  OBVIOUS
<1>1. tasks = <<>> /\ Len(tasks) = 0 /\ tasks \in Seq(Task)
  BY DEF Init
<1>2. Nothing \in Effects
  BY Parameters DEF Nothing, Effects
<1>3. weekly \in BOOLEAN
  BY DEF Init
<1>4. /\ state \in [Items -> {"none", "listed", "trashed", "gone"}]
      /\ content \in [Items -> 0 .. MaxChanges]
      /\ nameless \subseteq Files
      /\ index \in [Items -> 0 .. MaxChanges]
      /\ batch \in [Consumers -> SUBSET Message]
      /\ current \in [Consumers -> Message \cup {NoMessage}]
      /\ step \in [Consumers -> {"idle", "found", "clash", "removed", "ack", "drop"} \cup Waiting]
      /\ \A c \in Consumers : step[c] # "idle" => current[c] \in batch[c]
  BY Parameters DEF Init
<1>5. /\ changes \in 0 .. MaxChanges /\ crawls \in 0 .. MaxCrawls /\ faults \in 0 .. MaxFaults
      /\ queue \subseteq Message /\ visible \subseteq queue
      /\ crawl \in {"off", "fetch", "clear", "clearing", "page", "fill", "filling"}
      /\ at \in 1 .. 2 /\ left \subseteq Items /\ fetched \in Effects
      /\ sure \subseteq Items /\ calm \subseteq Items
  BY <1>2, Parameters DEF Init
<1>6. TypeOK
  BY <1>1, <1>3, <1>4, <1>5 DEF TypeOK
<1>. QED
  <2>1. \A o \in Waiters : ~Awaits(o)
    BY DEF Init, Waiters, Awaits, Waiting
  <2>. QED
    BY <1>1, <1>6, <2>1 DEF TypeInv, Owned, OneEach, Waited

LEMMA NextTypes == TypeInv /\ [Next]_vars => TypeInv'
<1>. SUFFICES ASSUME TypeInv, [Next]_vars PROVE TypeInv'
  OBVIOUS
<1>. USE DEF TypeInv
<1>1. CASE UNCHANGED vars
  <2>1. TypeOK'
    BY <1>1 DEF vars, TypeOK
  <2>2. Owned' /\ Waited'
    <3>1. \A o \in Waiters : (Awaits(o) <=> Awaits(o)') /\ Wants(o)' = Wants(o)
      BY <1>1 DEF vars, Awaits, Wants, Awaited, CrawlTask, Kind
    <3>2. tasks' = tasks
      BY <1>1 DEF vars
    <3>. QED
      BY <3>1, <3>2 DEF Owned, Waited
  <2>3. OneEach'
    BY <1>1 DEF vars, OneEach
  <2>. QED
    BY <2>1, <2>2, <2>3
<1>2. CASE Next
  <2>1. TypeOK'
    <3>1. ASSUME NEW m \in queue, Reappears(m) PROVE TypeOK'
      BY <3>1, Parameters DEF Reappears, Fault, TypeOK, services, consumer, meili, crawler, history
    <3>. QED
      BY <1>2, <3>1, ChangeTypes, ConsumeTypes, CrawlTypes, ExecuteTypes DEF Next
  <2>. QED
    BY <1>2, <2>1, TaskSteps, OwnedKept, WaitedKept
<1>. QED
  BY <1>1, <1>2

\* Every variable has its type: a consumer that is processing a message holds
\* it, what is visible has not been deleted, the contents that tasks and the
\* reindex carry are contents that were made (_process_message, reindex).
THEOREM SearchTypeCorrect == Spec => []TypeOK
<1>1. Spec => []TypeInv
  BY InitTypes, NextTypes, PTL DEF Spec
<1>. QED
  BY <1>1, PTL DEF TypeInv

\* Nobody waits in vain, and nobody is answered for what another asked: whatever
\* has timed out, failed or crashed, a consumer or reindex that waits for a task
\* has exactly one in the queue of MeiliSearch, and it does what was asked
\* (_wait_and_check, reindex).  What Converges needs at every wait.
NobodyWaitsInVain == \A o \in Waiters : Awaits(o) =>
  \E k \in 1 .. Len(tasks) :
    /\ tasks[k].owner = o /\ tasks[k].does = Wants(o)
    /\ \A j \in 1 .. Len(tasks) : tasks[j].owner = o => j = k

THEOREM NobodyWaitsInVainCorrect == Spec => []NobodyWaitsInVain
<1>1. TypeInv => NobodyWaitsInVain
  <2>. SUFFICES ASSUME TypeInv, NEW o \in Waiters, Awaits(o)
                PROVE  \E k \in 1 .. Len(tasks) :
                         /\ tasks[k].owner = o /\ tasks[k].does = Wants(o)
                         /\ \A j \in 1 .. Len(tasks) : tasks[j].owner = o => j = k
    BY DEF NobodyWaitsInVain
  <2>1. PICK k \in 1 .. Len(tasks) : tasks[k].owner = o
    BY DEF TypeInv, Waited
  <2>2. tasks[k].does = Wants(o)
    BY <2>1 DEF TypeInv, Owned
  <2>3. \A j \in 1 .. Len(tasks) : tasks[j].owner = o => j = k
    BY <2>1, Parameters DEF TypeInv, OneEach, Waiters
  <2>. QED
    BY <2>1, <2>2, <2>3
<1>2. Spec => []TypeInv
  BY InitTypes, NextTypes, PTL DEF Spec
<1>. QED
  BY <1>1, <1>2, PTL

-----------------------------------------------------------------------------
LEMMA StepFitsKept == TypeInv /\ StepFits /\ Next => StepFits'
<1>. SUFFICES ASSUME TypeInv, StepFits, Next PROVE StepFits'
  OBVIOUS
<1>. USE DEF TypeInv
<1>1. CASE UNCHANGED consumer
  BY <1>1 DEF consumer, StepFits
<1>2. ASSUME NEW c \in Consumers, Consume(c) \/ Mishap(c)
      PROVE  StepFits'
  <2>1. ASSUME NEW m \in batch[c], IndexItem(c, m) \/ LookUp(c, m) \/ SkipEvent(c, m)
                                     \/ RejectEvent(c, m)
        PROVE  StepFits'
    BY <2>1 DEF IndexItem, LookUp, SkipEvent, RejectEvent, Begin, StepFits, TypeOK
  <2>2. CASE RemoveItem(c) \/ RemoveEntry(c) \/ AddAgain(c)
    BY <2>2 DEF RemoveItem, RemoveEntry, AddAgain, Proceed, StepFits, TypeOK
  <2>3. CASE Acknowledge(c) \/ TimesOut(c) \/ CallFails(c) \/ Crash(c)
    BY <2>3 DEF Acknowledge, TimesOut, CallFails, Crash, Finish, StepFits, TypeOK
  <2>4. ASSUME NEW B \in SUBSET visible, Receive(c, B) PROVE StepFits'
    BY <2>4 DEF Receive, StepFits
  <2>5. ASSUME NEW m \in batch[c], NoAnswer(c, m) \/ Misread(c, m) \/ UnreadableFirst(c, m)
        PROVE  StepFits'
    BY <2>5 DEF NoAnswer, Misread, UnreadableFirst, Begin, StepFits, TypeOK
  <2>6. CASE Unreadable(c)
    BY <2>6 DEF Unreadable, Proceed, StepFits, TypeOK
  <2>. QED
    BY <1>2, <2>1, <2>2, <2>3, <2>4, <2>5, <2>6 DEF Consume, Mishap, GivesUp
<1>3. CASE Succeeds \/ Fails
  <2>1. tasks # <<>> /\ Head(tasks) = tasks[1] /\ 1 \in 1 .. Len(tasks)
    <3>1. tasks # <<>> /\ tasks' = Tail(tasks)
      BY <1>3 DEF Succeeds, Fails
    <3>. QED
      BY <3>1, Popped DEF TypeOK
  <2>2. \A c \in Consumers : Head(tasks).owner = c => step[c] \in Waiting
    BY <2>1, Parameters DEF Owned, Waiters, Awaits
  <2>3. CASE Succeeds
    BY <2>2, <2>3 DEF Succeeds, Proceed, StepFits, TypeOK, Waiting, consumer
  <2>4. CASE Fails
    BY <2>2, <2>4 DEF Fails, Proceed, Finish, StepFits, TypeOK, Waiting, consumer
  <2>. QED
    BY <1>3, <2>3, <2>4
<1>4. \/ UNCHANGED consumer
      \/ \E c \in Consumers : Consume(c) \/ Mishap(c)
      \/ Succeeds \/ Fails
  BY DEF Next, Change, CreateItem, UpdateItem, MoveFile, TrashFile, RestoreFile, DeleteItem, Announce,
         Reappears, BeginCrawl, Crawl, FetchPage, ScriptPage, FetchedKind, ClearIndex, ScriptKindDone,
         FillIndex, NothingToFill, FetchFails, CrawlerTimesOut, CrawlerStops
<1>. QED
  BY <1>1, <1>2, <1>3, <1>4

-----------------------------------------------------------------------------
LEMMA EndFits ==
  ASSUME EndCrawl
  PROVE  CrawlFits'
  BY Parameters DEF EndCrawl, CrawlFits, Nothing, Filling, Kind

LEMMA ClearedFits ==
  ASSUME TypeOK, CrawlFits, crawl = "clearing", Cleared
  PROVE  CrawlFits'
  BY Parameters DEF TypeOK, CrawlFits, Cleared, NextIndex, Nothing, Filling, Kind, Items

LEMMA TurnFits ==
  ASSUME TypeOK, CrawlFits, weekly, crawl \in {"fill", "filling"}, TurnsPage
  PROVE  CrawlFits'
  BY Parameters DEF TypeOK, CrawlFits, TurnsPage, Nothing, Filling, Kind, Items

LEMMA FilledFits ==
  ASSUME TypeOK, CrawlFits, crawl \in {"fill", "filling"}, Filled
  PROVE  CrawlFits'
<1>1. CASE weekly
  BY <1>1, TurnFits DEF Filled
<1>2. CASE ~weekly /\ at = 1
  BY <1>2 DEF Filled, CrawlFits, TypeOK, Filling
<1>3. CASE ~weekly /\ at # 1
  BY <1>3, EndFits DEF Filled
<1>. QED
  BY <1>1, <1>2, <1>3

LEMMA PageFits ==
  ASSUME TypeOK, CrawlFits, crawl \in {"fetch", "page"}, NEW P \in SUBSET left, Page(P)
  PROVE  /\ left' = left \ P
         /\ P \subseteq Kind
         /\ \A i \in Items : i \notin P => fetched'[i] = fetched[i]
  BY DEF Page, CrawlFits, Nothing, TypeOK, Effects

LEMMA CrawlFitsKept == TypeInv /\ CrawlFits /\ Next => CrawlFits'
<1>. SUFFICES ASSUME TypeInv, CrawlFits, Next PROVE CrawlFits'
  OBVIOUS
<1>. USE DEF TypeInv
<1>. USE Parameters
<1>1. CASE UNCHANGED crawler /\ calm' \subseteq calm
  BY <1>1 DEF crawler, CrawlFits, Filling, Kind
<1>2. ASSUME NEW script \in BOOLEAN, BeginCrawl(script) PROVE CrawlFits'
  BY <1>2 DEF BeginCrawl, CrawlFits, Filling, Nothing
<1>3. ASSUME NEW P \in SUBSET left, FetchPage(P) PROVE CrawlFits'
  <2>1. crawl = "fetch" /\ crawl' = "fetch" /\ weekly' = weekly /\ at' = at /\ ~weekly
    BY <1>3 DEF FetchPage, CrawlFits
  <2>2. Page(P)
    BY <1>3 DEF FetchPage
  <2>. QED
    BY <2>1, <2>2, PageFits DEF CrawlFits, TypeOK
<1>4. ASSUME NEW P \in SUBSET left, ScriptPage(P) PROVE CrawlFits'
  <2>1. crawl = "page" /\ crawl' = "fill" /\ weekly' = weekly /\ at' = at /\ weekly
    BY <1>4 DEF ScriptPage, CrawlFits
  <2>2. Page(P)
    BY <1>4 DEF ScriptPage
  <2>3. /\ left' = left \ P /\ P \subseteq Kind
        /\ \A i \in Items : i \notin P => fetched'[i] = Keep
    BY <2>1, <2>2, PageFits DEF CrawlFits, Nothing
  <2>. QED
    BY <2>1, <2>3 DEF CrawlFits, TypeOK, Filling, Kind
<1>5. CASE FetchedKind
  BY <1>5 DEF FetchedKind, NextIndex, CrawlFits, TypeOK, Filling, Kind
<1>6. CASE ClearIndex \/ FillIndex
  BY <1>6 DEF ClearIndex, FillIndex, CrawlFits, TypeOK, Filling, Kind, history
<1>7. CASE ScriptKindDone
  <2>1. CASE at = 1
    BY <1>7, <2>1 DEF ScriptKindDone, CrawlFits, Filling, Kind, Nothing
  <2>2. CASE at # 1
    BY <1>7, <2>2, EndFits DEF ScriptKindDone
  <2>. QED
    BY <2>1, <2>2
<1>8. CASE FetchFails
  BY <1>8 DEF FetchFails, CrawlFits, TypeOK, Filling, Kind
<1>9. CASE CrawlerTimesOut
  BY <1>9, EndFits, ClearedFits, TurnFits DEF CrawlerTimesOut, Unheeded, Aborts
<1>10. CASE CrawlerStops
  BY <1>10, EndFits DEF CrawlerStops
<1>11. CASE Succeeds \/ Fails
  <2>1. tasks # <<>> /\ Head(tasks) = tasks[1] /\ 1 \in 1 .. Len(tasks) /\ tasks[1] \in Task
    <3>1. tasks # <<>> /\ tasks' = Tail(tasks)
      BY <1>11 DEF Succeeds, Fails
    <3>. QED
      BY <3>1, Popped DEF TypeOK
  <2>2. Head(tasks).owner = Crawler => crawl \in {"clearing", "filling"}
    BY <2>1 DEF Owned, Waiters, Awaits
  <2>3. Head(tasks).owner \in Consumers \cup {Crawler, Nobody}
    BY <2>1 DEF Task
  <2>4. CASE Head(tasks).owner # Crawler
    <3>1. UNCHANGED <<crawler, history>>
      BY <1>11, <2>3, <2>4 DEF Succeeds, Fails
    <3>. QED
      BY <3>1, <1>1 DEF history
  <2>5. CASE Head(tasks).owner = Crawler
    BY <1>11, <2>2, <2>5, EndFits, ClearedFits, TurnFits, FilledFits DEF Succeeds, Fails, Unheeded, Aborts
  <2>. QED
    BY <2>4, <2>5
<1>12. CASE Change \/ (\E m \in queue : Reappears(m))
             \/ \E c \in Consumers : Consume(c) \/ Mishap(c)
  <2>1. UNCHANGED crawler /\ calm' \subseteq calm
    BY <1>12 DEF Change, CreateItem, UpdateItem, MoveFile, TrashFile, RestoreFile, DeleteItem, Announce,
         Reappears, Consume, Mishap, GivesUp, TimesOut, CallFails, NoAnswer, Misread, Unreadable,
         UnreadableFirst, GivenUp, Crash, Receive, IndexItem, LookUp, SkipEvent, RejectEvent,
         RemoveItem, RemoveEntry, AddAgain, Acknowledge, history
  <2>. QED
    BY <2>1, <1>1
<1>13. CASE NothingToFill
  BY <1>13, FilledFits DEF NothingToFill
<1>. QED
  BY <1>2, <1>3, <1>4, <1>5, <1>6, <1>7, <1>8, <1>9, <1>10, <1>11, <1>12, <1>13 DEF Next, Crawl

-----------------------------------------------------------------------------
\* Each task is an earlier one, or what somebody has begun to wait for.
Earlier(k) == \E j \in 1 .. Len(tasks) :
  /\ tasks'[k].does = tasks[j].does
  /\ tasks'[k].owner = Crawler <=> tasks[j].owner = Crawler /\ tasks'[k].owner # Nobody
  /\ tasks[j].owner = Crawler /\ tasks'[k].owner # Crawler => calm' = {}

New(k) == \E o \in Waiters : /\ tasks'[k].owner = o
                             /\ tasks'[k].does = Wants(o)'
                             /\ Awaits(o)'

LEMMA TasksFrom ==
  ASSUME TypeOK, TaskStep, NEW k \in 1 .. Len(tasks')
  PROVE  Earlier(k) \/ New(k)
<1>. USE Parameters
<1>t. tasks \in Seq(Task) /\ Len(tasks) \in Nat /\ Nobody \notin Waiters /\ Nobody # Crawler
  BY DEF TypeOK, Waiters
<1>1. CASE tasks' = tasks
  BY <1>1, <1>t DEF Earlier
<1>2. CASE Submits
  <2>1. PICK o \in Waiters, does \in Effects :
          Submit(does, o) /\ ~Awaits(o) /\ Awaits(o)' /\ does = Wants(o)' /\ OthersKept(o)
    BY <1>2 DEF Submits
  <2>2. /\ Len(tasks') = Len(tasks) + 1
        /\ \A j \in 1 .. Len(tasks) : tasks'[j] = tasks[j]
        /\ tasks'[Len(tasks) + 1] = [does |-> does, owner |-> o]
    BY <1>t, <2>1, Submitted DEF Owners, Waiters
  <2>3. CASE k = Len(tasks) + 1
    BY <2>1, <2>2, <2>3 DEF New
  <2>4. CASE k \in 1 .. Len(tasks)
    BY <2>2, <2>4, <1>t DEF Earlier
  <2>. QED
    BY <1>t, <2>2, <2>3, <2>4
<1>3. CASE Disowns
  <2>1. PICK o \in Waiters : tasks' = Disowned(o) /\ (o = Crawler => calm' = {})
    BY <1>3 DEF Disowns
  <2>2. /\ Len(tasks') = Len(tasks)
        /\ \A j \in 1 .. Len(tasks) :
              /\ tasks'[j].does = tasks[j].does
              /\ tasks'[j].owner = IF tasks[j].owner = o THEN Nobody ELSE tasks[j].owner
    BY <1>t, <2>1, Left
  <2>. QED
    BY <1>t, <2>1, <2>2 DEF Earlier
<1>4. CASE TakesOut
  <2>1. /\ Len(tasks') = Len(tasks) - 1
        /\ tasks'[k] = tasks[k + 1]
    BY <1>t, <1>4, Popped DEF TakesOut
  <2>2. k + 1 \in 1 .. Len(tasks)
    BY <1>t, <2>1
  <2>. QED
    BY <1>t, <2>1, <2>2 DEF Earlier
<1>. QED
  BY <1>1, <1>2, <1>3, <1>4 DEF TaskStep

\* Messages come from changes only.
LEMMA NoNewMessages ==
  ASSUME TypeOK, Next, ~Change
  PROVE  /\ UNCHANGED services
         /\ \A m \in Message : OnItsWay(m)' => OnItsWay(m)
<1>1. CASE \E c \in Consumers : Consume(c) \/ Mishap(c)
  <2>1. PICK c \in Consumers : Consume(c) \/ Mishap(c)
    BY <1>1
  <2>. DEFINE fewer == /\ UNCHANGED services
                       /\ queue' \subseteq queue
                       /\ \A d \in Consumers : batch'[d] \subseteq batch[d] \cup queue
  <2>2. ASSUME NEW B \in SUBSET visible, Receive(c, B) PROVE fewer
    BY <2>2 DEF Receive, TypeOK
  <2>3. ASSUME NEW m \in batch[c], IndexItem(c, m) \/ LookUp(c, m) \/ SkipEvent(c, m)
                                     \/ RejectEvent(c, m) \/ Misread(c, m) \/ UnreadableFirst(c, m)
        PROVE  fewer
    BY <2>3 DEF IndexItem, LookUp, SkipEvent, RejectEvent, Misread, UnreadableFirst, Begin, messages
  <2>4. ASSUME RemoveItem(c) \/ RemoveEntry(c) \/ AddAgain(c) \/ Unreadable(c) PROVE fewer
    BY <2>4 DEF RemoveItem, RemoveEntry, AddAgain, Unreadable, Proceed, messages
  <2>5. ASSUME Acknowledge(c) \/ TimesOut(c) \/ CallFails(c) \/ Crash(c) PROVE fewer
    BY <2>5 DEF Acknowledge, TimesOut, CallFails, Crash, Finish, messages, TypeOK
  <2>6. ASSUME NEW m \in batch[c], NoAnswer(c, m) PROVE fewer
    BY <2>6 DEF NoAnswer, messages, TypeOK
  <2>7. fewer
    BY <2>1, <2>2, <2>3, <2>4, <2>5, <2>6 DEF Consume, Mishap, GivesUp
  <2>. QED
    BY <2>7 DEF OnItsWay
<1>2. CASE Succeeds \/ Fails
  <2>1. /\ UNCHANGED services
        /\ queue' = queue
    BY <1>2 DEF Succeeds, Fails, messages
  <2>2. \/ batch' = batch
        \/ \E c \in Consumers : Finish(c)
    BY <1>2 DEF Succeeds, Fails, Proceed, consumer
  <2>3. \A d \in Consumers : batch'[d] \subseteq batch[d]
    <3>1. ASSUME NEW c \in Consumers, Finish(c)
          PROVE  \A d \in Consumers : batch'[d] \subseteq batch[d]
      BY <3>1 DEF Finish, TypeOK
    <3>. QED
      BY <2>2, <3>1
  <2>. QED
    BY <2>1, <2>3 DEF OnItsWay
<1>3. CASE \/ \E m \in queue : Reappears(m)
           \/ \E script \in BOOLEAN : BeginCrawl(script)
           \/ Crawl \/ FetchFails \/ CrawlerTimesOut \/ CrawlerStops
  <2>1. UNCHANGED <<services, queue, batch>>
    BY <1>3 DEF Reappears, BeginCrawl, Crawl, FetchPage, ScriptPage, FetchedKind, ClearIndex, ScriptKindDone,
         FillIndex, NothingToFill, FetchFails, CrawlerTimesOut, CrawlerStops, messages, consumer
  <2>. QED
    BY <2>1 DEF OnItsWay
<1>. QED
  BY <1>1, <1>2, <1>3 DEF Next

\* What the reindex has fetched.
LEMMA FetchedFrom ==
  ASSUME TypeOK, Next
  PROVE  fetched' = fetched \/ fetched' = Nothing \/ \E P \in SUBSET left : Page(P)
<1>1. CASE Succeeds \/ Fails
  BY <1>1 DEF Succeeds, Fails, Cleared, Filled, Unheeded, Aborts, TurnsPage, EndCrawl, crawler
<1>2. CASE \/ \E script \in BOOLEAN : BeginCrawl(script)
           \/ Crawl \/ FetchFails \/ CrawlerTimesOut \/ CrawlerStops
  BY <1>2 DEF BeginCrawl, Crawl, FetchPage, ScriptPage, FetchedKind, ClearIndex, ScriptKindDone,
       FillIndex, NothingToFill, FetchFails, CrawlerTimesOut, CrawlerStops, Cleared, Filled, Unheeded, Aborts, TurnsPage, EndCrawl
<1>3. CASE \/ Change \/ (\E m \in queue : Reappears(m))
           \/ \E c \in Consumers : Consume(c) \/ Mishap(c)
  BY <1>3 DEF Change, CreateItem, UpdateItem, MoveFile, TrashFile, RestoreFile, DeleteItem, Announce,
         Reappears, Consume, Mishap, GivesUp, TimesOut, CallFails, NoAnswer, Misread, Unreadable,
         UnreadableFirst, GivenUp, Crash, Receive, IndexItem, LookUp, SkipEvent, RejectEvent,
         RemoveItem, RemoveEntry, AddAgain, Acknowledge, crawler
<1>. QED
  BY <1>1, <1>2, <1>3 DEF Next

\* Without a change or a new reindex, no item becomes sure or calm.
LEMMA NoMorePeace ==
  ASSUME Next, ~Change, \A script \in BOOLEAN : ~BeginCrawl(script)
  PROVE  /\ sure' \subseteq sure \cup calm
         /\ calm' \subseteq calm
         /\ calm' \ sure' \subseteq calm \ sure
<1>1. CASE Succeeds \/ Fails
  BY <1>1 DEF Succeeds, Fails, Cleared, Filled, Unheeded, Aborts, TurnsPage, EndCrawl, history
<1>2. CASE Crawl \/ FetchFails \/ CrawlerTimesOut \/ CrawlerStops
  BY <1>2 DEF Crawl, FetchPage, ScriptPage, FetchedKind, ClearIndex, ScriptKindDone,
       FillIndex, NothingToFill, FetchFails, CrawlerTimesOut, CrawlerStops, Filled, TurnsPage,
       Unheeded, Aborts, EndCrawl, history
<1>3. CASE \/ (\E m \in queue : Reappears(m))
           \/ \E c \in Consumers : Consume(c) \/ Mishap(c)
  BY <1>3 DEF Reappears, Consume, Mishap, GivesUp, TimesOut, CallFails, NoAnswer, Misread, Unreadable,
         UnreadableFirst, GivenUp, Crash, Receive, IndexItem, LookUp, SkipEvent, RejectEvent,
         RemoveItem, RemoveEntry, AddAgain, Acknowledge, history
<1>. QED
  BY <1>1, <1>2, <1>3 DEF Next

-----------------------------------------------------------------------------
\* The messages of an announced change.
LEMMA Announced ==
  ASSUME TypeOK, NEW i \in Items, NEW act \in {"index", "delete", "skip"}, Announce(i, act),
         queue' \subseteq Message
  PROVE  \E said \in {act, "void"} :
         /\ UNCHANGED <<batch, current, step, tasks, index, fetched>>
         /\ calm' = {}
         /\ sure' \subseteq sure \cup {i}
         /\ queue' = queue \/ \E m \in Message :
              /\ queue' = queue \cup {m}
              /\ m.item = i /\ m.act = said
              /\ m.ver = IF said = "index" THEN content'[i] ELSE 0
         /\ i \in sure' => /\ ~InFlight(i)
                           /\ crawl = "off"
                           /\ said = IF state'[i] = "listed" THEN "index" ELSE "delete"
                           /\ \E m \in queue' : Told(m, i)
<1>. DEFINE said == IF act = "index" /\ i \in nameless' THEN "void" ELSE act
<1>. DEFINE m == [n |-> changes + 1, item |-> i, act |-> said,
                  ver |-> IF said = "index" THEN content'[i] ELSE 0]
<1>. DEFINE peaceful == /\ ~InFlight(i)
                        /\ crawl = "off"
                        /\ said = IF state'[i] = "listed" THEN "index" ELSE "delete"
<1>1. \/ /\ queue' = queue \cup {m}
         /\ sure' = IF peaceful THEN sure \cup {i} ELSE sure \ {i}
      \/ /\ queue' = queue
         /\ sure' = sure \ {i}
  BY DEF Announce, messages
<1>2. m.item = i /\ m.act = said /\ m.ver = IF said = "index" THEN content'[i] ELSE 0
  OBVIOUS
<1>3. UNCHANGED <<batch, current, step, tasks, index, fetched>> /\ calm' = {}
  BY DEF Announce, consumer, meili, crawler
<1>4. queue' = queue \cup {m} => m \in Message
  OBVIOUS
<1>s. said \in {act, "void"}
  OBVIOUS
<1>. HIDE DEF m, said
<1>5. sure' \subseteq sure \cup {i}
  BY <1>1
<1>6. peaceful => Told(m, i)
  BY <1>2 DEF Told
<1>7. i \in sure' => peaceful /\ \E n \in queue' : Told(n, i)
  BY <1>1, <1>6
<1>. QED
  BY <1>1, <1>2, <1>3, <1>4, <1>5, <1>7, <1>s

LEMMA ChangeAnnounces ==
  ASSUME TypeOK, Change
  PROVE  \E i \in Items, act \in {"index", "delete", "skip"} :
           /\ Announce(i, act)
           /\ \A j \in Items : j # i => state'[j] = state[j] /\ content'[j] = content[j]
<1>1. PICK i \in Items : \/ CreateItem(i) \/ UpdateItem(i) \/ MoveFile(i)
                         \/ TrashFile(i) \/ RestoreFile(i) \/ DeleteItem(i)
  BY DEF Change
<1>2. \E act \in {"index", "delete", "skip"} : Announce(i, act)
  BY <1>1 DEF CreateItem, UpdateItem, MoveFile, TrashFile, RestoreFile, DeleteItem
<1>3. /\ \/ content' = content
         \/ content' = [content EXCEPT ![i] = changes + 1]
      /\ \/ state' = state
         \/ \E s \in {"listed", "trashed", "gone"} : state' = [state EXCEPT ![i] = s]
  BY <1>1 DEF CreateItem, UpdateItem, MoveFile, TrashFile, RestoreFile, DeleteItem
<1>4. \A j \in Items : j # i => state'[j] = state[j] /\ content'[j] = content[j]
  BY <1>3 DEF TypeOK
<1>. QED
  BY <1>2, <1>4

-----------------------------------------------------------------------------
LEMMA AgreesKept ==
  ASSUME NEW i \in Items, Agrees(i), state'[i] = state[i], content'[i] = content[i],
         \A m \in Message : OnItsWay(m)' /\ Told(m, i) => OnItsWay(m)
  PROVE  Agrees(i)' /\ Listed(i)' = Listed(i)
  BY DEF Agrees, Listed, Told

\* What is begun for an item does what its messages say, or removes it for a while.
LEMMA NewHarmless ==
  ASSUME TypeOK', StepFits', NEW i \in Items, Agrees(i)', fetched'[i] \in {Keep, Listed(i)'},
         NEW k, New(k)
  PROVE  tasks'[k].does[i] \in {Keep, 0, Listed(i)'}
<1>1. PICK o \in Waiters : tasks'[k].does = Wants(o)' /\ Awaits(o)'
  BY DEF New
<1>2. CASE o = Crawler
  BY <1>1, <1>2 DEF Wants, CrawlTask
<1>3. CASE o # Crawler
  <2>1. o \in Consumers /\ step'[o] \in Waiting /\ tasks'[k].does = Awaited(o)'
    BY <1>1, <1>3 DEF Waiters, Wants, Awaits
  <2>2. current'[o] \in Message /\ OnItsWay(current[o])'
    BY <2>1 DEF TypeOK, Waiting, OnItsWay
  <2>3. step'[o] \in {"adding", "readding"} /\ current'[o].item = i => current'[o].ver = Listed(i)'
    BY <2>1, <2>2 DEF StepFits, Agrees, Told
  <2>. QED
    BY <2>1, <2>3 DEF Awaited, Only
<1>. QED
  BY <1>2, <1>3

Peace == TypeInv /\ StepFits /\ CrawlFits /\ AllAgree /\ CalmIsQuiet

\* A change: what was announced in peace is alone on its way.
LEMMA ChangeAgrees ==
  ASSUME Peace, TypeOK', Change
  PROVE  AllAgree' /\ CalmIsQuiet'
<1>. USE DEF Peace, TypeInv
<1>1. PICK i \in Items, act \in {"index", "delete", "skip"} :
           /\ Announce(i, act)
           /\ \A j \in Items : j # i => state'[j] = state[j] /\ content'[j] = content[j]
  BY ChangeAnnounces
<1>2. queue' \subseteq Message
  BY DEF TypeOK
<1>3. PICK said \in {act, "void"} :
      /\ UNCHANGED <<batch, current, step, tasks, index, fetched>>
      /\ calm' = {}
      /\ sure' \subseteq sure \cup {i}
      /\ queue' = queue \/ \E m \in Message :
           /\ queue' = queue \cup {m}
           /\ m.item = i /\ m.act = said
           /\ m.ver = IF said = "index" THEN content'[i] ELSE 0
      /\ i \in sure' => /\ ~InFlight(i)
                        /\ crawl = "off"
                        /\ said = IF state'[i] = "listed" THEN "index" ELSE "delete"
  BY <1>1, <1>2, Announced
<1>4. ASSUME NEW j \in sure', j # i PROVE (Agrees(j) /\ Harmless(j))'
  <2>1. j \in Items /\ Agrees(j) /\ Harmless(j)
    BY <1>3, <1>4 DEF AllAgree, TypeOK
  <2>2. \A m \in Message : OnItsWay(m)' /\ Told(m, j) => OnItsWay(m)
    BY <1>3, <1>4 DEF OnItsWay, Told
  <2>3. Agrees(j)' /\ Listed(j)' = Listed(j)
    BY <1>1, <1>4, <2>1, <2>2, AgreesKept
  <2>. QED
    BY <1>3, <2>1, <2>3 DEF Harmless
<1>5. ASSUME i \in sure' PROVE (Agrees(i) /\ Harmless(i))'
  <2>1. /\ ~InFlight(i) /\ crawl = "off"
        /\ said = IF state'[i] = "listed" THEN "index" ELSE "delete"
    BY <1>3, <1>5
  <2>2. \A m \in Message : Told(m, i) => ~OnItsWay(m)
    BY <2>1 DEF InFlight, OnItsWay
  <2>3. \A m \in Message : OnItsWay(m)' /\ Told(m, i) =>
          /\ queue' = queue \cup {m}
          /\ m.act = said
          /\ m.ver = IF said = "index" THEN content'[i] ELSE 0
          /\ \A n \in Message : OnItsWay(n)' /\ Told(n, i) => m = n
    BY <1>3, <2>2 DEF OnItsWay
  <2>4. Agrees(i)'
    BY <2>1, <2>3 DEF Agrees, Listed, Told
  <2>5. Harmless(i)'
    <3>1. fetched[i] = Keep
      BY <2>1 DEF CrawlFits, Nothing
    <3>2. \A k \in 1 .. Len(tasks) : tasks[k].does[i] = Keep
      BY <2>1 DEF InFlight
    <3>. QED
      BY <1>3, <3>1, <3>2 DEF Harmless
  <2>. QED
    BY <2>4, <2>5
<1>. QED
  BY <1>3, <1>4, <1>5 DEF AllAgree, CalmIsQuiet

LEMMA OtherAgrees ==
  ASSUME Peace, TypeOK', StepFits', Next, TaskStep, ~Change
  PROVE  AllAgree'
<1>. USE DEF Peace, TypeInv
<1>1. UNCHANGED services /\ \A m \in Message : OnItsWay(m)' => OnItsWay(m)
  BY NoNewMessages
<1>2. ASSUME NEW i \in sure' \cup calm' PROVE (Agrees(i) /\ Harmless(i))'
  <2>1. i \in Items
    BY DEF TypeOK
  <2>2. Agrees(i) /\ Harmless(i)
    <3>1. CASE \A script \in BOOLEAN : ~BeginCrawl(script)
      <4>1. i \in sure \cup calm
        BY <3>1, NoMorePeace
      <4>. QED
        BY <4>1 DEF AllAgree
    <3>2. ASSUME NEW script \in BOOLEAN, BeginCrawl(script) PROVE Agrees(i) /\ Harmless(i)
      <4>1. i \in sure \/ (~InFlight(i) /\ crawl = "off")
        BY <3>2 DEF BeginCrawl, history
      <4>2. CASE i \in sure
        BY <4>2 DEF AllAgree
      <4>3. CASE ~InFlight(i) /\ crawl = "off"
        BY <2>1, <4>3 DEF InFlight, Agrees, Harmless, OnItsWay, CrawlFits, Nothing
      <4>. QED
        BY <4>1, <4>2, <4>3
    <3>. QED
      BY <3>1, <3>2
  <2>3. Agrees(i)' /\ Listed(i)' = Listed(i)
    BY <1>1, <2>1, <2>2, AgreesKept DEF services
  <2>4. fetched'[i] \in {Keep, Listed(i)}
    <3>1. CASE fetched' = fetched \/ fetched' = Nothing
      BY <2>1, <2>2, <3>1 DEF Nothing, Harmless
    <3>2. ASSUME NEW P \in SUBSET left, Page(P) PROVE fetched'[i] \in {Keep, Listed(i)}
      BY <2>1, <2>2, <3>2 DEF Page, Harmless
    <3>. QED
      BY <3>1, <3>2, FetchedFrom
  <2>5. ASSUME NEW k \in 1 .. Len(tasks') PROVE tasks'[k].does[i] \in {Keep, 0, Listed(i)}
    <3>1. CASE Earlier(k)
      BY <2>2, <3>1 DEF Earlier, Harmless
    <3>2. CASE New(k)
      BY <2>1, <2>3, <2>4, <3>2, NewHarmless
    <3>. QED
      BY <2>5, <3>1, <3>2, TasksFrom
  <2>. QED
    BY <2>3, <2>4, <2>5 DEF Harmless
<1>. QED
  BY <1>2 DEF AllAgree

LEMMA OtherQuiet ==
  ASSUME Peace, TypeOK', StepFits', Next, TaskStep, ~Change
  PROVE  CalmIsQuiet'
<1>. USE DEF Peace, TypeInv
<1>1. \A m \in Message : OnItsWay(m)' => OnItsWay(m)
  BY NoNewMessages
<1>2. ASSUME NEW i \in calm' \ sure'
      PROVE  /\ \A m \in Message : OnItsWay(m) => ~Told(m, i)
             /\ \A k \in 1 .. Len(tasks) : tasks[k].owner # Crawler => tasks[k].does[i] = Keep
  <2>1. CASE \A script \in BOOLEAN : ~BeginCrawl(script)
    <3>1. i \in calm \ sure
      BY <2>1, NoMorePeace
    <3>. QED
      BY <3>1 DEF CalmIsQuiet
  <2>2. ASSUME NEW script \in BOOLEAN, BeginCrawl(script)
        PROVE  ~InFlight(i)
    BY <2>2 DEF BeginCrawl
  <2>. QED
    BY <2>1, <2>2 DEF InFlight, OnItsWay
<1>3. ASSUME NEW i \in calm' \ sure', NEW k \in 1 .. Len(tasks'), tasks'[k].owner # Crawler
      PROVE  tasks'[k].does[i] = Keep
  <2>0. i \in Items
    BY DEF TypeOK
  <2>1. CASE Earlier(k)
    BY <1>2, <1>3, <2>1 DEF Earlier
  <2>2. CASE New(k)
    <3>1. PICK o \in Waiters : tasks'[k].owner = o /\ tasks'[k].does = Wants(o)' /\ Awaits(o)'
      BY <2>2 DEF New
    <3>2. o \in Consumers /\ step'[o] \in Waiting /\ tasks'[k].does = Awaited(o)'
      BY <1>3, <3>1 DEF Waiters, Wants, Awaits
    <3>3. current'[o] \in Message /\ OnItsWay(current[o])'
      BY <3>2 DEF TypeOK, Waiting, OnItsWay
    <3>4. current'[o] \in Message /\ current'[o].act \in {"index", "delete"}
      BY <3>2, <3>3 DEF StepFits, Waiting
    <3>5. current'[o].item # i
      <4>1. ~Told(current[o], i)'
        BY <1>1, <1>2, <3>3 DEF Told
      <4>. QED
        BY <3>4, <4>1 DEF Told
    <3>. QED
      BY <2>0, <3>2, <3>5 DEF Awaited, Only
  <2>. QED
    BY <1>3, <2>1, <2>2, TasksFrom
<1>. QED
  BY <1>1, <1>2, <1>3 DEF CalmIsQuiet, Told

LEMMA InitPeace == Init => Peace
<1>. SUFFICES ASSUME Init PROVE Peace
  OBVIOUS
<1>1. TypeInv
  BY InitTypes
<1>2. Len(tasks) = 0 /\ queue = {} /\ calm = {} /\ fetched = Nothing /\ crawl = "off"
      /\ at = 1 /\ left = {}
  BY DEF Init
<1>3. weekly = FALSE
  BY DEF Init
<1>4. /\ \A c \in Consumers : step[c] = "idle"
      /\ \A c \in Consumers : batch[c] = {}
  BY DEF Init
<1>5. StepFits
  BY <1>4 DEF StepFits
<1>6. CrawlFits
  BY <1>2, <1>3 DEF CrawlFits, Filling, Nothing
<1>7. AllAgree
  <2>1. \A m : ~OnItsWay(m)
    BY <1>2, <1>4 DEF OnItsWay
  <2>2. sure \cup calm \subseteq Items
    BY <1>1 DEF TypeInv, TypeOK
  <2>. QED
    BY <1>2, <2>1, <2>2 DEF AllAgree, Agrees, Harmless, Nothing
<1>8. CalmIsQuiet
  BY <1>2 DEF CalmIsQuiet
<1>. QED
  BY <1>1, <1>5, <1>6, <1>7, <1>8 DEF Peace

LEMMA NextPeace == Peace /\ [Next]_vars => Peace'
<1>. SUFFICES ASSUME Peace, [Next]_vars PROVE Peace'
  OBVIOUS
<1>1. TypeInv'
  BY NextTypes DEF Peace
<1>2. CASE UNCHANGED vars
  <2>1. StepFits' /\ CrawlFits'
    BY <1>2 DEF Peace, vars, StepFits, CrawlFits, Filling, Kind
  <2>2. AllAgree' /\ CalmIsQuiet'
    BY <1>2 DEF Peace, vars, AllAgree, CalmIsQuiet, Agrees, Harmless, OnItsWay, Told, Listed
  <2>. QED
    BY <1>1, <2>1, <2>2 DEF Peace
<1>3. CASE Next
  <2>1. StepFits' /\ CrawlFits'
    BY <1>3, StepFitsKept, CrawlFitsKept DEF Peace
  <2>2. TaskStep
    BY <1>3, TaskSteps DEF Peace, TypeInv
  <2>3. AllAgree' /\ CalmIsQuiet'
    BY <1>1, <1>3, <2>1, <2>2, ChangeAgrees, OtherAgrees, OtherQuiet DEF TypeInv
  <2>. QED
    BY <1>1, <2>1, <2>3 DEF Peace
<1>. QED
  BY <1>2, <1>3

LEMMA IndexMoves ==
  ASSUME Peace, Next, NEW i \in sure
  PROVE  \/ index'[i] = index[i]
         \/ index'[i] \in {0, Listed(i)} /\ Listed(i)' = Listed(i)
<1>1. i \in Items
  BY DEF Peace, TypeInv, TypeOK
<1>2. CASE Succeeds
  <2>1. 1 \in 1 .. Len(tasks) /\ Head(tasks) = tasks[1]
    BY <1>2, Popped DEF Succeeds, Peace, TypeInv, TypeOK
  <2>2. tasks[1].does[i] \in {Keep, 0, Listed(i)}
    BY <2>1 DEF Peace, AllAgree, Harmless
  <2>3. index'[i] \in {index[i], 0, Listed(i)}
    BY <1>1, <1>2, <2>1, <2>2 DEF Succeeds, Applied
  <2>4. Listed(i)' = Listed(i)
    BY <1>2 DEF Succeeds, services, Listed
  <2>. QED
    BY <2>3, <2>4
<1>3. CASE ~Succeeds
  <2>1. index' = index
    BY <1>3 DEF Next, Change, CreateItem, UpdateItem, MoveFile, TrashFile, RestoreFile, DeleteItem,
       Announce, Reappears, Consume, Mishap, GivesUp, TimesOut, CallFails, NoAnswer, Misread, Unreadable,
         UnreadableFirst, GivenUp, Crash, Receive, IndexItem, LookUp, SkipEvent, RejectEvent,
       RemoveItem, RemoveEntry, AddAgain, Acknowledge, BeginCrawl, Crawl, FetchPage, ScriptPage,
       FetchedKind, ClearIndex, ScriptKindDone, FillIndex, NothingToFill, FetchFails,
       CrawlerTimesOut, CrawlerStops, Fails, meili
  <2>. QED
    BY <2>1
<1>. QED
  BY <1>2, <1>3

\* The entry of an item whose last change was announced in peace only moves to
\* what its service lists now, or out of the index: no repeated event, late task or
\* reindex brings back a content that has been replaced (index_document, reindex).
NoStaleContent == \A i \in sure \cap sure' : index'[i] \in {index[i], 0, Listed(i)'}

THEOREM NoStaleContentCorrect == Spec => [][NoStaleContent]_vars
<1>1. Peace /\ [Next]_vars => [NoStaleContent]_vars
  BY IndexMoves DEF NoStaleContent
<1>2. Spec => []Peace
  BY InitPeace, NextPeace, PTL DEF Spec
<1>. QED
  BY <1>1, <1>2, PTL DEF Spec

\* An item that was deleted or trashed in peace and is out of the index does not
\* come back into it, whichever consumer repeats an event, whichever task comes
\* late and whatever a reindex has fetched (delete_document, list_files): all
\* that waits for it can only remove it once more.
THEOREM GoneStaysGoneCorrect == Spec => GoneStaysGone
<1>. DEFINE A == \A i \in sure \cap sure' :
                   Listed(i) = 0 /\ Listed(i)' = 0 /\ index[i] = 0 => index'[i] = 0
<1>1. Peace /\ [Next]_vars => [A]_vars
  BY IndexMoves
<1>2. Spec => []Peace
  BY InitPeace, NextPeace, PTL DEF Spec
<1>3. Spec => [][A]_vars
  BY <1>1, <1>2, PTL DEF Spec
<1>. QED
  BY <1>3 DEF GoneStaysGone
=============================================================================
