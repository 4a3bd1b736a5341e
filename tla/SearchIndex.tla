------------------------------ MODULE SearchIndex ------------------------------
(***************************************************************************)
(* How documents and files reach the search index: document-service and    *)
(* file-service announce each change on a queue that delivers at least     *)
(* once and in any order; the consumers of search-service turn an event    *)
(* into tasks of MeiliSearch, which executes them later, one by one; and   *)
(* the two full reindexes, POST /reindex and the weekly script, clear the  *)
(* index and fill it from what the services list.                          *)
(*                                                                         *)
(* The content of an item is the number of the change that made it.        *)
(***************************************************************************)
EXTENDS Integers, Sequences, FiniteSets

CONSTANTS
  Docs,         \* documents
  Files,        \* files
  Consumers,    \* consumer threads, one per worker process
  Nobody,       \* not a consumer: nobody waits for the task any more
  Crawler,      \* not a consumer: the process that reindexes
  MaxMessages,  \* most messages of one receive
  MaxChanges,   \* bound on changes of documents and files
  MaxCrawls,    \* bound on reindexes
  MaxFaults     \* bound on lost events, failures, timeouts and crashes

Items == Docs \cup Files

ASSUME SearchOK ==
  /\ Docs \cap Files = {}
  /\ Nobody \notin Consumers /\ Crawler \notin Consumers /\ Nobody # Crawler
  /\ MaxMessages \in Nat \ {0}
  /\ MaxChanges \in Nat
  /\ MaxCrawls \in Nat
  /\ MaxFaults \in Nat

VARIABLES
  state,     \* state[i]: none, listed, trashed or gone, in its own service
  content,   \* content[i]: the change that made its content
  nameless,  \* files uploaded with an empty name and not renamed since
  changes,   \* changes made so far
  queue,     \* messages that have not been deleted
  visible,   \* those a receive may return
  batch,     \* batch[c]: messages that c has received and not finished
  current,   \* current[c]: the message that c is processing
  step,      \* step[c]: where _process_message of c is
  tasks,     \* tasks of MeiliSearch that wait, in their order
  index,     \* index[i]: content of i in its index, or 0
  crawl,     \* where the reindex is
  weekly,    \* the reindex is the weekly script
  at,        \* the index it is at: 1 documents, 2 files
  left,      \* items it has not fetched
  fetched,   \* fetched[i]: content to add, or Keep
  crawls,    \* reindexes so far
  faults,    \* faults so far
  sure,      \* history: items whose last change was announced in peace, and no
             \*   event of which was given up since
  calm       \* history: items that nothing has disturbed since the reindex began

services == <<state, content, nameless, changes>>
messages == <<queue, visible>>
consumer == <<batch, current, step>>
meili == <<tasks, index>>
crawler == <<crawl, weekly, at, left, fetched, crawls>>
history == <<sure, calm>>
vars == <<state, content, nameless, changes, queue, visible, batch, current, step,
          tasks, index, crawl, weekly, at, left, fetched, crawls, faults, sure, calm>>

\* The consumer indexes, deletes, skips, or rejects: a file needs a name.
Message == [n : 1 .. MaxChanges, item : Items,
            act : {"index", "delete", "skip", "void"}, ver : 0 .. MaxChanges]

\* What a task does to each item: remove it (0), write a content, or nothing.
Keep == -1

Effects == [Items -> {Keep} \cup 0 .. MaxChanges]

Task == [does : Effects, owner : Consumers \cup {Crawler, Nobody}]

NoMessage == [n |-> 0]

Waiting == {"adding", "removing", "readding", "deleting"}

TypeOK ==
  /\ state \in [Items -> {"none", "listed", "trashed", "gone"}]
  /\ content \in [Items -> 0 .. MaxChanges]
  /\ nameless \subseteq Files
  /\ changes \in 0 .. MaxChanges
  /\ queue \subseteq Message
  /\ visible \subseteq queue
  /\ batch \in [Consumers -> SUBSET Message]
  /\ current \in [Consumers -> Message \cup {NoMessage}]
  /\ step \in [Consumers -> {"idle", "found", "clash", "removed", "ack", "drop"}
                              \cup Waiting]
  /\ \A c \in Consumers : step[c] # "idle" => current[c] \in batch[c]
  /\ tasks \in Seq(Task)
  /\ index \in [Items -> 0 .. MaxChanges]
  /\ crawl \in {"off", "fetch", "clear", "clearing", "page", "fill", "filling"}
  /\ weekly \in BOOLEAN
  /\ at \in 1 .. 2
  /\ left \subseteq Items
  /\ fetched \in Effects
  /\ crawls \in 0 .. MaxCrawls
  /\ faults \in 0 .. MaxFaults
  /\ sure \subseteq Items
  /\ calm \subseteq Items

Nothing == [i \in Items |-> Keep]

Init ==
  /\ state = [i \in Items |-> "none"]
  /\ content = [i \in Items |-> 0]
  /\ nameless = {}
  /\ changes = 0
  /\ queue = {}
  /\ visible = {}
  /\ batch = [c \in Consumers |-> {}]
  /\ current = [c \in Consumers |-> NoMessage]
  /\ step = [c \in Consumers |-> "idle"]
  /\ tasks = <<>>
  /\ index = [i \in Items |-> 0]
  /\ crawl = "off"
  /\ weekly = FALSE
  /\ at = 1
  /\ left = {}
  /\ fetched = Nothing
  /\ crawls = 0
  /\ faults = 0
  /\ sure = Items
  /\ calm = {}

-----------------------------------------------------------------------------
Exists(i) == state[i] \in {"listed", "trashed"}

\* What the services list, and what the index should hold.
Listed(i) == IF state[i] = "listed" THEN content[i] ELSE 0

Told(m, i) == m.item = i /\ m.act \in {"index", "delete"}

InFlight(i) == \/ \E m \in queue : Told(m, i)
               \/ \E c \in Consumers : \E m \in batch[c] : Told(m, i)
               \/ \E k \in 1 .. Len(tasks) : tasks[k].does[i] # Keep

Fault == faults < MaxFaults /\ faults' = faults + 1

-----------------------------------------------------------------------------
\* A handler of the item's service: the write, then the event, built from what
\* is read back.  Publishing may fail, or the handler before it (the object of a
\* deleted file cannot be removed): the change stands and is not announced.
Announce(i, act) ==
  /\ changes < MaxChanges
  /\ changes' = changes + 1
  /\ LET said == IF act = "index" /\ i \in nameless' THEN "void" ELSE act
         m == [n |-> changes + 1, item |-> i, act |-> said,
               ver |-> IF said = "index" THEN content'[i] ELSE 0]
         peaceful == /\ ~InFlight(i)
                     /\ crawl = "off"
                     /\ said = IF state'[i] = "listed" THEN "index" ELSE "delete"
     IN \/ /\ queue' = queue \cup {m}
           /\ visible' = visible \cup {m}
           /\ sure' = IF peaceful THEN sure \cup {i} ELSE sure \ {i}
           /\ UNCHANGED faults
        \/ /\ Fault
           /\ sure' = sure \ {i}
           /\ UNCHANGED messages
  /\ calm' = {}
  /\ UNCHANGED <<consumer, meili, crawler>>

\* A file may be uploaded with an empty name; a document has a title.
CreateItem(i) ==
  /\ state[i] = "none"
  /\ state' = [state EXCEPT ![i] = "listed"]
  /\ content' = [content EXCEPT ![i] = changes + 1]
  /\ \/ UNCHANGED nameless
     \/ i \in Files /\ nameless' = nameless \cup {i}
  /\ Announce(i, "index")

\* A trashed file can be renamed as well, and is then announced like any other.
UpdateItem(i) ==
  /\ Exists(i)
  /\ content' = [content EXCEPT ![i] = changes + 1]
  /\ nameless' = nameless \ {i}
  /\ UNCHANGED state
  /\ Announce(i, "index")

\* The event of a move has no metadata: the consumer skips it.
MoveFile(i) ==
  /\ i \in Files
  /\ Exists(i)
  /\ content' = [content EXCEPT ![i] = changes + 1]
  /\ UNCHANGED <<state, nameless>>
  /\ Announce(i, "skip")

TrashFile(i) ==
  /\ i \in Files
  /\ Exists(i)
  /\ state' = [state EXCEPT ![i] = "trashed"]
  /\ UNCHANGED <<content, nameless>>
  /\ Announce(i, "delete")

RestoreFile(i) ==
  /\ i \in Files
  /\ Exists(i)
  /\ state' = [state EXCEPT ![i] = "listed"]
  /\ UNCHANGED <<content, nameless>>
  /\ Announce(i, "index")

DeleteItem(i) ==
  /\ Exists(i)
  /\ state' = [state EXCEPT ![i] = "gone"]
  /\ UNCHANGED <<content, nameless>>
  /\ Announce(i, "delete")

-----------------------------------------------------------------------------
\* The queue: what is received is hidden until the visibility timeout.
Receive(c, B) ==
  /\ step[c] = "idle"
  /\ batch[c] = {}
  /\ B # {}
  /\ Cardinality(B) <= MaxMessages
  /\ batch' = [batch EXCEPT ![c] = B]
  /\ visible' = visible \ B
  /\ UNCHANGED <<services, queue, current, step, meili, crawler, faults, history>>

Reappears(m) ==
  /\ m \in queue \ visible
  /\ visible' = visible \cup {m}
  /\ IF \E c \in Consumers : m \in batch[c] THEN Fault ELSE UNCHANGED faults
  /\ UNCHANGED <<services, queue, consumer, meili, crawler, history>>

-----------------------------------------------------------------------------
\* One message at a consumer, call by call.
Only(i, v) == [j \in Items |-> IF j = i THEN v ELSE Keep]

Submit(does, owner) == tasks' = Append(tasks, [does |-> does, owner |-> owner])

Disowned(owner) ==
  [k \in 1 .. Len(tasks) |->
     IF tasks[k].owner = owner THEN [tasks[k] EXCEPT !.owner = Nobody] ELSE tasks[k]]

Proceed(c, s) == /\ step' = [step EXCEPT ![c] = s]
                 /\ UNCHANGED <<batch, current>>

\* The message is done with, acknowledged or left to reappear.
Finish(c) == /\ step' = [step EXCEPT ![c] = "idle"]
             /\ batch' = [batch EXCEPT ![c] = @ \ {current[c]}]
             /\ current' = [current EXCEPT ![c] = NoMessage]

Begin(c, m) == /\ step[c] = "idle"
               /\ m \in batch[c]
               /\ current' = [current EXCEPT ![c] = m]
               /\ UNCHANGED batch

\* Mutant: the task is not waited for.
IndexItemAtOnce(c, m) ==
  /\ m.act = "index"
  /\ Begin(c, m)
  /\ Submit(Only(m.item, m.ver), Nobody)
  /\ step' = [step EXCEPT ![c] = "ack"]
  /\ UNCHANGED <<services, messages, index, crawler, faults, history>>

IndexItem(c, m) ==
  /\ m.act = "index"
  /\ Begin(c, m)
  /\ Submit(Only(m.item, m.ver), c)
  /\ step' = [step EXCEPT ![c] = "adding"]
  /\ UNCHANGED <<services, messages, index, crawler, faults, history>>

\* An item that is not in the index now needs no removal.
LookUp(c, m) ==
  /\ m.act = "delete"
  /\ Begin(c, m)
  /\ step' = [step EXCEPT ![c] = IF index[m.item] = 0 THEN "ack" ELSE "found"]
  /\ UNCHANGED <<services, messages, meili, crawler, faults, history>>

SkipEvent(c, m) ==
  /\ m.act = "skip"
  /\ Begin(c, m)
  /\ step' = [step EXCEPT ![c] = "ack"]
  /\ UNCHANGED <<services, messages, meili, crawler, faults, history>>

\* The indexer raises ValueError for what has no name: the event is dropped.
RejectEvent(c, m) ==
  /\ m.act = "void"
  /\ Begin(c, m)
  /\ step' = [step EXCEPT ![c] = "drop"]
  /\ UNCHANGED <<services, messages, meili, crawler, faults, history>>

RemoveItem(c) ==
  /\ step[c] = "found"
  /\ Submit(Only(current[c].item, 0), c)
  /\ Proceed(c, "deleting")
  /\ UNCHANGED <<services, messages, index, crawler, faults, history>>

\* The entry of a file that MeiliSearch could not replace is removed first.  If
\* the message is with another consumer as well, or that one has acknowledged
\* it, nobody need add the file again should this consumer stop half-way.
RemoveEntry(c) ==
  /\ step[c] = "clash"
  /\ Submit(Only(current[c].item, 0), c)
  /\ Proceed(c, "removing")
  /\ IF /\ current[c] \in queue
        /\ \A d \in Consumers \ {c} : current[c] \notin batch[d]
     THEN UNCHANGED history
     ELSE /\ sure' = sure \ {current[c].item}
          /\ calm' = calm \ {current[c].item}
  /\ UNCHANGED <<services, messages, index, crawler, faults>>

AddAgain(c) ==
  /\ step[c] = "removed"
  /\ Submit(Only(current[c].item, current[c].ver), c)
  /\ Proceed(c, "readding")
  /\ UNCHANGED <<services, messages, index, crawler, faults, history>>

\* Mutant: the message of a task that is not over in time is deleted.
TimesOutForGood(c) ==
  /\ step[c] \in Waiting
  /\ Fault
  /\ tasks' = Disowned(c)
  /\ queue' = queue \ {current[c]}
  /\ visible' = visible \ {current[c]}
  /\ Finish(c)
  /\ UNCHANGED <<services, index, crawler, history>>

\* wait_for_task gives up; the task does not.
TimesOut(c) ==
  /\ step[c] \in Waiting
  /\ Fault
  /\ tasks' = Disowned(c)
  /\ Finish(c)
  /\ UNCHANGED <<services, messages, index, crawler, history>>

\* A call to MeiliSearch or to the queue fails between two tasks, or the first
\* one of an event does: the event stays in the queue.  (That the call had its
\* effect and only the answer was lost is the task, then TimesOut.)
CallFails(c) ==
  /\ step[c] \in {"found", "clash", "removed", "ack"}
  /\ Fault
  /\ Finish(c)
  /\ UNCHANGED <<services, messages, meili, crawler, history>>

NoAnswer(c, m) ==
  /\ step[c] = "idle"
  /\ m \in batch[c]
  /\ Told(m, m.item)
  /\ Fault
  /\ batch' = [batch EXCEPT ![c] = @ \ {m}]
  /\ UNCHANGED <<services, messages, current, step, meili, crawler, history>>

\* Two kinds of failure are not told from success, and the event is deleted: an
\* error of MeiliSearch at the look-up counts as "not found", and an answer that
\* is not JSON raises a ValueError, as a malformed event does.
GivenUp(i) == /\ sure' = sure \ {i}
              /\ calm' = calm \ {i}

Misread(c, m) ==
  /\ m.act = "delete"
  /\ index[m.item] # 0
  /\ Begin(c, m)
  /\ Fault
  /\ step' = [step EXCEPT ![c] = "ack"]
  /\ GivenUp(m.item)
  /\ UNCHANGED <<services, messages, meili, crawler>>

UnreadableFirst(c, m) ==
  /\ Told(m, m.item)
  /\ Begin(c, m)
  /\ Fault
  /\ step' = [step EXCEPT ![c] = "drop"]
  /\ GivenUp(m.item)
  /\ UNCHANGED <<services, messages, meili, crawler>>

Unreadable(c) ==
  /\ step[c] \in Waiting \cup {"found", "clash", "removed"}
  /\ Fault
  /\ tasks' = Disowned(c)
  /\ Proceed(c, "drop")
  /\ GivenUp(current[c].item)
  /\ UNCHANGED <<services, messages, index, crawler>>

\* Mutant: a message that has reappeared meanwhile stays visible.
AcknowledgeHidden(c) ==
  /\ step[c] \in {"ack", "drop"}
  /\ queue' = queue \ {current[c]}
  /\ Finish(c)
  /\ UNCHANGED <<services, visible, meili, crawler, faults, history>>

Acknowledge(c) ==
  /\ step[c] \in {"ack", "drop"}
  /\ queue' = queue \ {current[c]}
  /\ visible' = visible \ {current[c]}
  /\ Finish(c)
  /\ UNCHANGED <<services, meili, crawler, faults, history>>

\* The worker stops.  A failure to delete a dropped event has the same effect:
\* raised inside the handler, it ends the loop over the batch.
Crash(c) ==
  /\ batch[c] # {}
  /\ Fault
  /\ tasks' = Disowned(c)
  /\ batch' = [batch EXCEPT ![c] = {}]
  /\ current' = [current EXCEPT ![c] = NoMessage]
  /\ step' = [step EXCEPT ![c] = "idle"]
  /\ UNCHANGED <<services, messages, index, crawler, history>>

-----------------------------------------------------------------------------
\* Reindexing.  POST /reindex fetches everything, then clears both indexes, then
\* fills them; the weekly script clears first and then fetches and adds page by
\* page.  A timeout or a failed task ends the former and goes unheeded in the
\* latter, except that the former ignores a clearing that failed.
Kind == IF at = 1 THEN Docs ELSE Files

BeginCrawl(script) ==
  /\ crawl = "off"
  /\ crawls < MaxCrawls
  /\ crawls' = crawls + 1
  /\ weekly' = script
  /\ crawl' = IF script THEN "clear" ELSE "fetch"
  /\ at' = 1
  /\ left' = Items
  /\ fetched' = Nothing
  /\ calm' = {i \in Items : i \in sure \/ ~InFlight(i)}
  /\ UNCHANGED <<services, messages, consumer, meili, faults, sure>>

\* Mutant: trashed files are on the page.
PageOfAll(P) == /\ P # {}
                /\ P \subseteq left \cap Kind
                /\ left' = left \ P
                /\ fetched' = [i \in Items |->
                     IF i \in P THEN IF Exists(i) THEN content[i] ELSE Keep
                     ELSE IF weekly THEN Keep ELSE fetched[i]]

\* A page that changes meanwhile may leave out an item and repeat another.
Page(P) == /\ P # {}
           /\ P \subseteq left \cap Kind
           /\ left' = left \ P
           /\ \E missed \in SUBSET P :
                /\ missed # {} => calm = {}
                /\ fetched' = [i \in Items |->
                     IF i \in P THEN IF i \in missed \/ Listed(i) = 0 THEN Keep
                                     ELSE Listed(i)
                     ELSE IF weekly THEN Keep ELSE fetched[i]]

NextIndex(again, then) ==
  \/ at = 1 /\ at' = 2 /\ crawl' = again
  \/ at = 2 /\ at' = 1 /\ crawl' = then

FetchPage(P) ==
  /\ crawl = "fetch"
  /\ Page(P)
  /\ UNCHANGED <<services, messages, consumer, meili, crawl, weekly, at, crawls,
                 faults, history>>

\* A service that does not answer ends the loop over its pages, no more.
FetchFails ==
  /\ crawl = "fetch"
  /\ left \cap Kind # {}
  /\ Fault
  /\ left' = left \ Kind
  /\ calm' = calm \ Kind
  /\ UNCHANGED <<services, messages, consumer, meili, crawl, weekly, at, fetched,
                 crawls, sure>>

FetchedKind ==
  /\ crawl = "fetch"
  /\ left \cap Kind = {}
  /\ NextIndex("fetch", "clear")
  /\ UNCHANGED <<services, messages, consumer, meili, weekly, left, fetched,
                 crawls, faults, history>>

ClearIndex ==
  /\ crawl = "clear"
  /\ Submit([i \in Items |-> IF i \in Kind THEN 0 ELSE Keep], Crawler)
  /\ crawl' = "clearing"
  /\ UNCHANGED <<services, messages, consumer, index, weekly, at, left, fetched,
                 crawls, faults, history>>

\* The pages of the weekly script.
ScriptPage(P) ==
  /\ crawl = "page"
  /\ Page(P)
  /\ crawl' = "fill"
  /\ UNCHANGED <<services, messages, consumer, meili, weekly, at, crawls, faults,
                 history>>

EndCrawl == /\ crawl' = "off"
            /\ weekly' = FALSE
            /\ at' = 1
            /\ left' = {}
            /\ fetched' = Nothing
            /\ calm' = {}
            /\ UNCHANGED crawls

ScriptKindDone ==
  /\ crawl = "page"
  /\ left \cap Kind = {}
  /\ IF at = 1 THEN /\ at' = 2
                    /\ UNCHANGED <<crawl, weekly, left, fetched, crawls, history>>
               ELSE EndCrawl /\ sure' = calm
  /\ UNCHANGED <<services, messages, consumer, meili, faults>>

FillIndex ==
  /\ crawl = "fill"
  /\ \E i \in Kind : fetched[i] # Keep
  /\ Submit([i \in Items |-> IF i \in Kind THEN fetched[i] ELSE Keep], Crawler)
  /\ crawl' = "filling"
  /\ UNCHANGED <<services, messages, consumer, index, weekly, at, left, fetched,
                 crawls, faults, history>>

\* The task the crawler waited for is over.
Cleared == /\ NextIndex("clear", IF weekly THEN "page" ELSE "fill")
           /\ UNCHANGED <<weekly, left, fetched, crawls>>

TurnsPage == /\ crawl' = "page"
             /\ fetched' = Nothing
             /\ UNCHANGED <<weekly, at, left, crawls>>

Filled == IF weekly THEN TurnsPage /\ UNCHANGED history
          ELSE IF at = 1
          THEN /\ crawl' = "fill"
               /\ at' = 2
               /\ UNCHANGED <<weekly, left, fetched, crawls, history>>
          ELSE EndCrawl /\ sure' = calm

Aborts == EndCrawl /\ sure' = {}

\* Nothing is added where nothing was fetched.
NothingToFill ==
  /\ crawl = "fill"
  /\ \A i \in Kind : fetched[i] = Keep
  /\ Filled
  /\ UNCHANGED <<services, messages, consumer, meili, faults>>

\* What does not end the reindex leaves nothing certain.
Unheeded == /\ IF crawl = "clearing" THEN Cleared ELSE TurnsPage
            /\ calm' = {}
            /\ UNCHANGED sure

CrawlerTimesOut ==
  /\ crawl \in {"clearing", "filling"}
  /\ Fault
  /\ tasks' = Disowned(Crawler)
  /\ IF weekly THEN Unheeded ELSE Aborts
  /\ UNCHANGED <<services, messages, consumer, index>>

CrawlerStops ==
  /\ crawl # "off"
  /\ Fault
  /\ tasks' = Disowned(Crawler)
  /\ EndCrawl
  /\ sure' = IF crawl = "fetch" THEN sure ELSE {}
  /\ UNCHANGED <<services, messages, consumer, index>>

-----------------------------------------------------------------------------
\* MeiliSearch executes the first task, or fails to.
Applied(does) == [i \in Items |-> IF does[i] = Keep THEN index[i] ELSE does[i]]

Succeeds ==
  /\ tasks # <<>>
  /\ index' = Applied(Head(tasks).does)
  /\ tasks' = Tail(tasks)
  /\ LET c == Head(tasks).owner
     IN IF c \in Consumers
        THEN /\ Proceed(c, IF step[c] = "removing" THEN "removed" ELSE "ack")
             /\ UNCHANGED <<crawler, history>>
        ELSE /\ UNCHANGED consumer
             /\ IF c = Nobody THEN UNCHANGED <<crawler, history>>
                ELSE IF crawl = "clearing" THEN Cleared /\ UNCHANGED history
                ELSE Filled
  /\ UNCHANGED <<services, messages, faults>>

\* Only the add of a file is repaired, and only once.
Fails ==
  /\ tasks # <<>>
  /\ Fault
  /\ tasks' = Tail(tasks)
  /\ LET c == Head(tasks).owner
     IN IF c \in Consumers
        THEN /\ \/ Finish(c)
                \/ /\ step[c] = "adding"
                   /\ current[c].item \in Files
                   /\ Proceed(c, "clash")
             /\ UNCHANGED <<crawler, history>>
        ELSE /\ UNCHANGED consumer
             /\ IF c = Nobody THEN UNCHANGED <<crawler, history>>
                ELSE IF weekly \/ crawl = "clearing" THEN Unheeded
                ELSE Aborts
  /\ UNCHANGED <<services, messages, index>>

-----------------------------------------------------------------------------
Change == \E i \in Items :
  CreateItem(i) \/ UpdateItem(i) \/ MoveFile(i) \/ TrashFile(i) \/ RestoreFile(i)
    \/ DeleteItem(i)

Consume(c) == \/ \E B \in SUBSET visible : Receive(c, B)
              \/ \E m \in batch[c] : \/ IndexItem(c, m) \/ LookUp(c, m)
                                    \/ SkipEvent(c, m) \/ RejectEvent(c, m)
              \/ RemoveItem(c) \/ RemoveEntry(c) \/ AddAgain(c) \/ Acknowledge(c)

GivesUp(c) == Unreadable(c) \/ \E m \in batch[c] : Misread(c, m) \/ UnreadableFirst(c, m)

Mishap(c) == \/ TimesOut(c) \/ CallFails(c) \/ Crash(c) \/ GivesUp(c)
             \/ \E m \in batch[c] : NoAnswer(c, m)

Crawl == \/ \E P \in SUBSET left : FetchPage(P) \/ ScriptPage(P)
         \/ FetchedKind \/ ClearIndex \/ ScriptKindDone \/ FillIndex \/ NothingToFill

Next == \/ Change
        \/ \E m \in queue : Reappears(m)
        \/ \E c \in Consumers : Consume(c) \/ Mishap(c)
        \/ \E script \in BOOLEAN : BeginCrawl(script)
        \/ Crawl
        \/ FetchFails \/ CrawlerTimesOut \/ CrawlerStops
        \/ Succeeds \/ Fails

\* A worker goes on polling and processing, what nobody holds reappears, and
\* MeiliSearch executes its tasks.  That it answers a call, or refuses it, is a
\* hypothesis about it: its client is given no timeout.
Fairness == /\ \A c \in Consumers : WF_vars(Consume(c))
            /\ WF_vars(\E m \in queue : Reappears(m) /\ UNCHANGED faults)
            /\ WF_vars(Succeeds)

Spec == Init /\ [][Next]_vars /\ Fairness

-----------------------------------------------------------------------------
\* Whatever was lost, overtaken or processed twice before: once nothing of an
\* item is on its way, the index holds what its service lists, if its last
\* change was made and announced while nothing else of it was on its way, or if
\* a reindex has gone by since without a failure or a change.  The two failures
\* that the consumer takes for success are excepted (sure): after one of them an
\* item stays wrong until the next reindex (_process_message acknowledges last;
\* _wait_and_check; reindex).
Settled(i) == crawl = "off" /\ ~InFlight(i)

SettledMeansIndexed == \A i \in sure : Settled(i) => index[i] = Listed(i)

\* An item that was deleted or trashed in peace and is out of the index does not
\* come back into it, whichever consumer repeats an event, whichever task comes
\* late and whatever a reindex has fetched (delete_document, list_files).
GoneStaysGone == [][
  \A i \in sure \cap sure' :
    Listed(i) = 0 /\ Listed(i)' = 0 /\ index[i] = 0 => index'[i] = 0]_vars

\* Such an item is in the end, and stays, in the index as its service lists it:
\* an attempt whose failure the consumer notices leaves the event to be
\* delivered again, and one whose failure it takes for success makes the item
\* unsure (_poll_loop, _process_message).  The premise is that no reindex hangs:
\* the weekly script calls the services without a timeout.
Converges == []<>(crawl = "off") => <>[](\A i \in sure : index[i] = Listed(i))
=============================================================================
