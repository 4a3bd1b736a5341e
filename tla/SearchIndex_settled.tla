-------------------------- MODULE SearchIndex_settled -------------------------
(***************************************************************************)
(* Proof that a settled index is right, for any number of documents,       *)
(* files, consumers and reindexes, and any number of faults.               *)
(***************************************************************************)
EXTENDS SearchIndex_proofs

\* A consumer's task, or one nobody waits for, that removes a listed item.
Removes(k, i) == /\ tasks[k].does[i] = 0
                 /\ tasks[k].owner # Crawler
                 /\ Listed(i) # 0

\* Until the reindex has cleared the index and filled it again, or need not.
Gap(i) == \/ crawl \in {"clear", "clearing"}
          \/ /\ crawl \in Filling
             /\ IF weekly THEN i \in left \/ fetched[i] # Keep ELSE at = 1 \/ i \in Files

Processes(c, i) == step[c] # "idle" /\ Told(current[c], i)

\* What is removed is still to be added by an event that is in the queue.
RemovedInQueue(i) == \A k \in 1 .. Len(tasks) :
  Removes(k, i) => \E m \in queue : Told(m, i)

\* No removal follows what a consumer waits for, or has seen done, and none gives
\* up the item.
AddedLast(i) == \A c \in Consumers : Processes(c, i) =>
  /\ step[c] \in {"adding", "readding"} =>
       \A j, k \in 1 .. Len(tasks) : tasks[j].owner = c /\ Removes(k, i) => k < j
  /\ step[c] = "ack" => /\ \A k \in 1 .. Len(tasks) : ~Removes(k, i)
                        /\ Gap(i) \/ index[i] = Listed(i)
  /\ step[c] # "drop"

\* Once the reindex is past it, an item is right or its event is to come.
RightOrInQueue(i) == Gap(i) \/ index[i] = Listed(i) \/ \E m \in queue : Told(m, i)

\* The reindex has what it needs to set the item right.
WasCleared(i) == \/ crawl \in Filling
                 \/ crawl \in {"clear", "clearing"} /\ at = 2 /\ i \in Docs

Refills(i) ==
  /\ WasCleared(i) => index[i] \in {0, Listed(i)}
  /\ crawl = "fetch" /\ i \notin left => fetched[i] = Listed(i) \/ Listed(i) = 0
  /\ ~weekly /\ crawl \notin {"off", "fetch"} => fetched[i] = Listed(i) \/ Listed(i) = 0

InOrder == \A i \in Live : RemovedInQueue(i) /\ AddedLast(i) /\ RightOrInQueue(i)

CanRefill == \A i \in calm : Refills(i)

-----------------------------------------------------------------------------
\* How far a step may change the removals of an item and their place among the
\* tasks: none is added, all move up together, and a task that is added is last.
NoMoreRemovals(i) == \E s \in {0, 1} : \A k \in 1 .. Len(tasks') :
  /\ Removes(k, i)' => k + s \in 1 .. Len(tasks) /\ Removes(k + s, i)
  /\ \A c \in Consumers : tasks'[k].owner = c =>
       \/ k + s \in 1 .. Len(tasks) /\ tasks[k + s].owner = c
       \/ s = 0 /\ k = Len(tasks) + 1 /\ ~Awaits(c)

LEMMA RemovalsKept ==
  ASSUME TypeInv, TaskStep, NEW i \in Items, Listed(i)' = Listed(i), i \in Live',
         \A o \in Consumers : ~Awaits(o) /\ Awaits(o)' => Wants(o)'[i] # 0 \/ Listed(i) = 0
  PROVE  NoMoreRemovals(i)
<1>. USE Parameters
<1>. USE DEF TypeInv
<1>t. tasks \in Seq(Task) /\ Len(tasks) \in Nat /\ Nobody \notin Waiters
  BY DEF TypeOK, Waiters
<1>1. CASE tasks' = tasks
  BY <1>1, <1>t DEF NoMoreRemovals, Removes
<1>2. CASE Submits
  <2>1. PICK o \in Waiters, does \in Effects :
          Submit(does, o) /\ ~Awaits(o) /\ Awaits(o)' /\ does = Wants(o)' /\ OthersKept(o)
    BY <1>2 DEF Submits
  <2>2. /\ Len(tasks') = Len(tasks) + 1
        /\ \A j \in 1 .. Len(tasks) : tasks'[j] = tasks[j]
        /\ tasks'[Len(tasks) + 1] = [does |-> does, owner |-> o]
    BY <1>t, <2>1, Submitted DEF Owners, Waiters
  <2>3. o = Crawler \/ does[i] # 0 \/ Listed(i) = 0
    BY <2>1 DEF Waiters
  <2>4. ASSUME NEW k \in 1 .. Len(tasks')
        PROVE  /\ Removes(k, i)' => k + 0 \in 1 .. Len(tasks) /\ Removes(k + 0, i)
               /\ \A c \in Consumers : tasks'[k].owner = c =>
                    \/ k + 0 \in 1 .. Len(tasks) /\ tasks[k + 0].owner = c
                    \/ 0 = 0 /\ k = Len(tasks) + 1 /\ ~Awaits(c)
    <3>0. k + 0 = k
      OBVIOUS
    <3>1. CASE k = Len(tasks) + 1
      BY <2>1, <2>2, <2>3, <3>1 DEF Removes
    <3>2. CASE k \in 1 .. Len(tasks)
      BY <2>2, <3>0, <3>2 DEF Removes
    <3>. QED
      BY <1>t, <2>2, <3>1, <3>2
  <2>. QED
    BY <2>4 DEF NoMoreRemovals
<1>3. CASE Disowns
  <2>1. PICK o \in Waiters : tasks' = Disowned(o) /\ (o = Crawler /\ Awaits(o) => Live' = {})
    BY <1>3 DEF Disowns
  <2>2. /\ Len(tasks') = Len(tasks)
        /\ \A j \in 1 .. Len(tasks) :
              /\ tasks'[j].does = tasks[j].does
              /\ tasks'[j].owner = IF tasks[j].owner = o THEN Nobody ELSE tasks[j].owner
    BY <1>t, <2>1, Left
  <2>3. \A j \in 1 .. Len(tasks) : tasks[j].owner = o => o # Crawler
    BY <2>1 DEF Owned
  <2>4. ASSUME NEW k \in 1 .. Len(tasks')
        PROVE  /\ Removes(k, i)' => k + 0 \in 1 .. Len(tasks) /\ Removes(k + 0, i)
               /\ \A c \in Consumers : tasks'[k].owner = c =>
                    \/ k + 0 \in 1 .. Len(tasks) /\ tasks[k + 0].owner = c
                    \/ 0 = 0 /\ k = Len(tasks) + 1 /\ ~Awaits(c)
    <3>0. k + 0 = k
      BY <1>t, <2>2
    <3>. QED
      BY <2>2, <2>3, <3>0 DEF Removes, Waiters
  <2>. QED
    BY <2>4 DEF NoMoreRemovals
<1>4. CASE TakesOut
  <2>1. /\ Len(tasks') = Len(tasks) - 1
        /\ \A k \in 1 .. Len(tasks') : tasks'[k] = tasks[k + 1]
    BY <1>t, <1>4, Popped DEF TakesOut
  <2>2. ASSUME NEW k \in 1 .. Len(tasks')
        PROVE  /\ Removes(k, i)' => k + 1 \in 1 .. Len(tasks) /\ Removes(k + 1, i)
               /\ \A c \in Consumers : tasks'[k].owner = c =>
                    \/ k + 1 \in 1 .. Len(tasks) /\ tasks[k + 1].owner = c
                    \/ 1 = 0 /\ k = Len(tasks) + 1 /\ ~Awaits(c)
    <3>1. k + 1 \in 1 .. Len(tasks) /\ tasks'[k] = tasks[k + 1]
      BY <1>t, <2>1
    <3>. QED
      BY <3>1 DEF Removes
  <2>. QED
    BY <2>2 DEF NoMoreRemovals
<1>. QED
  BY <1>1, <1>2, <1>3, <1>4 DEF TaskStep

\* What a consumer gives up is nothing that a settled index must have right.
LEMMA GivenUpGone ==
  ASSUME TypeOK, NEW c \in Consumers, GivesUp(c)
  PROVE  current'[c].item \notin Live'
<1>1. ASSUME NEW m \in batch[c], Misread(c, m) \/ UnreadableFirst(c, m)
      PROVE  current'[c].item \notin Live'
  BY <1>1 DEF Misread, UnreadableFirst, Begin, GivenUp, Live, TypeOK
<1>2. CASE Unreadable(c)
  BY <1>2 DEF Unreadable, Proceed, GivenUp, Live
<1>. QED
  BY <1>1, <1>2 DEF GivesUp

\* Where a consumer that is adding, or has done with, an item comes from.
LEMMA StepFrom ==
  ASSUME TypeOK, Next, NEW c \in Consumers, step'[c] \in {"adding", "readding", "ack", "drop"}
  PROVE  \/ step'[c] = step[c] /\ current'[c] = current[c]
         \/ step'[c] \in {"adding", "readding"} /\ step[c] \notin Waiting
         \/ \E m \in batch[c] : (LookUp(c, m) \/ SkipEvent(c, m) \/ RejectEvent(c, m))
                                /\ current'[c] = m
         \/ GivesUp(c) /\ step'[c] \in {"ack", "drop"}
         \/ /\ Succeeds /\ Head(tasks).owner = c /\ current'[c] = current[c]
            /\ step[c] # "removing" /\ step'[c] = "ack"
<1>1. CASE UNCHANGED <<step, current>>
  BY <1>1
<1>2. ASSUME NEW d \in Consumers, Consume(d) \/ Mishap(d), d # c
      PROVE  step'[c] = step[c] /\ current'[c] = current[c]
  BY <1>2 DEF Consume, Mishap, GivesUp, TimesOut, CallFails, NoAnswer, Misread, Unreadable,
              UnreadableFirst, Crash, Receive, IndexItem, LookUp, SkipEvent, RejectEvent, RemoveItem,
              RemoveEntry, AddAgain, Acknowledge, Begin, Proceed, Finish, TypeOK
<1>3. CASE TimesOut(c) \/ CallFails(c) \/ Crash(c) \/ Acknowledge(c)
  BY <1>3 DEF TimesOut, CallFails, Crash, Acknowledge, Finish, TypeOK
<1>4. CASE RemoveItem(c) \/ RemoveEntry(c)
  BY <1>4 DEF RemoveItem, RemoveEntry, Proceed, TypeOK
<1>5. CASE AddAgain(c) \/ \E m \in batch[c] : IndexItem(c, m)
  BY <1>5 DEF AddAgain, IndexItem, Begin, Proceed, TypeOK, Waiting
<1>6. ASSUME NEW m \in batch[c], LookUp(c, m) \/ SkipEvent(c, m) \/ RejectEvent(c, m)
      PROVE  current'[c] = m
  BY <1>6 DEF LookUp, SkipEvent, RejectEvent, Begin, TypeOK
<1>7. ASSUME \/ \E B \in SUBSET visible : Receive(c, B)
             \/ \E m \in batch[c] : NoAnswer(c, m)
      PROVE  UNCHANGED <<step, current>>
  BY <1>7 DEF Receive, NoAnswer
<1>8. CASE Succeeds
  BY <1>8 DEF Succeeds, Proceed, TypeOK, consumer
<1>9. CASE Fails
  BY <1>9 DEF Fails, Proceed, Finish, TypeOK, consumer
<1>10. CASE GivesUp(c)
  BY <1>10 DEF GivesUp, Misread, UnreadableFirst, Unreadable, Begin, Proceed, TypeOK
<1>11. \/ UNCHANGED <<step, current>>
       \/ \E d \in Consumers : Consume(d) \/ Mishap(d)
       \/ Succeeds \/ Fails
  BY DEF Next, Change, CreateItem, UpdateItem, MoveFile, TrashFile, RestoreFile, DeleteItem, Announce,
         Reappears, BeginCrawl, Crawl, FetchPage, ScriptPage, FetchedKind, ClearIndex, ScriptKindDone,
         FillIndex, NothingToFill, FetchFails, CrawlerTimesOut, CrawlerStops, consumer
<1>. QED
  BY <1>1, <1>2, <1>3, <1>4, <1>5, <1>6, <1>7, <1>8, <1>9, <1>10, <1>11 DEF Consume, Mishap

-----------------------------------------------------------------------------
\* Only the tasks write the index.
LEMMA IndexFrom ==
  ASSUME Next, ~Succeeds
  PROVE  index' = index
  BY DEF Next, Change, CreateItem, UpdateItem, MoveFile, TrashFile, RestoreFile, DeleteItem,
     Announce, Reappears, Consume, Mishap, GivesUp, TimesOut, CallFails, NoAnswer, Misread, Unreadable,
         UnreadableFirst, GivenUp, Crash, Receive, IndexItem, LookUp, SkipEvent, RejectEvent,
     RemoveItem, RemoveEntry, AddAgain, Acknowledge, BeginCrawl, Crawl, FetchPage, ScriptPage,
     FetchedKind, ClearIndex, ScriptKindDone, FillIndex, NothingToFill, FetchFails, CrawlerTimesOut, CrawlerStops,
     Fails, meili

\* Only the consumer that has done with a message deletes it.
LEMMA QueueFrom ==
  ASSUME TypeOK, Next, ~Change, NEW m \in queue, m \notin queue'
  PROVE  \E c \in Consumers : step[c] \in {"ack", "drop"} /\ current[c] = m
<1>1. CASE \E c \in Consumers : Acknowledge(c)
  BY <1>1 DEF Acknowledge
<1>2. CASE \A c \in Consumers : ~Acknowledge(c)
  BY <1>2 DEF Next, Reappears, Consume, Mishap, GivesUp, TimesOut, CallFails, NoAnswer, Misread, Unreadable,
         UnreadableFirst, GivenUp, Crash, Receive, IndexItem, LookUp, SkipEvent, RejectEvent,
     RemoveItem, RemoveEntry, AddAgain, BeginCrawl, Crawl, FetchPage, ScriptPage,
     FetchedKind, ClearIndex, ScriptKindDone, FillIndex, NothingToFill, FetchFails, CrawlerTimesOut, CrawlerStops,
     Succeeds, Fails, messages
<1>. QED
  BY <1>1, <1>2

\* What the reindex does, by where it is: the consumers leave it alone.
LEMMA CrawlerFrom ==
  ASSUME Next, ~Change
  PROVE  \/ UNCHANGED crawler /\ sure' \subseteq sure /\ calm' \subseteq calm
         \/ \E script \in BOOLEAN : BeginCrawl(script)
         \/ Crawl \/ FetchFails \/ CrawlerTimesOut \/ CrawlerStops
         \/ Succeeds /\ Head(tasks).owner \notin Consumers \cup {Nobody}
         \/ Fails /\ Head(tasks).owner \notin Consumers \cup {Nobody}
<1>1. CASE Succeeds \/ Fails
  BY <1>1 DEF Succeeds, Fails, history
<1>2. CASE \/ \E m \in queue : Reappears(m)
           \/ \E c \in Consumers : Consume(c) \/ Mishap(c)
  <2>1. sure' \subseteq sure /\ calm' \subseteq calm
    BY <1>2 DEF Reappears, Consume, Mishap, GivesUp, TimesOut, CallFails, NoAnswer, Misread, Unreadable,
         UnreadableFirst, GivenUp, Crash, Receive, IndexItem, LookUp, SkipEvent, RejectEvent,
       RemoveItem, RemoveEntry, AddAgain, Acknowledge, history
  <2>2. UNCHANGED crawler
    BY <1>2 DEF Reappears, Consume, Mishap, GivesUp, TimesOut, CallFails, NoAnswer, Misread, Unreadable,
         UnreadableFirst, GivenUp, Crash, Receive, IndexItem, LookUp, SkipEvent, RejectEvent,
       RemoveItem, RemoveEntry, AddAgain, Acknowledge
  <2>. QED
    BY <2>1, <2>2
<1>. QED
  BY <1>1, <1>2 DEF Next

\* A task that fails is the one the reindex waits for, or no business of its.
LEMMA CrawlerFails ==
  ASSUME TypeInv, Fails, Head(tasks).owner \notin Consumers \cup {Nobody}
  PROVE  /\ crawl \in {"clearing", "filling"}
         /\ Unheeded \/ Aborts
<1>1. 1 \in 1 .. Len(tasks) /\ Head(tasks) = tasks[1] /\ tasks[1] \in Task
  BY Popped DEF Fails, TypeInv, TypeOK
<1>2. tasks[1].owner = Crawler
  BY <1>1 DEF Task
<1>3. crawl \in {"clearing", "filling"}
  BY <1>1, <1>2 DEF TypeInv, Owned, Awaits, Waiters
<1>. QED
  BY <1>3 DEF Fails

\* What is settled was live before, or the reindex is about to clear the index.
LEMMA LiveFrom ==
  ASSUME TypeInv, CrawlFits, Next, ~Change, NEW i \in Live'
  PROVE  i \in Live \/ (i \in calm' \ sure' /\ crawl' = "clear")
<1>. USE DEF TypeInv
<1>1. CASE UNCHANGED crawler /\ sure' \subseteq sure /\ calm' \subseteq calm
  BY <1>1 DEF Live, crawler
<1>2. ASSUME NEW script \in BOOLEAN, BeginCrawl(script)
      PROVE  i \in Live \/ (i \in calm' \ sure' /\ crawl' = "clear")
  BY <1>2 DEF BeginCrawl, Live
<1>3. CASE Crawl
  <2>1. CASE \/ ClearIndex \/ FillIndex
             \/ \E P \in SUBSET left : FetchPage(P) \/ ScriptPage(P)
    BY <2>1 DEF ClearIndex, FillIndex, FetchPage, ScriptPage, history, Live
  <2>2. CASE FetchedKind
    BY <2>2 DEF FetchedKind, NextIndex, history, Live
  <2>3. CASE ScriptKindDone
    BY <2>3 DEF ScriptKindDone, EndCrawl, history, Live
  <2>4. CASE NothingToFill
    BY <2>4 DEF NothingToFill, Filled, TurnsPage, EndCrawl, history, Live
  <2>. QED
    BY <1>3, <2>1, <2>2, <2>3, <2>4 DEF Crawl
<1>4. CASE FetchFails
  BY <1>4 DEF FetchFails, Live
<1>5. CASE CrawlerTimesOut
  BY <1>5, CrawlerLost DEF CrawlerTimesOut
<1>6. CASE CrawlerStops
  BY <1>6 DEF CrawlerStops, EndCrawl, Live
<1>7. CASE Succeeds /\ Head(tasks).owner \notin Consumers \cup {Nobody}
  <2>1. 1 \in 1 .. Len(tasks) /\ Head(tasks) = tasks[1] /\ tasks[1] \in Task
    BY <1>7, Popped DEF Succeeds, TypeOK
  <2>2. crawl \in {"clearing", "filling"}
    BY <1>7, <2>1 DEF Owned, Awaits, Waiters, Task
  <2>3. \/ crawl = "clearing" /\ Cleared /\ UNCHANGED history
        \/ crawl = "filling" /\ Filled
    BY <1>7, <2>2 DEF Succeeds
  <2>. QED
    BY <2>3 DEF Cleared, NextIndex, Filled, TurnsPage, EndCrawl, history, Live
<1>8. CASE Fails /\ Head(tasks).owner \notin Consumers \cup {Nobody}
  BY <1>8, CrawlerFails, CrawlerLost
<1>. QED
  BY <1>1, <1>2, <1>3, <1>4, <1>5, <1>6, <1>7, <1>8, CrawlerFrom

-----------------------------------------------------------------------------
\* What the crawler's task does, when it succeeds.
LEMMA CrawlerSucceeds ==
  ASSUME TypeInv, Succeeds, Head(tasks).owner \notin Consumers \cup {Nobody}
  PROVE  /\ index' = Applied(CrawlTask)
         /\ \/ crawl = "clearing" /\ Cleared /\ UNCHANGED history
            \/ crawl = "filling" /\ Filled
<1>. USE DEF TypeInv
<1>1. 1 \in 1 .. Len(tasks) /\ Head(tasks) = tasks[1] /\ tasks[1] \in Task
  BY Popped DEF Succeeds, TypeOK
<1>2. tasks[1].owner = Crawler
  BY <1>1 DEF Task
<1>3. crawl \in {"clearing", "filling"} /\ tasks[1].does = CrawlTask
  BY <1>1, <1>2 DEF Owned, Awaits, Wants, Waiters
<1>. QED
  BY <1>1, <1>3 DEF Succeeds

LEMMA AppliedTask ==
  ASSUME TypeInv, Succeeds, Head(tasks).owner \notin Consumers \cup {Nobody}, NEW i \in Items
  PROVE  index'[i] = IF CrawlTask[i] = Keep THEN index[i] ELSE CrawlTask[i]
<1>. DEFINE f == CrawlTask
<1>1. index' = Applied(f)
  BY CrawlerSucceeds
<1>. HIDE DEF f
<1>2. index'[i] = IF f[i] = Keep THEN index[i] ELSE f[i]
  BY <1>1 DEF Applied
<1>. QED
  BY <1>2 DEF f

\* The pages of an undisturbed reindex leave out nothing that is listed.
LEMMA PageRefills ==
  ASSUME TypeOK, CrawlFits, NEW P \in SUBSET left, Page(P), calm # {}, NEW i \in P
  PROVE  fetched'[i] = IF Listed(i) = 0 THEN Keep ELSE Listed(i)
  BY DEF Page, TypeOK

LEMMA CanRefillKept ==
  ASSUME Peace, TypeOK', Next, ~Change, CanRefill
  PROVE  CanRefill'
<1>. USE Parameters
<1>. USE DEF Peace, TypeInv
<1>0. UNCHANGED services
  BY NoNewMessages
<1>s. \A i \in Items : Listed(i)' = Listed(i)
  BY <1>0 DEF Listed, services
<1>1. ASSUME NEW script \in BOOLEAN, BeginCrawl(script) PROVE CanRefill'
  BY <1>1 DEF BeginCrawl, CanRefill, Refills, WasCleared, TypeOK, Filling
<1>2. ASSUME \A script \in BOOLEAN : ~BeginCrawl(script), NEW i \in calm'
      PROVE  Refills(i)'
  <2>0. i \in Items
    BY DEF TypeOK
  <2>1. i \in calm /\ Refills(i)
    BY <1>2, NoMorePeace DEF CanRefill
  <2>2. WasCleared(i) => index'[i] \in {0, Listed(i)}
    <3>1. CASE ~Succeeds
      BY <2>1, <3>1, IndexFrom DEF Refills
    <3>2. CASE Succeeds
      <4>1. 1 \in 1 .. Len(tasks) /\ Head(tasks) = tasks[1]
        BY <3>2, Popped DEF Succeeds, TypeOK
      <4>2. tasks[1].does[i] \in {Keep, 0, Listed(i)}
        BY <2>1, <4>1 DEF AllAgree, Harmless
      <4>. QED
        BY <2>0, <2>1, <3>2, <4>1, <4>2 DEF Succeeds, Applied, Refills
    <3>. QED
      BY <3>1, <3>2
  <2>. DEFINE same == crawl' = crawl /\ at' = at /\ weekly' = weekly /\ left' = left
                      /\ fetched' = fetched
  <2>3. CASE same
    BY <1>s, <2>0, <2>1, <2>2, <2>3 DEF Refills, WasCleared, Kind
  <2>4. CASE UNCHANGED crawler
    BY <2>3, <2>4 DEF crawler
  <2>5. CASE Crawl
    <3>1. CASE ClearIndex
      BY <1>s, <2>0, <2>1, <2>2, <3>1 DEF ClearIndex, Refills, WasCleared, Filling
    <3>2. CASE FillIndex
      BY <1>s, <2>0, <2>1, <2>2, <3>2 DEF FillIndex, Refills, WasCleared, Filling
    <3>3. CASE FetchedKind
      <4>1. crawl' = "clear" => left = {}
        BY <3>3 DEF FetchedKind, NextIndex, CrawlFits, Kind, TypeOK, Items
      <4>. QED
        BY <1>s, <2>0, <2>1, <2>2, <3>3, <4>1 DEF FetchedKind, NextIndex, Refills, WasCleared, Filling,
           CrawlFits
    <3>4. CASE ScriptKindDone
      BY <1>s, <2>0, <2>1, <2>2, <3>4 DEF ScriptKindDone, EndCrawl, Refills, WasCleared, Filling, CrawlFits
    <3>5. ASSUME NEW P \in SUBSET left, FetchPage(P) PROVE Refills(i)'
      <4>1. Page(P) /\ crawl = "fetch" /\ ~weekly
        BY <3>5 DEF FetchPage, CrawlFits
      <4>2. /\ left' = left \ P
            /\ i \notin P => fetched'[i] = fetched[i]
        BY <2>0, <4>1, PageFits
      <4>3. i \in P => fetched'[i] = IF Listed(i) = 0 THEN Keep ELSE Listed(i)
        BY <2>1, <4>1, PageRefills
      <4>. QED
        BY <1>s, <2>0, <2>1, <3>5, <4>1, <4>2, <4>3 DEF FetchPage, Refills, WasCleared, Filling
    <3>6. ASSUME NEW P \in SUBSET left, ScriptPage(P) PROVE Refills(i)'
      BY <1>s, <2>0, <2>1, <2>2, <3>6 DEF ScriptPage, Refills, WasCleared, Filling, CrawlFits
    <3>7. CASE NothingToFill
      BY <1>s, <1>2, <2>0, <2>1, <2>2, <3>7 DEF NothingToFill, Filled, TurnsPage, EndCrawl, Refills,
         WasCleared, Filling
    <3>. QED
      BY <2>5, <3>1, <3>2, <3>3, <3>4, <3>5, <3>6, <3>7 DEF Crawl
  <2>6. CASE FetchFails
    BY <1>s, <1>2, <2>0, <2>1, <2>6 DEF FetchFails, Refills, WasCleared, Filling
  <2>7. CASE Fails /\ Head(tasks).owner \notin Consumers \cup {Nobody}
    BY <1>2, <2>7, CrawlerFails DEF Unheeded, Aborts, EndCrawl
  <2>8. CASE CrawlerTimesOut \/ CrawlerStops
    BY <1>2, <2>8 DEF CrawlerTimesOut, CrawlerStops, Unheeded, Aborts, EndCrawl
  <2>9. CASE Succeeds /\ Head(tasks).owner \notin Consumers \cup {Nobody}
    <3>1. \/ crawl = "clearing" /\ Cleared
          \/ crawl = "filling" /\ Filled
      BY <2>9, CrawlerSucceeds
    <3>2. crawl = "clearing" /\ i \in Kind => index'[i] = 0
      <4>1. index'[i] = IF CrawlTask[i] = Keep THEN index[i] ELSE CrawlTask[i]
        BY <2>0, <2>9, AppliedTask
      <4>. QED
        BY <2>0, <4>1 DEF CrawlTask, Keep
    <3>3. CASE crawl = "clearing" /\ Cleared
      BY <1>s, <2>0, <2>1, <2>2, <3>2, <3>3 DEF Cleared, NextIndex, Refills, WasCleared, Filling, Kind, Items,
         CrawlFits
    <3>4. CASE crawl = "filling" /\ Filled
      BY <1>s, <1>2, <2>0, <2>1, <2>2, <3>4 DEF Filled, TurnsPage, EndCrawl, Refills, WasCleared, Filling
    <3>. QED
      BY <3>1, <3>3, <3>4
  <2>. QED
    BY <1>2, <2>4, <2>5, <2>6, <2>7, <2>8, <2>9, CrawlerFrom
<1>. QED
  BY <1>1, <1>2 DEF CanRefill

\* Without a removal to come, an item that the reindex has set right stays right.
LEMMA GapFilled ==
  ASSUME Peace, CanRefill, Next, ~Change, NEW i \in Items, i \in Live, i \in Live',
         \A k \in 1 .. Len(tasks) : ~Removes(k, i),
         Gap(i) \/ index[i] = Listed(i)
  PROVE  Gap(i)' \/ index'[i] = Listed(i)
<1>. USE Parameters
<1>. USE DEF Peace, TypeInv
<1>l. Listed(i) \in Nat
  BY DEF Listed, TypeOK
<1>r. crawl \notin {"off", "fetch"} => Refills(i)
  BY DEF Live, CanRefill
<1>h. Harmless(i)
  BY DEF Live, AllAgree
<1>1. CASE Succeeds /\ Head(tasks).owner \in Consumers \cup {Nobody}
  <2>1. 1 \in 1 .. Len(tasks) /\ Head(tasks) = tasks[1]
    BY <1>1, Popped DEF Succeeds, TypeOK
  <2>2. tasks[1].does[i] \in {Keep, Listed(i)}
    BY <1>1, <1>h, <2>1 DEF Harmless, Removes
  <2>3. index'[i] \in {index[i], Listed(i)}
    BY <1>1, <2>1, <2>2 DEF Succeeds, Applied
  <2>4. UNCHANGED crawler
    BY <1>1 DEF Succeeds
  <2>. QED
    BY <2>3, <2>4 DEF Gap, crawler
<1>2. CASE Succeeds /\ Head(tasks).owner \notin Consumers \cup {Nobody}
  <2>0. /\ index'[i] = IF CrawlTask[i] = Keep THEN index[i] ELSE CrawlTask[i]
        /\ \/ crawl = "clearing" /\ Cleared
           \/ crawl = "filling" /\ Filled
    BY <1>2, AppliedTask, CrawlerSucceeds
  <2>1. CASE crawl = "clearing" /\ Cleared
    BY <2>1 DEF Cleared, NextIndex, Gap, Filling, CrawlFits, TypeOK
  <2>2. CASE crawl = "filling" /\ Filled
    <3>1. Refills(i) /\ index[i] \in {0, Listed(i)} \cup {index[i]}
          /\ index[i] \in {0, Listed(i)}
      BY <1>r, <2>2 DEF Refills, WasCleared, Filling
    <3>2. CASE weekly
      <4>1. index'[i] = IF fetched[i] = Keep THEN index[i] ELSE Listed(i)
        BY <1>h, <2>0, <2>2, <3>2 DEF CrawlTask, CrawlFits, Harmless
      <4>2. crawl' = "page" /\ weekly' /\ left' = left
        BY <2>2, <3>2 DEF Filled, TurnsPage
      <4>. QED
        BY <2>2, <3>2, <4>1, <4>2 DEF Gap, Filling
    <3>3. CASE ~weekly
      <4>1. i \in Kind => index'[i] = Listed(i)
        BY <1>h, <1>l, <2>0, <2>2, <3>1, <3>3 DEF Refills, CrawlTask, Harmless, Keep
      <4>2. i \notin Kind => index'[i] = index[i]
        BY <2>0, <2>2 DEF CrawlTask
      <4>3. CASE at = 1
        BY <2>2, <3>3, <4>1, <4>3 DEF Filled, Gap, Filling, Kind, Items
      <4>4. CASE at # 1
        BY <2>2, <3>3, <4>1, <4>2, <4>4 DEF Gap, Filling, Kind, Items, TypeOK
      <4>. QED
        BY <4>3, <4>4
    <3>. QED
      BY <3>2, <3>3
  <2>. QED
    BY <2>0, <2>1, <2>2
<1>3. CASE ~Succeeds
  <2>0. index' = index
    BY <1>3, IndexFrom
  <2>1. CASE ~Gap(i)
    BY <2>0, <2>1
  <2>2. CASE Gap(i) /\ UNCHANGED crawler
    BY <2>2 DEF Gap, crawler
  <2>3. CASE Gap(i) /\ Crawl
    <3>1. CASE ClearIndex \/ FillIndex
      BY <2>3, <3>1 DEF ClearIndex, FillIndex, Gap, Filling
    <3>2. CASE FetchedKind
      BY <2>3, <3>2 DEF FetchedKind, Gap, Filling
    <3>3. CASE ScriptKindDone
      <4>1. weekly /\ i \in left /\ crawl = "page"
        BY <2>3, <3>3 DEF ScriptKindDone, Gap, CrawlFits, Nothing, Filling
      <4>2. at # 1 => FALSE
        BY <3>3, <4>1 DEF ScriptKindDone, CrawlFits, Kind, Items, TypeOK, Filling
      <4>. QED
        BY <3>3, <4>1, <4>2 DEF ScriptKindDone, Gap, Filling
    <3>4. ASSUME NEW P \in SUBSET left, FetchPage(P) PROVE FALSE
      BY <2>3, <3>4 DEF FetchPage, Gap, Filling
    <3>5. ASSUME NEW P \in SUBSET left, ScriptPage(P) PROVE Gap(i)' \/ index'[i] = Listed(i)
      <4>1. crawl = "page" /\ crawl' = "fill" /\ weekly /\ weekly' /\ Page(P) /\ calm # {} /\ i \in left
        BY <2>3, <3>5 DEF ScriptPage, Gap, CrawlFits, Nothing, Live, Filling
      <4>2. i \notin P => i \in left'
        BY <4>1 DEF Page
      <4>3. i \in P => fetched'[i] = IF Listed(i) = 0 THEN Keep ELSE Listed(i)
        BY <4>1, PageRefills
      <4>4. Listed(i) = 0 => index[i] = 0
        BY <1>r, <4>1 DEF Refills, WasCleared, Filling
      <4>. QED
        BY <1>l, <2>0, <4>1, <4>2, <4>3, <4>4 DEF Gap, Filling, Keep
    <3>6. CASE NothingToFill
      <4>1. crawl = "fill" /\ Filled /\ (i \in Kind => fetched[i] = Keep)
        BY <3>6 DEF NothingToFill
      <4>2. index[i] \in {0, Listed(i)}
        BY <1>r, <4>1 DEF Refills, WasCleared, Filling
      <4>3. CASE weekly
        BY <2>0, <2>3, <4>1, <4>3 DEF Filled, TurnsPage, Gap, Filling, CrawlFits
      <4>4. CASE ~weekly
        <5>1. i \in Kind => index[i] = Listed(i)
          BY <1>l, <1>r, <4>1, <4>2, <4>4 DEF Refills, Keep
        <5>. QED
          BY <2>0, <2>3, <4>1, <4>4, <5>1 DEF Filled, EndCrawl, Gap, Filling, Kind, Items, TypeOK
      <4>. QED
        BY <4>3, <4>4
    <3>. QED
      BY <2>3, <3>1, <3>2, <3>3, <3>4, <3>5, <3>6 DEF Crawl
  <2>4. ASSUME Gap(i), NEW script \in BOOLEAN, BeginCrawl(script) PROVE FALSE
    BY <2>4 DEF BeginCrawl, Gap, Filling
  <2>5. CASE Gap(i) /\ FetchFails
    BY <2>5 DEF FetchFails, Gap, Filling
  <2>6. ~CrawlerTimesOut
    BY CrawlerLost DEF CrawlerTimesOut
  <2>7. CASE Gap(i) /\ CrawlerStops
    BY <2>7 DEF CrawlerStops, EndCrawl, Gap, Filling, Live
  <2>8. CASE Fails /\ Head(tasks).owner \notin Consumers \cup {Nobody}
    BY <2>8, CrawlerFails, CrawlerLost
  <2>. QED
    BY <1>3, <2>1, <2>2, <2>3, <2>4, <2>5, <2>6, <2>7, <2>8, CrawlerFrom
<1>. QED
  BY <1>1, <1>2, <1>3

-----------------------------------------------------------------------------
\* A change: the queue has the event of what was announced in peace.
LEMMA ChangeInOrder ==
  ASSUME Peace, TypeOK', Change, InOrder
  PROVE  InOrder'
<1>. USE DEF Peace, TypeInv
<1>1. PICK i \in Items, act \in {"index", "delete", "skip"} :
           /\ Announce(i, act)
           /\ \A j \in Items : j # i => state'[j] = state[j] /\ content'[j] = content[j]
  BY ChangeAnnounces
<1>2. queue' \subseteq Message
  BY DEF TypeOK
<1>3. /\ UNCHANGED <<batch, current, step, tasks, index, fetched>>
      /\ calm' = {}
      /\ sure' \subseteq sure \cup {i}
      /\ queue \subseteq queue'
      /\ i \in sure' => /\ ~InFlight(i)
                        /\ crawl = "off"
                        /\ \E m \in queue' : Told(m, i)
  BY <1>1, <1>2, Announced
<1>4. UNCHANGED crawler
  BY <1>1 DEF Announce
<1>5. ASSUME NEW j \in Live', j # i
      PROVE  (RemovedInQueue(j) /\ AddedLast(j) /\ RightOrInQueue(j))'
  <2>1. j \in Live /\ j \in Items
    BY <1>3, <1>4, <1>5 DEF Live, crawler, TypeOK
  <2>2. Listed(j)' = Listed(j)
    BY <1>1, <1>5, <2>1 DEF Listed
  <2>3. RemovedInQueue(j) /\ AddedLast(j) /\ RightOrInQueue(j)
    BY <2>1 DEF InOrder
  <2>4. RemovedInQueue(j)'
    BY <1>3, <2>2, <2>3 DEF RemovedInQueue, Removes, Told
  <2>5. AddedLast(j)'
    BY <1>3, <1>4, <2>2, <2>3 DEF AddedLast, Removes, Told, Processes, Gap, crawler
  <2>6. RightOrInQueue(j)'
    BY <1>3, <1>4, <2>2, <2>3 DEF RightOrInQueue, Told, Gap, crawler
  <2>. QED
    BY <2>4, <2>5, <2>6
<1>6. ASSUME i \in Live'
      PROVE  (RemovedInQueue(i) /\ AddedLast(i) /\ RightOrInQueue(i))'
  <2>1. ~InFlight(i) /\ \E m \in queue' : Told(m, i)
    BY <1>3, <1>4, <1>6 DEF Live, crawler
  <2>2. \A k \in 1 .. Len(tasks) : tasks[k].does[i] = Keep
    BY <2>1 DEF InFlight
  <2>3. \A c \in Consumers : ~Processes(c, i)
    BY <2>1, CurrentTypes DEF InFlight, Processes
  <2>4. RemovedInQueue(i)'
    BY <1>3, <2>2 DEF RemovedInQueue, Removes, Keep
  <2>5. AddedLast(i)'
    BY <1>3, <2>3 DEF AddedLast, Processes, Told
  <2>6. RightOrInQueue(i)'
    BY <2>1 DEF RightOrInQueue, Told
  <2>. QED
    BY <2>4, <2>5, <2>6
<1>. QED
  BY <1>5, <1>6 DEF InOrder

\* An item that only the reindex can vouch for, which is about to clear the index.
LEMMA ClearedInOrder ==
  ASSUME Peace', NEW i \in calm' \ sure', crawl' = "clear"
  PROVE  (RemovedInQueue(i) /\ AddedLast(i) /\ RightOrInQueue(i))'
<1>. USE DEF Peace, TypeInv
<1>1. /\ \A m \in Message : OnItsWay(m)' => ~Told(m, i)
      /\ \A k \in 1 .. Len(tasks') : tasks'[k].owner # Crawler => tasks'[k].does[i] = Keep
  BY DEF CalmIsQuiet, Told
<1>2. RemovedInQueue(i)'
  BY <1>1 DEF RemovedInQueue, Removes, Keep
<1>3. \A c \in Consumers : ~Processes(c, i)'
  <2>1. ASSUME NEW c \in Consumers, step'[c] # "idle"
        PROVE  current'[c] \in Message /\ OnItsWay(current[c])'
    BY <2>1 DEF TypeOK, OnItsWay
  <2>. QED
    BY <1>1, <2>1 DEF Processes, Told
<1>4. AddedLast(i)' /\ RightOrInQueue(i)'
  BY <1>3 DEF AddedLast, RightOrInQueue, Gap
<1>. QED
  BY <1>2, <1>4

\* The entry of a file is removed by the only consumer that has its event.
LEMMA EntryInOrder ==
  ASSUME Peace, NEW c \in Consumers, RemoveEntry(c), NEW i \in Items, current[c].item = i,
         i \in Live'
  PROVE  (RemovedInQueue(i) /\ AddedLast(i) /\ RightOrInQueue(i))'
<1>. USE DEF Peace, TypeInv
<1>1. /\ step[c] = "clash" /\ step' = [step EXCEPT ![c] = "removing"]
      /\ UNCHANGED <<queue, current, crawler>>
  BY DEF RemoveEntry, Proceed, messages
<1>2. /\ current[c] \in queue
      /\ \A d \in Consumers \ {c} : current[c] \notin batch[d]
      /\ UNCHANGED history
  BY <1>1 DEF RemoveEntry, Live
<1>3. current[c] \in Message /\ OnItsWay(current[c]) /\ Told(current[c], i)
  BY <1>1, CurrentTypes DEF OnItsWay, StepFits, Told
<1>4. \E m \in queue' : Told(m, i)
  BY <1>1, <1>2, <1>3
<1>5. Agrees(i)
  BY <1>1, <1>2 DEF Live, AllAgree, crawler, history
<1>6. ASSUME NEW d \in Consumers, d # c PROVE ~Processes(d, i)
  <2>1. Processes(d, i) => /\ current[d] \in Message /\ current[d] \in batch[d]
                           /\ OnItsWay(current[d]) /\ Told(current[d], i)
    BY CurrentTypes DEF OnItsWay, Processes
  <2>. QED
    BY <1>2, <1>3, <1>5, <1>6, <2>1 DEF Agrees
<1>7. AddedLast(i)'
  <2>1. ASSUME NEW d \in Consumers, Processes(d, i)' PROVE d = c
    BY <1>1, <1>6, <2>1 DEF Processes, Told, TypeOK
  <2>2. step'[c] = "removing"
    BY <1>1 DEF TypeOK
  <2>. QED
    BY <2>1, <2>2 DEF AddedLast
<1>. QED
  BY <1>4, <1>7 DEF RemovedInQueue, RightOrInQueue, Told

\* Where a consumer that begins to wait for a removal comes from.
LEMMA RemovalFrom ==
  ASSUME TypeOK, Next, NEW c \in Consumers, step[c] # "removing", step'[c] = "removing"
  PROVE  RemoveEntry(c)
<1>1. CASE UNCHANGED step
  BY <1>1
<1>2. ASSUME NEW d \in Consumers, Consume(d) \/ Mishap(d)
      PROVE  RemoveEntry(c)
  BY <1>2 DEF Consume, Mishap, GivesUp, TimesOut, CallFails, NoAnswer, Misread, Unreadable,
         UnreadableFirst, GivenUp, Crash, Receive, IndexItem, LookUp, SkipEvent, RejectEvent, RemoveItem,
              RemoveEntry, AddAgain, Acknowledge, Begin, Proceed, Finish, TypeOK
<1>3. CASE Succeeds \/ Fails
  BY <1>3 DEF Succeeds, Fails, Proceed, Finish, TypeOK, consumer
<1>4. \/ UNCHANGED step
      \/ \E d \in Consumers : Consume(d) \/ Mishap(d)
      \/ Succeeds \/ Fails
  BY DEF Next, Change, CreateItem, UpdateItem, MoveFile, TrashFile, RestoreFile, DeleteItem, Announce,
         Reappears, BeginCrawl, Crawl, FetchPage, ScriptPage, FetchedKind, ClearIndex, ScriptKindDone,
         FillIndex, NothingToFill, FetchFails, CrawlerTimesOut, CrawlerStops, consumer
<1>. QED
  BY <1>1, <1>2, <1>3, <1>4

-----------------------------------------------------------------------------
\* Any other step: it adds no removal of the item.
LEMMA NothingRemoved ==
  ASSUME Peace, Peace', Next, TaskStep, ~Change, NEW i \in Items, i \in Live, i \in Live',
         \A c \in Consumers : RemoveEntry(c) => current[c].item # i
  PROVE  Listed(i)' = Listed(i) /\ NoMoreRemovals(i)
<1>. USE DEF Peace, TypeInv
<1>1. Listed(i)' = Listed(i)
  BY NoNewMessages DEF Listed, services
<1>2. ASSUME NEW o \in Consumers, ~Awaits(o), Awaits(o)'
      PROVE  Wants(o)'[i] # 0 \/ Listed(i) = 0
  <2>1. step[o] \notin Waiting /\ step'[o] \in Waiting /\ Wants(o)' = Awaited(o)'
    BY <1>2, Parameters DEF Awaits, Wants
  <2>2. current'[o] \in Message /\ OnItsWay(current[o])'
    BY <2>1 DEF TypeOK, Waiting, OnItsWay
  <2>3. Agrees(i)'
    BY DEF Live, AllAgree
  <2>4. CASE step'[o] \in {"adding", "readding"}
    <3>1. current'[o].item = i => current'[o].ver = Listed(i)
      BY <1>1, <2>2, <2>3, <2>4 DEF StepFits, Agrees, Told
    <3>. QED
      BY <2>1, <2>4, <3>1 DEF Awaited, Only, Keep
  <2>5. CASE step'[o] = "deleting"
    <3>1. current'[o].item = i => Listed(i) = 0
      BY <1>1, <2>2, <2>3, <2>5 DEF StepFits, Agrees, Told
    <3>. QED
      BY <2>1, <2>5, <3>1 DEF Awaited, Only, Keep
  <2>6. CASE step'[o] = "removing"
    <3>1. RemoveEntry(o)
      BY <2>1, <2>6, RemovalFrom DEF Waiting
    <3>2. current'[o].item # i
      BY <1>2, <3>1 DEF RemoveEntry, Proceed
    <3>. QED
      BY <2>1, <3>2 DEF Awaited, Only, Keep
  <2>. QED
    BY <2>1, <2>4, <2>5, <2>6 DEF Waiting
<1>3. NoMoreRemovals(i)
  BY <1>1, <1>2, RemovalsKept
<1>. QED
  BY <1>1, <1>3

LEMMA OtherInOrder ==
  ASSUME Peace, Peace', Next, TaskStep, ~Change, NEW i \in Items, i \in Live, i \in Live',
         \A c \in Consumers : RemoveEntry(c) => current[c].item # i,
         CanRefill, RemovedInQueue(i), AddedLast(i), RightOrInQueue(i)
  PROVE  (RemovedInQueue(i) /\ AddedLast(i) /\ RightOrInQueue(i))'
<1>. USE DEF Peace, TypeInv
<1>1. Listed(i)' = Listed(i)
  BY NothingRemoved
<1>2. PICK s \in {0, 1} : \A k \in 1 .. Len(tasks') :
        /\ Removes(k, i)' => k + s \in 1 .. Len(tasks) /\ Removes(k + s, i)
        /\ \A c \in Consumers : tasks'[k].owner = c =>
             \/ k + s \in 1 .. Len(tasks) /\ tasks[k + s].owner = c
             \/ s = 0 /\ k = Len(tasks) + 1 /\ ~Awaits(c)
  BY NothingRemoved DEF NoMoreRemovals
<1>. DEFINE quiet == \A k \in 1 .. Len(tasks) : ~Removes(k, i)
<1>3. quiet => \A k \in 1 .. Len(tasks') : ~Removes(k, i)'
  BY <1>2
<1>4. quiet /\ (Gap(i) \/ index[i] = Listed(i)) => Gap(i)' \/ index'[i] = Listed(i)
  BY GapFilled
<1>5. Agrees(i)
  BY DEF Live, AllAgree
<1>6. ASSUME NEW m \in queue, Told(m, i), m \notin queue'
      PROVE  quiet /\ (Gap(i) \/ index[i] = Listed(i))
  <2>1. PICK c \in Consumers : step[c] \in {"ack", "drop"} /\ current[c] = m
    BY <1>6, QueueFrom
  <2>2. Processes(c, i)
    BY <1>6, <2>1 DEF Processes
  <2>. QED
    BY <2>1, <2>2 DEF AddedLast
<1>7. RemovedInQueue(i)'
  <2>1. ASSUME NEW k \in 1 .. Len(tasks'), Removes(k, i)'
        PROVE  \E m \in queue' : Told(m, i)
    <3>1. ~quiet
      BY <1>3, <2>1
    <3>2. \E m \in queue : Told(m, i)
      BY <3>1 DEF RemovedInQueue
    <3>. QED
      BY <1>6, <3>1, <3>2
  <2>. QED
    BY <2>1 DEF RemovedInQueue, Told
<1>8. RightOrInQueue(i)'
  <2>1. CASE \E m \in queue : Told(m, i)
    BY <1>1, <1>4, <1>6, <2>1 DEF RightOrInQueue, Told
  <2>2. CASE ~ \E m \in queue : Told(m, i)
    <3>1. quiet /\ (Gap(i) \/ index[i] = Listed(i))
      BY <2>2 DEF RemovedInQueue, RightOrInQueue
    <3>. QED
      BY <1>1, <1>4, <3>1 DEF RightOrInQueue
  <2>. QED
    BY <2>1, <2>2
<1>9. ASSUME NEW c \in Consumers, step'[c] \in {"adding", "readding"}, Processes(c, i)',
             NEW j \in 1 .. Len(tasks'), NEW k \in 1 .. Len(tasks'),
             tasks'[j].owner = c, Removes(k, i)'
      PROVE  k < j
  <2>1. k + s \in 1 .. Len(tasks) /\ Removes(k + s, i)
    BY <1>2, <1>9
  <2>2. CASE s = 0 /\ j = Len(tasks) + 1
    BY <2>1, <2>2
  <2>3. CASE j + s \in 1 .. Len(tasks) /\ tasks[j + s].owner = c
    <3>1. step[c] \in Waiting
      BY <2>3, Parameters DEF Owned, Awaits, Waiters
    <3>2. step[c] = step'[c] /\ current[c] = current'[c]
      <4>1. ASSUME NEW m \in batch[c], LookUp(c, m) \/ SkipEvent(c, m) \/ RejectEvent(c, m)
            PROVE  FALSE
        BY <3>1, <4>1 DEF LookUp, SkipEvent, RejectEvent, Begin, Waiting
      <4>. QED
        BY <1>9, <3>1, <4>1, StepFrom
    <3>3. Processes(c, i)
      BY <1>9, <3>2 DEF Processes, Told
    <3>4. k + s < j + s
      BY <1>9, <2>1, <2>3, <3>2, <3>3 DEF AddedLast
    <3>. QED
      BY <3>4
  <2>. QED
    BY <1>2, <1>9, <2>2, <2>3
<1>g. \A c \in Consumers : GivesUp(c) => ~Processes(c, i)'
  BY GivenUpGone DEF Processes, Told
<1>10. ASSUME NEW c \in Consumers, step'[c] = "ack", Processes(c, i)'
       PROVE  (\A k \in 1 .. Len(tasks') : ~Removes(k, i)') /\ (Gap(i)' \/ index'[i] = Listed(i))
  <2>1. Told(current[c], i)'
    BY <1>10 DEF Processes
  <2>2. CASE step'[c] = step[c] /\ current'[c] = current[c]
    <3>1. Processes(c, i)
      BY <1>10, <2>1, <2>2 DEF Processes, Told
    <3>2. quiet /\ (Gap(i) \/ index[i] = Listed(i))
      BY <1>10, <2>2, <3>1 DEF AddedLast
    <3>. QED
      BY <1>3, <1>4, <3>2
  <2>3. ASSUME NEW m \in batch[c], LookUp(c, m) \/ SkipEvent(c, m) \/ RejectEvent(c, m),
               current'[c] = m
        PROVE  (\A k \in 1 .. Len(tasks') : ~Removes(k, i)') /\ (Gap(i)' \/ index'[i] = Listed(i))
    <3>1. m \in Message /\ OnItsWay(m) /\ Told(m, i)
      BY <2>1, <2>3 DEF OnItsWay, TypeOK, Told
    <3>2. LookUp(c, m)
      BY <2>3, <3>1 DEF SkipEvent, RejectEvent, Told
    <3>3. index[i] = 0 /\ index' = index /\ m.act = "delete"
      BY <1>10, <3>1, <3>2 DEF LookUp, Told, meili, TypeOK
    <3>4. Listed(i) = 0
      BY <1>5, <3>1, <3>3 DEF Agrees
    <3>5. quiet
      BY <3>4 DEF Removes
    <3>. QED
      BY <1>3, <3>3, <3>4, <3>5
  <2>4. CASE /\ Succeeds /\ Head(tasks).owner = c /\ current'[c] = current[c]
             /\ step[c] # "removing"
    <3>1. 1 \in 1 .. Len(tasks) /\ Head(tasks) = tasks[1] /\ tasks[1].owner = c
      BY <2>4, Popped DEF Succeeds, TypeOK
    <3>2. step[c] \in Waiting /\ tasks[1].does = Awaited(c)
      BY <3>1, Parameters DEF Owned, Awaits, Wants, Waiters
    <3>3. Told(current[c], i) /\ Processes(c, i)
      BY <2>1, <2>4, <3>2 DEF Told, Processes, Waiting
    <3>4. /\ current[c] \in Message /\ OnItsWay(current[c])
          /\ current[c].item = i /\ current[c].ver = Listed(i)
          /\ current[c].act = "delete" => Listed(i) = 0
      BY <1>5, <3>2, <3>3, CurrentTypes DEF Agrees, OnItsWay, Waiting, Told
    <3>5. index'[i] = IF tasks[1].does[i] = Keep THEN index[i] ELSE tasks[1].does[i]
      BY <2>4, <3>1 DEF Succeeds, Applied
    <3>6. CASE step[c] \in {"adding", "readding"}
      <4>1. quiet
        BY <3>1, <3>3, <3>6 DEF AddedLast
      <4>2. tasks[1].does[i] = Listed(i)
        BY <3>2, <3>4, <3>6 DEF Awaited, Only
      <4>3. Listed(i) # Keep
        BY DEF Listed, TypeOK, Keep
      <4>. QED
        BY <1>3, <3>5, <4>1, <4>2, <4>3
    <3>7. CASE step[c] = "deleting"
      <4>1. Listed(i) = 0
        BY <3>4, <3>7 DEF StepFits
      <4>2. quiet
        BY <4>1 DEF Removes
      <4>3. tasks[1].does[i] = 0
        BY <3>2, <3>4, <3>7 DEF Awaited, Only
      <4>. QED
        BY <1>3, <3>5, <4>1, <4>2, <4>3 DEF Keep
    <3>. QED
      BY <2>4, <3>2, <3>6, <3>7 DEF Waiting
  <2>5. step'[c] \notin {"adding", "readding"}
    BY <1>10
  <2>. QED
    BY <1>g, <1>10, <2>2, <2>3, <2>4, <2>5, StepFrom
<1>11. ASSUME NEW c \in Consumers, step'[c] = "drop", Processes(c, i)'
       PROVE  FALSE
  <2>1. CASE step'[c] = step[c] /\ current'[c] = current[c]
    BY <1>11, <2>1 DEF AddedLast, Processes, Told
  <2>2. ASSUME NEW m \in batch[c], LookUp(c, m) \/ SkipEvent(c, m) \/ RejectEvent(c, m),
               current'[c] = m
        PROVE  FALSE
    BY <1>11, <2>2 DEF LookUp, SkipEvent, RejectEvent, Processes, Told, TypeOK
  <2>. QED
    BY <1>g, <1>11, <2>1, <2>2, StepFrom
<1>12. AddedLast(i)'
  BY <1>1, <1>9, <1>10, <1>11 DEF AddedLast
<1>. QED
  BY <1>7, <1>8, <1>12

-----------------------------------------------------------------------------
Ready == Peace /\ InOrder /\ CanRefill

LEMMA InitReady == Init => Ready
<1>. SUFFICES ASSUME Init PROVE Ready
  OBVIOUS
<1>1. Peace
  BY InitPeace
<1>2. /\ Len(tasks) = 0 /\ crawl = "off" /\ calm = {} /\ sure = Items
      /\ \A c \in Consumers : step[c] = "idle"
      /\ \A i \in Items : index[i] = 0 /\ Listed(i) = 0
  BY DEF Init, Listed
<1>3. InOrder
  BY <1>2 DEF InOrder, Live, RemovedInQueue, AddedLast, RightOrInQueue, Processes
<1>4. CanRefill
  BY <1>2 DEF CanRefill
<1>. QED
  BY <1>1, <1>3, <1>4 DEF Ready

LEMMA NextReady == Ready /\ [Next]_vars => Ready'
<1>. SUFFICES ASSUME Ready, [Next]_vars PROVE Ready'
  OBVIOUS
<1>. USE DEF Ready
<1>1. Peace'
  BY NextPeace
<1>2. CASE UNCHANGED vars
  BY <1>1, <1>2 DEF vars, InOrder, CanRefill, Live, RemovedInQueue, AddedLast, RightOrInQueue, Processes,
                    Removes, Listed, Told, Gap, Refills, WasCleared, Filling
<1>3. CASE Change
  <2>1. calm' = {}
    BY <1>3 DEF Change, CreateItem, UpdateItem, MoveFile, TrashFile, RestoreFile, DeleteItem, Announce
  <2>2. InOrder'
    BY <1>1, <1>3, ChangeInOrder DEF Peace, TypeInv
  <2>. QED
    BY <1>1, <2>1, <2>2 DEF CanRefill
<1>4. CASE Next /\ ~Change
  <2>1. TaskStep
    BY <1>4, TaskSteps DEF Peace, TypeInv
  <2>2. CanRefill'
    BY <1>1, <1>4, CanRefillKept DEF Peace, TypeInv
  <2>3. ASSUME NEW i \in Live' PROVE (RemovedInQueue(i) /\ AddedLast(i) /\ RightOrInQueue(i))'
    <3>0. i \in Items
      BY <1>1 DEF Live, Peace, TypeInv, TypeOK
    <3>1. CASE i \notin Live
      BY <1>1, <1>4, <2>3, <3>1, LiveFrom, ClearedInOrder DEF Peace
    <3>2. ASSUME i \in Live, NEW c \in Consumers, RemoveEntry(c), current[c].item = i
          PROVE  (RemovedInQueue(i) /\ AddedLast(i) /\ RightOrInQueue(i))'
      BY <2>3, <3>0, <3>2, EntryInOrder
    <3>3. CASE i \in Live /\ \A c \in Consumers : RemoveEntry(c) => current[c].item # i
      <4>1. RemovedInQueue(i) /\ AddedLast(i) /\ RightOrInQueue(i)
        BY <3>3 DEF InOrder
      <4>. QED
        BY <1>1, <1>4, <2>1, <2>3, <3>0, <3>3, <4>1, OtherInOrder
    <3>. QED
      BY <3>1, <3>2, <3>3
  <2>. QED
    BY <1>1, <2>2, <2>3 DEF InOrder
<1>. QED
  BY <1>2, <1>3, <1>4

\* Also while tasks, other events and other consumers are still at work on it: an
\* item whose last change was announced in peace, or that a reindex has passed
\* undisturbed, is in the index as its service lists it, or an event of it is
\* still in the queue and will be delivered again, whatever becomes of those who
\* have received it (_process_message deletes the message last), unless the
\* consumer took a failure for success, which makes the item unsure.
RightOrToCome == crawl = "off" => \A i \in sure :
  index[i] = Listed(i) \/ \E m \in queue : Told(m, i)

THEOREM RightOrToComeCorrect == Spec => []RightOrToCome
<1>1. Ready => RightOrToCome
  BY DEF Ready, InOrder, RightOrInQueue, RightOrToCome, Live, Gap, Filling
<1>2. Spec => []Ready
  BY InitReady, NextReady, PTL DEF Spec
<1>. QED
  BY <1>1, <1>2, PTL

\* Whatever was lost, overtaken or processed twice before: once nothing of an
\* item is on its way, the index holds what its service lists, if its last
\* change was announced in peace, and no failure of its event taken for success,
\* or if a reindex has gone by undisturbed
\* (_process_message acknowledges last; _wait_and_check; reindex): what is
\* removed is still to be added by an event of the queue, and no removal
\* follows what a consumer has seen done.
THEOREM SettledMeansIndexedCorrect == Spec => []SettledMeansIndexed
<1>1. Ready => SettledMeansIndexed
  <2>. SUFFICES ASSUME Ready, NEW i \in sure, Settled(i) PROVE index[i] = Listed(i)
    BY DEF SettledMeansIndexed
  <2>1. i \in Live /\ ~Gap(i)
    BY DEF Settled, Live, Gap, Filling
  <2>2. \A m \in queue : ~Told(m, i)
    BY DEF Settled, InFlight
  <2>. QED
    BY <2>1, <2>2 DEF Ready, InOrder, RightOrInQueue
<1>2. Spec => []Ready
  BY InitReady, NextReady, PTL DEF Spec
<1>. QED
  BY <1>1, <1>2, PTL
=============================================================================
