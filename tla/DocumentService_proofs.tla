------------------------ MODULE DocumentService_proofs ------------------------
(***************************************************************************)
(* Proofs about overlapping edits of documents, for any number of requests *)
(* and documents: nothing a document shows is missing from its history,    *)
(* distinct version numbers mean serial edits, events follow changes, and  *)
(* the whole implements VersionLog.                                        *)
(***************************************************************************)
EXTENDS DocumentService, TLAPS

\* What the stages of a request say about its session.
SessionOK ==
  \A r \in Requests :
    /\ at[r] \notin {"idle", "done"} => doc[r] \in Docs /\ row[doc[r]] # None
    /\ at[r] \in {"fetched", "editing", "removing"} =>
         seen[r] \in Texts /\ seen[r].version \in 1 .. Len(history[doc[r]])
    /\ at[r] = "editing" =>
         edit[r] \in Edits /\ edit[r].version = seen[r].version + 1

\* A document has its first version row from its creation on, and no number it
\* has not had a row for.
RowsOK ==
  \A d \in Docs :
    /\ row[d] = None <=> Len(history[d]) = 0
    /\ row[d] # None => row[d].version \in 1 .. Len(history[d])

\* Announcements never run ahead of the history.
EventsOK == /\ \A d \in Docs : announced[d] <= Len(history[d])
            /\ \A r \in Requests : at[r] = "refreshed" =>
                 covers[r] <= Len(history[doc[r]])

Typed == TypeOK /\ SessionOK /\ RowsOK /\ EventsOK

\* What an edit does to the rows, and what everything else leaves alone.
Creates(d, t, c) ==
  /\ row[d] = None
  /\ row' = [row EXCEPT ![d] = [title |-> t, content |-> c, version |-> 1]]
  /\ history' = [history EXCEPT ![d] =
                  <<[title |-> t, content |-> c, version |-> 1]>>]
  /\ deleted' = deleted

Edited(r) == /\ at[r] = "editing"
             /\ row' = [row EXCEPT ![doc[r]] = Written(r)]
             /\ history' = [history EXCEPT ![doc[r]] = Append(@, VersionRow(r))]
             /\ deleted' = deleted

-----------------------------------------------------------------------------
(* Types.                                                                  *)

\* Nothing has been requested yet.
LEMMA TypedInit == Init => Typed
  BY ParametersOK DEF Init, Typed, TypeOK, SessionOK, RowsOK, EventsOK

\* An edit adds one version row to its document and leaves the others alone.
LEMMA EditRows ==
  ASSUME Typed, NEW r \in Requests, CommitEdit(r)
  PROVE  LET d == doc[r]
             v == edit[r].version
         IN  /\ d \in Docs
             /\ row[d] # None
             /\ Written(r) \in Texts
             /\ VersionRow(r) \in Texts
             /\ v \in 2 .. Len(history[d]) + 1
             /\ row' \in [Docs -> Texts \cup {None}]
             /\ history' \in [Docs -> Seq(Texts)]
             /\ \A e \in Docs \ {d} : row'[e] = row[e] /\ history'[e] = history[e]
             /\ row'[d] = Written(r)
             /\ history'[d] = Append(history[d], VersionRow(r))
             /\ Len(history'[d]) = Len(history[d]) + 1
             /\ row'[d] # None
             /\ row'[d].version = v
<1> DEFINE d == doc[r]
<1>1. d \in Docs /\ row[d] # None /\ row[d] \in Texts /\ history[d] \in Seq(Texts)
  BY DEF CommitEdit, Typed, TypeOK, SessionOK
<1>2. /\ seen[r] \in Texts
      /\ seen[r].version \in 1 .. Len(history[d])
      /\ edit[r] \in Edits
      /\ edit[r].version = seen[r].version + 1
  BY DEF CommitEdit, Typed, SessionOK
<1>3. edit[r].version \in 2 .. Len(history[d]) + 1
  BY <1>1, <1>2
<1>4. Written(r) \in Texts /\ VersionRow(r) \in Texts
  BY <1>1, <1>2 DEF Written, VersionRow, Texts, Edits
<1>5. /\ row' \in [Docs -> Texts \cup {None}]
      /\ \A e \in Docs \ {d} : row'[e] = row[e]
      /\ row'[d] = Written(r)
  BY <1>1, <1>4 DEF CommitEdit, Typed, TypeOK
<1>6. /\ history' \in [Docs -> Seq(Texts)]
      /\ \A e \in Docs \ {d} : history'[e] = history[e]
      /\ history'[d] = Append(history[d], VersionRow(r))
  BY <1>1, <1>4 DEF CommitEdit, Typed, TypeOK
<1>7. Len(history'[d]) = Len(history[d]) + 1
  BY <1>1, <1>4, <1>6
<1>8. row'[d] # None /\ row'[d].version = edit[r].version
  BY <1>4, <1>5, ParametersOK DEF Written, Texts
<1> QED
  BY <1>1, <1>3, <1>4, <1>5, <1>6, <1>7, <1>8

\* One request's step keeps what is known of every session and row.
LEMMA TypedRequest ==
  ASSUME Typed, NEW r \in Requests, Step(r)
  PROVE  Typed'
<1>1. ASSUME NEW d \in Docs, NEW t \in Titles, NEW c \in Contents,
             Create(r, d, t, c)
      PROVE  Typed'
  <2>1. <<[title |-> t, content |-> c, version |-> 1]>> \in Seq(Texts)
    BY <1>1 DEF Texts
  <2>2. TypeOK'
    BY <1>1, <2>1
    DEF Typed, TypeOK, SessionOK, RowsOK, EventsOK, Create,
        Becomes, rows, session, events
  <2>3. SessionOK'
    BY <1>1, <2>1, ParametersOK
    DEF Typed, TypeOK, SessionOK, RowsOK, EventsOK, Create,
        Becomes, rows, session, events, Texts
  <2>4. RowsOK'
    BY <1>1, <2>1, ParametersOK
    DEF Typed, TypeOK, SessionOK, RowsOK, EventsOK, Create,
        Becomes, rows, session, events, Texts
  <2>5. EventsOK'
    BY <1>1, <2>1
    DEF Typed, TypeOK, SessionOK, RowsOK, EventsOK, Create,
        Becomes, rows, session, events, Texts
  <2>6. QED
    BY <2>2, <2>3, <2>4, <2>5 DEF Typed
<1>2. ASSUME NEW d \in Docs, Fetch(r, d)
      PROVE  Typed'
  <2>1. TypeOK'
    BY <1>2
    DEF Typed, TypeOK, SessionOK, RowsOK, EventsOK, Fetch, Visible,
        Becomes, rows, session, events, Texts
  <2>2. SessionOK'
    BY <1>2, ParametersOK
    DEF Typed, TypeOK, SessionOK, RowsOK, EventsOK, Fetch, Visible,
        Becomes, rows, session, events, Texts
  <2>3. RowsOK'
    BY <1>2, ParametersOK
    DEF Typed, TypeOK, SessionOK, RowsOK, EventsOK, Fetch, Visible,
        Becomes, rows, session, events, Texts
  <2>4. EventsOK'
    BY <1>2
    DEF Typed, TypeOK, SessionOK, RowsOK, EventsOK, Fetch, Visible,
        Becomes, rows, session, events, Texts
  <2>5. QED
    BY <2>1, <2>2, <2>3, <2>4 DEF Typed
<1>3. ASSUME NEW t \in Titles, NEW c \in Contents, NEW whole \in BOOLEAN,
             Assigns(r, whole, t, c)
      PROVE  Typed'
  <2>1. [whole |-> whole, title |-> t, content |-> c,
         version |-> seen[r].version + 1] \in Edits
    BY <1>3 DEF Assigns, Checked, Typed, SessionOK, Texts, Edits
  <2>2. TypeOK'
    BY <1>3, <2>1
    DEF Typed, TypeOK, SessionOK, RowsOK, EventsOK, Assigns, Checked, Visible,
        Becomes, rows, session, events
  <2>3. SessionOK'
    BY <1>3, <2>1, ParametersOK
    DEF Typed, TypeOK, SessionOK, RowsOK, EventsOK, Assigns, Checked, Visible,
        Becomes, rows, session, events, Texts
  <2>4. RowsOK'
    BY <1>3, <2>1, ParametersOK
    DEF Typed, TypeOK, SessionOK, RowsOK, EventsOK, Assigns, Checked, Visible,
        Becomes, rows, session, events, Texts
  <2>5. EventsOK'
    BY <1>3, <2>1
    DEF Typed, TypeOK, SessionOK, RowsOK, EventsOK, Assigns, Checked, Visible,
        Becomes, rows, session, events, Texts
  <2>6. QED
    BY <2>2, <2>3, <2>4, <2>5 DEF Typed
<1>4. ASSUME Delete(r)
      PROVE  Typed'
  <2>1. TypeOK'
    BY <1>4
    DEF Typed, TypeOK, SessionOK, RowsOK, EventsOK, Delete, Checked, Visible,
        Becomes, rows, session, events, Texts
  <2>2. SessionOK'
    BY <1>4, ParametersOK
    DEF Typed, TypeOK, SessionOK, RowsOK, EventsOK, Delete, Checked, Visible,
        Becomes, rows, session, events, Texts
  <2>3. RowsOK'
    BY <1>4, ParametersOK
    DEF Typed, TypeOK, SessionOK, RowsOK, EventsOK, Delete, Checked, Visible,
        Becomes, rows, session, events, Texts
  <2>4. EventsOK'
    BY <1>4
    DEF Typed, TypeOK, SessionOK, RowsOK, EventsOK, Delete, Checked, Visible,
        Becomes, rows, session, events, Texts
  <2>5. QED
    BY <2>1, <2>2, <2>3, <2>4 DEF Typed
<1>5. ASSUME CommitEdit(r)
      PROVE  Typed'
  <2>1. TypeOK'
    BY <1>5, EditRows
    DEF Typed, TypeOK, CommitEdit, Flushed, Becomes, events
  <2>2. SessionOK'
    <3>1. \A e \in Docs : /\ row[e] # None => row'[e] # None
                          /\ Len(history[e]) \in Nat /\ Len(history'[e]) \in Nat
                          /\ Len(history[e]) <= Len(history'[e])
      BY <1>5, EditRows DEF Typed, TypeOK
    <3>2. ASSUME NEW q \in Requests PROVE SessionOK!(q)'
      <4>1. CASE q = r
        BY <1>5, <4>1, EditRows DEF Typed, TypeOK, CommitEdit, Becomes
      <4>2. CASE q # r
        <5>1. at'[q] = at[q] /\ doc'[q] = doc[q] /\ seen'[q] = seen[q] /\ edit'[q] = edit[q]
          BY <1>5, <4>2 DEF Typed, TypeOK, CommitEdit, Flushed, Becomes
        <5>2. SessionOK!(q)
          BY DEF Typed, SessionOK
        <5>3. at[q] \in {"fetched", "editing", "removing"} =>
                doc[q] \in Docs /\ seen[q] \in Texts
          BY <5>2
        <5> QED
          BY <3>1, <5>1, <5>2, <5>3 DEF Texts
      <4> QED
        BY <4>1, <4>2
    <3> QED
      BY <3>2 DEF SessionOK
  <2>3. RowsOK'
    <3>1. ASSUME NEW e \in Docs PROVE RowsOK!(e)'
      <4>1. CASE e = doc[r]
        <5>1. /\ row'[e] # None
              /\ row'[e].version \in 2 .. Len(history[e]) + 1
              /\ Len(history'[e]) = Len(history[e]) + 1
          BY <1>5, <4>1, EditRows
        <5>2. Len(history[e]) \in Nat
          BY DEF Typed, TypeOK
        <5> QED
          BY <5>1, <5>2
      <4>2. CASE e # doc[r]
        BY <1>5, <4>2, EditRows DEF Typed, RowsOK
      <4> QED
        BY <4>1, <4>2
    <3> QED
      BY <3>1 DEF RowsOK
  <2>4. EventsOK'
    BY <1>5, EditRows DEF Typed, TypeOK, SessionOK, EventsOK, CommitEdit, Becomes, events
  <2>5. QED
    BY <2>1, <2>2, <2>3, <2>4 DEF Typed
<1>6. ASSUME CommitDelete(r)
      PROVE  Typed'
  <2>1. TypeOK'
    BY <1>6
    DEF Typed, TypeOK, SessionOK, RowsOK, EventsOK, CommitDelete, Flushed,
        Becomes, rows, session, events, Texts
  <2>2. SessionOK'
    BY <1>6, ParametersOK
    DEF Typed, TypeOK, SessionOK, RowsOK, EventsOK, CommitDelete, Flushed,
        Becomes, rows, session, events, Texts
  <2>3. RowsOK'
    BY <1>6, ParametersOK
    DEF Typed, TypeOK, SessionOK, RowsOK, EventsOK, CommitDelete, Flushed,
        Becomes, rows, session, events, Texts
  <2>4. EventsOK'
    BY <1>6
    DEF Typed, TypeOK, SessionOK, RowsOK, EventsOK, CommitDelete, Flushed,
        Becomes, rows, session, events, Texts
  <2>5. QED
    BY <2>1, <2>2, <2>3, <2>4 DEF Typed
<1>7. ASSUME Refresh(r)
      PROVE  Typed'
  <2>1. Len(history[doc[r]]) \in Nat
    BY <1>7 DEF Refresh, Typed, TypeOK, SessionOK
  <2>2. TypeOK'
    BY <1>7, <2>1
    DEF Typed, TypeOK, SessionOK, RowsOK, EventsOK, Refresh,
        Becomes, rows, session, events
  <2>3. SessionOK'
    BY <1>7, <2>1, ParametersOK
    DEF Typed, TypeOK, SessionOK, RowsOK, EventsOK, Refresh,
        Becomes, rows, session, events, Texts
  <2>4. RowsOK'
    BY <1>7, <2>1, ParametersOK
    DEF Typed, TypeOK, SessionOK, RowsOK, EventsOK, Refresh,
        Becomes, rows, session, events, Texts
  <2>5. EventsOK'
    BY <1>7, <2>1
    DEF Typed, TypeOK, SessionOK, RowsOK, EventsOK, Refresh,
        Becomes, rows, session, events, Texts
  <2>6. QED
    BY <2>2, <2>3, <2>4, <2>5 DEF Typed
<1>8. ASSUME Publish(r)
      PROVE  Typed'
  <2>1. TypeOK'
    BY <1>8
    DEF Typed, TypeOK, SessionOK, RowsOK, EventsOK, Publish, Ends, Flushed,
        Becomes, rows, session, events, Texts
  <2>2. SessionOK'
    BY <1>8, ParametersOK
    DEF Typed, TypeOK, SessionOK, RowsOK, EventsOK, Publish, Ends, Flushed,
        Becomes, rows, session, events, Texts
  <2>3. RowsOK'
    BY <1>8, ParametersOK
    DEF Typed, TypeOK, SessionOK, RowsOK, EventsOK, Publish, Ends, Flushed,
        Becomes, rows, session, events, Texts
  <2>4. EventsOK'
    BY <1>8
    DEF Typed, TypeOK, SessionOK, RowsOK, EventsOK, Publish, Ends, Flushed,
        Becomes, rows, session, events, Texts
  <2>5. QED
    BY <2>1, <2>2, <2>3, <2>4 DEF Typed
<1>9. ASSUME PublishDeleted(r)
      PROVE  Typed'
  <2>1. TypeOK'
    BY <1>9
    DEF Typed, TypeOK, SessionOK, RowsOK, EventsOK, PublishDeleted, Ends, Flushed,
        Becomes, rows, session, events, Texts
  <2>2. SessionOK'
    BY <1>9, ParametersOK
    DEF Typed, TypeOK, SessionOK, RowsOK, EventsOK, PublishDeleted, Ends, Flushed,
        Becomes, rows, session, events, Texts
  <2>3. RowsOK'
    BY <1>9, ParametersOK
    DEF Typed, TypeOK, SessionOK, RowsOK, EventsOK, PublishDeleted, Ends, Flushed,
        Becomes, rows, session, events, Texts
  <2>4. EventsOK'
    BY <1>9
    DEF Typed, TypeOK, SessionOK, RowsOK, EventsOK, PublishDeleted, Ends, Flushed,
        Becomes, rows, session, events, Texts
  <2>5. QED
    BY <2>1, <2>2, <2>3, <2>4 DEF Typed
<1>10. ASSUME LosesEvent(r)
      PROVE  Typed'
  <2>1. lost + 1 \in 0 .. MaxLost
    BY <1>10, ParametersOK DEF LosesEvent, Typed, TypeOK
  <2>2. TypeOK'
    BY <1>10, <2>1
    DEF Typed, TypeOK, SessionOK, RowsOK, EventsOK, LosesEvent, Ends, Flushed,
        Becomes, rows, session, events
  <2>3. SessionOK'
    BY <1>10, <2>1, ParametersOK
    DEF Typed, TypeOK, SessionOK, RowsOK, EventsOK, LosesEvent, Ends, Flushed,
        Becomes, rows, session, events, Texts
  <2>4. RowsOK'
    BY <1>10, <2>1, ParametersOK
    DEF Typed, TypeOK, SessionOK, RowsOK, EventsOK, LosesEvent, Ends, Flushed,
        Becomes, rows, session, events, Texts
  <2>5. EventsOK'
    BY <1>10, <2>1
    DEF Typed, TypeOK, SessionOK, RowsOK, EventsOK, LosesEvent, Ends, Flushed,
        Becomes, rows, session, events, Texts
  <2>6. QED
    BY <2>2, <2>3, <2>4, <2>5 DEF Typed
<1>11. ASSUME GivesUp(r)
      PROVE  Typed'
  <2>1. TypeOK'
    BY <1>11
    DEF Typed, TypeOK, SessionOK, RowsOK, EventsOK, GivesUp, Ends, Flushed,
        Becomes, rows, session, events, Texts
  <2>2. SessionOK'
    BY <1>11, ParametersOK
    DEF Typed, TypeOK, SessionOK, RowsOK, EventsOK, GivesUp, Ends, Flushed,
        Becomes, rows, session, events, Texts
  <2>3. RowsOK'
    BY <1>11, ParametersOK
    DEF Typed, TypeOK, SessionOK, RowsOK, EventsOK, GivesUp, Ends, Flushed,
        Becomes, rows, session, events, Texts
  <2>4. EventsOK'
    BY <1>11
    DEF Typed, TypeOK, SessionOK, RowsOK, EventsOK, GivesUp, Ends, Flushed,
        Becomes, rows, session, events, Texts
  <2>5. QED
    BY <2>1, <2>2, <2>3, <2>4 DEF Typed
<1>12. ASSUME Export(r)
      PROVE  Typed'
  <2>1. Render(r) \in Renders
    BY <1>12 DEF Export, Render, Renders, Typed, SessionOK, Texts
  <2>2. TypeOK'
    BY <1>12, <2>1
    DEF Typed, TypeOK, SessionOK, RowsOK, EventsOK, Export, Ends, Flushed,
        Becomes, rows, session, events
  <2>3. SessionOK'
    BY <1>12, <2>1, ParametersOK
    DEF Typed, TypeOK, SessionOK, RowsOK, EventsOK, Export, Ends, Flushed,
        Becomes, rows, session, events, Texts
  <2>4. RowsOK'
    BY <1>12, <2>1, ParametersOK
    DEF Typed, TypeOK, SessionOK, RowsOK, EventsOK, Export, Ends, Flushed,
        Becomes, rows, session, events, Texts
  <2>5. EventsOK'
    BY <1>12, <2>1
    DEF Typed, TypeOK, SessionOK, RowsOK, EventsOK, Export, Ends, Flushed,
        Becomes, rows, session, events, Texts
  <2>6. QED
    BY <2>2, <2>3, <2>4, <2>5 DEF Typed
<1>13. ASSUME Restore(r)
       PROVE  Typed'
  <2>1. PICK i \in 1 .. Len(history[doc[r]]) :
          Assigns(r, FALSE, history[doc[r]][i].title, history[doc[r]][i].content)
    BY <1>13 DEF Restore
  <2>2. history[doc[r]] \in Seq(Texts)
    BY <2>1 DEF Assigns, Checked, Typed, TypeOK, SessionOK
  <2>3. history[doc[r]][i] \in Texts
    BY <2>2
  <2>4. history[doc[r]][i].title \in Titles /\ history[doc[r]][i].content \in Contents
    BY <2>3 DEF Texts
  <2>5. QED
    BY <2>1, <2>4, <1>3
<1>14. QED
  BY <1>1, <1>2, <1>3, <1>4, <1>5, <1>6, <1>7, <1>8, <1>9, <1>10, <1>11, <1>12, <1>13 DEF Step, Put, Patch

\* Typed is inductive.
LEMMA TypedStep == Typed /\ [Next]_vars => Typed'
<1> SUFFICES ASSUME Typed, [Next]_vars PROVE Typed'
  OBVIOUS
<1>1. CASE UNCHANGED vars
  BY <1>1 DEF Typed, TypeOK, SessionOK, RowsOK, EventsOK, vars, rows, session, events
<1>2. CASE Next
  BY <1>2, TypedRequest DEF Next
<1> QED
  BY <1>1, <1>2

\* Typed holds of every behaviour.
LEMMA TypedCorrect == Spec => []Typed
<1> QED
  BY TypedInit, TypedStep, PTL DEF Spec

\* Documents, sessions, version rows and events have their types, whatever the
\* requests do (document_service.py, documents.py).
THEOREM DocumentsTypeCorrect == Spec => []TypeOK
<1>1. Typed => TypeOK
  BY DEF Typed
<1> QED
  BY <1>1, TypedCorrect, PTL

-----------------------------------------------------------------------------
(* Rows and their history.                                                 *)

\* What a session has loaded, and what is cached, is the version row its number
\* names, as long as numbers are distinct.
SeenOK ==
  \A r \in Requests :
    at[r] \in {"fetched", "editing", "removing"} /\ Serial(doc[r]) =>
      seen[r] = history[doc[r]][seen[r].version]

RendersOK ==
  \A e \in rendered :
    /\ e.version \in 1 .. Len(history[e.doc])
    /\ Serial(e.doc) => /\ e.title = history[e.doc][e.version].title
                        /\ e.content = history[e.doc][e.version].content

Explained == /\ HistoryExplainsRow
             /\ DistinctMeansSerial
             /\ SeenOK
             /\ RendersOK

\* Rows change by creation and by edits only.
LEMMA RowsChange ==
  ASSUME Typed, NEW r \in Requests, Step(r)
  PROVE  \/ row' = row /\ history' = history
         \/ CommitEdit(r)
         \/ \E d \in Docs, t \in Titles, c \in Contents : Create(r, d, t, c)
  BY DEF Step, Fetch, Put, Patch, Restore, Assigns, Delete, CommitDelete, Refresh,
         Publish, PublishDeleted, LosesEvent, GivesUp, Export, rows

\* A creation writes the first row of a history.
LEMMA FirstRow ==
  ASSUME Typed, NEW r \in Requests, NEW d \in Docs, NEW t \in Titles,
         NEW c \in Contents, Create(r, d, t, c)
  PROVE  /\ Len(history[d]) = 0
         /\ Len(history'[d]) = 1
         /\ row'[d] # None
         /\ row'[d] = history'[d][1]
         /\ row'[d].version = 1
         /\ \A e \in Docs \ {d} : row'[e] = row[e] /\ history'[e] = history[e]
<1> DEFINE new == [title |-> t, content |-> c, version |-> 1]
<1>1. new \in Texts /\ new.version = 1
  BY DEF Texts
<1>2. row'[d] = new /\ history'[d] = <<new>>
  BY DEF Create, Typed, TypeOK
<1>3. \A e \in Docs \ {d} : row'[e] = row[e] /\ history'[e] = history[e]
  BY DEF Create, Typed, TypeOK
<1>4. Len(history[d]) = 0
  BY DEF Create, Typed, RowsOK
<1>5. new # None
  BY <1>1, ParametersOK DEF Texts
<1> HIDE DEF new
<1>6. Len(<<new>>) = 1 /\ <<new>>[1] = new
  OBVIOUS
<1> QED
  BY <1>1, <1>2, <1>3, <1>4, <1>5, <1>6

\* Histories only grow, so numbers that are distinct have always been.
LEMMA HistoryGrows ==
  ASSUME Typed, NEW r \in Requests, Step(r), NEW d \in Docs
  PROVE  /\ Len(history[d]) \in Nat
         /\ Len(history'[d]) \in Nat
         /\ Len(history[d]) <= Len(history'[d])
         /\ \A i \in 1 .. Len(history[d]) : history'[d][i] = history[d][i]
         /\ Serial(d)' => Serial(d)
<1> DEFINE Grows == /\ Len(history[d]) \in Nat
                    /\ Len(history'[d]) \in Nat
                    /\ Len(history[d]) <= Len(history'[d])
                    /\ \A i \in 1 .. Len(history[d]) : history'[d][i] = history[d][i]
<1>0. history[d] \in Seq(Texts)
  BY DEF Typed, TypeOK
<1>1. ASSUME history' = history PROVE Grows
  BY <1>0, <1>1
<1>2. ASSUME CommitEdit(r) PROVE Grows
  <2>1. CASE d = doc[r]
    <3>1. /\ history'[d] = Append(history[d], VersionRow(r))
          /\ VersionRow(r) \in Texts
          /\ Len(history'[d]) = Len(history[d]) + 1
      BY <1>2, <2>1, EditRows
    <3> QED
      BY <1>0, <3>1
  <2>2. CASE d # doc[r]
    BY <1>0, <1>2, <2>2, EditRows
  <2> QED
    BY <2>1, <2>2
<1>3. ASSUME NEW e \in Docs, NEW t \in Titles, NEW c \in Contents, Create(r, e, t, c)
      PROVE  Grows
  <2>1. CASE d = e
    BY <1>3, <2>1, FirstRow
  <2>2. CASE d # e
    BY <1>0, <1>3, <2>2, FirstRow
  <2> QED
    BY <2>1, <2>2
<1>4. Grows
  BY <1>1, <1>2, <1>3, RowsChange
<1>5. Serial(d)' => Serial(d)
  BY <1>4 DEF Serial
<1> QED
  BY <1>4, <1>5

\* An edit keeps DistinctMeansSerial: a second edit of the same version repeats
\* its number, so one that does not was made of the row it replaces.
LEMMA EditExplained ==
  ASSUME Typed, Explained, NEW r \in Requests, CommitEdit(r), Serial(doc[r])'
  PROVE  LET d == doc[r]
         IN  /\ \A i \in 1 .. Len(history'[d]) : history'[d][i].version = i
             /\ row'[d] = history'[d][Len(history'[d])]
             /\ seen[r] = row[d]
<1> DEFINE d == doc[r]
           n == Len(history[d])
           v == edit[r].version
<1>0. Step(r)
  BY DEF Step
<1>1. /\ d \in Docs
      /\ row[d] # None
      /\ v \in 2 .. n + 1
      /\ history'[d] = Append(history[d], VersionRow(r))
      /\ VersionRow(r) \in Texts
      /\ Len(history'[d]) = n + 1
      /\ row'[d] = Written(r)
  BY EditRows
<1>2. n \in Nat /\ history[d] \in Seq(Texts)
  BY <1>1 DEF Typed, TypeOK
<1>3. history'[d][n + 1] = VersionRow(r)
  BY <1>1, <1>2
<1>4. \A i \in 1 .. n : history'[d][i] = history[d][i]
  BY <1>0, <1>1, HistoryGrows
<1>5. doc' = doc
  BY DEF CommitEdit
<1>6. \A i, j \in 1 .. n + 1 :
        history'[d][i].version = history'[d][j].version => i = j
  BY <1>1, <1>5 DEF Serial
<1>7. Serial(d)
  <2> SUFFICES ASSUME NEW i \in 1 .. n, NEW j \in 1 .. n,
                      history[d][i].version = history[d][j].version
               PROVE  i = j
    BY DEF Serial
  <2>1. history'[d][i].version = history'[d][j].version
    BY <1>4
  <2> QED
    BY <2>1, <1>2, <1>6
<1>8. /\ \A i \in 1 .. n : history[d][i].version = i
      /\ row[d] = history[d][n]
  BY <1>1, <1>7 DEF Explained, DistinctMeansSerial
<1>9. VersionRow(r).version = v
  BY DEF VersionRow
<1>10. v = n + 1
  <2>1. SUFFICES ASSUME v \in 1 .. n PROVE FALSE
    BY <1>1, <1>2
  <2>2. history'[d][v].version = v
    BY <2>1, <1>4, <1>8
  <2>3. history'[d][n + 1].version = v
    BY <1>3, <1>9
  <2> QED
    BY <2>1, <2>2, <2>3, <1>6, <1>2
<1>11. seen[r] = row[d]
  <2>1. /\ at[r] = "editing"
        /\ seen[r] \in Texts
        /\ seen[r].version \in 1 .. n
        /\ v = seen[r].version + 1
    BY DEF CommitEdit, Typed, SessionOK
  <2>2. seen[r].version = n
    BY <2>1, <1>2, <1>10
  <2>3. seen[r] = history[d][seen[r].version]
    BY <2>1, <1>7 DEF Explained, SeenOK
  <2> QED
    BY <2>2, <2>3, <1>8
<1>12. Written(r) = VersionRow(r)
  BY <1>11 DEF Written, VersionRow
<1>13. ASSUME NEW i \in 1 .. n + 1 PROVE history'[d][i].version = i
  <2>1. CASE i = n + 1
    BY <2>1, <1>3, <1>9, <1>10
  <2>2. CASE i \in 1 .. n
    BY <2>2, <1>4, <1>8
  <2> QED
    BY <2>1, <2>2, <1>2
<1> QED
  BY <1>1, <1>3, <1>11, <1>12, <1>13

\* Sessions and cache keep naming version rows.
LEMMA SeenStep ==
  ASSUME Typed, Explained, NEW r \in Requests, Step(r)
  PROVE  SeenOK' /\ RendersOK'
<1>1. SeenOK'
  <2> SUFFICES ASSUME NEW q \in Requests,
                      at'[q] \in {"fetched", "editing", "removing"},
                      Serial(doc[q])'
               PROVE  seen'[q] = history'[doc'[q]][seen'[q].version]
    BY DEF SeenOK
  <2>1. CASE \E d \in Docs : q = r /\ Fetch(r, d)
    <3> PICK d \in Docs : q = r /\ Fetch(r, d)
      BY <2>1
    <3>1. doc'[q] = d /\ seen'[q] = row[d] /\ history' = history /\ row[d] # None
      BY DEF Fetch, Visible, rows, Typed, TypeOK
    <3>2. Serial(d)
      BY <3>1 DEF Serial
    <3>3. /\ \A i \in 1 .. Len(history[d]) : history[d][i].version = i
          /\ row[d] = history[d][Len(history[d])]
      BY <3>1, <3>2 DEF Explained, DistinctMeansSerial
    <3>4. Len(history[d]) \in Nat /\ Len(history[d]) # 0
      BY <3>1 DEF Typed, TypeOK, RowsOK
    <3>5. row[d].version = Len(history[d])
      BY <3>3, <3>4
    <3> QED
      BY <3>1, <3>3, <3>5
  <2>2. CASE ~ \E d \in Docs : q = r /\ Fetch(r, d)
    <3>1. /\ at[q] \in {"fetched", "editing", "removing"}
          /\ doc'[q] = doc[q]
          /\ seen'[q] = seen[q]
      <4>1. ASSUME q # r
            PROVE  at'[q] = at[q] /\ doc'[q] = doc[q] /\ seen'[q] = seen[q]
        BY <4>1 DEF Typed, TypeOK, Step, Create, Fetch, Put, Patch, Restore, Assigns,
             Delete, CommitEdit, CommitDelete, Refresh, Publish, PublishDeleted,
             LosesEvent, GivesUp, Export, Becomes, Ends, Flushed, session
      <4>2. CASE q = r
        <5>1. Delete(r) \/ \E whole, t, c : Assigns(r, whole, t, c)
          BY <2>2, <4>2 DEF Typed, TypeOK, Step, Create, Put, Patch, Restore,
               CommitEdit, CommitDelete, Refresh, Publish, PublishDeleted,
               LosesEvent, GivesUp, Export, Becomes, Ends
        <5> QED
          BY <5>1, <4>2 DEF Delete, Assigns, Checked, session
      <4> QED
        BY <4>1, <4>2
    <3>2. /\ doc[q] \in Docs
          /\ seen[q].version \in 1 .. Len(history[doc[q]])
      BY <3>1 DEF Typed, SessionOK
    <3> PICK d \in Docs : d = doc[q]
      BY <3>2
    <3>3. Serial(d)'
      BY <3>1 DEF Serial
    <3>4. /\ \A i \in 1 .. Len(history[d]) : history'[d][i] = history[d][i]
          /\ Serial(d)
      BY <3>3, HistoryGrows
    <3>5. seen[q] = history[d][seen[q].version]
      BY <3>1, <3>4 DEF Explained, SeenOK
    <3> QED
      BY <3>1, <3>2, <3>4, <3>5
  <2> QED
    BY <2>1, <2>2
<1>2. RendersOK'
  <2> SUFFICES ASSUME NEW e \in rendered'
               PROVE  RendersOK!(e)'
    BY DEF RendersOK
  <2>1. CASE e \in rendered
    <3>1. e.doc \in Docs
      BY <2>1 DEF Typed, TypeOK, Renders
    <3>2. RendersOK!(e)
      BY <2>1 DEF Explained, RendersOK
    <3>3. /\ Len(history[e.doc]) <= Len(history'[e.doc])
          /\ Len(history[e.doc]) \in Nat /\ Len(history'[e.doc]) \in Nat
          /\ \A i \in 1 .. Len(history[e.doc]) :
               history'[e.doc][i] = history[e.doc][i]
          /\ Serial(e.doc)' => Serial(e.doc)
      BY <3>1, HistoryGrows
    <3> QED
      BY <3>2, <3>3
  <2>2. CASE e \notin rendered
    <3>1. Export(r) /\ e = Render(r)
      BY <2>2 DEF Step, Create, Fetch, Put, Patch, Restore, Assigns, Delete,
           CommitEdit, CommitDelete, Refresh, Publish, PublishDeleted, LosesEvent,
           GivesUp, Export
    <3>2. /\ at[r] = "fetched"
          /\ history' = history
          /\ seen[r].version \in 1 .. Len(history[doc[r]])
      BY <3>1 DEF Export, rows, Typed, SessionOK
    <3>3. Serial(doc[r]) => seen[r] = history[doc[r]][seen[r].version]
      BY <3>2 DEF Explained, SeenOK
    <3>4. /\ e.doc = doc[r] /\ e.version = seen[r].version
          /\ e.title = seen[r].title /\ e.content = seen[r].content
      BY <3>1 DEF Render
    <3>5. Serial(e.doc)' = Serial(doc[r])
      BY <3>2, <3>4 DEF Serial
    <3> QED
      BY <3>2, <3>3, <3>4, <3>5
  <2> QED
    BY <2>1, <2>2
<1> QED
  BY <1>1, <1>2

\* The last version row has the document's number, and what an edit does not
\* write was in the history before.
LEMMA RowStep ==
  ASSUME Typed, Explained, NEW r \in Requests, Step(r)
  PROVE  HistoryExplainsRow' /\ DistinctMeansSerial'
<1> SUFFICES ASSUME NEW d \in Docs
             PROVE  HistoryExplainsRow!(d)' /\ DistinctMeansSerial!(d)'
  BY DEF HistoryExplainsRow, DistinctMeansSerial
<1>0. HistoryExplainsRow!(d) /\ DistinctMeansSerial!(d)
  BY DEF Explained, HistoryExplainsRow, DistinctMeansSerial
<1> DEFINE Goal == HistoryExplainsRow!(d)' /\ DistinctMeansSerial!(d)'
<1>1. ASSUME row'[d] = row[d], history'[d] = history[d] PROVE Goal
  <2>1. Serial(d)' = Serial(d)
    BY <1>1 DEF Serial
  <2> QED
    BY <1>0, <1>1, <2>1
<1>2. ASSUME CommitEdit(r), d = doc[r] PROVE Goal
  <2> DEFINE n == Len(history[d])
  <2>1. /\ row[d] # None
        /\ history'[d] = Append(history[d], VersionRow(r))
        /\ VersionRow(r) \in Texts
        /\ Len(history'[d]) = n + 1
        /\ row'[d] = Written(r)
    BY <1>2, EditRows
  <2>2. n \in Nat /\ history[d] \in Seq(Texts)
    BY DEF Typed, TypeOK
  <2>3. history'[d][n + 1] = VersionRow(r) /\ \A i \in 1 .. n : history'[d][i] = history[d][i]
    BY <2>1, <2>2
  <2>4. \E i \in 1 .. n + 1 : history'[d][i].title = row'[d].title
    <3>1. CASE edit[r].title # seen[r].title
      BY <3>1, <2>1, <2>2, <2>3 DEF Written, VersionRow
    <3>2. CASE edit[r].title = seen[r].title
      <4>1. row'[d].title = row[d].title
        BY <3>2, <2>1, <1>2 DEF Written
      <4>2. PICK i \in 1 .. n : history[d][i].title = row[d].title
        BY <1>0, <2>1
      <4> QED
        BY <4>1, <4>2, <2>2, <2>3
    <3> QED
      BY <3>1, <3>2
  <2>5. \E i \in 1 .. n + 1 : history'[d][i].content = row'[d].content
    <3>1. CASE edit[r].content # seen[r].content
      BY <3>1, <2>1, <2>2, <2>3 DEF Written, VersionRow
    <3>2. CASE edit[r].content = seen[r].content
      <4>1. row'[d].content = row[d].content
        BY <3>2, <2>1, <1>2 DEF Written
      <4>2. PICK i \in 1 .. n : history[d][i].content = row[d].content
        BY <1>0, <2>1
      <4> QED
        BY <4>1, <4>2, <2>2, <2>3
    <3> QED
      BY <3>1, <3>2
  <2>6. row'[d].version = history'[d][n + 1].version
    BY <2>1, <2>3 DEF Written, VersionRow
  <2>7. HistoryExplainsRow!(d)'
    BY <2>1, <2>4, <2>5, <2>6
  <2>8. doc' = doc
    BY <1>2 DEF CommitEdit
  <2>9. Serial(d)' => Serial(doc[r])'
    BY <1>2, <2>8
  <2>10. DistinctMeansSerial!(d)'
    BY <1>2, <2>9, EditExplained
  <2> QED
    BY <2>7, <2>10
<1>3. ASSUME NEW e \in Docs, NEW t \in Titles, NEW c \in Contents,
             Create(r, e, t, c)
      PROVE  Goal
  <2>1. CASE d = e
    BY <1>3, <2>1, FirstRow
  <2>2. CASE d # e
    <3>1. row'[d] = row[d] /\ history'[d] = history[d]
      BY <1>3, <2>2, FirstRow
    <3> QED
      BY <3>1, <1>1
  <2> QED
    BY <2>1, <2>2
<1>4. ASSUME CommitEdit(r), d # doc[r] PROVE Goal
  <2>1. row'[d] = row[d] /\ history'[d] = history[d]
    BY <1>4, EditRows
  <2> QED
    BY <2>1, <1>1
<1> QED
  BY <1>1, <1>2, <1>3, <1>4, RowsChange

\* Explained is inductive, given Typed.
LEMMA ExplainedCorrect == Spec => [](Typed /\ Explained)
<1>1. Init => Explained
  BY DEF Init, Explained, HistoryExplainsRow, DistinctMeansSerial, SeenOK, RendersOK
<1>2. Typed /\ Explained /\ [Next]_vars => Explained'
  <2> SUFFICES ASSUME Typed, Explained, [Next]_vars PROVE Explained'
    OBVIOUS
  <2>1. CASE UNCHANGED vars
    BY <2>1 DEF Explained, HistoryExplainsRow, DistinctMeansSerial, SeenOK, RendersOK,
         Serial, vars, rows, session
  <2>2. CASE Next
    BY <2>2, SeenStep, RowStep DEF Next, Explained
  <2> QED
    BY <2>1, <2>2
<1> QED
  BY <1>1, <1>2, TypedCorrect, TypedInit, PTL DEF Spec

\* Whatever a document shows is in its history, and its number is the last one
\* (document_service.py: update, patch, restore_version).
THEOREM HistoryExplainsRowCorrect == Spec => []HistoryExplainsRow
<1>1. Explained => HistoryExplainsRow
  BY DEF Explained
<1> QED
  BY <1>1, ExplainedCorrect, PTL

\* Distinct version numbers mean serial edits, whatever requests overlapped.
THEOREM DistinctMeansSerialCorrect == Spec => []DistinctMeansSerial
<1>1. Explained => DistinctMeansSerial
  BY DEF Explained
<1> QED
  BY <1>1, ExplainedCorrect, PTL

\* Cached exports show the version they are keyed by, as long as numbers are
\* distinct (render_cache.py).
THEOREM RendersMatchVersionsCorrect == Spec => []RendersMatchVersions
<1>1. Explained => RendersMatchVersions
  BY DEF Explained, RendersOK, RendersMatchVersions
<1> QED
  BY <1>1, ExplainedCorrect, PTL

-----------------------------------------------------------------------------
(* What holds of a document whose numbers are distinct.                    *)

\* A step that commits an edit is CommitEdit, by that request.
LEMMA OnlyCommitEdit ==
  ASSUME Typed, Next, NEW q \in Requests, at[q] = "editing", at'[q] = "committed"
  PROVE  CommitEdit(q)
  BY DEF Next, Typed, TypeOK, Step, Create, Fetch, Put, Patch, Restore, Assigns,
     Checked, Delete, CommitEdit, CommitDelete, Refresh, Publish, PublishDeleted,
     LosesEvent, GivesUp, Export, Becomes, Ends

\* An edit that repeats no number was made of the row it replaces, and the row
\* is what it says, all of it.
SerialEditReplaces(r) ==
  at[r] = "editing" /\ at'[r] = "committed" /\ Serial(doc[r])' =>
    /\ seen[r] = row[doc[r]]
    /\ row'[doc[r]].title = edit[r].title
    /\ row'[doc[r]].content = edit[r].content
    /\ row'[doc[r]].version = row[doc[r]].version + 1

\* PUT is the full replace documents.py says it is, and no update, patch or
\* restore undoes one it has not seen, as long as the numbers of the document
\* stay distinct: a repeated number is the trace every lost edit leaves.
THEOREM SerialEditsReplaceCorrect ==
  Spec => [][\A r \in Requests : SerialEditReplaces(r)]_vars
<1>1. ASSUME Typed, Explained, Next, NEW r \in Requests PROVE SerialEditReplaces(r)
  <2> SUFFICES ASSUME at[r] = "editing", at'[r] = "committed", Serial(doc[r])'
               PROVE  /\ seen[r] = row[doc[r]]
                      /\ row'[doc[r]].title = edit[r].title
                      /\ row'[doc[r]].content = edit[r].content
                      /\ row'[doc[r]].version = row[doc[r]].version + 1
    BY DEF SerialEditReplaces
  <2>1. CommitEdit(r)
    BY <1>1, OnlyCommitEdit
  <2>2. seen[r] = row[doc[r]]
    BY <1>1, <2>1, EditExplained
  <2>3. row'[doc[r]] = Written(r) /\ row'[doc[r]].version = edit[r].version
    BY <1>1, <2>1, EditRows
  <2>4. edit[r].version = seen[r].version + 1
    BY <1>1 DEF Typed, SessionOK
  <2> QED
    BY <2>2, <2>3, <2>4 DEF Written
<1>2. Typed /\ Explained /\ [Next]_vars =>
        [\A r \in Requests : SerialEditReplaces(r)]_vars
  BY <1>1
<1> QED
  BY <1>2, ExplainedCorrect, PTL DEF Spec

\* What the render cache holds for a document with distinct numbers.
SerialServes ==
  \A r \in Requests : at[r] = "fetched" /\ Serial(doc[r]) =>
    \A e \in Cached(r) : e.title = seen[r].title /\ e.content = seen[r].content

\* A download served from the render cache shows the document its request has
\* read, as long as the numbers of the document are distinct (render_cache.py).
THEOREM SerialServesCorrect == Spec => []SerialServes
<1>1. ASSUME Typed, Explained PROVE SerialServes
  <2> SUFFICES ASSUME NEW r \in Requests, at[r] = "fetched", Serial(doc[r]),
                      NEW e \in Cached(r)
               PROVE  e.title = seen[r].title /\ e.content = seen[r].content
    BY DEF SerialServes
  <2>1. e \in rendered /\ e.doc = doc[r] /\ e.version = seen[r].version
    BY DEF Cached
  <2>2. seen[r] = history[doc[r]][seen[r].version]
    BY <1>1 DEF Explained, SeenOK
  <2>3. /\ e.title = history[e.doc][e.version].title
        /\ e.content = history[e.doc][e.version].content
    BY <1>1, <2>1 DEF Explained, RendersOK
  <2> QED
    BY <2>1, <2>2, <2>3
<1> QED
  BY <1>1, ExplainedCorrect, PTL

-----------------------------------------------------------------------------
(* Deletions, and the abstract log.                                        *)

\* A deletion is final (document_service.py: delete).
THEOREM DeletedStaysDeletedCorrect == Spec => DeletedStaysDeleted
<1>1. [Next]_vars => [deleted \subseteq deleted']_vars
  BY DEF Next, Step, Create, Fetch, Put, Patch, Restore, Assigns, Delete, CommitEdit,
     CommitDelete, Refresh, Publish, PublishDeleted, LosesEvent, GivesUp, Export,
     rows, vars
<1> QED
  BY <1>1, PTL DEF Spec, DeletedStaysDeleted

\* Documents and version rows implement VersionLog: overlapping requests add to
\* the history, mix fields of edits at worst, and never undo a deletion.
THEOREM LogCorrect == Spec => ImplementsLog
<1>1. Init => Log!Init
  BY DEF Init, Log!Init
<1>2. Typed /\ [Next]_vars => [Log!Next]_Log!vars
  <2> SUFFICES ASSUME Typed, [Next]_vars PROVE [Log!Next]_Log!vars
    OBVIOUS
  <2>1. CASE UNCHANGED vars
    BY <2>1 DEF vars, rows, Log!vars
  <2>2. ASSUME NEW r \in Requests, Step(r) PROVE [Log!Next]_Log!vars
    <3>1. ASSUME CommitEdit(r) PROVE Log!Next
      <4> DEFINE d == doc[r]
                 t == edit[r].title
                 c == edit[r].content
                 v == edit[r].version
      <4>1. d \in Docs /\ row[d] # None /\ v \in 2 .. Len(history[d]) + 1
        BY <3>1, EditRows
      <4>2. t \in Titles /\ c \in Contents
        BY <3>1 DEF CommitEdit, Typed, SessionOK, Edits
      <4>3. /\ Written(r).title \in {t, row[d].title}
            /\ Written(r).content \in {c, row[d].content}
            /\ Written(r) = Log!Text(Written(r).title, Written(r).content, v)
        BY DEF Written, Log!Text
      <4>4. VersionRow(r) = Log!Text(t, c, v)
        BY DEF VersionRow, Log!Text
      <4>5. Log!Amend(d, t, c)
        BY <3>1, <4>1, <4>3, <4>4 DEF CommitEdit, Log!Amend
      <4> QED
        BY <4>1, <4>2, <4>5 DEF Log!Next
    <3>2. ASSUME CommitDelete(r) PROVE Log!Next
      <4>1. doc[r] \in Docs /\ row[doc[r]] # None
        BY <3>2 DEF CommitDelete, Typed, SessionOK
      <4>2. Log!Delete(doc[r])
        BY <3>2, <4>1 DEF CommitDelete, Log!Delete
      <4> QED
        BY <4>1, <4>2 DEF Log!Next
    <3>3. ASSUME NEW d \in Docs, NEW t \in Titles, NEW c \in Contents,
                 Create(r, d, t, c)
          PROVE  Log!Next
      <4>1. Log!Create(d, t, c)
        BY <3>3 DEF Create, Log!Create, Log!Text
      <4> QED
        BY <4>1 DEF Log!Next
    <3>4. \/ UNCHANGED rows
          \/ CommitEdit(r) \/ CommitDelete(r)
          \/ \E d \in Docs, t \in Titles, c \in Contents : Create(r, d, t, c)
      BY <2>2 DEF Step, Fetch, Put, Patch, Restore, Assigns, Delete, Refresh, Publish,
         PublishDeleted, LosesEvent, GivesUp, Export
    <3>5. UNCHANGED rows => UNCHANGED Log!vars
      BY DEF rows, Log!vars
    <3> QED
      BY <3>1, <3>2, <3>3, <3>4, <3>5
  <2> QED
    BY <2>1, <2>2 DEF Next
<1> QED
  BY <1>1, <1>2, TypedCorrect, PTL DEF Spec, ImplementsLog, Log!Spec

-----------------------------------------------------------------------------
(* Events.                                                                 *)

Told(d) == \/ announced[d] = Len(history[d])
           \/ \E r \in Requests : /\ doc[r] = d
                                  /\ \/ at[r] = "committed"
                                     \/ /\ at[r] = "refreshed"
                                        /\ covers[r] = Len(history[d])

GoneTold(d) == d \in deleted =>
                 \/ d \in goodbyes
                 \/ \E r \in Requests : doc[r] = d /\ at[r] = "removed"

\* A request's step touches no other request.
LEMMA OthersWait ==
  ASSUME Typed, NEW r \in Requests, Step(r), NEW q \in Requests \ {r}
  PROVE  at'[q] = at[q] /\ doc'[q] = doc[q] /\ covers'[q] = covers[q]
  BY DEF Typed, TypeOK, Step, Create, Fetch, Put, Patch, Restore, Assigns, Delete,
     CommitEdit, CommitDelete, Refresh, Publish, PublishDeleted, LosesEvent, GivesUp,
     Export, Becomes, Ends, Flushed, session

\* What has been announced stays so.
LEMMA EventsGrow ==
  ASSUME Typed, NEW r \in Requests, Step(r), NEW d \in Docs
  PROVE  /\ announced[d] <= announced'[d]
         /\ goodbyes \subseteq goodbyes'
         /\ lost <= lost'
<1>1. UNCHANGED events \/ Publish(r) \/ PublishDeleted(r) \/ LosesEvent(r)
  BY DEF Step, Create, Fetch, Put, Patch, Restore, Assigns, Delete, CommitEdit,
     CommitDelete, Refresh, GivesUp, Export
<1>2. announced[d] \in Nat /\ lost \in Nat /\ announced \in [Docs -> Nat]
  BY DEF Typed, TypeOK
<1>3. CASE UNCHANGED events
  BY <1>2, <1>3 DEF events
<1>4. CASE Publish(r)
  <2>1. covers[r] \in Nat
    BY DEF Typed, TypeOK
  <2> QED
    BY <1>2, <1>4, <2>1 DEF Publish
<1>5. CASE PublishDeleted(r)
  BY <1>2, <1>5 DEF PublishDeleted
<1>6. CASE LosesEvent(r)
  BY <1>2, <1>6 DEF LosesEvent
<1> QED
  BY <1>1, <1>3, <1>4, <1>5, <1>6

\* An edit or creation is followed up by the request that committed it.
LEMMA ToldStep ==
  ASSUME Typed, Typed', NEW r \in Requests, Step(r), NEW d \in Docs, Told(d), lost' = 0
  PROVE  Told(d)'
<1>1. CASE history'[d] # history[d]
  <2>1. at'[r] = "committed" /\ doc'[r] = d
    <3>1. CASE CommitEdit(r)
      BY <1>1, <3>1, EditRows DEF CommitEdit, Becomes, Typed, TypeOK
    <3>2. CASE \E e \in Docs, t \in Titles, c \in Contents : Create(r, e, t, c)
      BY <1>1, <3>2 DEF Create, Becomes, Typed, TypeOK
    <3> QED
      BY <1>1, <3>1, <3>2, RowsChange
  <2> QED
    BY <2>1 DEF Told
<1>2. CASE history'[d] = history[d]
  <2>1. CASE announced[d] = Len(history[d])
    <3>1. /\ announced[d] <= announced'[d]
          /\ announced'[d] <= Len(history'[d])
          /\ announced[d] \in Nat /\ announced'[d] \in Nat
      BY EventsGrow DEF Typed, TypeOK, EventsOK
    <3>2. announced'[d] = Len(history'[d])
      BY <1>2, <2>1, <3>1
    <3> QED
      BY <3>2 DEF Told
  <2>2. ASSUME NEW q \in Requests, doc[q] = d,
               \/ at[q] = "committed"
               \/ at[q] = "refreshed" /\ covers[q] = Len(history[d])
        PROVE  Told(d)'
    <3>1. CASE q # r
      BY <1>2, <2>2, <3>1, OthersWait DEF Told
    <3>2. CASE q = r /\ at[r] = "committed"
      <4>1. Refresh(r)
        BY <3>2 DEF Step, Create, Fetch, Put, Patch, Restore, Assigns, Checked, Delete,
           CommitEdit, CommitDelete, Publish, PublishDeleted, LosesEvent, GivesUp,
           Export, Typed, TypeOK
      <4>2. at'[r] = "refreshed" /\ doc'[r] = d /\ covers'[r] = Len(history'[d])
        BY <1>2, <2>2, <3>2, <4>1 DEF Refresh, Becomes, Typed, TypeOK
      <4> QED
        BY <4>2 DEF Told
    <3>3. CASE q = r /\ at[r] = "refreshed"
      <4>1. Publish(r)
        BY <3>3 DEF Step, Create, Fetch, Put, Patch, Restore, Assigns, Checked, Delete,
           CommitEdit, CommitDelete, Refresh, PublishDeleted, LosesEvent, GivesUp,
           Export, Typed, TypeOK
      <4>2. covers[r] = Len(history[d])
        BY <2>2, <3>3
      <4>3. announced[d] <= Len(history[d]) /\ announced[d] \in Nat /\ Len(history[d]) \in Nat
        BY DEF Typed, TypeOK, EventsOK
      <4>4. announced'[d] = IF covers[r] > announced[d] THEN covers[r] ELSE announced[d]
        BY <2>2, <3>3, <4>1 DEF Publish, Typed, TypeOK
      <4>5. announced'[d] = Len(history'[d])
        BY <1>2, <4>2, <4>3, <4>4
      <4> QED
        BY <4>5 DEF Told
    <3> QED
      BY <2>2, <3>1, <3>2, <3>3
  <2> QED
    BY <2>1, <2>2 DEF Told
<1> QED
  BY <1>1, <1>2

\* So is a deletion.
LEMMA GoneStep ==
  ASSUME Typed, NEW r \in Requests, Step(r), NEW d \in Docs, GoneTold(d), lost' = 0
  PROVE  GoneTold(d)'
<1> SUFFICES ASSUME d \in deleted' PROVE GoneTold(d)'
  BY DEF GoneTold
<1>1. CASE d \notin deleted
  <2>1. CommitDelete(r) /\ doc[r] = d
    BY <1>1 DEF Step, Create, Fetch, Put, Patch, Restore, Assigns, Delete, CommitEdit,
       CommitDelete, Refresh, Publish, PublishDeleted, LosesEvent, GivesUp, Export, rows
  <2>2. at'[r] = "removed" /\ doc'[r] = d
    BY <2>1 DEF CommitDelete, Becomes, Typed, TypeOK
  <2> QED
    BY <2>2 DEF GoneTold
<1>2. CASE d \in goodbyes
  BY <1>2, EventsGrow DEF GoneTold
<1>3. ASSUME NEW q \in Requests, doc[q] = d, at[q] = "removed" PROVE GoneTold(d)'
  <2>1. CASE q # r
    BY <1>3, <2>1, OthersWait DEF GoneTold
  <2>2. CASE q = r
    <3>1. PublishDeleted(r)
      BY <1>3, <2>2 DEF Step, Create, Fetch, Put, Patch, Restore, Assigns, Checked,
         Delete, CommitEdit, CommitDelete, Refresh, Publish, LosesEvent, GivesUp,
         Export, Typed, TypeOK
    <3> QED
      BY <1>3, <2>2, <3>1 DEF PublishDeleted, GoneTold
  <2> QED
    BY <2>1, <2>2
<1> QED
  BY <1>1, <1>2, <1>3 DEF GoneTold

\* Every change and every deletion is told, or about to be told by a request that
\* has seen it, until an event is lost (event_publisher.py).
THEOREM ChangesAnnouncedCorrect == Spec => []ChangesAnnounced
<1> DEFINE Inv == lost = 0 => \A d \in Docs : Told(d) /\ GoneTold(d)
<1>1. Init => Inv
  BY DEF Init, Told, GoneTold
<1>2. Typed /\ Typed' /\ Inv /\ [Next]_vars => Inv'
  <2> SUFFICES ASSUME Typed, Typed', Inv, [Next]_vars, lost' = 0, NEW d \in Docs
               PROVE  Told(d)' /\ GoneTold(d)'
    OBVIOUS
  <2>1. CASE UNCHANGED vars
    BY <2>1 DEF Told, GoneTold, vars, rows, session, events
  <2>2. ASSUME NEW r \in Requests, Step(r) PROVE Told(d)' /\ GoneTold(d)'
    <3>1. lost = 0
      BY <2>2, EventsGrow DEF Typed, TypeOK
    <3> QED
      BY <2>2, <3>1, ToldStep, GoneStep
  <2> QED
    BY <2>1, <2>2 DEF Next
<1>3. Inv => ChangesAnnounced
  BY DEF ChangesAnnounced, Told, GoneTold
<1> QED
  BY <1>1, <1>2, <1>3, TypedCorrect, PTL DEF Spec
=============================================================================
