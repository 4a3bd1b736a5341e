---------------------------- MODULE DocumentService ----------------------------
(***************************************************************************)
(* Overlapping requests of document-service on documents and their version *)
(* rows.  A handler reads the document into its session, assigns to that   *)
(* copy and commits: one transaction, READ COMMITTED, that updates only    *)
(* the columns whose value differs from the one the session loaded and     *)
(* inserts a version row.  Nothing makes it fail when another request has  *)
(* written in between.  An event follows the commit, outside of it.        *)
(*                                                                         *)
(* Also the memo of rendered exports, which is keyed by version number.    *)
(***************************************************************************)
EXTENDS Naturals, Sequences, FiniteSets

CONSTANTS
  Requests,    \* requests, each one is made at most once
  Docs,
  Titles,
  Contents,
  None,        \* no document
  MaxLost      \* bound on events that are not published

ASSUME ParametersOK == /\ MaxLost \in Nat
                       /\ None \notin [title : Titles, content : Contents,
                                       version : Nat]

VARIABLES
  row,         \* row[d]: the row of table documents, or None
  deleted,     \* documents whose is_deleted is set
  history,     \* history[d]: rows of document_versions, as they were inserted
  at,          \* at[r]: how far request r has come
  doc,         \* doc[r]: the document it is about
  seen,        \* seen[r]: the document as its session loaded it
  edit,        \* edit[r]: the document as its session will write it
  covers,      \* covers[r]: length of the history when its event was built
  announced,   \* announced[d]: the longest history an event has covered
  goodbyes,    \* documents whose deletion an event has told
  lost,        \* events not published
  rendered     \* the render cache

rows == <<row, deleted, history>>
session == <<doc, seen, edit, covers>>
events == <<announced, goodbyes, lost>>
vars == <<rows, at, session, events, rendered>>

Texts == [title : Titles, content : Contents, version : Nat]

\* What a session is about to commit, and whether it is meant to replace the
\* whole document.
Edits == [whole : BOOLEAN, title : Titles, content : Contents, version : Nat]

Renders == [doc : Docs, version : Nat, title : Titles, content : Contents]

TypeOK == /\ row \in [Docs -> Texts \cup {None}]
          /\ deleted \subseteq Docs
          /\ history \in [Docs -> Seq(Texts)]
          /\ at \in [Requests -> {"idle", "fetched", "editing", "removing",
                                  "committed", "refreshed", "removed", "done"}]
          /\ doc \in [Requests -> Docs \cup {None}]
          /\ seen \in [Requests -> Texts \cup {None}]
          /\ edit \in [Requests -> Edits \cup {None}]
          /\ covers \in [Requests -> Nat]
          /\ announced \in [Docs -> Nat]
          /\ goodbyes \subseteq Docs
          /\ lost \in 0 .. MaxLost
          /\ rendered \subseteq Renders

Init == /\ row = [d \in Docs |-> None]
        /\ deleted = {}
        /\ history = [d \in Docs |-> <<>>]
        /\ at = [r \in Requests |-> "idle"]
        /\ doc = [r \in Requests |-> None]
        /\ seen = [r \in Requests |-> None]
        /\ edit = [r \in Requests |-> None]
        /\ covers = [r \in Requests |-> 0]
        /\ announced = [d \in Docs |-> 0]
        /\ goodbyes = {}
        /\ lost = 0
        /\ rendered = {}

Visible(d) == row[d] # None /\ d \notin deleted

Becomes(r, stage) == at' = [at EXCEPT ![r] = stage]

\* The commit leaves the session nothing to write, closing it nothing at all.
Flushed(r) == /\ seen' = [seen EXCEPT ![r] = None]
              /\ edit' = [edit EXCEPT ![r] = None]

Ends(r) == /\ Becomes(r, "done")
           /\ Flushed(r)
           /\ doc' = [doc EXCEPT ![r] = None]
           /\ covers' = [covers EXCEPT ![r] = 0]

-----------------------------------------------------------------------------
(* Up to the commit.                                                       *)

\* POST: the document and its first version row.
Create(r, d, t, c) ==
  LET new == [title |-> t, content |-> c, version |-> 1]
  IN  /\ at[r] = "idle"
      /\ row[d] = None
      /\ row' = [row EXCEPT ![d] = new]
      /\ history' = [history EXCEPT ![d] = <<new>>]
      /\ Becomes(r, "committed")
      /\ doc' = [doc EXCEPT ![r] = d]
      /\ UNCHANGED <<deleted, seen, edit, covers, events, rendered>>

\* The handler's get: what it returns stays in the session's identity map.
Fetch(r, d) ==
  /\ at[r] = "idle"
  /\ Visible(d)
  /\ Becomes(r, "fetched")
  /\ doc' = [doc EXCEPT ![r] = d]
  /\ seen' = [seen EXCEPT ![r] = row[d]]
  /\ UNCHANGED <<rows, edit, covers, events, rendered>>

\* The service's get of the same document: the query is run again, but the
\* session hands out the copy it has, with the values of the first.
Checked(r) == at[r] = "fetched" /\ Visible(doc[r])

Assigns(r, whole, t, c) ==
  /\ Checked(r)
  /\ Becomes(r, "editing")
  /\ edit' = [edit EXCEPT ![r] = [whole |-> whole, title |-> t, content |-> c,
                                  version |-> seen[r].version + 1]]
  /\ UNCHANGED <<rows, doc, seen, covers, events, rendered>>

\* Mutant: a field the body does not name is written as null.
PatchNulls(r, t, c) == Assigns(r, FALSE, None, c)

Put(r, t, c) == Assigns(r, TRUE, t, c)

\* A field the body does not name keeps the value of the copy.
Patch(r, t, c) == Assigns(r, FALSE, t, c)

\* A version row, read after the document was.
Restore(r) ==
  /\ Checked(r)
  /\ \E i \in 1 .. Len(history[doc[r]]) :
       Assigns(r, FALSE, history[doc[r]][i].title, history[doc[r]][i].content)

Delete(r) == /\ Checked(r)
             /\ Becomes(r, "removing")
             /\ UNCHANGED <<rows, session, events, rendered>>

-----------------------------------------------------------------------------
(* The commit.                                                             *)

\* The row after the UPDATE.
Written(r) ==
  LET d == doc[r]
  IN  [title |-> IF edit[r].title # seen[r].title THEN edit[r].title
                 ELSE row[d].title,
       content |-> IF edit[r].content # seen[r].content THEN edit[r].content
                   ELSE row[d].content,
       version |-> edit[r].version]

\* Mutant: the version row keeps the text from before the change.
VersionRowBefore(r) == [seen[r] EXCEPT !.version = edit[r].version]

\* Mutant: version rows are counted, the document is not read again.
VersionRowCounted(r) == [title |-> edit[r].title, content |-> edit[r].content,
                         version |-> Len(history[doc[r]]) + 1]

\* The version row inserted with it.
VersionRow(r) == [title |-> edit[r].title, content |-> edit[r].content,
                  version |-> edit[r].version]

\* Mutant: no version row.
CommitEditUnlogged(r) ==
  /\ at[r] = "editing"
  /\ row' = [row EXCEPT ![doc[r]] = Written(r)]
  /\ Becomes(r, "committed")
  /\ Flushed(r)
  /\ UNCHANGED <<deleted, history, doc, covers, events, rendered>>

\* Mutant: is_deleted is written with the rest, as the session loaded it.
CommitEditRevives(r) ==
  /\ at[r] = "editing"
  /\ row' = [row EXCEPT ![doc[r]] = Written(r)]
  /\ history' = [history EXCEPT ![doc[r]] = Append(@, VersionRow(r))]
  /\ deleted' = deleted \ {doc[r]}
  /\ Becomes(r, "committed")
  /\ Flushed(r)
  /\ UNCHANGED <<doc, covers, events, rendered>>

CommitEdit(r) ==
  /\ at[r] = "editing"
  /\ row' = [row EXCEPT ![doc[r]] = Written(r)]
  /\ history' = [history EXCEPT ![doc[r]] = Append(@, VersionRow(r))]
  /\ Becomes(r, "committed")
  /\ Flushed(r)
  /\ UNCHANGED <<deleted, doc, covers, events, rendered>>

\* Only is_deleted differs from what was loaded.
CommitDelete(r) ==
  /\ at[r] = "removing"
  /\ deleted' = deleted \cup {doc[r]}
  /\ Becomes(r, "removed")
  /\ Flushed(r)
  /\ UNCHANGED <<row, history, doc, covers, events, rendered>>

-----------------------------------------------------------------------------
(* After the commit.                                                       *)

\* The row is read again, with what others have committed by now; the event is
\* built from that.
Refresh(r) ==
  /\ at[r] = "committed"
  /\ covers' = [covers EXCEPT ![r] = Len(history[doc[r]])]
  /\ Becomes(r, "refreshed")
  /\ UNCHANGED <<rows, doc, seen, edit, events, rendered>>

\* Mutant: nothing is published after an edit.
PublishNothing(r) == /\ at[r] = "refreshed"
                     /\ Ends(r)
                     /\ UNCHANGED <<rows, events, rendered>>

\* document_created and document_updated.
Publish(r) ==
  /\ at[r] = "refreshed"
  /\ announced' = [announced EXCEPT ![doc[r]] =
                     IF covers[r] > @ THEN covers[r] ELSE @]
  /\ Ends(r)
  /\ UNCHANGED <<rows, goodbyes, lost, rendered>>

\* document_deleted, which needs nothing from the table.
PublishDeleted(r) ==
  /\ at[r] = "removed"
  /\ goodbyes' = goodbyes \cup {doc[r]}
  /\ Ends(r)
  /\ UNCHANGED <<rows, announced, lost, rendered>>

\* The topic cannot be reached, which publish logs and swallows, or the service
\* stops after the commit.
LosesEvent(r) ==
  /\ at[r] \in {"committed", "refreshed", "removed"}
  /\ lost < MaxLost
  /\ lost' = lost + 1
  /\ Ends(r)
  /\ UNCHANGED <<rows, announced, goodbyes, rendered>>

\* Another owner, deleted meanwhile, no such version, nothing to patch, the
\* client gone or the service stopped: nothing was committed.
GivesUp(r) == /\ at[r] \in {"fetched", "editing", "removing"}
              /\ Ends(r)
              /\ UNCHANGED <<rows, events, rendered>>

\* GET .../export with the cache flag on, of the document the handler's get has
\* returned.
Cached(r) == {e \in rendered : e.doc = doc[r] /\ e.version = seen[r].version}

Render(r) == [doc |-> doc[r], version |-> seen[r].version,
              title |-> seen[r].title, content |-> seen[r].content]

\* Mutant: the key takes the number the next version will have.
ExportMiskeyed(r) ==
  /\ at[r] = "fetched"
  /\ rendered' = rendered \cup {[Render(r) EXCEPT !.version = @ + 1]}
  /\ Ends(r)
  /\ UNCHANGED <<rows, events>>

Export(r) ==
  /\ at[r] = "fetched"
  /\ rendered' = IF Cached(r) # {} THEN rendered ELSE rendered \cup {Render(r)}
  /\ Ends(r)
  /\ UNCHANGED <<rows, events>>

Step(r) ==
  \/ \E d \in Docs, t \in Titles, c \in Contents : Create(r, d, t, c)
  \/ \E d \in Docs : Fetch(r, d)
  \/ \E t \in Titles, c \in Contents : Put(r, t, c) \/ Patch(r, t, c)
  \/ Restore(r)
  \/ Delete(r)
  \/ CommitEdit(r)
  \/ CommitDelete(r)
  \/ Refresh(r)
  \/ Publish(r)
  \/ PublishDeleted(r)
  \/ LosesEvent(r)
  \/ GivesUp(r)
  \/ Export(r)

Next == \E r \in Requests : Step(r)

Spec == Init /\ [][Next]_vars

-----------------------------------------------------------------------------
(* Properties.                                                             *)

\* No two version rows of d carry one number: no two requests have edited the
\* same version.
Serial(d) == \A i, j \in 1 .. Len(history[d]) :
               history[d][i].version = history[d][j].version => i = j

\* However requests overlap, what a document shows is in its history: a version
\* row has its title, one its content, one its number (document_service.py:
\* update, patch and restore_version write row and version row together).
HistoryExplainsRow ==
  \A d \in Docs : row[d] # None =>
    \E i, j \in 1 .. Len(history[d]) :
      /\ history[d][i].title = row[d].title
      /\ history[d][j].content = row[d].content
      /\ row[d].version = history[d][Len(history[d])].version

\* As long as the numbers of a document are distinct its edits were serial: the
\* rows are numbered 1, 2, ... and the last one is the document.
DistinctMeansSerial ==
  \A d \in Docs : row[d] # None /\ Serial(d) =>
    /\ \A i \in 1 .. Len(history[d]) : history[d][i].version = i
    /\ row[d] = history[d][Len(history[d])]

\* An export from the cache (render_cache.py) shows the version its number
\* names, as long as numbers are distinct.
RendersMatchVersions ==
  \A e \in rendered : Serial(e.doc) =>
    /\ e.version \in 1 .. Len(history[e.doc])
    /\ e.title = history[e.doc][e.version].title
    /\ e.content = history[e.doc][e.version].content

\* Unless events were lost, every change of a document, and its deletion, has
\* been told to the topic or is about to be, by a request that has read the
\* row after the change.
ChangesAnnounced ==
  lost = 0 => \A d \in Docs :
    /\ \/ announced[d] = Len(history[d])
       \/ \E r \in Requests : /\ doc[r] = d
                              /\ \/ at[r] = "committed"
                                 \/ /\ at[r] = "refreshed"
                                    /\ covers[r] = Len(history[d])
    /\ d \in deleted => \/ d \in goodbyes
                        \/ \E r \in Requests : doc[r] = d /\ at[r] = "removed"

\* Deletion is final: a request that has passed its checks before it does not
\* bring the document back (document_service.py: delete, get).
DeletedStaysDeleted == [][deleted \subseteq deleted']_vars

\* Documents and version rows behave as VersionLog promises, however requests
\* overlap.
Log == INSTANCE VersionLog
ImplementsLog == Log!Spec

\* documents.py says of PUT that it is a full replace of the document.
PutReplaces ==
  [][\A r \in Requests :
       at[r] = "editing" /\ at'[r] = "committed" /\ edit[r].whole =>
         /\ row'[doc[r]].title = edit[r].title
         /\ row'[doc[r]].content = edit[r].content]_vars

\* render_cache.py says its entries are for repeated downloads of the same
\* document version: an entry found for a document shows that document.
ServesWhatWasRead ==
  \A r \in Requests : at[r] = "fetched" =>
    \A e \in Cached(r) : e.title = seen[r].title /\ e.content = seen[r].content
=============================================================================
