------------------------------ MODULE VersionLog ------------------------------
(***************************************************************************)
(* What document-service promises about a document and its version rows,   *)
(* with requests and transactions left out: the log of versions only       *)
(* grows, each field of a document stays as it is or is taken from the     *)
(* version being appended, and a deletion is final.                        *)
(***************************************************************************)
EXTENDS Naturals, Sequences

CONSTANTS Docs, Titles, Contents, None

VARIABLES row,        \* row[d]: the document, or None
          history,    \* history[d]: its version rows
          deleted     \* the documents with is_deleted set

vars == <<row, history, deleted>>

Text(t, c, v) == [title |-> t, content |-> c, version |-> v]

Create(d, t, c) == /\ row[d] = None
                   /\ row' = [row EXCEPT ![d] = Text(t, c, 1)]
                   /\ history' = [history EXCEPT ![d] = <<Text(t, c, 1)>>]
                   /\ UNCHANGED deleted

\* The number of the new version may have been used before.
Amend(d, t, c) == \E v \in 2 .. Len(history[d]) + 1 :
  /\ row[d] # None
  /\ \E title \in {t, row[d].title}, content \in {c, row[d].content} :
       row' = [row EXCEPT ![d] = Text(title, content, v)]
  /\ history' = [history EXCEPT ![d] = Append(@, Text(t, c, v))]
  /\ UNCHANGED deleted

Delete(d) == /\ row[d] # None
             /\ deleted' = deleted \cup {d}
             /\ UNCHANGED <<row, history>>

Init == /\ row = [d \in Docs |-> None]
        /\ history = [d \in Docs |-> <<>>]
        /\ deleted = {}

Next == \E d \in Docs :
  \/ \E t \in Titles, c \in Contents : Create(d, t, c) \/ Amend(d, t, c)
  \/ Delete(d)

Spec == Init /\ [][Next]_vars
=============================================================================
