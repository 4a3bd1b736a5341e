--------------------------- MODULE MCCollabService ---------------------------
(***************************************************************************)
(* CollabService on small instances.                                       *)
(***************************************************************************)
EXTENDS CollabService, TLC

\* Sockets and updates are interchangeable, and so are documents (in runs that
\* check safety only).
Interchangeable == Permutations(Sockets) \cup Permutations(Updates)
InterchangeableDocs == Permutations(Docs)
=============================================================================
