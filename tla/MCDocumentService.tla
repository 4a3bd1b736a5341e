-------------------------- MODULE MCDocumentService --------------------------
(***************************************************************************)
(* DocumentService on a small instance.                                    *)
(***************************************************************************)
EXTENDS DocumentService, TLC

\* Requests, titles and contents are interchangeable.
Interchangeable == Permutations(Requests) \cup Permutations(Titles)
                     \cup Permutations(Contents)
=============================================================================
