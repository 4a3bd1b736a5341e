--------------------------- MODULE DurableDocument ---------------------------
(***************************************************************************)
(* What the collaboration service promises about the text of a document,   *)
(* with everything about sockets, caching and Redis commands left out: a   *)
(* document is the set of CRDT updates it has absorbed, updates are only   *)
(* ever added, and a crash may take back nothing that was already stable.  *)
(***************************************************************************)
CONSTANTS Docs, Updates

VARIABLES content,      \* content[d]: what a client that joins d is shown
          stable,       \* stable[d]: the part of it that survives a crash
          up            \* the service is running

vars == <<content, stable, up>>

TypeOK == /\ content \in [Docs -> SUBSET Updates]
          /\ stable \in [Docs -> SUBSET Updates]
          /\ up \in BOOLEAN

Init == /\ content = [d \in Docs |-> {}]
        /\ stable = [d \in Docs |-> {}]
        /\ up = TRUE

Accept(d, u) == /\ up
                /\ content' = [content EXCEPT ![d] = @ \cup {u}]
                /\ UNCHANGED <<stable, up>>

\* The stable part grows, never beyond the content.
Stabilize(d) == \E more \in SUBSET Updates :
                  /\ up
                  /\ stable[d] \subseteq more
                  /\ more \subseteq content[d]
                  /\ stable' = [stable EXCEPT ![d] = more]
                  /\ UNCHANGED <<content, up>>

\* A crash keeps the stable part and any of the rest; nothing else takes back
\* what clients have been shown.
Crash == \E kept \in [Docs -> SUBSET Updates] :
           /\ \A d \in Docs : /\ stable[d] \subseteq kept[d]
                              /\ kept[d] \subseteq content[d]
           /\ content' = kept
           /\ stable' = kept
           /\ up' = FALSE

Restart == /\ ~up
           /\ up' = TRUE
           /\ UNCHANGED <<content, stable>>

Next == \/ \E d \in Docs, u \in Updates : Accept(d, u)
        \/ \E d \in Docs : Stabilize(d)
        \/ Crash
        \/ Restart

Spec == Init /\ [][Next]_vars
=============================================================================
