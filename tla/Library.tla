------------------------------ MODULE Library ------------------------------
(***************************************************************************)
(* What the document store promises its readers: a document is stored at   *)
(* most once, and one that was taken out never comes back under its        *)
(* doc_id.  Ingest implements it; Retrieval is built on it.                *)
(***************************************************************************)
CONSTANT Docs       \* every doc_id process_document may draw

VARIABLE shelf      \* what a reader of Chroma can find of each document

States == {"never", "stored", "gone"}

TypeOK == shelf \in [Docs -> States]

Init == shelf = [d \in Docs |-> "never"]

\* One upsert makes all chunks of a document visible.
Store(d) ==
    /\ shelf[d] = "never"
    /\ shelf' = [shelf EXCEPT ![d] = "stored"]

\* A deletion takes all of them out.
Remove(d) ==
    /\ shelf[d] = "stored"
    /\ shelf' = [shelf EXCEPT ![d] = "gone"]

Next == \E d \in Docs : Store(d) \/ Remove(d)

Spec == Init /\ [][Next]_shelf
=============================================================================
