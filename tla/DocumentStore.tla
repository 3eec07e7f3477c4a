--------------------------- MODULE DocumentStore ----------------------------
(***************************************************************************)
(* What the documents of the control API promise to retrieval and to the   *)
(* pages that list them: a document's chunks are stored all at once and    *)
(* become visible together with the status ready, and they go with it.     *)
(* Documents implements this.                                              *)
(***************************************************************************)
EXTENDS Naturals

CONSTANTS
    Doc,        \* documents
    Chunks      \* how many chunks a document has at most

VARIABLES
    row,        \* knowledge_documents.status, "none" when there is no row yet
    size,       \* the chunks the document's text is split into
    stored      \* how many of them are in knowledge_chunks

storeVars == <<row, size, stored>>

Row == {"none", "processing", "ready", "error", "deleted"}

StoreInit ==
    /\ row = [d \in Doc |-> "none"]
    /\ size = [d \in Doc |-> 0]
    /\ stored = [d \in Doc |-> 0]

Create(d, k) ==
    /\ row[d] = "none"
    /\ row' = [row EXCEPT ![d] = "processing"]
    /\ size' = [size EXCEPT ![d] = k]
    /\ UNCHANGED stored

Publish(d) ==
    /\ row[d] = "processing"
    /\ row' = [row EXCEPT ![d] = "ready"]
    /\ stored' = [stored EXCEPT ![d] = size[d]]
    /\ UNCHANGED size

(* Also after Publish: a commit whose reply is lost is reported as failed. *)
Fail(d) ==
    /\ row[d] \in {"processing", "ready"}
    /\ row' = [row EXCEPT ![d] = "error"]
    /\ UNCHANGED <<size, stored>>

Remove(d) ==
    /\ row[d] \in {"processing", "ready", "error"}
    /\ row' = [row EXCEPT ![d] = "deleted"]
    /\ stored' = [stored EXCEPT ![d] = 0]
    /\ UNCHANGED size

(* The server may stop while the commits of several documents are on their *)
(* way: they take effect before it is back.                                *)
PublishSeveral(D) ==
    /\ \A d \in D : row[d] = "processing"
    /\ row' = [d \in Doc |-> IF d \in D THEN "ready" ELSE row[d]]
    /\ stored' = [d \in Doc |-> IF d \in D THEN size[d] ELSE stored[d]]
    /\ UNCHANGED size

StoreNext ==
    \/ \E d \in Doc :
        \/ \E k \in 0..Chunks : Create(d, k)
        \/ Publish(d) \/ Fail(d) \/ Remove(d)
    \/ \E D \in SUBSET Doc : PublishSeveral(D)

StoreSpec == StoreInit /\ [][StoreNext]_storeVars
=============================================================================
