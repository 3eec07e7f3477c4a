----------------------------- MODULE Documents ------------------------------
(***************************************************************************)
(* The documents of the control API (internal/handler/handler.go): an      *)
(* upload answers at once, and a goroutine of its own embeds the chunks    *)
(* and stores them in one transaction.  All requests and goroutines share  *)
(* one pool of connections (internal/db/db.go); a goroutine whose          *)
(* transaction has failed reports it on a second connection, and gives the *)
(* first one back only after that.                                         *)
(*                                                                         *)
(* A statement is one step, with the connection it is sent on.  Any        *)
(* statement, and the embeddings endpoint, may fail; a commit may fail     *)
(* after it has taken effect.                                              *)
(***************************************************************************)
EXTENDS Integers, FiniteSets

CONSTANTS
    Doc,        \* documents, each uploaded at most once
    Chunks,     \* how many chunks a document has at most
    MaxConns    \* the size of the pool (10)

ASSUME DocumentsAssumption ==
    /\ IsFiniteSet(Doc) /\ Chunks \in Nat /\ MaxConns \in Nat \ {0}

PC == {"new", "embed", "begin", "insert", "commit", "report", "end", "stopped"}

VARIABLES
    row,        \* knowledge_documents.status, "none" when there is no row yet
    size,       \* the chunks the document's text is split into
    stored,     \* how many of them are in knowledge_chunks, committed
    pc,         \* processDocument, per document
    inserted,   \* the chunks its transaction has inserted
    holds,      \* the goroutines that hold the connection of a transaction
    locked,     \* the rows that a transaction in Postgres has locked
    deleting    \* the rows a DELETE waits for, each on a connection

Store == INSTANCE DocumentStore
    WITH row <- row, size <- size, stored <- stored

tables == <<row, size, stored>>
vars == <<tables, pc, inserted, holds, locked, deleting>>

Init ==
    /\ Store!StoreInit
    /\ pc = [d \in Doc |-> "new"] /\ inserted = [d \in Doc |-> 0]
    /\ holds = {} /\ locked = {} /\ deleting = {}

Exists(d) == row[d] \in {"processing", "ready", "error"}
Free == MaxConns - Cardinality(holds) - Cardinality(deleting)
At(d, from, to) == pc[d] = from /\ pc' = [pc EXCEPT ![d] = to]

-----------------------------------------------------------------------------
(* UploadDocument: the row is inserted and the goroutine started; when the *)
(* reply of the INSERT is lost there is a row and no goroutine.            *)
UploadDocument(d, k) ==
    /\ Free > 0
    /\ \/ At(d, "new", "embed")
       \/ At(d, "new", "stopped")
    /\ row' = [row EXCEPT ![d] = "processing"]
    /\ size' = [size EXCEPT ![d] = k]
    /\ UNCHANGED <<stored, inserted, holds, locked, deleting>>

-----------------------------------------------------------------------------
(* processDocument.                                                        *)
Embed(d) ==
    /\ \/ At(d, "embed", "begin")
       \/ At(d, "embed", "report")
    /\ UNCHANGED <<tables, inserted, holds, locked, deleting>>

BeginWithoutRoom(d) ==         \* mutant: the pool has no limit
    /\ \/ At(d, "begin", "insert") /\ holds' = holds \cup {d}
       \/ At(d, "begin", "report") /\ UNCHANGED holds
    /\ UNCHANGED <<tables, inserted, locked, deleting>>
Begin(d) ==
    /\ Free > 0
    /\ \/ At(d, "begin", "insert") /\ holds' = holds \cup {d}
       \/ At(d, "begin", "report") /\ UNCHANGED holds
    /\ UNCHANGED <<tables, inserted, locked, deleting>>

(* A statement of the transaction fails.  Postgres has ended the           *)
(* transaction, or knows nothing of the failure yet.                       *)
StatementFails(d) ==
    /\ At(d, "insert", "report")
    /\ locked' \in {locked, locked \ {d}}
    /\ UNCHANGED <<tables, inserted, holds, deleting>>

(* The foreign key needs the row and locks it against a DELETE.            *)
InsertAutocommit(d) ==         \* mutant: the chunk is inserted outside the transaction
    /\ pc[d] = "insert" /\ inserted[d] < size[d] /\ Exists(d)
    /\ inserted' = [inserted EXCEPT ![d] = @ + 1]
    /\ stored' = [stored EXCEPT ![d] = @ + 1]
    /\ locked' = locked \cup {d}
    /\ UNCHANGED <<row, size, pc, holds, deleting>>
InsertChunk(d) ==
    /\ pc[d] = "insert" /\ inserted[d] < size[d] /\ Exists(d)
    /\ inserted' = [inserted EXCEPT ![d] = @ + 1]
    /\ locked' = locked \cup {d}
    /\ UNCHANGED <<tables, pc, holds, deleting>>

(* The last statement; it finds no row when a document without chunks has  *)
(* been deleted, and that is no error.                                     *)
UpdateStatus(d) ==
    /\ inserted[d] = size[d]
    /\ At(d, "insert", "commit")
    /\ locked' = IF Exists(d) THEN locked \cup {d} ELSE locked
    /\ UNCHANGED <<tables, inserted, holds, deleting>>

(* What the commits of the documents D do to the tables.                   *)
Publish(D) ==
    /\ row' = [d \in Doc |-> IF d \in D /\ Exists(d) THEN "ready" ELSE row[d]]
    /\ stored' = [d \in Doc |-> IF d \in D THEN inserted[d] ELSE stored[d]]
    /\ UNCHANGED size

(* Commit gives the connection back, whatever it returns.                  *)
Commit(d) ==
    /\ \/ At(d, "commit", "end") /\ Publish({d})
       \/ At(d, "commit", "report") /\ Publish({d})
       \/ At(d, "commit", "report") /\ UNCHANGED tables
    /\ holds' = holds \ {d} /\ locked' = locked \ {d}
    /\ UNCHANGED <<inserted, deleting>>

(* The status error is written on a connection of its own, and a failure   *)
(* to write it is ignored; then the deferred Rollback runs, which does not *)
(* reach Postgres when it is the connection that has failed.               *)
ReportOnTwo(d) ==              \* mutant: it reads the row on one, writes on another
    /\ Free > 1
    /\ At(d, "report", "end")
    /\ \/ row' = IF Exists(d) THEN [row EXCEPT ![d] = "error"] ELSE row
       \/ UNCHANGED row
    /\ holds' = holds \ {d} /\ locked' \in {locked, locked \ {d}}
    /\ UNCHANGED <<size, stored, inserted, deleting>>
Report(d) ==
    /\ Free > 0
    /\ At(d, "report", "end")
    /\ \/ row' = IF Exists(d) THEN [row EXCEPT ![d] = "error"] ELSE row
       \/ UNCHANGED row
    /\ holds' = holds \ {d} /\ locked' \in {locked, locked \ {d}}
    /\ UNCHANGED <<size, stored, inserted, deleting>>

(* idle_in_transaction_session_timeout: Postgres ends the transaction; the *)
(* goroutine keeps the connection.                                         *)
IdleTimeout(d) ==
    /\ d \in locked /\ pc[d] \notin {"insert", "commit"}
    /\ locked' = locked \ {d}
    /\ UNCHANGED <<tables, pc, inserted, holds, deleting>>

-----------------------------------------------------------------------------
(* DeleteDocument: the DELETE, which waits for the locks of a transaction. *)
DeleteDocument(d) ==
    /\ Free > 0 /\ Exists(d) /\ d \notin deleting
    /\ deleting' = deleting \cup {d}
    /\ UNCHANGED <<tables, pc, inserted, holds, locked>>

DeleteRowUnlocked(d) ==        \* mutant: the chunks have no foreign key
    /\ d \in deleting
    /\ deleting' = deleting \ {d}
    /\ row' = [row EXCEPT ![d] = "deleted"]
    /\ stored' = [stored EXCEPT ![d] = 0]
    /\ UNCHANGED <<size, pc, inserted, holds, locked>>
DeleteRow(d) ==
    /\ d \in deleting \ locked
    /\ deleting' = deleting \ {d}
    /\ row' = [row EXCEPT ![d] = "deleted"]
    /\ stored' = [stored EXCEPT ![d] = 0]
    /\ UNCHANGED <<size, pc, inserted, holds, locked>>

(* statement_timeout, or the client has gone.                              *)
DeleteFails(d) ==
    /\ d \in deleting
    /\ deleting' = deleting \ {d}
    /\ UNCHANGED <<tables, pc, inserted, holds, locked>>

-----------------------------------------------------------------------------
(* The server stops and starts again, with no memory of its goroutines.    *)
(* The commits that were on their way may have been carried out.           *)
Restart ==
    /\ \E D \in SUBSET {d \in Doc : pc[d] = "commit"} :
        /\ Publish(D)
        /\ locked' = locked \ D
    /\ pc' = [d \in Doc |-> IF pc[d] = "new" THEN "new" ELSE "stopped"]
    /\ holds' = {} /\ deleting' = {}
    /\ UNCHANGED inserted

Work(d) ==
    \/ Begin(d) \/ StatementFails(d) \/ InsertChunk(d)
    \/ UpdateStatus(d) \/ Commit(d) \/ Report(d)

Next ==
    \/ \E d \in Doc :
        \/ \E k \in 0..Chunks : UploadDocument(d, k)
        \/ Embed(d) \/ Work(d) \/ IdleTimeout(d)
        \/ DeleteDocument(d) \/ DeleteRow(d) \/ DeleteFails(d)
    \/ Restart

Spec == Init /\ [][Next]_vars

(* A goroutine runs on; the pool serves those that wait in their order, so *)
(* a goroutine that waits gets a connection if connections keep coming     *)
(* back; and Postgres enforces its two timeouts.  The embeddings endpoint  *)
(* may never answer: its client has no timeout.                            *)
Fairness ==
    \A d \in Doc :
        /\ SF_vars(Work(d))
        /\ WF_vars(IdleTimeout(d))
        /\ WF_vars(DeleteRow(d) \/ DeleteFails(d))

FairSpec == Spec /\ Fairness

-----------------------------------------------------------------------------
(* The types; the pool gives out no more connections than it has.          *)
TypeOK ==
    /\ row \in [Doc -> Store!Row]
    /\ size \in [Doc -> 0..Chunks] /\ stored \in [Doc -> 0..Chunks]
    /\ pc \in [Doc -> PC] /\ inserted \in [Doc -> 0..Chunks]
    /\ holds \in SUBSET Doc /\ locked \in SUBSET Doc
    /\ deleting \in SUBSET Doc
    /\ Free \in 0..MaxConns

(* No half of a document is ever visible, whatever fails, is deleted while *)
(* it is processed, or is cut off by a restart: a document that is ready   *)
(* has all its chunks, one that is deleted or still processed has none,    *)
(* and one in error has all or none (all: its commit took effect and its   *)
(* reply was lost).                                                        *)
NoPartialDocument ==
    \A d \in Doc :
        /\ stored[d] \in {0, size[d]}
        /\ row[d] = "ready" => stored[d] = size[d]
        /\ row[d] \in {"none", "processing", "deleted"} => stored[d] = 0

(* The two tables change as DocumentStore allows: chunks appear in the one *)
(* step that makes the document ready, and nothing brings back a document  *)
(* that was deleted or that has failed.                                    *)
ImplementsStore == Store!StoreSpec

(* processDocument ends once the endpoint has answered, whatever fails and *)
(* whoever deletes meanwhile, when fewer documents are processed than the  *)
(* pool has connections.                                                   *)
UploadEnds ==
    \A d \in Doc : pc[d] \in {"begin", "report"} ~> pc[d] \in {"end", "stopped"}

(* Said by db.go:33: the two timeouts keep statements from starving the    *)
(* pool, so that requests find a connection again and again.  False when   *)
(* as many documents fail as the pool has connections: each holds one and  *)
(* waits for another.                                                      *)
PoolNotStarved == []<>(Free > 0)

(* What it takes to get there: when no connection is free, a DELETE is to  *)
(* give one back, a transaction has a statement left, or at least as many  *)
(* documents have failed as the pool has connections.                      *)
StarvedByFailuresOnly ==
    Free = 0 => \/ deleting # {}
                \/ \E d \in holds : pc[d] \in {"insert", "commit"}
                \/ Cardinality({d \in Doc : pc[d] = "report"}) >= MaxConns
=============================================================================
