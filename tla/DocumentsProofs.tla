-------------------------- MODULE DocumentsProofs ---------------------------
(***************************************************************************)
(* Documents: the types, the size of the pool, that the two tables change  *)
(* as DocumentStore says, and what it takes to starve the pool, for any    *)
(* documents and any pool.                                                 *)
(***************************************************************************)
EXTENDS Documents, FiniteSetTheorems, TLAPS

DocTypes ==
    /\ row \in [Doc -> Store!Row]
    /\ size \in [Doc -> 0..Chunks] /\ stored \in [Doc -> 0..Chunks]
    /\ pc \in [Doc -> PC] /\ inserted \in [Doc -> 0..Chunks]
    /\ holds \in SUBSET Doc /\ locked \in SUBSET Doc
    /\ deleting \in SUBSET Doc

PoolBounded == Free \in 0..MaxConns

(* What makes NoPartialDocument inductive: until its transaction commits,  *)
(* a document has no chunk; and once the transaction has inserted one, the *)
(* row is there and locked, so that no DELETE can take it away before the  *)
(* commit.                                                                 *)
DocSafe(d) ==
    /\ pc[d] = "new" => row[d] = "none" /\ size[d] = 0
    /\ row[d] = "none" => pc[d] \in {"new", "stopped"}
    /\ pc[d] \in {"embed", "begin", "insert", "commit"} =>
         row[d] \in {"processing", "deleted"}
    /\ pc[d] \in {"new", "embed", "begin"} => inserted[d] = 0
    /\ inserted[d] <= size[d]
    /\ pc[d] = "insert" /\ inserted[d] > 0 => row[d] = "processing" /\ d \in locked
    /\ pc[d] = "commit" => /\ inserted[d] = size[d]
                           /\ row[d] = "processing" => d \in locked
                           /\ row[d] = "deleted" => size[d] = 0
    /\ pc[d] = "report" => row[d] \in {"processing", "ready", "deleted"}
    /\ d \in deleting => Exists(d)
    /\ stored[d] \in {0, size[d]}
    /\ row[d] = "ready" => stored[d] = size[d]
    /\ row[d] \in {"none", "processing", "deleted"} => stored[d] = 0

Safe == DocTypes /\ \A d \in Doc : DocSafe(d)

-----------------------------------------------------------------------------
(* The types.                                                              *)
LEMMA PublishTypes ==
    ASSUME DocTypes, NEW D \in SUBSET Doc, Publish(D)
    PROVE  /\ row' \in [Doc -> Store!Row]
           /\ size' \in [Doc -> 0..Chunks] /\ stored' \in [Doc -> 0..Chunks]
BY DEF DocTypes, Publish, Store!Row

LEMMA TypesStep == DocTypes /\ [Next]_vars => DocTypes'
<1> SUFFICES ASSUME DocTypes, [Next]_vars PROVE DocTypes'
    OBVIOUS
<1> USE DEF At, tables
<1>1. ASSUME NEW d \in Doc, NEW k \in 0..Chunks, UploadDocument(d, k)
      PROVE  DocTypes'
      BY <1>1 DEF DocTypes, UploadDocument, PC, Store!Row
<1>2. ASSUME NEW d \in Doc, Embed(d) PROVE DocTypes'
      BY <1>2 DEF DocTypes, Embed, PC
<1>3. ASSUME NEW d \in Doc, Begin(d) PROVE DocTypes'
      BY <1>3 DEF DocTypes, Begin, PC
<1>4. ASSUME NEW d \in Doc, StatementFails(d) PROVE DocTypes'
      BY <1>4 DEF DocTypes, StatementFails, PC
<1>5. ASSUME NEW d \in Doc, InsertChunk(d) PROVE DocTypes'
      <2>1. inserted[d] + 1 \in 0..Chunks
            BY <1>5, DocumentsAssumption DEF DocTypes, InsertChunk
      <2> QED BY <1>5, <2>1 DEF DocTypes, InsertChunk
<1>6. ASSUME NEW d \in Doc, UpdateStatus(d) PROVE DocTypes'
      BY <1>6 DEF DocTypes, UpdateStatus, PC
<1>7. ASSUME NEW d \in Doc, Commit(d) PROVE DocTypes'
      <2>1. /\ row' \in [Doc -> Store!Row]
            /\ size' \in [Doc -> 0..Chunks] /\ stored' \in [Doc -> 0..Chunks]
            BY <1>7, PublishTypes DEF Commit, DocTypes
      <2> QED BY <1>7, <2>1 DEF DocTypes, Commit, PC
<1>8. ASSUME NEW d \in Doc, Report(d) PROVE DocTypes'
      BY <1>8 DEF DocTypes, Report, PC, Store!Row
<1>9. ASSUME NEW d \in Doc, IdleTimeout(d) PROVE DocTypes'
      BY <1>9 DEF DocTypes, IdleTimeout
<1>10. ASSUME NEW d \in Doc, DeleteDocument(d) PROVE DocTypes'
      BY <1>10 DEF DocTypes, DeleteDocument
<1>11. ASSUME NEW d \in Doc, DeleteRow(d) PROVE DocTypes'
      BY <1>11, DocumentsAssumption DEF DocTypes, DeleteRow, Store!Row
<1>12. ASSUME NEW d \in Doc, DeleteFails(d) PROVE DocTypes'
      BY <1>12 DEF DocTypes, DeleteFails
<1>13. ASSUME Restart PROVE DocTypes'
      <2>1. PICK D \in SUBSET {d \in Doc : pc[d] = "commit"} :
                Publish(D) /\ locked' = locked \ D
            BY <1>13 DEF Restart
      <2>2. D \in SUBSET Doc
            OBVIOUS
      <2>3. /\ row' \in [Doc -> Store!Row]
            /\ size' \in [Doc -> 0..Chunks] /\ stored' \in [Doc -> 0..Chunks]
            BY <2>1, <2>2, PublishTypes
      <2>4. pc' \in [Doc -> PC] /\ inserted' = inserted
            BY <1>13 DEF Restart, DocTypes, PC
      <2> QED BY <1>13, <2>1, <2>3, <2>4 DEF DocTypes, Restart
<1>14. CASE UNCHANGED vars
      BY <1>14 DEF DocTypes, vars
<1> QED BY <1>1, <1>2, <1>3, <1>4, <1>5, <1>6, <1>7, <1>8, <1>9, <1>10, <1>11,
           <1>12, <1>13, <1>14 DEF Next, Work

LEMMA TypesInit == Init => DocTypes
BY DocumentsAssumption DEF Init, DocTypes, Store!StoreInit, Store!Row, PC

-----------------------------------------------------------------------------
(* The pool: a goroutine or a DELETE takes a connection only if one is     *)
(* free.                                                                   *)
LEMMA AddOne ==
    ASSUME NEW S \in SUBSET Doc, NEW d \in Doc
    PROVE  /\ Cardinality(S) \in Nat /\ Cardinality(S \cup {d}) \in Nat
           /\ Cardinality(S \cup {d}) <= Cardinality(S) + 1
<1>1. IsFiniteSet(S)
      BY DocumentsAssumption, FS_Subset
<1>2. IsFiniteSet(S \cup {d})
      BY <1>1, FS_AddElement
<1> QED BY <1>1, <1>2, FS_AddElement, FS_CardinalityType

LEMMA RemoveOne ==
    ASSUME NEW S \in SUBSET Doc, NEW d \in Doc
    PROVE  /\ Cardinality(S) \in Nat /\ Cardinality(S \ {d}) \in Nat
           /\ Cardinality(S \ {d}) <= Cardinality(S)
<1>1. IsFiniteSet(S)
      BY DocumentsAssumption, FS_Subset
<1>2. IsFiniteSet(S \ {d})
      BY <1>1, FS_RemoveElement
<1>3. Cardinality(S) \in Nat /\ Cardinality(S \ {d}) \in Nat
      BY <1>1, <1>2, FS_CardinalityType
<1>4. Cardinality(S \ {d}) =
        IF d \in S THEN Cardinality(S) - 1 ELSE Cardinality(S)
      BY <1>1, FS_RemoveElement
<1> QED BY <1>3, <1>4

LEMMA PoolStep == DocTypes /\ PoolBounded /\ [Next]_vars => PoolBounded'
<1> SUFFICES ASSUME DocTypes, PoolBounded, [Next]_vars PROVE PoolBounded'
    OBVIOUS
<1> DEFINE h == Cardinality(holds)
           g == Cardinality(deleting)
           Kept == holds' = holds /\ deleting' = deleting
<1>1. h \in Nat /\ g \in Nat /\ h + g <= MaxConns /\ MaxConns \in Nat
      <2>1. IsFiniteSet(holds) /\ IsFiniteSet(deleting)
            BY DocumentsAssumption, FS_Subset DEF DocTypes
      <2>2. h \in Nat /\ g \in Nat
            BY <2>1, FS_CardinalityType
      <2> QED BY <2>2, DocumentsAssumption DEF PoolBounded, Free
<1>2. ASSUME Kept PROVE PoolBounded'
      BY <1>2 DEF PoolBounded, Free
<1>3. ASSUME NEW d \in Doc, holds' = holds \cup {d}, deleting' = deleting, Free > 0
      PROVE  PoolBounded'
      <2>1. Cardinality(holds') \in Nat /\ Cardinality(holds') <= h + 1
            BY <1>3, AddOne DEF DocTypes
      <2>2. h + g < MaxConns
            BY <1>1, <1>3 DEF Free
      <2> HIDE DEF h, g
      <2>3. Cardinality(deleting') = g
            BY <1>3 DEF g
      <2> QED BY <1>1, <2>1, <2>2, <2>3 DEF PoolBounded, Free
<1>4. ASSUME NEW d \in Doc, deleting' = deleting \cup {d}, holds' = holds, Free > 0
      PROVE  PoolBounded'
      <2>1. Cardinality(deleting') \in Nat /\ Cardinality(deleting') <= g + 1
            BY <1>4, AddOne DEF DocTypes
      <2>2. h + g < MaxConns
            BY <1>1, <1>4 DEF Free
      <2> HIDE DEF h, g
      <2>3. Cardinality(holds') = h
            BY <1>4 DEF h
      <2> QED BY <1>1, <2>1, <2>2, <2>3 DEF PoolBounded, Free
<1>5. ASSUME NEW d \in Doc, holds' = holds \ {d}, deleting' = deleting
      PROVE  PoolBounded'
      <2>1. Cardinality(holds') \in Nat /\ Cardinality(holds') <= h
            BY <1>5, RemoveOne DEF DocTypes
      <2> HIDE DEF h, g
      <2>2. Cardinality(deleting') = g
            BY <1>5 DEF g
      <2> QED BY <1>1, <2>1, <2>2 DEF PoolBounded, Free
<1>6. ASSUME NEW d \in Doc, deleting' = deleting \ {d}, holds' = holds
      PROVE  PoolBounded'
      <2>1. Cardinality(deleting') \in Nat /\ Cardinality(deleting') <= g
            BY <1>6, RemoveOne DEF DocTypes
      <2> HIDE DEF h, g
      <2>2. Cardinality(holds') = h
            BY <1>6 DEF h
      <2> QED BY <1>1, <2>1, <2>2 DEF PoolBounded, Free
<1>7. ASSUME Restart PROVE PoolBounded'
      <2>1. holds' = {} /\ deleting' = {} /\ Cardinality({}) = 0
            BY <1>7, FS_EmptySet DEF Restart
      <2> QED BY <2>1, DocumentsAssumption DEF PoolBounded, Free
<1>8. ASSUME NEW d \in Doc, Work(d) PROVE PoolBounded'
      <2>1. CASE Begin(d)
            BY <2>1, <1>2, <1>3 DEF Begin
      <2>2. CASE StatementFails(d)
            BY <2>2, <1>2 DEF StatementFails
      <2>3. CASE InsertChunk(d)
            BY <2>3, <1>2 DEF InsertChunk
      <2>4. CASE UpdateStatus(d)
            BY <2>4, <1>2 DEF UpdateStatus
      <2>5. CASE Commit(d)
            BY <2>5, <1>5 DEF Commit
      <2>6. CASE Report(d)
            BY <2>6, <1>5 DEF Report
      <2> QED BY <1>8, <2>1, <2>2, <2>3, <2>4, <2>5, <2>6 DEF Work
<1>9. ASSUME NEW d \in Doc,
             \/ \E k \in 0..Chunks : UploadDocument(d, k)
             \/ Embed(d) \/ IdleTimeout(d)
      PROVE  PoolBounded'
      BY <1>9, <1>2 DEF UploadDocument, Embed, IdleTimeout
<1>10. ASSUME NEW d \in Doc, DeleteDocument(d) PROVE PoolBounded'
      BY <1>10, <1>4 DEF DeleteDocument
<1>11. ASSUME NEW d \in Doc, DeleteRow(d) \/ DeleteFails(d) PROVE PoolBounded'
      BY <1>11, <1>6 DEF DeleteRow, DeleteFails
<1>12. CASE UNCHANGED vars
      BY <1>12, <1>2 DEF vars
<1> QED BY <1>7, <1>8, <1>9, <1>10, <1>11, <1>12 DEF Next

LEMMA PoolInit == Init => PoolBounded
<1>1. Cardinality({}) = 0
      BY FS_EmptySet
<1> QED BY <1>1, DocumentsAssumption DEF Init, PoolBounded, Free

(* TypeOK: the types, and the pool that never gives out more connections   *)
(* than it has (db.go:28), for any number of documents and connections.    *)
THEOREM DocumentsTypeCorrect == Spec => []TypeOK
<1> DEFINE TInv == DocTypes /\ PoolBounded
<1>1. Init => TInv
      BY TypesInit, PoolInit
<1>2. TInv /\ [Next]_vars => TInv'
      BY TypesStep, PoolStep
<1>3. TInv => TypeOK
      BY DEF DocTypes, PoolBounded, TypeOK
<1> QED BY <1>1, <1>2, <1>3, PTL DEF Spec

-----------------------------------------------------------------------------
(* No half of a document: Safe is inductive.                               *)
(* What a step leaves as it was for a document.                            *)
SameDoc(e) ==
    /\ row'[e] = row[e] /\ size'[e] = size[e] /\ stored'[e] = stored[e]
    /\ pc'[e] = pc[e] /\ inserted'[e] = inserted[e]
    /\ e \in locked' <=> e \in locked
    /\ e \in deleting' <=> e \in deleting

LEMMA SameDocSafe ==
    ASSUME NEW e \in Doc, DocSafe(e), SameDoc(e)
    PROVE  DocSafe(e)'
BY DEF DocSafe, SameDoc, Exists

LEMMA SafeInit == Init => Safe
<1> SUFFICES ASSUME Init PROVE \A d \in Doc : DocSafe(d)
    BY TypesInit DEF Safe
<1> TAKE d \in Doc
<1> QED BY DEF Init, Store!StoreInit, DocSafe, Exists

LEMMA SafeStep == Safe /\ [Next]_vars => Safe'
<1> SUFFICES ASSUME Safe, [Next]_vars, NEW e \in Doc PROVE DocSafe(e)'
    BY TypesStep DEF Safe
<1>0. DocTypes /\ DocSafe(e)
      BY DEF Safe
<1> USE DEF At, tables
<1>1. ASSUME NEW d \in Doc, NEW k \in 0..Chunks, UploadDocument(d, k)
      PROVE  DocSafe(e)'
      <2>1. CASE d = e
            BY <1>0, <1>1, <2>1, DocumentsAssumption
            DEF DocTypes, UploadDocument, DocSafe, Exists
      <2>2. CASE d # e
            <3>1. SameDoc(e)
                  BY <1>0, <1>1, <2>2 DEF DocTypes, UploadDocument, SameDoc
            <3> QED BY <1>0, <3>1, SameDocSafe
      <2> QED BY <2>1, <2>2
<1>2. ASSUME NEW d \in Doc, Embed(d) PROVE DocSafe(e)'
      BY <1>0, <1>2 DEF DocTypes, Embed, DocSafe, Exists
<1>3. ASSUME NEW d \in Doc, Begin(d) PROVE DocSafe(e)'
      BY <1>0, <1>3 DEF DocTypes, Begin, DocSafe, Exists
<1>4. ASSUME NEW d \in Doc, StatementFails(d) PROVE DocSafe(e)'
      BY <1>0, <1>4 DEF DocTypes, StatementFails, DocSafe, Exists
<1>5. ASSUME NEW d \in Doc, InsertChunk(d) PROVE DocSafe(e)'
      BY <1>0, <1>5 DEF DocTypes, InsertChunk, DocSafe, Exists
<1>6. ASSUME NEW d \in Doc, UpdateStatus(d) PROVE DocSafe(e)'
      BY <1>0, <1>6 DEF DocTypes, UpdateStatus, DocSafe, Exists
<1>7. ASSUME NEW d \in Doc, Commit(d) PROVE DocSafe(e)'
      <2>1. CASE d = e
            BY <1>0, <1>7, <2>1 DEF DocTypes, Commit, Publish, DocSafe, Exists
      <2>2. CASE d # e
            <3>1. SameDoc(e)
                  BY <1>0, <1>7, <2>2 DEF DocTypes, Commit, Publish, SameDoc
            <3> QED BY <1>0, <3>1, SameDocSafe
      <2> QED BY <2>1, <2>2
<1>8. ASSUME NEW d \in Doc, Report(d) PROVE DocSafe(e)'
      <2>1. CASE d = e
            BY <1>0, <1>8, <2>1 DEF DocTypes, Report, DocSafe, Exists
      <2>2. CASE d # e
            <3>1. SameDoc(e)
                  BY <1>0, <1>8, <2>2 DEF DocTypes, Report, SameDoc
            <3> QED BY <1>0, <3>1, SameDocSafe
      <2> QED BY <2>1, <2>2
<1>9. ASSUME NEW d \in Doc, IdleTimeout(d) PROVE DocSafe(e)'
      BY <1>0, <1>9 DEF DocTypes, IdleTimeout, DocSafe, Exists
<1>10. ASSUME NEW d \in Doc, DeleteDocument(d) PROVE DocSafe(e)'
      BY <1>0, <1>10 DEF DocTypes, DeleteDocument, DocSafe, Exists
<1>11. ASSUME NEW d \in Doc, DeleteRow(d) PROVE DocSafe(e)'
      <2>1. CASE d = e
            BY <1>0, <1>11, <2>1 DEF DocTypes, DeleteRow, DocSafe, Exists
      <2>2. CASE d # e
            <3>1. SameDoc(e)
                  BY <1>0, <1>11, <2>2 DEF DocTypes, DeleteRow, SameDoc
            <3> QED BY <1>0, <3>1, SameDocSafe
      <2> QED BY <2>1, <2>2
<1>12. ASSUME NEW d \in Doc, DeleteFails(d) PROVE DocSafe(e)'
      BY <1>0, <1>12 DEF DocTypes, DeleteFails, DocSafe, Exists
<1>13. ASSUME Restart PROVE DocSafe(e)'
      <2>1. PICK D \in SUBSET {d \in Doc : pc[d] = "commit"} :
                Publish(D) /\ locked' = locked \ D
            BY <1>13 DEF Restart
      <2>2. /\ pc'[e] = IF pc[e] = "new" THEN "new" ELSE "stopped"
            /\ inserted' = inserted /\ deleting' = {}
            BY <1>13 DEF Restart
      <2>3. CASE e \in D
            BY <1>0, <2>1, <2>2, <2>3 DEF DocTypes, Publish, DocSafe, Exists
      <2>4. CASE e \notin D
            BY <1>0, <2>1, <2>2, <2>4 DEF DocTypes, Publish, DocSafe, Exists
      <2> QED BY <2>3, <2>4
<1>14. CASE UNCHANGED vars
      <2>1. SameDoc(e)
            BY <1>14 DEF vars, SameDoc
      <2> QED BY <1>0, <2>1, SameDocSafe
<1> QED BY <1>1, <1>2, <1>3, <1>4, <1>5, <1>6, <1>7, <1>8, <1>9, <1>10, <1>11,
           <1>12, <1>13, <1>14 DEF Next, Work

(* NoPartialDocument: no half of a document is ever visible, for any       *)
(* number of documents and chunks, whatever fails or stops                 *)
(* (handler.go:2097, the transaction of processDocument).                  *)
THEOREM DocumentsWhole == Spec => []NoPartialDocument
<1>1. Safe => NoPartialDocument
      BY DEF Safe, DocSafe, NoPartialDocument
<1> QED BY <1>1, SafeInit, SafeStep, PTL DEF Spec

-----------------------------------------------------------------------------
(* The refinement: a step of Documents is a step of DocumentStore or       *)
(* changes neither table.                                                  *)
LEMMA PublishStep ==
    ASSUME Safe, NEW D \in SUBSET {d \in Doc : pc[d] = "commit"}, Publish(D)
    PROVE  [Store!StoreNext]_tables
<1> DEFINE E == {d \in D : row[d] = "processing"}
<1>1. \A d \in D : /\ row[d] \in {"processing", "deleted"}
                   /\ inserted[d] = size[d]
                   /\ row[d] = "deleted" => inserted[d] = stored[d]
      BY DEF Safe, DocTypes, DocSafe
<1>2. row' = [d \in Doc |-> IF d \in E THEN "ready" ELSE row[d]]
      BY <1>1 DEF Publish, Exists
<1>3. stored' = [d \in Doc |-> IF d \in E THEN size[d] ELSE stored[d]]
      BY <1>1 DEF Publish
<1>4. E \in SUBSET Doc /\ \A d \in E : row[d] = "processing"
      OBVIOUS
<1>5. Store!PublishSeveral(E)
      BY <1>2, <1>3, <1>4 DEF Publish, Store!PublishSeveral
<1> QED BY <1>4, <1>5 DEF Store!StoreNext

LEMMA StoreStep == Safe /\ [Next]_vars => [Store!StoreNext]_tables
<1> SUFFICES ASSUME Safe, [Next]_vars PROVE [Store!StoreNext]_tables
    OBVIOUS
<1>0. DocTypes /\ \A d \in Doc : DocSafe(d)
      BY DEF Safe
<1> USE DEF At
<1>1. ASSUME NEW d \in Doc, NEW k \in 0..Chunks, UploadDocument(d, k)
      PROVE  Store!StoreNext
      <2>1. row[d] = "none"
            BY <1>0, <1>1 DEF UploadDocument, DocSafe
      <2>2. Store!Create(d, k)
            BY <1>1, <2>1 DEF UploadDocument, Store!Create
      <2> QED BY <2>2 DEF Store!StoreNext
<1>2. ASSUME NEW d \in Doc, Commit(d) PROVE [Store!StoreNext]_tables
      <2>1. CASE Publish({d})
            <3>1. pc[d] = "commit"
                  BY <1>2 DEF Commit
            <3> QED BY <2>1, <3>1, PublishStep
      <2>2. CASE UNCHANGED tables
            BY <2>2
      <2> QED BY <1>2, <2>1, <2>2 DEF Commit
<1>3. ASSUME NEW d \in Doc, Report(d) PROVE [Store!StoreNext]_tables
      <2>1. CASE Exists(d) /\ row' = [row EXCEPT ![d] = "error"]
            <3>1. row[d] \in {"processing", "ready"}
                  BY <1>0, <1>3, <2>1 DEF Report, DocSafe, Exists
            <3>2. Store!Fail(d)
                  BY <1>3, <2>1, <3>1 DEF Report, Store!Fail
            <3> QED BY <3>2 DEF Store!StoreNext
      <2>2. CASE UNCHANGED row
            BY <1>3, <2>2 DEF Report, tables
      <2> QED BY <1>3, <2>1, <2>2 DEF Report
<1>4. ASSUME NEW d \in Doc, DeleteRow(d) PROVE Store!StoreNext
      <2>1. Exists(d)
            BY <1>0, <1>4 DEF DeleteRow, DocSafe
      <2>2. Store!Remove(d)
            BY <1>4, <2>1 DEF DeleteRow, Exists, Store!Remove
      <2> QED BY <2>2 DEF Store!StoreNext
<1>5. ASSUME Restart PROVE [Store!StoreNext]_tables
      <2>1. PICK D \in SUBSET {d \in Doc : pc[d] = "commit"} : Publish(D)
            BY <1>5 DEF Restart
      <2> QED BY <2>1, PublishStep
<1>6. ASSUME NEW d \in Doc,
             \/ Embed(d) \/ Begin(d) \/ StatementFails(d) \/ InsertChunk(d)
             \/ UpdateStatus(d) \/ IdleTimeout(d) \/ DeleteDocument(d)
             \/ DeleteFails(d)
      PROVE  UNCHANGED tables
      BY <1>6 DEF Embed, Begin, StatementFails, InsertChunk, UpdateStatus,
                  IdleTimeout, DeleteDocument, DeleteFails
<1>7. CASE UNCHANGED vars
      BY <1>7 DEF vars
<1> QED BY <1>1, <1>2, <1>3, <1>4, <1>5, <1>6, <1>7 DEF Next, Work

(* ImplementsStore: the handlers, goroutines and failures of the documents *)
(* (handler.go:2023-2240) change the tables only as DocumentStore allows.  *)
THEOREM DocumentsImplement == Spec => ImplementsStore
<1>1. Init => Store!StoreInit
      BY DEF Init
<1>2. Safe /\ [Next]_vars => [Store!StoreNext]_(Store!storeVars)
      BY StoreStep DEF tables, Store!storeVars
<1> QED BY <1>1, <1>2, SafeInit, SafeStep, PTL
        DEF Spec, ImplementsStore, Store!StoreSpec

-----------------------------------------------------------------------------
(* Who keeps a connection for a transaction has not ended.                 *)
Holding == \A d \in holds : pc[d] \in {"insert", "commit", "report"}

LEMMA HoldingStep == DocTypes /\ Holding /\ [Next]_vars => Holding'
<1> SUFFICES ASSUME DocTypes, Holding, [Next]_vars PROVE Holding'
    OBVIOUS
<1>0. pc \in [Doc -> PC] /\ holds \subseteq Doc
      BY DEF DocTypes
<1> USE DEF At, Holding
<1>1. ASSUME NEW d \in Doc, NEW k \in 0..Chunks, UploadDocument(d, k)
      PROVE  Holding'
      BY <1>0, <1>1 DEF UploadDocument
<1>2. ASSUME NEW d \in Doc, Embed(d) PROVE Holding'
      BY <1>0, <1>2 DEF Embed
<1>3. ASSUME NEW d \in Doc, Begin(d) PROVE Holding'
      BY <1>0, <1>3 DEF Begin
<1>4. ASSUME NEW d \in Doc, StatementFails(d) \/ InsertChunk(d) \/ UpdateStatus(d)
      PROVE  Holding'
      BY <1>0, <1>4 DEF StatementFails, InsertChunk, UpdateStatus
<1>5. ASSUME NEW d \in Doc, Commit(d) PROVE Holding'
      <2>1. holds' = holds \ {d} /\ \A e \in Doc \ {d} : pc'[e] = pc[e]
            BY <1>0, <1>5 DEF Commit
      <2> QED BY <1>0, <2>1
<1>6. ASSUME NEW d \in Doc, Report(d) PROVE Holding'
      <2>1. holds' = holds \ {d} /\ \A e \in Doc \ {d} : pc'[e] = pc[e]
            BY <1>0, <1>6 DEF Report
      <2> QED BY <1>0, <2>1
<1>7. ASSUME NEW d \in Doc,
             IdleTimeout(d) \/ DeleteDocument(d) \/ DeleteRow(d) \/ DeleteFails(d)
      PROVE  Holding'
      BY <1>7 DEF IdleTimeout, DeleteDocument, DeleteRow, DeleteFails
<1>8. CASE Restart
      BY <1>8 DEF Restart
<1>9. CASE UNCHANGED vars
      BY <1>9 DEF vars
<1> QED BY <1>1, <1>2, <1>3, <1>4, <1>5, <1>6, <1>7, <1>8, <1>9 DEF Next, Work

LEMMA Starved == DocTypes /\ Holding => StarvedByFailuresOnly
<1> SUFFICES ASSUME DocTypes, Holding, Free = 0, deleting = {},
                    \A d \in holds : pc[d] \notin {"insert", "commit"}
             PROVE  Cardinality({d \in Doc : pc[d] = "report"}) >= MaxConns
    BY DEF StarvedByFailuresOnly
<1> DEFINE Failed == {d \in Doc : pc[d] = "report"}
<1>1. holds \subseteq Failed
      BY DEF DocTypes, Holding
<1>2. IsFiniteSet(Failed)
      BY FS_Subset, DocumentsAssumption
<1>3. /\ IsFiniteSet(holds) /\ Cardinality(holds) \in Nat
      /\ Cardinality(Failed) \in Nat /\ Cardinality(holds) <= Cardinality(Failed)
      BY <1>1, <1>2, FS_Subset, FS_CardinalityType
<1>4. Cardinality(deleting) = 0
      BY FS_EmptySet
<1>5. Cardinality(holds) = MaxConns
      BY <1>3, <1>4, DocumentsAssumption DEF Free
<1> QED BY <1>3, <1>5

(* StarvedByFailuresOnly: with the pool empty and nobody to give a         *)
(* connection back, at least as many documents have failed as the pool has *)
(* connections (handler.go:2074-2140): fewer can never starve it, whatever *)
(* else is uploaded, deleted or restarted.                                 *)
THEOREM DocumentsStarved == Spec => []StarvedByFailuresOnly
<1>1. Init => Holding
      BY DEF Init, Holding
<1> QED BY <1>1, TypesInit, TypesStep, HoldingStep, Starved, PTL DEF Spec
=============================================================================
