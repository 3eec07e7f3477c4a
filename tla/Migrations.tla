----------------------------- MODULE Migrations -----------------------------
(***************************************************************************)
(* Migrate, as every server of the control API runs it when it starts:     *)
(* for each file of the binary, it asks whether the file is recorded,      *)
(* applies it, and records it, with three statements and no lock.  The     *)
(* chart starts two servers at a time; any may end between statements, and *)
(* is started again, from the same binary or a newer one.                  *)
(***************************************************************************)
EXTENDS Naturals, FiniteSets

CONSTANTS
    Replicas,
    Files,      \* the migrations of the newest binary, by their place
    First,      \* those of the oldest binary
    Once,       \* the migrations that fail when they are applied again
    MaxCrashes  \* bound on crashes and on statements that fail by themselves

ASSUME MigrationsAssumption ==
    /\ Files \in Nat \ {0} /\ First \in 1..Files
    /\ Once \subseteq 1..Files /\ MaxCrashes \in Nat

PCs == {"down", "check", "apply", "record", "serving"}

VARIABLES
    applied,   \* the migrations that are in the schema
    recorded,  \* the rows of schema_migrations
    pc, at,    \* where each server is, and its place in the files
    binary,    \* the number of files in each server's binary
    crashes

vars == <<applied, recorded, pc, at, binary, crashes>>

Init ==
    /\ applied = {} /\ recorded = {} /\ crashes = 0
    /\ pc = [r \in Replicas |-> "down"] /\ at = [r \in Replicas |-> 1]
    /\ binary = [r \in Replicas |-> First]

-----------------------------------------------------------------------------
Goto(r, to) == pc' = [pc EXCEPT ![r] = to]
(* log.Fatal: the process ends.                                            *)
Fatal(r) == Goto(r, "down") /\ UNCHANGED at

(* ReadDir and sort.Strings: the i-th of n files.                          *)
UnsortedFile(r, i) ==       \* mutant: the files in some other order
    binary[r] + 1 - i
File(r, i) == i

(* Connect and CREATE TABLE IF NOT EXISTS schema_migrations.               *)
Start(r) ==
    /\ pc[r] = "down" /\ Goto(r, "check") /\ at' = [at EXCEPT ![r] = 1]
    /\ UNCHANGED <<applied, recorded, binary, crashes>>

Check(r) ==
    /\ pc[r] = "check"
    /\ IF at[r] > binary[r] THEN Goto(r, "serving") /\ UNCHANGED at
       ELSE IF File(r, at[r]) \in recorded
       THEN at' = [at EXCEPT ![r] = @ + 1] /\ UNCHANGED pc
       ELSE Goto(r, "apply") /\ UNCHANGED at
    /\ UNCHANGED <<applied, recorded, binary, crashes>>

(* The statements of one file are one implicit transaction.                *)
ApplyFails(r) ==
    /\ pc[r] = "apply" /\ File(r, at[r]) \in Once \cap applied
    /\ Fatal(r) /\ UNCHANGED <<applied, recorded, binary, crashes>>
ApplyOnce(r) ==             \* mutant: no IF NOT EXISTS in any migration
    /\ pc[r] = "apply" /\ File(r, at[r]) \notin applied
    /\ applied' = applied \cup {File(r, at[r])}
    /\ Goto(r, "record") /\ UNCHANGED <<recorded, at, binary, crashes>>
Apply(r) ==
    /\ pc[r] = "apply" /\ File(r, at[r]) \notin Once \cap applied
    /\ applied' = applied \cup {File(r, at[r])}
    /\ Goto(r, "record") /\ UNCHANGED <<recorded, at, binary, crashes>>

(* INSERT INTO schema_migrations, whose key is the file's name.            *)
RecordFails(r) ==
    /\ pc[r] = "record" /\ File(r, at[r]) \in recorded
    /\ Fatal(r) /\ UNCHANGED <<applied, recorded, binary, crashes>>
RecordAll(r) ==             \* mutant: records the files of the binary
    /\ pc[r] = "record" /\ File(r, at[r]) \notin recorded
    /\ recorded' = 1..binary[r]
    /\ Goto(r, "check") /\ at' = [at EXCEPT ![r] = @ + 1]
    /\ UNCHANGED <<applied, binary, crashes>>
Record(r) ==
    /\ pc[r] = "record" /\ File(r, at[r]) \notin recorded
    /\ recorded' = recorded \cup {File(r, at[r])}
    /\ Goto(r, "check") /\ at' = [at EXCEPT ![r] = @ + 1]
    /\ UNCHANGED <<applied, binary, crashes>>

(* The process ends, or a statement fails for a reason of its own, as two  *)
(* CREATE TABLE IF NOT EXISTS at the same time can.                        *)
Crash(r) ==
    /\ pc[r] # "down" /\ Fatal(r)
    /\ crashes < MaxCrashes /\ crashes' = crashes + 1
    /\ UNCHANGED <<applied, recorded, binary>>

(* A rolling update: the server is replaced by one of the newest binary.   *)
Upgrade(r) ==
    /\ binary[r] < Files /\ binary' = [binary EXCEPT ![r] = Files]
    /\ Fatal(r) /\ UNCHANGED <<applied, recorded, crashes>>

Statement(r) == Check(r) \/ Apply(r) \/ ApplyFails(r) \/ Record(r) \/ RecordFails(r)
Next == \E r \in Replicas :
            Start(r) \/ Statement(r) \/ Crash(r) \/ Upgrade(r)

Spec == Init /\ [][Next]_vars

(* Kubernetes starts a server that has ended, and a server goes on.        *)
FairSpec == Spec /\ \A r \in Replicas : WF_vars(Start(r) \/ Statement(r))

-----------------------------------------------------------------------------
(* The types.  What is recorded is in the schema, and the schema is the    *)
(* migrations up to some place; a server that is past a file has found it  *)
(* recorded, whoever recorded it.                                          *)
TypeOK ==
    /\ applied \subseteq 1..Files /\ recorded \subseteq applied
    /\ pc \in [Replicas -> PCs] /\ at \in [Replicas -> 1..(Files + 1)]
    /\ binary \in [Replicas -> First..Files] /\ crashes \in 0..MaxCrashes
    /\ \A i \in applied : 1..(i - 1) \subseteq recorded
    /\ \A r \in Replicas : pc[r] # "down" => 1..(at[r] - 1) \subseteq recorded

(* Migrate implements SchemaHistory: with any servers, crashes and updates *)
(* the schema grows in order, and who serves has all its migrations.       *)
History == INSTANCE SchemaHistory
    WITH schema <- applied,
         serving <- [r \in Replicas |-> IF pc[r] = "serving" THEN binary[r] ELSE 0]
ImplementsHistory == History!HistorySpec

(* A migration that cannot be applied again is in the schema, and who      *)
(* applied it has ended before recording it.                               *)
Stuck == \E i \in Once \cap applied :
             i \notin recorded /\ \A r \in Replicas :
                                     pc[r] = "record" => File(r, at[r]) # i

(* Servers that race for 010 never get there: only one that ends, or whose *)
(* INSERT fails for a reason of its own, after applying it and before      *)
(* recording it does.                                                      *)
StuckByEndOnly ==
    [][~Stuck /\ Stuck' =>
        \E r \in Replicas : /\ pc[r] = "record" /\ File(r, at[r]) \in Once
                            /\ Crash(r) \/ Upgrade(r)]_vars

(* Every server comes to serve, whatever servers race for the files and    *)
(* crash, but for the one crash that leaves 010 applied and not recorded.  *)
EventuallyServing ==
    \A r \in Replicas : []<>(pc[r] = "serving" \/ Stuck)
=============================================================================
