-------------------------- MODULE MigrationsProofs --------------------------
(***************************************************************************)
(* Migrations: the types, that the schema grows as SchemaHistory says, and *)
(* what leaves it stuck, for any number of servers, files, binaries and    *)
(* crashes.                                                                *)
(***************************************************************************)
EXTENDS Migrations, TLAPS

(* What makes TypeOK inductive: who applies or records is within its       *)
(* binary, and who records has applied.                                    *)
Placed(r) ==
    /\ pc[r] \in {"apply", "record"} => at[r] <= binary[r]
    /\ pc[r] = "record" => at[r] \in applied
    /\ pc[r] = "serving" => 1..binary[r] \subseteq recorded

Ordered == TypeOK /\ \A r \in Replicas : Placed(r)

LEMMA OrderedInit == Init => Ordered
BY MigrationsAssumption DEF Init, Ordered, Placed, TypeOK, PCs

(* The facts about numbers that the steps need.                            *)
LEMMA Numbers ==
    ASSUME Ordered, NEW r \in Replicas
    PROVE  /\ at[r] \in 1..(Files + 1) /\ binary[r] \in 1..Files
           /\ at[r] <= binary[r] => /\ at[r] \in 1..Files
                                    /\ at[r] + 1 \in 1..(Files + 1)
           /\ at[r] > binary[r] => 1..binary[r] \subseteq 1..(at[r] - 1)
           /\ 1..(at[r] + 1 - 1) = 1..(at[r] - 1) \cup {at[r]}
BY MigrationsAssumption DEF Ordered, TypeOK

(* A step that moves one server and lets the tables grow as they may.      *)
LEMMA MoveStep ==
    ASSUME Ordered, NEW r \in Replicas,
           NEW p \in PCs, NEW i \in 1..(Files + 1), NEW b \in First..Files,
           pc' = [pc EXCEPT ![r] = p], at' = [at EXCEPT ![r] = i],
           binary' = [binary EXCEPT ![r] = b],
           applied \subseteq applied', applied' \subseteq 1..Files,
           recorded \subseteq recorded', recorded' \subseteq applied',
           \A j \in applied' : 1..(j - 1) \subseteq recorded',
           crashes' \in 0..MaxCrashes,
           p # "down" => 1..(i - 1) \subseteq recorded',
           p \in {"apply", "record"} => i <= b,
           p = "record" => i \in applied',
           p = "serving" => 1..b \subseteq recorded'
    PROVE  Ordered'
<1>1. TypeOK'
      BY DEF Ordered, TypeOK
<1>2. ASSUME NEW s \in Replicas PROVE Placed(s)'
      <2>1. Placed(s)
            BY DEF Ordered
      <2>2. CASE s = r
            BY <2>2 DEF Ordered, TypeOK, Placed
      <2>3. CASE s # r
            BY <2>1, <2>3 DEF Ordered, TypeOK, Placed
      <2> QED BY <2>2, <2>3
<1> QED BY <1>1, <1>2 DEF Ordered

LEMMA OrderedStep == Ordered /\ [Next]_vars => Ordered'
<1> SUFFICES ASSUME Ordered, [Next]_vars PROVE Ordered'
    OBVIOUS
<1>0. /\ pc \in [Replicas -> PCs] /\ at \in [Replicas -> 1..(Files + 1)]
      /\ binary \in [Replicas -> First..Files] /\ crashes \in 0..MaxCrashes
      /\ applied \subseteq 1..Files /\ recorded \subseteq applied
      /\ \A i \in applied : 1..(i - 1) \subseteq recorded
      /\ \A r \in Replicas : pc[r] # "down" => 1..(at[r] - 1) \subseteq recorded
      /\ \A r \in Replicas : Placed(r)
      BY DEF Ordered, TypeOK
<1> USE DEF Goto, Fatal, File
<1>1. ASSUME NEW r \in Replicas, Start(r) PROVE Ordered'
      <2>1. /\ pc' = [pc EXCEPT ![r] = "check"] /\ at' = [at EXCEPT ![r] = 1]
            /\ binary' = [binary EXCEPT ![r] = binary[r]]
            /\ UNCHANGED <<applied, recorded, crashes>>
            BY <1>0, <1>1 DEF Start
      <2>2. 1 \in 1..(Files + 1) /\ 1..(1 - 1) = {}
            BY MigrationsAssumption
      <2> QED BY <1>0, <2>1, <2>2, MoveStep DEF PCs
<1>2. ASSUME NEW r \in Replicas, Check(r) PROVE Ordered'
      <2>0. binary' = [binary EXCEPT ![r] = binary[r]]
            BY <1>0, <1>2 DEF Check
      <2>1. CASE at[r] > binary[r]
            <3>1. /\ pc' = [pc EXCEPT ![r] = "serving"]
                  /\ at' = [at EXCEPT ![r] = at[r]]
                  /\ UNCHANGED <<applied, recorded, crashes>>
                  BY <1>0, <1>2, <2>1 DEF Check
            <3>2. 1..(at[r] - 1) \subseteq recorded
                  /\ 1..binary[r] \subseteq recorded
                  BY <1>0, <1>2, <2>1, Numbers DEF Check
            <3> QED BY <1>0, <2>0, <3>1, <3>2, MoveStep DEF PCs
      <2>2. CASE at[r] <= binary[r] /\ at[r] \in recorded
            <3>1. PICK i \in 1..(Files + 1) :
                      i = at[r] + 1 /\ 1..(i - 1) \subseteq recorded
                  BY <1>0, <1>2, <2>2, Numbers DEF Check
            <3>2. /\ pc' = [pc EXCEPT ![r] = "check"]
                  /\ at' = [at EXCEPT ![r] = i]
                  /\ UNCHANGED <<applied, recorded, crashes>>
                  BY <1>0, <1>2, <2>2, <3>1, Numbers DEF Check
            <3> QED BY <1>0, <2>0, <3>1, <3>2, MoveStep DEF PCs
      <2>3. CASE at[r] <= binary[r] /\ at[r] \notin recorded
            <3>1. /\ pc' = [pc EXCEPT ![r] = "apply"]
                  /\ at' = [at EXCEPT ![r] = at[r]]
                  /\ UNCHANGED <<applied, recorded, crashes>>
                  /\ 1..(at[r] - 1) \subseteq recorded
                  BY <1>0, <1>2, <2>3, Numbers DEF Check
            <3> QED BY <1>0, <2>0, <2>3, <3>1, MoveStep DEF PCs
      <2> QED BY <2>1, <2>2, <2>3, Numbers
<1>3. ASSUME NEW r \in Replicas, Apply(r) PROVE Ordered'
      <2>1. /\ pc' = [pc EXCEPT ![r] = "record"] /\ at' = [at EXCEPT ![r] = at[r]]
            /\ binary' = [binary EXCEPT ![r] = binary[r]]
            /\ applied' = applied \cup {at[r]}
            /\ UNCHANGED <<recorded, crashes>>
            BY <1>0, <1>3 DEF Apply
      <2>2. at[r] <= binary[r] /\ 1..(at[r] - 1) \subseteq recorded
            BY <1>0, <1>3 DEF Apply, Placed
      <2>3. at[r] \in 1..Files
            BY <2>2, Numbers
      <2> QED BY <1>0, <2>1, <2>2, <2>3, MoveStep DEF PCs
<1>4. ASSUME NEW r \in Replicas, Record(r) PROVE Ordered'
      <2>1. /\ at[r] <= binary[r] /\ at[r] \in applied
            /\ 1..(at[r] - 1) \subseteq recorded
            BY <1>0, <1>4 DEF Record, Placed
      <2>2. PICK i \in 1..(Files + 1) :
                i = at[r] + 1 /\ 1..(i - 1) \subseteq recorded \cup {at[r]}
            BY <2>1, Numbers
      <2>3. /\ pc' = [pc EXCEPT ![r] = "check"] /\ at' = [at EXCEPT ![r] = i]
            /\ binary' = [binary EXCEPT ![r] = binary[r]]
            /\ recorded' = recorded \cup {at[r]}
            /\ UNCHANGED <<applied, crashes>>
            BY <1>0, <1>4, <2>2 DEF Record
      <2> QED BY <1>0, <2>1, <2>2, <2>3, MoveStep DEF PCs
<1>5. ASSUME NEW r \in Replicas, ApplyFails(r) \/ RecordFails(r) \/ Crash(r)
      PROVE  Ordered'
      <2>1. /\ pc' = [pc EXCEPT ![r] = "down"] /\ at' = [at EXCEPT ![r] = at[r]]
            /\ binary' = [binary EXCEPT ![r] = binary[r]]
            /\ UNCHANGED <<applied, recorded>> /\ crashes' \in 0..MaxCrashes
            BY <1>0, <1>5, MigrationsAssumption DEF ApplyFails, RecordFails, Crash
      <2> QED BY <1>0, <2>1, MoveStep DEF PCs
<1>6. ASSUME NEW r \in Replicas, Upgrade(r) PROVE Ordered'
      <2>1. /\ pc' = [pc EXCEPT ![r] = "down"] /\ at' = [at EXCEPT ![r] = at[r]]
            /\ binary' = [binary EXCEPT ![r] = Files]
            /\ UNCHANGED <<applied, recorded, crashes>>
            BY <1>0, <1>6 DEF Upgrade
      <2>2. Files \in First..Files
            BY MigrationsAssumption
      <2> QED BY <1>0, <2>1, <2>2, MoveStep DEF PCs
<1>7. CASE UNCHANGED vars
      BY <1>7 DEF vars, Ordered, TypeOK, Placed
<1> QED BY <1>1, <1>2, <1>3, <1>4, <1>5, <1>6, <1>7 DEF Next, Statement

(* TypeOK: the schema is the migrations up to some place, all recorded but *)
(* the last one at most, whatever servers start, race and end              *)
(* (db.go:65-124).                                                         *)
THEOREM MigrationsTypeCorrect == Spec => []TypeOK
<1>1. Ordered => TypeOK
      BY DEF Ordered
<1> QED BY <1>1, OrderedInit, OrderedStep, PTL DEF Spec

-----------------------------------------------------------------------------
(* The refinement.                                                         *)
Served == [r \in Replicas |-> IF pc[r] = "serving" THEN binary[r] ELSE 0]

(* A server applies the migration that comes next, or one that is there.   *)
LEMMA NextInOrder ==
    ASSUME Ordered, NEW r \in Replicas, pc[r] = "apply", at[r] \notin applied
    PROVE  at[r] \in 1..Files /\ applied = 1..(at[r] - 1)
<1>1. at[r] \in 1..Files
      BY Numbers DEF Ordered, Placed
<1>2. 1..(at[r] - 1) \subseteq applied
      BY DEF Ordered, TypeOK
<1>3. ASSUME NEW i \in applied PROVE i \in 1..(at[r] - 1)
      <2>1. i \in 1..Files /\ 1..(i - 1) \subseteq applied
            BY DEF Ordered, TypeOK
      <2> QED BY <1>1, <2>1, MigrationsAssumption
<1> QED BY <1>1, <1>2, <1>3

LEMMA HistoryStep ==
    Ordered /\ [Next]_vars => [History!HistoryNext]_<<applied, Served>>
<1> SUFFICES ASSUME Ordered, [Next]_vars
             PROVE  [History!HistoryNext]_<<applied, Served>>
    OBVIOUS
<1>0. /\ pc \in [Replicas -> PCs] /\ binary \in [Replicas -> First..Files]
      /\ recorded \subseteq applied
      BY DEF Ordered, TypeOK
<1> USE DEF Goto, Fatal, File
<1>1. ASSUME NEW r \in Replicas, Check(r)
      PROVE  [History!HistoryNext]_<<applied, Served>>
      <2>1. CASE at[r] > binary[r]
            <3>1. /\ pc[r] = "check" /\ pc' = [pc EXCEPT ![r] = "serving"]
                  /\ UNCHANGED <<applied, binary>>
                  BY <1>1, <2>1 DEF Check
            <3>2. binary[r] \in 1..Files /\ 1..binary[r] \subseteq applied
                  BY <1>0, <2>1, <3>1, Numbers DEF Ordered, TypeOK
            <3>3. Served[r] = 0 /\ Served' = [Served EXCEPT ![r] = binary[r]]
                  BY <1>0, <3>1 DEF Served
            <3>4. History!Serve(r)
                  BY <3>1, <3>2, <3>3 DEF History!Serve, Served
            <3> QED BY <3>4 DEF History!HistoryNext
      <2>2. CASE ~(at[r] > binary[r])
            <3>1. /\ pc[r] = "check" /\ UNCHANGED <<applied, binary>>
                  /\ pc' = pc \/ pc' = [pc EXCEPT ![r] = "apply"]
                  BY <1>1, <2>2 DEF Check
            <3>2. Served' = Served
                  BY <1>0, <3>1 DEF Served
            <3> QED BY <3>1, <3>2
      <2> QED BY <2>1, <2>2
<1>2. ASSUME NEW r \in Replicas, Apply(r)
      PROVE  [History!HistoryNext]_<<applied, Served>>
      <2>1. /\ pc[r] = "apply" /\ pc' = [pc EXCEPT ![r] = "record"]
            /\ applied' = applied \cup {at[r]} /\ UNCHANGED binary
            BY <1>2 DEF Apply
      <2>2. Served' = Served
            BY <1>0, <2>1 DEF Served
      <2>3. CASE at[r] \in applied
            BY <2>1, <2>2, <2>3
      <2>4. CASE at[r] \notin applied
            <3>1. at[r] \in 1..Files /\ applied = 1..(at[r] - 1)
                  BY <2>1, <2>4, NextInOrder
            <3>2. applied' = 1..at[r]
                  BY <2>1, <3>1, MigrationsAssumption
            <3>3. History!Grow
                  BY <2>2, <3>1, <3>2 DEF History!Grow, Served
            <3> QED BY <3>3 DEF History!HistoryNext
      <2> QED BY <2>3, <2>4
<1>3. ASSUME NEW r \in Replicas,
             ApplyFails(r) \/ RecordFails(r) \/ Crash(r) \/ Upgrade(r)
      PROVE  [History!HistoryNext]_<<applied, Served>>
      <2>1. /\ pc' = [pc EXCEPT ![r] = "down"] /\ applied' = applied
            /\ binary' = binary \/ binary' = [binary EXCEPT ![r] = Files]
            BY <1>3 DEF ApplyFails, RecordFails, Crash, Upgrade
      <2>2. Served' = [Served EXCEPT ![r] = 0]
            BY <1>0, <2>1 DEF Served
      <2>3. History!Stop(r)
            BY <2>1, <2>2 DEF History!Stop, Served
      <2> QED BY <2>3 DEF History!HistoryNext
<1>4. ASSUME NEW r \in Replicas, Start(r) \/ Record(r)
      PROVE  UNCHANGED <<applied, Served>>
      <2>1. /\ pc[r] # "serving" /\ pc' = [pc EXCEPT ![r] = "check"]
            /\ UNCHANGED <<applied, binary>>
            BY <1>4 DEF Start, Record
      <2>2. Served' = Served
            BY <1>0, <2>1 DEF Served
      <2> QED BY <2>1, <2>2
<1>5. CASE UNCHANGED vars
      BY <1>5 DEF vars, Served
<1> QED BY <1>1, <1>2, <1>3, <1>4, <1>5 DEF Next, Statement

(* ImplementsHistory: Migrate (db.go:65-124), run by any servers with any  *)
(* binaries, changes the schema and serves only as SchemaHistory allows.   *)
THEOREM MigrationsImplement == Spec => ImplementsHistory
<1>1. Init => History!HistoryInit
      BY DEF Init, History!HistoryInit
<1>2. Ordered /\ [Next]_vars => [History!HistoryNext]_<<applied, Served>>
      BY HistoryStep
<1> QED BY <1>1, <1>2, OrderedInit, OrderedStep, PTL
        DEF Spec, ImplementsHistory, History!HistorySpec, Served

-----------------------------------------------------------------------------
(* How a server gets stuck.  A migration that is applied now is about to   *)
(* be recorded; one that somebody was about to record, and is not, is left *)
(* by this server's step.                                                  *)
LEMMA StuckStep ==
    ASSUME Ordered, Next, ~Stuck, Stuck'
    PROVE  \E r \in Replicas : /\ pc[r] = "record" /\ File(r, at[r]) \in Once
                               /\ Crash(r) \/ Upgrade(r)
<1> USE DEF Goto, Fatal, File
<1>0. /\ pc \in [Replicas -> PCs] /\ at \in [Replicas -> 1..(Files + 1)]
      BY DEF Ordered, TypeOK
<1>1. PICK i \in Once \cap applied' :
          /\ i \notin recorded'
          /\ \A r \in Replicas : pc'[r] = "record" => at'[r] # i
      BY DEF Stuck
<1>2. PICK s \in Replicas : Start(s) \/ Statement(s) \/ Crash(s) \/ Upgrade(s)
      BY DEF Next
<1>3. recorded \subseteq recorded'
      BY <1>2 DEF Start, Statement, Check, Apply, ApplyFails, Record,
                  RecordFails, Crash, Upgrade
<1>4. i \in applied
      <2>1. CASE Apply(s)
            <3>1. /\ applied' = applied \cup {at[s]}
                  /\ pc'[s] = "record" /\ at'[s] = at[s]
                  BY <1>0, <2>1 DEF Apply
            <3> QED BY <1>1, <3>1
      <2>2. CASE ~Apply(s)
            BY <1>1, <1>2, <2>2 DEF Start, Statement, Check, ApplyFails, Record,
                                    RecordFails, Crash, Upgrade
      <2> QED BY <2>1, <2>2
<1>5. PICK r \in Replicas : pc[r] = "record" /\ at[r] = i
      BY <1>1, <1>3, <1>4 DEF Stuck
<1>6. s = r
      <2>1. ASSUME s # r PROVE pc'[r] = pc[r] /\ at'[r] = at[r]
            BY <1>0, <1>2, <2>1 DEF Start, Statement, Check, Apply, ApplyFails,
                                    Record, RecordFails, Crash, Upgrade
      <2> QED BY <1>1, <1>5, <2>1
<1>7. Crash(r) \/ Upgrade(r)
      BY <1>1, <1>2, <1>3, <1>5, <1>6
         DEF Start, Statement, Check, Apply, ApplyFails, Record, RecordFails
<1> QED BY <1>1, <1>5, <1>7

(* StuckByEndOnly: servers that only race for the files, and end because   *)
(* another one was first (db.go:96-121), never leave a migration applied,  *)
(* not recorded and not to be applied again.                               *)
THEOREM MigrationsStuckByEndOnly == Spec => StuckByEndOnly
<1>1. ASSUME Ordered, [Next]_vars
      PROVE  [~Stuck /\ Stuck' =>
                \E r \in Replicas : /\ pc[r] = "record" /\ File(r, at[r]) \in Once
                                    /\ Crash(r) \/ Upgrade(r)]_vars
      <2>1. CASE UNCHANGED vars
            BY <2>1
      <2>2. CASE Next
            BY <1>1, <2>2, StuckStep
      <2> QED BY <1>1, <2>1, <2>2
<1> QED BY <1>1, OrderedInit, OrderedStep, PTL DEF Spec, StuckByEndOnly
=============================================================================
