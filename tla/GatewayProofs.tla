--------------------------- MODULE GatewayProofs ----------------------------
(***************************************************************************)
(* Gateway with its parts: revocation, routing, and what is charged for a  *)
(* streamed answer, for any number of keys, requests, edits and restarts.  *)
(***************************************************************************)
EXTENDS Gateway, SequenceTheorems, WellFoundedInduction, TLAPS

-----------------------------------------------------------------------------
(* The control API: a secret belongs to one credential, and one that a     *)
(* rotation is about to write is nobody's yet.                             *)
Creds == Control!Creds

ClerkOK(h) ==
    /\ task[h].pc = "rotate" =>
          /\ task[h].cred \in Creds /\ task[h].secret \in 1..lastSecret
          /\ \A c \in Creds : task[h].secret \notin used[c]
          /\ \A g \in Clerks \ {h} :
                task[g].pc = "rotate" => task[g].secret # task[h].secret
    /\ task[h].pc = "delete" =>
          /\ task[h].cred \in Creds /\ cred[task[h].cred].state # "none"
          /\ task[h].cred \in Keys => Control!HasRow(task[h].cred)
    /\ task[h].pc \in {"readKey", "invite", "uninvite"} =>
          task[h].cred \in Peers /\ task[h].key \in Keys
    /\ task[h].pc = "invite" => Control!HasRow(task[h].key)

CredOK(c) ==
    /\ used[c] \subseteq 1..lastSecret
    /\ cred[c].state = "none" => used[c] = {}
    /\ cred[c].state # "none" => cred[c].secret \in used[c]
    /\ c \in Keys => cred[c].state # "gone"
    /\ \A d \in Creds \ {c} : used[c] \cap used[d] = {}

ControlOK ==
    /\ Control!CredTypeOK
    /\ \A h \in Clerks : ClerkOK(h)
    /\ \A c \in Creds : CredOK(c)
    /\ InvitesHaveRows

ControlTypes ==
    /\ cred \in [Creds -> Control!Cred] /\ task \in [Clerks -> Control!Task]
    /\ used \in [Creds -> SUBSET (1..MaxSecrets)]

LEMMA ControlFacts ==
    ASSUME ControlOK
    PROVE  /\ ControlTypes
           /\ Creds = Keys \cup Peers /\ Keys \cap Peers = {}
           /\ lastSecret \in 0..MaxSecrets /\ MaxSecrets \in Nat
           /\ asked \in 0..MaxRequests /\ MaxRequests \in Nat
           /\ \A h \in Clerks : task[h] \in Control!Task /\ ClerkOK(h)
           /\ \A c \in Creds : cred[c] \in Control!Cred /\ CredOK(c)
BY PartsAssumption
   DEF ControlOK, ControlTypes, Control!CredTypeOK, Control!Secrets, Creds,
       Control!Creds, Control!CredentialsConstants

LEMMA ControlInit == Control!Init => ControlOK
<1> SUFFICES ASSUME Control!Init PROVE ControlOK
    OBVIOUS
<1>1. /\ \A c \in Creds : /\ cred[c] = [state |-> "none", secret |-> 0]
                          /\ used[c] = {}
      /\ \A h \in Clerks : task[h] = Control!NoTask
      /\ invites = {} /\ lastSecret = 0 /\ asked = 0
      BY DEF Control!Init, Creds
<1>2. Control!CredTypeOK
      BY <1>1, PartsAssumption
         DEF Control!Init, Control!CredTypeOK, Control!Cred, Control!States,
             Control!Task, Control!NoTask, Control!PCs,
             Control!CredentialsConstants
<1>3. \A h \in Clerks : ClerkOK(h)
      BY <1>1 DEF ClerkOK, Control!NoTask
<1>4. \A c \in Creds : CredOK(c)
      BY <1>1 DEF CredOK
<1>5. InvitesHaveRows
      BY <1>1 DEF InvitesHaveRows, Control!InvitesHaveRows
<1> QED BY <1>2, <1>3, <1>4, <1>5 DEF ControlOK

(* A step of one clerk that does not touch the rows of credentials.        *)
LEMMA ClerkStep ==
    ASSUME ControlOK, NEW h \in Clerks, NEW t \in Control!Task,
           task' = [task EXCEPT ![h] = t], UNCHANGED <<cred, used>>,
           lastSecret' \in lastSecret..MaxSecrets, asked' \in 0..MaxRequests,
           t.pc = "rotate" =>
               /\ t.cred \in Creds /\ t.secret = lastSecret + 1
               /\ lastSecret' = lastSecret + 1,
           t.pc = "delete" =>
               t.cred \in Creds /\ Control!HasRow(t.cred),
           t.pc \in {"readKey", "invite", "uninvite"} =>
               t.cred \in Peers /\ t.key \in Keys,
           t.pc = "invite" => Control!HasRow(t.key),
           invites' \subseteq Peers \X Keys,
           \A i \in invites' : Control!HasRow(i[1]) /\ Control!HasRow(i[2])
    PROVE  ControlOK'
<1>0. /\ ControlTypes /\ lastSecret \in Nat /\ MaxSecrets \in Nat
      /\ Creds = Keys \cup Peers
      /\ \A g \in Clerks : ClerkOK(g)
      /\ \A c \in Creds : CredOK(c)
      BY ControlFacts
<1>1. /\ task'[h] = t /\ \A g \in Clerks \ {h} : task'[g] = task[g]
      /\ task' \in [Clerks -> Control!Task]
      BY <1>0 DEF ControlTypes
<1>2. \A c : Control!HasRow(c)' <=> Control!HasRow(c)
      BY DEF Control!HasRow
<1>3. Control!CredTypeOK'
      BY <1>0, <1>1 DEF ControlOK, Control!CredTypeOK
<1>4. ASSUME NEW g \in Clerks PROVE ClerkOK(g)'
      <2>1. CASE g = h
            <3>1. t.pc = "rotate" =>
                    \A f \in Clerks \ {h} :
                       task'[f].pc = "rotate" => task'[f].secret # t.secret
                  BY <1>0, <1>1 DEF ClerkOK
            <3>2. t.pc = "rotate" => \A c \in Creds : t.secret \notin used[c]
                  BY <1>0 DEF CredOK
            <3> QED BY <1>0, <1>1, <1>2, <2>1, <3>1, <3>2
                    DEF ClerkOK, Control!HasRow
      <2>2. CASE g # h
            <3>1. task'[g] = task[g] /\ ClerkOK(g)
                  BY <1>0, <1>1, <2>2
            <3>2. task[g].pc = "rotate" =>
                    \A f \in Clerks \ {g} :
                       task'[f].pc = "rotate" => task'[f].secret # task[g].secret
                  BY <1>0, <1>1, <2>2, <3>1 DEF ClerkOK
            <3> QED BY <1>0, <1>2, <3>1, <3>2 DEF ClerkOK
      <2> QED BY <2>1, <2>2
<1>5. \A c \in Creds : CredOK(c)'
      BY <1>0 DEF CredOK
<1>6. InvitesHaveRows'
      BY <1>2 DEF InvitesHaveRows, Control!InvitesHaveRows
<1> QED BY <1>3, <1>4, <1>5, <1>6 DEF ControlOK

(* What no step of the control API may undo.                               *)
Revoked ==
    \A c \in Creds :
        /\ Control!Deleted(c) => Control!Deleted(c)'
        /\ used[c] \subseteq used'[c]
        /\ \A s \in used[c] : ~Control!Works(c, s) => ~Control!Works(c, s)'

LEMMA SameRows == ASSUME UNCHANGED <<cred, used>> PROVE Revoked
BY DEF Revoked, Control!Deleted, Control!Works

(* A clerk's last statement writes the row of credential c.                *)
LEMMA RowStep ==
    ASSUME ControlOK, NEW h \in Clerks, NEW c \in Creds,
           NEW r \in Control!Cred, NEW u,
           task' = [task EXCEPT ![h] = Control!NoTask],
           cred' = [cred EXCEPT ![c] = r], used' = [used EXCEPT ![c] = u],
           UNCHANGED <<lastSecret, asked>>,
           \/ u = used[c] /\ r.secret = cred[c].secret
           \/ /\ task[h].pc = "rotate" /\ r.secret = task[h].secret
              /\ u = used[c] \cup {task[h].secret},
           \/ r.state = cred[c].state
           \/ c \in Keys /\ r.state = "inactive"
           \/ c \in Peers /\ r.state = "gone",
           cred[c].state # "none",
           invites' \subseteq invites,
           c \in Peers /\ r.state # cred[c].state => \A i \in invites' : i[1] # c
    PROVE  ControlOK' /\ Revoked
<1>0. /\ ControlTypes /\ lastSecret \in 0..MaxSecrets /\ MaxSecrets \in Nat
      /\ Creds = Keys \cup Peers /\ Keys \cap Peers = {}
      /\ \A g \in Clerks : ClerkOK(g)
      /\ \A d \in Creds : CredOK(d) /\ cred[d] \in Control!Cred
      BY ControlFacts
<1>1. /\ task'[h] = Control!NoTask
      /\ \A g \in Clerks \ {h} : task'[g] = task[g]
      /\ cred'[c] = r /\ \A d \in Creds \ {c} : cred'[d] = cred[d]
      /\ used'[c] = u /\ \A d \in Creds \ {c} : used'[d] = used[d]
      BY <1>0 DEF ControlTypes
<1>2. /\ Control!NoTask \in Control!Task /\ Control!NoTask.pc = "idle"
      BY DEF Control!NoTask, Control!Task, Control!PCs
<1>u. /\ u \subseteq 1..lastSecret /\ used[c] \subseteq u
      /\ r.secret \in u
      /\ \A s \in u \ used[c] : task[h].pc = "rotate" /\ s = task[h].secret
      BY <1>0 DEF CredOK, ClerkOK
<1>3. Control!CredTypeOK'
      <2>1. cred' \in [Creds -> Control!Cred]
            BY <1>0 DEF ControlTypes
      <2>2. task' \in [Clerks -> Control!Task]
            BY <1>0, <1>2 DEF ControlTypes
      <2>3. used' \in [Creds -> SUBSET (1..MaxSecrets)]
            BY <1>0, <1>u DEF ControlTypes
      <2> QED BY <2>1, <2>2, <2>3
              DEF ControlOK, Control!CredTypeOK, Creds, Control!Secrets
<1>4. /\ \A d \in Keys : Control!HasRow(d) => Control!HasRow(d)'
      /\ \A d \in Peers : Control!HasRow(d) =>
             Control!HasRow(d)' \/ (d = c /\ r.state # cred[c].state)
      <2>1. ASSUME NEW d \in Creds \ {c}, Control!HasRow(d)
            PROVE  Control!HasRow(d)'
            BY <1>1, <2>1 DEF Control!HasRow
      <2>2. ASSUME Control!HasRow(c), c \in Keys \/ r.state = cred[c].state
            PROVE  Control!HasRow(c)'
            BY <1>0, <1>1, <2>2 DEF Control!HasRow
      <2>3. ASSUME NEW d \in Keys, Control!HasRow(d) PROVE Control!HasRow(d)'
            <3>1. CASE d = c
                  BY <2>2, <2>3, <3>1 DEF Control!HasRow
            <3>2. CASE d # c
                  BY <1>0, <2>1, <2>3, <3>2 DEF Control!HasRow
            <3> QED BY <3>1, <3>2
      <2>4. ASSUME NEW d \in Peers, Control!HasRow(d)
            PROVE  Control!HasRow(d)' \/ (d = c /\ r.state # cred[c].state)
            <3>1. CASE d = c
                  BY <2>2, <2>4, <3>1 DEF Control!HasRow
            <3>2. CASE d # c
                  BY <1>0, <2>1, <2>4, <3>2 DEF Control!HasRow
            <3> QED BY <3>1, <3>2
      <2> QED BY <2>3, <2>4
<1>5. ASSUME NEW g \in Clerks PROVE ClerkOK(g)'
      <2>1. CASE g = h
            BY <1>1, <1>2, <2>1 DEF ClerkOK
      <2>2. CASE g # h
            <3>1. task'[g] = task[g] /\ ClerkOK(g)
                  BY <1>0, <1>1, <2>2
            <3>2. ASSUME task[g].pc = "rotate"
                  PROVE  /\ \A d \in Creds : task[g].secret \notin used'[d]
                         /\ \A f \in Clerks \ {g} : task'[f].pc = "rotate"
                               => task'[f].secret # task[g].secret
                  BY <1>0, <1>1, <1>2, <1>u, <2>2, <3>1, <3>2 DEF ClerkOK
            <3>3. \A d \in Creds : cred[d].state # "none"
                                      => cred'[d].state # "none"
                  BY <1>0, <1>1
            <3> QED BY <1>0, <1>4, <3>1, <3>2, <3>3 DEF ClerkOK
      <2> QED BY <2>1, <2>2
<1>6. ASSUME NEW d \in Creds PROVE CredOK(d)'
      <2>0. \A e \in Creds : e # c => used[e] \cap u = {}
            BY <1>0, <1>u DEF CredOK, ClerkOK
      <2>1. CASE d = c
            <3>1. cred'[c].state # "none" /\ cred'[c].secret \in used'[c]
                  BY <1>1, <1>u
            <3>2. c \in Keys => cred'[c].state # "gone"
                  BY <1>0, <1>1 DEF CredOK
            <3>3. \A e \in Creds \ {c} : used'[c] \cap used'[e] = {}
                  BY <1>1, <2>0
            <3>4. used'[c] \subseteq 1..lastSecret'
                  BY <1>1, <1>u
            <3> QED BY <2>1, <3>1, <3>2, <3>3, <3>4 DEF CredOK
      <2>2. CASE d # c
            BY <1>0, <1>1, <2>0, <2>2 DEF CredOK
      <2> QED BY <2>1, <2>2
<1>7. InvitesHaveRows'
      <2>1. ASSUME NEW i \in invites'
            PROVE  Control!HasRow(i[1])' /\ Control!HasRow(i[2])'
            <3>1. /\ i \in Peers \X Keys
                  /\ Control!HasRow(i[1]) /\ Control!HasRow(i[2])
                  BY DEF ControlOK, InvitesHaveRows, Control!InvitesHaveRows,
                         Control!CredTypeOK
            <3>2. i[1] \in Peers /\ i[2] \in Keys
                  BY <3>1
            <3> QED BY <1>4, <3>1, <3>2
      <2> QED BY <2>1 DEF InvitesHaveRows, Control!InvitesHaveRows
<1>8. Revoked
      <2>1. ASSUME NEW d \in Creds
            PROVE  /\ Control!Deleted(d) => Control!Deleted(d)'
                   /\ used[d] \subseteq used'[d]
                   /\ \A s \in used[d] : ~Control!Works(d, s)
                          => ~Control!Works(d, s)'
            <3>1. CASE d = c
                  <4>1. Control!Deleted(c) => Control!Deleted(c)'
                        BY <1>0, <1>1 DEF Control!Deleted
                  <4>2. ASSUME NEW s \in used[c], ~Control!Works(c, s)
                        PROVE  ~Control!Works(c, s)'
                        <5>1. CASE r.secret = cred[c].secret
                              BY <1>1, <4>2, <5>1 DEF Control!Works
                        <5>2. CASE task[h].pc = "rotate"
                                       /\ r.secret = task[h].secret
                              BY <1>0, <1>1, <4>2, <5>2
                                 DEF Control!Works, ClerkOK
                        <5> QED BY <5>1, <5>2
                  <4> QED BY <1>1, <1>u, <3>1, <4>1, <4>2
            <3>2. CASE d # c
                  BY <1>1, <3>2 DEF Control!Deleted, Control!Works
            <3> QED BY <3>1, <3>2
      <2> QED BY <2>1 DEF Revoked
<1> QED BY <1>3, <1>5, <1>6, <1>7, <1>8 DEF ControlOK

LEMMA CreateStep ==
    ASSUME ControlOK, NEW c \in Creds, Control!Create(c)
    PROVE  ControlOK' /\ Revoked
<1>0. /\ ControlTypes /\ lastSecret \in 0..MaxSecrets /\ MaxSecrets \in Nat
      /\ asked \in 0..MaxRequests /\ MaxRequests \in Nat
      /\ Creds = Keys \cup Peers /\ Keys \cap Peers = {}
      /\ \A g \in Clerks : ClerkOK(g)
      /\ \A d \in Creds : CredOK(d) /\ cred[d] \in Control!Cred
      BY ControlFacts
<1>1. /\ cred[c].state = "none" /\ UNCHANGED <<invites, task>>
      /\ lastSecret' = lastSecret + 1 /\ lastSecret' \in 1..MaxSecrets
      /\ asked' \in 0..MaxRequests
      /\ cred' = [cred EXCEPT ![c] = [state |-> "active",
                                      secret |-> lastSecret + 1]]
      /\ used' = [used EXCEPT ![c] = {lastSecret + 1}]
      BY <1>0 DEF Control!Create, Control!Asks, Control!Generate
<1>2. /\ cred'[c].state = "active" /\ cred'[c].secret = lastSecret + 1
      /\ \A d \in Creds \ {c} : cred'[d] = cred[d]
      /\ used'[c] = {lastSecret + 1} /\ used[c] = {}
      /\ \A d \in Creds \ {c} : used'[d] = used[d]
      BY <1>0, <1>1 DEF ControlTypes, CredOK
<1>3. Control!CredTypeOK'
      <2>1. [state |-> "active", secret |-> lastSecret + 1] \in Control!Cred
            BY <1>0, <1>1 DEF Control!Cred, Control!States, Control!Secrets
      <2>2. cred' \in [Creds -> Control!Cred]
            BY <1>0, <1>1, <2>1 DEF ControlTypes
      <2>3. used' \in [Creds -> SUBSET (1..MaxSecrets)]
            BY <1>0, <1>1 DEF ControlTypes
      <2> QED BY <1>0, <1>1, <2>2, <2>3
              DEF ControlOK, Control!CredTypeOK, Creds, Control!Secrets
<1>4. \A d \in Creds : Control!HasRow(d) => Control!HasRow(d)'
      BY <1>1, <1>2 DEF Control!HasRow
<1>5. ASSUME NEW g \in Clerks PROVE ClerkOK(g)'
      <2>0. /\ task'[g] = task[g] /\ ClerkOK(g)
            /\ \A f \in Clerks : task'[f] = task[f]
            BY <1>0, <1>1
      <2>1. task[g].pc = "rotate" =>
              \A d \in Creds : task[g].secret \notin used'[d]
            BY <1>0, <1>2, <2>0 DEF ClerkOK
      <2>2. \A d \in Creds : cred[d].state # "none"
                                => cred'[d].state # "none"
            BY <1>1, <1>2
      <2> QED BY <1>0, <1>1, <1>4, <2>0, <2>1, <2>2 DEF ClerkOK
<1>6. ASSUME NEW d \in Creds PROVE CredOK(d)'
      <2>0. \A e \in Creds \ {c} : lastSecret + 1 \notin used[e]
            BY <1>0 DEF CredOK
      <2>1. CASE d = c
            BY <1>0, <1>1, <1>2, <2>0, <2>1 DEF CredOK
      <2>2. CASE d # c
            BY <1>0, <1>1, <1>2, <2>0, <2>2 DEF CredOK
      <2> QED BY <2>1, <2>2
<1>7. InvitesHaveRows'
      <2>1. ASSUME NEW i \in invites
            PROVE  Control!HasRow(i[1])' /\ Control!HasRow(i[2])'
            <3>1. i \in Peers \X Keys
                  BY DEF ControlOK, Control!CredTypeOK
            <3>2. i[1] \in Creds /\ i[2] \in Creds
                  BY <1>0, <3>1
            <3> QED BY <1>4, <3>2
                    DEF ControlOK, InvitesHaveRows, Control!InvitesHaveRows
      <2> QED BY <1>1, <2>1 DEF InvitesHaveRows, Control!InvitesHaveRows
<1>8. Revoked
      BY <1>1, <1>2 DEF Revoked, Control!Deleted, Control!Works
<1> QED BY <1>3, <1>5, <1>6, <1>7, <1>8 DEF ControlOK

LEMMA ControlNext == ControlOK /\ Control!CredNext => ControlOK' /\ Revoked
<1> SUFFICES ASSUME ControlOK, Control!CredNext PROVE ControlOK' /\ Revoked
    OBVIOUS
<1>0. /\ ControlTypes /\ lastSecret \in 0..MaxSecrets /\ MaxSecrets \in Nat
      /\ asked \in 0..MaxRequests /\ MaxRequests \in Nat
      /\ Creds = Keys \cup Peers /\ Keys \cap Peers = {}
      /\ \A h \in Clerks : task[h] \in Control!Task /\ ClerkOK(h)
      /\ \A c \in Creds : CredOK(c) /\ cred[c] \in Control!Cred
      /\ invites \subseteq Peers \X Keys
      /\ \A i \in invites : Control!HasRow(i[1]) /\ Control!HasRow(i[2])
      BY ControlFacts DEF ControlOK, Control!CredTypeOK, InvitesHaveRows,
                          Control!InvitesHaveRows
<1>n. /\ Control!NoTask \in Control!Task /\ Control!NoTask.pc = "idle"
      BY DEF Control!NoTask, Control!Task, Control!PCs
(* The requests' first statements.                                         *)
<1>s. ASSUME NEW h \in Clerks, NEW t \in Control!Task,
             Control!Starts(h, t), t.pc \in {"delete", "readKey", "uninvite"},
             UNCHANGED <<cred, used, invites, lastSecret>>, Control!Asks,
             t.pc = "delete" => t.cred \in Creds /\ Control!HasRow(t.cred),
             t.pc # "delete" => t.cred \in Peers /\ t.key \in Keys
      PROVE  ControlOK' /\ Revoked
      <2>1. task' = [task EXCEPT ![h] = t] /\ asked' \in 0..MaxRequests
            BY <1>0, <1>s DEF Control!Starts, Control!Asks
      <2>2. /\ lastSecret' \in lastSecret..MaxSecrets
            /\ UNCHANGED <<cred, used>>
            /\ t.pc # "rotate" /\ t.pc # "invite"
            /\ invites' = invites
            BY <1>0, <1>s
      <2>3. ControlOK'
            BY <1>0, <1>s, <2>1, <2>2, ClerkStep
      <2> QED BY <2>2, <2>3, SameRows
(* Last statements that leave the rows of credentials alone.               *)
<1>e. ASSUME NEW h \in Clerks, Control!Answer(h),
             UNCHANGED <<cred, used, lastSecret, asked>>,
             invites' \subseteq Peers \X Keys,
             \A i \in invites' : Control!HasRow(i[1]) /\ Control!HasRow(i[2])
      PROVE  ControlOK' /\ Revoked
      <2>1. task' = [task EXCEPT ![h] = Control!NoTask]
            BY <1>e DEF Control!Answer
      <2>2. /\ lastSecret' \in lastSecret..MaxSecrets
            /\ asked' \in 0..MaxRequests /\ UNCHANGED <<cred, used>>
            BY <1>0, <1>e
      <2>3. ControlOK'
            BY <1>n, <1>e, <2>1, <2>2, ClerkStep
      <2> QED BY <2>2, <2>3, SameRows
<1>1. ASSUME NEW c \in Control!Creds, Control!Create(c)
      PROVE  ControlOK' /\ Revoked
      BY <1>1, CreateStep DEF Creds
<1>2. ASSUME NEW h \in Clerks, NEW c \in Control!Creds, Control!Rotate(h, c)
      PROVE  ControlOK' /\ Revoked
      <2> DEFINE t == [Control!NoTask EXCEPT !.pc = "rotate", !.cred = c,
                                             !.secret = lastSecret']
      <2>0. /\ lastSecret' = lastSecret + 1 /\ lastSecret' \in 1..MaxSecrets
            /\ asked' \in 0..MaxRequests
            /\ UNCHANGED <<cred, used, invites>>
            BY <1>0, <1>2 DEF Control!Rotate, Control!Asks, Control!Generate
      <2>1. /\ t \in Control!Task /\ t.pc = "rotate" /\ t.cred = c
            /\ t.secret = lastSecret + 1
            BY <2>0 DEF Control!NoTask, Control!Task, Control!PCs,
                        Control!Secrets
      <2>2. task' = [task EXCEPT ![h] = t]
            BY <1>2 DEF Control!Rotate, Control!Starts
      <2> HIDE DEF t
      <2>3. /\ lastSecret' \in lastSecret..MaxSecrets
            /\ UNCHANGED <<cred, used>>
            /\ t.cred \in Creds
            BY <1>0, <2>0, <2>1 DEF Creds
      <2>4. ControlOK'
            BY <1>0, <1>2, <2>0, <2>1, <2>2, <2>3, ClerkStep
      <2> QED BY <2>3, <2>4, SameRows
<1>3. ASSUME NEW h \in Clerks, NEW c \in Control!Creds, Control!Delete(h, c)
      PROVE  ControlOK' /\ Revoked
      <2> DEFINE t == [Control!NoTask EXCEPT !.pc = "delete", !.cred = c]
      <2>1. t \in Control!Task /\ t.pc = "delete" /\ t.cred = c
            BY DEF Control!NoTask, Control!Task, Control!PCs
      <2>2. /\ Control!Starts(h, t) /\ Control!Asks /\ Control!HasRow(c)
            /\ UNCHANGED <<cred, used, invites, lastSecret>>
            BY <1>3 DEF Control!Delete
      <2> HIDE DEF t
      <2> QED BY <1>s, <2>1, <2>2 DEF Creds
<1>4. ASSUME NEW h \in Clerks, NEW p \in Peers, NEW k \in Keys,
             Control!Invite(h, p, k)
      PROVE  ControlOK' /\ Revoked
      <2> DEFINE t == [Control!NoTask EXCEPT !.pc = "readKey", !.cred = p,
                                             !.key = k]
      <2>1. /\ t \in Control!Task /\ t.pc = "readKey" /\ t.cred = p
            /\ t.key = k
            BY DEF Control!NoTask, Control!Task, Control!PCs, Control!Creds
      <2>2. /\ Control!Starts(h, t) /\ Control!Asks
            /\ UNCHANGED <<cred, used, invites, lastSecret>>
            BY <1>4 DEF Control!Invite
      <2> HIDE DEF t
      <2> QED BY <1>s, <2>1, <2>2
<1>5. ASSUME NEW h \in Clerks, NEW p \in Peers, NEW k \in Keys,
             Control!Uninvite(h, p, k)
      PROVE  ControlOK' /\ Revoked
      <2> DEFINE t == [Control!NoTask EXCEPT !.pc = "uninvite", !.cred = p,
                                             !.key = k]
      <2>1. /\ t \in Control!Task /\ t.pc = "uninvite" /\ t.cred = p
            /\ t.key = k
            BY DEF Control!NoTask, Control!Task, Control!PCs, Control!Creds
      <2>2. /\ Control!Starts(h, t) /\ Control!Asks
            /\ UNCHANGED <<cred, used, invites, lastSecret>>
            BY <1>5 DEF Control!Uninvite
      <2> HIDE DEF t
      <2> QED BY <1>s, <2>1, <2>2
<1>6. ASSUME NEW h \in Clerks, Control!RotateUpdate(h)
      PROVE  ControlOK' /\ Revoked
      <2> DEFINE c == task[h].cred
      <2>0. /\ task[h].pc = "rotate" /\ Control!Answer(h) /\ c \in Creds
            /\ task[h].secret \in 1..MaxSecrets
            /\ UNCHANGED <<invites, lastSecret, asked>>
            BY <1>0, <1>6 DEF Control!RotateUpdate, Control!At, ClerkOK
      <2>1. CASE Control!HasRow(c)
            <3> DEFINE r == [cred[c] EXCEPT !.secret = task[h].secret]
            <3>1. /\ r \in Control!Cred /\ r.state = cred[c].state
                  /\ r.secret = task[h].secret
                  BY <1>0, <2>0 DEF Control!Cred, Control!Secrets
            <3>2. /\ cred' = [cred EXCEPT ![c] = r]
                  /\ used' = [used EXCEPT ![c] = used[c] \cup {task[h].secret}]
                  BY <1>0, <1>6, <2>0, <2>1
                     DEF Control!RotateUpdate, ControlTypes
            <3>3. task' = [task EXCEPT ![h] = Control!NoTask]
                  BY <2>0 DEF Control!Answer
            <3>4. cred[c].state # "none"
                  BY <2>1 DEF Control!HasRow
            <3> HIDE DEF c, r
            <3> QED BY <1>6, <2>0, <3>1, <3>2, <3>3, <3>4, RowStep
      <2>2. CASE ~Control!HasRow(c)
            <3>1. UNCHANGED <<cred, used>>
                  BY <1>6, <2>2 DEF Control!RotateUpdate
            <3> QED BY <1>0, <1>6, <1>e, <2>0, <3>1
      <2> QED BY <2>1, <2>2
<1>7. ASSUME NEW h \in Clerks, Control!DeleteKey(h) \/ Control!DeletePeer(h)
      PROVE  ControlOK' /\ Revoked
      <2> DEFINE c == task[h].cred
                 s == IF c \in Keys THEN "inactive" ELSE "gone"
                 r == [cred[c] EXCEPT !.state = s]
      <2>1. /\ task[h].pc = "delete" /\ c \in Creds /\ cred[c].state # "none"
            /\ Control!Answer(h) /\ UNCHANGED <<used, lastSecret, asked>>
            BY <1>0, <1>7
               DEF Control!DeleteKey, Control!DeletePeer, Control!At, ClerkOK
      <2>2. /\ r \in Control!Cred /\ r.secret = cred[c].secret /\ r.state = s
            BY <1>0, <2>1 DEF Control!Cred, Control!States
      <2>3. /\ cred' = [cred EXCEPT ![c] = r]
            /\ invites' \subseteq invites
            /\ c \in Peers => \A i \in invites' : i[1] # c
            BY <1>0, <1>7 DEF Control!DeleteKey, Control!DeletePeer
      <2>4. /\ used' = [used EXCEPT ![c] = used[c]]
            /\ task' = [task EXCEPT ![h] = Control!NoTask]
            BY <1>0, <2>1 DEF Control!Answer, ControlTypes
      <2>5. \/ c \in Keys /\ r.state = "inactive"
            \/ c \in Peers /\ r.state = "gone"
            BY <1>0, <2>1, <2>2
      <2> HIDE DEF c, r
      <2> QED BY <1>7, <2>1, <2>2, <2>3, <2>4, <2>5, RowStep
<1>8. ASSUME NEW h \in Clerks, Control!ReadKey(h)
      PROVE  ControlOK' /\ Revoked
      <2>1. CASE Control!HasRow(task[h].key)
            <3> DEFINE t == [task[h] EXCEPT !.pc = "invite"]
            <3>1. /\ t \in Control!Task /\ t.pc = "invite"
                  /\ t.cred = task[h].cred /\ t.key = task[h].key
                  BY <1>0, <1>8 DEF Control!Task, Control!PCs
            <3>2. /\ task' = [task EXCEPT ![h] = t]
                  /\ UNCHANGED <<cred, used, invites, lastSecret, asked>>
                  BY <1>8, <2>1 DEF Control!ReadKey
            <3>3. task[h].cred \in Peers /\ task[h].key \in Keys
                  BY <1>0, <1>8 DEF Control!ReadKey, Control!At, ClerkOK
            <3> HIDE DEF t
            <3>4. /\ lastSecret' \in lastSecret..MaxSecrets
                  /\ asked' \in 0..MaxRequests /\ UNCHANGED <<cred, used>>
                  /\ invites' = invites
                  BY <1>0, <3>2
            <3>5. ControlOK'
                  BY <1>0, <1>8, <2>1, <3>1, <3>2, <3>3, <3>4, ClerkStep
            <3> QED BY <3>4, <3>5, SameRows
      <2>2. CASE ~Control!HasRow(task[h].key)
            BY <1>0, <1>8, <1>e, <2>2 DEF Control!ReadKey
      <2> QED BY <2>1, <2>2
<1>9. ASSUME NEW h \in Clerks, Control!InsertInvite(h)
      PROVE  ControlOK' /\ Revoked
      <2> DEFINE i == <<task[h].cred, task[h].key>>
      <2>1. /\ Control!HasRow(i[2]) /\ i \in Peers \X Keys
            BY <1>0, <1>9 DEF Control!InsertInvite, Control!At, ClerkOK
      <2>2. /\ invites' = IF Control!HasRow(i[1]) THEN invites \cup {i}
                                                  ELSE invites
            /\ Control!Answer(h)
            /\ UNCHANGED <<cred, used, lastSecret, asked>>
            BY <1>9 DEF Control!InsertInvite
      <2> HIDE DEF i
      <2> QED BY <1>0, <1>9, <1>e, <2>1, <2>2
<1>10. ASSUME NEW h \in Clerks,
              Control!DeleteInvite(h) \/ Control!Interrupted(h)
       PROVE  ControlOK' /\ Revoked
       <2>1. /\ invites' \subseteq invites /\ Control!Answer(h)
             /\ UNCHANGED <<cred, used, lastSecret, asked>>
             BY <1>10 DEF Control!DeleteInvite, Control!Interrupted
       <2> QED BY <1>0, <1>10, <1>e, <2>1
<1> QED BY <1>1, <1>2, <1>3, <1>4, <1>5, <1>6, <1>7, <1>8, <1>9, <1>10
        DEF Control!CredNext, Control!Clerk

-----------------------------------------------------------------------------
(* The router: once the file has been written under the watch, an event is *)
(* left, or the reload under way has all that is there, or the table is.   *)
Pending ==
    told /\ watch = "on" /\ writing = NoVersion
        => events > 0 \/ reading = {file} \/ (reading = {} /\ table = file)

RouterOK ==
    /\ Router!RouterTypeOK
    /\ events <= 2 * edits - (IF writing = NoVersion THEN 0 ELSE 1)
    /\ told => watch \in {"on", "lost"}
    /\ Pending

LEMMA RouterConsts ==
    /\ NoUpstream \notin Router!Address /\ Versions \subseteq Router!Table
    /\ NoVersion \notin Router!Table /\ MaxEdits \in Nat /\ MaxPods \in Nat
BY PartsAssumption DEF Router!RouterConstants

LEMMA EmptyPods == <<>> \in Router!Pods
<1>1. <<>> \in [1..0 -> Router!Address]
      OBVIOUS
<1>2. 0 \in 0..MaxPods
      BY RouterConsts
<1> QED BY <1>1, <1>2 DEF Router!Pods, Router!PodsOf

(* Whatever has been in the file meanwhile, a read of it returns a table,  *)
(* or no YAML.                                                             *)
LEMMA MixedTypes == ASSUME NEW S PROVE Router!Mixed(S) \subseteq Router!Table
<1>1. ASSUME NEW m \in Router!MixedRoutes(S)
      PROVE  m \in [Deployments -> Router!Address \cup {NoUpstream}]
      BY <1>1 DEF Router!MixedRoutes
<1>2. ASSUME NEW m \in Router!MixedPods(S)
      PROVE  m \in [Deployments -> Router!Pods]
      BY <1>2, EmptyPods DEF Router!MixedPods
<1> QED BY <1>1, <1>2 DEF Router!Mixed, Router!Table

LEMMA ResultTypes ==
    ASSUME NEW S \in SUBSET Router!Table, NEW v \in Router!Result(S)
    PROVE  v \in Router!Table \cup {NoVersion}
BY MixedTypes DEF Router!Result

LEMMA ParsedTypes ==
    ASSUME NEW S \in SUBSET Router!Table, NEW v \in Router!Result(S),
           table \in Router!Table
    PROVE  Router!Parsed(v) \in Router!Table
BY ResultTypes DEF Router!Parsed

(* A file that has not changed since it was opened is read as it is.       *)
LEMMA ResultOfOne == ASSUME NEW f PROVE Router!Result({f}) = {f}
BY DEF Router!Result

LEMMA EmptyTable == Router!Empty \in Router!Table
<1>1. Router!NoPods \in [Deployments -> Router!Pods]
      BY EmptyPods DEF Router!NoPods
<1> QED BY <1>1 DEF Router!Empty, Router!Table

LEMMA ContentsTypes ==
    ASSUME Router!RouterTypeOK
    PROVE  /\ Router!Contents \subseteq Router!Table
           /\ writing = NoVersion => Router!Contents = {file}
BY EmptyTable DEF Router!Contents, Router!RouterTypeOK

LEMMA RouterInit == Router!Init => RouterOK
<1> SUFFICES ASSUME Router!Init PROVE RouterOK
    OBVIOUS
<1>1. /\ file \in Versions /\ table = file /\ same = TRUE
      /\ writing = NoVersion /\ watch = "none" /\ events = 0
      /\ reading = {} /\ edits = 0 /\ told = FALSE
      BY DEF Router!Init
<1>2. told \in BOOLEAN /\ (told => watch \in {"on", "lost"}) /\ Pending
      BY <1>1, Zenon DEF Pending
<1> QED BY <1>1, <1>2, RouterConsts DEF RouterOK, Router!RouterTypeOK

LEMMA RouterNext ==
    ASSUME RouterOK, Router!RouterNext \/ Router!Reopen
    PROVE  RouterOK'
<1>0. /\ file \in Router!Table /\ writing \in Router!Table \cup {NoVersion}
      /\ watch \in {"load", "none", "on", "lost"} /\ events \in 0..2 * MaxEdits
      /\ edits \in 0..MaxEdits /\ MaxEdits \in Nat
      /\ table \in Router!Table /\ reading \subseteq Router!Table
      /\ same \in BOOLEAN /\ told \in BOOLEAN
      /\ Versions \subseteq Router!Table /\ NoVersion \notin Router!Table
      /\ Router!Empty \in Router!Table
      BY RouterConsts, EmptyTable DEF RouterOK, Router!RouterTypeOK
<1>c. /\ Router!Contents \subseteq Router!Table
      /\ writing = NoVersion => Router!Contents = {file}
      BY ContentsTypes DEF RouterOK
(* A notification, of an edit that has just been counted.                  *)
<1>n. ASSUME Router!Notified
      PROVE  events' \in 0..(events + 1) /\ (watch = "on" => events' > 0)
      BY <1>0, <1>n DEF Router!Notified
<1>2. ASSUME NEW v \in Versions, Router!Truncate(v) PROVE RouterOK'
      <2>1. /\ writing = NoVersion /\ writing' = v
            /\ edits < MaxEdits /\ edits' = edits + 1
            /\ UNCHANGED <<file, watch, same, table, told>>
            /\ events' \in 0..(events + 1)
            BY <1>2, <1>n DEF Router!Truncate
      <2>2. v # NoVersion /\ v \in Router!Table
            BY <1>0
      <2>3. reading' \subseteq Router!Table
            BY <1>0, <1>2, <2>2 DEF Router!Truncate
      <2>4. /\ events' \in 0..2 * MaxEdits /\ events' <= 2 * edits' - 1
            /\ edits' \in 0..MaxEdits
            BY <1>0, <2>1 DEF RouterOK
      <2> QED BY <1>0, <2>1, <2>2, <2>3, <2>4
              DEF RouterOK, Router!RouterTypeOK, Pending
<1>3. ASSUME Router!WriteRest PROVE RouterOK'
      <2>1. /\ writing # NoVersion /\ writing' = NoVersion /\ file' = writing
            /\ UNCHANGED <<watch, reading, same, table, edits>>
            /\ events' \in 0..(events + 1) /\ told' = (watch = "on")
            /\ watch = "on" => events' > 0
            BY <1>3, <1>n DEF Router!WriteRest
      <2>2. events' \in 0..2 * MaxEdits /\ events' <= 2 * edits'
            BY <1>0, <2>1 DEF RouterOK
      <2>3. (told => watch \in {"on", "lost"})' /\ Pending'
            BY <2>1 DEF Pending
      <2> QED BY <1>0, <2>1, <2>2, <2>3 DEF RouterOK, Router!RouterTypeOK
<1>4. ASSUME NEW v \in Versions, Router!Replace(v) PROVE RouterOK'
      <2>1. /\ writing = NoVersion /\ file' = v
            /\ edits < MaxEdits /\ edits' = edits + 1
            /\ watch' \in {"load", "none", "on", "lost"}
            /\ same' \in BOOLEAN /\ told' = FALSE
            /\ UNCHANGED <<writing, events, reading, table>>
            BY <1>0, <1>4 DEF Router!Replace
      <2>2. events' \in 0..2 * MaxEdits /\ events' <= 2 * edits'
            BY <1>0, <2>1 DEF RouterOK
      <2>3. told' \in BOOLEAN /\ (told => watch \in {"on", "lost"})' /\ Pending'
            BY <2>1, Zenon DEF Pending
      <2> QED BY <1>0, <2>1, <2>2, <2>3 DEF RouterOK, Router!RouterTypeOK
(* The goroutine and a restart leave the file alone.                       *)
<1>f. ASSUME UNCHANGED Router!fileVars, events' \in 0..events,
             watch' \in {"load", "none", "on", "lost"},
             table' \in Router!Table, reading' \subseteq Router!Table,
             same' \in BOOLEAN, told' \in BOOLEAN,
             (told => watch \in {"on", "lost"})', Pending'
      PROVE  RouterOK'
      <2>1. UNCHANGED <<file, writing, edits>>
            BY <1>f DEF Router!fileVars
      <2>2. /\ events' \in 0..2 * MaxEdits
            /\ events' <= 2 * edits' - (IF writing' = NoVersion THEN 0 ELSE 1)
            BY <1>0, <1>f, <2>1 DEF RouterOK
      <2> QED BY <1>0, <1>f, <2>1, <2>2 DEF RouterOK, Router!RouterTypeOK
<1>5. ASSUME Router!AddWatch PROVE RouterOK'
      <2>1. /\ watch = "none" /\ watch' \in {"on", "lost"}
            /\ UNCHANGED <<Router!fileVars, events, reading, same, table, told>>
            BY <1>5 DEF Router!AddWatch
      <2>2. ~told'
            BY <2>1 DEF RouterOK
      <2> QED BY <1>0, <1>f, <2>1, <2>2 DEF Pending
<1>6. ASSUME Router!OpenFile PROVE RouterOK'
      <2>1. /\ events' = events - 1 /\ events > 0 /\ reading' = Router!Contents
            /\ same' = TRUE /\ UNCHANGED <<Router!fileVars, watch, table, told>>
            BY <1>6 DEF Router!OpenFile
      <2>2. UNCHANGED <<file, writing>>
            BY <2>1 DEF Router!fileVars
      <2>3. Pending' /\ (told => watch \in {"on", "lost"})'
            BY <1>c, <2>1, <2>2 DEF Pending, RouterOK
      <2> QED BY <1>0, <1>c, <1>f, <2>1, <2>3
<1>7. ASSUME Router!Assign PROVE RouterOK'
      <2>1. PICK v \in Router!Result(reading) : table' = Router!Parsed(v)
            BY <1>7 DEF Router!Assign
      <2>2. /\ reading # {} /\ reading' = {} /\ same' = TRUE
            /\ UNCHANGED <<Router!fileVars, watch, events, told>>
            BY <1>7 DEF Router!Assign
      <2>3. UNCHANGED <<file, writing>>
            BY <2>2 DEF Router!fileVars
      <2>4. table' \in Router!Table
            BY <1>0, <2>1, ParsedTypes
      <2>5. ASSUME reading = {file} PROVE table' = file
            <3>1. v = file /\ v # NoVersion
                  BY <1>0, <2>1, <2>5, ResultOfOne
            <3> QED BY <2>1, <3>1 DEF Router!Parsed
      <2>6. Pending' /\ (told => watch \in {"on", "lost"})'
            BY <2>2, <2>3, <2>5 DEF Pending, RouterOK
      <2> QED BY <1>0, <1>f, <2>2, <2>4, <2>6
<1>8. ASSUME Router!Reopen PROVE RouterOK'
      <2>1. /\ watch' = "load" /\ events' = 0 /\ told' = FALSE
            /\ reading' = Router!Contents /\ same' = TRUE
            /\ table' = Router!Empty /\ UNCHANGED Router!fileVars
            BY <1>8 DEF Router!Reopen
      <2>2. told' \in BOOLEAN /\ (told => watch \in {"on", "lost"})' /\ Pending'
            BY <2>1, Zenon DEF Pending
      <2> QED BY <1>0, <1>c, <1>f, <2>1, <2>2
<1>9. ASSUME Router!Load PROVE RouterOK'
      <2>1. /\ watch = "load" /\ watch' = "none" /\ reading' = {}
            /\ same' = TRUE /\ UNCHANGED <<Router!fileVars, events, told>>
            /\ table' \in Router!Result(reading) \ {NoVersion}
            BY <1>9 DEF Router!Load
      <2>2. table' \in Router!Table /\ ~told'
            BY <1>0, <2>1, ResultTypes DEF RouterOK
      <2> QED BY <1>0, <1>f, <2>1, <2>2 DEF Pending
<1> QED BY <1>2, <1>3, <1>4, <1>5, <1>6, <1>7, <1>8, <1>9
        DEF Router!RouterNext, Router!Edit, Router!Watch, Router!Follow

(* What a request is resolved to.                                          *)
LEMMA ResolveType ==
    ASSUME RouterOK, NEW d \in Deployments, NEW h \in Nat
    PROVE  Router!PrefixResolve(d, h) \in Router!Address \cup {NoUpstream}
<1> DEFINE pods == table.pods[d]
<1>1. /\ table.routes[d] \in Router!Address \cup {NoUpstream}
      /\ pods \in Router!Pods
      BY DEF RouterOK, Router!RouterTypeOK, Router!Table
<1>2. PICK n \in 0..MaxPods : pods \in [1..n -> Router!Address]
      BY <1>1 DEF Router!Pods, Router!PodsOf
<1>3. n \in Nat
      BY <1>2, RouterConsts
<1>4. pods \in Seq(Router!Address)
      BY <1>2, <1>3, SeqDef
<1>5. Len(pods) \in Nat /\ \A i \in 1..Len(pods) : pods[i] \in Router!Address
      BY <1>4, LenProperties, ElementOfSeq
<1>6. Len(pods) > 0 => (h % Len(pods)) + 1 \in 1..Len(pods)
      <2>1. ASSUME NEW m \in Nat, m > 0 PROVE (h % m) + 1 \in 1..m
            BY <2>1
      <2> QED BY <1>5, <2>1
<1> QED BY <1>1, <1>5, <1>6 DEF Router!PrefixResolve, Router!Resolve

-----------------------------------------------------------------------------
(* Scanning a stream by chunks finds what scanning it at once would: the   *)
(* rest after the last end of line is carried over to the next chunk.      *)
LEMMA MaxExists ==
    ASSUME NEW n \in Nat, NEW S, S \subseteq 1..n, S # {}
    PROVE  Max(S) \in S /\ \A y \in S : y <= Max(S)
<1> DEFINE T == {n - i : i \in S}
<1>1. T \subseteq Nat /\ T # {}
      <2>1. ASSUME NEW i \in S PROVE n - i \in Nat
            OBVIOUS
      <2>2. PICK i \in S : TRUE
            OBVIOUS
      <2>3. n - i \in T
            BY <2>2
      <2> QED BY <2>1, <2>3
<1>2. \A x, y : <<y, x>> \in OpToRel(<, Nat)
                    <=> x \in Nat /\ y \in Nat /\ y < x
      BY DEF OpToRel
<1>3. PICK m \in T : \A t \in T : ~(t < m)
      <2>1. PICK m \in T : \A t \in T : <<t, m>> \notin OpToRel(<, Nat)
            BY <1>1, WFMin, NatLessThanWellFounded
      <2> QED BY <1>1, <1>2, <2>1
<1>4. PICK x \in S : m = n - x
      OBVIOUS
<1>5. ASSUME NEW y \in S PROVE x >= y
      <2>1. n - y \in T
            OBVIOUS
      <2>2. ~(n - y < n - x)
            BY <1>3, <1>4, <2>1
      <2>3. x \in Nat /\ y \in Nat
            OBVIOUS
      <2> QED BY <2>2, <2>3
<1>6. Max(S) \in S /\ \A y \in S : Max(S) >= y
      BY <1>5 DEF Max
<1>7. \A y \in S : y \in Nat
      OBVIOUS
<1> QED BY <1>6, <1>7

LEMMA MaxIs ==
    ASSUME NEW n \in Nat, NEW S, S \subseteq 1..n, NEW m \in S,
           \A y \in S : y <= m
    PROVE  Max(S) = m
<1>1. Max(S) \in S /\ m <= Max(S)
      BY MaxExists
<1>2. Max(S) \in 1..n /\ m \in 1..n /\ Max(S) <= m
      BY <1>1
<1>3. ASSUME NEW a \in Int, NEW b \in Int, a <= b, b <= a PROVE a = b
      BY <1>3
<1> QED BY <1>1, <1>2, <1>3

LastEnd(c) == IF Ends(c) = {} THEN 0 ELSE Max(Ends(c))

LEMMA EndsIn ==
    ASSUME NEW c \in Seq(Int)
    PROVE  /\ Len(c) \in Nat /\ DOMAIN c = 1..Len(c)
           /\ \A i \in 1..Len(c) : c[i] \in Int
           /\ Ends(c) \subseteq 1..Len(c) /\ UsageLines(c) \subseteq Ends(c)
           /\ \A i : i \in Ends(c) <=> i \in 1..Len(c) /\ c[i] = NL
<1>1. /\ Len(c) \in Nat /\ DOMAIN c = 1..Len(c)
      /\ \A i \in 1..Len(c) : c[i] \in Int
      BY LenProperties, ElementOfSeq
<1> QED BY <1>1 DEF Ends, UsageLines

LEMMA LastEndIs ==
    ASSUME NEW c \in Seq(Int)
    PROVE  /\ LastEnd(c) \in 0..Len(c)
           /\ LastEnd(c) > 0 => LastEnd(c) \in Ends(c)
           /\ \A i \in Ends(c) : i <= LastEnd(c)
<1>1. Len(c) \in Nat /\ Ends(c) \subseteq 1..Len(c)
      BY EndsIn
<1>2. CASE Ends(c) = {}
      BY <1>1, <1>2 DEF LastEnd
<1>3. CASE Ends(c) # {}
      <2>1. Max(Ends(c)) \in Ends(c) /\ \A i \in Ends(c) : i <= Max(Ends(c))
            BY <1>1, <1>3, MaxExists
      <2> QED BY <1>1, <1>3, <2>1 DEF LastEnd
<1> QED BY <1>2, <1>3

LEMMA RestIs ==
    ASSUME NEW c \in Seq(Int)
    PROVE  /\ Rest(c) \in Seq(Int) /\ Len(Rest(c)) = Len(c) - LastEnd(c)
           /\ \A i \in 1..Len(Rest(c)) : Rest(c)[i] = c[LastEnd(c) + i]
<1>1. /\ Len(c) \in Nat /\ \A i \in 1..Len(c) : c[i] \in Int
      /\ LastEnd(c) \in 0..Len(c)
      BY EndsIn, LastEndIs
<1>2. Rest(c) = SubSeq(c, LastEnd(c) + 1, Len(c))
      BY DEF Rest, LastEnd
<1>3. /\ LastEnd(c) + 1 \in Int /\ Len(c) \in Int
      /\ \A i \in (LastEnd(c) + 1)..Len(c) : c[i] \in Int
      BY <1>1
<1>4. /\ Rest(c) \in Seq(Int)
      /\ Len(Rest(c)) = IF LastEnd(c) + 1 <= Len(c)
                        THEN Len(c) - (LastEnd(c) + 1) + 1 ELSE 0
      /\ \A i \in 1..(Len(c) - (LastEnd(c) + 1) + 1) :
             Rest(c)[i] = c[(LastEnd(c) + 1) + i - 1]
      BY <1>2, <1>3, SubSeqProperties
<1>5. Len(Rest(c)) = Len(c) - LastEnd(c)
      BY <1>1, <1>4
<1>6. ASSUME NEW i \in 1..Len(Rest(c))
      PROVE  Rest(c)[i] = c[LastEnd(c) + i]
      <2>1. /\ i \in 1..(Len(c) - (LastEnd(c) + 1) + 1)
            /\ (LastEnd(c) + 1) + i - 1 = LastEnd(c) + i
            BY <1>1, <1>5
      <2> QED BY <1>4, <2>1
<1> QED BY <1>4, <1>5, <1>6

(* What has been read before (s), what is read now (t), and the chunk that *)
(* is looked at.                                                           *)
LEMMA ChunkIs ==
    ASSUME NEW s \in Seq(Int), NEW t \in Seq(Int)
    PROVE  /\ s \o t \in Seq(Int) /\ Rest(s) \o t \in Seq(Int)
           /\ Len(s \o t) = Len(Rest(s) \o t) + LastEnd(s)
           /\ Len(Rest(s) \o t) \in Nat /\ LastEnd(s) \in 0..Len(s)
           /\ Len(s) \in Nat /\ Len(s) <= Len(s \o t)
           /\ \A i \in 1..Len(Rest(s) \o t) :
                  (Rest(s) \o t)[i] = (s \o t)[i + LastEnd(s)]
           /\ \A i \in 1..Len(s) : (s \o t)[i] = s[i]
<1> DEFINE e == LastEnd(s)
<1>1. /\ Len(s) \in Nat /\ Len(t) \in Nat /\ e \in 0..Len(s)
      /\ Rest(s) \in Seq(Int) /\ Len(Rest(s)) = Len(s) - e
      /\ \A i \in 1..Len(Rest(s)) : Rest(s)[i] = s[e + i]
      BY EndsIn, LastEndIs, RestIs
<1>2. /\ s \o t \in Seq(Int) /\ Len(s \o t) = Len(s) + Len(t)
      /\ \A i \in 1..(Len(s) + Len(t)) :
            (s \o t)[i] = IF i <= Len(s) THEN s[i] ELSE t[i - Len(s)]
      BY ConcatProperties
<1>3. /\ Rest(s) \o t \in Seq(Int)
      /\ Len(Rest(s) \o t) = Len(Rest(s)) + Len(t)
      /\ \A i \in 1..(Len(Rest(s)) + Len(t)) :
            (Rest(s) \o t)[i] = IF i <= Len(Rest(s)) THEN Rest(s)[i]
                                ELSE t[i - Len(Rest(s))]
      BY <1>1, ConcatProperties
<1> HIDE DEF e
<1>4. ASSUME NEW i \in 1..Len(Rest(s) \o t)
      PROVE  (Rest(s) \o t)[i] = (s \o t)[i + e]
      <2>0. i \in 1..(Len(Rest(s)) + Len(t)) /\ i + e \in 1..(Len(s) + Len(t))
            BY <1>1, <1>3
      <2>1. CASE i <= Len(Rest(s))
            <3>1. i + e <= Len(s) /\ i \in 1..Len(Rest(s)) /\ e + i = i + e
                  BY <1>1, <2>0, <2>1
            <3> QED BY <1>1, <1>2, <1>3, <2>0, <2>1, <3>1
      <2>2. CASE ~(i <= Len(Rest(s)))
            <3>1. ~(i + e <= Len(s)) /\ i - Len(Rest(s)) = (i + e) - Len(s)
                  BY <1>1, <2>0, <2>2
            <3>2. (Rest(s) \o t)[i] = t[i - Len(Rest(s))]
                  BY <1>3, <2>0, <2>2
            <3>3. (s \o t)[i + e] = t[(i + e) - Len(s)]
                  BY <1>2, <2>0, <3>1
            <3>4. t[i - Len(Rest(s))] = t[(i + e) - Len(s)]
                  BY <3>1, Zenon
            <3> QED BY <3>2, <3>3, <3>4
      <2> QED BY <2>1, <2>2
<1>5. ASSUME NEW i \in 1..Len(s) PROVE (s \o t)[i] = s[i]
      BY <1>1, <1>2
<1>6. /\ Len(s \o t) = Len(Rest(s) \o t) + e
      /\ Len(Rest(s) \o t) \in Nat /\ Len(s) <= Len(s \o t)
      BY <1>1, <1>2, <1>3
<1>7. e = LastEnd(s)
      BY DEF e
<1> HIDE DEF e
<1> QED BY <1>1, <1>2, <1>3, <1>4, <1>5, <1>6, <1>7

LEMMA ChunkEnds ==
    ASSUME NEW s \in Seq(Int), NEW t \in Seq(Int), NEW j \in Int
    PROVE  /\ j \in Ends(s \o t)
                <=> j \in Ends(s) \/ j - LastEnd(s) \in Ends(Rest(s) \o t)
           /\ j \in UsageLines(s \o t)
                <=> \/ j \in UsageLines(s)
                    \/ j - LastEnd(s) \in UsageLines(Rest(s) \o t)
<1> DEFINE e == LastEnd(s)
           c == Rest(s) \o t
           d == s \o t
<1>1. /\ d \in Seq(Int) /\ c \in Seq(Int) /\ Len(d) = Len(c) + e
      /\ Len(c) \in Nat /\ e \in 0..Len(s) /\ Len(s) \in Nat
      /\ Len(s) <= Len(d)
      /\ \A i \in 1..Len(c) : c[i] = d[i + e]
      /\ \A i \in 1..Len(s) : d[i] = s[i]
      BY ChunkIs
<1>2. /\ \A i : i \in Ends(s) <=> i \in 1..Len(s) /\ s[i] = NL
      /\ \A i : i \in Ends(c) <=> i \in 1..Len(c) /\ c[i] = NL
      /\ \A i : i \in Ends(d) <=> i \in 1..Len(d) /\ d[i] = NL
      BY <1>1, EndsIn
<1>3. /\ e > 0 => e \in Ends(s)
      /\ \A i \in Ends(s) : i <= e
      BY LastEndIs
<1>4. e > 0 => d[e] = NL
      BY <1>1, <1>2, <1>3
<1>u. /\ j \in UsageLines(s) <=>
            /\ j \in Ends(s) /\ j > 2 /\ s[j - 1] > 0 /\ s[j - 2] = Data
            /\ j > 3 => s[j - 3] = NL
      /\ j - e \in UsageLines(c) <=>
            /\ j - e \in Ends(c) /\ j - e > 2 /\ c[j - e - 1] > 0
            /\ c[j - e - 2] = Data
            /\ j - e > 3 => c[j - e - 3] = NL
      /\ j \in UsageLines(d) <=>
            /\ j \in Ends(d) /\ j > 2 /\ d[j - 1] > 0 /\ d[j - 2] = Data
            /\ j > 3 => d[j - 3] = NL
      BY DEF UsageLines
<1>n. NL = -2 /\ Data = -1
      BY DEF NL, Data
<1> HIDE DEF c, d, e
<1>a. /\ e \in Int /\ Len(c) \in Int /\ Len(s) \in Int /\ Len(d) \in Int
      /\ 0 <= e /\ e <= Len(s) /\ Len(s) <= Len(d) /\ Len(d) = Len(c) + e
      BY <1>1
<1>5. CASE j <= e
      <2>0. /\ j > 0 => j \in 1..Len(s) /\ j \in 1..Len(d)
            /\ j > 2 => j - 1 \in 1..Len(s) /\ j - 2 \in 1..Len(s)
            /\ j > 3 => j - 3 \in 1..Len(s)
            <3>1. j <= Len(s) /\ j <= Len(d)
                  BY <1>a, <1>5
            <3> QED BY <1>a, <3>1
      <2>1. j \in Ends(d) <=> j \in Ends(s)
            <3>1. CASE j > 0
                  <4>1. /\ j \in 1..Len(s) /\ j \in 1..Len(d) /\ d[j] = s[j]
                        /\ j \in Ends(s) <=> j \in 1..Len(s) /\ s[j] = NL
                        /\ j \in Ends(d) <=> j \in 1..Len(d) /\ d[j] = NL
                        BY <1>1, <1>2, <2>0, <3>1
                  <4> QED BY <4>1
            <3>2. CASE ~(j > 0)
                  BY <1>2, <3>2
            <3> QED BY <3>1, <3>2
      <2>2. j - e \notin Ends(c)
            BY <1>1, <1>2, <1>5
      <2>3. j > 2 => d[j - 1] = s[j - 1] /\ d[j - 2] = s[j - 2]
            BY <1>1, <2>0
      <2>4. j > 3 => d[j - 3] = s[j - 3]
            BY <1>1, <2>0
      <2> QED BY <1>u, <2>1, <2>2, <2>3, <2>4 DEF c, d, e
<1>6. CASE j > e
      <2>1. j \notin Ends(s)
            BY <1>1, <1>3, <1>6
      <2>2. j \in Ends(d) <=> j - e \in Ends(c)
            <3>1. j \in 1..Len(d) <=> j - e \in 1..Len(c)
                  BY <1>1, <1>6
            <3>2. j - e \in 1..Len(c) => c[j - e] = d[j]
                  <4>1. j - e + e = j
                        BY <1>1
                  <4> QED BY <1>1, <4>1
            <3> QED BY <1>2, <3>1, <3>2
      <2>3. ASSUME j - e \in Ends(c)
            PROVE  j \in UsageLines(d) <=> j - e \in UsageLines(c)
            <3>0. j - e \in 1..Len(c) /\ j \in 1..Len(d) /\ j \in Ends(d)
                  BY <1>1, <1>2, <2>2, <2>3
            <3>1. CASE j - e = 1
                  <4>1. j > 2 => e > 0 /\ j - 1 = e
                        BY <1>1, <3>1
                  <4> QED BY <1>4, <1>n, <1>u, <3>1, <4>1
            <3>2. CASE j - e = 2
                  <4>1. j > 2 => e > 0 /\ j - 2 = e
                        BY <1>1, <3>2
                  <4> QED BY <1>4, <1>n, <1>u, <3>2, <4>1
            <3>3. CASE j - e > 2
                  <4>1. /\ j - e - 1 \in 1..Len(c) /\ j - e - 1 + e = j - 1
                        /\ j - e - 2 \in 1..Len(c) /\ j - e - 2 + e = j - 2
                        /\ j > 2
                        BY <1>a, <3>0, <3>3
                  <4>2. c[j - e - 1] = d[j - 1] /\ c[j - e - 2] = d[j - 2]
                        BY <1>1, <4>1
                  <4>3. CASE j - e > 3
                        <5>1. /\ j - e - 3 \in 1..Len(c)
                              /\ j - e - 3 + e = j - 3 /\ j > 3
                              BY <1>a, <3>0, <4>3
                        <5>2. c[j - e - 3] = d[j - 3]
                              BY <1>1, <5>1
                        <5>3. j \in UsageLines(d) <=>
                                /\ d[j - 1] > 0 /\ d[j - 2] = Data
                                /\ d[j - 3] = NL
                              BY <1>u, <3>0, <4>1, <5>1
                        <5>4. j - e \in UsageLines(c) <=>
                                /\ c[j - e - 1] > 0 /\ c[j - e - 2] = Data
                                /\ c[j - e - 3] = NL
                              BY <1>u, <2>3, <3>3, <4>3
                        <5> QED BY <4>2, <5>2, <5>3, <5>4
                  <4>4. CASE j - e = 3
                        <5>1. j > 3 => e > 0 /\ j - 3 = e
                              BY <1>1, <4>4
                        <5>2. j \in UsageLines(d) <=>
                                /\ d[j - 1] > 0 /\ d[j - 2] = Data
                              BY <1>4, <1>u, <3>0, <4>1, <5>1
                        <5>3. ~(j - e > 3)
                              BY <4>4
                        <5>4. j - e \in UsageLines(c) <=>
                                /\ c[j - e - 1] > 0 /\ c[j - e - 2] = Data
                              BY <1>u, <2>3, <3>3, <5>3
                        <5> QED BY <4>2, <5>2, <5>4
                  <4>5. j - e > 3 \/ j - e = 3
                        BY <1>1, <3>0, <3>3
                  <4> QED BY <4>3, <4>4, <4>5
            <3>4. j - e = 1 \/ j - e = 2 \/ j - e > 2
                  BY <1>1, <3>0
            <3> QED BY <3>1, <3>2, <3>3, <3>4
      <2> QED BY <1>u, <2>1, <2>2, <2>3 DEF c, d, e
<1>7. j <= e \/ j > e
      BY <1>1
<1> QED BY <1>5, <1>6, <1>7

(* Once more, for the lemmas below: d is s and more, and c is what is      *)
(* looked at, from the end e of the last whole line of s.                  *)
Split(s, c, d, e) ==
    /\ s \in Seq(Int) /\ c \in Seq(Int) /\ d \in Seq(Int) /\ e = LastEnd(s)
    /\ Len(s) \in Nat /\ Len(c) \in Nat /\ Len(d) \in Nat
    /\ e \in 0..Len(s) /\ Len(d) = Len(c) + e
    /\ \A i \in 1..Len(c) : c[i] = d[i + e]
    /\ \A i \in 1..Len(s) : d[i] = s[i]
    /\ \A j \in Int : j \in Ends(d) <=> j \in Ends(s) \/ j - e \in Ends(c)
    /\ \A j \in Int : j \in UsageLines(d)
                          <=> j \in UsageLines(s) \/ j - e \in UsageLines(c)

LEMMA Splits ==
    ASSUME NEW s \in Seq(Int), NEW t \in Seq(Int)
    PROVE  Split(s, Rest(s) \o t, s \o t, LastEnd(s))
<1>1. Len(s \o t) \in Nat
      BY ChunkIs, EndsIn
<1>2. ASSUME NEW j \in Int
      PROVE  /\ j \in Ends(s \o t)
                  <=> j \in Ends(s) \/ j - LastEnd(s) \in Ends(Rest(s) \o t)
             /\ j \in UsageLines(s \o t)
                  <=> \/ j \in UsageLines(s)
                      \/ j - LastEnd(s) \in UsageLines(Rest(s) \o t)
      BY ChunkEnds
<1> QED BY <1>1, <1>2, ChunkIs DEF Split

LEMMA StreamEnd ==
    ASSUME NEW s, NEW c, NEW d, NEW e, Split(s, c, d, e)
    PROVE  LastEnd(d) = LastEnd(c) + e
<1> DEFINE m == LastEnd(c) + e
<1>1. /\ s \in Seq(Int) /\ c \in Seq(Int) /\ d \in Seq(Int)
      /\ Len(s) \in Nat /\ Len(c) \in Nat /\ Len(d) \in Nat /\ e = LastEnd(s)
      BY DEF Split
<1>2. /\ e \in Nat /\ (e > 0 => e \in Ends(s)) /\ \A i \in Ends(s) : i <= e
      BY <1>1, LastEndIs
<1>3. /\ LastEnd(c) \in Nat /\ (LastEnd(c) > 0 => LastEnd(c) \in Ends(c))
      /\ \A i \in Ends(c) : i <= LastEnd(c)
      BY <1>1, LastEndIs
<1>4. /\ LastEnd(d) \in Int /\ LastEnd(d) >= 0
      /\ LastEnd(d) > 0 => LastEnd(d) \in Ends(d)
      /\ \A i \in Ends(d) : i <= LastEnd(d)
      BY <1>1, LastEndIs
<1>5. \A j \in Int : j \in Ends(d) <=> j \in Ends(s) \/ j - e \in Ends(c)
      BY DEF Split
<1>6. Ends(d) \subseteq Int
      BY <1>1, EndsIn
<1>7. m \in Int /\ m >= 0 /\ (m > 0 => m \in Ends(d))
      <2>1. CASE LastEnd(c) > 0
            <3>1. m \in Int /\ m - e = LastEnd(c)
                  BY <1>2, <1>3
            <3> QED BY <1>2, <1>3, <1>5, <2>1, <3>1
      <2>2. CASE LastEnd(c) = 0
            BY <1>2, <1>5, <2>2
      <2> QED BY <1>3, <2>1, <2>2
<1>8. ASSUME NEW j \in Ends(d) PROVE j <= m
      <2>1. j \in Int /\ (j \in Ends(s) \/ j - e \in Ends(c))
            BY <1>5, <1>6
      <2>2. j <= e \/ j - e <= LastEnd(c)
            BY <1>2, <1>3, <2>1
      <2> QED BY <1>2, <1>3, <2>1, <2>2
<1> HIDE DEF m
<1>9. LastEnd(d) = m
      BY <1>4, <1>7, <1>8
<1> QED BY <1>9 DEF m

LEMMA StreamRest ==
    ASSUME NEW s, NEW c, NEW d, NEW e, Split(s, c, d, e)
    PROVE  Rest(d) = Rest(c)
<1>1. /\ d \in Seq(Int) /\ c \in Seq(Int) /\ Len(d) = Len(c) + e
      /\ Len(c) \in Nat /\ e \in 0..Len(s) /\ Len(s) \in Nat
      /\ \A i \in 1..Len(c) : c[i] = d[i + e]
      BY DEF Split
<1>2. LastEnd(d) = LastEnd(c) + e /\ LastEnd(c) \in 0..Len(c)
      BY <1>1, StreamEnd, LastEndIs
<1>3. /\ Rest(d) \in Seq(Int) /\ Len(Rest(d)) = Len(d) - LastEnd(d)
      /\ \A i \in 1..Len(Rest(d)) : Rest(d)[i] = d[LastEnd(d) + i]
      BY <1>1, RestIs
<1>4. /\ Rest(c) \in Seq(Int) /\ Len(Rest(c)) = Len(c) - LastEnd(c)
      /\ \A i \in 1..Len(Rest(c)) : Rest(c)[i] = c[LastEnd(c) + i]
      BY <1>1, RestIs
<1>5. Len(Rest(d)) = Len(Rest(c))
      BY <1>1, <1>2, <1>3, <1>4
<1>6. ASSUME NEW i \in 1..Len(Rest(d)) PROVE Rest(d)[i] = Rest(c)[i]
      <2> DEFINE k == LastEnd(c) + i
      <2>0. i \in 1..(Len(c) - LastEnd(c)) /\ LastEnd(c) \in Nat
            BY <1>2, <1>4, <1>5
      <2>n. e \in Int /\ LastEnd(d) = LastEnd(c) + e /\ Len(c) \in Nat
            BY <1>1, <1>2
      <2>1. k \in 1..Len(c) /\ k + e = LastEnd(d) + i
            <3>1. ASSUME NEW l \in Nat, NEW n \in Nat, i \in 1..(n - l)
                  PROVE  l + i \in 1..n /\ (l + i) + e = (l + e) + i
                  BY <2>n, <3>1
            <3> QED BY <2>0, <2>n, <3>1
      <2>2. Rest(c)[i] = c[k]
            BY <1>4, <1>5
      <2> HIDE DEF k
      <2>3. c[k] = d[k + e]
            BY <1>1, <2>1
      <2> QED BY <1>3, <2>1, <2>2, <2>3
<1> QED BY <1>3, <1>4, <1>5, <1>6, SeqEqual

LEMMA LastUsage ==
    ASSUME NEW s \in Seq(Int), UsageLines(s) # {}
    PROVE  /\ Max(UsageLines(s)) \in UsageLines(s)
           /\ \A j \in UsageLines(s) : j <= Max(UsageLines(s))
<1>1. Len(s) \in Nat /\ UsageLines(s) \subseteq 1..Len(s)
      BY EndsIn
<1> QED BY <1>1, MaxExists

LEMMA UsageLine ==
    ASSUME NEW s \in Seq(Int), NEW j \in UsageLines(s)
    PROVE  j \in Int /\ j - 1 \in 1..Len(s) /\ s[j - 1] \in Nat
<1>1. Len(s) \in Nat /\ UsageLines(s) \subseteq 1..Len(s)
      BY EndsIn
<1>2. j > 2 /\ s[j - 1] > 0
      BY DEF UsageLines
<1>3. j - 1 \in 1..Len(s)
      BY <1>1, <1>2
<1>4. s[j - 1] \in Int
      BY <1>3, ElementOfSeq
<1> QED BY <1>1, <1>2, <1>3, <1>4

LEMMA UsageType ==
    ASSUME NEW s \in Seq(Int), NEW old \in Nat
    PROVE  UsageIn(s, old) \in Nat
BY LastUsage, UsageLine DEF UsageIn

LEMMA StreamUsage ==
    ASSUME NEW s, NEW c, NEW d, NEW e, Split(s, c, d, e), NEW old
    PROVE  UsageIn(d, old) = UsageIn(c, UsageIn(s, old))
<1>1. /\ s \in Seq(Int) /\ d \in Seq(Int) /\ c \in Seq(Int)
      /\ Len(d) \in Nat /\ e = LastEnd(s)
      /\ e \in Nat /\ Len(s) \in Nat
      /\ \A i \in 1..Len(c) : c[i] = d[i + e]
      /\ \A i \in 1..Len(s) : d[i] = s[i]
      BY DEF Split
<1>2. /\ UsageLines(s) \subseteq Int /\ UsageLines(c) \subseteq Int
      /\ UsageLines(d) \subseteq 1..Len(d)
      /\ \A i \in UsageLines(s) : i <= e
      BY <1>1, EndsIn, LastEndIs
<1>3. \A j \in Int : j \in UsageLines(d)
                       <=> j \in UsageLines(s) \/ j - e \in UsageLines(c)
      BY DEF Split
<1>4. CASE UsageLines(c) # {}
      <2> DEFINE m == Max(UsageLines(c))
      <2>1. /\ m \in UsageLines(c) /\ \A j \in UsageLines(c) : j <= m
            /\ m \in Int /\ m - 1 \in 1..Len(c)
            BY <1>1, <1>4, LastUsage, UsageLine
      <2>2. UsageIn(c, UsageIn(s, old)) = c[m - 1]
            BY <1>4 DEF UsageIn
      <2> HIDE DEF m
      <2>3. c[m - 1] = d[(m + e) - 1]
            <3>1. (m - 1) + e = (m + e) - 1
                  BY <1>1, <2>1
            <3>2. c[m - 1] = d[(m - 1) + e]
                  BY <1>1, <2>1
            <3> QED BY <3>1, <3>2
      <2>4. m + e \in UsageLines(d)
            <3>1. m + e \in Int /\ (m + e) - e = m
                  BY <1>1, <2>1
            <3> QED BY <1>3, <2>1, <3>1
      <2>5. m > 0
            <3>1. UsageLines(c) \subseteq 1..Len(c)
                  BY <1>1, EndsIn
            <3> QED BY <2>1, <3>1
      <2>6. ASSUME NEW j \in UsageLines(d) PROVE j <= m + e
            <3>1. /\ j \in Int
                  /\ j \in UsageLines(s) \/ j - e \in UsageLines(c)
                  BY <1>2, <1>3
            <3>2. j <= e \/ j - e <= m
                  BY <1>2, <2>1, <3>1
            <3> QED BY <1>1, <2>1, <2>5, <3>1, <3>2
      <2>7. Max(UsageLines(d)) = m + e
            BY <1>1, <1>2, <2>4, <2>6, MaxIs
      <2>8. UsageIn(d, old) = d[(m + e) - 1]
            BY <2>4, <2>7 DEF UsageIn
      <2> QED BY <2>2, <2>3, <2>8
<1>5. CASE UsageLines(c) = {}
      <2>1. UsageLines(d) = UsageLines(s)
            <3>1. \A j \in Int : j \in UsageLines(d) <=> j \in UsageLines(s)
                  BY <1>3, <1>5
            <3>2. UsageLines(d) \subseteq Int
                  BY <1>2
            <3> QED BY <1>2, <3>1, <3>2
      <2>2. UsageIn(c, UsageIn(s, old)) = UsageIn(s, old)
            BY <1>5 DEF UsageIn
      <2>3. UsageIn(d, old) = UsageIn(s, old)
            <3>1. CASE UsageLines(s) = {}
                  BY <2>1, <3>1 DEF UsageIn
            <3>2. CASE UsageLines(s) # {}
                  <4> DEFINE m == Max(UsageLines(s))
                  <4>1. m - 1 \in 1..Len(s)
                        BY <1>1, <3>2, LastUsage, UsageLine
                  <4>2. d[m - 1] = s[m - 1]
                        BY <1>1, <4>1
                  <4> QED BY <2>1, <3>2, <4>2 DEF UsageIn
            <3> QED BY <3>1, <3>2
      <2> QED BY <2>2, <2>3
<1> QED BY <1>4, <1>5

-----------------------------------------------------------------------------
(* The requests.  CallOK is what is known of the call c of a caller: among *)
(* others that nothing is charged to its number yet, and that the scanning *)
(* of its answer is where scanning what has been sent at once would be.    *)
Prefix(c) == SubSeq(c.body, 1, c.read)

Scanned(c) ==
    /\ c.body \in Bodies /\ c.read \in 0..Len(c.body)
    /\ c.leftover = Rest(Prefix(c)) /\ c.usage = UsageIn(Prefix(c), 0)

CallOK(c) ==
    /\ c.pc \in {"send", "stream"} <=> c.upstream # NoUpstream
    /\ c.pc # "idle" => /\ c.dep \in Deployments /\ c.no \in 1..calls
                        /\ \A x \in served : x[2] # c.no
    /\ IF c.pc = "stream" THEN Scanned(c)
       ELSE c.read = 0 /\ c.leftover = <<>> /\ c.usage = 0
    /\ c.dead => c.pc \in {"idle", "validate"}
    /\ c.dead /\ c.pc = "validate" => Dead(c.secret)

ProxyOK ==
    /\ call \in [Callers -> Call] /\ calls \in 0..MaxCalls
    /\ \A r \in Callers : CallOK(call[r])
    /\ \A r \in Callers : \A q \in Callers \ {r} :
          call[r].pc # "idle" /\ call[q].pc # "idle" => call[r].no # call[q].no
    /\ served \subseteq Nat \X Nat \X Nat /\ \A x \in served : x[2] <= calls
    /\ ChargedAsServed

LEMMA ProxyConsts ==
    /\ MaxCalls \in Nat /\ Hashes \subseteq Nat
    /\ \A b \in Bodies : b \in Seq(Int) /\ Len(b) \in Nat
<1>1. Nat \cup {Data, NL} \subseteq Int
      BY DEF Data, NL
<1>2. \A b \in Bodies : b \in Seq(Nat \cup {Data, NL})
      BY GatewayAssumption
<1>3. \A b \in Bodies : b \in Seq(Int)
      BY <1>1, <1>2, SeqMonotonic
<1> QED BY <1>3, GatewayAssumption, LenProperties

LEMMA NoCallType ==
    /\ NoCall \in Call /\ NoCall.pc = "idle" /\ NoCall.upstream = NoUpstream
    /\ NoCall.dead = FALSE
    /\ NoCall.read = 0 /\ NoCall.leftover = <<>> /\ NoCall.usage = 0
<1>1. <<>> \in Seq(Int)
      BY EmptySeq
<1> QED BY <1>1 DEF NoCall, Call, Stages

LEMMA NoCallOK == CallOK(NoCall)'
BY NoCallType DEF CallOK

LEMMA ProxyInit ==
    ASSUME Init PROVE ProxyOK
<1>1. /\ call = [r \in Callers |-> NoCall] /\ calls = 0
      /\ charging = {} /\ charged = {} /\ served = {} /\ lost = {}
      BY DEF Init
<1>2. /\ call \in [Callers -> Call] /\ calls \in 0..MaxCalls
      /\ \A r \in Callers : call[r] = NoCall
      BY <1>1, NoCallType, ProxyConsts
<1>3. \A r \in Callers : CallOK(call[r])
      BY <1>2, NoCallType DEF CallOK
<1>4. ChargedAsServed
      BY <1>1 DEF ChargedAsServed
<1> QED BY <1>1, <1>2, <1>3, <1>4, NoCallType DEF ProxyOK

(* A secret that is dead stays so, and no key works with it.               *)
LEMMA DeadStays ==
    ASSUME Revoked, NEW s, Dead(s) PROVE Dead(s)'
<1>1. PICK k \in Keys : s \in used[k] /\ ~Control!Works(k, s)
      BY DEF Dead
<1>2. k \in Creds
      BY DEF Creds, Control!Creds
<1>3. s \in used'[k] /\ ~Control!Works(k, s)'
      BY <1>1, <1>2 DEF Revoked
<1> QED BY <1>3 DEF Dead

LEMMA DeadInvalid ==
    ASSUME ControlOK, NEW r \in Callers, Dead(call[r].secret)
    PROVE  ~Valid(r)
<1> DEFINE s == call[r].secret
<1>1. PICK k \in Keys : s \in used[k] /\ ~Control!Works(k, s)
      BY DEF Dead
<1>2. ASSUME NEW j \in Keys, Control!Works(j, s) PROVE FALSE
      <2>1. j \in Creds /\ k \in Creds /\ CredOK(j)
            BY ControlFacts
      <2>2. s \in used[j]
            BY <1>2, <2>1 DEF Control!Works, CredOK
      <2>3. j # k
            BY <1>1, <1>2
      <2> QED BY <1>1, <2>1, <2>2, <2>3 DEF CredOK
<1> QED BY <1>2 DEF Valid

(* A step of one request.                                                  *)
LEMMA CallStep ==
    ASSUME ProxyOK, Revoked, NEW r \in Callers, NEW c \in Call,
           call' = [call EXCEPT ![r] = c],
           UNCHANGED <<calls, charging, charged, served, lost>>,
           c.pc # "idle" => call[r].pc # "idle" /\ c.no = call[r].no,
           CallOK(c)
    PROVE  ProxyOK'
<1>1. /\ call' \in [Callers -> Call] /\ call'[r] = c
      /\ \A q \in Callers \ {r} : call'[q] = call[q]
      BY DEF ProxyOK
<1>2. ASSUME NEW d, CallOK(d) PROVE CallOK(d)'
      BY <1>2, DeadStays DEF CallOK
<1>3. \A q \in Callers : CallOK(call[q])'
      BY <1>1, <1>2 DEF ProxyOK
<1>4. \A p \in Callers : \A q \in Callers \ {p} :
         call'[p].pc # "idle" /\ call'[q].pc # "idle"
            => call'[p].no # call'[q].no
      BY <1>1 DEF ProxyOK
<1> QED BY <1>1, <1>3, <1>4 DEF ProxyOK, ChargedAsServed

(* A request that is over.                                                 *)
LEMMA FinishStep ==
    ASSUME ProxyOK, Revoked, NEW r \in Callers, Finish(r),
           UNCHANGED <<calls, charging, charged, served, lost>>
    PROVE  ProxyOK'
<1>1. CallOK(NoCall)
      BY NoCallType DEF CallOK
<1> QED BY <1>1, NoCallType, CallStep DEF Finish

(* A request that goes on to a stage that says nothing more of it.         *)
LEMMA GoStep ==
    ASSUME ProxyOK, Revoked, NEW r \in Callers,
           NEW to \in {"peer", "limit", "resolve"}, Go(r, to),
           call[r].pc \in {"validate", "limit"}, ~call[r].dead,
           UNCHANGED <<calls, charging, charged, served, lost>>
    PROVE  ProxyOK'
<1> DEFINE c == [call[r] EXCEPT !.pc = to]
<1>1. call[r] \in Call /\ CallOK(call[r])
      BY DEF ProxyOK
<1>2. /\ c \in Call /\ c.pc = to /\ c.no = call[r].no /\ c.dep = call[r].dep
      /\ c.upstream = call[r].upstream /\ c.dead = call[r].dead
      /\ c.read = call[r].read /\ c.leftover = call[r].leftover
      /\ c.usage = call[r].usage
      BY <1>1 DEF Call, Stages
<1>3. call' = [call EXCEPT ![r] = c]
      BY DEF Go
<1> HIDE DEF c
<1>4. CallOK(c)
      BY <1>1, <1>2 DEF CallOK
<1> QED BY <1>2, <1>3, <1>4, CallStep

LEMMA ArriveStep ==
    ASSUME ControlOK, ProxyOK, NEW r \in Callers, NEW s \in 1..lastSecret,
           NEW d \in Deployments, NEW h \in Hashes, Arrive(r, s, d, h)
    PROVE  ProxyOK'
<1> DEFINE b == Dead(s)
<1>1. b \in BOOLEAN
      BY Zenon DEF Dead
<1>2. /\ call[r].pc = "idle" /\ calls < MaxCalls /\ calls' = calls + 1
      /\ UNCHANGED <<charging, charged, served, lost, cred, used>>
      BY DEF Arrive, At, ProxyOnly, credVars
<1>3. Dead(s)' <=> b
      BY <1>2 DEF Dead, Control!Works
<1>4. call' = [call EXCEPT ![r] = [NoCall EXCEPT
                  !.pc = "validate", !.no = calls', !.secret = s, !.dep = d,
                  !.hash = h, !.dead = b]]
      BY DEF Arrive
<1> HIDE DEF b
<1> DEFINE c == [NoCall EXCEPT !.pc = "validate", !.no = calls', !.secret = s,
                               !.dep = d, !.hash = h, !.dead = b]
<1>5. /\ calls \in Nat /\ calls' \in 0..MaxCalls /\ calls' \in Nat
      /\ calls' \in 1..calls'
      BY <1>2, ProxyConsts DEF ProxyOK
<1>6. s \in Nat
      BY ControlFacts
<1>7. /\ c \in Call /\ c.pc = "validate" /\ c.no = calls' /\ c.dep = d
      /\ c.upstream = NoUpstream /\ c.dead = b /\ c.secret = s
      /\ c.read = 0 /\ c.leftover = <<>> /\ c.usage = 0
      BY <1>1, <1>5, <1>6, NoCallType DEF Call, Stages
<1>8. /\ call' \in [Callers -> Call] /\ call'[r] = c
      /\ \A q \in Callers \ {r} : call'[q] = call[q]
      BY <1>4, <1>7 DEF ProxyOK
<1> HIDE DEF c
<1>9. \A x \in served' : x[2] <= calls /\ x[2] \in Nat
      BY <1>2 DEF ProxyOK
<1>10. CallOK(call[r])'
       <2>1. \A x \in served' : x[2] # calls'
             BY <1>2, <1>5, <1>9
       <2>2. /\ call'[r].pc = "validate" /\ call'[r].no = calls'
             /\ call'[r].dep = d /\ call'[r].upstream = NoUpstream
             /\ call'[r].dead = b /\ call'[r].secret = s
             /\ call'[r].read = 0 /\ call'[r].leftover = <<>>
             /\ call'[r].usage = 0
             BY <1>7, <1>8
       <2> QED BY <1>3, <1>5, <2>1, <2>2 DEF CallOK
<1>11. ASSUME NEW q \in Callers \ {r} PROVE CallOK(call[q])'
       <2>1. CallOK(call[q]) /\ call'[q] = call[q]
             BY <1>8 DEF ProxyOK
       <2>2. Dead(call[q].secret)' <=> Dead(call[q].secret)
             BY <1>2, <2>1 DEF Dead, Control!Works
       <2>3. call[q].no \in 1..calls => call[q].no \in 1..calls'
             BY <1>2, <1>5
       <2> QED BY <1>2, <2>1, <2>2, <2>3 DEF CallOK
<1>12. \A q \in Callers : CallOK(call[q])'
       BY <1>10, <1>11
<1>13. \A q \in Callers \ {r} : call'[q].pc # "idle" => call'[q].no < calls'
       BY <1>2, <1>5, <1>8 DEF ProxyOK, CallOK
<1>14. \A p \in Callers : \A q \in Callers \ {p} :
          call'[p].pc # "idle" /\ call'[q].pc # "idle"
             => call'[p].no # call'[q].no
       <2> SUFFICES ASSUME NEW p \in Callers, NEW q \in Callers \ {p},
                           call'[p].pc # "idle", call'[q].pc # "idle"
                    PROVE  call'[p].no # call'[q].no
           OBVIOUS
       <2>1. CASE p # r /\ q # r
             BY <1>8, <2>1 DEF ProxyOK
       <2>2. CASE p = r
             BY <1>5, <1>7, <1>8, <1>13, <2>2
       <2>3. CASE q = r
             BY <1>5, <1>7, <1>8, <1>13, <2>3
       <2> QED BY <2>1, <2>2, <2>3
<1>15. \A x \in served' : x[2] <= calls'
       BY <1>2, <1>5, <1>9
<1> QED BY <1>2, <1>5, <1>8, <1>12, <1>14, <1>15 DEF ProxyOK, ChargedAsServed

LEMMA ResolveStep ==
    ASSUME ProxyOK, RouterOK, Revoked, NEW r \in Callers, Resolve(r)
    PROVE  ProxyOK'
<1>1. /\ call[r] \in Call /\ CallOK(call[r]) /\ call[r].pc = "resolve"
      /\ UNCHANGED <<calls, charging, charged, served, lost>>
      BY DEF ProxyOK, Resolve, At
<1>2. PICK h \in CacheKey(r) :
         LET u == Router!PrefixResolve(call[r].dep, h) IN
         IF u = NoUpstream THEN Finish(r)
         ELSE call' = [call EXCEPT ![r].pc = "send", ![r].upstream = u]
      BY DEF Resolve
<1> DEFINE u == Router!PrefixResolve(call[r].dep, h)
<1>3. u \in Router!Address \cup {NoUpstream}
      <2>0. call[r].dep \in Deployments /\ call[r].hash \in Hashes \cup {0}
            BY <1>1 DEF CallOK, Call
      <2>1. h \in Nat /\ call[r].dep \in Deployments
            BY <1>2, <2>0, ProxyConsts DEF CacheKey, NoHash
      <2> QED BY <2>1, ResolveType
<1>4. IF u = NoUpstream THEN Finish(r)
      ELSE call' = [call EXCEPT ![r].pc = "send", ![r].upstream = u]
      BY <1>2
<1> HIDE DEF u
<1>5. CASE u = NoUpstream
      BY <1>1, <1>4, <1>5, FinishStep
<1>6. CASE u # NoUpstream
      <2> DEFINE c == [call[r] EXCEPT !.pc = "send", !.upstream = u]
      <2>1. /\ c \in Call /\ c.pc = "send" /\ c.no = call[r].no
            /\ c.dep = call[r].dep /\ c.upstream = u /\ c.dead = call[r].dead
            /\ c.read = call[r].read /\ c.leftover = call[r].leftover
            /\ c.usage = call[r].usage
            BY <1>1, <1>3 DEF Call, Stages
      <2>2. call' = [call EXCEPT ![r] = c]
            BY <1>4, <1>6 DEF ProxyOK
      <2> HIDE DEF c
      <2>3. CallOK(c)
            BY <1>1, <1>6, <2>1 DEF CallOK
      <2> QED BY <1>1, <2>1, <2>2, <2>3, CallStep
<1> QED BY <1>5, <1>6

LEMMA NothingScanned == Rest(<<>>) = <<>> /\ UsageIn(<<>>, 0) = 0
<1>1. <<>> \in Seq(Int) /\ Len(<<>>) = 0
      BY EmptySeq
<1>2. Ends(<<>>) = {} /\ UsageLines(<<>>) = {}
      <2>1. 1..Len(<<>>) = {}
            BY <1>1
      <2> QED BY <1>1, <2>1, EndsIn
<1>3. Rest(<<>>) = SubSeq(<<>>, 1, 0)
      BY <1>1, <1>2 DEF Rest
<1> QED BY <1>2, <1>3, SubSeqEmpty DEF UsageIn

LEMMA SendStep ==
    ASSUME ProxyOK, Revoked, NEW r \in Callers, Send(r)
    PROVE  ProxyOK'
<1>1. /\ call[r] \in Call /\ CallOK(call[r]) /\ call[r].pc = "send"
      /\ UNCHANGED <<calls, charging, charged, served, lost>>
      BY DEF ProxyOK, Send, At
<1>2. CASE Finish(r)
      BY <1>1, <1>2, FinishStep
<1>3. ASSUME NEW b \in Bodies,
             call' = [call EXCEPT ![r].pc = "stream", ![r].body = b]
      PROVE  ProxyOK'
      <2>1. b \in Seq(Int) /\ Len(b) \in Nat
            BY ProxyConsts
      <2> DEFINE c == [call[r] EXCEPT !.pc = "stream", !.body = b]
      <2>2. /\ c \in Call /\ c.pc = "stream" /\ c.no = call[r].no
            /\ c.dep = call[r].dep /\ c.upstream = call[r].upstream
            /\ c.dead = call[r].dead /\ c.body = b /\ c.read = call[r].read
            /\ c.leftover = call[r].leftover /\ c.usage = call[r].usage
            BY <1>1 DEF Call, Stages
      <2>3. call' = [call EXCEPT ![r] = c]
            BY <1>3 DEF ProxyOK
      <2> HIDE DEF c
      <2>4. Scanned(c)
            <3>1. c.read = 0 /\ c.leftover = <<>> /\ c.usage = 0
                  BY <1>1, <2>2 DEF CallOK
            <3>2. Prefix(c) = <<>> /\ Len(c.body) \in Nat
                  BY <2>1, <2>2, <3>1, SubSeqEmpty DEF Prefix
            <3> QED BY <2>2, <3>1, <3>2, NothingScanned DEF Scanned
      <2>5. CallOK(c)
            BY <1>1, <2>2, <2>4 DEF CallOK
      <2> QED BY <1>1, <2>2, <2>3, <2>5, CallStep
<1> QED BY <1>2, <1>3 DEF Send

(* A chunk is the rest of what has been sent before and what is read now.  *)
LEMMA ReadStep ==
    ASSUME ProxyOK, Revoked, NEW r \in Callers, Read(r)
    PROVE  ProxyOK'
<1> DEFINE b == call[r].body
           k == call[r].read
           s == Prefix(call[r])
<1>1. /\ call[r] \in Call /\ CallOK(call[r]) /\ call[r].pc = "stream"
      /\ UNCHANGED <<calls, charging, charged, served, lost>>
      BY DEF ProxyOK, Read, At
<1>2. PICK n \in 1..(Len(b) - k) :
         call' = [call EXCEPT
                    ![r].read = @ + n,
                    ![r].usage = UsageIn(call[r].leftover \o Chunk(r, n), @),
                    ![r].leftover = Rest(call[r].leftover \o Chunk(r, n))]
      BY DEF Read
<1>3. /\ b \in Seq(Int) /\ Len(b) \in Nat /\ b \in Bodies /\ k \in 0..Len(b)
      /\ call[r].leftover = Rest(s) /\ call[r].usage = UsageIn(s, 0)
      BY <1>1, ProxyConsts DEF CallOK, Scanned
<1> DEFINE t == SubSeq(b, k + 1, k + n)
           c == Rest(s) \o t
<1>4. k + n \in 0..Len(b) /\ k \in 0..Len(b) /\ n \in Nat /\ k \in Nat
      BY <1>2, <1>3
<1>5. Chunk(r, n) = t
      BY DEF Chunk
<1>6. s \in Seq(Int) /\ t \in Seq(Int) /\ s \o t = SubSeq(b, 1, k + n)
      <2>1. \A i \in 1..Len(b) : b[i] \in Int
            BY <1>3, ElementOfSeq
      <2>2. s = SubSeq(b, 1, k)
            BY DEF Prefix
      <2>3. \A i \in 1..k : b[i] \in Int
            BY <1>3, <1>4, <2>1
      <2>4. \A i \in (k + 1)..(k + n) : b[i] \in Int
            BY <1>3, <1>4, <2>1
      <2>5. k + 1 \in Int /\ k + n \in Int /\ k \in Int
            BY <1>4
      <2>6. s \in Seq(Int) /\ t \in Seq(Int)
            BY <2>2, <2>3, <2>4, <2>5, SubSeqProperties
      <2>7. 1 \in 1..Len(b) + 1 /\ k \in (1 - 1)..Len(b) /\ k + n \in k..Len(b)
            BY <1>3, <1>4
      <2>8. SubSeq(b, 1, k) \o t = SubSeq(b, 1, k + n)
            BY <1>3, <2>7, ConcatAdjacentSubSeq
      <2> QED BY <2>2, <2>6, <2>8
<1>7. Split(s, c, s \o t, LastEnd(s))
      BY <1>6, Splits
<1>8. Rest(s \o t) = Rest(c) /\ UsageIn(s \o t, 0) = UsageIn(c, UsageIn(s, 0))
      BY <1>7, StreamRest, StreamUsage
<1>9. /\ Rest(c) \in Seq(Int) /\ UsageIn(c, UsageIn(s, 0)) \in Nat
      <2>1. c \in Seq(Int)
            BY <1>6, ChunkIs
      <2> QED BY <1>6, <2>1, RestIs, UsageType
<1> HIDE DEF t, c, s
<1> DEFINE x == k + n
           y == UsageIn(c, UsageIn(s, 0))
           z == Rest(c)
           d == [call[r] EXCEPT !.read = x, !.usage = y, !.leftover = z]
<1>10. call' = [call EXCEPT ![r] = d]
       BY <1>2, <1>3, <1>5 DEF ProxyOK, Call, c
<1>x. x \in Nat /\ y \in Nat /\ z \in Seq(Int)
      BY <1>4, <1>9
<1> HIDE DEF x, y, z
<1>11. /\ d \in Call /\ d.pc = "stream" /\ d.no = call[r].no
       /\ d.dep = call[r].dep /\ d.upstream = call[r].upstream
       /\ d.dead = call[r].dead /\ d.secret = call[r].secret
       /\ d.body = b /\ d.read = x /\ d.usage = y /\ d.leftover = z
       BY <1>1, <1>x DEF Call
<1> HIDE DEF d
<1>12. Prefix(d) = s \o t
       BY <1>6, <1>11 DEF Prefix, x
<1>13. Scanned(d)
       BY <1>3, <1>4, <1>8, <1>11, <1>12 DEF Scanned, x, y, z
<1>14. CallOK(d)
       BY <1>1, <1>11, <1>13 DEF CallOK
<1> QED BY <1>1, <1>10, <1>11, <1>14, CallStep

(* The end of an answer: one new record, of a number that has none.        *)
LEMMA EndStep ==
    ASSUME ProxyOK, Revoked, NEW r \in Callers, End(r)
    PROVE  ProxyOK'
<1> DEFINE u == Charge(r, call[r].usage)
           n == call[r].no
<1>1. /\ call[r] \in Call /\ CallOK(call[r]) /\ call[r].pc = "stream"
      /\ UNCHANGED <<calls, charged, lost>>
      /\ call' = [call EXCEPT ![r] = NoCall]
      BY DEF ProxyOK, End, At, Finish
<1>2. call[r].usage = UsageIn(Sent(r), 0)
      BY <1>1 DEF CallOK, Scanned, Sent, Prefix
<1>3. charging' = charging \cup u /\ served' = served \cup u
      BY <1>2 DEF End
<1>4. /\ n \in 1..calls /\ calls \in Nat /\ \A x \in served : x[2] # n
      BY <1>1, ProxyConsts DEF CallOK, ProxyOK
<1>5. u \subseteq Nat \X Nat \X Nat /\ \A x \in u : x[2] = n
      BY <1>1 DEF Charge, Call
<1> HIDE DEF u
<1>6. /\ call' \in [Callers -> Call] /\ call'[r] = NoCall
      /\ \A q \in Callers \ {r} : call'[q] = call[q]
      BY <1>1, NoCallType DEF ProxyOK
<1>7. ASSUME NEW q \in Callers \ {r}, call[q].pc # "idle"
      PROVE  \A x \in served' : x[2] # call[q].no
      <2>1. call[q].no # n /\ \A x \in served : x[2] # call[q].no
            BY <1>1, <1>7 DEF ProxyOK, CallOK
      <2> QED BY <1>3, <1>5, <2>1
<1>8. ASSUME NEW q \in Callers PROVE CallOK(call[q])'
      <2>1. CASE q = r
            BY <1>6, <2>1, NoCallType DEF CallOK
      <2>2. CASE q # r
            <3>1. CallOK(call[q]) /\ call'[q] = call[q]
                  BY <1>6, <2>2 DEF ProxyOK
            <3>2. ASSUME NEW d, Dead(d) PROVE Dead(d)'
                  BY <3>2, DeadStays
            <3> QED BY <1>1, <1>7, <2>2, <3>1, <3>2 DEF CallOK
      <2> QED BY <2>1, <2>2
<1>9. \A p \in Callers : \A q \in Callers \ {p} :
         call'[p].pc # "idle" /\ call'[q].pc # "idle"
            => call'[p].no # call'[q].no
      BY <1>6, NoCallType DEF ProxyOK
<1>10. \A x \in served' : x[2] <= calls'
       BY <1>1, <1>3, <1>4, <1>5 DEF ProxyOK
<1>11. ChargedAsServed'
       <2>1. ChargedAsServed
             BY DEF ProxyOK
       <2>2. u \cap charged = {}
             BY <1>4, <1>5, <2>1 DEF ChargedAsServed
       <2> QED BY <1>1, <1>3, <2>1, <2>2 DEF ChargedAsServed
<1> QED BY <1>1, <1>3, <1>5, <1>6, <1>8, <1>9, <1>10, <1>11 DEF ProxyOK

(* The goroutines that record, and a restart.                              *)
LEMMA RecordStep ==
    ASSUME ProxyOK, Revoked, NEW c \in charging, RecordTokens(c)
    PROVE  ProxyOK'
<1>1. /\ UNCHANGED <<call, calls, served>> /\ charging' = charging \ {c}
      /\ \/ charged' = charged \cup {c} /\ UNCHANGED lost
         \/ lost' = lost \cup {c} /\ UNCHANGED charged
      BY DEF RecordTokens
<1>2. ChargedAsServed'
      BY <1>1 DEF ProxyOK, ChargedAsServed
<1>3. \A r \in Callers : CallOK(call[r])'
      BY <1>1, DeadStays DEF ProxyOK, CallOK
<1> QED BY <1>1, <1>2, <1>3 DEF ProxyOK

LEMMA RestartStep ==
    ASSUME ProxyOK, Restart
    PROVE  ProxyOK'
<1>1. /\ UNCHANGED <<charged, calls, served>> /\ charging' = {}
      /\ call' = [r \in Callers |-> NoCall] /\ lost' = lost \cup charging
      BY DEF Restart
<1>2. ChargedAsServed'
      BY <1>1 DEF ProxyOK, ChargedAsServed
<1>3. /\ call' \in [Callers -> Call] /\ \A r \in Callers : call'[r] = NoCall
      BY <1>1, NoCallType
<1>4. \A r \in Callers : CallOK(call[r])'
      BY <1>3, NoCallType DEF CallOK
<1> QED BY <1>1, <1>2, <1>3, <1>4, NoCallType DEF ProxyOK

LEMMA OthersStep ==
    ASSUME ProxyOK, Revoked, UNCHANGED proxyVars PROVE ProxyOK'
<1>1. UNCHANGED <<call, charging, charged, calls, served, lost>>
      BY DEF proxyVars
<1>2. \A r \in Callers : CallOK(call[r])'
      BY <1>1, DeadStays DEF ProxyOK, CallOK
<1> QED BY <1>1, <1>2 DEF ProxyOK, ChargedAsServed

-----------------------------------------------------------------------------
Inv == ControlOK /\ RouterOK /\ ProxyOK

LEMMA InvInit == Init => Inv
BY ControlInit, RouterInit, ProxyInit DEF Init, Inv

(* One request's step leaves the other parts alone.                        *)
LEMMA ServeStep ==
    ASSUME Inv, NEW r \in Callers, Serve(r)
    PROVE  ProxyOK' /\ UNCHANGED <<credVars, routerVars>>
<1>1. Revoked /\ UNCHANGED <<credVars, routerVars>>
      <2>1. UNCHANGED <<credVars, routerVars>>
            BY DEF Serve, Validate, ServePeer, Limit, Resolve, Send, Read, End,
                   ProxyOnly
      <2>2. UNCHANGED <<cred, used>>
            BY <2>1 DEF credVars
      <2> QED BY <2>1, <2>2, SameRows
<1>2. ControlOK /\ RouterOK /\ ProxyOK /\ CallOK(call[r])
      BY DEF Inv, ProxyOK
<1>3. ASSUME Validate(r) PROVE ProxyOK'
      <2>1. /\ call[r].pc = "validate"
            /\ UNCHANGED <<calls, charging, charged, served, lost>>
            BY <1>3 DEF Validate, At
      <2>2. CASE ~Valid(r)
            BY <1>1, <1>2, <1>3, <2>1, <2>2, FinishStep DEF Validate
      <2>3. CASE Valid(r)
            <3>1. ~call[r].dead
                  BY <1>2, <2>1, <2>3, DeadInvalid DEF CallOK
            <3>2. Go(r, "peer") \/ Go(r, "limit")
                  BY <1>3, <2>3 DEF Validate
            <3> QED BY <1>1, <1>2, <2>1, <3>1, <3>2, GoStep
      <2> QED BY <2>2, <2>3
<1>4. ASSUME ServePeer(r) PROVE ProxyOK'
      BY <1>1, <1>2, <1>4, FinishStep DEF ServePeer
<1>5. ASSUME Limit(r) PROVE ProxyOK'
      <2>1. /\ call[r].pc = "limit" /\ ~call[r].dead
            /\ UNCHANGED <<calls, charging, charged, served, lost>>
            BY <1>2, <1>5 DEF Limit, At, CallOK
      <2>2. Go(r, "resolve") \/ Finish(r)
            BY <1>5 DEF Limit
      <2> QED BY <1>1, <1>2, <2>1, <2>2, FinishStep, GoStep
<1>6. Resolve(r) => ProxyOK'
      BY <1>1, <1>2, ResolveStep
<1>7. Send(r) => ProxyOK'
      BY <1>1, <1>2, SendStep
<1>8. Read(r) => ProxyOK'
      BY <1>1, <1>2, ReadStep
<1>9. End(r) => ProxyOK'
      BY <1>1, <1>2, EndStep
<1> QED BY <1>1, <1>3, <1>4, <1>5, <1>6, <1>7, <1>8, <1>9 DEF Serve

LEMMA SameControl == ASSUME ControlOK, UNCHANGED credVars PROVE ControlOK'
<1>1. UNCHANGED <<cred, invites, task, lastSecret, asked, used>>
      BY DEF credVars
<1>2. \A h \in Clerks : ClerkOK(h)'
      BY <1>1 DEF ControlOK, ClerkOK, Control!HasRow
<1>3. \A c \in Creds : CredOK(c)'
      BY <1>1 DEF ControlOK, CredOK
<1>4. Control!CredTypeOK'
      BY <1>1 DEF ControlOK, Control!CredTypeOK
<1>5. InvitesHaveRows'
      BY <1>1 DEF ControlOK, InvitesHaveRows, Control!InvitesHaveRows,
                  Control!HasRow
<1> QED BY <1>2, <1>3, <1>4, <1>5 DEF ControlOK

LEMMA SameRouter == ASSUME RouterOK, UNCHANGED routerVars PROVE RouterOK'
BY DEF routerVars, RouterOK, Router!RouterTypeOK, Pending

(* Every step keeps the invariant, and what is revoked revoked.            *)
LEMMA InvNext == Inv /\ [Next]_vars => Inv' /\ Revoked
<1> SUFFICES ASSUME Inv, [Next]_vars PROVE Inv' /\ Revoked
    OBVIOUS
<1>0. ControlOK /\ RouterOK /\ ProxyOK
      BY DEF Inv
<1>s. ASSUME UNCHANGED credVars PROVE ControlOK' /\ Revoked
      <2>1. UNCHANGED <<cred, used>>
            BY <1>s DEF credVars
      <2> QED BY <1>0, <1>s, <2>1, SameControl, SameRows
<1>1. ASSUME NEW r \in Callers, Serve(r) PROVE Inv' /\ Revoked
      BY <1>0, <1>1, <1>s, ServeStep, SameRouter DEF Inv
<1>2. ASSUME NEW r \in Callers, NEW s \in 1..lastSecret,
             NEW d \in Deployments, NEW h \in Hashes, Arrive(r, s, d, h)
      PROVE  Inv' /\ Revoked
      <2>1. UNCHANGED <<credVars, routerVars>>
            BY <1>2 DEF Arrive, ProxyOnly
      <2> QED BY <1>0, <1>2, <1>s, <2>1, ArriveStep, SameRouter DEF Inv
<1>3. ASSUME NEW c \in charging, RecordTokens(c) PROVE Inv' /\ Revoked
      <2>1. UNCHANGED <<credVars, routerVars>>
            BY <1>3 DEF RecordTokens, ProxyOnly
      <2> QED BY <1>0, <1>3, <1>s, <2>1, RecordStep, SameRouter DEF Inv
<1>4. ASSUME Restart PROVE Inv' /\ Revoked
      <2>1. UNCHANGED credVars /\ Router!Reopen
            BY <1>4 DEF Restart
      <2> QED BY <1>0, <1>4, <1>s, <2>1, RestartStep, RouterNext DEF Inv
<1>5. ASSUME Control!CredNext, UNCHANGED <<routerVars, proxyVars>>
      PROVE  Inv' /\ Revoked
      BY <1>0, <1>5, ControlNext, SameRouter, OthersStep DEF Inv
<1>6. ASSUME Router!RouterNext, UNCHANGED <<credVars, proxyVars>>
      PROVE  Inv' /\ Revoked
      BY <1>0, <1>6, <1>s, RouterNext, OthersStep DEF Inv
<1>7. ASSUME UNCHANGED vars PROVE Inv' /\ Revoked
      <2>1. UNCHANGED <<credVars, routerVars, proxyVars>>
            BY <1>7 DEF vars
      <2> QED BY <1>0, <1>s, <2>1, SameRouter, OthersStep DEF Inv
<1> QED BY <1>1, <1>2, <1>3, <1>4, <1>5, <1>6, <1>7 DEF Next, Proxy

LEMMA InvSpec == Spec => []Inv
<1>1. Init => Inv
      BY InvInit
<1>2. Inv /\ [Next]_vars => Inv'
      BY InvNext
<1> QED BY <1>1, <1>2, PTL DEF Spec

-----------------------------------------------------------------------------
(* Every variable keeps its type, and an address a request is sent to is   *)
(* one of the table's.                                                     *)
THEOREM GatewayTypeCorrect == Spec => []TypeOK
<1>1. Inv => TypeOK
      BY DEF Inv, ControlOK, RouterOK, ProxyOK, CallOK, ChargedAsServed, TypeOK
<1> QED BY <1>1, InvSpec, PTL

(* Validate asks the database for every request: one that comes with a     *)
(* secret that was replaced or deleted before is not even limited.         *)
THEOREM GatewayRevokedNotServed == Spec => []RevokedNotServed
<1>1. Inv => RevokedNotServed
      BY DEF Inv, ProxyOK, CallOK, RevokedNotServed
<1> QED BY <1>1, InvSpec, PTL

(* No interleaving of rotations, deletions and restarts of the handlers of *)
(* keys and peers makes a secret work again, or a deleted row active.      *)
THEOREM GatewayRevokedForGood == Spec => RevokedForGood
<1>1. Inv /\ [Next]_vars =>
        [\A c \in Control!Creds :
            /\ Control!Deleted(c) => Control!Deleted(c)'
            /\ \A s \in used[c] :
                  ~Control!Works(c, s) => ~Control!Works(c, s)'
        ]_(Control!credVars)
      BY InvNext DEF Revoked, Creds
<1> QED BY <1>1, InvSpec, PTL DEF Spec, RevokedForGood, Control!RevokedForGood

(* CreatePeerInvite, DeletePeer and Postgres' references: no invitation    *)
(* without its peer and its key.                                           *)
THEOREM GatewayInvitesHaveRows == Spec => []InvitesHaveRows
<1>1. Inv => InvitesHaveRows
      BY DEF Inv, ControlOK
<1> QED BY <1>1, InvSpec, PTL

(* watchFile and reload: once the file has been written under the watch,   *)
(* whatever a reload has read of it meanwhile, the table is the file's or  *)
(* a reload is still to come, or under way with all that there is.         *)
THEOREM GatewayStaleIsAnnounced == Spec => []StaleIsAnnounced
<1>1. Inv => StaleIsAnnounced
      BY DEF Inv, RouterOK, Pending, StaleIsAnnounced, Router!StaleIsAnnounced
<1> QED BY <1>1, InvSpec, PTL

(* streamResponse charges the last usage of what it has sent, however the  *)
(* reads have cut the answer, and once.                                    *)
THEOREM GatewayChargedAsServed == Spec => []ChargedAsServed
<1>1. Inv => ChargedAsServed
      BY DEF Inv, ProxyOK
<1> QED BY <1>1, InvSpec, PTL
=============================================================================
