---------------------------- MODULE Credentials -----------------------------
(***************************************************************************)
(* The API keys, the peers and the invitations of keys to peers, as the    *)
(* control API keeps them in Postgres.  A key and a peer are credentials:  *)
(* a row with the hash of one secret, which rotation replaces.  Nothing    *)
(* runs in a transaction: a handler reads the row and later writes it with *)
(* another statement, while other handlers do the same.                    *)
(***************************************************************************)
EXTENDS Naturals, FiniteSets

CONSTANTS
    Keys, Peers,   \* the rows that are ever created, by their id
    Clerks,        \* the requests that the control API serves at a time
    NoCred,
    MaxSecrets,    \* bound on the secrets ever generated
    MaxRequests    \* bound on the requests to the control API

CredentialsConstants ==
    /\ Keys \cap Peers = {} /\ NoCred \notin Keys \cup Peers
    /\ MaxSecrets \in Nat /\ MaxRequests \in Nat

Creds   == Keys \cup Peers
Secrets == 1..MaxSecrets
States  == {"none", "active", "inactive", "gone"}   \* gone: no row any more
Cred    == [state : States, secret : Secrets \cup {0}]

PCs == {"idle", "rotate", "delete", "readKey", "invite", "uninvite"}
Task == [pc : PCs, cred : Creds \cup {NoCred}, key : Keys \cup {NoCred},
         secret : Secrets \cup {0}]
NoTask == [pc |-> "idle", cred |-> NoCred, key |-> NoCred, secret |-> 0]

VARIABLES
    cred,      \* the rows of api_keys and peers
    invites,   \* the rows of peer_invites
    task,      \* what each handler does after its first SELECT
    lastSecret, asked,
    used       \* history: the secrets each credential has had

credVars == <<cred, invites, task, lastSecret, asked, used>>

Init ==
    /\ cred = [c \in Creds |-> [state |-> "none", secret |-> 0]]
    /\ invites = {} /\ task = [h \in Clerks |-> NoTask]
    /\ lastSecret = 0 /\ asked = 0
    /\ used = [c \in Creds |-> {}]

-----------------------------------------------------------------------------
HasRow(c) == cred[c].state \in {"active", "inactive"}
Deleted(c) == cred[c].state \in {"inactive", "gone"}
Works(c, s) == cred[c].state = "active" /\ cred[c].secret = s

Asks == asked < MaxRequests /\ asked' = asked + 1
Generate == lastSecret < MaxSecrets /\ lastSecret' = lastSecret + 1

At(h, at) == task[h].pc = at
Answer(h) == task' = [task EXCEPT ![h] = NoTask]
Starts(h, t) == At(h, "idle") /\ task' = [task EXCEPT ![h] = t]

(* CreateAPIKey and CreatePeer, after the look-up of the member.           *)
Create(c) ==
    /\ cred[c].state = "none" /\ Asks /\ Generate
    /\ cred' = [cred EXCEPT ![c] = [state |-> "active", secret |-> lastSecret']]
    /\ used' = [used EXCEPT ![c] = {lastSecret'}]
    /\ UNCHANGED <<invites, task>>

(* The requests below are those of a peer's owner: others are refused by   *)
(* the first SELECT.  RotateAPIKey and RotatePeerToken read the row,       *)
(* generate a secret, and write it in a second statement that asks for     *)
(* nothing but the id: an inactive key stays inactive, and a peer that has *)
(* gone meanwhile is not there to be updated.  The caller is told the      *)
(* secret in any case.                                                     *)
Rotate(h, c) ==
    /\ HasRow(c) /\ Asks /\ Generate
    /\ Starts(h, [NoTask EXCEPT !.pc = "rotate", !.cred = c,
                                !.secret = lastSecret'])
    /\ UNCHANGED <<cred, invites, used>>

RotateUpdateActivates(h) ==     \* mutant: SET active = true as well
    LET c == task[h].cred IN
    /\ At(h, "rotate") /\ Answer(h)
    /\ IF HasRow(c)
       THEN /\ cred' = [cred EXCEPT ![c] = [state |-> "active",
                                            secret |-> task[h].secret]]
            /\ used' = [used EXCEPT ![c] = @ \cup {task[h].secret}]
       ELSE UNCHANGED <<cred, used>>
    /\ UNCHANGED <<invites, lastSecret, asked>>
RotateUpdate(h) ==
    LET c == task[h].cred IN
    /\ At(h, "rotate") /\ Answer(h)
    /\ IF HasRow(c)
       THEN /\ cred' = [cred EXCEPT ![c].secret = task[h].secret]
            /\ used' = [used EXCEPT ![c] = @ \cup {task[h].secret}]
       ELSE UNCHANGED <<cred, used>>
    /\ UNCHANGED <<invites, lastSecret, asked>>

(* DeleteAPIKey makes the key inactive; DeletePeer deletes the row, and    *)
(* Postgres its invitations with it.                                       *)
Delete(h, c) ==
    /\ HasRow(c) /\ Asks
    /\ Starts(h, [NoTask EXCEPT !.pc = "delete", !.cred = c])
    /\ UNCHANGED <<cred, invites, lastSecret, used>>

DeleteKey(h) ==
    /\ At(h, "delete") /\ task[h].cred \in Keys /\ Answer(h)
    /\ cred' = [cred EXCEPT ![task[h].cred].state = "inactive"]
    /\ UNCHANGED <<invites, lastSecret, asked, used>>

DeletePeer(h) ==
    LET p == task[h].cred IN
    /\ At(h, "delete") /\ p \in Peers /\ Answer(h)
    /\ cred' = [cred EXCEPT ![p].state = "gone"]
    /\ invites' = {i \in invites : i[1] # p}
    /\ UNCHANGED <<lastSecret, asked, used>>

(* CreatePeerInvite reads the peer, then the key, which it does not expect *)
(* to be active; the INSERT needs a pair that is new and both of its rows. *)
Invite(h, p, k) ==
    /\ HasRow(p) /\ Asks
    /\ Starts(h, [NoTask EXCEPT !.pc = "readKey", !.cred = p, !.key = k])
    /\ UNCHANGED <<cred, invites, lastSecret, used>>

ReadKey(h) ==
    /\ At(h, "readKey")
    /\ IF HasRow(task[h].key) THEN task' = [task EXCEPT ![h].pc = "invite"]
                              ELSE Answer(h)
    /\ UNCHANGED <<cred, invites, lastSecret, asked, used>>

InsertInviteUnchecked(h) ==     \* mutant: peer_id without REFERENCES peers
    /\ At(h, "invite") /\ Answer(h)
    /\ invites' = invites \cup {<<task[h].cred, task[h].key>>}
    /\ UNCHANGED <<cred, lastSecret, asked, used>>
InsertInvite(h) ==
    /\ At(h, "invite") /\ Answer(h)
    /\ invites' = IF HasRow(task[h].cred)
                  THEN invites \cup {<<task[h].cred, task[h].key>>}
                  ELSE invites
    /\ UNCHANGED <<cred, lastSecret, asked, used>>

(* DeletePeerInvite.                                                       *)
Uninvite(h, p, k) ==
    /\ HasRow(p) /\ Asks
    /\ Starts(h, [NoTask EXCEPT !.pc = "uninvite", !.cred = p, !.key = k])
    /\ UNCHANGED <<cred, invites, lastSecret, used>>

DeleteInvite(h) ==
    /\ At(h, "uninvite") /\ Answer(h)
    /\ invites' = invites \ {<<task[h].cred, task[h].key>>}
    /\ UNCHANGED <<cred, lastSecret, asked, used>>

(* The second statement fails, or the control API restarts: nothing is     *)
(* written.  Deletions and uninvitations are answered as if it had.        *)
Interrupted(h) ==
    /\ ~At(h, "idle") /\ Answer(h)
    /\ UNCHANGED <<cred, invites, lastSecret, asked, used>>

Clerk(h) ==
    \/ \E c \in Creds : Rotate(h, c) \/ Delete(h, c)
    \/ \E p \in Peers, k \in Keys : Invite(h, p, k) \/ Uninvite(h, p, k)
    \/ RotateUpdate(h) \/ DeleteKey(h) \/ DeletePeer(h) \/ ReadKey(h)
    \/ InsertInvite(h) \/ DeleteInvite(h) \/ Interrupted(h)
CredNext == (\E c \in Creds : Create(c)) \/ \E h \in Clerks : Clerk(h)

Spec == Init /\ [][CredNext]_credVars

-----------------------------------------------------------------------------
CredTypeOK ==
    /\ cred \in [Creds -> Cred] /\ invites \subseteq Peers \X Keys
    /\ task \in [Clerks -> Task]
    /\ lastSecret \in 0..MaxSecrets /\ asked \in 0..MaxRequests
    /\ used \in [Creds -> SUBSET Secrets]

(* What is deleted stays deleted, whatever rotations were under way, and   *)
(* no secret that has been replaced works again.                           *)
RevokedForGood ==
    [][\A c \in Creds :
          /\ Deleted(c) => Deleted(c)'
          /\ \A s \in used[c] : ~Works(c, s) => ~Works(c, s)']_credVars

(* An invitation names a peer and a key that are in their tables, although *)
(* the handler has read them before others deleted them.                   *)
InvitesHaveRows == \A i \in invites : HasRow(i[1]) /\ HasRow(i[2])
=============================================================================
