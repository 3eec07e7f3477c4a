------------------------------ MODULE Accounts ------------------------------
(***************************************************************************)
(* The members of one organisation in the control API: logins, invitations *)
(* and removals, and the rows that refer to members (API keys, the audit   *)
(* log).  A request is served by a goroutine, its handler, which sends one *)
(* statement after the other to Postgres.  A statement is one step, except *)
(* the INSERT of a new member, which may have to wait in the middle for    *)
(* the row of the organisation.  Only a login opens a transaction; locks   *)
(* are those Postgres takes at READ COMMITTED.                             *)
(*                                                                         *)
(* A server runs with an identity provider, or in dev mode (DEV_EMAIL),    *)
(* where each request carries the member that the server's start has made  *)
(* an administrator.  Servers of both kinds may share the database.        *)
(***************************************************************************)
EXTENDS Naturals, FiniteSets

CONSTANTS
    Emails,      \* the people of the organisation's domain
    DevEmails,   \* those whom a server in dev mode may be started for
    Handlers,    \* the requests that are served at a time
    SubjectSigned,  \* the member's id gets into the token; it does not now
    NoHandler, NoEmail,
    NoRow,       \* no row of members
    MaxRequests  \* bound on the requests

Ids   == Nat \ {0}
Roles == {"admin", "developer"}    \* viewer and partner are no admins either
Row   == [id : Ids, role : Roles, first : BOOLEAN]

ASSUME AccountsAssumption ==
    /\ DevEmails \subseteq Emails /\ SubjectSigned \in BOOLEAN
    /\ NoHandler \notin Handlers /\ NoEmail \notin Emails
    /\ NoRow \notin Row
    /\ MaxRequests \in Nat

LoginTx  == {"count", "insert", "commit"}  \* holds the organisation's row
InvitePC == {"inviteRole", "inviterOrg", "invite", "fkOrg"}
RemovePC == {"removeRole", "targetOrg", "caller", "delete"}
DevPC    == {"devInsert", "devOrg"}
PCs == {"idle", "upsert", "member", "key"} \cup LoginTx \cup InvitePC
           \cup RemovePC \cup DevPC
Job == [pc : PCs,
        actor : Ids \cup {0},           \* the subject of the claims; 0: ''
        email : Emails \cup {NoEmail},  \* who logs in, or is invited
        role  : Roles,                  \* the role of a new row
        target : Ids \cup {0},          \* the member to remove
        found : BOOLEAN,                \* who had an organisation
        row : Row \cup {NoRow}]         \* a row it has inserted or locked
Idle == [pc |-> "idle", actor |-> 0, email |-> NoEmail, role |-> "developer",
         target |-> 0, found |-> FALSE, row |-> NoRow]

VARIABLES
    members,   \* the committed rows of members, by their unique e-mail
    org,       \* the handler that has locked the row of the organisation
    job,       \* what each handler does
    tokens,    \* the subjects of the tokens that have not expired
    dev,       \* the member of a server in dev mode, 0 without one
    keys,      \* the members that api_keys.created_by names
    audit,     \* the members that audit_log.actor_member_id names
    auditing,  \* the goroutines of writeAuditLog, by their actor
    removed,   \* history: the members some request reported as removed
    failed,    \* history: those of them whose DELETE went wrong
    ousted,    \* history: a request has removed or demoted an administrator
    lastId, requests

subjects == <<tokens, dev>>
refs     == <<keys, audit, auditing>>
history  == <<removed, failed, ousted>>
bounds   == <<lastId, requests>>
vars == <<members, org, job, subjects, refs, history, bounds>>

Init ==
    /\ members = [e \in Emails |-> NoRow] /\ org = NoHandler
    /\ job = [h \in Handlers |-> Idle]
    /\ tokens = {} /\ dev = 0 /\ keys = {} /\ audit = {} /\ auditing = {}
    /\ removed = {} /\ failed = {} /\ ousted = FALSE
    /\ lastId = 0 /\ requests = 0

-----------------------------------------------------------------------------
Present   == {e \in Emails : members[e] # NoRow}
MemberIds == {members[e].id : e \in Present}
AdminIds  == {members[e].id : e \in {f \in Present : members[f].role = "admin"}}

OrgFree == org = NoHandler
(* No other transaction has inserted or locked the row of that e-mail.     *)
RowFree(h, e) ==
    \A g \in Handlers \ {h} : job[g].row # NoRow => job[g].email # e

At(h, at) == job[h].pc = at
Go(h, to) == job' = [job EXCEPT ![h].pc = to]
Finish(h) == job' = [job EXCEPT ![h] = Idle]

Arrive(h, j) ==
    /\ At(h, "idle") /\ job' = [job EXCEPT ![h] = j]
    /\ requests < MaxRequests /\ requests' = requests + 1
    /\ UNCHANGED <<members, org, subjects, refs, history, lastId>>

(* OIDCCallback signs Claims whose embedded RegisteredClaims have the id   *)
(* of the member as Subject.  The field Subject of Claims itself hides it  *)
(* and is empty: what is signed has the subject ''.                        *)
Subject(i) == IF SubjectSigned THEN i ELSE 0

(* JWTMiddleware: the token has not expired; nothing is looked up.         *)
(* DevClaimsMiddleware: every request of the server has its member.        *)
Subjects == tokens \cup ({dev} \ {0})
WithClaims(j, i) == [j EXCEPT !.actor = i]

Expire(i) ==
    /\ tokens' = tokens \ {i}
    /\ UNCHANGED <<members, org, job, dev, refs, history, bounds>>

(* The goroutine of writeAuditLog.  Its INSERT waits for the row of the    *)
(* organisation and needs the one of the actor; its errors are ignored.    *)
AuditInsert(i) ==
    /\ auditing' = auditing \ {i}
    /\ \/ OrgFree /\ i \in MemberIds /\ audit' = audit \cup {i}
       \/ UNCHANGED audit
    /\ UNCHANGED <<members, org, job, subjects, keys, history, bounds>>

-----------------------------------------------------------------------------
(* OIDCCallback, after the identity provider has vouched for the e-mail.   *)
Login(h, e) == Arrive(h, [Idle EXCEPT !.pc = "upsert", !.email = e])

(* Begin, the upsert of the organisation and SELECT ... FOR UPDATE: the    *)
(* first of them to reach the row locks it.                                *)
LoginUpsertUnlocked(h) ==      \* mutant: DO NOTHING, and no FOR UPDATE
    /\ At(h, "upsert") /\ Go(h, "count")
    /\ UNCHANGED <<members, org, subjects, refs, history, bounds>>
LoginUpsert(h) ==
    /\ At(h, "upsert") /\ OrgFree
    /\ org' = h /\ Go(h, "count")
    /\ UNCHANGED <<members, subjects, refs, history, bounds>>

LoginCount(h) ==
    /\ At(h, "count")
    /\ job' = [job EXCEPT ![h].pc = "insert",
                   ![h].role = IF Present = {} THEN "admin" ELSE "developer"]
    /\ UNCHANGED <<members, org, subjects, refs, history, bounds>>

(* INSERT ... ON CONFLICT DO UPDATE of the name: a row that is there is    *)
(* locked and keeps its role.                                              *)
NewRow(role, first) == [id |-> lastId + 1, role |-> role, first |-> first]
LoginInsertSetsRole(h) ==      \* mutant: SET role = EXCLUDED.role as well
    LET e == job[h].email
        new == members[e] = NoRow IN
    /\ At(h, "insert") /\ RowFree(h, e)
    /\ job' = [job EXCEPT ![h].pc = "commit", ![h].row =
          IF new THEN NewRow(job[h].role, job[h].role = "admin")
          ELSE [members[e] EXCEPT !.role = job[h].role, !.first = FALSE]]
    /\ lastId' = IF new THEN lastId + 1 ELSE lastId
    /\ UNCHANGED <<members, org, subjects, refs, history, requests>>
LoginInsert(h) ==
    LET e == job[h].email
        new == members[e] = NoRow IN
    /\ At(h, "insert") /\ RowFree(h, e)
    /\ job' = [job EXCEPT ![h].pc = "commit", ![h].row =
          IF new THEN NewRow(job[h].role, job[h].role = "admin")
          ELSE members[e]]
    /\ lastId' = IF new THEN lastId + 1 ELSE lastId
    /\ UNCHANGED <<members, org, subjects, refs, history, requests>>

LoginCommitKeepsOrg(h) ==      \* mutant: the transaction is left open
    /\ At(h, "commit")
    /\ members' = [members EXCEPT ![job[h].email] = job[h].row]
    /\ tokens' = tokens \cup {Subject(job[h].row.id)}
    /\ Finish(h)
    /\ UNCHANGED <<org, dev, refs, history, bounds>>
LoginCommit(h) ==
    /\ At(h, "commit")
    /\ members' = [members EXCEPT ![job[h].email] = job[h].row]
    /\ tokens' = tokens \cup {Subject(job[h].row.id)}
    /\ org' = NoHandler /\ Finish(h)
    /\ UNCHANGED <<dev, refs, history, bounds>>

(* The deferred Rollback: a statement fails, the client goes away, or the  *)
(* request's thirty seconds are over.  A server in dev mode that cannot    *)
(* provision its member ends.                                              *)
AbortKeepsTx(h) ==             \* mutant: no deferred Rollback
    /\ job[h].pc \in {"upsert"} \cup LoginTx \cup DevPC /\ Finish(h)
    /\ UNCHANGED <<members, org, subjects, refs, history, bounds>>
Abort(h) ==
    /\ job[h].pc \in {"upsert"} \cup LoginTx \cup DevPC /\ Finish(h)
    /\ org' = IF org = h THEN NoHandler ELSE org
    /\ UNCHANGED <<members, subjects, refs, history, bounds>>

-----------------------------------------------------------------------------
(* RequireRole("admin") looks the subject of the claims up by its id.      *)
Passes(h, to) == IF job[h].actor \in AdminIds THEN Go(h, to) ELSE Finish(h)

RequireRole(h) ==
    /\ \/ At(h, "inviteRole") /\ Passes(h, "inviterOrg")
       \/ At(h, "removeRole") /\ Passes(h, "targetOrg")
    /\ UNCHANGED <<members, org, subjects, refs, history, bounds>>

(* InviteMember.                                                           *)
Invite(h, i, e, r) ==
    Arrive(h, WithClaims([Idle EXCEPT !.pc = "inviteRole", !.email = e,
                                     !.role = r], i))

(* The error is ignored: without an organisation the INSERT will fail.     *)
InviterOrg(h) ==
    /\ At(h, "inviterOrg")
    /\ IF job[h].actor \in MemberIds THEN Go(h, "invite") ELSE Finish(h)
    /\ UNCHANGED <<members, org, subjects, refs, history, bounds>>

(* INSERT ... ON CONFLICT DO UPDATE of the role.  A row that is there is   *)
(* updated at once; a new one is inserted, and then the foreign key waits  *)
(* for the row of the organisation.                                        *)
InviteExisting(h) ==
    LET e == job[h].email IN
    /\ At(h, "invite") /\ RowFree(h, e) /\ members[e] # NoRow
    /\ members' = [members EXCEPT ![e].role = job[h].role, ![e].first = FALSE]
    /\ ousted' = (ousted \/ (members[e].role = "admin"
                                 /\ job[h].role # "admin"))
    /\ auditing' = auditing \cup {job[h].actor}
    /\ Finish(h)
    /\ UNCHANGED <<org, subjects, keys, audit, removed, failed, bounds>>

InviteNew(h) ==
    LET e == job[h].email IN
    /\ At(h, "invite") /\ RowFree(h, e) /\ members[e] = NoRow
    /\ lastId' = lastId + 1
    /\ job' = [job EXCEPT ![h].pc = "fkOrg",
                   ![h].row = NewRow(job[h].role, FALSE)]
    /\ UNCHANGED <<members, org, subjects, refs, history, requests>>

InviteCommit(h) ==
    /\ At(h, "fkOrg") /\ OrgFree
    /\ members' = [members EXCEPT ![job[h].email] = job[h].row]
    /\ auditing' = auditing \cup {job[h].actor}
    /\ Finish(h)
    /\ UNCHANGED <<org, subjects, keys, audit, history, bounds>>

(* A login holds the organisation and waits for the row an invitation or a *)
(* server in dev mode has inserted, which waits for the organisation:      *)
(* Postgres ends one of them.                                              *)
Deadlocked(h, g) ==
    /\ job[h].pc = "insert" /\ job[g].pc \in {"fkOrg", "devOrg"}
    /\ job[h].email = job[g].email
DeadlockDetected(h, g) ==
    /\ Deadlocked(h, g)
    /\ \/ Finish(h) /\ org' = NoHandler
       \/ Finish(g) /\ UNCHANGED org
    /\ UNCHANGED <<members, subjects, refs, history, bounds>>

-----------------------------------------------------------------------------
(* RemoveMember, of a member somebody has seen in the table.  The target's *)
(* organisation is for the audit log only, which needs one.                *)
Remove(h, i, t) ==
    /\ \A g \in Handlers : job[g].row # NoRow /\ job[g].row.id = t
                              => t \in MemberIds
    /\ Arrive(h, WithClaims([Idle EXCEPT !.pc = "removeRole", !.target = t], i))

TargetOrg(h) ==
    /\ At(h, "targetOrg")
    /\ job' = [job EXCEPT ![h].pc = "caller",
                          ![h].found = job[h].target \in MemberIds]
    /\ UNCHANGED <<members, org, subjects, refs, history, bounds>>

Caller(h) ==
    /\ At(h, "caller")
    /\ IF job[h].actor \in AdminIds THEN Go(h, "delete") ELSE Finish(h)
    /\ UNCHANGED <<members, org, subjects, refs, history, bounds>>

(* DELETE FROM members: keys and audit entries of the member, whose        *)
(* foreign keys have no ON DELETE, make it fail.  Its error is logged, and *)
(* the answer is "removed" all the same.                                   *)
Referenced(t) == t \in keys \cup audit
Delete(t) == members' = [e \in Emails |->
                 IF e \in Present /\ members[e].id = t THEN NoRow
                 ELSE members[e]]
Removed(h) ==
    /\ removed' = removed \cup {job[h].target}
    /\ auditing' = IF job[h].found THEN auditing \cup {job[h].actor}
                                    ELSE auditing
    /\ Finish(h)

RemoveDeleteCascade(h) ==      \* mutant: as if no foreign key named members
    /\ At(h, "delete") /\ Delete(job[h].target) /\ Removed(h)
    /\ UNCHANGED <<org, subjects, keys, audit, failed, ousted, bounds>>
RemoveDeleteSparesAdmins(h) == \* mutant: AND role <> 'admin'
    LET t == job[h].target IN
    /\ At(h, "delete")
    /\ IF Referenced(t) \/ t \in AdminIds THEN UNCHANGED members ELSE Delete(t)
    /\ Removed(h)
    /\ UNCHANGED <<org, subjects, keys, audit, failed, ousted, bounds>>
RemoveDelete(h) ==
    LET t == job[h].target IN
    /\ At(h, "delete")
    /\ \A e \in Present : members[e].id = t => RowFree(h, e)
    /\ IF Referenced(t) THEN UNCHANGED <<members, ousted>>
       ELSE Delete(t) /\ ousted' = (ousted \/ t \in AdminIds)
    /\ Removed(h)
    /\ UNCHANGED <<org, subjects, keys, audit, failed, bounds>>

RemoveFails(h) ==
    /\ At(h, "delete") /\ Removed(h)
    /\ failed' = failed \cup {job[h].target}
    /\ UNCHANGED <<members, org, subjects, keys, audit, ousted, bounds>>

-----------------------------------------------------------------------------
(* CreateAPIKey, for what refers to its creator.                           *)
CreateKey(h, i) == Arrive(h, WithClaims([Idle EXCEPT !.pc = "member"], i))

ReadMember(h) ==
    /\ At(h, "member")
    /\ IF job[h].actor \in MemberIds THEN Go(h, "key") ELSE Finish(h)
    /\ UNCHANGED <<members, org, subjects, refs, history, bounds>>

InsertKey(h) ==
    LET i == job[h].actor IN
    /\ At(h, "key") /\ OrgFree
    /\ IF i \in MemberIds
       THEN keys' = keys \cup {i} /\ auditing' = auditing \cup {i}
       ELSE UNCHANGED <<keys, auditing>>
    /\ Finish(h)
    /\ UNCHANGED <<members, org, subjects, audit, history, bounds>>

-----------------------------------------------------------------------------
(* The start of a server in dev mode: provisionDevUser makes its member an *)
(* administrator of this organisation, which is the 'Dev Org' or the one   *)
(* that SELECT ... LIMIT 1 finds.  Its INSERT is that of an invitation.    *)
DevStart(h, e) ==
    /\ dev = 0
    /\ Arrive(h, [Idle EXCEPT !.pc = "devInsert", !.email = e,
                              !.role = "admin"])

DevExisting(h) ==
    LET e == job[h].email IN
    /\ At(h, "devInsert") /\ RowFree(h, e) /\ members[e] # NoRow
    /\ members' = [members EXCEPT ![e].role = job[h].role, ![e].first = FALSE]
    /\ dev' = members[e].id
    /\ Finish(h)
    /\ UNCHANGED <<org, tokens, refs, history, bounds>>

DevNew(h) ==
    LET e == job[h].email IN
    /\ At(h, "devInsert") /\ RowFree(h, e) /\ members[e] = NoRow
    /\ lastId' = lastId + 1
    /\ job' = [job EXCEPT ![h].pc = "devOrg",
                   ![h].row = NewRow(job[h].role, FALSE)]
    /\ UNCHANGED <<members, org, subjects, refs, history, requests>>

DevCommit(h) ==
    /\ At(h, "devOrg") /\ OrgFree
    /\ members' = [members EXCEPT ![job[h].email] = job[h].row]
    /\ dev' = job[h].row.id
    /\ Finish(h)
    /\ UNCHANGED <<org, tokens, refs, history, bounds>>

(* The servers' processes end, with their goroutines and transactions.     *)
Restart ==
    /\ job' = [h \in Handlers |-> Idle] /\ org' = NoHandler
    /\ auditing' = {} /\ dev' = 0
    /\ job # job' \/ auditing # {} \/ dev # 0
    /\ UNCHANGED <<members, tokens, keys, audit, history, bounds>>

-----------------------------------------------------------------------------
LoginStep(h)  == LoginUpsert(h) \/ LoginCount(h) \/ LoginInsert(h)
                     \/ LoginCommit(h)
InviteStep(h) == InviterOrg(h) \/ InviteExisting(h) \/ InviteNew(h)
                     \/ InviteCommit(h)
RemoveStep(h) == TargetOrg(h) \/ Caller(h) \/ RemoveDelete(h)
                     \/ RemoveFails(h)
KeyStep(h)    == ReadMember(h) \/ InsertKey(h)
DevStep(h)    == DevExisting(h) \/ DevNew(h) \/ DevCommit(h)
HandlerStep(h) ==
    \/ LoginStep(h) \/ RequireRole(h) \/ InviteStep(h) \/ RemoveStep(h)
    \/ KeyStep(h) \/ DevStep(h) \/ \E g \in Handlers : DeadlockDetected(h, g)

Request(h) ==
    \/ \E e \in Emails : Login(h, e)
    \/ \E e \in DevEmails : DevStart(h, e)
    \/ \E i \in Subjects : \/ CreateKey(h, i)
                           \/ \E e \in Emails, r \in Roles : Invite(h, i, e, r)
                           \/ \E t \in 1..lastId : Remove(h, i, t)

Next ==
    \/ \E h \in Handlers : Request(h) \/ HandlerStep(h) \/ Abort(h)
    \/ \E i \in tokens : Expire(i)
    \/ \E i \in auditing : AuditInsert(i)
    \/ Restart

Spec == Init /\ [][Next]_vars

(* A handler whose statement can go on goes on, and Postgres detects       *)
(* deadlocks.  Nobody has to ask anything, and nothing has to fail.        *)
FairSpec == Spec /\ \A h \in Handlers : WF_vars(HandlerStep(h))

-----------------------------------------------------------------------------
(* The types; the row of the organisation is locked exactly by a login     *)
(* that is past the upsert, so that logins count and insert one at a time. *)
TypeOK ==
    /\ members \in [Emails -> Row \cup {NoRow}]
    /\ job \in [Handlers -> Job]
    /\ org \in Handlers \cup {NoHandler}
    /\ \A h \in Handlers : job[h].pc \in LoginTx <=> org = h
    /\ tokens \subseteq Ids \cup {0} /\ dev \in Ids \cup {0}
    /\ ousted \in BOOLEAN
    /\ keys \subseteq Ids /\ audit \subseteq Ids
    /\ auditing \subseteq Ids /\ removed \subseteq Ids /\ failed \subseteq Ids
    /\ lastId \in Nat /\ requests \in 0..MaxRequests

(* Only the first login of a domain makes an administrator: when one adds  *)
(* such a member, nobody was a member yet, though logins and invitations   *)
(* race between its count and its commit.                                  *)
OnlyFirstIsAdmin ==
    [][\A e \in Emails :
          /\ members'[e] # NoRow /\ members'[e].first
          /\ members[e] # members'[e]
          => Present = {}]_vars

(* Keys and audit entries name members that are there, whatever order      *)
(* removals and the audit log's late goroutines take.                      *)
Attributable == keys \cup audit \subseteq MemberIds

(* A member reported as removed is gone, also when a login was under way,  *)
(* unless the DELETE failed: then a key or an audit entry refers to it, or *)
(* the statement went wrong.                                               *)
RemovedOrReferenced ==
    \A i \in removed : i \in MemberIds => Referenced(i) \/ i \in failed

(* An organisation that has members has an administrator, whatever logins, *)
(* invitations and removals race with each other, until a request removes  *)
(* or demotes one: nobody loses the role by logging in again, and no login *)
(* that is not the first can leave members without anybody to administer   *)
(* them.                                                                   *)
AdminUnlessOusted == Present # {} => AdminIds # {} \/ ousted

(* Every request is answered, although logins and invitations lock the     *)
(* rows of the organisation and of a member in opposite orders.            *)
RequestsEnd ==
    \A h \in Handlers : job[h].pc # "idle" ~> job[h].pc = "idle"
=============================================================================
