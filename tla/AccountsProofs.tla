--------------------------- MODULE AccountsProofs ---------------------------
(***************************************************************************)
(* Accounts: the types, and what logins, invitations, removals and keys    *)
(* may do to each other, for any number of people, handlers and requests.  *)
(***************************************************************************)
EXTENDS Accounts, TLAPS

(* What makes TypeOK inductive: a handler carries what its step needs.     *)
AddPC    == {"upsert", "devInsert", "devOrg"} \cup LoginTx
ActingPC == {"inviterOrg", "invite", "fkOrg", "targetOrg", "caller", "delete",
             "key"}
Shape(h) ==
    /\ job[h].row # NoRow <=> job[h].pc \in {"commit", "fkOrg", "devOrg"}
    /\ job[h].pc \in AddPC \cup InvitePC => job[h].email \in Emails
    /\ job[h].pc \in ActingPC => job[h].actor \in Ids
    /\ job[h].pc \in RemovePC => job[h].target \in Ids

Typed == TypeOK /\ \A h \in Handlers : Shape(h)

(* A step of one handler, which may take or release the organisation.      *)
LEMMA TypedStep ==
    ASSUME Typed, NEW h \in Handlers, NEW j \in Job,
           job' = [job EXCEPT ![h] = j],
           members' \in [Emails -> Row \cup {NoRow}],
           \/ UNCHANGED org
           \/ org = h /\ org' = NoHandler
           \/ org = NoHandler /\ org' = h,
           j.pc \in LoginTx <=> org' = h,
           tokens' \subseteq Ids \cup {0}, dev' \in Ids \cup {0},
           ousted' \in BOOLEAN, keys' \subseteq Ids, audit' \subseteq Ids,
           auditing' \subseteq Ids, removed' \subseteq Ids,
           failed' \subseteq Ids,
           lastId' \in Nat, requests' \in 0..MaxRequests,
           j.row # NoRow <=> j.pc \in {"commit", "fkOrg", "devOrg"},
           j.pc \in AddPC \cup InvitePC => j.email \in Emails,
           j.pc \in ActingPC => j.actor \in Ids,
           j.pc \in RemovePC => j.target \in Ids
    PROVE  Typed'
<1>1. /\ job \in [Handlers -> Job] /\ job' \in [Handlers -> Job]
      /\ job'[h] = j /\ \A g \in Handlers \ {h} : job'[g] = job[g]
      BY DEF Typed, TypeOK
<1>2. \A g \in Handlers : job'[g].pc \in LoginTx <=> org' = g
      BY <1>1, AccountsAssumption DEF Typed, TypeOK
<1>3. org' \in Handlers \cup {NoHandler}
      BY DEF Typed, TypeOK
<1>4. TypeOK'
      BY <1>1, <1>2, <1>3 DEF TypeOK
<1>5. ASSUME NEW g \in Handlers PROVE Shape(g)'
      <2>1. CASE g = h
            BY <1>1, <2>1 DEF Shape
      <2>2. CASE g # h
            BY <1>1, <2>2 DEF Shape, Typed
      <2> QED BY <2>1, <2>2
<1> QED BY <1>4, <1>5 DEF Typed

LEMMA TypedInit == Init => Typed
<1> SUFFICES ASSUME Init PROVE Typed
    OBVIOUS
<1>1. \A h \in Handlers : job[h] = Idle
      BY DEF Init
<1>2. Idle \in Job
      BY DEF Idle, Job, PCs, Roles
<1>3. TypeOK
      <2>1. \A h \in Handlers : job[h].pc \in LoginTx <=> org = h
            BY <1>1, AccountsAssumption DEF Init, Idle, LoginTx
      <2>2. ousted \in BOOLEAN
            BY DEF Init
      <2>3. /\ members \in [Emails -> Row \cup {NoRow}]
            /\ job \in [Handlers -> Job]
            BY <1>2 DEF Init
      <2> QED BY <2>1, <2>2, <2>3, AccountsAssumption DEF Init, TypeOK
<1>4. \A h \in Handlers : Shape(h)
      BY <1>1 DEF Shape, Idle, AddPC, ActingPC, LoginTx, InvitePC, RemovePC
<1> QED BY <1>3, <1>4 DEF Typed

LEMMA NewRowType ==
    ASSUME lastId \in Nat, NEW r \in Roles, NEW f \in BOOLEAN
    PROVE  NewRow(r, f) \in Row /\ NewRow(r, f) # NoRow
BY AccountsAssumption DEF NewRow, Row, Ids

LEMMA ClaimsJob ==
    ASSUME NEW j \in Job, NEW i \in Ids \cup {0}
    PROVE  /\ WithClaims(j, i) \in Job
           /\ WithClaims(j, i).pc = j.pc /\ WithClaims(j, i).email = j.email
           /\ WithClaims(j, i).row = j.row
           /\ WithClaims(j, i).target = j.target
           /\ WithClaims(j, i).role = j.role
           /\ WithClaims(j, i).actor = i
BY DEF WithClaims, Job

LEMMA TypedNext == Typed /\ [Next]_vars => Typed'
<1> SUFFICES ASSUME Typed, [Next]_vars PROVE Typed'
    OBVIOUS
<1>0. /\ members \in [Emails -> Row \cup {NoRow}]
      /\ job \in [Handlers -> Job] /\ org \in Handlers \cup {NoHandler}
      /\ tokens \subseteq Ids \cup {0} /\ dev \in Ids \cup {0}
      /\ Subjects \subseteq Ids \cup {0} /\ ousted \in BOOLEAN
      /\ keys \subseteq Ids /\ audit \subseteq Ids
      /\ auditing \subseteq Ids /\ removed \subseteq Ids /\ failed \subseteq Ids
      /\ lastId \in Nat /\ requests \in 0..MaxRequests
      /\ \A h \in Handlers : job[h].pc \in LoginTx <=> org = h
      BY DEF Typed, TypeOK, Subjects
<1>p. ASSUME NEW h \in Handlers
      PROVE  /\ job[h] \in Job /\ Shape(h)
             /\ job[h].pc \in PCs /\ job[h].actor \in Ids \cup {0}
             /\ job[h].email \in Emails \cup {NoEmail}
             /\ job[h].role \in Roles /\ job[h].target \in Ids \cup {0}
             /\ job[h].found \in BOOLEAN /\ job[h].row \in Row \cup {NoRow}
      BY <1>p, <1>0 DEF Typed, Job
<1>i. /\ Idle \in Job /\ Idle.pc = "idle" /\ Idle.row = NoRow
      BY DEF Idle, Job, PCs, Roles
<1>n. NoHandler \notin Handlers
      BY AccountsAssumption
<1>u. /\ UNCHANGED refs <=> UNCHANGED <<keys, audit, auditing>>
      /\ UNCHANGED subjects <=> UNCHANGED <<tokens, dev>>
      /\ UNCHANGED history <=> UNCHANGED <<removed, failed, ousted>>
      BY DEF refs, subjects, history
<1>b. UNCHANGED bounds <=> UNCHANGED <<lastId, requests>>
      BY DEF bounds
(* Steps after which the handler is idle, and holds nothing.               *)
<1>f. ASSUME NEW h \in Handlers, Finish(h),
             members' \in [Emails -> Row \cup {NoRow}],
             \/ UNCHANGED org /\ org # h
             \/ org = h /\ org' = NoHandler,
             tokens' \subseteq Ids \cup {0}, dev' \in Ids \cup {0},
             ousted' \in BOOLEAN, keys' \subseteq Ids, audit' \subseteq Ids,
             auditing' \subseteq Ids, removed' \subseteq Ids,
             failed' \subseteq Ids, UNCHANGED bounds
      PROVE  Typed'
      <2>1. Idle.pc \notin AddPC \cup InvitePC \cup RemovePC \cup ActingPC
                            \cup {"commit", "fkOrg", "devOrg"}
            BY <1>i DEF AddPC, ActingPC, LoginTx, InvitePC, RemovePC
      <2> QED
          BY <1>f, <1>0, <1>i, <1>n, <1>b, <2>1, TypedStep DEF Finish, AddPC
(* Steps that only move the handler's pc.                                  *)
<1>g. ASSUME NEW h \in Handlers, NEW to \in PCs, Go(h, to),
             to \notin {"commit", "fkOrg", "devOrg"}, job[h].row = NoRow,
             \/ UNCHANGED org
             \/ org = NoHandler /\ org' = h,
             to \in LoginTx <=> org' = h,
             to \in AddPC \cup InvitePC => job[h].email \in Emails,
             to \in ActingPC => job[h].actor \in Ids,
             to \in RemovePC => job[h].target \in Ids,
             UNCHANGED <<members, subjects, refs, history, bounds>>
      PROVE  Typed'
      <2> DEFINE j == [job[h] EXCEPT !.pc = to]
      <2>1. /\ j \in Job /\ j.pc = to /\ j.row = job[h].row
            /\ j.email = job[h].email /\ j.actor = job[h].actor
            /\ j.target = job[h].target
            BY <1>p DEF Job
      <2>2. job' = [job EXCEPT ![h] = j]
            BY <1>g DEF Go
      <2> HIDE DEF j
      <2> QED BY <1>g, <1>0, <1>u, <1>b, <2>1, <2>2, TypedStep
<1> HIDE DEF Typed
<1>1. ASSUME NEW h \in Handlers, Request(h) PROVE Typed'
      <2>a. ASSUME NEW j \in Job, Arrive(h, j), j.row = NoRow,
                   j.pc \in PCs \ LoginTx,
                   j.pc \notin {"commit", "fkOrg", "devOrg"},
                   j.pc \in AddPC \cup InvitePC => j.email \in Emails,
                   j.pc \notin ActingPC,
                   j.pc \in RemovePC => j.target \in Ids
            PROVE  Typed'
            <3>1. job[h].pc = "idle" /\ org # h
                  BY <2>a, <1>0, <1>1 DEF Arrive, At, LoginTx
            <3>2. requests' \in 0..MaxRequests
                  BY <2>a, <1>0, AccountsAssumption DEF Arrive
            <3> QED BY <2>a, <1>0, <1>u, <3>1, <3>2, TypedStep DEF Arrive
      <2>1. ASSUME NEW e \in Emails, Login(h, e) PROVE Typed'
            <3> DEFINE j == [Idle EXCEPT !.pc = "upsert", !.email = e]
            <3>1. /\ j \in Job /\ j.row = NoRow /\ j.pc = "upsert"
                  /\ j.email = e
                  BY DEF Idle, Job, PCs, Roles
            <3>2. Arrive(h, j)
                  BY <2>1 DEF Login
            <3> HIDE DEF j
            <3> QED BY <2>a, <3>1, <3>2
                    DEF PCs, LoginTx, AddPC, ActingPC, InvitePC, RemovePC
      <2>2. ASSUME NEW i \in Subjects, CreateKey(h, i) PROVE Typed'
            <3> DEFINE j0 == [Idle EXCEPT !.pc = "member"]
                       j == WithClaims(j0, i)
            <3>j. /\ j0 \in Job /\ j0.pc = "member" /\ j0.row = NoRow
                  BY DEF Idle, Job, PCs, Roles
            <3> HIDE DEF j0
            <3>1. /\ j \in Job /\ j.row = NoRow /\ j.pc = "member"
                  /\ j.actor = i
                  BY <1>0, <3>j, ClaimsJob
            <3>2. Arrive(h, j)
                  BY <2>2 DEF CreateKey, j0
            <3> HIDE DEF j
            <3> QED BY <2>a, <3>1, <3>2
                    DEF PCs, LoginTx, AddPC, ActingPC, InvitePC, RemovePC
      <2>3. ASSUME NEW i \in Subjects, NEW e \in Emails, NEW r \in Roles,
                   Invite(h, i, e, r)
            PROVE  Typed'
            <3> DEFINE j0 == [Idle EXCEPT !.pc = "inviteRole",
                                           !.email = e, !.role = r]
                       j == WithClaims(j0, i)
            <3>j. /\ j0 \in Job /\ j0.pc = "inviteRole" /\ j0.row = NoRow /\ j0.email = e
                  BY DEF Idle, Job, PCs, Roles, InvitePC
            <3> HIDE DEF j0
            <3>1. /\ j \in Job /\ j.row = NoRow /\ j.pc = "inviteRole"
                  /\ j.actor = i /\ j.email = e
                  BY <1>0, <3>j, ClaimsJob
            <3>2. Arrive(h, j)
                  BY <2>3 DEF Invite, j0
            <3> HIDE DEF j
            <3> QED BY <2>a, <3>1, <3>2
                    DEF PCs, LoginTx, AddPC, ActingPC, InvitePC, RemovePC
      <2>4. ASSUME NEW i \in Subjects, NEW t \in 1..lastId, Remove(h, i, t)
            PROVE  Typed'
            <3> DEFINE j0 == [Idle EXCEPT !.pc = "removeRole",
                                           !.target = t]
                       j == WithClaims(j0, i)
            <3>0. t \in Ids
                  BY <1>0 DEF Ids
            <3>j. /\ j0 \in Job /\ j0.pc = "removeRole" /\ j0.row = NoRow /\ j0.target = t
                  BY <3>0 DEF Idle, Job, PCs, Roles, RemovePC
            <3> HIDE DEF j0
            <3>1. /\ j \in Job /\ j.row = NoRow /\ j.pc = "removeRole"
                  /\ j.actor = i /\ j.target = t
                  BY <1>0, <3>0, <3>j, ClaimsJob
            <3>2. Arrive(h, j)
                  BY <2>4 DEF Remove, j0
            <3> HIDE DEF j
            <3> QED BY <2>a, <3>0, <3>1, <3>2
                    DEF PCs, LoginTx, AddPC, ActingPC, InvitePC, RemovePC
      <2>5. ASSUME NEW e \in Emails, DevStart(h, e) PROVE Typed'
            <3> DEFINE j == [Idle EXCEPT !.pc = "devInsert", !.email = e,
                                         !.role = "admin"]
            <3>1. /\ j \in Job /\ j.row = NoRow /\ j.pc = "devInsert"
                  /\ j.email = e
                  BY DEF Idle, Job, PCs, Roles, DevPC
            <3>2. Arrive(h, j)
                  BY <2>5 DEF DevStart
            <3> HIDE DEF j
            <3> QED BY <2>a, <3>1, <3>2
                    DEF PCs, DevPC, LoginTx, ActingPC, InvitePC, RemovePC
      <2> QED BY <1>1, <2>1, <2>2, <2>3, <2>4, <2>5, AccountsAssumption
              DEF Request
<1>2. ASSUME NEW h \in Handlers, LoginStep(h) PROVE Typed'
      <2>1. CASE LoginUpsert(h)
            BY <2>1, <1>0, <1>p, <1>g, <1>2
               DEF LoginUpsert, At, OrgFree, Shape, PCs, AddPC, ActingPC,
                   LoginTx, InvitePC, RemovePC
      <2>2. CASE LoginCount(h)
            <3> DEFINE r == IF Present = {} THEN "admin" ELSE "developer"
                       j == [job[h] EXCEPT !.pc = "insert", !.role = r]
            <3>1. /\ j \in Job /\ j.pc = "insert" /\ j.row = job[h].row
                  /\ j.email = job[h].email
                  BY <1>p, <1>2 DEF Job, PCs, LoginTx, Roles
            <3>2. job' = [job EXCEPT ![h] = j]
                  BY <2>2 DEF LoginCount
            <3>3. /\ job[h].pc = "count" /\ org = h /\ org' = h
                  /\ job[h].row = NoRow /\ job[h].email \in Emails
                  BY <2>2, <1>0, <1>p, <1>2
                     DEF LoginCount, At, LoginTx, AddPC, Shape
            <3>4. UNCHANGED <<members, org, tokens, dev, keys, audit, auditing,
                              removed, failed, ousted, lastId, requests>>
                  BY <2>2, <1>u, <1>b DEF LoginCount
            <3> HIDE DEF j
            <3> QED
                BY <1>0, <3>1, <3>2, <3>3, <3>4, <1>2, TypedStep
                   DEF LoginTx, ActingPC, InvitePC, RemovePC
      <2>3. CASE LoginInsert(h)
            <3> DEFINE e == job[h].email
                       r == IF members[e] = NoRow
                            THEN NewRow(job[h].role, job[h].role = "admin")
                            ELSE members[e]
                       j == [job[h] EXCEPT !.pc = "commit", !.row = r]
            <3>1. /\ job[h].pc = "insert" /\ org = h /\ org' = h
                  /\ e \in Emails
                  BY <2>3, <1>0, <1>p, <1>2
                     DEF LoginInsert, At, LoginTx, AddPC, Shape
            <3>2. r \in Row /\ r # NoRow
                  BY <3>1, <1>0, <1>p, <1>2, NewRowType, AccountsAssumption
            <3>3. job' = [job EXCEPT ![h] = j]
                  BY <2>3 DEF LoginInsert
            <3> HIDE DEF r
            <3>4. /\ j \in Job /\ j.pc = "commit" /\ j.row = r /\ j.email = e
                  BY <3>2, <1>p, <1>2 DEF Job, PCs, LoginTx
            <3>5. lastId' \in Nat
                  BY <2>3, <1>0 DEF LoginInsert
            <3>6. UNCHANGED <<members, org, tokens, dev, keys, audit, auditing,
                              removed, failed, ousted, requests>>
                  BY <2>3, <1>u DEF LoginInsert
            <3> HIDE DEF e, j
            <3> QED
                BY <1>0, <3>1, <3>2, <3>3, <3>4, <3>5, <3>6, <1>2, TypedStep
                   DEF LoginTx, ActingPC, InvitePC, RemovePC
      <2>4. CASE LoginCommit(h)
            <3>1. /\ job[h].pc = "commit" /\ org = h /\ job[h].row \in Row
                  BY <2>4, <1>0, <1>p, <1>2
                     DEF LoginCommit, At, LoginTx, Shape
            <3>2. /\ members' \in [Emails -> Row \cup {NoRow}]
                  /\ tokens' \subseteq Ids \cup {0}
                  BY <2>4, <1>0, <3>1 DEF LoginCommit, Row, Subject
            <3> QED BY <2>4, <1>0, <1>2, <1>f, <1>u, <3>1, <3>2
                    DEF LoginCommit
      <2> QED BY <1>2, <2>1, <2>2, <2>3, <2>4 DEF LoginStep
<1>3. ASSUME NEW h \in Handlers, RequireRole(h) PROVE Typed'
      <2>0. /\ job[h].pc \in {"inviteRole", "removeRole"} /\ org # h
            /\ job[h].row = NoRow
            BY <1>0, <1>p, <1>3
               DEF RequireRole, At, LoginTx, Shape, InvitePC, RemovePC
      <2>1. CASE Finish(h)
            BY <2>0, <2>1, <1>0, <1>3, <1>f, <1>u DEF RequireRole
      <2>2. CASE At(h, "inviteRole") /\ Go(h, "inviterOrg") /\ job[h].actor \in Ids
            BY <2>0, <2>2, <1>0, <1>p, <1>g, <1>3
               DEF RequireRole, At, PCs, Shape, AddPC, ActingPC, LoginTx,
                   InvitePC, RemovePC
      <2>3. CASE At(h, "removeRole") /\ Go(h, "targetOrg") /\ job[h].actor \in Ids
            BY <2>0, <2>3, <1>0, <1>p, <1>g, <1>3
               DEF RequireRole, At, PCs, Shape, AddPC, ActingPC, LoginTx,
                   InvitePC, RemovePC
      <2>4. AdminIds \subseteq Ids
            BY <1>0 DEF AdminIds, Present, Row
      <2> QED BY <1>3, <2>1, <2>2, <2>3, <2>4 DEF RequireRole, Passes
<1>4. ASSUME NEW h \in Handlers, InviteStep(h) PROVE Typed'
      <2>0. /\ job[h].pc \in InvitePC /\ org # h /\ job[h].actor \in Ids
            /\ job[h].email \in Emails
            BY <1>0, <1>p, <1>4
               DEF InviteStep, InviterOrg, InviteExisting, InviteNew,
                   InviteCommit, At, LoginTx, Shape, InvitePC, ActingPC
      <2>1. CASE InviterOrg(h)
            <3>1. job[h].row = NoRow /\ job[h].pc = "inviterOrg"
                  BY <2>1, <1>p, <1>4 DEF InviterOrg, At, Shape
            <3>2. CASE Finish(h)
                  BY <2>0, <2>1, <3>2, <1>0, <1>4, <1>f, <1>u DEF InviterOrg
            <3>3. CASE Go(h, "invite")
                  BY <2>0, <2>1, <3>1, <3>3, <1>0, <1>g, <1>4
                     DEF InviterOrg, PCs, LoginTx, InvitePC, RemovePC,
                         ActingPC
            <3> QED BY <2>1, <3>2, <3>3 DEF InviterOrg
      <2>2. CASE InviteExisting(h)
            <3>1. members' \in [Emails -> Row \cup {NoRow}]
                  <4>1. members[job[h].email] \in Row
                        BY <2>0, <2>2, <1>0 DEF InviteExisting
                  <4>2. [[members[job[h].email] EXCEPT !.role = job[h].role]
                             EXCEPT !.first = FALSE] \in Row
                        BY <4>1, <1>p, <1>4 DEF Row
                  <4>3. members' = [members EXCEPT ![job[h].email] =
                            [[members[job[h].email]
                                 EXCEPT !.role = job[h].role]
                                 EXCEPT !.first = FALSE]]
                        BY <2>2, <2>0, <1>0, <4>1, <4>2
                           DEF InviteExisting, Row
                  <4> QED BY <4>2, <4>3, <1>0
            <3>2. ousted' \in BOOLEAN
                  BY <2>2, <1>0 DEF InviteExisting
            <3>3. /\ Finish(h) /\ auditing' = auditing \cup {job[h].actor}
                  /\ UNCHANGED <<org, subjects, keys, audit, removed, failed,
                                bounds>>
                  BY <2>2 DEF InviteExisting
            <3> QED BY <2>0, <3>1, <3>2, <3>3, <1>0, <1>4, <1>u, <1>f
      <2>3. CASE InviteNew(h)
            <3> DEFINE r == NewRow(job[h].role, FALSE)
                       j == [job[h] EXCEPT !.pc = "fkOrg", !.row = r]
            <3>1. r \in Row /\ r # NoRow
                  BY <1>0, <1>p, <1>4, NewRowType
            <3>2. job' = [job EXCEPT ![h] = j]
                  BY <2>3 DEF InviteNew
            <3> HIDE DEF r
            <3>3. /\ j \in Job /\ j.pc = "fkOrg" /\ j.row = r
                  /\ j.email = job[h].email /\ j.actor = job[h].actor
                  BY <3>1, <1>p, <1>4 DEF Job, PCs, InvitePC
            <3>4. lastId' \in Nat
                  BY <2>3, <1>0 DEF InviteNew
            <3>5. UNCHANGED <<members, org, tokens, dev, keys, audit, auditing,
                              removed, failed, ousted, requests>>
                  BY <2>3, <1>u DEF InviteNew
            <3> HIDE DEF j
            <3> QED BY <2>0, <3>1, <3>2, <3>3, <3>4, <3>5, <1>0, <1>4,
                       TypedStep
                    DEF LoginTx, ActingPC, RemovePC
      <2>4. CASE InviteCommit(h)
            <3>1. job[h].row \in Row
                  BY <2>4, <1>p, <1>4 DEF InviteCommit, At, Shape
            <3>2. members' \in [Emails -> Row \cup {NoRow}]
                  BY <2>4, <3>1, <1>0 DEF InviteCommit
            <3> QED
                BY <2>0, <2>4, <3>2, <1>0, <1>4, <1>u, <1>f DEF InviteCommit
      <2> QED BY <1>4, <2>1, <2>2, <2>3, <2>4 DEF InviteStep
<1>5. ASSUME NEW h \in Handlers, RemoveStep(h) PROVE Typed'
      <2>0. /\ job[h].pc \in RemovePC /\ org # h /\ job[h].actor \in Ids
            /\ job[h].target \in Ids /\ job[h].row = NoRow
            BY <1>0, <1>p, <1>5
               DEF RemoveStep, TargetOrg, Caller, RemoveDelete, RemoveFails,
                   At, LoginTx, Shape, RemovePC, ActingPC
      <2>1. CASE TargetOrg(h)
            <3> DEFINE b == job[h].target \in MemberIds
                       j == [job[h] EXCEPT !.pc = "caller", !.found = b]
            <3>0. b \in BOOLEAN
                  OBVIOUS
            <3> HIDE DEF b
            <3>1. /\ j \in Job /\ j.pc = "caller" /\ j.row = job[h].row
                  /\ j.actor = job[h].actor /\ j.target = job[h].target
                  BY <3>0, <1>p, <1>5 DEF Job, PCs, RemovePC
            <3>2. job' = [job EXCEPT ![h] = j]
                  BY <2>1 DEF TargetOrg, b
            <3>3. UNCHANGED <<members, org, tokens, dev, keys, audit, auditing,
                              removed, failed, ousted, lastId, requests>>
                  BY <2>1, <1>u, <1>b DEF TargetOrg
            <3> HIDE DEF j
            <3> QED
                BY <2>0, <1>0, <3>1, <3>2, <3>3, <1>5, TypedStep
                   DEF LoginTx, AddPC, InvitePC
      <2>2. CASE Caller(h)
            <3>1. CASE Finish(h)
                  BY <2>0, <2>2, <3>1, <1>0, <1>5, <1>f, <1>u DEF Caller
            <3>2. CASE Go(h, "delete")
                  BY <2>0, <2>2, <3>2, <1>0, <1>g, <1>5
                     DEF Caller, PCs, AddPC, ActingPC, LoginTx, InvitePC,
                         RemovePC
            <3> QED BY <2>2, <3>1, <3>2 DEF Caller
      <2>3. CASE RemoveDelete(h)
            <3>1. members' \in [Emails -> Row \cup {NoRow}]
                  BY <2>3, <1>0 DEF RemoveDelete, Delete
            <3>2. ousted' \in BOOLEAN
                  BY <2>3, <1>0 DEF RemoveDelete
            <3>3. Removed(h) /\ UNCHANGED <<org, subjects, keys, audit, failed,
                                            bounds>>
                  BY <2>3 DEF RemoveDelete
            <3> QED BY <2>0, <3>1, <3>2, <3>3, <1>0, <1>5, <1>u, <1>f
                    DEF Removed
      <2>4. CASE RemoveFails(h)
            BY <2>0, <2>4, <1>0, <1>5, <1>u, <1>f DEF RemoveFails, Removed
      <2> QED BY <1>5, <2>1, <2>2, <2>3, <2>4 DEF RemoveStep
<1>6. ASSUME NEW h \in Handlers, KeyStep(h) PROVE Typed'
      <2>0. /\ job[h].pc \in {"member", "key"} /\ org # h
            /\ job[h].row = NoRow
            BY <1>0, <1>p, <1>6
               DEF KeyStep, ReadMember, InsertKey, At, LoginTx, Shape
      <2>1. CASE ReadMember(h)
            <3>1. CASE Finish(h)
                  BY <2>0, <2>1, <3>1, <1>0, <1>6, <1>f, <1>u DEF ReadMember
            <3>2. CASE Go(h, "key") /\ job[h].actor \in Ids
                  BY <2>0, <2>1, <3>2, <1>0, <1>g, <1>6
                     DEF ReadMember, PCs, AddPC, LoginTx, InvitePC, RemovePC
            <3>3. MemberIds \subseteq Ids
                  BY <1>0 DEF MemberIds, Present, Row
            <3> QED BY <2>1, <3>1, <3>2, <3>3 DEF ReadMember
      <2>2. CASE InsertKey(h)
            <3>1. job[h].actor \in Ids
                  BY <2>2, <1>p, <1>6 DEF InsertKey, At, Shape, ActingPC
            <3>2. /\ Finish(h)
                  /\ UNCHANGED <<members, org, tokens, dev, audit, removed,
                                failed, ousted, bounds>>
                  BY <2>2, <1>u DEF InsertKey
            <3>3. keys' \subseteq Ids /\ auditing' \subseteq Ids
                  BY <2>2, <3>1, <1>0 DEF InsertKey
            <3> QED BY <2>0, <3>2, <3>3, <1>0, <1>6, <1>f
      <2> QED BY <1>6, <2>1, <2>2 DEF KeyStep
<1>7. ASSUME NEW h \in Handlers, NEW g \in Handlers, DeadlockDetected(h, g)
      PROVE  Typed'
      <2>1. org = h /\ org # g
            BY <1>0, <1>7 DEF DeadlockDetected, Deadlocked, LoginTx
      <2> QED BY <1>7, <2>1, <1>0, <1>f, <1>u DEF DeadlockDetected
<1>8. ASSUME NEW h \in Handlers, Abort(h) PROVE Typed'
      BY <1>8, <1>0, <1>f, <1>u DEF Abort
<1>9. ASSUME UNCHANGED <<members, org, job, dev, keys, history, bounds>>,
             tokens' \subseteq tokens, audit' \subseteq Ids,
             auditing' \subseteq auditing
      PROVE  Typed'
      BY <1>9, <1>b, <1>u DEF Typed, TypeOK, Shape
<1>10. ASSUME NEW i \in tokens, Expire(i) PROVE Typed'
      BY <1>0, <1>9, <1>10, <1>u DEF Expire
<1>11. ASSUME NEW i \in auditing, AuditInsert(i) PROVE Typed'
      BY <1>0, <1>9, <1>11, <1>u DEF AuditInsert
<1>12. CASE Restart
      <2>1. \A h \in Handlers : job'[h] = Idle
            BY <1>12 DEF Restart
      <2>2. \A h \in Handlers : job'[h].pc \in LoginTx <=> org' = h
            BY <1>12, <1>i, <1>n, <2>1 DEF Restart, LoginTx
      <2>3. TypeOK'
            BY <1>12, <1>0, <1>i, <1>b, <1>u, <2>2 DEF Restart, TypeOK
      <2>4. \A h \in Handlers : Shape(h)'
            BY <2>1, <1>i
               DEF Shape, AddPC, ActingPC, LoginTx, InvitePC, RemovePC
      <2> QED BY <2>3, <2>4 DEF Typed
<1>14. ASSUME NEW h \in Handlers, DevStep(h) PROVE Typed'
      <2>0. /\ job[h].pc \in {"devInsert", "devOrg"} /\ org # h
            /\ job[h].email \in Emails
            BY <1>0, <1>p, <1>14
               DEF DevStep, DevExisting, DevNew, DevCommit, At, LoginTx, Shape,
                   AddPC
      <2>1. CASE DevExisting(h)
            <3> DEFINE e == job[h].email
                       q == [[members[e] EXCEPT !.role = job[h].role]
                                         EXCEPT !.first = FALSE]
            <3>1. members[e] \in Row
                  BY <2>0, <2>1, <1>0 DEF DevExisting
            <3>2. q \in Row /\ members[e].id \in Ids
                  BY <3>1, <1>p, <1>14 DEF Row
            <3>3. members' = [members EXCEPT ![e] = q]
                  BY <2>0, <2>1, <1>0, <3>1, <3>2 DEF DevExisting, Row
            <3>4. members' \in [Emails -> Row \cup {NoRow}]
                  BY <3>2, <3>3, <1>0
            <3>5. /\ dev' \in Ids \cup {0} /\ Finish(h)
                  /\ UNCHANGED <<org, tokens, refs, history, bounds>>
                  BY <2>1, <3>2 DEF DevExisting
            <3> QED BY <2>0, <3>4, <3>5, <1>0, <1>14, <1>u, <1>f
      <2>2. CASE DevNew(h)
            <3> DEFINE q == NewRow(job[h].role, FALSE)
                       j == [job[h] EXCEPT !.pc = "devOrg", !.row = q]
            <3>1. q \in Row /\ q # NoRow
                  BY <1>0, <1>p, <1>14, NewRowType
            <3>2. job' = [job EXCEPT ![h] = j]
                  BY <2>2 DEF DevNew
            <3> HIDE DEF q
            <3>3. /\ j \in Job /\ j.pc = "devOrg" /\ j.row = q
                  /\ j.email = job[h].email
                  BY <3>1, <1>p, <1>14 DEF Job, PCs, DevPC
            <3>4. lastId' \in Nat
                  BY <2>2, <1>0 DEF DevNew
            <3>5. UNCHANGED <<members, org, tokens, dev, keys, audit, auditing,
                              removed, failed, ousted, requests>>
                  BY <2>2, <1>u DEF DevNew
            <3> HIDE DEF j
            <3> QED BY <2>0, <3>1, <3>2, <3>3, <3>4, <3>5, <1>0, <1>14,
                       TypedStep
                    DEF LoginTx, ActingPC, InvitePC, RemovePC
      <2>3. CASE DevCommit(h)
            <3>1. job[h].row \in Row
                  BY <2>3, <1>p, <1>14 DEF DevCommit, At, Shape
            <3>2. members' \in [Emails -> Row \cup {NoRow}]
                  BY <2>3, <3>1, <1>0 DEF DevCommit
            <3>3. dev' \in Ids \cup {0}
                  BY <2>3, <3>1 DEF DevCommit, Row
            <3>4. Finish(h) /\ UNCHANGED <<org, tokens, refs, history, bounds>>
                  BY <2>3 DEF DevCommit
            <3> QED BY <2>0, <3>2, <3>3, <3>4, <1>0, <1>14, <1>u, <1>f
      <2> QED BY <1>14, <2>1, <2>2, <2>3 DEF DevStep
<1>13. CASE UNCHANGED vars
      BY <1>13, <1>9, <1>0, <1>u DEF vars
<1> QED BY <1>1, <1>2, <1>3, <1>4, <1>5, <1>6, <1>7, <1>8, <1>10, <1>11,
           <1>12, <1>13, <1>14 DEF Next, HandlerStep

(* Every state is well typed, and the row of the organisation is locked    *)
(* exactly by a login past its upsert: OIDCCallback serialises the logins. *)
THEOREM AccountsTypeCorrect == Spec => []TypeOK
<1>1. Init => Typed
      BY TypedInit
<1>2. Typed /\ [Next]_vars => Typed'
      BY TypedNext
<1>3. Typed => TypeOK
      BY DEF Typed
<1> QED BY <1>1, <1>2, <1>3, PTL DEF Spec
-----------------------------------------------------------------------------
(* What the handlers' uncommitted rows have to do with the committed ones. *)
(* A row inserted by a handler is invisible until the commit (Fresh), and  *)
(* nothing knows its id before.                                            *)
Fresh(h) == job[h].row # NoRow /\ members[job[h].email] = NoRow

Unused(i) ==
    /\ i \notin MemberIds \cup Subjects \cup removed
    /\ \A h \in Handlers : job[h].actor # i /\ job[h].target # i

(* A handler that has inserted or locked a row is alone on its e-mail.     *)
Held(h) ==
    job[h].row # NoRow =>
        /\ members[job[h].email] \in {NoRow, job[h].row}
        /\ \A g \in Handlers \ {h} :
               job[g].row # NoRow => job[g].email # job[h].email
        /\ job[h].pc \in {"fkOrg", "devOrg"} =>
               members[job[h].email] = NoRow /\ ~job[h].row.first

(* Ids come from a counter.                                                *)
Numbered ==
    /\ \A i \in MemberIds \cup Subjects \cup removed : i <= lastId
    /\ \A h \in Handlers : /\ job[h].actor <= lastId
                           /\ job[h].target <= lastId
                           /\ job[h].row # NoRow => job[h].row.id <= lastId

NewIds(h) ==
    Fresh(h) => /\ Unused(job[h].row.id)
                /\ \A g \in Handlers \ {h} :
                       Fresh(g) => job[g].row.id # job[h].row.id

(* What the count has found is still true.                                 *)
Counted(h) ==
    \/ job[h].pc = "insert" /\ job[h].role = "admin"
    \/ job[h].pc = "commit" /\ Fresh(h) /\ job[h].row.first
    => Present = {}

HandlerOK(h) == Held(h) /\ NewIds(h) /\ Counted(h)
Sound == Typed /\ Numbered /\ \A h \in Handlers : HandlerOK(h)

LEMMA MemberId ==
    \A i : i \in MemberIds <=>
               \E e \in Emails : members[e] # NoRow /\ members[e].id = i
BY DEF MemberIds, Present

LEMMA MemberIdNext ==
    \A i : i \in MemberIds' <=>
               \E e \in Emails : members'[e] # NoRow /\ members'[e].id = i
BY DEF MemberIds, Present

(* A step after which handler h holds no row, and which has deleted or     *)
(* updated only rows that are there and that nobody else holds.            *)
Touch(h) ==
    \A e \in Emails :
        \/ members'[e] = members[e]
        \/ /\ RowFree(h, e) /\ members[e] # NoRow
           /\ members'[e] # NoRow => members'[e].id = members[e].id

LEMMA TouchIds ==
    ASSUME NEW h \in Handlers, Touch(h)
    PROVE  MemberIds' \subseteq MemberIds /\ (Present = {} => Present' = {})
<1>1. ASSUME NEW i \in MemberIds' PROVE i \in MemberIds
      <2>1. PICK e \in Emails : members'[e] # NoRow /\ members'[e].id = i
            BY <1>1, MemberIdNext
      <2>2. members[e] # NoRow /\ members[e].id = i
            BY <2>1 DEF Touch
      <2> QED BY <2>2, MemberId
<1>2. Present = {} => Present' = {}
      BY DEF Touch, Present
<1> QED BY <1>1, <1>2

LEMMA TouchStep ==
    ASSUME Sound, Typed', NEW h \in Handlers, NEW j \in Job, Touch(h),
           job' = [job EXCEPT ![h] = j], j.row = NoRow,
           UNCHANGED lastId, Subjects' \subseteq Subjects \cup MemberIds,
           removed' \subseteq removed \cup {job[h].target},
           j.actor <= lastId, j.target <= lastId,
           \A g \in Handlers : Fresh(g) => /\ job[g].row.id # j.actor
                                           /\ job[g].row.id # j.target,
           j.pc = "insert" /\ j.role = "admin" => Present = {}
    PROVE  Sound'
<1>1. /\ job \in [Handlers -> Job] /\ job'[h] = j
      /\ \A g \in Handlers \ {h} : job'[g] = job[g]
      BY DEF Sound, Typed, TypeOK
<1>2. /\ MemberIds' \subseteq MemberIds
      /\ Present = {} => Present' = {}
      BY TouchIds
<1>3. Numbered'
      BY <1>1, <1>2 DEF Sound, Numbered
<1>4. ASSUME NEW g \in Handlers, g # h, job[g].row # NoRow
      PROVE  /\ members'[job[g].email] = members[job[g].email]
             /\ Fresh(g)' <=> Fresh(g)
      <2>1. job[g].email \in Emails
            BY <1>4 DEF Sound, Typed, Shape, AddPC, LoginTx, InvitePC
      <2>2. members'[job[g].email] = members[job[g].email]
            BY <1>4, <2>1 DEF Touch, RowFree
      <2> QED BY <1>1, <1>4, <2>2 DEF Fresh
<1>5. ASSUME NEW g \in Handlers PROVE HandlerOK(g)'
      <2>0. HandlerOK(g)
            BY DEF Sound
      <2>1. CASE g = h
            <3>1. ~Fresh(h)' /\ Held(h)' /\ NewIds(h)'
                  BY <1>1 DEF Fresh, Held, NewIds
            <3>2. Counted(h)'
                  BY <1>1, <1>2, <3>1 DEF Counted
            <3> QED BY <2>1, <3>1, <3>2 DEF HandlerOK
      <2>2. CASE g # h
            <3>1. Held(g)'
                  BY <1>1, <1>4, <2>0, <2>2 DEF HandlerOK, Held
            <3>2. NewIds(g)'
                  <4>0. SUFFICES ASSUME Fresh(g)' PROVE NewIds(g)'
                        BY DEF NewIds
                  <4>1. Fresh(g) /\ job'[g] = job[g] /\ Unused(job[g].row.id)
                        BY <1>1, <1>4, <2>0, <2>2, <4>0
                           DEF HandlerOK, NewIds, Fresh
                  <4>2. Unused(job[g].row.id)'
                        BY <1>1, <1>2, <2>2, <4>1 DEF Unused
                  <4>3. ASSUME NEW f \in Handlers \ {g}, Fresh(f)'
                        PROVE  job'[f].row.id # job'[g].row.id
                        <5>1. f # h /\ Fresh(f) /\ job'[f] = job[f]
                              BY <1>1, <1>4, <4>3 DEF Fresh
                        <5> QED BY <2>0, <4>1, <5>1 DEF HandlerOK, NewIds
                  <4> QED BY <4>1, <4>2, <4>3 DEF NewIds
            <3>3. Counted(g)'
                  BY <1>1, <1>2, <1>4, <2>0, <2>2 DEF HandlerOK, Counted, Fresh
            <3> QED BY <3>1, <3>2, <3>3 DEF HandlerOK
      <2> QED BY <2>1, <2>2
<1> QED BY <1>3, <1>5 DEF Sound

(* A step of no handler.                                                   *)
LEMMA StillStep ==
    ASSUME Sound, Typed', UNCHANGED <<members, job, lastId, removed>>,
           Subjects' \subseteq Subjects
    PROVE  Sound'
<1>1. MemberIds' = MemberIds /\ Present' = Present
      BY DEF MemberIds, Present
<1>2. Numbered'
      BY <1>1 DEF Sound, Numbered
<1>3. \A h \in Handlers : Fresh(h)' <=> Fresh(h)
      BY DEF Fresh
<1>4. ASSUME NEW h \in Handlers PROVE HandlerOK(h)'
      <2>1. Held(h)' /\ Counted(h)'
            BY <1>1, <1>3 DEF Sound, HandlerOK, Held, Counted
      <2>2. NewIds(h)'
            BY <1>1, <1>3 DEF Sound, HandlerOK, NewIds, Unused
      <2> QED BY <2>1, <2>2 DEF HandlerOK
<1> QED BY <1>2, <1>4 DEF Sound

(* The INSERT of a member, or the lock on the row that is there.           *)
LEMMA HoldStep ==
    ASSUME Sound, Typed', NEW h \in Handlers, NEW j \in Job,
           job' = [job EXCEPT ![h] = j], job[h].row = NoRow,
           UNCHANGED <<members, Subjects, removed>>,
           j.email = job[h].email, j.email \in Emails,
           j.actor = job[h].actor, j.target = job[h].target,
           RowFree(h, j.email), j.row \in Row,
           \/ /\ members[j.email] = NoRow /\ j.row.id = lastId + 1
              /\ lastId' = lastId + 1
           \/ members[j.email] = j.row /\ UNCHANGED lastId,
           \/ /\ j.pc = "commit"
              /\ members[j.email] = NoRow /\ j.row.first => Present = {}
           \/ /\ j.pc \in {"fkOrg", "devOrg"}
              /\ members[j.email] = NoRow /\ ~j.row.first
    PROVE  Sound'
<1>1. /\ job \in [Handlers -> Job] /\ job'[h] = j
      /\ \A g \in Handlers \ {h} : job'[g] = job[g]
      /\ lastId \in Nat /\ lastId <= lastId'
      BY DEF Sound, Typed, TypeOK
<1>2. MemberIds' = MemberIds /\ Present' = Present
      BY DEF MemberIds, Present
<1>a. /\ Subjects \subseteq Nat /\ removed \subseteq Nat /\ MemberIds \subseteq Nat
      /\ \A g \in Handlers : /\ job[g].actor \in Nat /\ job[g].target \in Nat
                             /\ job[g].row # NoRow => job[g].row.id \in Nat
      <2>1. MemberIds \subseteq Nat
            BY MemberId DEF Sound, Typed, TypeOK, Row, Ids
      <2>2. Subjects \subseteq Nat /\ removed \subseteq Nat
            BY DEF Sound, Typed, TypeOK, Ids, Subjects
      <2>3. \A g \in Handlers : job[g] \in Job
            BY DEF Sound, Typed, TypeOK
      <2> QED BY <2>1, <2>2, <2>3 DEF Job, Row, Ids
<1>3. Numbered'
      <2>1. \A i \in MemberIds' \cup Subjects' \cup removed' : i <= lastId'
            <3>1. UNCHANGED <<Subjects, removed>>
                  OBVIOUS
            <3>2. \A i \in MemberIds \cup Subjects \cup removed :
                      i <= lastId /\ i \in Nat
                  BY <1>a DEF Sound, Numbered
            <3>3. lastId' \in Nat
                  BY <1>1
            <3> QED BY <1>1, <1>2, <3>1, <3>2, <3>3
      <2>2. j.row.id <= lastId'
            <3>1. CASE members[j.email] = j.row /\ UNCHANGED lastId
                  <4>1. j.row.id \in MemberIds
                        BY <3>1, MemberId, AccountsAssumption
                  <4> QED BY <3>1, <4>1 DEF Sound, Numbered
            <3>2. CASE j.row.id = lastId + 1 /\ lastId' = lastId + 1
                  BY <1>1, <3>2
            <3> QED BY <3>1, <3>2
      <2>3. ASSUME NEW g \in Handlers
            PROVE  /\ job'[g].actor <= lastId' /\ job'[g].target <= lastId'
                   /\ job'[g].row # NoRow => job'[g].row.id <= lastId'
            BY <1>1, <1>a, <2>2 DEF Sound, Numbered
      <2> QED BY <2>1, <2>3 DEF Numbered
<1>4. \A g \in Handlers \ {h} : Fresh(g)' <=> Fresh(g)
      BY <1>1 DEF Fresh
<1>5. Fresh(h)' => j.row.id = lastId + 1
      BY <1>1, AccountsAssumption DEF Fresh
<1>6. ASSUME NEW n, n = lastId + 1 PROVE Unused(n)'
      <2>1. \A i \in MemberIds \cup Subjects \cup removed : i # n
            BY <1>1, <1>6, <1>a DEF Sound, Numbered
      <2>2. \A g \in Handlers : job'[g].actor # n /\ job'[g].target # n
            BY <1>1, <1>6, <1>a DEF Sound, Numbered
      <2> QED BY <1>2, <2>1, <2>2 DEF Unused
<1>7. ASSUME NEW g \in Handlers PROVE HandlerOK(g)'
      <2>0. HandlerOK(g)
            BY DEF Sound
      <2>1. CASE g = h
            <3>1. Held(h)'
                  BY <1>1 DEF Held, RowFree
            <3>2. NewIds(h)'
                  <4>0. SUFFICES ASSUME Fresh(h)' PROVE NewIds(h)'
                        BY DEF NewIds
                  <4>1. job'[h].row.id = lastId + 1
                        BY <1>1, <1>5, <4>0
                  <4>2. ASSUME NEW k \in Handlers \ {h}, Fresh(k)'
                        PROVE  job'[k].row.id # lastId + 1
                        <5>1. job'[k] = job[k] /\ job[k].row # NoRow
                              BY <1>1, <1>4, <4>2 DEF Fresh
                        <5>2. job[k].row.id <= lastId /\ job[k].row.id \in Nat
                              BY <1>a, <5>1 DEF Sound, Numbered
                        <5> QED BY <1>1, <5>1, <5>2
                  <4>3. Unused(job[h].row.id)'
                        BY <1>6, <4>1
                  <4> QED BY <4>1, <4>2, <4>3 DEF NewIds
            <3>3. Counted(h)'
                  BY <1>1, <1>2 DEF Counted, Fresh
            <3> QED BY <2>1, <3>1, <3>2, <3>3 DEF HandlerOK
      <2>2. CASE g # h
            <3>1. Held(g)'
                  BY <1>1, <2>0, <2>2 DEF HandlerOK, Held, RowFree
            <3>2. NewIds(g)'
                  <4>0. SUFFICES ASSUME Fresh(g)' PROVE NewIds(g)'
                        BY DEF NewIds
                  <4>1. /\ Fresh(g) /\ job'[g] = job[g]
                        /\ Unused(job[g].row.id) /\ job[g].row # NoRow
                        BY <1>1, <1>4, <2>0, <2>2, <4>0
                           DEF HandlerOK, NewIds, Fresh
                  <4>2. Unused(job[g].row.id)'
                        BY <1>1, <1>2, <4>1 DEF Unused
                  <4>3. ASSUME NEW f \in Handlers \ {g}, Fresh(f)'
                        PROVE  job'[f].row.id # job'[g].row.id
                        <5>1. CASE f = h
                              BY <1>1, <1>5, <1>a, <4>1, <4>3, <5>1
                                 DEF Sound, Numbered
                        <5>2. CASE f # h
                              BY <1>1, <1>4, <2>0, <4>1, <4>3, <5>2
                                 DEF HandlerOK, NewIds
                        <5> QED BY <5>1, <5>2
                  <4> QED BY <4>1, <4>2, <4>3 DEF NewIds
            <3>3. Counted(g)'
                  BY <1>1, <1>2, <1>4, <2>0, <2>2 DEF HandlerOK, Counted
            <3> QED BY <3>1, <3>2, <3>3 DEF HandlerOK
      <2> QED BY <2>1, <2>2
<1> QED BY <1>3, <1>7 DEF Sound

(* The COMMIT of the row that handler h holds: if it was inserted, its id  *)
(* becomes known here.                                                     *)
LEMMA CommitIds ==
    ASSUME Sound, NEW h \in Handlers, job[h].row # NoRow,
           members' = [members EXCEPT ![job[h].email] = job[h].row]
    PROVE  /\ job[h].email \in Emails /\ job[h].row \in Row
           /\ members'[job[h].email] = job[h].row
           /\ \A e \in Emails \ {job[h].email} : members'[e] = members[e]
           /\ MemberIds' = MemberIds \cup {job[h].row.id}
           /\ ~Fresh(h) => UNCHANGED members /\ job[h].row.id \in MemberIds
<1>1. /\ job[h].email \in Emails /\ job[h].row \in Row
      /\ members \in [Emails -> Row \cup {NoRow}]
      /\ members[job[h].email] \in {NoRow, job[h].row}
      BY DEF Sound, Typed, TypeOK, Job, Shape, HandlerOK, Held, AddPC,
             LoginTx, InvitePC
<1>2. /\ members'[job[h].email] = job[h].row
      /\ \A e \in Emails \ {job[h].email} : members'[e] = members[e]
      BY <1>1
<1>3. ASSUME NEW i
      PROVE  i \in MemberIds' <=> i \in MemberIds \cup {job[h].row.id}
      BY <1>1, <1>2, MemberId, MemberIdNext
<1>4. ~Fresh(h) => UNCHANGED members /\ job[h].row.id \in MemberIds
      <2>1. SUFFICES ASSUME ~Fresh(h)
                     PROVE  UNCHANGED members /\ job[h].row.id \in MemberIds
            OBVIOUS
      <2>2. members[job[h].email] = job[h].row
            BY <1>1, <2>1 DEF Fresh
      <2>3. members' = members
            BY <1>1, <2>2
      <2>4. job[h].row.id \in MemberIds
            BY <1>1, <2>2, MemberId
      <2> QED BY <2>3, <2>4
<1> QED BY <1>1, <1>2, <1>3, <1>4

LEMMA CommitStep ==
    ASSUME Sound, Typed', NEW h \in Handlers, job[h].row # NoRow,
           members' = [members EXCEPT ![job[h].email] = job[h].row],
           Finish(h), UNCHANGED <<removed, lastId>>,
           Subjects' \subseteq Subjects \cup {0, job[h].row.id},
           \A g \in Handlers \ {h} : job[g].pc \notin LoginTx
    PROVE  Sound'
<1>1. /\ job \in [Handlers -> Job] /\ job'[h] = Idle
      /\ \A g \in Handlers \ {h} : job'[g] = job[g]
      BY DEF Sound, Typed, TypeOK, Finish
<1>2. /\ job[h].email \in Emails /\ job[h].row \in Row
      /\ members'[job[h].email] = job[h].row
      /\ \A e \in Emails \ {job[h].email} : members'[e] = members[e]
      /\ MemberIds' = MemberIds \cup {job[h].row.id}
      /\ ~Fresh(h) => UNCHANGED members /\ job[h].row.id \in MemberIds
      BY CommitIds
<1>3. /\ Idle.row = NoRow /\ Idle.pc = "idle" /\ Idle.actor = 0
      /\ Idle.target = 0
      BY DEF Idle
<1>4. Numbered'
      <2>1. job[h].row.id <= lastId /\ 0 <= lastId
            BY DEF Sound, Numbered, Typed, TypeOK
      <2>2. \A i \in MemberIds' \cup Subjects' \cup removed' : i <= lastId'
            BY <1>2, <2>1 DEF Sound, Numbered
      <2>3. \A g \in Handlers : /\ job'[g].actor <= lastId'
                                /\ job'[g].target <= lastId'
                                /\ job'[g].row # NoRow
                                      => job'[g].row.id <= lastId'
            BY <1>1, <1>3, <2>1 DEF Sound, Numbered
      <2> QED BY <2>2, <2>3 DEF Numbered
<1>5. ASSUME NEW g \in Handlers \ {h}, job[g].row # NoRow
      PROVE  /\ job[g].email \in Emails \ {job[h].email}
             /\ members'[job[g].email] = members[job[g].email]
             /\ Fresh(g)' <=> Fresh(g)
      <2>1. job[g].email \in Emails
            BY <1>5 DEF Sound, Typed, Shape, AddPC, LoginTx, InvitePC
      <2>2. job[g].email # job[h].email
            BY <1>5 DEF Sound, HandlerOK, Held
      <2> QED BY <1>1, <1>2, <1>5, <2>1, <2>2 DEF Fresh
<1>6. ASSUME NEW g \in Handlers PROVE HandlerOK(g)'
      <2>0. HandlerOK(g)
            BY DEF Sound
      <2>1. CASE g = h
            BY <1>1, <1>3, <2>1
               DEF HandlerOK, Fresh, Held, NewIds, Counted
      <2>2. CASE g # h
            <3>1. Held(g)'
                  BY <1>1, <1>3, <1>5, <2>0, <2>2 DEF HandlerOK, Held
            <3>2. NewIds(g)'
                  <4>0. SUFFICES ASSUME Fresh(g)' PROVE NewIds(g)'
                        BY DEF NewIds
                  <4>1. /\ Fresh(g) /\ job'[g] = job[g]
                        /\ Unused(job[g].row.id)
                        BY <1>1, <1>5, <2>0, <2>2, <4>0
                           DEF HandlerOK, NewIds, Fresh
                  <4>2. job[g].row.id # job[h].row.id
                        <5>1. CASE Fresh(h)
                              BY <2>0, <2>2, <4>1, <5>1 DEF HandlerOK, NewIds
                        <5>2. CASE ~Fresh(h)
                              BY <1>2, <4>1, <5>2 DEF Unused
                        <5> QED BY <5>1, <5>2
                  <4>3. job[g].row.id # 0
                        <5>1. job[g].row \in Row
                              BY <4>1 DEF Fresh, Sound, Typed, TypeOK, Job
                        <5> QED BY <5>1 DEF Row, Ids
                  <4>4. Unused(job[g].row.id)'
                        BY <1>1, <1>2, <1>3, <4>1, <4>2, <4>3 DEF Unused
                  <4>5. ASSUME NEW f \in Handlers \ {g}, Fresh(f)'
                        PROVE  job'[f].row.id # job'[g].row.id
                        <5>1. f # h /\ job'[f] = job[f]
                              BY <1>1, <1>3, <4>5 DEF Fresh
                        <5>2. Fresh(f)
                              BY <1>5, <4>5, <5>1 DEF Fresh
                        <5> QED BY <2>0, <4>1, <5>1, <5>2
                                DEF HandlerOK, NewIds
                  <4> QED BY <4>1, <4>4, <4>5 DEF NewIds
            <3>3. Counted(g)'
                  BY <1>1, <2>2 DEF Counted, LoginTx
            <3> QED BY <3>1, <3>2, <3>3 DEF HandlerOK
      <2> QED BY <2>1, <2>2
<1> QED BY <1>4, <1>6 DEF Sound

LEMMA SoundInit == Init => Sound
<1> SUFFICES ASSUME Init PROVE Sound
    OBVIOUS
<1>1. Typed
      BY TypedInit
<1>2. /\ \A h \in Handlers : job[h] = Idle
      /\ MemberIds = {} /\ Subjects = {} /\ removed = {} /\ lastId = 0
      BY DEF Init, MemberIds, Present, Subjects
<1>3. /\ Idle.row = NoRow /\ Idle.pc = "idle" /\ Idle.actor = 0
      /\ Idle.target = 0
      BY DEF Idle
<1>4. Numbered
      BY <1>2, <1>3 DEF Numbered
<1>5. \A h \in Handlers : HandlerOK(h)
      BY <1>2, <1>3 DEF HandlerOK, Fresh, Held, NewIds, Counted
<1> QED BY <1>1, <1>4, <1>5 DEF Sound

LEMMA SoundNext == Sound /\ [Next]_vars => Sound'
<1> SUFFICES ASSUME Sound, [Next]_vars PROVE Sound'
    OBVIOUS
<1>0. /\ Typed' /\ Typed
      /\ members \in [Emails -> Row \cup {NoRow}]
      /\ job \in [Handlers -> Job] /\ lastId \in Nat
      /\ Subjects \subseteq Ids \cup {0}
      /\ \A h \in Handlers : job[h].pc \in LoginTx <=> org = h
      BY TypedNext DEF Sound, Typed, TypeOK, Subjects
<1>p. ASSUME NEW h \in Handlers
      PROVE  /\ job[h] \in Job /\ HandlerOK(h) /\ Shape(h)
             /\ job[h].actor \in Nat /\ job[h].actor <= lastId
             /\ job[h].target \in Nat /\ job[h].target <= lastId
             /\ \A g \in Handlers : Fresh(g) =>
                    /\ job[g].row.id # job[h].actor
                    /\ job[g].row.id # job[h].target
                    /\ job[g].row.id \in Ids /\ job[g].row.id # 0
      <2>1. job[h] \in Job /\ HandlerOK(h) /\ Shape(h)
            BY <1>0 DEF Sound, Typed
      <2>2. job[h].actor <= lastId /\ job[h].target <= lastId
            BY DEF Sound, Numbered
      <2>3. job[h].actor \in Nat /\ job[h].target \in Nat
            BY <2>1 DEF Job, Ids
      <2>4. ASSUME NEW g \in Handlers, Fresh(g)
            PROVE  /\ job[g].row.id # job[h].actor
                   /\ job[g].row.id # job[h].target
                   /\ job[g].row.id \in Ids /\ job[g].row.id # 0
            <3>1. job[g].row \in Row
                  BY <1>0, <2>4 DEF Fresh, Job
            <3>2. Unused(job[g].row.id)
                  BY <2>4 DEF Sound, HandlerOK, NewIds
            <3> QED BY <3>1, <3>2 DEF Unused, Row, Ids
      <2> QED BY <2>1, <2>2, <2>3, <2>4
<1>i. /\ Idle \in Job /\ Idle.pc = "idle" /\ Idle.row = NoRow
      /\ Idle.actor = 0 /\ Idle.target = 0
      BY DEF Idle, Job, PCs, Roles
<1>u. UNCHANGED refs <=> UNCHANGED <<keys, audit, auditing>>
      BY DEF refs
<1>b. /\ UNCHANGED bounds <=> UNCHANGED <<lastId, requests>>
      /\ UNCHANGED subjects => UNCHANGED <<tokens, dev, Subjects>>
      /\ UNCHANGED history <=> UNCHANGED <<removed, failed, ousted>>
      BY DEF bounds, subjects, history, Subjects
(* The handler ends, or goes on without a row and with the same subject.   *)
<1>f. ASSUME NEW h \in Handlers, Finish(h), Touch(h), UNCHANGED lastId,
             Subjects' \subseteq Subjects \cup MemberIds,
             removed' \subseteq removed \cup {job[h].target}
      PROVE  Sound'
      <2>1. /\ 0 <= lastId
            /\ \A g \in Handlers : Fresh(g) => job[g].row.id # 0
            BY <1>0, <1>p
      <2>2. Idle.pc # "insert"
            BY <1>i
      <2> QED
          BY <1>f, <1>0, <1>i, <2>1, <2>2, TouchStep
             DEF Finish
<1>g. ASSUME NEW h \in Handlers, NEW j \in Job, job' = [job EXCEPT ![h] = j],
             j.row = NoRow,
             UNCHANGED <<members, Subjects, removed, lastId>>,
             j.actor = job[h].actor, j.target = job[h].target,
             j.pc = "insert" /\ j.role = "admin" => Present = {}
      PROVE  Sound'
      <2>1. Touch(h)
            BY <1>g DEF Touch
      <2>2. /\ j.actor <= lastId /\ j.target <= lastId
            /\ \A g \in Handlers : Fresh(g) => /\ job[g].row.id # j.actor
                                              /\ job[g].row.id # j.target
            BY <1>p, <1>g
      <2>3. /\ Subjects' \subseteq Subjects \cup MemberIds
            /\ removed' \subseteq removed \cup {job[h].target}
            /\ lastId' = lastId
            BY <1>g
      <2> QED BY <1>g, <1>0, <2>1, <2>2, <2>3, TouchStep
<1>t. ASSUME NEW h \in Handlers, UNCHANGED members PROVE Touch(h)
      BY <1>t DEF Touch
<1>1. ASSUME NEW h \in Handlers, Request(h) PROVE Sound'
      <2>a. ASSUME NEW j \in Job, Arrive(h, j), j.row = NoRow,
                   j.pc # "insert",
                   j.actor \in Subjects \cup {0},
                   j.target <= lastId,
                   \A g \in Handlers : Fresh(g) => job[g].row.id # j.target
            PROVE  Sound'
            <3>1. Touch(h) /\ UNCHANGED <<Subjects, removed, lastId>>
                  BY <2>a, <1>t, <1>1, <1>b DEF Arrive
            <3>2. /\ j.actor <= lastId
                  /\ \A g \in Handlers : Fresh(g) => job[g].row.id # j.actor
                  <4>1. CASE j.actor = 0
                        BY <4>1, <1>0, <1>p
                  <4>2. CASE j.actor \in Subjects
                        BY <4>2 DEF Sound, Numbered, HandlerOK, NewIds, Unused
                  <4> QED BY <2>a, <4>1, <4>2
            <3>3. job' = [job EXCEPT ![h] = j]
                  BY <2>a DEF Arrive
            <3> QED BY <2>a, <1>0, <3>1, <3>2, <3>3, <1>1, TouchStep
      <2>n. /\ 0 <= lastId
            /\ \A g \in Handlers : Fresh(g) => job[g].row.id # 0
            BY <1>0, <1>p
      <2>1. ASSUME NEW e \in Emails, Login(h, e) PROVE Sound'
            <3> DEFINE j == [Idle EXCEPT !.pc = "upsert", !.email = e]
            <3>1. /\ j \in Job /\ j.row = NoRow /\ j.pc = "upsert"
                  /\ j.actor = 0 /\ j.target = 0
                  BY DEF Idle, Job, PCs, Roles
            <3>2. Arrive(h, j)
                  BY <2>1 DEF Login
            <3> HIDE DEF j
            <3> QED BY <2>a, <2>n, <3>1, <3>2
      <2>2. ASSUME NEW i \in Subjects, CreateKey(h, i) PROVE Sound'
            <3> DEFINE k == [Idle EXCEPT !.pc = "member"]
                       j == WithClaims(k, i)
            <3>1. /\ k \in Job /\ k.row = NoRow /\ k.pc = "member"
                  /\ k.target = 0
                  BY DEF Idle, Job, PCs, Roles
            <3> HIDE DEF k
            <3>2. /\ j \in Job /\ j.row = NoRow /\ j.pc = "member"
                  /\ j.actor = i /\ j.target = 0
                  BY <1>0, <3>1, ClaimsJob DEF Ids
            <3>3. Arrive(h, j)
                  BY <2>2 DEF CreateKey, k
            <3> HIDE DEF j
            <3> QED BY <2>a, <2>n, <3>2, <3>3
      <2>3. ASSUME NEW i \in Subjects, NEW e \in Emails, NEW r \in Roles,
                   Invite(h, i, e, r)
            PROVE  Sound'
            <3> DEFINE k == [Idle EXCEPT !.pc = "inviteRole", !.email = e,
                                         !.role = r]
                       j == WithClaims(k, i)
            <3>1. /\ k \in Job /\ k.row = NoRow /\ k.pc = "inviteRole"
                  /\ k.target = 0
                  BY DEF Idle, Job, PCs, Roles, InvitePC
            <3> HIDE DEF k
            <3>2. /\ j \in Job /\ j.row = NoRow /\ j.pc = "inviteRole"
                  /\ j.actor = i /\ j.target = 0
                  BY <1>0, <3>1, ClaimsJob DEF Ids
            <3>3. Arrive(h, j)
                  BY <2>3 DEF Invite, k
            <3> HIDE DEF j
            <3> QED BY <2>a, <2>n, <3>2, <3>3
      <2>4. ASSUME NEW i \in Subjects, NEW t \in 1..lastId, Remove(h, i, t)
            PROVE  Sound'
            <3> DEFINE k == [Idle EXCEPT !.pc = "removeRole", !.target = t]
                       j == WithClaims(k, i)
            <3>0. t \in Ids /\ t <= lastId
                  BY <1>0 DEF Ids
            <3>1. /\ k \in Job /\ k.row = NoRow /\ k.pc = "removeRole"
                  /\ k.target = t
                  BY <3>0 DEF Idle, Job, PCs, Roles, RemovePC
            <3> HIDE DEF k
            <3>2. /\ j \in Job /\ j.row = NoRow /\ j.pc = "removeRole"
                  /\ j.actor = i /\ j.target = t
                  BY <1>0, <3>1, ClaimsJob DEF Ids
            <3>3. Arrive(h, j)
                  BY <2>4 DEF Remove, k
            <3>4. \A g \in Handlers : Fresh(g) => job[g].row.id # t
                  <4>1. ASSUME NEW g \in Handlers, Fresh(g), job[g].row.id = t
                        PROVE  FALSE
                        <5>1. t \in MemberIds
                              BY <2>4, <4>1 DEF Remove, Fresh
                        <5>2. t \notin MemberIds
                              BY <4>1 DEF Sound, HandlerOK, NewIds, Unused
                        <5> QED BY <5>1, <5>2
                  <4> QED BY <4>1
            <3> HIDE DEF j
            <3> QED BY <2>a, <3>0, <3>2, <3>3, <3>4
      <2>5. ASSUME NEW e \in Emails, DevStart(h, e) PROVE Sound'
            <3> DEFINE j == [Idle EXCEPT !.pc = "devInsert", !.email = e,
                                         !.role = "admin"]
            <3>1. /\ j \in Job /\ j.row = NoRow /\ j.pc = "devInsert"
                  /\ j.actor = 0 /\ j.target = 0
                  BY DEF Idle, Job, PCs, Roles, DevPC
            <3>2. Arrive(h, j)
                  BY <2>5 DEF DevStart
            <3> HIDE DEF j
            <3> QED BY <2>a, <2>n, <3>1, <3>2
      <2> QED BY <1>1, <2>1, <2>2, <2>3, <2>4, <2>5, AccountsAssumption
              DEF Request
<1>2. ASSUME NEW h \in Handlers, LoginStep(h) PROVE Sound'
      <2>1. CASE LoginUpsert(h)
            <3> DEFINE j == [job[h] EXCEPT !.pc = "count"]
            <3>1. /\ j \in Job /\ j.row = job[h].row /\ j.pc = "count"
                  /\ j.actor = job[h].actor /\ j.target = job[h].target
                  BY <1>p, <1>2 DEF Job, PCs, LoginTx
            <3>2. job' = [job EXCEPT ![h] = j] /\ job[h].row = NoRow
                  BY <2>1, <1>p, <1>2 DEF LoginUpsert, Go, At, Shape
            <3>3. UNCHANGED <<members, Subjects, removed, lastId>>
                  BY <2>1, <1>b DEF LoginUpsert
            <3> HIDE DEF j
            <3> QED BY <1>2, <1>g, <3>1, <3>2, <3>3
      <2>2. CASE LoginCount(h)
            <3> DEFINE r == IF Present = {} THEN "admin" ELSE "developer"
                       j == [job[h] EXCEPT !.pc = "insert", !.role = r]
            <3>1. /\ j \in Job /\ j.row = job[h].row /\ j.pc = "insert"
                  /\ j.actor = job[h].actor /\ j.target = job[h].target
                  /\ j.role = r
                  BY <1>p, <1>2 DEF Job, PCs, LoginTx, Roles
            <3>2. job' = [job EXCEPT ![h] = j] /\ job[h].row = NoRow
                  BY <2>2, <1>p, <1>2 DEF LoginCount, At, Shape
            <3>3. UNCHANGED <<members, Subjects, removed, lastId>>
                  BY <2>2, <1>b DEF LoginCount
            <3>4. r = "admin" => Present = {}
                  OBVIOUS
            <3> HIDE DEF j, r
            <3> QED BY <1>2, <1>g, <3>1, <3>2, <3>3, <3>4
      <2>3. CASE LoginInsert(h)
            <3> DEFINE e == job[h].email
                       f == job[h].role = "admin"
                       r == IF members[e] = NoRow
                            THEN NewRow(job[h].role, f) ELSE members[e]
                       j == [job[h] EXCEPT !.pc = "commit", !.row = r]
            <3>0. f \in BOOLEAN /\ job[h].role \in Roles
                  BY <1>p, <1>2 DEF Job
            <3>1. /\ job[h].pc = "insert" /\ job[h].row = NoRow
                  /\ e \in Emails /\ RowFree(h, e)
                  BY <2>3, <1>p, <1>2 DEF LoginInsert, At, Shape, AddPC,
                                          LoginTx
            <3>2. f => Present = {}
                  BY <1>p, <1>2, <3>1 DEF HandlerOK, Counted
            <3>3. job' = [job EXCEPT ![h] = j]
                  BY <2>3 DEF LoginInsert
            <3>4. /\ UNCHANGED <<members, Subjects, removed>>
                  /\ lastId' = IF members[e] = NoRow THEN lastId + 1
                                                     ELSE lastId
                  BY <2>3, <1>b DEF LoginInsert
            <3> HIDE DEF f
            <3>5. /\ r \in Row
                  /\ members[e] = NoRow =>
                        r.id = lastId + 1 /\ (r.first => Present = {})
                  /\ members[e] # NoRow => r = members[e]
                  <4>1. CASE members[e] = NoRow
                        BY <1>0, <3>0, <3>2, <4>1, NewRowType DEF NewRow
                  <4>2. CASE members[e] # NoRow
                        BY <1>0, <3>1, <4>2
                  <4> QED BY <4>1, <4>2
            <3> HIDE DEF r
            <3>6. /\ j \in Job /\ j.pc = "commit" /\ j.row = r /\ j.email = e
                  /\ j.actor = job[h].actor /\ j.target = job[h].target
                  BY <3>5, <1>p, <1>2 DEF Job, PCs, LoginTx
            <3> HIDE DEF e, j
            <3>7. /\ j.email = job[h].email
                  /\ \/ /\ members[j.email] = NoRow /\ j.row.id = lastId + 1
                        /\ lastId' = lastId + 1
                     \/ members[j.email] = j.row /\ UNCHANGED lastId
                  /\ members[j.email] = NoRow /\ j.row.first => Present = {}
                  BY <3>4, <3>5, <3>6 DEF e
            <3> QED BY <1>2, <1>0, <3>1, <3>3, <3>4, <3>5, <3>6, <3>7, HoldStep
      <2>4. CASE LoginCommit(h)
            <3>1. /\ job[h].row # NoRow /\ org = h /\ Finish(h)
                  /\ members' = [members EXCEPT ![job[h].email] = job[h].row]
                  /\ Subjects' \subseteq Subjects \cup {0, job[h].row.id}
                  /\ UNCHANGED <<removed, lastId>>
                  BY <2>4, <1>0, <1>p, <1>2, <1>b
                     DEF LoginCommit, At, Shape, LoginTx, Subject, Subjects
            <3>2. \A g \in Handlers \ {h} : job[g].pc \notin LoginTx
                  BY <1>0, <3>1
            <3> QED BY <1>0, <1>2, <3>1, <3>2, CommitStep
      <2> QED BY <1>2, <2>1, <2>2, <2>3, <2>4 DEF LoginStep
<1>3. ASSUME NEW h \in Handlers, RequireRole(h) PROVE Sound'
      <2>0. /\ job[h].pc \in {"inviteRole", "removeRole"}
            /\ job[h].row = NoRow
            /\ UNCHANGED <<members, Subjects, removed, lastId>>
            BY <1>p, <1>b, <1>3 DEF RequireRole, At, Shape
      <2>1. CASE Finish(h)
            BY <2>0, <2>1, <1>3, <1>f, <1>t
      <2>2. ASSUME NEW to \in {"inviterOrg", "targetOrg"}, Go(h, to)
            PROVE  Sound'
            <3> DEFINE j == [job[h] EXCEPT !.pc = to]
            <3>1. /\ j \in Job /\ j.row = job[h].row /\ j.pc = to
                  /\ j.actor = job[h].actor /\ j.target = job[h].target
                  BY <1>p, <1>3, <2>2 DEF Job, PCs, InvitePC, RemovePC
            <3>2. job' = [job EXCEPT ![h] = j]
                  BY <2>2 DEF Go
            <3> HIDE DEF j
            <3> QED BY <1>3, <1>g, <2>0, <2>2, <3>1, <3>2
      <2> QED BY <1>3, <2>1, <2>2 DEF RequireRole, Passes
<1>4. ASSUME NEW h \in Handlers, InviteStep(h) PROVE Sound'
      <2>1. CASE InviterOrg(h)
            <3>1. /\ job[h].pc = "inviterOrg" /\ job[h].row = NoRow
                  /\ UNCHANGED <<members, Subjects, removed, lastId>>
                  BY <2>1, <1>p, <1>b, <1>4
                     DEF InviterOrg, At, Shape
            <3>2. CASE Finish(h)
                  BY <3>1, <3>2, <1>4, <1>f, <1>t
            <3>3. CASE Go(h, "invite")
                  <4> DEFINE j == [job[h] EXCEPT !.pc = "invite"]
                  <4>1. /\ j \in Job /\ j.row = job[h].row /\ j.pc = "invite"
                        /\ j.actor = job[h].actor /\ j.target = job[h].target
                              BY <1>p, <1>4 DEF Job, PCs, InvitePC
                  <4>2. job' = [job EXCEPT ![h] = j]
                        BY <3>3 DEF Go
                  <4> HIDE DEF j
                  <4> QED BY <1>4, <1>g, <3>1, <4>1, <4>2
            <3> QED BY <2>1, <3>2, <3>3 DEF InviterOrg
      <2>2. CASE InviteExisting(h)
            <3> DEFINE e == job[h].email
            <3>1. /\ e \in Emails /\ members[e] # NoRow /\ RowFree(h, e)
                  BY <2>2, <1>p, <1>4
                     DEF InviteExisting, At, Shape, InvitePC
            <3>2. /\ members'[e].id = members[e].id
                  /\ \A f \in Emails \ {e} : members'[f] = members[f]
                  <4>1. members[e] \in Row
                        BY <3>1, <1>0
                  <4> QED BY <2>2, <3>1, <4>1, <1>0 DEF InviteExisting, Row
            <3>3. Touch(h)
                  <4> HIDE DEF e
                  <4> QED BY <3>1, <3>2 DEF Touch
            <3>4. Finish(h) /\ UNCHANGED <<Subjects, removed, lastId>>
                  BY <2>2, <1>b DEF InviteExisting
            <3> QED BY <1>4, <1>f, <3>3, <3>4
      <2>3. CASE InviteNew(h)
            <3> DEFINE e == job[h].email
                       r == NewRow(job[h].role, FALSE)
                       j == [job[h] EXCEPT !.pc = "fkOrg", !.row = r]
            <3>1. /\ job[h].pc = "invite" /\ job[h].row = NoRow
                  /\ e \in Emails /\ RowFree(h, e) /\ members[e] = NoRow
                  /\ job[h].role \in Roles
                  BY <2>3, <1>p, <1>4
                     DEF InviteNew, At, Shape, InvitePC, Job
            <3>2. /\ job' = [job EXCEPT ![h] = j] /\ lastId' = lastId + 1
                  /\ UNCHANGED <<members, Subjects, removed>>
                  BY <2>3, <1>b DEF InviteNew
            <3>3. r \in Row /\ r.id = lastId + 1 /\ ~r.first
                  BY <1>0, <3>1, NewRowType DEF NewRow
            <3> HIDE DEF r
            <3>4. /\ j \in Job /\ j.pc = "fkOrg" /\ j.row = r /\ j.email = e
                  /\ j.actor = job[h].actor /\ j.target = job[h].target
                  BY <3>3, <1>p, <1>4 DEF Job, PCs, InvitePC
            <3> HIDE DEF j
            <3> QED BY <1>4, <1>0, <3>1, <3>2, <3>3, <3>4, HoldStep
      <2>4. CASE InviteCommit(h)
            <3>1. /\ job[h].row # NoRow /\ org = NoHandler /\ Finish(h)
                  /\ members' = [members EXCEPT ![job[h].email] = job[h].row]
                  /\ UNCHANGED <<Subjects, removed, lastId>>
                  BY <2>4, <1>p, <1>4, <1>b
                     DEF InviteCommit, At, Shape, OrgFree
            <3>2. \A g \in Handlers \ {h} : job[g].pc \notin LoginTx
                  BY <1>0, <3>1, AccountsAssumption
            <3> QED BY <1>0, <1>4, <3>1, <3>2, CommitStep
      <2> QED BY <1>4, <2>1, <2>2, <2>3, <2>4 DEF InviteStep
<1>5. ASSUME NEW h \in Handlers, RemoveStep(h) PROVE Sound'
      <2>0. /\ job[h].pc \in RemovePC \ {"removeRole"} /\ job[h].row = NoRow
            BY <1>p, <1>5
               DEF RemoveStep, TargetOrg, Caller, RemoveDelete, RemoveFails,
                   At, Shape, RemovePC
      <2>1. CASE TargetOrg(h)
            <3> DEFINE b == job[h].target \in MemberIds
                       j == [job[h] EXCEPT !.pc = "caller", !.found = b]
            <3>0. b \in BOOLEAN
                  OBVIOUS
            <3> HIDE DEF b
            <3>1. /\ j \in Job /\ j.row = job[h].row /\ j.pc = "caller"
                  /\ j.actor = job[h].actor /\ j.target = job[h].target
                  BY <3>0, <1>p, <1>5 DEF Job, PCs, RemovePC
            <3>2. job' = [job EXCEPT ![h] = j]
                  BY <2>1 DEF TargetOrg, b
            <3>3. UNCHANGED <<members, Subjects, removed, lastId>>
                  BY <2>1, <1>b DEF TargetOrg
            <3> HIDE DEF j
            <3> QED BY <1>5, <1>g, <2>0, <3>1, <3>2, <3>3
      <2>2. CASE Caller(h)
            <3>0. UNCHANGED <<members, Subjects, removed, lastId>>
                  BY <2>2, <1>b DEF Caller
            <3>1. CASE Finish(h)
                  BY <3>0, <3>1, <1>5, <1>f, <1>t
            <3>2. CASE Go(h, "delete")
                  <4> DEFINE j == [job[h] EXCEPT !.pc = "delete"]
                  <4>1. /\ j \in Job /\ j.row = job[h].row /\ j.pc = "delete"
                        /\ j.actor = job[h].actor /\ j.target = job[h].target
                              BY <1>p, <1>5 DEF Job, PCs, RemovePC
                  <4>2. job' = [job EXCEPT ![h] = j]
                        BY <3>2 DEF Go
                  <4> HIDE DEF j
                  <4> QED BY <1>5, <1>g, <2>0, <3>0, <4>1, <4>2
            <3> QED BY <2>2, <3>1, <3>2 DEF Caller
      <2>3. CASE RemoveDelete(h)
            <3>1. Touch(h)
                  BY <2>3 DEF RemoveDelete, Delete, Touch, Present
            <3>2. /\ Finish(h) /\ UNCHANGED <<Subjects, lastId>>
                  /\ removed' = removed \cup {job[h].target}
                  BY <2>3, <1>b DEF RemoveDelete, Removed
            <3> QED BY <1>5, <1>f, <3>1, <3>2
      <2>4. CASE RemoveFails(h)
            <3>1. /\ Finish(h) /\ UNCHANGED <<members, Subjects, lastId>>
                  /\ removed' = removed \cup {job[h].target}
                  BY <2>4, <1>b DEF RemoveFails, Removed
            <3> QED BY <1>5, <1>f, <1>t, <3>1
      <2> QED BY <1>5, <2>1, <2>2, <2>3, <2>4 DEF RemoveStep
<1>6. ASSUME NEW h \in Handlers, KeyStep(h) PROVE Sound'
      <2>0. /\ job[h].pc \in {"member", "key"} /\ job[h].row = NoRow
            /\ UNCHANGED <<members, Subjects, removed, lastId>>
            BY <1>p, <1>b, <1>6 DEF KeyStep, ReadMember, InsertKey, At, Shape
      <2>1. CASE Finish(h)
            BY <2>0, <2>1, <1>6, <1>f, <1>t
      <2>2. CASE Go(h, "key")
            <3> DEFINE j == [job[h] EXCEPT !.pc = "key"]
            <3>1. /\ j \in Job /\ j.row = job[h].row /\ j.pc = "key"
                  /\ j.actor = job[h].actor /\ j.target = job[h].target
                  BY <1>p, <1>6 DEF Job, PCs
            <3>2. job' = [job EXCEPT ![h] = j]
                  BY <2>2 DEF Go
            <3> HIDE DEF j
            <3> QED BY <1>6, <1>g, <2>0, <3>1, <3>2
      <2> QED BY <1>6, <2>1, <2>2 DEF KeyStep, ReadMember, InsertKey
<1>7. ASSUME NEW h \in Handlers, NEW g \in Handlers, DeadlockDetected(h, g)
      PROVE  Sound'
      <2>1. UNCHANGED <<members, Subjects, removed, lastId>>
            BY <1>7, <1>b DEF DeadlockDetected
      <2> QED BY <1>7, <2>1, <1>f, <1>t DEF DeadlockDetected
<1>8. ASSUME NEW h \in Handlers, Abort(h) PROVE Sound'
      BY <1>8, <1>f, <1>t, <1>b DEF Abort
<1>9. ASSUME NEW i \in tokens, Expire(i) PROVE Sound'
      BY <1>9, <1>0, <1>b, StillStep DEF Expire, Subjects
<1>10. ASSUME NEW i \in auditing, AuditInsert(i) PROVE Sound'
      BY <1>10, <1>0, <1>b, StillStep DEF AuditInsert
<1>11. CASE Restart
      <2>1. /\ \A h \in Handlers : job'[h] = Idle
            /\ MemberIds' = MemberIds /\ UNCHANGED <<removed, lastId>>
            /\ Subjects' \subseteq Subjects
            BY <1>11, <1>b DEF Restart, MemberIds, Present, Subjects
      <2>2. Numbered'
            BY <2>1, <1>i, <1>0 DEF Sound, Numbered
      <2>3. \A h \in Handlers : HandlerOK(h)'
            BY <2>1, <1>i DEF HandlerOK, Fresh, Held, NewIds, Counted
      <2> QED BY <1>0, <2>2, <2>3 DEF Sound
<1>12. CASE UNCHANGED vars
      BY <1>12, <1>0, <1>b, StillStep DEF vars
<1>13. ASSUME NEW h \in Handlers, DevStep(h) PROVE Sound'
      <2> DEFINE e == job[h].email
      <2>0. /\ job[h].pc \in {"devInsert", "devOrg"} /\ e \in Emails
            /\ job[h].pc = "devInsert" => job[h].row = NoRow
            /\ job[h].pc = "devOrg" => job[h].row # NoRow
            /\ job[h].role \in Roles
            BY <1>p, <1>13 DEF DevStep, DevExisting, DevNew, DevCommit, At,
                               Shape, AddPC, Job
      <2>1. CASE DevExisting(h)
            <3>1. members[e] \in Row /\ members[e] # NoRow /\ RowFree(h, e)
                  BY <2>0, <2>1, <1>0 DEF DevExisting
            <3>2. /\ members'[e].id = members[e].id
                  /\ \A f \in Emails \ {e} : members'[f] = members[f]
                  BY <2>0, <2>1, <3>1, <1>0 DEF DevExisting, Row
            <3>3. /\ Finish(h) /\ UNCHANGED <<removed, lastId>>
                  /\ Subjects' \subseteq Subjects \cup {members[e].id}
                  BY <2>1, <1>b DEF DevExisting, Subjects
            <3>4. members[e].id \in MemberIds
                  BY <2>0, <3>1, MemberId
            <3> HIDE DEF e
            <3>5. Touch(h)
                  BY <2>0, <3>1, <3>2 DEF Touch
            <3> QED BY <1>13, <1>f, <3>3, <3>4, <3>5
      <2>2. CASE DevNew(h)
            <3> DEFINE q == NewRow(job[h].role, FALSE)
                       j == [job[h] EXCEPT !.pc = "devOrg", !.row = q]
            <3>1. /\ job[h].row = NoRow /\ RowFree(h, e) /\ members[e] = NoRow
                  BY <2>0, <2>2 DEF DevNew, At
            <3>2. /\ job' = [job EXCEPT ![h] = j] /\ lastId' = lastId + 1
                  /\ UNCHANGED <<members, Subjects, removed>>
                  BY <2>2, <1>b DEF DevNew
            <3>3. q \in Row /\ q.id = lastId + 1 /\ ~q.first
                  BY <1>0, <2>0, NewRowType DEF NewRow
            <3> HIDE DEF q
            <3>4. /\ j \in Job /\ j.pc = "devOrg" /\ j.row = q /\ j.email = e
                  /\ j.actor = job[h].actor /\ j.target = job[h].target
                  BY <3>3, <1>p, <1>13 DEF Job, PCs, DevPC
            <3> HIDE DEF j
            <3> QED BY <1>13, <1>0, <2>0, <3>1, <3>2, <3>3, <3>4, HoldStep
      <2>3. CASE DevCommit(h)
            <3>1. /\ job[h].row # NoRow /\ org = NoHandler /\ Finish(h)
                  /\ members' = [members EXCEPT ![job[h].email] = job[h].row]
                  /\ Subjects' \subseteq Subjects \cup {0, job[h].row.id}
                  /\ UNCHANGED <<removed, lastId>>
                  BY <2>0, <2>3, <1>b DEF DevCommit, At, OrgFree, Subjects
            <3>2. \A g \in Handlers \ {h} : job[g].pc \notin LoginTx
                  BY <1>0, <3>1, AccountsAssumption
            <3> QED BY <1>0, <1>13, <3>1, <3>2, CommitStep
      <2> QED BY <1>13, <2>1, <2>2, <2>3 DEF DevStep
<1> QED BY <1>1, <1>2, <1>3, <1>4, <1>5, <1>6, <1>7, <1>8, <1>9, <1>10,
           <1>11, <1>12, <1>13 DEF Next, HandlerStep

-----------------------------------------------------------------------------
(* Who writes members.                                                     *)
LEMMA MembersWriters ==
    ASSUME [Next]_vars
    PROVE  \/ UNCHANGED members
           \/ \E h \in Handlers :
                  \/ LoginCommit(h) \/ InviteCommit(h) \/ DevCommit(h)
                  \/ InviteExisting(h) \/ DevExisting(h)
                  \/ RemoveDelete(h)
<1>1. ASSUME NEW h \in Handlers, Request(h) PROVE UNCHANGED members
      BY <1>1 DEF Request, Login, CreateKey, Invite, Remove, DevStart, Arrive
<1>2. ASSUME NEW h \in Handlers, LoginStep(h) \/ Abort(h)
      PROVE  UNCHANGED members \/ LoginCommit(h)
      BY <1>2 DEF LoginStep, LoginUpsert, LoginCount, LoginInsert, Abort
<1>3. ASSUME NEW h \in Handlers, InviteStep(h)
      PROVE  \/ UNCHANGED members
             \/ InviteCommit(h) \/ InviteExisting(h)
      BY <1>3 DEF InviteStep, InviterOrg, InviteNew
<1>4. ASSUME NEW h \in Handlers, RemoveStep(h)
      PROVE  UNCHANGED members \/ RemoveDelete(h)
      BY <1>4 DEF RemoveStep, TargetOrg, Caller, RemoveFails
<1>5. ASSUME NEW h \in Handlers, RequireRole(h) \/ KeyStep(h)
      PROVE  UNCHANGED members
      BY <1>5 DEF RequireRole, KeyStep, ReadMember, InsertKey
<1>6. ASSUME NEW h \in Handlers, NEW g \in Handlers,
             DeadlockDetected(h, g)
      PROVE  UNCHANGED members
      BY <1>6 DEF DeadlockDetected
<1>7. ASSUME NEW i, Expire(i) \/ AuditInsert(i) \/ Restart
      PROVE  UNCHANGED members
      BY <1>7 DEF Expire, AuditInsert, Restart
<1>8. ASSUME NEW h \in Handlers, DevStep(h)
      PROVE  UNCHANGED members \/ DevExisting(h) \/ DevCommit(h)
      BY <1>8 DEF DevStep, DevNew
<1> QED BY <1>1, <1>2, <1>3, <1>4, <1>5, <1>6, <1>7, <1>8
        DEF Next, HandlerStep, vars

(* Nobody whom a request has removed becomes a member again, and only      *)
(* RemoveDelete takes members away.                                        *)
LEMMA MembersChange ==
    ASSUME Sound, [Next]_vars
    PROVE  /\ MemberIds' \cap removed \subseteq MemberIds
           /\ \/ MemberIds \subseteq MemberIds'
              \/ \E h \in Handlers : RemoveDelete(h)
<1>0. /\ Typed /\ members \in [Emails -> Row \cup {NoRow}]
      /\ \A h \in Handlers : Shape(h)
      BY DEF Sound, Typed, TypeOK
<1>1. CASE UNCHANGED members
      BY <1>1, MemberId, MemberIdNext
<1>2. ASSUME NEW h \in Handlers,
             LoginCommit(h) \/ InviteCommit(h) \/ DevCommit(h)
      PROVE  /\ MemberIds' \cap removed \subseteq MemberIds
             /\ MemberIds \subseteq MemberIds'
      <2>1. /\ job[h].row # NoRow
            /\ members' = [members EXCEPT ![job[h].email] = job[h].row]
            BY <1>0, <1>2 DEF LoginCommit, InviteCommit, DevCommit, At, Shape
      <2>2. /\ MemberIds' = MemberIds \cup {job[h].row.id}
            /\ ~Fresh(h) => UNCHANGED members /\ job[h].row.id \in MemberIds
            BY <1>2, <2>1, CommitIds
      <2>3. Fresh(h) => job[h].row.id \notin removed
            BY <1>2 DEF Sound, HandlerOK, NewIds, Unused
      <2> QED BY <2>2, <2>3
<1>3. ASSUME NEW h \in Handlers, InviteExisting(h) \/ DevExisting(h)
      PROVE  MemberIds' = MemberIds
      <2> DEFINE e == job[h].email
      <2>1. /\ e \in Emails /\ members[e] # NoRow
            BY <1>0, <1>3
               DEF InviteExisting, DevExisting, At, Shape, InvitePC, AddPC
      <2>2. members[e] \in Row
            BY <1>0, <2>1
      <2>3. /\ members'[e] # NoRow /\ members'[e].id = members[e].id
            /\ \A f \in Emails \ {e} : members'[f] = members[f]
            <3>1. /\ members'[e] = [members[e] EXCEPT !.role = job[h].role,
                                                     !.first = FALSE]
                  /\ \A f \in Emails \ {e} : members'[f] = members[f]
                  BY <1>0, <1>3, <2>1 DEF InviteExisting, DevExisting
            <3>2. job[h].role \in Roles
                  BY <1>0, <1>3 DEF Typed, TypeOK, Job
            <3>3. members'[e] \in Row
                  BY <2>2, <3>1, <3>2 DEF Row
            <3> QED BY <2>2, <3>1, <3>3, AccountsAssumption DEF Row
      <2> HIDE DEF e
      <2>4. ASSUME NEW i PROVE i \in MemberIds' <=> i \in MemberIds
            <3>1. ASSUME i \in MemberIds PROVE i \in MemberIds'
                  BY <2>1, <2>3, <3>1, MemberId, MemberIdNext
            <3>2. ASSUME i \in MemberIds' PROVE i \in MemberIds
                  BY <2>1, <2>3, <3>2, MemberId, MemberIdNext
            <3> QED BY <3>1, <3>2
      <2> QED BY <2>4
<1>4. ASSUME NEW h \in Handlers, RemoveDelete(h)
      PROVE  MemberIds' \subseteq MemberIds
      <2>1. Touch(h)
            BY <1>4 DEF RemoveDelete, Delete, Touch, Present
      <2> QED BY <1>4, <2>1, TouchIds
<1> QED BY <1>1, <1>2, <1>3, <1>4, MembersWriters

(* Keys and audit entries have members they name, whatever is removed and  *)
(* whenever the late goroutines of the audit log insert.                   *)
LEMMA AttributableNext == Sound /\ Attributable /\ [Next]_vars => Attributable'
<1> SUFFICES ASSUME Sound, Attributable, [Next]_vars PROVE Attributable'
    OBVIOUS
<1>1. ASSUME NEW h \in Handlers, RemoveDelete(h) PROVE Attributable'
      <2>1. UNCHANGED <<keys, audit>>
            BY <1>1 DEF RemoveDelete
      <2>2. ASSUME NEW i \in keys \cup audit PROVE i \in MemberIds'
            <3>1. PICK e \in Emails : members[e] # NoRow /\ members[e].id = i
                  BY MemberId DEF Attributable
            <3>2. CASE Referenced(job[h].target)
                  <4>1. members' = members
                        BY <1>1, <3>2 DEF RemoveDelete
                  <4> QED BY <3>1, <4>1, MemberIdNext
            <3>3. CASE ~Referenced(job[h].target)
                  <4>1. members[e].id # job[h].target
                        BY <3>1, <3>3 DEF Referenced
                  <4>2. members'[e] = members[e]
                        BY <1>1, <3>3, <4>1 DEF RemoveDelete, Delete
                  <4> QED BY <3>1, <4>2, MemberIdNext
            <3> QED BY <3>2, <3>3
      <2> QED BY <2>1, <2>2 DEF Attributable
<1>2. keys' \cup audit' \subseteq MemberIds
      <2>1. UNCHANGED refs => UNCHANGED <<keys, audit>>
            BY DEF refs
      <2>2. ASSUME NEW h \in Handlers, Request(h)
            PROVE  UNCHANGED <<keys, audit>>
            BY <2>1, <2>2 DEF Request, Login, CreateKey, Invite, Remove,
                              DevStart, Arrive
      <2>3. ASSUME NEW h \in Handlers, LoginStep(h) \/ Abort(h)
            PROVE  UNCHANGED <<keys, audit>>
            BY <2>1, <2>3 DEF LoginStep, LoginUpsert, LoginCount, LoginInsert,
                              LoginCommit, Abort
      <2>4. ASSUME NEW h \in Handlers, InviteStep(h)
            PROVE  UNCHANGED <<keys, audit>>
            BY <2>1, <2>4 DEF InviteStep, InviterOrg, InviteNew, InviteCommit,
                              InviteExisting
      <2>5. ASSUME NEW h \in Handlers, RemoveStep(h)
            PROVE  UNCHANGED <<keys, audit>>
            BY <2>1, <2>5 DEF RemoveStep, TargetOrg, Caller, RemoveFails,
                              RemoveDelete
      <2>6. ASSUME NEW h \in Handlers, RequireRole(h) \/ ReadMember(h)
            PROVE  UNCHANGED <<keys, audit>>
            BY <2>1, <2>6 DEF RequireRole, ReadMember
      <2>7. ASSUME NEW h \in Handlers, InsertKey(h)
            PROVE  keys' \cup audit' \subseteq MemberIds
            BY <2>7 DEF InsertKey, Attributable
      <2>8. ASSUME NEW h \in Handlers, NEW g \in Handlers,
                   DeadlockDetected(h, g)
            PROVE  UNCHANGED <<keys, audit>>
            BY <2>1, <2>8 DEF DeadlockDetected
      <2>9. ASSUME NEW i, Expire(i) \/ Restart
            PROVE  UNCHANGED <<keys, audit>>
            BY <2>1, <2>9 DEF Expire, Restart
      <2>10. ASSUME NEW i, AuditInsert(i)
            PROVE  keys' \cup audit' \subseteq MemberIds
            BY <2>10 DEF AuditInsert, Attributable
      <2>13. ASSUME NEW h \in Handlers, DevStep(h)
            PROVE  UNCHANGED <<keys, audit>>
            BY <2>1, <2>13 DEF DevStep, DevExisting, DevNew, DevCommit
      <2>11. CASE UNCHANGED vars
            BY <2>1, <2>11 DEF vars, Attributable
      <2>12. CASE UNCHANGED <<keys, audit>>
            BY <2>12 DEF Attributable
      <2> QED BY <2>2, <2>3, <2>4, <2>5, <2>6, <2>7, <2>8, <2>9, <2>10,
                 <2>11, <2>12, <2>13 DEF Next, HandlerStep, KeyStep
<1> QED BY <1>1, <1>2, MembersChange DEF Attributable

(* Who was reported as removed and is still a member: its DELETE found a   *)
(* reference, which stays, or went wrong.                                  *)
LEMMA RemovedNext ==
    Sound /\ RemovedOrReferenced /\ [Next]_vars => RemovedOrReferenced'
<1> SUFFICES ASSUME Sound, RemovedOrReferenced, [Next]_vars,
                    NEW i \in removed', i \in MemberIds'
             PROVE  Referenced(i)' \/ i \in failed'
    BY DEF RemovedOrReferenced
<1>1. ASSUME NEW h \in Handlers, RemoveDelete(h)
      PROVE  Referenced(i)' \/ i \in failed'
      <2>0. /\ removed' = removed \cup {job[h].target}
            /\ UNCHANGED <<keys, audit, failed>>
            BY <1>1 DEF RemoveDelete, Removed
      <2>1. CASE i \in removed
            BY <2>0, <2>1, MembersChange DEF RemovedOrReferenced, Referenced
      <2>2. CASE i = job[h].target
            <3>1. CASE Referenced(i)
                  BY <2>0, <3>1 DEF Referenced
            <3>2. CASE ~Referenced(i)
                  <4>1. PICK e \in Emails :
                            members'[e] # NoRow /\ members'[e].id = i
                        BY MemberIdNext
                  <4> QED BY <1>1, <2>2, <3>2, <4>1
                          DEF RemoveDelete, Delete, Present
            <3> QED BY <3>1, <3>2
      <2> QED BY <2>0, <2>1, <2>2
<1>2. ASSUME NEW h \in Handlers, RemoveFails(h)
      PROVE  Referenced(i)' \/ i \in failed'
      <2>0. /\ removed' = removed \cup {job[h].target}
            /\ UNCHANGED <<members, keys, audit>>
            /\ failed' = failed \cup {job[h].target}
            BY <1>2 DEF RemoveFails, Removed
      <2> QED BY <2>0, MembersChange DEF RemovedOrReferenced, Referenced
<1>3. ASSUME removed' = removed, failed' = failed, keys \subseteq keys',
             audit \subseteq audit'
      PROVE  Referenced(i)' \/ i \in failed'
      BY <1>3, MembersChange DEF RemovedOrReferenced, Referenced
<1>u. /\ UNCHANGED refs => UNCHANGED <<keys, audit>>
      /\ UNCHANGED history => UNCHANGED <<removed, failed>>
      BY DEF refs, history
<1>4. ASSUME NEW h \in Handlers, Request(h)
      PROVE  UNCHANGED <<removed, failed, keys, audit>>
      BY <1>4, <1>u DEF Request, Login, CreateKey, Invite, Remove, DevStart,
                        Arrive
<1>5. ASSUME NEW h \in Handlers, LoginStep(h) \/ Abort(h)
      PROVE  UNCHANGED <<removed, failed, keys, audit>>
      BY <1>5, <1>u DEF LoginStep, LoginUpsert, LoginCount, LoginInsert,
                        LoginCommit, Abort
<1>6. ASSUME NEW h \in Handlers, InviteStep(h)
      PROVE  UNCHANGED <<removed, failed, keys, audit>>
      BY <1>6, <1>u DEF InviteStep, InviterOrg, InviteNew, InviteCommit,
                        InviteExisting
<1>7. ASSUME NEW h \in Handlers,
             RequireRole(h) \/ TargetOrg(h) \/ Caller(h) \/ ReadMember(h)
      PROVE  UNCHANGED <<removed, failed, keys, audit>>
      BY <1>7, <1>u DEF RequireRole, TargetOrg, Caller, ReadMember
<1>8. ASSUME NEW h \in Handlers, InsertKey(h)
      PROVE  UNCHANGED <<removed, failed>> /\ keys \subseteq keys'
                 /\ audit \subseteq audit'
      BY <1>8, <1>u DEF InsertKey
<1>9. ASSUME NEW h \in Handlers, NEW g \in Handlers, DeadlockDetected(h, g)
      PROVE  UNCHANGED <<removed, failed, keys, audit>>
      BY <1>9, <1>u DEF DeadlockDetected
<1>10. ASSUME NEW t, Expire(t) \/ Restart
      PROVE  UNCHANGED <<removed, failed, keys, audit>>
      BY <1>10, <1>u DEF Expire, Restart
<1>11. ASSUME NEW t, AuditInsert(t)
      PROVE  UNCHANGED <<removed, failed>> /\ keys \subseteq keys'
                 /\ audit \subseteq audit'
      BY <1>11, <1>u DEF AuditInsert
<1>12. CASE UNCHANGED vars
      BY <1>12, <1>u, <1>3 DEF vars
<1>13. ASSUME NEW h \in Handlers, DevStep(h)
      PROVE  UNCHANGED <<removed, failed, keys, audit>>
      BY <1>13, <1>u DEF DevStep, DevExisting, DevNew, DevCommit
<1> QED BY <1>1, <1>2, <1>3, <1>4, <1>5, <1>6, <1>7, <1>8, <1>9, <1>10,
           <1>11, <1>12, <1>13 DEF Next, HandlerStep, RemoveStep, KeyStep

(* Only a login that found nobody adds an administrator of its own accord. *)
LEMMA FirstStep ==
    ASSUME Sound, [Next]_vars, NEW e \in Emails,
           members'[e] # NoRow, members'[e].first, members[e] # members'[e]
    PROVE  Present = {}
<1>0. /\ Typed /\ members \in [Emails -> Row \cup {NoRow}]
      /\ \A h \in Handlers : Shape(h) /\ HandlerOK(h)
      BY DEF Sound, Typed, TypeOK
<1>1. CASE UNCHANGED members
      BY <1>1
<1>2. ASSUME NEW h \in Handlers,
             LoginCommit(h) \/ InviteCommit(h) \/ DevCommit(h)
      PROVE  Present = {}
      <2>1. /\ job[h].row # NoRow /\ job[h].pc \in {"commit", "fkOrg", "devOrg"}
            /\ members' = [members EXCEPT ![job[h].email] = job[h].row]
            BY <1>0, <1>2 DEF LoginCommit, InviteCommit, DevCommit, At, Shape
      <2>2. /\ members'[job[h].email] = job[h].row
            /\ \A f \in Emails \ {job[h].email} : members'[f] = members[f]
            /\ ~Fresh(h) => UNCHANGED members
            BY <1>2, <2>1, CommitIds
      <2>3. e = job[h].email /\ Fresh(h) /\ job[h].row.first
            BY <2>2
      <2> QED BY <1>0, <1>2, <2>1, <2>3 DEF HandlerOK, Counted, Held
<1>3. ASSUME NEW h \in Handlers, InviteExisting(h) \/ DevExisting(h)
      PROVE  FALSE
      <2> DEFINE f == job[h].email
      <2>1. f \in Emails /\ members[f] \in Row
            BY <1>0, <1>3
               DEF InviteExisting, DevExisting, At, Shape, InvitePC, AddPC
      <2>2. /\ members'[f] = [members[f] EXCEPT !.role = job[h].role,
                                               !.first = FALSE]
            /\ \A d \in Emails \ {f} : members'[d] = members[d]
            BY <1>0, <1>3, <2>1 DEF InviteExisting, DevExisting
      <2>3. ~members'[f].first
            BY <2>1, <2>2 DEF Row
      <2> HIDE DEF f
      <2> QED BY <2>2, <2>3
<1>4. ASSUME NEW h \in Handlers, RemoveDelete(h) PROVE FALSE
      BY <1>4 DEF RemoveDelete, Delete
<1> QED BY <1>1, <1>2, <1>3, <1>4, MembersWriters

-----------------------------------------------------------------------------
(* Who administers the organisation.  A handler past RequireRole has seen  *)
(* an administrator; a login that adds a developer has counted a member.   *)
Administered == AdminIds # {} \/ ousted

Rights(h) ==
    /\ job[h].pc \in ActingPC \ {"key"} => Administered
    /\ job[h].pc = "insert" /\ job[h].role # "admin" => Administered
    /\ job[h].pc = "commit" /\ job[h].row.role # "admin" => Administered
    /\ job[h].pc = "devInsert" => job[h].role = "admin"
    /\ job[h].pc = "devOrg" => job[h].row.role = "admin"

AdminOK == AdminUnlessOusted /\ \A h \in Handlers : Rights(h)

LEMMA Admin ==
    AdminIds # {} <=> \E e \in Emails : members[e] # NoRow
                                           /\ members[e].role = "admin"
BY DEF AdminIds, Present

LEMMA AdminNext ==
    AdminIds' # {} <=> \E e \in Emails : members'[e] # NoRow
                                            /\ members'[e].role = "admin"
BY DEF AdminIds, Present

(* No step takes an ousting back.                                          *)
LEMMA OustedStays == [Next]_vars /\ ousted => ousted'
<1> SUFFICES ASSUME [Next]_vars, ousted PROVE ousted'
    OBVIOUS
<1>u. UNCHANGED history => UNCHANGED ousted
      BY DEF history
<1>1. ASSUME NEW h \in Handlers, Request(h) PROVE ousted'
      BY <1>1, <1>u DEF Request, Login, CreateKey, Invite, Remove, DevStart,
                        Arrive
<1>2. ASSUME NEW h \in Handlers, LoginStep(h) \/ Abort(h) PROVE ousted'
      BY <1>2, <1>u DEF LoginStep, LoginUpsert, LoginCount, LoginInsert,
                        LoginCommit, Abort
<1>3. ASSUME NEW h \in Handlers, InviteStep(h) PROVE ousted'
      BY <1>3, <1>u DEF InviteStep, InviterOrg, InviteNew, InviteCommit,
                        InviteExisting
<1>4. ASSUME NEW h \in Handlers, RemoveStep(h) PROVE ousted'
      BY <1>4, <1>u DEF RemoveStep, TargetOrg, Caller, RemoveDelete,
                        RemoveFails
<1>5. ASSUME NEW h \in Handlers, RequireRole(h) \/ KeyStep(h) PROVE ousted'
      BY <1>5, <1>u DEF RequireRole, KeyStep, ReadMember, InsertKey
<1>6. ASSUME NEW h \in Handlers, DevStep(h) PROVE ousted'
      BY <1>6, <1>u DEF DevStep, DevExisting, DevNew, DevCommit
<1>7. ASSUME NEW h \in Handlers, NEW g \in Handlers, DeadlockDetected(h, g)
      PROVE  ousted'
      BY <1>7, <1>u DEF DeadlockDetected
<1>8. ASSUME NEW i, Expire(i) \/ AuditInsert(i) \/ Restart PROVE ousted'
      BY <1>8, <1>u DEF Expire, AuditInsert, Restart
<1>9. CASE UNCHANGED vars
      BY <1>9, <1>u DEF vars
<1> QED BY <1>1, <1>2, <1>3, <1>4, <1>5, <1>6, <1>7, <1>8, <1>9
        DEF Next, HandlerStep

(* An administrator stays, unless a request ousts it; and who adds members *)
(* leaves them an administrator.                                           *)
LEMMA AdministeredNext ==
    ASSUME Sound, AdminOK, [Next]_vars
    PROVE  /\ Administered => Administered'
           /\ AdminUnlessOusted'
<1>0. /\ members \in [Emails -> Row \cup {NoRow}]
      /\ job \in [Handlers -> Job] /\ \A h \in Handlers : Shape(h)
      BY DEF Sound, Typed, TypeOK
<1>o. ousted => ousted'
      BY OustedStays
<1>1. CASE UNCHANGED members
      <2>1. AdminIds' = AdminIds /\ Present' = Present
            BY <1>1 DEF AdminIds, Present
      <2> QED BY <1>o, <2>1 DEF AdminOK, AdminUnlessOusted, Administered
<1>2. ASSUME NEW h \in Handlers,
             LoginCommit(h) \/ InviteCommit(h) \/ DevCommit(h)
      PROVE  (Administered => Administered') /\ AdminUnlessOusted'
      <2>1. /\ job[h].row # NoRow /\ job[h].pc \in {"commit", "fkOrg", "devOrg"}
            /\ members' = [members EXCEPT ![job[h].email] = job[h].row]
            BY <1>0, <1>2 DEF LoginCommit, InviteCommit, DevCommit, At, Shape
      <2>2. /\ job[h].email \in Emails
            /\ members'[job[h].email] = job[h].row
            /\ \A f \in Emails \ {job[h].email} : members'[f] = members[f]
            /\ members[job[h].email] \in {NoRow, job[h].row}
            BY <1>2, <2>1, CommitIds DEF Sound, HandlerOK, Held
      <2>3. AdminIds # {} => AdminIds' # {}
            BY <2>1, <2>2, Admin, AdminNext
      <2>4. job[h].row.role = "admin" => AdminIds' # {}
            BY <2>1, <2>2, AdminNext
      <2>5. job[h].row.role = "admin" \/ Administered
            BY <2>1 DEF AdminOK, Rights, ActingPC
      <2> QED BY <1>o, <2>3, <2>4, <2>5 DEF Administered, AdminUnlessOusted
<1>3. ASSUME NEW h \in Handlers, InviteExisting(h) \/ DevExisting(h)
      PROVE  (Administered => Administered') /\ AdminUnlessOusted'
      <2> DEFINE e == job[h].email
      <2>1. e \in Emails /\ members[e] \in Row /\ members[e] # NoRow
            BY <1>0, <1>3
               DEF InviteExisting, DevExisting, At, Shape, InvitePC, AddPC
      <2>2. /\ members'[e] = [members[e] EXCEPT !.role = job[h].role,
                                               !.first = FALSE]
            /\ \A f \in Emails \ {e} : members'[f] = members[f]
            BY <1>0, <1>3, <2>1 DEF InviteExisting, DevExisting
      <2>3. job[h].role \in Roles
            BY <1>0, <1>3 DEF Job
      <2>4. members'[e].role = job[h].role /\ members'[e] # NoRow
            <3>1. members'[e].role = job[h].role /\ members'[e] \in Row
                  BY <2>1, <2>2, <2>3 DEF Row
            <3> QED BY <3>1, AccountsAssumption
      <2>5. \/ members[e].role = "admin" => job[h].role = "admin"
            \/ ousted'
            <3>1. CASE InviteExisting(h)
                  BY <3>1 DEF InviteExisting
            <3>2. CASE DevExisting(h)
                  BY <3>2 DEF DevExisting, At, AdminOK, Rights
            <3> QED BY <1>3, <3>1, <3>2
      <2> HIDE DEF e
      <2>6. AdminIds # {} => AdminIds' # {} \/ ousted'
            <3>1. SUFFICES ASSUME AdminIds # {}, ~ousted' PROVE AdminIds' # {}
                  OBVIOUS
            <3>2. PICK f \in Emails :
                      members[f] # NoRow /\ members[f].role = "admin"
                  BY <3>1, Admin
            <3>3. members'[f] # NoRow /\ members'[f].role = "admin"
                  BY <2>1, <2>2, <2>4, <2>5, <3>1, <3>2
            <3> QED BY <3>3, AdminNext
      <2>7. Administered => Administered'
            BY <1>o, <2>6 DEF Administered
      <2>8. Administered
            BY <2>1 DEF AdminOK, AdminUnlessOusted, Administered, Present
      <2> QED BY <2>7, <2>8 DEF AdminUnlessOusted, Administered
<1>4. ASSUME NEW h \in Handlers, RemoveDelete(h)
      PROVE  (Administered => Administered') /\ AdminUnlessOusted'
      <2> DEFINE t == job[h].target
      <2>1. \/ UNCHANGED members
            \/ Delete(t) /\ (t \in AdminIds => ousted')
            BY <1>4 DEF RemoveDelete
      <2>2. CASE UNCHANGED members
            BY <1>1, <2>2
      <2>3. CASE Delete(t) /\ (t \in AdminIds => ousted')
            <3>1. \A f \in Emails : members'[f] \in {NoRow, members[f]}
                  BY <2>3 DEF Delete
            <3>2. AdminIds # {} => AdminIds' # {} \/ ousted'
                  <4>1. SUFFICES ASSUME AdminIds # {}, ~ousted'
                                 PROVE  AdminIds' # {}
                        OBVIOUS
                  <4>2. PICK f \in Emails :
                            members[f] # NoRow /\ members[f].role = "admin"
                        BY <4>1, Admin
                  <4>3. members[f].id \in AdminIds
                        BY <4>2 DEF AdminIds, Present
                  <4>4. members'[f] = members[f]
                        BY <2>3, <4>1, <4>2, <4>3 DEF Delete
                  <4> QED BY <4>2, <4>4, AdminNext
            <3>3. Administered => Administered'
                  BY <1>o, <3>2 DEF Administered
            <3>4. Present' # {} => Present # {}
                  BY <3>1 DEF Present
            <3> QED BY <3>3, <3>4
                    DEF AdminOK, AdminUnlessOusted, Administered
      <2> QED BY <2>1, <2>2, <2>3
<1> QED BY <1>1, <1>2, <1>3, <1>4, MembersWriters

(* A step of handler h, seen from the administrators.                      *)
LEMMA RightsStep ==
    ASSUME Sound, AdminOK, Administered => Administered',
           NEW h \in Handlers, NEW j, job' = [job EXCEPT ![h] = j],
           j.pc \in ActingPC \ {"key"} => Administered,
           j.pc = "insert" /\ j.role # "admin" => Administered,
           j.pc = "commit" /\ j.row.role # "admin" => Administered,
           j.pc = "devInsert" => j.role = "admin",
           j.pc = "devOrg" => j.row.role = "admin"
    PROVE  \A g \in Handlers : Rights(g)'
<1>1. /\ job'[h] = j
      /\ \A g \in Handlers \ {h} : job'[g] = job[g]
      BY DEF Sound, Typed, TypeOK
<1>2. ASSUME NEW g \in Handlers PROVE Rights(g)'
      <2>1. CASE g = h
            BY <1>1, <2>1 DEF Rights
      <2>2. CASE g # h
            BY <1>1, <2>2 DEF Rights, AdminOK
      <2> QED BY <2>1, <2>2
<1> QED BY <1>2

(* Only RequireRole lets a request of an administrator pass, and only the  *)
(* count of nobody makes a login an administrator's.                       *)
LEMMA RightsNext ==
    ASSUME Sound, AdminOK, [Next]_vars, Administered => Administered'
    PROVE  \A g \in Handlers : Rights(g)'
<1>0. /\ job \in [Handlers -> Job] /\ lastId \in Nat
      /\ members \in [Emails -> Row \cup {NoRow}]
      /\ \A h \in Handlers : Rights(h) /\ Shape(h)
      BY DEF Sound, Typed, TypeOK, AdminOK
<1>a. /\ AdminIds # {} => Administered
      /\ Present # {} => Administered
      BY DEF AdminOK, AdminUnlessOusted, Administered
<1>k. UNCHANGED job => \A g \in Handlers : Rights(g)'
      BY <1>0 DEF Rights
<1>f. ASSUME NEW h \in Handlers, Finish(h)
      PROVE  \A g \in Handlers : Rights(g)'
      <2>1. Idle.pc = "idle"
            BY DEF Idle
      <2> QED BY <1>f, <2>1, RightsStep DEF Finish, ActingPC
<1>g. ASSUME NEW h \in Handlers, NEW to, Go(h, to),
             to \in ActingPC \ {"key"} => Administered,
             to \notin {"insert", "commit", "devInsert", "devOrg"}
      PROVE  \A g \in Handlers : Rights(g)'
      <2> DEFINE j == [job[h] EXCEPT !.pc = to]
      <2>1. job[h] \in Job
            BY <1>0, <1>g
      <2>2. j.pc = to
            BY <2>1 DEF Job
      <2>3. job' = [job EXCEPT ![h] = j]
            BY <1>g DEF Go
      <2> HIDE DEF j
      <2> QED BY <1>g, <2>2, <2>3, RightsStep
<1>1. ASSUME NEW h \in Handlers, Request(h)
      PROVE  \A g \in Handlers : Rights(g)'
      <2>a. ASSUME NEW j, Arrive(h, j),
                   \/ j.pc \in {"upsert", "member", "inviteRole", "removeRole"}
                   \/ j.pc = "devInsert" /\ j.role = "admin"
            PROVE  \A g \in Handlers : Rights(g)'
            BY <1>1, <2>a, RightsStep DEF Arrive, ActingPC
      <2>1. ASSUME NEW e \in Emails, Login(h, e)
            PROVE  \A g \in Handlers : Rights(g)'
            BY <2>1, <2>a DEF Login, Idle
      <2>2. ASSUME NEW i \in Subjects, CreateKey(h, i)
            PROVE  \A g \in Handlers : Rights(g)'
            BY <2>2, <2>a DEF CreateKey, WithClaims, Idle
      <2>3. ASSUME NEW i \in Subjects, NEW e \in Emails, NEW r \in Roles,
                   Invite(h, i, e, r)
            PROVE  \A g \in Handlers : Rights(g)'
            BY <2>3, <2>a DEF Invite, WithClaims, Idle
      <2>4. ASSUME NEW i \in Subjects, NEW t \in 1..lastId, Remove(h, i, t)
            PROVE  \A g \in Handlers : Rights(g)'
            BY <2>4, <2>a DEF Remove, WithClaims, Idle
      <2>5. ASSUME NEW e \in DevEmails, DevStart(h, e)
            PROVE  \A g \in Handlers : Rights(g)'
            BY <2>5, <2>a DEF DevStart, Idle
      <2> QED BY <1>1, <2>1, <2>2, <2>3, <2>4, <2>5 DEF Request
<1>2. ASSUME NEW h \in Handlers, LoginStep(h)
      PROVE  \A g \in Handlers : Rights(g)'
      <2>0. job[h] \in Job
            BY <1>0, <1>2
      <2>1. CASE LoginUpsert(h)
            BY <2>1, <1>2, <1>g DEF LoginUpsert, ActingPC
      <2>2. CASE LoginCount(h)
            <3> DEFINE r == IF Present = {} THEN "admin" ELSE "developer"
                       j == [job[h] EXCEPT !.pc = "insert", !.role = r]
            <3>1. j.pc = "insert" /\ j.role = r
                  BY <2>0 DEF Job
            <3>2. job' = [job EXCEPT ![h] = j]
                  BY <2>2 DEF LoginCount
            <3>3. r # "admin" => Administered
                  BY <1>a
            <3> HIDE DEF j, r
            <3> QED BY <1>2, <3>1, <3>2, <3>3, RightsStep DEF ActingPC
      <2>3. CASE LoginInsert(h)
            <3> DEFINE e == job[h].email
                       f == job[h].role = "admin"
                       r == IF members[e] = NoRow
                            THEN NewRow(job[h].role, f) ELSE members[e]
                       j == [job[h] EXCEPT !.pc = "commit", !.row = r]
            <3>1. job[h].pc = "insert" /\ e \in Emails
                  BY <2>3, <1>0, <1>2 DEF LoginInsert, At, Shape, AddPC, LoginTx
            <3>2. r.role # "admin" => Administered
                  <4>1. CASE members[e] = NoRow
                        BY <1>0, <1>2, <3>1, <4>1 DEF NewRow, Rights
                  <4>2. CASE members[e] # NoRow
                        BY <1>a, <3>1, <4>2 DEF Present
                  <4> QED BY <4>1, <4>2
            <3>3. job' = [job EXCEPT ![h] = j]
                  BY <2>3 DEF LoginInsert
            <3> HIDE DEF r
            <3>4. j.pc = "commit" /\ j.row = r
                  BY <2>0 DEF Job
            <3> HIDE DEF j
            <3> QED BY <1>2, <3>2, <3>3, <3>4, RightsStep DEF ActingPC
      <2>4. CASE LoginCommit(h)
            BY <2>4, <1>2, <1>f DEF LoginCommit
      <2> QED BY <1>2, <2>1, <2>2, <2>3, <2>4 DEF LoginStep
<1>3. ASSUME NEW h \in Handlers, RequireRole(h)
      PROVE  \A g \in Handlers : Rights(g)'
      <2>1. CASE Finish(h)
            BY <2>1, <1>3, <1>f
      <2>2. ASSUME NEW to \in {"inviterOrg", "targetOrg"}, Go(h, to),
                   job[h].actor \in AdminIds
            PROVE  \A g \in Handlers : Rights(g)'
            BY <2>2, <1>3, <1>a, <1>g
      <2> QED BY <1>3, <2>1, <2>2 DEF RequireRole, Passes
<1>4. ASSUME NEW h \in Handlers, InviteStep(h)
      PROVE  \A g \in Handlers : Rights(g)'
      <2>0. job[h] \in Job /\ Administered
            BY <1>0, <1>4
               DEF InviteStep, InviterOrg, InviteExisting, InviteNew,
                   InviteCommit, At, Rights, ActingPC
      <2>1. CASE InviterOrg(h)
            BY <2>0, <2>1, <1>4, <1>f, <1>g DEF InviterOrg
      <2>2. CASE InviteNew(h)
            <3> DEFINE q == NewRow(job[h].role, FALSE)
                       j == [job[h] EXCEPT !.pc = "fkOrg", !.row = q]
            <3>1. job' = [job EXCEPT ![h] = j]
                  BY <2>2 DEF InviteNew
            <3>2. j.pc = "fkOrg"
                  BY <2>0 DEF Job
            <3> HIDE DEF j
            <3> QED BY <1>4, <2>0, <3>1, <3>2, RightsStep
      <2>3. CASE InviteExisting(h) \/ InviteCommit(h)
            BY <2>3, <1>4, <1>f DEF InviteExisting, InviteCommit
      <2> QED BY <1>4, <2>1, <2>2, <2>3 DEF InviteStep
<1>5. ASSUME NEW h \in Handlers, RemoveStep(h)
      PROVE  \A g \in Handlers : Rights(g)'
      <2>0. job[h] \in Job /\ Administered
            BY <1>0, <1>5
               DEF RemoveStep, TargetOrg, Caller, RemoveDelete, RemoveFails,
                   At, Rights, ActingPC
      <2>1. CASE TargetOrg(h)
            <3> DEFINE b == job[h].target \in MemberIds
                       j == [job[h] EXCEPT !.pc = "caller", !.found = b]
            <3>1. job' = [job EXCEPT ![h] = j]
                  BY <2>1 DEF TargetOrg
            <3>2. j.pc = "caller"
                  BY <2>0 DEF Job
            <3> HIDE DEF j
            <3> QED BY <1>5, <2>0, <3>1, <3>2, RightsStep
      <2>2. CASE Caller(h)
            BY <2>0, <2>2, <1>5, <1>f, <1>g DEF Caller
      <2>3. CASE RemoveDelete(h) \/ RemoveFails(h)
            BY <2>3, <1>5, <1>f DEF RemoveDelete, RemoveFails, Removed
      <2> QED BY <1>5, <2>1, <2>2, <2>3 DEF RemoveStep
<1>6. ASSUME NEW h \in Handlers, KeyStep(h)
      PROVE  \A g \in Handlers : Rights(g)'
      BY <1>6, <1>f, <1>g DEF KeyStep, ReadMember, InsertKey
<1>7. ASSUME NEW h \in Handlers, DevStep(h)
      PROVE  \A g \in Handlers : Rights(g)'
      <2>1. CASE DevExisting(h) \/ DevCommit(h)
            BY <2>1, <1>7, <1>f DEF DevExisting, DevCommit
      <2>2. CASE DevNew(h)
            <3> DEFINE q == NewRow(job[h].role, FALSE)
                       j == [job[h] EXCEPT !.pc = "devOrg", !.row = q]
            <3>1. job' = [job EXCEPT ![h] = j]
                  BY <2>2 DEF DevNew
            <3>2. job[h].role = "admin"
                  BY <2>2, <1>0, <1>7 DEF DevNew, At, Rights
            <3>3. q.role = "admin"
                  BY <3>2 DEF NewRow
            <3> HIDE DEF q
            <3>4. j.pc = "devOrg" /\ j.row = q
                  BY <1>0, <1>7 DEF Job
            <3> HIDE DEF j
            <3> QED BY <1>7, <3>1, <3>3, <3>4, RightsStep DEF ActingPC
      <2> QED BY <1>7, <2>1, <2>2 DEF DevStep
<1>8. ASSUME NEW h \in Handlers, NEW g \in Handlers, DeadlockDetected(h, g)
      PROVE  \A k \in Handlers : Rights(k)'
      BY <1>8, <1>f DEF DeadlockDetected
<1>9. ASSUME NEW h \in Handlers, Abort(h)
      PROVE  \A g \in Handlers : Rights(g)'
      BY <1>9, <1>f DEF Abort
<1>10. ASSUME NEW i, Expire(i) \/ AuditInsert(i)
       PROVE  \A g \in Handlers : Rights(g)'
       BY <1>10, <1>k DEF Expire, AuditInsert
<1>11. CASE Restart
       <2>1. \A g \in Handlers : job'[g].pc = "idle"
             BY <1>11 DEF Restart, Idle
       <2> QED BY <2>1 DEF Rights, ActingPC
<1>12. CASE UNCHANGED vars
       BY <1>12, <1>k DEF vars
<1> QED BY <1>1, <1>2, <1>3, <1>4, <1>5, <1>6, <1>7, <1>8, <1>9, <1>10,
           <1>11, <1>12 DEF Next, HandlerStep

-----------------------------------------------------------------------------
LEMMA SoundSpec == Spec => []Sound
BY SoundInit, SoundNext, PTL DEF Spec

(* Foreign keys without ON DELETE keep every key and every audit entry     *)
(* attributed to a member that is there.                                   *)
THEOREM AccountsAttributable == Spec => []Attributable
<1>1. Init => Attributable
      BY DEF Init, Attributable
<1> QED BY <1>1, AttributableNext, SoundSpec, PTL DEF Spec

(* RemoveMember's "removed" is true unless the DELETE failed, and no login *)
(* or invitation that was under way brings the member back.                *)
THEOREM AccountsRemoved == Spec => []RemovedOrReferenced
<1>1. Init => RemovedOrReferenced
      BY DEF Init, RemovedOrReferenced
<1> QED BY <1>1, RemovedNext, SoundSpec, PTL DEF Spec

(* Who has members has an administrator, until a request removes or        *)
(* demotes one: a handler that adds or removes members has seen one in     *)
(* RequireRole, a login has counted the members before it adds one, and an *)
(* INSERT that finds its row leaves the role alone.                        *)
THEOREM AccountsAdminUnlessOusted == Spec => []AdminUnlessOusted
<1>1. Init => AdminOK
      <2>1. Init => Present = {} /\ \A h \in Handlers : job[h].pc = "idle"
            BY DEF Init, Present, Idle
      <2> QED BY <2>1 DEF AdminOK, AdminUnlessOusted, Rights, ActingPC
<1>2. Sound /\ AdminOK /\ [Next]_vars => AdminOK'
      BY AdministeredNext, RightsNext DEF AdminOK
<1>3. AdminOK => AdminUnlessOusted
      BY DEF AdminOK
<1> QED BY <1>1, <1>2, <1>3, SoundSpec, PTL DEF Spec

(* OIDCCallback makes an administrator only of the first member.           *)
THEOREM AccountsOnlyFirstIsAdmin == Spec => OnlyFirstIsAdmin
<1>1. Sound /\ [Next]_vars =>
        [\A e \in Emails :
            /\ members'[e] # NoRow /\ members'[e].first
            /\ members[e] # members'[e]
            => Present = {}]_vars
      BY FirstStep
<1> QED BY <1>1, SoundSpec, PTL DEF Spec, OnlyFirstIsAdmin
=============================================================================
