----------------------------- MODULE FileRouter -----------------------------
(***************************************************************************)
(* The gateway's table of routes, the file it is loaded from, and the      *)
(* goroutine that watches the file.  The file is written in place, which   *)
(* truncates it first, or replaced, as editors and ConfigMap volumes do.   *)
(* os.ReadFile reads what it has opened until the end, by several read(2): *)
(* what it returns may be made of all that was in the file meanwhile.      *)
(***************************************************************************)
EXTENDS Naturals, Sequences

CONSTANTS
    Deployments,
    Upstreams,   \* addresses of services and of pods
    Garbled,     \* an address of which a part is missing or another's
    NoUpstream,
    Versions,    \* the tables somebody may write into the file
    NoVersion,
    MaxPods,     \* bound on the pods of a deployment
    MaxEdits     \* bound on the changes of the file

(* routeConfig: a deployment's service, if any, and the pods behind it.    *)
Address == Upstreams \cup {Garbled}
PodsOf(A) == UNION {[1..n -> A] : n \in 0..MaxPods}
Pods  == PodsOf(Address)
Table == [routes : [Deployments -> Address \cup {NoUpstream}],
          pods   : [Deployments -> Pods]]
NoPods == [d \in Deployments |-> <<>>]
Empty  == [routes |-> [d \in Deployments |-> NoUpstream], pods |-> NoPods]

RouterConstants ==
    /\ NoUpstream \notin Address /\ Versions \subseteq Table
    /\ NoVersion \notin Table /\ MaxPods \in Nat /\ MaxEdits \in Nat

VARIABLES
    file,      \* the table the file holds, or held before it was truncated
    writing,   \* the table that is being written in place
    watch,     \* NewFileRouter loads, no watch on the file yet, on, or lost
    events,    \* the Write events the goroutine has not read
    reading,   \* what has been in the file since reload opened it; {}: none
    same,      \* the file that reload has opened is still the one there
    table,     \* the routes and podRoutes of the FileRouter
    edits,
    told       \* history: the file was last written under the watch

fileVars   == <<file, writing, edits>>
routerVars == <<fileVars, watch, events, reading, same, table, told>>

(* A truncated file is empty, and then holds more and more of the table.   *)
Contents == IF writing = NoVersion THEN {file} ELSE {Empty, writing}

(* What a read may return of a file whose contents were those of S, one    *)
(* after the other: the table, if they never changed.  If they did, then   *)
(* each entry of either map is one that was there, misses, or is garbled,  *)
(* or the whole is no YAML, for which NoVersion stands.  A deployment that *)
(* was never there gets no entry: parts of two names make no third one's.  *)
MixedRoutes(S) ==
    LET Seen(d) == {v.routes[d] : v \in S} \ {NoUpstream}
        Named   == {d \in Deployments : Seen(d) # {}} IN
    {[d \in Deployments |-> IF d \in Named THEN f[d] ELSE NoUpstream] :
       f \in {g \in [Named -> Address \cup {NoUpstream}] :
               \A d \in Named : g[d] \in Seen(d) \cup {NoUpstream, Garbled}}}
MixedPods(S) ==
    LET Seen(d) == UNION {{v.pods[d][i] : i \in DOMAIN v.pods[d]} : v \in S}
        Named   == {d \in Deployments : Seen(d) # {}} IN
    {[d \in Deployments |-> IF d \in Named THEN f[d] ELSE <<>>] :
       f \in {g \in [Named -> Pods] :
               \A d \in Named : g[d] \in PodsOf(Seen(d) \cup {Garbled})}}
Mixed(S)  == [routes : MixedRoutes(S), pods : MixedPods(S)]
Result(S) == IF \E v \in S : S = {v} THEN S ELSE Mixed(S) \cup {NoVersion}

Init ==
    /\ file \in Versions /\ writing = NoVersion /\ edits = 0
    /\ watch = "none" /\ events = 0 /\ reading = {} /\ same = TRUE
    /\ table = file /\ told = FALSE

-----------------------------------------------------------------------------
(* Writes of one file in a row may be one event of inotify.                *)
Notified ==
    IF watch = "on" THEN events' \in {IF events = 0 THEN 1 ELSE events,
                                      events + 1}
                    ELSE UNCHANGED events

(* Who has the file open sees what is written in place.                    *)
Truncate(v) ==
    /\ writing = NoVersion /\ writing' = v
    /\ edits < MaxEdits /\ edits' = edits + 1
    /\ reading' = IF reading # {} /\ same THEN reading \cup {Empty, v}
                                         ELSE reading
    /\ Notified
    /\ UNCHANGED <<file, watch, same, table, told>>

WriteRest ==
    /\ writing # NoVersion /\ writing' = NoVersion /\ file' = writing
    /\ Notified /\ told' = (watch = "on")
    /\ UNCHANGED <<watch, reading, same, table, edits>>

(* The watched file is removed: no event that the goroutine looks at, and  *)
(* none ever again.  A file that is open stays what it is.                 *)
Replace(v) ==
    /\ writing = NoVersion /\ file' = v
    /\ edits < MaxEdits /\ edits' = edits + 1
    /\ watch' = IF watch = "on" THEN "lost" ELSE watch
    /\ same' = (reading = {}) /\ told' = FALSE
    /\ UNCHANGED <<writing, events, reading, table>>

-----------------------------------------------------------------------------
(* A new process: NewFileRouter starts with a reload of its own; its error *)
(* would end the process again.                                            *)
Reopen ==
    /\ watch' = "load" /\ events' = 0 /\ told' = FALSE
    /\ reading' = Contents /\ same' = TRUE /\ table' = Empty
    /\ UNCHANGED fileVars

Load ==
    /\ watch = "load" /\ watch' = "none"
    /\ table' \in Result(reading) \ {NoVersion}
    /\ reading' = {} /\ same' = TRUE
    /\ UNCHANGED <<fileVars, events, told>>

(* watchFile, which NewFileRouter starts then; without a watch it returns. *)
AddWatch ==
    /\ watch = "none" /\ watch' \in {"on", "lost"}
    /\ UNCHANGED <<fileVars, events, reading, same, table, told>>

(* reload, as the goroutine calls it for an event: it opens the file, and  *)
(* then has read and parsed it, and assigns both maps under the lock.      *)
OpenFile ==
    /\ events > 0 /\ reading = {}
    /\ events' = events - 1 /\ reading' = Contents /\ same' = TRUE
    /\ UNCHANGED <<fileVars, watch, table, told>>

Parsed(v) == IF v = NoVersion THEN table ELSE v
AssignDebounced ==           \* mutant: one reload answers all events so far
    /\ reading # {} /\ watch # "load" /\ events' = 0
    /\ \E v \in Result(reading) : table' = Parsed(v)
    /\ reading' = {} /\ same' = TRUE
    /\ UNCHANGED <<fileVars, watch, told>>
AssignNewPods ==             \* mutant: podRoutes is assigned if there are any
    /\ reading # {} /\ watch # "load"
    /\ \E v \in Result(reading) :
         table' = IF v # NoVersion /\ v.pods = NoPods
                  THEN [v EXCEPT !.pods = table.pods] ELSE Parsed(v)
    /\ reading' = {} /\ same' = TRUE
    /\ UNCHANGED <<fileVars, watch, events, told>>
Assign ==
    /\ reading # {} /\ watch # "load"
    /\ \E v \in Result(reading) : table' = Parsed(v)
    /\ reading' = {} /\ same' = TRUE
    /\ UNCHANGED <<fileVars, watch, events, told>>

Edit  == (\E v \in Versions : Truncate(v) \/ Replace(v)) \/ WriteRest
Follow == OpenFile \/ Assign
Watch == Load \/ AddWatch \/ Follow
RouterNext == Edit \/ Watch
Spec == Init /\ [][RouterNext]_routerVars

-----------------------------------------------------------------------------
(* Resolve, and PrefixResolve for a key with the hash h.                   *)
Resolve(d) == table.routes[d]
PrefixResolve(d, h) ==
    LET pods == table.pods[d] IN
    IF Len(pods) > 0 THEN pods[(h % Len(pods)) + 1] ELSE Resolve(d)

RouterTypeOK ==
    /\ file \in Table /\ writing \in Table \cup {NoVersion}
    /\ watch \in {"load", "none", "on", "lost"}
    /\ events \in 0..2 * MaxEdits /\ edits \in 0..MaxEdits
    /\ reading \subseteq Table /\ same \in BOOLEAN /\ table \in Table
    /\ told \in BOOLEAN

(* A table that is not the file's, be it old, cut off or mixed of several  *)
(* versions, never stays as it is: once the file has been written under    *)
(* the watch, an event is left to be read, or a reload has opened the file *)
(* since and nothing has been written to it.                               *)
StaleIsAnnounced ==
    told /\ watch = "on" /\ writing = NoVersion /\ table # file
        => events > 0 \/ reading = {file}

(* A change that the goroutine is told of gets into the table, unless the  *)
(* file is being written or the watch is lost; a prefix that was read too  *)
(* early is replaced.                                                      *)
RoutesFollowFile ==
    events > 0 ~> writing # NoVersion \/ watch # "on" \/ table = file
=============================================================================
