# openserve in TLA+

openserve serves large language models on Kubernetes and on members' laptops.
This directory holds TLA+ models of its parts, the TLC configurations that
check them, and proofs that TLAPS checks. Paths below are relative to the root
of the repository.

## 1. The system

| Component | Source | State it keeps | Operations |
|---|---|---|---|
| ModelDeployment controller | `operator/internal/controller/modeldeployment_controller.go`, `operator/internal/gateway/sync.go`, `operator/internal/scaling/keda.go`, `operator/internal/catalog/client.go` | The status and finalizer of each ModelDeployment; its Deployment, Service and ScaledObject; the routes ConfigMap; an informer cache and a work queue | Reconcile, cleanup, AddRoute, RemoveRoute, the verification of weights |
| BudgetPolicy controller | `operator/internal/controller/budgetpolicy_controller.go` | Its own status | A check every five minutes, pauseDeployment |
| APIKey controller | `operator/internal/controller/apikey_controller.go` | One status field that no other code reads | Reconcile |
| Gateway proxy | `apps/gateway/internal/proxy/proxy.go`, `auth/validator.go` | Each request's stage and the rest of a chunk of its answer | ServeHTTP: validate, limit, resolve, send, stream, record the usage |
| File router | `apps/gateway/internal/routing/router.go` | Two maps, loaded from the mounted file; a watch on that file | reload, watchFile, Resolve, PrefixResolve |
| Rate limiter | `apps/gateway/internal/ratelimit/redis.go` | Two sorted sets per API key in Redis | Allow (a Lua script), RecordTokens (a pipeline) |
| Peer relay | `apps/peer-relay/internal/relay/hub.go`, `handler.go` | The hub's map of connections, their pending requests, the column `online` in Postgres | ConnectPeer, Register, Unregister, Forward, Dispatch |
| Peer agent | `apps/peer-agent/cmd/main.go` | A WebSocket and a goroutine per request | run, handleRequest |
| Control API: accounts | `apps/control-api/internal/handler/handler.go`, `internal/auth/oidc.go`, `cmd/server/main.go` | Organisations, members, the audit log; tokens that clients keep, the member of dev mode | OIDCCallback, provisionDevUser, RequireRole, InviteMember, RemoveMember, writeAuditLog |
| Control API: keys and peers | `handler.go`, `peers.go` | API keys, peers, invitations of keys to peers | Create, rotate, delete, invite |
| Control API: documents | `handler.go`, `internal/rag/*.go` | Documents and chunks | UploadDocument, processDocument, DeleteDocument |
| Control API: deployments | `handler.go`, `internal/k8s/client.go` | ModelDeployments in Kubernetes, a cache of them in Postgres | Create, delete, resume |
| Pool and migrations | `apps/control-api/internal/db/db.go` | A pool of ten connections, `schema_migrations` | Connect, Migrate |
| Web GUI, charts | `apps/gui`, `charts` | None, configuration | |

How they interact. The control API creates, deletes and resumes
ModelDeployments through the Kubernetes API and remembers them in Postgres. The
operator reconciles them into Deployments, Services and ScaledObjects and
writes one route for each into one ConfigMap, which every gateway mounts. KEDA
scales the Deployments behind the operator's back; the budget controller writes
the same status the operator writes. Gateways share a Redis for limits and
Postgres for keys. A request for a member's laptop goes from the gateway to the
relay, over the WebSocket to the agent, and back chunk by chunk. Documents
uploaded to the control API are embedded and stored by goroutines that share
the pool with all other requests.

What is hard, per component, and what makes it correct:

- *ModelDeployment controller.* It reads through a cache that lags and writes
  to a server that refuses old versions; between any two of its calls users,
  KEDA, the budget controller and the garbage collector act; it may stop
  anywhere. Correct: no route outlives its object, no writer's work is undone
  from an old copy, unverified weights are never scheduled, and every object
  converges.
- *Rate limiter.* Clocks differ, commands are late, replies are lost and
  retried, keys expire. Correct: the limit holds over every window of time.
- *Peer relay.* One read loop per connection serves all requests; connections
  are replaced while their handlers still run. Correct: no answer is mixed with
  another, nothing outlives what it describes, and requests end.
- *Documents.* Several statements, a transaction, concurrent deletions, a
  bounded pool, crashes. Correct: a document is visible as a whole or not at
  all, and processing ends.
- *Accounts.* First logins of a domain race for the role of administrator;
  logins, invitations and removals of one person take locks in different
  orders; claims outlive the member they name; the audit log is written by
  goroutines that come late. Correct: one first administrator, nobody loses the
  role but by a request that takes it, every key and audit entry has its
  member, a removal is true, requests end.
- *Keys and peers.* Every handler reads a row and writes it with a later
  statement, outside a transaction. Correct: what is revoked stays revoked, and
  nothing refers to a row that is gone.
- *Gateway proxy.* An answer is read in pieces that end anywhere; usage is
  recorded after the answer. Correct: each answer is charged once, what it
  says; a revoked key is not served.
- *File router.* The file is read, in several steps, while it is written, and
  the watch follows one file only. A table may then be cut off or mixed of two
  versions. Correct: it does not stay so, unless the watch is lost.
- *Migrations.* Applied and recorded in two statements, by several servers
  without a lock. Correct: the schema grows in order, a server serves on all of
  its migrations, and every server comes to serve.

`PROJECT.json` lists the hazards at the lines where they bite.

## 2. Modules

| Module | What it is |
|---|---|
| `RouteRegistry` | Abstract: a table that one route enters or leaves at a time, and never outlives what it is for |
| `ModelDeployment` | The controller, the syncer, KEDA's reconciler and the API server they write to; implements `RouteRegistry` |
| `MCModelDeployment` | Its small instances |
| `ModelDeploymentProofs` | TypeCorrect, RouteSafe, WeightsSafe, PauseSafe, ReplicasSafe, RoutesSafe, RoutesImplement |
| `RateLimiter` | The limiter, Redis and the part of ServeHTTP that uses them |
| `MCRateLimiter`, `RateLimiterProofs` | Its instance; LimiterTypeCorrect, WindowSafe, TokensSafe, OvershootSafe |
| `TokenSums` | Lemmas on the sum of the tokens of a finite set of entries |
| `RelayedAnswer` | Abstract: what a caller is sent of the answer to one request |
| `PeerRelay`, `MCPeerRelay` | The relay's hub and handlers, the connections and the agents; their instances; implements `RelayedAnswer` |
| `PeerRelayProofs` | RelayTypeCorrect, RelayNoLeak, RelayCleansUp, RelayInOrder, RelayHonest, RelayImplements |
| `DocumentStore` | Abstract: documents and chunks that change as a whole |
| `Documents` | Uploads, their goroutines, deletions, the pool; implements `DocumentStore` |
| `MCDocuments`, `DocumentsProofs` | Its instances; DocumentsTypeCorrect, DocumentsWhole, DocumentsImplement, DocumentsStarved |
| `Accounts` | Logins, starts in dev mode, invitations, removals, new keys, the audit log, and Postgres' locks |
| `MCAccounts`, `AccountsProofs` | Its instance; AccountsTypeCorrect, AccountsAttributable, AccountsRemoved, AccountsAdminUnlessOusted, AccountsOnlyFirstIsAdmin |
| `Credentials` | The rows of keys, peers and invitations, and the handlers that change them |
| `FileRouter` | The routes file, the watch on it and the table it is loaded into |
| `Gateway` | The proxy, composed with `Credentials` and `FileRouter` |
| `MCGateway`, `GatewayProofs` | Its instance; GatewayTypeCorrect, GatewayRevokedNotServed, GatewayRevokedForGood, GatewayInvitesHaveRows, GatewayStaleIsAnnounced, GatewayChargedAsServed |
| `SchemaHistory` | Abstract: a schema that grows in order, and servers that serve on it |
| `Migrations` | Migrate on any number of servers, crashes, updates; implements `SchemaHistory` |
| `MCMigrations`, `MigrationsProofs` | Its instance; MigrationsTypeCorrect, MigrationsImplement, MigrationsStuckByEndOnly |

### ModelDeployment

One worker runs Reconcile. Its program counter `pc` says which call comes next,
and each call to the API server, the catalog or the bucket is one action, so
that everybody else's actions interleave with them. `md`, `child` and `routes`
are what the API server has; `mdC`, `childC` and `routesC` the informer cache.
An update carries the resourceVersion it was read with and is refused unless it
is the latest. Versions are only compared with the latest, so one bit per copy
stands for them (`mdFresh`, `childFresh`, `routesFresh`, and `rv` for the
worker's own copy). A failed reconcile is put back on the queue (`Requeue`),
and the queue has no duplicates. The phases are those that code sets: Pending
and BudgetPaused; a model's digest is one the catalog publishes, and `bucket`
says which weights are stored. Deleting the owner orphans its children until
the garbage collector removes them, and an object created under the same name
meanwhile finds them.

`KedaRegistered` says whether the manager's scheme has KEDA's types. At this
commit it has not (`operator/cmd/main.go:28`): the Get of the ScaledObject
(`keda.go:69`) fails for every object with `scaleToZero`, which is the CRD's
default, and Reconcile returns its error (line 149) before AddRoute and before
it updates the status. Such an object has its Deployment and its Service and is
never routed. `operator_two` and `operator_live` check this program;
`operator_one` checks the other one, with TRUE, since only there KEDA has a
ScaledObject to scale by. The theorems hold for both. The operator's module
does not compile as it is committed, besides: its `go.mod` lacks modules that
the code imports, and a variable is not used. The module follows the code as it
is written.

`WriteRoutes` leaves out that a ConfigMap whose text is no YAML is taken for
an empty table (`sync.go:72`): the syncer alone writes that text.

`RouteRegistry` has the deployments the operator answers for (`held`) and the
names that have a route (`table`), and four steps: hold, register, unregister,
release. `ModelDeployment` implements it, once the chart has installed the
ConfigMap: `held` are the objects on the server with the operator's finalizer,
`table` the routes of the ConfigMap. Whatever is lost to a conflict, retried,
restarted or created anew under an old name is a stutter there, or one of the
four.

### RateLimiter

`clock` is Redis's time; a handler reads its gateway's clock (within `Skew`)
and the script runs at most `Delay` later (`Urgent` keeps time from passing a
late command). The two sorted sets are sets: of milliseconds for requests,
whose member is the time itself, and of entries for tokens, whose member has a
nonce. `Tick` drops a set whose expiry has passed. A lost reply makes the
client send the script again. `Counting` are the entries that any handler may
still count, whatever its clock. RecordTokens is two steps, `RecordAdd` and
`RecordExpire`, and between them the set may expire with the new entry in it:
EXPIRE then finds no key, which is no error, and the entry is recorded all the
same. An answer has at most some number of tokens
(`LimiterAssumption`), which OvershootSafe needs and no other theorem.
`admitted`, `failedOpen` and `recorded` are histories that no action reads.

### PeerRelay

One peer; the hub keeps one entry per peer, and peers share only its mutex. A
connection has a handler (`hpc`) and an agent's end (`agentUp`), with the
frames between them in `inbox`. A request has a Forward (`rpc`) with the three
channels of the code: `chunks` is bounded and drops, `done` and `errCh` hold
one element. `Drop` is any end of the agent's side: it goes away, the network
is cut, or its process ends because two goroutines wrote at once. `Restart`
ends the relay's goroutines and keeps the column `online`. The module starts
where the token has been accepted. At this commit `verifyArgon2Token`
(`peer-relay/internal/relay/handler.go:32`) accepts none: it scans the stored
hash with `%s$%s`, whose first `%s` also takes the dollar sign. Everything
after that line is modelled as it will run once that scan is repaired.

How Forward ends and what the caller is sent then are two things. `result` is
how the response ends, and is set by the deferred function (`Forget`) or by the
step that returns: `ok` with `[DONE]`; `unavailable`, the 503 of ForwardToPeer;
`cut`, the end of a response of which nothing says why; `clientGone` and
`restarted`, when the connection to the caller is gone. After an error frame of
the agent the headers of a stream have been set, so that the check at
`relay/handler.go:172` writes nothing: the caller gets 200 and no line. 503 is
sent only when the agent was never asked (`ToldAfter`).

`RelayedAnswer` has, for each request, the agent's answer (`state`, `produced`)
and what the caller has seen of it (`got`, `ending`), and neither connections,
nor channels, nor other requests. `PeerRelay` implements it: `Produce` and
`Close` are steps of the agent, `Deliver` is one of Forward's `select`, `Finish`
the end of the response, `Stop` the relay's restart, and the frames' way between
them are stutters.

### Documents and DocumentStore

`pc` is processDocument, one goroutine per document: `embed`, `begin`, `insert`
(the loop and the last UPDATE), `commit`, `report`, `end`. `holds` is the set
of goroutines whose transaction keeps a connection of the pool; `deleting` the
DELETE statements, each on a connection, that may have to wait; `locked` the
rows that a transaction in Postgres has locked, which is not the same: a failed
transaction has lost its locks and its goroutine still holds the connection.
The row of a document is locked by the foreign key of its first chunk. A commit
may fail after it has taken effect, and the row then reads `error` although the
document is whole. `Restart` forgets the goroutines; their rows stay
`processing`. Chunks are counted: their text and their vectors do not matter to
any step. Ownership checks of the handlers only read.

`DocumentStore` has the tables only, and five ways to change them: `Create`,
`Publish`, `Fail`, `Remove`, and `PublishSeveral` for commits that are carried
out while the server is down. `Documents` implements it under the identity
mapping of the three variables they share.

### Accounts

One organisation, that of a domain, and its members by e-mail, which is unique
(`members` holds what is committed). `job` says where each handler is; a
statement is one action. Only `OIDCCallback` opens a transaction: its upsert
locks the row of the organisation (`org`), which `SELECT ... FOR UPDATE` keeps,
until `LoginCommit` or `Abort`. A row that a statement has inserted and not
committed is in `job[h].row`, and others who write that e-mail wait
(`RowFree`). An invitation inserts the member first and waits for the
organisation's row afterwards, for its foreign key; a login does it the other
way round, so that the two can wait for each other, and `DeadlockDetected` is
Postgres' choice of a victim. `RequireRole` and the look-ups after it are
statements of their own, and everything may change between them. `tokens` are
the subjects of tokens that are still valid: a login adds one, removing the
member takes none away, `Expire` does. `auditing` are the goroutines of
`writeAuditLog`, which insert their entry at any later time or fail silently.
`RemoveDelete` fails when a key or an audit entry refers to the member, and is
answered with "removed" as every outcome is. `first`, `removed`, `failed` and
`ousted` are histories.

The subject of a login's token is empty (`Subject`). OIDCCallback sets
`RegisteredClaims.Subject` (`handler.go:253`), and the field `Subject` of
`auth.Claims` (`oidc.go:16`), which has the same name in JSON and is less deep,
is what is signed and what is read. At this commit nobody who has logged in
passes RequireRole, or is found as a member. Only a server in dev mode has
claims with a member's id: `DevStart` to `DevCommit` are its start, which makes
the member of `DEV_EMAIL` an administrator, and from then on every request has
that member (`dev`), also when it has been removed meanwhile. Invitations,
removals and keys are reached by such a server only. Logins race with them
when servers of both kinds share a database, as two replicas do while a rolling
update switches the mode. The constant `SubjectSigned` is FALSE for this
program; the theorems also hold with TRUE, for the code with the field repaired.

### Credentials, FileRouter and Gateway

`Credentials` has the rows of `api_keys` and `peers` as one function, since
both are rows with a secret that rotation replaces, and what each handler
(`task`) does after its first SELECT. Secrets are numbers, each generated once.
A deleted key stays as an inactive row, a deleted peer goes with its
invitations.

`FileRouter` has the file (`file`, and `writing` while it is written in place),
the events of the watch, and a reload in two steps, since the file is opened
and read first and assigned under the lock later. `os.ReadFile` reads until the
end by several reads: `reading` collects what has been in the file since it was
opened, as long as it is the same file (`same`). If that is one table, the
reload reads it; if not, it reads no YAML, or a table each of whose entries is
one that was there, is missing, or is `Garbled`, an address of which a part is
cut off or another's (`Mixed`). `Replace` is what editors and ConfigMap volumes
do, and the watch is lost with the old file; whoever has that open reads it to
its end. A new process reads the file in the same way before it serves (`Load`).

`Gateway` instantiates both and adds the requests (`call`): validation reads
the rows of `Credentials` at one moment, resolution the table of `FileRouter`
at another. `Dead` marks, when a request arrives, that its secret had been
replaced or deleted. An answer is a sequence of four kinds of item, and a read
takes any number of them; `Read` scans the rest of the last chunk and the new
one for lines with a usage, `leftover` is what follows the last end of line.
`End` starts the goroutine that records the tokens, and `RecordTokens` succeeds
or fails. `Restart` ends the gateway's process with its requests and
goroutines. The limiter's verdict is a free choice here, `RateLimiter` has its
details. The key's prefix stands for its id from `Validate` on, as in the code,
so that `ServePeer`, which asks for an id, refuses every request.

### Migrations and SchemaHistory

Each server has its place `at` in the files of its `binary` and is about to
check, apply or record one (`pc`). `applied` is the schema, `recorded` the
table `schema_migrations`. The statements of a file are one implicit
transaction, so a file is applied as a whole. All migrations but those in
`Once` (`010`, which adds a constraint) can be applied again. A server that
fails ends, and is started again. `Upgrade` is a rolling update.

`SchemaHistory` has the schema and with how many migrations each server serves.
`Migrations` implements it with `applied` as the schema and, for a server that
serves, the number of its files.

## 3. Runs

| Run | Instance | States | Properties |
|---|---|---|---|
| `operator_one` | one object, two digests, KEDA registered, 3 user events, a pause or a resume, a scaling | 3.2 million | ScheduledWeightsVerified, PauseSurvives, ReplicasKept |
| `operator_two` | two objects, 3 user events, a restart | 520 000 | TypeOK, RouteHasObject, OthersRoutesKept, ImplementsRegistry |
| `operator_live` | one object, 3 user events, a fault, a restart | 283 000 | EventuallyRouted, EventuallyDeployed, EventuallyGone |
| `limiter` | one key, two handlers, limits of 2, a window of 4 and a time to live of 5, commands up to 1 late | 1.4 million | TypeOK, WindowLimit, TokensCounted, TokenOvershoot |
| `relay` | two connections, two requests of two chunks, a buffer of one, a restart | 3.4 million | TypeOK, NoLeakedRequest, OwnFramesInOrder, ImplementsAnswers |
| `relay_live` | two connections, one request, a restart, a lost UPDATE | 180 000 | NothingLeftBehind, StreamsEnd |
| `documents` | two documents of up to two chunks, a pool of three | 37 000 | TypeOK, NoPartialDocument, ImplementsStore, UploadEnds |
| `accounts` | two people, dev mode for one of them, two handlers, five requests | 651 000 | TypeOK, Attributable, RemovedOrReferenced, AdminUnlessOusted, OnlyFirstIsAdmin, RequestsEnd |
| `gateway` | a key, a peer, two handlers of the control API, two requests to the gateway, two edits of the file; four of these inputs together | 889 000 | TypeOK, RevokedNotServed, InvitesHaveRows, StaleIsAnnounced, ChargedAsServed, RevokedForGood, RoutesFollowFile |
| `migrations` | three servers, binaries of two and of four migrations, one of them not to be applied twice, two crashes | 145 000 | TypeOK, ImplementsHistory, EventuallyServing |
| `relay_hung` | | violation | NoHungRequests |
| `documents_pool` | two documents, a pool of two | violation | PoolNotStarved |

Why the bounds are enough. *Operator:* conflicts need one other writer between
a read and a write, and the bounded events give each writer at least one turn
at any point of a reconcile; re-creation under a name needs three user events
(create, delete, create), which every run has. `operator_live` has one digest,
since what is verified is the business of `operator_one`, and a restart between
any two calls. Two objects are the least that can lose one another's
route, and a third adds only another one of them. *Limiter:* with limits of
two, a third request is one too many; the time runs one tick past a whole
window, so that entries leave it, and past an expiry; two handlers are the
least whose scripts can arrive in another order than their times, and a handler
serves requests one after another without end. *Relay:* two connections are an
old one and its successor; two requests mix their answers on one connection; a
buffer of one is full after one chunk and an answer has two. *Documents:* each
hazard is of one document and one deleter, except the pool's, which is between
as many documents as connections; a document of two chunks has a half.
*Accounts:* every hazard is a race of two requests, of one e-mail or of two,
and five requests are enough to start in dev mode, to log in twice, to give the
member a key or an invitation, and to remove a member while another request of
the same member is served. *Gateway:* two handlers of the control API are a rotation and a
deletion of one row; two edits are a change of the file and another one before
the first has been read, one table with a pod and one without make every kind of
mixture; the answers have two usages, a data line without one,
a usage that is not in a data line, and an end without an end of line, so that
a read can cut any of them. The bound on all inputs together (`MaxInputs`) lets
any two of the three parts be busy while the third has something to do.
*Migrations:* two servers race and a third one comes later, with the old or
with the new binary; two crashes are one on each side of the record.

Deadlock is checked in `limiter` and `documents` (where a restart is always
possible, so that it says little there). In the other runs the system may stop:
users need not do anything, and connections, requests and edits are used up.

Fairness, where a run needs it:

- *Operator.* One worker that keeps running, with a first-in first-out queue
  (controller-runtime's): each queued name is started in the end, hence strong
  fairness of `Start`; watch events are delivered, the resync timer fires,
  garbage is collected. Nothing is assumed of users, of KEDA, of faults.
- *Relay.* A goroutine that can run runs; Ollama ends its answers. Nobody has
  to connect or to stay connected: StreamsEnd excuses a request whose
  connection has gone, and NoHungRequests shows that the excuse is needed.
- *Documents.* A goroutine runs on; the pool (pgxpool) serves its waiters in
  order, hence strong fairness of a step that waits for a connection; Postgres
  enforces the two timeouts `db.go` sets. The embeddings endpoint may never
  answer, as its client has no timeout: UploadEnds begins when it has.
- *Accounts.* A handler whose statement can go on goes on, and Postgres ends a
  deadlock it has detected (after a second, its default). Nobody has to ask
  anything, no statement has to fail, no token has to expire. RequestsEnd needs
  no strong fairness: at a bounded number of requests a lock that is free stays
  free until somebody who waits takes it.
- *Gateway.* The goroutine of the router is scheduled: it opens the file for an
  event it has and finishes a reload (`Follow`). RoutesFollowFile excuses a file
  that is being written and a watch that is lost.
- *Migrations.* A server that has ended is started again (the Deployment's
  restart policy) and a running one goes on. EventuallyServing excuses the
  state `Stuck`, below.

### What the violations say

- **NoHungRequests.** The design has no hung connections. Forward waits on its
  three channels only, and the end of the connection sends on none of them.
- **PoolNotStarved.** The comment at `db.go:32` has the timeouts protect the
  pool. A processDocument whose transaction fails holds its connection (the
  Rollback is deferred) and asks for another to write the status on, without
  deadline. As many of them as the pool has connections wait for ever: an
  embeddings model of another dimension than the column's makes every insert
  fail, and ten such uploads at once are enough. UploadEnds holds with one
  connection more than documents.

### What the models show without a run of its own

The modules follow the code in each of these; a reader who expects otherwise
should know of them.

Operator and gateway:

- `modeldeployment_types.go:138` says that the operator scales to zero when the
  daily cap is exceeded. `pauseDeployment` changes the phase, no reconcile
  reads it, and the replicas stay.
- An object with `scaleToZero` is never routed at this commit, and its status is
  never updated, as the manager does not know KEDA's types (section 2);
  `Routable` excuses it in EventuallyRouted.
- Reconcile sets EndpointRoutable also when AddRoute has failed
  (`modeldeployment_types.go:228` says otherwise); the route follows with a
  later reconcile (EventuallyRouted).
- Requests of one millisecond are one member of the limiter's set and count
  once (`redis.go:109`). WindowLimit is therefore stated of the milliseconds at
  which requests were let in, and of requests the script has answered: those
  that pass because Redis fails are not in it.
- An entry that expires with its set between ZADD and EXPIRE is not counted,
  and RecordTokens sees no error. TokensCounted says how many such entries there
  can be in a window: no more than requests that write at a time.
- The validator returns the key's prefix as its id. Everything that looks an id
  up in Postgres fails with it: requests to peers are answered with 403, and
  inference events are never written. After a rotation the prefix is another
  one, so that the limits of a key start afresh.
- Usage is looked for in lines that start with `data:` and have ended. An
  answer that is not streamed, or whose last line does not end, is charged
  nothing.
- `extractCacheKey` parses what one read of the body returns. Of a body that
  arrives in parts, or is longer than the buffer of 8192 bytes, that is no
  JSON, and the key is empty. Its comment (`proxy.go:393`) says that an empty
  key falls back to the service; PrefixResolve hashes it like any other, and
  such requests all go to one pod.
- A request under `/v1` names its deployment in the body, of which the first
  8192 bytes are read: a longer one is refused as invalid. The model takes the
  deployment as given.
- The router's comment (`router.go:28`) and the gateway's flag (`main.go:46`)
  say that the routes are reloaded when they change. The operator changes them
  in a ConfigMap, the chart mounts that as a volume, and the kubelet replaces a
  volume's files: the watched one is removed, an event the goroutine does not
  look at (`router.go:104`), and the new one is not watched. The table keeps the
  old routes until the gateway is started again; hence the excuse in
  RoutesFollowFile.
- The router misses a change between its first reload and the watch. A file
  written in place can be read while it is empty, cut off, or half of one
  version and half of another, and requests go by that table until the next
  event, of the same write, is read; StaleIsAnnounced says that there is one.

Control API:

- A member who has made a key, or anything the audit log has noted, cannot be
  deleted, and RemoveMember answers "removed" (RemovedOrReferenced says exactly
  this).
- A first login that races the removal of the only administrator can leave an
  organisation with members and no administrator: the login has counted the
  member who is removed before it commits. Likewise the only administrator can
  be demoted by an invitation. AdminUnlessOusted says that nothing else can.
- A login's token names no member (section 2): RequireRole refuses everybody who
  has logged in, and look-ups of the member by the subject fail.
- OIDCCallback's comment calls its transaction serializable; it has the default
  isolation, and what makes OnlyFirstIsAdmin hold is the lock of the
  organisation's row.
- DeleteAPIKey and DeletePeer answer with success whatever their second
  statement did. RotateAPIKey and RotatePeerToken report an error of theirs,
  but return a new secret also when the row has gone meanwhile, or is inactive.
- RotatePeerToken sets a peer offline though its connection stays.
- A server that ends between applying `010` and recording it (`Stuck`) keeps
  every later start from succeeding, until somebody records it by hand.
- `deployment_cache` is written next to a CR by handlers that end before it at
  this commit: `main.go` sets no client for Kubernetes.

Relay:

- The deferred Unregister of a replaced connection deletes the hub's entry by
  the peer's name, which is its successor's; a third connection then evicts
  nobody.
- A caller cannot tell an agent's error from an empty answer: the response is 200
  without a line, not even `[DONE]`. Only a peer that was never asked is 503.
- Forward's `select` may take the end of an answer before the chunks that are
  still in the buffer, and a full buffer drops chunks, so an answer that ends
  well may have lost some; OwnFramesInOrder is what does hold of it.

## 4. Proofs

The theorems hold for every value of the constants, under the assumptions the
modules name. Each follows the same argument: an invariant that is inductive, a
lemma per step that keeps it, and the temporal step.

- **TypeCorrect**, **LimiterTypeCorrect**, **RelayTypeCorrect**,
  **DocumentsTypeCorrect**, **AccountsTypeCorrect**, **GatewayTypeCorrect**,
  **MigrationsTypeCorrect** (`Spec => []TypeOK`). The operator's includes that
  an idle worker holds nothing; the limiter's that a nonempty set of requests in
  Redis has an expiry (the set of tokens need not have one, when a pipeline
  stopped between ZADD and EXPIRE); the relay's that a buffer of chunks never exceeds its capacity;
  the documents' that the pool never gives out more connections than it has;
  the accounts' that the organisation is locked exactly by a login in its
  transaction; the migrations' that what is recorded is applied, in order.
- **RouteSafe** (`ConfigMapAtInstall /\ Spec => []RouteHasObject`).
  RouteHasObject is not inductive: the worker may add a route for an object it
  read from an old cache, or take the finalizer away while a route is left. The
  invariant adds that an object which looks live in the cache is live on the
  server (only the worker ends that, and never for a live copy), that an
  admitted reconcile is of such an object, that the removal works on the latest
  version (or will be refused), that a fresh copy equals the server's, and that
  the step which removes the finalizer is reached only without the route. The
  assumption is the chart's, which installs the ConfigMap
  (`charts/openserve/templates/configmaps.yaml`): RemoveRoute takes a ConfigMap
  missing from the cache for a route that is gone.
- **WeightsSafe** (`Spec => []ScheduledWeightsVerified`). The worker may skip
  the verification when the status has the catalog's digest, so the invariant
  says that every digest in any copy of a status (on the server, in the cache,
  in the worker) was verified for that name.
- **PauseSafe**, **ReplicasSafe** and **RoutesSafe** (`Spec =>
  PauseSurvives`, `ReplicasKept`, `OthersRoutesKept`). All three say that the
  worker's update does not undo what another writer did since the worker read.
  The invariant `Copies` is what the API server's resourceVersions are for: a
  copy in the cache, or in the worker's hands, whose version is the latest is
  equal to what the server has (`CacheLatest`, `CopyLatest`). An update that is
  accepted was therefore computed from the latest version, and changes what its
  handler changes and nothing else.
- **RoutesImplement** (`ConfigMapAtInstall /\ Spec => ImplementsRegistry`).
  From `Copies` and the invariant of RouteSafe: an accepted update of the
  ConfigMap is Register or Unregister of one name, AddRoute is reached only for
  an object that has its finalizer on the server, and the update that removes
  the finalizer finds no route. Without the assumption of RouteSafe the last one
  is false.
- **WindowSafe** (`Spec => []WindowLimit`). The invariant relates the history
  to the sets in Redis: a millisecond at which a request was let in stays in
  the set until no handler's window reaches back to it (StampsKept), because
  the expiry is later than that (ExpiryIsLate, which needs the time to live to
  be no shorter than the window), and the time a handler sends is no further
  from Redis's than Skew and Delay allow (StampsInTime). For any number of
  gateways, keys and handlers, and any limits.
- **TokensSafe** (`Spec => []TokensCounted`). The invariant `CountInv` says of
  tokens what StampsKept and StampsInTime say of requests: entries carry times
  that Skew and Delay allow (EntriesInTime), and the set does not expire while a
  recorded entry may be in some handler's window (RecordedKept), unless it
  expires before that entry's own EXPIRE. `MissingFits` counts those: the
  recorded entries that are missing and the handlers that are about to record
  one that is gone (`Overtaken`) are together no more than the handlers. One
  expiry takes at most the entry each handler has under way, and at that moment
  everything recorded before is out of its window.
- **OvershootSafe** (`Spec => []TokenOvershoot`). The limit is checked before
  the answer and charged after it, so that requests in flight may exceed it
  together. `OvershootInv` keeps room for them: what is in the set, and the
  largest answer once for each request in flight, is at most the bound. A
  request is let in only when the sum is below the limit, or when Redis fails,
  and then the bound grows. The
  lemmas on sums are in `TokenSums`. Since the library's principles of induction
  take an operator, the one on subsets of a finite set is derived there from
  the well-foundedness of strict inclusion.
- **RelayNoLeak** and **RelayCleansUp** (`Spec => []NoLeakedRequest`, `Spec =>
  []NothingLeftBehind`). Both are inductive with the types: a request is in a
  pending map from Insert to Forget only, and whoever may still restore the
  hub's entry or the column has yet to run its deferred function.
- **RelayInOrder** and **RelayHonest** (`Spec => []OwnFramesInOrder`, `Spec =>
  []HonestResult`). The invariant `Streams` follows a frame along its way.
  `Owned`: a frame on a connection, in a buffer or at a caller is of the answer
  to a request that uses this connection, and an end is the end of that answer.
  `Ordered`: of one answer's chunks, what the caller has been sent precedes
  what is in the buffer, which precedes what is on the connection. `Fates`: a
  request is asked after it was sent, has a result only when it has stopped
  streaming, and so keeps its connection and its answer while frames are under
  way; and where Forward has failed and its deferred function is yet to run, how
  the response will end is known. HonestResult has no run of its own, since ImplementsAnswers includes it.
- **RelayImplements** (`Spec => ImplementsAnswers`). From `Streams`, and
  `Ends`: an answer is asked for before it ends, ends in one way, and has no
  chunks when it was refused. What the caller is sent next is then a later chunk
  of its own answer, and the response ends as RelayedAnswer allows: with `[DONE]`
  only after the agent's end, with 503 only when the agent was not asked, and
  without either only when it refused.
- **DocumentsWhole** (`Spec => []NoPartialDocument`). The invariant `Safe` adds
  that before its commit a document has no chunk in the table, and that once
  the transaction has inserted one, the row is there and locked, so that no
  DELETE takes it away before the commit.
- **DocumentsImplement** (`Spec => ImplementsStore`). From `Safe`:
  UploadDocument is Create, a commit that takes effect is PublishSeveral,
  Report is Fail, DeleteRow is Remove, Restart is PublishSeveral, and every
  other step changes neither table.
- **DocumentsStarved** (`Spec => []StarvedByFailuresOnly`). The general form of
  the run `documents_pool`, and the safety half of UploadEnds: whoever keeps a
  connection for a transaction has statements left or has failed, so a pool that
  nobody gives a connection back to is held by as many failed documents as it
  has connections, and not by fewer.
- **AccountsAttributable**, **AccountsRemoved**, **AccountsOnlyFirstIsAdmin**.
  None is inductive. `Sound` adds what uncommitted rows have to do with committed
  ones: who has inserted or locked a row is alone on its e-mail (`Held`), a row
  that is not committed has an id nobody knows (`Unused`, `Fresh`), so that no
  claims, key, audit entry or removal can be of it; a login counts and commits
  under the lock of the organisation, so that a count of none is still none when
  it commits, whatever invitations and starts in dev mode wait; and ids are never
  used twice, so that a member who logs in again is another member.
- **AccountsAdminUnlessOusted** (`Spec => []AdminUnlessOusted`). On top of
  `Sound`, `Rights` says of each handler what its place tells about the
  organisation: whoever is past RequireRole, and a login that has counted members
  and is about to insert a developer, has met an administrator, who is there
  still or has been ousted; and a start in dev mode only inserts administrators.
  So the row that a step makes the first of the organisation is an
  administrator's.
- **GatewayRevokedForGood**, **GatewayInvitesHaveRows**. From `ControlOK`: no
  two rows have ever had the same secret, a secret that a rotation is about to
  write is nobody's yet, and a handler that is about to write has read a row of
  the right table. A deletion by another handler leaves the key's row where it
  is, and takes the peer's invitations with the peer.
- **GatewayRevokedNotServed**. From `ProxyOK` and `ControlOK`: until it is
  validated, a request whose secret was dead stays dead, by the theorem above,
  and no key works with a dead secret, since secrets belong to one row.
- **GatewayStaleIsAnnounced** (`Spec => []StaleIsAnnounced`). What has been in
  the file while a reload read it decides what it may assign, so the invariant
  `Pending` speaks of that too: once the file has been written under the watch,
  there is an event left, or the reload under way has had nothing but the file of
  now before it (and reads just that, `ResultOfOne`), or no reload is under way
  and the table is the file. `RouterOK` adds that the last write was under a
  watch only if there is one, or was one, and counts the events.
- **GatewayChargedAsServed**. The claim is about recording; the work is in the
  lemmas on streams: `StreamUsage` and `StreamRest` say that scanning the rest
  of what came before together with what comes now finds what scanning
  everything at once finds, for any sequences. The invariant then keeps
  `leftover` and `usage` equal to those of everything sent so far, and the
  numbers of requests under way apart from those charged.
- **MigrationsImplement** (`Spec => ImplementsHistory`). The invariant
  `Ordered` says that a server that applies or records a file has found all
  earlier ones recorded, and that applied files are those up to some place; so
  Apply is Grow or changes nothing, whichever servers race.
- **MigrationsStuckByEndOnly** (`Spec => StuckByEndOnly`). Who is about to
  record a file keeps the schema from being stuck with it, and of all steps only
  its own can end that without recording it; the two that do are Crash and
  Upgrade. EventuallyServing excuses no more than these.

StarvedByFailuresOnly and StuckByEndOnly have no run: they are proved only.
Every invariant, action property and refinement that a run checks is stated by
a theorem. Only model-checked are the liveness properties (EventuallyRouted,
EventuallyDeployed, EventuallyGone, StreamsEnd, UploadEnds, RequestsEnd,
RoutesFollowFile, EventuallyServing), since the prover reasons neither about
fairness nor about ENABLED, and the two properties that are violated.

## 5. Not modelled

- The split and extraction of text, embeddings, retrieval's ranking, prompts,
  chat, templates, usage pages, webhooks (stored, never delivered): single
  statements, reads or pure functions.
- The engines' arguments, ports and probes. One consequence is left to a
  reader: the syncer writes the upstream `vllm-<name>:8000` whatever the engine
  and the Service's name are.
- LoRA loading: its first guard waits for a phase that no code sets.
- The APIKey controller, whose status nothing reads.
- The exchange with the identity provider, the organisation's settings, the
  server's headers and its counter of requests per address.
- `deployment_cache`, until its handlers are wired; `expires_at` and the
  deployments a key is for are modelled as constants or left out, since no code
  sets them.
- What the proxy does after the first query of servePeer, and the INSERT of an
  inference event: neither is reached.
- The relay's pings and its column of models, and the agent's backoff.
- The GUI and the charts.

## 6. Plan

1. *Routes from end to end.* A table that `RouteRegistry` writes, the volume,
   and `FileRouter` that loads it, composed: what a gateway resolves is then
   stated in terms of ModelDeployments.
2. *Deployments of the control API*, when their handlers are wired: the CR and
   the row, with failures between them.
