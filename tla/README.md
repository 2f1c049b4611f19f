# 5gws in TLA+

5gws is a daemon that turns a Linux host into a policy gateway. An
administrator edits one configuration (settings, rules, exits) in a web panel
or on the command line; the daemon resolves the rules, renders configuration
files, and runs smartdns, HAProxy, sslocal and an in-process gateway with them.
This directory specifies the parts of it whose correctness depends on the order
of events: how a configuration is stored and brought into force, how the
processes are switched, how the panel learns what became of its request, what
becomes of a connection, who may log in, and what an interrupted installation
or certificate deployment leaves behind.

Paths below are relative to `src/`.

## Inventory

| Component | State it keeps | Operations | Talks to | What makes it correct |
|---|---|---|---|---|
| revision store `internal/store` | tables `revisions`, `app_state` (active and draft pointer) | SaveDraft, Activate, ResetDraftToActive, PruneRevisions, Fail | service, daemon start | one active row, the one the pointer names; no pointer to a missing row |
| configuration service `internal/service` | `applyMu`, cached active and draft revision, revision trees on disk | ApplyBundle, Apply, SaveDraft, Draft/Active | store, supervisor | an apply takes effect at one moment or not at all; what runs is what is active; what a rollback needs is on disk |
| supervisor `internal/engine/supervisor.go` | current process group, loaded nftables rules, fatal channel, one goroutine per member and per watcher | Boot, Apply, Stop, watch | service, operating system, daemon | one live group; rules and processes go together; a loss is noticed, a planned stop is not one |
| daemon `internal/daemon` | start sequence, select loop | Run | all of the above | a restart heals; a fatal report ends the process |
| apply operations `internal/api/apply_operations.go` | the latest operation, in memory | begin, status, run | panel (HTTP), service | an outcome is recorded under the operation that had it |
| panel `web/src/App.vue` | operation ID, `submitted` | apply, waitForApply | apply operations | reaches and shows the outcome of its own operation |
| log stream `internal/engine/logs.go`, `internal/api/ops_handlers.go` | ring buffer, sequence, subscribers | Write, Snapshot, Subscribe, logsStream | every managed process, browsers | the newest line reaches every stream |
| updater `internal/updater` | binary, backup, pending record | Apply, Confirm, RollbackPending | daemon start and exit | a version that does not start is replaced by the one that did |
| QUIC gateway `internal/quic/gateway.go` | session table | newSession, forwardExisting, relay, gc, close | clients, exits | one live backend per client; a connection stays owned until it is closed, once |
| TCP gateway `internal/quic/tcp_proxy.go` | per connection: both sockets, their deadlines, two copy loops | handle, dial through SOCKS5, relayTCP | clients, exits | what arrives is what was sent, in order and whole before an end of stream; both loops end and both sockets are closed |
| rules `internal/rules`, DNS plan `internal/smartdns`, HAProxy's lists `internal/render` | none (pure) | Normalize, Compile, MatchGatewayDomain, buildPlan, buildRuleViews | service, gateways, smartdns, HAProxy | each takes the first match of the page; they agree with each other |
| import resolver `internal/rules/resolver.go` | import cache table | Normalize, read | rule servers, store | a 304 stands for the body whose validator was sent |
| authentication `internal/auth`, `internal/api/auth_handlers.go` | users, sessions, login attempts | Login, Verify, Logout, ChangePassword, ResetAdmin, allowLogin | panel, store | a change of the password ends every session but those of logins under way; the throttle holds against concurrent logins |
| installation `internal/app/install.go`, `internal/installer` | binaries, certificate copies, hook, database, unit | install, uninstall, reset-admin, EnsureRuntime | system, certbot, store | the service starts only where its database, sound binaries, a certificate and a key are present; an interrupted installation can be finished |
| certificate deployment `internal/app/certificate_deploy.go` | the pair that smartdns reads | deploy-certificate, by hand and from certbot's hook | certbot, systemd | a deployment that reports success serves a pair of one issue |

Field validation and identifiers, metrics, diagnostics, the read-only API, the
command line client and the iOS profile keep no state that interleaves with
anything and are left out (`PROJECT.json` lists each with its reason).

What is hard here: SaveDraft does not take the lock that ApplyBundle holds;
SQLite, the disk, the supervisor and the cache are changed one after another
and the process can die between any two; the supervisor waits for goroutines
that want its lock; the panel loses the connection exactly when an apply
restarts the data plane; a login or a password change is several statements
with others in between; install and certbot write the same files and each may
be cut off. `PROJECT.json` lists these hazards with their lines.

## Modules

    AtomicApply   <-- refined by --  ConfigService  -- EXTENDS -->  RevisionStore
                                          |
                          sees the supervisor through the promise of
                                          |
    ManagedRuntime <-- refined by -- Supervisor
    ApplyOperations   (takes ApplyBundle as the register of AtomicApply)
    RuleResolution  -- EXTENDS -->  HAProxyRules  -- EXTENDS -->  DomainMatcher
                    -- EXTENDS -->  ImportCache
    Installation    -- EXTENDS -->  Sessions
    Updater      GatewaySessions      TcpRelay      LogStream

**RevisionStore** models every statement that changes `revisions` or
`app_state`. The pool has one connection, so a transaction is one step. A
bundle is two facts: which input it asks for (what `SameInput` compares) and
whether its resolved rules contain every local rule
(`ResolvedLocalRulesCurrent`). Keys come from `AUTOINCREMENT` and are never
reused, which the proofs need.

**ConfigService** models `ApplyBundle`, `Apply`, `SaveDraft`, both cleanups and
the daemon's start and stop. `phase` is the program counter of the holder of
`applyMu`; `base`, `cand` and `verdict` are its locals. Each call to SQLite, the
disk, the supervisor or the cache is one action, with its failures as disjuncts:
"store" (a statement fails), "reread" (Activate or ResetDraftToActive commits
and the read after it fails), "prepare", "swap", "fatal", "tidy" (a cleanup
that stops part way), "boot", "child", "crash". `built` is the set of revision
trees on disk that passed the checks.

**AtomicApply** is what the panel promises: the configuration in force is one
register, a call replaces it at one moment between request and answer, or
leaves it and is answered "failed".

**Supervisor** opens up the one step `SwapRuntime` sees. Groups have members
that run, exit and are reaped; a watcher takes the group's report in one step
and compares it under `mu` in another. `pc` is where the call that holds `mu`
is, `restoring` says it is inside `restoreLocked`. Boot is the same sequence
with no previous group. Both branches of a `select` whose channels are ready
are possible.

**ManagedRuntime** is what ConfigService relies on: an "ok" puts the asked tree
in force, an "error" leaves the previous one in force or has reported a fatal
error. `Replaced`, `Restored` and `GaveUp` of ConfigService are its `Succeed`
and the two kinds of `Fail`.

**ApplyOperations** models the apply button: `waitForApply` on each page, the
coordinator behind it, the network between. A request whose answer the browser
has given up on may still arrive.

**Updater** models `Client.Apply` statement by statement, the restart a second
later, `Confirm` after five seconds, `RollbackPending` when `Run` returns an
error (the copy back, then the removal of the record, which may fail; handlers
go on in between), and what systemd does with the exit. A binary is its version;
`disk` is the three files that survive a death. A release in `Broken` never
confirms.

**GatewaySessions** models the session table of the QUIC gateway with the
goroutines that share it: `serve` looks a client up under `mu` and forwards
after it, `newSession` connects, inserts and writes, one `relay` per session,
`gc`, and `close`. What each remover has taken out of the table and not yet
closed is its `victim`. `closes`, `serves` and `strayed` are history variables:
how often a connection was closed, for whom it was opened, and whether a
datagram went to the connection of somebody else.

**TcpRelay** models one connection of the TCP gateway from accept to the return
of `handle`: reading until the host is known or the deadline passes, selecting
the exit, dialling it directly or through the messages of SOCKS5, passing on
what was read, and the two copy loops with `CloseWrite` and the errors that end
the other loop; only the first bytes and the messages of SOCKS5 have a
deadline, the relay has none. Its peers are the environment: they send, read
or stop reading, close a half or reset at any moment. A byte is its number in its stream.

**LogStream** models the ring of `LogBuffer` with its index arithmetic, byte by
byte (a byte is a line break or a letter), the one-place channels of its
subscribers, and the loop of `logsStream` with its batch timer. `written` is
the history of everything written.

**DomainMatcher** is pure: the linear and the compiled matcher and
`buildPlan`, over names that are sequences of labels from the right. A trie is
a function from its nodes to their ranks. **HAProxyRules** adds the lists of
names that `buildRuleViews` writes, what HAProxy's `-m str` and `-m end` make of
them, and which `use_backend` line comes first. **ImportCache** is
`Resolver.read`: the row that is looked up, the request with its validators,
304 or 200, and the row that is stored, while the server publishes and reads of
other files store what they were answered. What is published is numbered.
**RuleResolution** drives all three: a file is edited, `Resolver.Normalize`
starts a read per import, receives the bodies in any order, parses and sorts.

**Sessions** models each request of the panel as its SQL statements, which
others may come between, and the throttle's map of attempts, which is read
before the password is compared and written after. A password is its number; a
session is the password its login compared, 0 once it was revoked.
**Installation** puts it on a host: `cmd` is where root's command is, one at a
time; `deploys` is where each deployment is and what it has read; `Breaks` and
`DeployBreaks` end either between any two steps, with a file of `WriteFile`
perhaps incomplete (`Cut`). A certificate and its key are the number of their
issue. `pair` is a history variable: who wrote the certificate last and has not
yet written its key. The panel answers only while the service runs on an initialised
database.

**ConfigServiceProofs**, **SupervisorProofs**, **ApplyOperationsProofs**,
**UpdaterProofs**, **GatewayProofs** (both gateways), **LogStreamProofs**,
**InstallationProofs** and **RuleResolutionProofs** (with those of
DomainMatcher and ImportCache) hold the theorems.

`MC*.tla` only adds symmetry sets and the named sets of failures and inputs.

## Runs

| Run | Instance | Shows |
|---|---|---|
| config_safety | 2 callers, 1 importer, 2 inputs, 3 requests, every failure | the pointers, the running group, the trees on disk and the cache stay consistent; a failed apply is undone, but for two causes named below |
| config_promise | the same, with fairness, failures of the runtime, rendering and machine | ApplyBundle implements AtomicApply; calls return; a lost group comes back |
| supervisor | 2 trees, 2 members, 3 groups, every failure, with fairness | one live group, rules follow it, no false alarm; implements ManagedRuntime; losses are noticed, Apply returns |
| operations | 2 panels, 2 operations, 2 losses or deaths | an outcome is shown under its own operation; a panel finishes |
| updater | 3 releases, one of them broken, 3 updates, 3 failures | an unproven binary has a way back, but for two causes named below; the service returns |
| gateway_safety | 2 clients, 2 creating goroutines, 3 connections | every open connection is owned, none is closed twice, every session is watched, no datagram strays |
| tcp_relay | one connection, 2 bytes each way, 1 byte unread in a peer's window | bytes arrive in order, an end of stream means all of them, `handle` returns with both sockets closed |
| log_stream | 1 browser that may connect again, ring of 3 bytes, 3 writes of 1 to 4 bytes | a snapshot shows the last lines; every write is shown |
| rule_resolution | every file of up to 3 rules and imports over 3 nested names, one address with 2 contents | the first rule of the page wins in the gateways and in HAProxy; smartdns and the gateways agree; no body is older than its request |
| host | 2 requests, 1 address, 2 deployments, 4 unasked events (logins, breaks, renewals, failures) | few sessions outlive a change of the password; the lock of an address holds; the service starts with all it needs present, and with a pair unless writers of the pair broke off or overlapped; an installation can be finished |
| import_pending | 2 requests, no failures | counterexample 1 below |
| one_exit | files of up to 2 rules and imports | counterexample 2 below |

Why these bounds are enough. Three requests let an apply, a competing apply and
an import overlap in every order; a fourth would only repeat one of them, since
a call keeps nothing after it returns but rows, trees and the cache. Two inputs
distinguish "what is in force" from "something else". In the supervisor an
apply starts at most two groups (its own and the restored one): three allow a
Boot group and one apply with its restore. A second apply would begin as the
first does, with a current group and its rules, and the proofs are for any
number. Two
members are a first failure and one that follows while the first is handled. In
ApplyOperations two operations let one panel's operation be displaced by the
other's, in each order. Three releases are one that runs, a broken one and one
more; three failures allow a failure of an update, of its rollback and of the
start after it. Three connections are two for one client (the duplicate, or a
session and its successor) and one for the other. A ring of three bytes and
writes of one to four bytes wrap it, fill it exactly and exceed it. Three rules
are a winner, a rule it hides and one between them. Two contents of an address are
the one in the cache and the one published since. In TcpRelay two bytes are one
read before the relay and one in it, and one unread byte is a peer that blocks
the loop that writes to it. On the host two requests are a login and the change
it races with; two deployments are certbot's and one by hand; four events allow
a renewal inside a deployment, a break of install, a break of what healed it,
and one more. A second address would only repeat the first: the throttle keeps
nothing in common.
Symmetry is used only where callers, inputs, trees, members or clients are
compared for equality alone, and never for liveness or the refinement of
config_promise.

Deadlock is checked in config_safety and gateway_safety; in the latter it says
little, since an address may always send. The other runs switch
it off because the system stops there, or the bounds are used up: a supervisor
whose process has ended, panels that show their result, an updater with no
release left, a connection that is over, a file that is resolved, a host with
no event left, and config_promise, where the requests are used up (every
failure of config_safety keeps a crash possible).

Every property is paired in `PROJECT.json` with a mutant of the code it guards
against, kept in the modules beside the definition it replaces.

### Fairness

- ConfigService: the steps of an apply and of the start have timeouts or wait
  for nothing (weak fairness of `ApplyStep`, `BootStep`); Run's select and the
  watcher take what is ready; systemd restarts the daemon (`Restart=on-failure`
  in `internal/app/install.go`). `Lock` is strongly fair: a Go mutex that has
  made a goroutine wait for more than a millisecond is handed to it.
  `RuntimeRecovers` claims nothing when crashes or failing boots go on for ever.
- Supervisor: each wait has a deadline (readinessTimeout, shutdownTimeout) or
  waits for a process that has been sent SIGKILL; an exit that nobody asked for
  is not fair.
- ApplyOperations: timers fire, an awaited request is handled or refused, a run
  ends (CallsReturn of ConfigService), a dead daemon starts. Losses are not
  fair. With two panels each may displace the other's finished operation for
  ever, so `PanelFinishes` is claimed unless others go on applying for ever.
- Updater: the process runs, its five-second timer fires, systemd starts it
  again (weak fairness of `RunStep`). Publishing, requesting an update and
  failing are not fair.
- TcpRelay: the goroutines of a connection go on and deadlines pass (weak
  fairness of `HandleStep` and of each `CopyStep`). The
  actions of the peers are not fair: `RelayEnds` claims the return of `handle`
  for the behaviours in which both peers read what is written to them and end
  or reset their streams. Until the relay begins a silent proxy cannot hold
  `handle` up, and a copy that fails ends the other (`ErrorEndsBoth`).
- Installation: a command and a deployment that run go on; the operator repeats
  install, purges when install says that it cannot use the database, and resets
  a password that was never printed. Breaks, renewals and the panel's users are
  not fair.
- LogStream: the handler's steps and its 250 ms timer. Writing and leaving are
  not fair.

## Findings

Two statements of the documentation that the code does not keep:

1. *An import stays pending until it is applied* (`internal/app/app.go:84,86`).
   An apply of another bundle that is under way resets the draft pointer.
2. *A name's TCP and QUIC traffic goes to the exit its rule names*
   (`README.md:5`). A suffix written with a leading dot is trimmed by the
   gateways (`compiled.go:163`) and by smartdns (`smartdns.go:171`), which sends
   the name to the gateway; `render.go:214` writes it as it stands into
   HAProxy's lists, where it matches nothing. HTTP and TLS connections then go
   to the fallback exit, QUIC and other TCP connections to the exit of the rule. The
   counterexample of one_exit may begin with another rule whose pattern a real
   apply would refuse; the disagreement does not depend on it.

Seen while modelling and left without a run, because no statement of the
repository is contradicted or the properties exclude it by name: an apply whose
cleanup fails after the commit is answered with an error (`service.go:195`;
config_promise excludes those failures); the cached draft may name a row that
was pruned between SaveDraft's two steps; the second post of a displaced
operation may meet a running one and show a conflict; an update that begins
before the last one is settled replaces the record of the proven version
(`unquiet` in Updater); the linear matcher keeps a leading dot of an exact name
that the compiled one removes (only tests use the linear one).

The same holds for these:

- A panel that polls after its operation was displaced posts it again, and its
  bundle is applied twice. Two exits whose names fold to one identifier
  (`config.go:68`) share a backend.
- A login that compared the old password before a change and stores its session
  after it keeps that session until it expires or the next change (`auth.go:90`;
  the tests speak of sessions that exist at the change, not of this one).
  FewOutdated counts these sessions, and the instance reaches its bound. Of
  reset-admin and a change that has already compared, the last to write wins.
- install asks only whether a certificate and a key exist (`ensureCertificate`),
  so a later install accepts a file that was cut off while it was copied, and a
  certificate and a key of two issues, when certbot renews between the two
  copies (`install.go:341,347`), a deployment breaks off between its two
  renames, or two writers overlap. The service is then started with them, which
  is why StartsComplete claims a pair only if `pair` says that nothing of the
  kind has happened. DeployServes is about deployments that nothing else
  overlaps (`calm`).
- The certificate's hook and reset-admin create an empty database in a bare
  state directory, which install then refuses until it is purged; a deployment
  under way across an uninstall may start the service again; a `systemctl
  disable` that fails leaves a service that runs while its database is purged
  ("orphaned").
- While a `Run` that returns an error puts the saved binary back, nobody waits
  for the handlers: an update under way may replace the binary once more before
  the record is removed (`updater.go:150,153`), and then an unproven binary
  stands there without a record. WayBack leaves such updates out (`GoesOn` marks
  them).
- The QUIC gateway may still insert a session after `close` has emptied its
  table (`gateway.go:87`): NoLeak counts it as owned, but the table is
  abandoned, and its relay may block in a read for as long as the process lives.

## Proofs

### ConfigService

Everything below is proved for any set of callers, importers and inputs, any
number of requests and any set of failures, from the assumptions
`CallersAssumption` (the null values are not members, there is an input) and
`BoundsAssumption`.

`Typed` is the type invariant together with "the holder of `applyMu` has a
request". `StoreInv` is the first layer of the inductive invariant:

- `FreshKeys`: every row and tree is older than the next key. Without it a new
  candidate could overwrite the row or the tree a rollback needs.
- `OnlyUpApplies`: no call is in flight while the daemon starts.
- `OneActiveRevision`.
- `Locals`: `base` is the active revision until the commit, the candidate's row
  exists and holds the caller's input, and the verdict fits the phase. During
  "rollback" the active pointer is `base` or `cand`, because an error of
  Activate does not tell.

`RuntimeInv` is the second layer, proved from the first: where trees are kept,
what runs, what the cache shows, and what a verdict implies. The runtime and the
store part for two causes, which the history variable `lapses` records when they
happen and an apply that changes something, or the next start, clears:
"committed" (Activate commits and reports an error, so the pointer is the
candidate's although the apply rolls back and is answered "failed") and
"unrestored" (the supervisor's Apply fails in the rollback, `service.go:185`,
whatever group that leaves). FailedApplyUndone, RunningIsActive and TreesKept are stated
with these causes in their hypotheses, never with the outcome: a rollback whose
Apply succeeds must have brought back the revision the apply started from, and
after one that fails the active pointer must still be that revision.

Every safety property of config_safety follows; each theorem's proof has one
step per action. The action properties ChangedIsInForce and FailedApplyUndone
are proved from the invariants and the step; so are two more that no run
checks, CommitsOnlyWhatRuns and SwitchesOnlyForChange.

`AppliesAreAtomic` is the refinement ApplyIsAtomic, under `StorageWorks` (SQLite
and the removal of files do not fail, as in config_promise; every other failure
is allowed). It goes through the actions: a call takes effect when Activate
commits, or at the lock if its bundle is in force already; a return is the
answer; the end of the daemon is AtomicApply's Restart; everything else leaves
what AtomicApply sees alone. `Decided` is the one invariant it needs beyond
StoreInv: an apply that cleans up knows its outcome. With a store that fails the
refinement is false: an apply whose cleanup fails after the commit is answered
with an error.

### Supervisor

`SupervisorInv` is inductive for any trees, any members, any bound on the groups
(`GroupsAssumption`: at least the one of Boot) and any kinds of failure. Its
parts:

- `LockHeld`: a call inside Apply has the lock, Boot runs before there is one,
  and a daemon that serves has a group.
- `CallKnows`: the group that is built is the newest, of the root the call is
  trying to run, whose rules are loaded; the current group is the previous one,
  and it has been cancelled. Without the last a failed switch could report a
  fatal error although the group it found is complete, and ManagedRuntime would
  not allow the answer.
- `GroupsKnown`, `GroupsLeft`: groups that have not been started are empty, and
  the bound leaves a call the two it may need.
- `ReportMeansLoss`: a report in a channel or a watcher's hands says that a
  member has ended.
- `OnlyOneLives`: only the group that is built or, outside a build, the current
  one has members. OneLiveGroup alone is not inductive: it does not say which.
- `RulesKept`: outside a switch the rules are those of the current group.

OneLiveGroup, RulesFollowGroup and ReportsOnlyLosses follow. `PromiseKept` maps
every step to a step of ManagedRuntime or to a stutter (KeepsPromise). The steps
of members and watchers are treated at once (`Passive`), as those of the group
that is built (`BuildInv`), the failures (`FailedInv`) and the answers
(`ReturnInv`).

### ApplyOperations

`OperationsInv` adds two parts to the types and the two properties, for any
panels and any number of operations and losses (`PanelsAssumption`,
`OpsAssumption`):

- `Exchanges`: a panel waits for one request or one answer at a time, always
  under its present operation. Without it an answer that the panel had given up
  on could be taken for the answer to the next operation.
- `Outcomes`: a final status in the coordinator or on its way to a panel is
  that of a run that ended.

### Updater

`UpdaterInv` adds `Settled` to the types and `WayBack`: while an update is at
work the process has confirmed, and (for updates that wait for the last one to
settle) it is the binary on disk and the backup is a copy of it once it is
saved. Without it the copy of `Client.Apply` could save
an unproven binary as the way back.

### GatewaySessions

`GatewayInv` is inductive for any clients, goroutines and connections
(`NoneAssumption`, `KindsAssumption`: the remover of an entry is known by who it
is). NoLeak, ClosedOnce, SessionWatched and OwnDatagrams follow. Besides the
types and the properties it says:

- `CloseCounted`, `OpenedForClient`, `RelaysOpened`: what an unused, an open and
  a closed connection are.
- `TableServes`: a connection in the table is open and stands under the address
  of its client, so it stands there once. This is why `remove`, which deletes by
  address, closes only what it took.
- `OwnWhile`, `OwnServes`, `OwnAlone`: the connection that newSession opened is
  for its packet's client, belongs to one goroutine, and has no relay while that
  goroutine holds it. `OwnHidden`: until it is inserted it is open and nobody
  else can close it; without this the duplicate could be closed twice.
- `OldServes`, `FoundServes`: a connection found in the table is used after the
  lock is gone. It may be closed by then, but it is of the same client.
- `VictimOpen`, `VictimAlone`, `VictimWhile`: what a remover has taken out is
  open, no longer in the table, and nobody else's until it is closed.

`TakeInv` and `CloseVictimInv` treat the two halves of `remove` once for
newSession, the relays and the collector.

### TcpRelay

`RelayInv` is inductive for any number of bytes and any room on the way
(`BoundsAssumption`). BytesInOrder, EndMeansAll and NoConnectionLeft follow; none
of them is inductive, since what the peer has read says nothing about what is
still on its way to it. For each direction (`StreamOK`) it says:

- `Arrived`, `OnTheWay`, `HeldFor`, `Unread`: what the receiver has read, what is
  on its way, what the gateway holds (the bytes read to find the host, then the
  chunk of the copy) and what the gateway has not read are consecutive pieces of
  the stream, and together all that the sender has sent. A reset of the receiver
  ends all of these but the first, a reset of the sender the last.
- `AllPassed`: a copy that has ended without an error has passed on everything,
  and its input stays at the end.

and for the connection:

- `Handshake`: question and answer take turns, so exactly one message is under
  way in "method" and "reply" and none when the relay begins. Without it a byte
  of the server could be taken for an answer. A message may still be on its way
  to the proxy after the handshake was given up: then the gateway's socket is
  closed.
- `CopyOK`, `Results`: the copies run in relayTCP only, start together, and each
  puts its result into the channel once. So the second result means that both
  are done, and a copy that is done is in the channel.
- `Sockets`, `Failures`: in which phases a socket may be open, closed or have a
  deadline. A deadline is set during the first read and the handshake only, and
  a socket closed in the relay means that there was a reset. This is why only a
  reset makes a copy fail.

The lemmas `RunAppend`, `RunTail`, `RunSplit` and `RunConcat` about pieces of a
stream carry the steps that move bytes: `StreamRead`, `StreamPass` and
`StreamArrive` treat a byte that is read, passed on and received once, for the
initial bytes and for both copies; `StreamFrame` is everything else.

### LogStream

`StreamInv`: a handler that runs is subscribed, its channel is open, and if it
waits on a text older than the ring there is a signal in its channel or a timer
set. `NoLostWakeUp` and `SendsOnOpenChannels` follow for any number of browsers
and writes.

`RingInv` is about the bytes: the ring holds as many as fit, and the i-th of them
(at index `start + i - 1`, modulo `Limit`) is the byte that far from the end of
all that was written. It is kept by a write that fits, one that overwrites the
oldest bytes and one larger than the ring; `Remainder` says what `%` is for the
few multiples of `Limit` an index can reach, since the provers know nothing of
it. `ShowsLastLines` adds what the search for line breaks from the end returns.
It is for a ring of any size and writes of any bytes (`LimitAssumption`).

### DomainMatcher

`CompiledIsFirst`: for every list of rules and every name, the compiled matcher
returns the least rank of a rule that matches. `ExactRank` and `WalkRanks` say
what the table and the walk through the trie return; that a least rank exists
comes from the well-foundedness of `<`. `NamesAreThere` is what `Compile`
refuses otherwise. `CompiledIsLinear` compares it with the linear search under
`PlainDots`, without which the two treat stray dots differently. Both are about
the list of gateway rules.

### RuleResolution

`HAProxyIsCompiled` goes on from there: for every list of rules and every name
without outer dots (`NoOuterDots`), `use_backend` chooses the rule that the
compiled matcher chooses. one_exit shows that the assumption is needed.

`ReadsAreFresh` states FreshBody for any imports, addresses and contents. Its
invariant, `Reads` of ImportCache, says where each read stands, and that what it
was answered lies between what was published when it began and what is
published now. The cache's contents do not enter it: that is the point of
answering a 304 with the row that was sent along.

`FirstRuleDecides` and `PlanIsFollowed` state FirstRuleWins and PlanAgrees for
every file, every set of rules and imports of the right type
(`SourcesAssumption`), every host and every order in which downloads end. The
invariant `ResolveInv` says that an answer is kept under its import's index, and
that what is done was made of all of them; the rest is about the operators:

- Loops are recursive functions. `CountingUp` takes the least counterexample in
  place of an induction, `RecursionExists` shows that the function a definition
  chooses is there, and `FilterKeeps`, `FlattenJoins` and `PlanIs` say what
  filtering, joining and `buildPlan` compute.
- `LessIsOrder`, `SortedArranges`: the comparison of the sort is a strict total
  order on sources with different indexes, so an arrangement exists (by
  inserting one source after another) and the sort is one.
- `InOrder`, `Has`: a list contains rules of the page, each once, one before
  another only if it stands ahead on the page; and it has a given rule.
  `ResolvedInOrder` proves both of what Normalize makes, for every rule that has
  matchers, `GatewayInOrder` of what GatewayRules leaves.

FirstRuleDecides then takes the first match of the list to the first of the page
with CompiledIsLinear and HAProxyIsCompiled. It has the hypothesis `UsualDots`:
no name begins or ends with several dots, and hosts and exact names do not begin
with one.
With others the compiled matcher matches names that no rule of the page does, as
read rule by rule. rule_resolution's names satisfy it. PlanAgrees needs no such
hypothesis, only that Compile accepts the list, since DropTrailingKeeps and
DropLeadingKeeps show that smartdns's trimming and the matcher's end at the same
name.

### Installation

`HostInv` is inductive, for any deployments, requests, addresses, limits and
bounds (`InstallationAssumption`: the hook is one of the deployments, and no
deployment bears one of the other names `pair` may have;
`SessionsAssumption`: the requests at one time are finitely many), and has six
parts that are proved one after the other:

- `Accounts`: FewOutdated with the types of what it speaks of. A change ends all
  sessions, and the logins that have compared a password by then are requests;
  after that each of them that stores its session is no longer under way, and no
  login joins them, since one that compares now compares the password in force.
- `Deployments`: a deployment works with a certificate that was issued, and has
  read its key before it replaces anything. Without it a deployment could
  remove what install has found in place.
- `Reached`: what install has put in place by the step it is at, and that a unit
  exists only on a complete host. The second is what StartsComplete needs for
  deployments, which start any service that has a unit, and it is why purge may
  remove the database only after the unit.
- `Calm`: a deployment that nothing has overlapped is alone, so the files it has
  replaced hold what it has read, and certificate and key are of one issue.
  DeployServes (`DeploymentServes`) follows for its restart.
- `Pair`: certificate and key are of one issue when `pair` is "whole", and while
  it names a writer that is about to write the key, the certificate on disk is
  the one whose key that writer has. The last part of StartsComplete follows.
- `Throttle`: as long as a window is open, the failures of an address and the
  logins it has let in that may still fail are together fewer than the limit and
  the number of requests; and an address that is not locked has fewer failures
  than the limit. FailuresBounded (`LoginsThrottled`) alone is not inductive: it
  does not count the logins that have passed the check and not yet failed.

### Only model-checked

Every invariant and every action property of a passing run, and both
refinements (of AtomicApply and of ManagedRuntime), are proved. Liveness is not:
CallsReturn, RuntimeRecovers, LossNoticed, ApplyReturns, PanelFinishes,
ServiceReturns, ErrorEndsBoth, RelayEnds, NewestIsShown and InstallationFinishes
rest on fairness, for which TLAPS has no ENABLED reasoning here. The type
invariants of LogStream and Installation are stated in their modules and are in
no run: the other properties fail first when a variable leaves its type. Those
of the other modules with a `TypeOK` are part of their inductive invariants.

## Abstractions

- `system.state_dir` is the same in all revisions; the code joins paths from
  the revision at hand.
- While Run is shutting down an apply may still take steps; in ConfigService
  the daemon's end is one step, since what such an apply could still commit is
  what a crash after that commit leaves.
- `Run` also refuses to start on an active revision that has rules or imports
  but no resolved rules (`daemon.go:46`). BootRead has no such branch: no
  revision of the model can be so, since ValidateManaged keeps the rule ip-check
  among the rules of every bundle and resolving them keeps it.
- In the supervisor the members start in any order; the code starts them in the
  order of the configuration. A service call with a cancelled context is a
  failing one.
- `POST /api/v1/apply` on the control socket bypasses the coordinator; it is a
  caller of ConfigService and not part of ApplyOperations.
- A page that is closed (`disposed`) stops polling: its operation is then only
  the daemon's.
- One update request runs at a time (the panel's button is disabled while it
  does). A release that fails before `daemon.go:39` never reaches the rollback
  and is not one of the failures here.
- An Initial packet decrypts to a host name or does not, and the SOCKS5
  handshake succeeds or fails: GatewaySessions has one choice for both.
- Case, spaces and non-domain matchers of rules are left out; a keyword or a
  regular expression is the set of names it is found in. How smartdns itself
  matches subdomains is not modelled: PlanAgrees speaks of the names it is
  given. HAProxy is given the host name alone: a port in an HTTP Host header or
  outer dots in it are not modelled.
- TcpRelay reads a host name out of the first bytes or does not: parsing TLS and
  HTTP is a choice. A copy
  reads any part of what has arrived and writes it byte by byte.
- A digest of a password or a token is the value itself, and random values
  never collide. There is one user, as only ResetAdmin inserts any.
- install is repeated with the same values; with others it is refused before
  it does anything. certbot does not run twice at a time, as its own lock sees
  to. A write that truncates and fills a file is one step unless it breaks off.

## Not modelled

- The nftables table, sslocal's and smartdns's files, exit identifiers and the
  rejection of encrypted DNS in `internal/render`, and defaults and validation
  in `internal/config`: functions from one value to a text or a verdict, without
  state or order of events.
- Parsing of QUIC Initial packets, TLS hellos and HTTP heads (`sni.go`): each is
  success or failure where it is used.
- Prompts, flags, ownership of files, the check for legacy units, packages of
  the distribution and the commands that replace an installed binary.
- Metrics, diagnostics, the read-only API, the command line client, the iOS
  profile and the embedded assets: they read, or keep a bounded table that
  nothing else depends on.

## What to do next

The type invariants of LogStream and Installation as theorems; the invariants
that the liveness properties rest on (who is waiting for whom), as far as they
are safety.
