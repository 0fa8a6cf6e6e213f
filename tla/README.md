# Not-So-Localhost in TLA+

Not-So-Localhost gives several home machines ("nodes") one shared registry of
applications, public hostnames through Cloudflare tunnels, and one login
service.  No server coordinates the nodes.  Two things do: an object in an S3
bucket that every node's registry process changes with conditional writes, and
a Cloudflare durable object, the enrollment broker, that owns tunnels and DNS.
This directory models those two, the processes on every machine that work with
them, the move of the login service from one machine to another, the enrollment
of a machine, and the backup service.  TLC checks the models on small instances;
TLAPS proves the central properties for every instance.

1. [Inventory of the system](#1-inventory)
2. [The modules and how they correspond to the code](#2-modules)
3. [What is checked](#3-runs)
4. [What is proved](#4-proofs)
5. [Findings](#5-findings)
6. [What is not modelled](#6-not-modelled)

To repeat it: `tlc -config nodes.cfg MCRepository` and likewise for the other
configurations (the table in section 3 names the module of each); `tlapm
RepositoryProofs.tla` and likewise for the other modules of proofs.

## 1. Inventory

### Components

| Component | State | Operations | Talks to |
|---|---|---|---|
| **Registry repository** `registry/cmd/repository.go`, `model.go` | none in memory; the registry in the store: revision, recent operation ids, nodes, auth owner, apps | `Load`; `mutate` with `RegisterNode`, `ClaimAuthOwner`, `TransferAuthOwner`, `CreateApp`, `UpdateApp`, `DeleteApp` | object store |
| **Object store** `registry/cmd/store.go`, `s3store.go` | `current.json` (pointer), immutable snapshots, `initialized` (marker) | `Get`, conditional `Put` | S3 |
| **Enrollment broker** `broker/src/index.ts`, `validation.ts` | SQL tables of tokens, nodes, app hostnames; promise queue | issue token, enroll, sync apps, provision app, provision auth, transfer auth, adopt DNS | Cloudflare tunnels and DNS |
| **Registry handlers** `registry/cmd/main.go`, `access.go` | loaded identity, configuration | app API v2, v1 adapter, node and auth-owner endpoints, `authorize`, auth-ready | repository, broker, reconciler |
| **Reconciler** `registry/cmd/reconcile.go`, `broker.go` | last routes, `brokerRevision`, `authProvisioned`, trigger channel of capacity 1 | `Reconcile`, `Trigger`, periodic run | repository, broker, Traefik's routes file |
| **Auth ownership** (registry, broker, Compose's Keycloak) | the owner in the registry, the owner in the broker, whether Keycloak runs | startup claim, guarded transfers on both sides, auth-ready | all of the above |
| **Node initialisation** `node-init/main.go`, `registry/cmd/identity.go` | identity file, credential and tunnel files | create or load identity, enroll, write files | broker |
| **Backup** `backup/cmd` | remote records, emergency copies on disk, record cache | scheduled and manual backup, promotion, restore, listing | S3, PostgreSQL |
| User directory, portal page, authz sidecar, generators, deployment files | none of their own | stateless lookups, forwarding, templating | |

### How they interact

A user's change arrives at the handlers of the node it was made on, is checked
against one `Load`, and is made by a call of `mutate`, which loads again.  Then
the reconciler is triggered: it loads once more, writes the routes file and
tells the broker which apps this node has.  The broker brings its tables, the
node's tunnel and the zone's records in line.  Nothing ties these steps
together but revisions, generations and retries.

### Where it is hard, and what correct means

*Repository.*  Processes on different machines race with nothing but
If-Match / If-None-Match between them.  Requests fail before or after they are
performed; the SDK retries requests on its own; a process may stop between any
two requests.  Correct means: no update is lost; an operation is applied at
most once; an answer is true (a refusal means the change is not made, a success
means it is); the pointer never names a missing snapshot; a lost pointer never
looks like a new store; a generation of an application is replaced once; the
auth role is never taken, only transferred; names and routes never clash; the
loop ends.

*Broker.*  One request at a time, but every handler is a sequence of table
writes and Cloudflare writes of which nothing is rolled back, and the object may
be restarted anywhere between them.  Correct means: what is left behind can be
cleaned up or finished by a later request; records of others are never
touched; "ready" is true; tokens are single-use and yet usable again by the
node that claimed them; a failed handler does not stop the next.

*Handlers, reconciler, auth ownership.*  Check-then-act over two loads, events
dropped when one is pending, values cached per process, and two owners (registry
and broker) changed by two requests.

Correct means: a check made on one load holds for the mutation made on another;
no trigger is lost; what the process believes to have told the broker is what
the broker has; in the end every node serves what the registry says; one
Keycloak at most, started where the login is routed, and not none for ever.

*Node initialisation.*  Several files written one after another, a crash between
them, an operator who comes back with another token, a second machine with the
same name.  Correct means: a name belongs to one machine, which can always come
back for it.

*Backup.*  Runs of a ticker, of the start and of requests, and listings at any
time, over two stores of which one may be away.  Correct means: what was
answered as safe stays whole somewhere, emergency copies end in the bucket, and
a listing does not miss a backup because it is being moved.

`PROJECT.json` lists the hazards line by line, with the properties that cover
each one.

## 2. Modules

```
RegistryState ──► Repository ──► RegistryGuarantees ──► MCRepository
      │                                │    │
      ├───────► AtomicRegistry ◄───────┘    └─────────► RepositoryProofs ──► AnswerProofs
      │           (refinement)
      ├───────► RegistryProcess ──► MCRegistryProcess
      │                │  └───────────────────────────► RegistryProcessProofs
      ├───────► AuthOwnership ────► MCAuthOwnership
      │                │  └───────────────────────────► AuthOwnershipProofs
      └───────► RegistryStateProofs (lemmas; extended by the three above)

Broker ──► BrokerGuarantees ──► MCBroker
                   ├──────────► NodeInit ──► MCNodeInit (with MCBroker)
                   │               └───────────────┐
                   └──────────► BrokerProofs ──► NodeInitProofs

Backup ──► MCBackup
   └─────► BackupProofs
```

An arrow reads "is extended by"; `AtomicRegistry` is instantiated by
`RegistryGuarantees` with a refinement mapping.  `RegistryProcess` and
`AuthOwnership` use the operations of `RegistryState` as atomic steps.  What
justifies that is the refinement: `Repository` implements `AtomicRegistry`
(`Implements` in section 4).

### RegistryState: the content of the registry

The closures given to `mutate`, as pure operators.  `Outcome(o, s)` says what
the closure of operation `o` does with state `s`: `change`, `nochange`
(`ErrNoChange`) or one of the refusals.  `Effect` is the edited state,
`Successor` what `mutate` adds (revision + 1, the operation id, the newest
`RecentLimit` of them).  The order of checks is the code's: `AtGeneration` is
`UpdateApp`'s and `DeleteApp`'s lookup before anything else, `NameTaken` is the
early return of `RegisterNode`'s loop, `TransferOutcome` keeps that a transfer
to the present owner succeeds whatever it expected.

Abstracted: timestamps, descriptions, target URLs, priorities and route ids
become one flag `wellFormed` of the input; a node or application name is its
slug; a path rule is one of the three shapes `buildApp` allows.  `Hostname` is
a parameter because it is not injective: slugs are joined with `--` and may
contain it, so `web--y` on `x` and `web` on `y--x` are one host.  The instances
have exactly this pair.

### Repository: the protocol of mutate

One step is one request to the store, with the local code before the next.

| Step | Code | |
|---|---|---|
| `LoadPointer`, `LoadMarker` | `Load` | pointer and snapshot in one step, snapshots being immutable; marker in a second |
| `PutSnapshot`, `CheckSnapshot` | repository.go:109-118 | If-None-Match; a present key is read back |
| `PutPointer`, `PutPointerRefused`, `PutPointerUnclear` | 119-132 | If-Match on the loaded ETag |
| `PointerMatches`, `OperationCommitted` | 133-144, 155-183 | the two confirmations after a failed write |
| `EnsureMarker` | 145-149 | only by a call that loaded no pointer |
| `Exhaust`, `Reply` | 150-153 | |

The environment: any request may fail (`...Fails`); a pointer write whose
answer is lost stays in `inflight` and may be performed at any later time
(`LateWrite`) or never; a process may stop (`Crash`); the pointer object may
disappear once (`LosePointer`), where a configuration allows it.  A pointer
names a snapshot by the digest of its body, so pointer, ETag and snapshot are
one value.

`log`, `start`, `blind`, `faults` and `lost` are history: every pointer the
store ever had and who wrote it, when a call began, and which calls retried
although their own write was, or still could be, performed without their being
able to see it.  Nothing but bounds (`Fault`) and properties reads them.

`blind` is the honest limit of the protocol and part of several statements.
The code's confirmation reads are best effort: when they fail together with the
write, or when the operation id has dropped out of the recent list, the loop
tries again and the operation is applied twice.  "At most once" is true exactly
of the calls that are not blind.

### AtomicRegistry: what the repository promises

One registry value; a call asks, is applied in one step, and is told an answer
that was deserved at some moment between.  It knows neither store nor attempts.
`RegistryGuarantees!ImplementsAtomic` is its specification under the mapping
registry = last entry of the log, took = the calls with an entry in the log,
doubt = blind calls, seen = the outcomes the operation would have had in the
states since the call began.

### Broker

| State | Code |
|---|---|
| `nodes`, `owner`, `tokens`, `rows` | the tables `nodes` (its `auth_owner` column), `enrollment_tokens`, `apps` |
| `ingress`, `dns` | the tunnels' configurations and the zone; a record is a tunnel's, absent, a proxied CNAME made by somebody else (`Legacy`) or anything else (`Foreign`) |
| `queue`, `pc`, `req`, `left`, `result` | the promise chain of `fetch`, and where the handler in front of it is |

One step is one Cloudflare write with the reads that decide it, or the table
operations between two of them; JavaScript runs these without interruption and
no other handler runs before the handler in front of the queue is finished.
`Performed` is a Cloudflare write that is performed and whose answer arrives or
is lost; `CloudflareFails` is one that is not performed.  Both end the handler
with an error and leave everything else as it is.  `Restart` drops the queue
and keeps the tables.

| Handler | Steps |
|---|---|
| `issueToken` | `IssueToken` |
| `enroll` | `Enroll`, `NodeTunnel`, `TerminalIngress`, `TerminalRecord`, `NodeRow`, `PortalTunnel`, `PortalIngress`, `PortalRecord`, `Answer` |
| `syncApps` | `SyncApps`, `Drop`*, `AddRows`, `NodeIngress`, `EnsureRecord`*, `Answer` |
| `provisionApp` | `ProvisionApp`, `NodeIngress`, `EnsureRecord`, `Answer` |
| `provisionAuth` | `ProvisionAuth`, `NodeIngress`, `EnsureRecord`, `Answer` |
| `transferAuth` | `TransferAuth`, `SourceIngress`, `DestinationIngress`, `AuthRecord`, `Answer` |
| `adoptDNS` | `AdoptDNS`, `AdoptRecord`, `Answer` |

Abstracted: requests with wrong credentials (they change nothing), the values
of credentials and tunnel ids (a tunnel is the one `createTunnel` finds by its
name), the schema migration in the constructor.  A Cloudflare request that is
outstanding when the object is restarted took effect or never does.
`interrupted` is history: the transfer that was admitted and not completed.

### RegistryProcess: handlers and reconcilers

| State | Code |
|---|---|
| `registry` | the registry, changed by one atomic step per mutation |
| `pc`, `req`, `op`, `ids` | a request from its arrival to its answer; `op` is the call of the repository made of it |
| `stage`, `serving`, `trigger`, `loaded`, `seen`, `synced` | a process: where its reconciler is, whether `ListenAndServe` was reached, the channel of capacity one, the load of the pass, `brokerRevision` |
| `inbox`, `hosts`, `routes` | a node's requests the broker has yet to perform, its hostnames there, its `managed.yml` |

| Code | Steps |
|---|---|
| `createApp`, `createLegacyApp` | `CreateApp` (in `Arrive`), `Mutate`, `Respond` |
| `updateApp`, `deleteApp` | `ChangeApp`, with the node's own token `Check`, then `Mutate`, `Respond` |
| `updateLegacyApp`, `deleteLegacyApp` | `ChangeLegacyApp`, `Check`, `Mutate`, `Respond` |
| `main` | `Boot`, the first pass, `EndPass` |
| `Run`, `Reconcile` | `Wake`, `Load`, the broker's answer or `GiveUp`, `WriteRoutes` |
| a write that is performed after its call has failed | `LateMutate` |
| the broker | `BrokerSyncs`: in the order of arrival, whole or stopped half-way (`Partial`: `syncApps` first drops, then adds) |

`Check` and `Mutate` are two loads with everything in between.  A client names
in If-Match any generation the application had up to now.  Both a routes
directory and a broker are configured.  Left out: reads, `authorize` (one load
and an answer) and the comparison of tokens; `source` says which token a
request came with.  Which call may ask for what is a constant, to keep the
instance small.  A node's requests are assumed to reach the broker in the order
in which they were sent; the object's queue keeps that order, the network need
not.  A load that fails has taken its trigger from the channel, and what it was
for is left to the ticker: `NoLostTrigger` starts again there (`acked`).

### AuthOwnership: who runs Keycloak

The registry's owner with the pointer writes that were answered with an error
and may still be performed (`late`), the broker's owner and the record of the
auth hostname, and on each machine the settings (`flag`: NSL_AUTH_OWNER,
`profile`: auth in COMPOSE_PROFILES), the registry process with the flag it was
started with, how far `compose up` is with the guard, and Keycloak.

| Step | Code |
|---|---|
| `StartRegistry`, `ClaimFails` | the claim in `main`; a refusal or an error is fatal |
| `EnsureAuth` | the reconciler's call, until it is told "ready" once |
| `AuthReady`, `AuthReadyAnswers` | `authReady`: the load, then the broker's answer |
| `StartKeycloak` | Compose starts what waits for `auth-guard` |
| `Crash` | processes stop; `restart: unless-stopped` brings Keycloak back without the guard, so `keycloak` stays |
| `TransferAtRegistry`, `TransferAtBroker` | the two guarded transfers, each with a lost answer or half-way |
| `LateWrite` | a pointer write of a claim or transfer that had failed for its caller; If-Match still holds |
| `Move`, `Fence`, `StopKeycloak`, `Enable`, `TurnRound`, `Investigate` | the operator of `docs/mbp-m1-agent-prompt.md` |

The operator's part is what the guide asks of him: he begins a move, or the way
back when it is not accepted, removes the source's settings, stops Keycloak
there, then transfers at the registry, at the broker, and enables the
destination.  When a transfer fails he repeats it or turns the pair round; then
the machine that was to be the next owner is fenced first.  When a late write
has made the two owners differ, so that the guard does not pass or one of them
refuses the pair, he investigates, as the guide says, and what the model has him
find is the repair: the pair from the registry's owner to the broker's.  He may
have given machines a flag or a profile by mistake.

The guide does not say that a `compose up` under way on the source must be
waited for or ended before Keycloak is stopped there.  That he does so is a
constant, `Waits`: `auth` and the theorems have it, and section 5 says what
happens without.  Moving the database's content is not modelled.

### NodeInit: identity and enrollment

`NodeInit` adds the credential volumes of several machines to the whole of
`Broker`: `identity` (node.json), `files` (the three credential files) and
`call` (the request of the node-init that runs).  `AskBroker` sends an
enrollment with any token that was issued; `WriteFile` writes one of the files,
whole or not at all (a rename), in any order (a Go map); `Exit` is a refusal, a
crash or the 90 seconds, and leaves the request with the broker.  Credentials
are functions of the id and the tunnel, so only whether a file exists is kept.
Machines may have been given the same name.

### Backup

| State | Code |
|---|---|
| `stores` | what `configureStores` made |
| `local`, `remote` | per key nothing, the beginning of a dump, or a dump |
| `lock`, `pc`, `key`, `pending` | the target's mutex and each run of `backup` |
| `records`, `found` | the cache, and what a refresh has listed so far |

| Code | Steps |
|---|---|
| `backup` | `Dump`, `Upload`, `Create` + `Write` (FileStore.Save), `DropLocal` |
| `promotePending` | its listing in `Dump`, `Promote`, `DropPromoted`, `Promoted` |
| `refreshRecords` | `Refresh`, `ListLocal`, `ListRemote`, `SetRecords`, in runs under the lock, in `List` without |

A failed upload may have taken place.  A failed or interrupted `Save` leaves the
beginning of the file.  Keys are timestamps, with a bound after which all
backups share the last one; statements about single backups leave that one out.
One target: targets share nothing but the map of records, which is replaced as
a whole.  Restore answers 501 and `DeletePrefix` has no caller, so the pruning
the package comment mentions does not happen.

Beside some definitions stands a variant that is wrong the way a plausible slip
in the code would be (a missing guard, a wrong order, a forgotten reset).  It is
not part of any specification; put in place of the definition it makes the
property it was written for fail, which shows that the property speaks about
that code.

## 3. Runs

All finish exhaustively; symmetry over calls is used in the runs that check
safety only.

| Run (module) | Instance | Shows | Distinct states |
|---|---|---|---|
| `nodes` (MCRepository) | 3 calls, 3 nodes, 2 faults, 2 attempts; a new store and a settled one | types, `SerialHistory`, `PointerNeverDangles`, `AtMostOnce`, `OwnerNeverStolen`, `RefusalIsFinal`, `AnswerIsCommitted`, `RetriesArePaidFor`, `ImplementsAtomic` | 500 k |
| `apps` (MCRepository) | 3 calls, 3 attempts, 1 fault; an app that is renamed, moved, deleted, and two new ones that clash with it | `OneChangePerGeneration`, `WellFormedRegistry` | 1.2 M |
| `initialization` (MCRepository) | 3 calls on a new store that may lose its pointer, fair, no faults | `EveryCallEnds`, `InitializationCompletes`, `StaysSealed`, `WellFormedRegistry` | 84 k |
| `marker_gap` (MCRepository) | a new store, loss and faults | refutes `FailsClosed`, see Findings | |
| `missing_pointer` (MCRepository) | a new store, no loss | refutes `MissingOnlyIfLost`, see Findings | |
| `broker_apps` (MCBroker) | 3 requests, 2 faults; two nodes whose hosts overlap | `RecordsHaveRows`, `OnlyOwnRecords`, `ReadyMeansRouted` | 350 k |
| `broker_auth` (MCBroker) | 4 requests, 2 faults; claims, transfers and adoptions among three nodes, an old record in the way or not | `TransferRecoverable`, `AuthServedByOwner`, `OnlyOwnRecords`, `ReadyMeansRouted` | 1.2 M |
| `broker_enrollment` (MCNodeInit) | 2 machines with one name, 3 requests, 2 faults, several tokens that expire; another node's app wants the new node's terminal host | `TokensAreSingleUse`, `ClaimSurvives`, `EnrolledNodesAreServed`, `FilesBelongToNode`, `NamesAreRecoverable` | 560 k |
| `broker_queue` (MCBroker) | 2 requests of every kind, 1 fault, fair | types and unique indexes, `EveryRequestEnds` | 160 k |
| `processes` (MCRegistryProcess) | 2 nodes, one yet to register; an administrator moves or splits an app while its node, another node or a v1 client changes or deletes it or creates another; 1 fault or restart, fair | `LocalOnly`, `LegacyKeeps`, `NoLostTrigger`, `SyncedServes`, `Converges` | 850 k |
| `auth` (MCAuthOwnership) | 3 machines, one perhaps enabled by mistake; 3 moves or reversals, 3 faults, late writes, `Waits`, fair | `OneKeycloak`, `StartsWhereRouted`, `OutageEnds` | 150 k |
| `backup` (MCBackup) | 2 runs, 1 listing at a time, 3 timestamps, 2 faults, each choice of stores, fair | `KeptBackups`, `PendingPromoted`, `ListingComplete` | 200 k |

### Why the bounds are enough

* Three calls: one to be retried, one to commit in between, one to commit after
  that.  With `RecentLimit` 2 two later commits push an operation id out of the
  list, so the failure that takes 100 commits in the code happens.
* Two faults: a lost answer and a failed confirmation of the same call, which
  is the shortest way into blindness, or a lost answer and a crash.  The `apps`
  run has one, because its properties are about content and not about doubt.
* Two attempts (`nodes`) make the loop run out; three (`apps`) let a call lose
  to both others.
* Broker requests are served one at a time, so what matters is the sequence.
  Three requests with two faults: an interrupted one, something in between,
  and the one that must cope.  Transfers have four, for a retry after two others.
* Four tokens cover one that exists and one issued by each of three calls.
* Two machines with one name are the smallest race for it; three requests leave
  room for a first that is interrupted, a second machine's, and the retry.
* In `processes` two calls are enough for check and act: one between the two
  loads of the other.  One fault is one of: a restart with a request queued at
  the broker, a timeout there, a half-done sync, an unanswered write.
* Three machines in `auth`: the source, the destination, and one that is
  neither; three moves allow a move, its reversal, and the way on.  Three faults
  interrupt each of these once, or leave late writes of two of them.
* In `backup` an emergency copy, the run that promotes it and a third backup need
  three timestamps.  Two runs contend for the lock, and the listing runs beside
  them.

### Fairness

`FairSpec` of Repository has weak fairness of `Step(c)`: a goroutine keeps
running and the store answers each request, if only with an error.  Faults,
crashes and late writes get none.  `FairSpec` of Broker has weak fairness of
`Handle(c)`: the runtime keeps running a handler whose Cloudflare request
settled.  No fairness is assumed of arrivals, expiry, failures or restarts.
`FairSpec` of RegistryProcess has weak fairness of `Reconcile(n)`: the loop runs,
and the ticker wakes it when nothing else does; of `Boot(n)`: the restart policy;
and of `BrokerSyncs(n)`: the broker gets through its queue.  Clients, and writes
nobody waits for, promise nothing.  `FairSpec` of AuthOwnership: Docker restarts
the registry process, `compose up` is repeated, and the operator finishes what
he has begun and looks into a guard that does not pass ("Investigate a guard
failure rather than bypassing it", the guide); nobody has to begin, and late
writes promise nothing.  `FairSpec` of Backup: the ticker starts runs for ever,
the dump works (it changes nothing otherwise), and a goroutine that may take a
step takes it.
`EveryCallEnds` needs no strong fairness because a call gives up after
`MaxAttempts` rounds.

The specifications of Repository and Broker let a run stop only when every call
has ended (`Finished`), and those of processes and backups never stop, so a
deadlock is an error in every run but `auth`, where a system in which everything
runs and nobody moves anything has nothing to do.

### Properties worth reading first

* `SerialHistory`: entry i of the log is the operation of its call applied to
  entry i - 1.  It fails when the pointer write is not conditional.
* `RefusalIsFinal`: a call told "conflict" has not changed the registry, also
  when its write turns out to have been performed.  It fails when a write whose
  fate is unknown is reported as refused.
* `RetriesArePaidFor`: a round of the loop costs somebody else's commit or a
  fault, so the loop cannot spin on itself.
* `TransferRecoverable`: the operator's guide (`docs/mbp-m1-agent-prompt.md`)
  says to retry the same pair or to roll back.  Whatever came after, both are
  still admitted.
* `RecordsHaveRows`: the order "record, then row" on deletion and "row, then
  record" on creation means that a later sync always finds what it has to
  remove.
* `LocalOnly`: the check of a node's own token is made on one load and the change
  on another, perhaps long after the call has failed.  It rests on generations:
  an application that moved has another one.
* `SyncedServes`: while the reconciler keeps silent because `brokerRevision` is
  current, the broker has exactly the node's enabled applications, also after
  timeouts, restarts and requests that come late.
* `OneKeycloak` and `OutageEnds` together: the fence is enough for the first,
  and does not prevent the second.  `StartsWhereRouted` speaks of the broker
  only: the registry's owner may have changed since the guard's load, by a late
  write (`RecordedOwnerRuns`).
* `NamesAreRecoverable`: an enrolled name is never lost to its machine; its
  token stays usable by it.
* `RecordsHaveRows` and `ReadyMeansRouted` are stated for unambiguous
  hosts.  For two nodes that read one host as theirs, INSERT OR IGNORE keeps
  one row, and the other node may get a record without a row.

## 4. Proofs

| Module | Theorem | Statement |
|---|---|---|
| RepositoryProofs | `TypeCorrect` | `Spec => []TypeOK` |
| | `PointerSafe` | `Spec => []PointerNeverDangles` |
| | `Serial` | `Spec => []SerialHistory` |
| | `OwnerSafe` | `Spec => []OwnerNeverStolen` |
| | `ClosedForGood` | `Spec => StaysSealed` |
| | `ContentStaysSound` | `OneNamePerNode /\ SoundSeeds => (Spec => []WellFormedRegistry)` |
| AnswerProofs | `AppliedOnce` | `Spec => []AtMostOnce` |
| | `RefusalsStand` | `Spec => []RefusalIsFinal` |
| | `SuccessIsTrue` | `Spec => []AnswerIsCommitted` |
| | `GenerationsDecide` | `Spec => []OneChangePerGeneration` |
| | `RetriesPaid` | `Spec => []RetriesArePaidFor` |
| | `Implements` | `Spec /\ []~lost => ImplementsAtomic` |
| BrokerProofs | `BrokerInvariant` | `Spec => []Inv` |
| | `BrokerType` | `Spec => []TypeOK` |
| | `RecordsAlwaysHaveRows` | `Spec => []RecordsHaveRows` |
| | `TerminalsAlwaysServed` | `Spec => []EnrolledNodesAreServed` |
| | `SingleUse` | `Spec => []TokensAreSingleUse` |
| | `AlwaysRecoverable` | `Spec => []TransferRecoverable` |
| | `AuthAlwaysServed` | `Spec => []AuthServedByOwner` |
| | `OnlyOwnRecordsChange` | `Spec => OnlyOwnRecords` |
| | `ReadyAlwaysRouted` | `Spec => ReadyMeansRouted` |
| | `ClaimsSurvive` | `Spec => ClaimSurvives` |
| NodeInitProofs | `FilesAlwaysBelong` | `SpecNodeInit => []FilesBelongToNode` |
| | `NamesAlwaysRecoverable` | `SpecNodeInit => []NamesAreRecoverable` |
| RegistryProcessProofs | `NodesKeepToThemselves` | `Spec => LocalOnly` |
| | `LegacyLosesNothing` | `Spec => LegacyKeeps` |
| | `TriggersAreKept` | `Spec => []NoLostTrigger` |
| | `SyncedIsServed` | `Spec => []SyncedServes` |
| AuthOwnershipProofs | `AtMostOneKeycloak` | `Waits => (Spec => []OneKeycloak)` |
| | `GuardedStart` | `Waits => (Spec => StartsWhereRouted)` |
| | `RecordedUnlessLate` | `Waits => (Spec /\ [][~LateWrite]_vars => []RecordedOwnerRuns)` |
| BackupProofs | `KeptSafe` | `Spec => []KeptBackups` |
| | `RecordsComplete` | `Spec => ListingComplete` |

They hold for any number of nodes, calls, names, applications, tokens, machines,
runs, attempts and faults, and, but for the refinement, for the repository with
and without pointer loss.  With them every safety property that a passing run
checks is a theorem.
`RegistryStateProofs` has the lemmas about the pure operators that three of the
modules cite.

*Assumptions* are those the modules name, and TLC evaluates them in every run.
All: nodes are numbers (they have an order, which `RegisterNode` uses), limits
are positive, `None` is no element of the other sets (`Absent`, `NoneIsNoRecord`,
`NoneIsNoAnswer`, `NoAnswerYet`, `NamesDiffer`, `NoneIsNothing`, `Names`).  Repository: `Ops` are
operations and `Seeds` snapshots; no seed remembers the id of a call yet to come
(`FreshCalls`: the ids are random UUIDs, repository.go:80).  Broker: what is
asked for is a request and what an instance starts from a state of the tables
(`KnownRequests`, `KnownStarts`); the broker's infrastructure hosts, terminals
and app hosts of one node differ (`HostsDiffer`: `t` is reserved as an app
name, validation.ts:24, and the infrastructure hosts have no `--`; hosts of
*different* nodes may coincide); and the instance starts where the broker has
finished what it was doing (`SoundStarts`: unique indexes, every record of an
app with its row, terminals of enrolled nodes served, an auth record that points
to a node points to the owner).  NodeInit: a machine's name is a node name, and
enrollments that do not come from a `node-init` of the model have another
node's id or name (`StrangersAreRefused`), which is how "somebody else" is told
from a machine.  RegistryProcess: what a call may ask for is a
request (`KnownRequests`), identity files name a slug (`KnownNames`), and the
registry starts as a snapshot, the empty one if its revision is 0
(`KnownStart`).  AuthOwnership: the registry starts without an owner, before
`Init` gives it one or not (`Unowned`), and `Waits` is true or false
(`Discipline`); that it is true is a hypothesis of the theorems.  Backup: there
is at least one timestamp, and runs and listings are different goroutines.

`ContentStaysSound` has two hypotheses of its own, which `MCRepository` lets TLC
evaluate: the store begins well formed (`SoundSeeds`; a new one does), and a node
registers under one name (`OneNamePerNode`).  A node's name and id come from one
identity file, which is written once.  Without the second the statement is
false: the loop of `RegisterNode` (repository.go:188) returns at the node's own
entry, so a rename to a name that is taken by a later entry would go through.

### RepositoryProofs

`SerialHistory` is not inductive.  When the store performs a pointer write, the
new entry is the snapshot the call prepared some steps ago, on a pointer it
loaded then.  The inductive invariant `HistoryInv` therefore adds `PlansAgree`:
every call that holds a prepared snapshot, and every write left in the store,
has an operation whose outcome in the state it is *based on* is "change" and a
snapshot that is its successor there, and the snapshot object exists before a
pointer write can be sent.  The condition of the write (pointer = base) then
makes the base the last entry of the log, and the new entry follows it.  Late
writes are covered by the same clause, since they keep their base.  `BegunCalls`
says that operations do not change once given, so that entries already in the
log keep their meaning.  Types depend on `PlansAgree` too: only an operation
whose outcome is "change" yields a well-typed snapshot.

`OwnerSafe` follows from the invariant without a further induction: every entry
is an operation applied to the entry before it (`SerialHistory`), and the lemma
`OwnerChanges` says that among all operations only a transfer that expected the
owner moves the role away from it.

`ClosedForGood` is an action property and needs no more than `HistoryInv`.  The
lemma `CommitsOnly` says that the pointer changes only by a commit of a write
that was `Sent`, on a base some call planned on or left in the store, or by the
loss.  Once no such base is "no pointer" and the marker exists, a missing
pointer satisfies no condition, and no call plans on it again, since `Load` fails
closed.

`ContentStaysSound` goes through the operations one by one (`RegisterKeeps`,
`GiveAuthKeeps`, `BuildKeeps`, joined in `EffectKeeps`): each of them, where its
outcome in a well-formed snapshot is "change", leaves a well-formed one.  That
every commit is such a step of the operation in the state that *is* the pointer
is again `HistoryInv`.  `WellFormed` alone is not kept by `Register`;
`KeepsNames` adds that a registered node has the name it registers under.

### AnswerProofs

`AtMostOnce`, `RefusalIsFinal` and `AnswerIsCommitted` leave out the calls
in `blind` (section 2).  `AnswerInv` extends `HistoryInv` by three things.  `LogInv` says what
the log looks like from the end: the pointer is its last entry, each entry
remembers its own call as the newest id (`Signed`), and no snapshot remembers a
call that has not committed (`Remembered`), so that the scan for the id cannot
find a foreign one.  `Progress` says what each call knows at each step.
`Accountable` says where the write of a call that is not blind can be: nowhere
before it is sent and after a definite refusal, otherwise in the store waiting
to be performed, or in the log once, but not both, and in either case it is the
snapshot the call still holds.  A retry is therefore planned only when the
write of the attempt before it is neither in the store nor in the log.

`GenerationInv` is for `OneChangePerGeneration`: an update or delete meets
exactly the generation it names (`Edited`), and the application never comes
back to that generation (`LeftBehind`).  The second needs to know that an id is
created at most once and by a call that has it to itself (`CreatedOnce`,
`CreatedAnew`, `Originates`); otherwise a deletion followed by a creation
would start over at generation 1.

`RetryInv` is for `RetriesArePaidFor`.  It has to charge each failed attempt to
somebody.  `Paying` says that a plan was made at some entry of the log at which
all attempts so far were accounted for; only a later entry of somebody else, or a
fault, can refute it.  That the later entry is somebody else's is where
`Signed` is used: an entry of one's own would be found by its id.

`Implements` is the refinement of `AtomicRegistry`, step by step.  Outcomes and
successors agree (`SameOutcome`, `SameSuccessor`).  Giving a call its operation
is the abstract `Ask` (`AskStep`); a commit, in time or late, is the abstract
`Apply` (`TakesEffect`, with `Accountable` for the once); an answer is `Tell`
(`TellStep`); a call that becomes blind is `Lose` (`LoseStep`); every other step
is a stutter (`StutterStep`).  The hypothesis `[]~lost` is what the abstract
registry cannot follow: its content does not vanish, and after a loss the object
store may start over with an empty one.  With `AllowPointerLoss = FALSE` every behaviour satisfies it.

All these invariants were checked by TLC on the instances of section 3 before
they were proved.

### BrokerProofs

The broker's guarantees relate the tables to Cloudflare, which a handler changes
one call at a time.  So each invariant has a part that says what the handler
under way has already done, and that it still holds when the next write is made.
`Turns` is the queue: only the handler of its head has got anywhere, and it is at
a step its kind of request goes through, so no other handler undoes what it did.
`EnrollmentInv` adds `UniqueIds`, `OwnerEnrolled`, `Enrolling` (the token is
claimed, name and id are free, ingress and record exist before the row is
written) and `Admitted` (credentials go only to the node of the row).  `AppsInv`
adds `Dropping` (every row that will be deleted has its record dropped before)
and `Providing` (every host no longer to be done has a record that points to
the node).  `AuthInv` adds `Recoverable` (an interrupted transfer is admitted in
both directions), `Transferring` (what each step of the transfer has set up) and
`AuthLed` (outside a transfer, the auth record leads to a node that serves it).

The steps are taken over any request (`Step`), not only those of the instance, so
that NodeInit's enrollments are covered by the same lemmas.  `TokensAreSingleUse`,
`RecordsHaveRows` and the other invariants are parts or consequences of `Inv`;
`OnlyOwnRecords`, `ReadyMeansRouted` and `ClaimSurvives` are about single steps
taken in `Inv`.

### NodeInitProofs

`NodeInitInv` is the broker's `Inv` with what the machines keep.  A call under
way carries its machine's identity and name (`AsksForItself`), files come after
the identity and belong to the enrolled row (`FilesFollow`), every enrollment is
a machine's or is refused for good (`AskedByMachine`, `StrangersStayOut`), and
an enrolled machine has claimed a token for its name (`ClaimedBefore`), which is
what lets a machine that lost its answer ask again.

The proofs changed the models in small ways.  Some `CASE`s had overlapping guards,
which TLC resolves by order and logic does not; they are now `IF` ladders, in
the order of the code.  The type of the ingress lists lacked a pair of
parentheses.  That hosts of a node differ and that an instance starts from a sound
state had been tacit and are now assumptions.

### RegistryProcessProofs

Two invariants, one for each half of the module.

*The reconciler* (`Inv`).  `SyncedServes` says nothing about the requests that
are under way, so it is not inductive.  `Settled` adds that nothing is left in
the broker's queue; `Asking` that a process that waits for an answer waits for
its last request, and that this request is what it has loaded, which is what
the registry says unless the registry has moved on; `NotAhead` that nothing a
process remembers is ahead of the registry, so that every change makes all of
it old (lemma `RegistryGrows`).  `Untouched` is needed for one corner: 0 is both
the revision of an empty registry and the value of `brokerRevision` in a
process that has just started.

*The calls* (`CallInv`).  Between check and write a call meets the application
the check has found, or none it can change.  Generations are what makes this
so.  `NoLaterGeneration` says that no call names a generation the application
has not reached, so a write of somebody else leaves every other call behind
(lemma `OthersOutlive`).  `Checked` carries what the check has found over to the
write, on the condition that the generation is still the one named (`Current`).
`Fresh` says that nobody else knows the id of an application that is being
created, which is where the uniqueness of ids is used: a deleted application is
never made again under its id.  A write that nobody waits for is the same step
as one in time, so nothing more has to be said of it.

### AuthOwnershipProofs

`OneKeycloak` follows from `BrokerOwnerRuns`: Keycloak runs only on the broker's
owner, of which there is one.  Nothing in this argument is about the registry,
whose owner a late write may change at any moment; what protects Keycloak is
that the guard asks both, and the broker last.  `GuardPassed` covers the window
between the broker's answer and the start of Keycloak, and `Fenced` the one
between the fence and the transfer: in both the machine that loses the role must
not start.  The operator's order closes the second; for the first he waits for a
`compose up` under way before he stops Keycloak, and only `StopKeycloak` uses
that.

`RecordedUnlessLate` says that late writes are all that keeps the registry from
being right as well.  `Settled` adds to the invariant that Keycloak runs on the
registry's owner, that what the guard's load has found stays true
(`GuardLoaded`), and that the broker is only asked once the registry's owner is
the destination (`RegistryFirst`); of all the steps only `LateWrite` breaks it.

### BackupProofs

A kept backup is whole on disk, or it is in the bucket and nowhere else
(`KeptIsSafe`); "nowhere else" matters because a beginning on disk would be
promoted over the object.  `Progress` follows the copy being made and the copy
being promoted through their steps; `OneRun` is the mutex; `KeptIsPast` says that
keys rise, so a run does not write where an earlier one has.  Backups that share
the last timestamp are left out, as section 2 says.  For listings, `Known` says
what a refresh knew to be safe at its beginning has been found or is where it
has yet to look: it looks at the disk first, and copies move from the disk to
the bucket.  `StoresUsed` adds that a store
that is not configured holds nothing and is not written to.

### Only model-checked

Liveness, in every run that is fair: `EveryCallEnds`, `EveryRequestEnds`,
`InitializationCompletes`, `Converges`, `OutageEnds` and `PendingPromoted`.  They
rest on weak fairness, and the prover has no rule for `ENABLED`.  So they hold
for the instances of section 3 and are not claimed for larger ones.
`FailsClosed` and `MissingOnlyIfLost` are refuted by the runs of section 5.

The hypotheses `OneNamePerNode` and `SoundSeeds` are not assumptions of
Repository: the other theorems hold without them.

## 5. Findings

* **`marker_gap`** (repository.go:145).  The object `initialized` is written
  only by the call that found no pointer.  When that call fails or its process
  stops between its pointer write and the marker, later calls find a pointer
  and do not write the marker either.  If `current.json` is then lost, `Load`
  takes the store for a new one and the registry starts over, with changes
  acknowledged in between gone.  The test
  `TestMissingCurrentPointerFailsClosedAfterInitialization` expects the missing
  pointer to fail closed.
* **`missing_pointer`** (repository.go:44).  `Load` reads pointer and marker in
  two requests.  A first commit in between makes it answer "registry current
  pointer is missing after initialization" although nothing is missing.  The
  error is harmless when retried, but it is the one that tells an operator to
  restore.

Two limits of the auth move have no run of their own; TLC shows each with
`auth.cfg` changed as it says here.

* *A late transfer* (`RecordedOwnerRuns` in place of `OneKeycloak`;
  repository.go:275).  A
  transfer from 1 to 2 is answered with an error, its pointer write
  (repository.go:131) still under way.  The operator turns the pair round; 1 is
  the owner already, so the reverse transfer writes nothing and the pointer
  keeps its ETag.  Broker, settings and guard are right, Keycloak is back on 1,
  and then the first write is performed: the registry records 2.  "The global
  S3 state records that machine's UUID" (README.md:288) is false until somebody
  notices; the guard on 1 fails from then on, and the restart policy, which does
  not ask it, hides that.  A second Keycloak is not possible, because the
  broker's owner is 1.
* *A fence that comes too late* (`Waits = FALSE`, which refutes
  `StartsWhereRouted` and, without that, `OneKeycloak`; docker-compose.yml:244).
  On the source a `compose up` has passed the guard and is yet to start Keycloak.
  The operator removes the settings and stops Keycloak, as the guide asks;
  `compose up`, which read the settings when it began, starts it.  The transfers
  go through, the destination starts its own, and two machines run Keycloak,
  against README.md:288 ("exactly one machine").  Waiting for the `compose up`
  closes the window.

## 6. Not modelled

* Dump and restore by `pg_dump` and `psql`, the user directory, the portal page,
  the authz sidecar, generators and deployment files: stateless, templating, or
  third-party.  Of `docker-compose.yml` only what decides who starts when is in
  AuthOwnership.
* Reads and `authorize`: one load and an answer, so a request is decided by one
  state of the registry; there is nothing to interleave.
* Timing, credentials and cryptography, the size of requests.  A timeout is a
  fault that may happen at any time.
* `appHostname` and the validation of slugs character by character.  `Hostname`
  is a parameter, and statements about hosts that depend on it being injective
  say so (`Unambiguous`).
* Truncated emergency copies: a copy that a stopped process left half-written is
  promoted and listed like any other.  The model has it; nothing in the
  repository says it must not be, so no property does.
* Loss of a host's power.  A crash is a process that stops; `FileStore.Save` does
  not fsync, so a copy answered as kept could still be lost with the host.
* That the backup records are the newest: of two refreshes at once the older may
  be stored last (backup/cmd/main.go:451).  `ListingComplete` speaks of what was
  safe when a refresh began, and no source promises more.

What could still be proved: that RegistryProcess, which makes each registry
change one step, implements `AtomicRegistry` for the operations it has, which
would tie its calls to the protocol proved here; and an abstract specification
of the broker, in which a request takes effect at once on tables and routes,
with the handlers shown to implement it up to a failure half-way.
