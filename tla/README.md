# TLA+ verification of platformctl

platformctl reads manifests of a data platform (providers, sources, streams,
datasets, bindings, connections, secrets), compares them with a state file and
drives container runtimes and services until they agree. This directory holds
TLA+ models of the parts where order, failure and concurrency decide whether
that is correct, the TLC runs that check them on small instances, and proofs
that TLAPS checks for every instance. Paths below are relative to `src/`.

`PROJECT.json` lists the components, the runs, which definition models which
lines, the hazards and the theorems.

## 1. The system

| Part | State | Operations | Interacts with |
|---|---|---|---|
| Manifests, compatibility, gates, `internal/application/manifest`, `compatibility`, `registry`, `featuregate` | none | load, default, validate, check | in front of every command |
| Policy, graph access, lint, `internal/application/policy`, `graphaccess`, `lint` | none | `Run`, `RunPlan`, `Audit`, networks and peers of a container | CLI, engine |
| Planner, `internal/application/plan` | none | `ComputeWithSecretHashes`, `ComputeDestroy` | reads manifests, graph and state |
| Engine, `internal/application/engine` | in-memory state, `blocked`, results | `Apply`, `Destroy`, `Import`, `Probe`, `Backup`, `Restore` | resolves requests, calls providers, saves state after each resource |
| Graph, `internal/domain/graph` | edges | `Build`, `TopologicalLevels`, `Dependents`, `Dependencies` | used by planner and engine |
| State port, `internal/ports/state` | versioned entries | `Load`, `Save`, `Lock`, migrations | implemented by two stores |
| Local store, `internal/adapters/state/localfile` | JSON file, lock file | temp file and rename; flock | kernel |
| S3 store, `internal/adapters/state/s3` | state object, lease object | conditional PUTs; renewal goroutine | object store |
| CLI, `cmd/platformctl` | none | `apply`, `destroy`, `drift`, `import`, `backup`, `restore`, `state repair`, `state unlock`, `gc apply` | lock, state, runtime |
| Mediation fabric, `internal/application/engine/mediation_fabric.go` | `State.MediationFabric` | ensure, tear down | engine, `openziti` |
| Runtimes, `internal/adapters/runtime` | containers, networks, volumes | ensure, inspect, remove, list by label | Docker, Kubernetes |
| Providers, `internal/adapters/providers` | what they configure | `Reconcile`, `Probe`, `Destroy` | runtimes, databases, brokers, overlay controller |

What makes it hard:

- **Partial failure.** Every entry of a plan may fail. Its dependents (apply) or
  dependencies (destroy) must be left alone, in that run and, for whatever is
  left undone, in the next one.
- **Crashes.** A provider call and the save that records it are two steps.
- **Concurrency inside a command.** `--parallelism` runs the entries of a level
  at once; they share one in-memory state, and each save writes all of it.
- **Concurrency between commands.** Two processes share a state file and a
  runtime; the lock is a flock on a file that is removed, or a lease that
  expires. `state repair` and `gc` look at state and runtime at different times.
- **Stale inputs.** Secrets rotate between plan and use; addresses and other
  facts are read when a resource is reconciled and baked into its container; the
  manifest recorded in state guards a deletion long after it was written.
- **Short cuts.** A spec hash on an object, an item that answers a probe, a
  stopped instance or an unreachable controller end a reconcile or a destroy
  early. What the code then does not look at must be right for another reason.
- **Things that exist once.** A one-time enrolment token, the only copy of an
  old password, a lifecycle configuration that is written as a whole.

## 2. The modules

| Module | Models | Used by |
|---|---|---|
| `Resources` | envelopes, state entries, lifecycles, the dependency graph | `Engine` |
| `Engine` | planner and engine, `apply`, `destroy`, `import`, faults, operator | `MCEngine`, `EngineProofs` |
| `MCEngine` | the manifests and states of the runs | runs `engine_*` |
| `EngineProofs` | theorems about `Engine` | |
| `StateLock` | the promise of `StateStore.Lock` (abstract) | `LeaseLock`, `Commands` |
| `LeaseLock` | the S3 lease; refines `StateLock` while clients are timely | runs `lease_*`, `LeaseLockProofs` |
| `LeaseLockProofs` | theorems about `LeaseLock` | |
| `Commands` | `apply`, `drift`, `import`, `state repair`, `gc apply` on shared state, composed with `StateLock` | run `commands_shared`, `CommandsProofs` |
| `CommandsProofs` | theorems about `Commands` | |
| `Docker` | the Docker runtime under `EnsureInstance` and a provider's destroy | run `docker_ensure`, `DockerProofs` |
| `DockerProofs` | theorems about `Docker` | |
| `Rotation` | a database's administrator and exporter passwords: `providerkit`'s credential rotation in the postgres and mysql providers | run `rotation_ready`, `RotationProofs` |
| `RotationProofs` | theorems about `Rotation` | |
| `Kubernetes` | the Kubernetes runtime: a namespace with its policies, workloads and their companions | run `kubernetes_namespace`, `KubernetesProofs` |
| `KubernetesProofs` | theorems about `Kubernetes` | |
| `ProviderPrograms` | what `Reconcile` and `Destroy` of each provider type do outside the process, as sequences of steps | `Providers` |
| `Providers` | the meaning of the steps, probes, and an engine of two levels around them | run `providers_converge` |
| `Backup` | `backup` and `restore` of databases and Datasets | run `backup_pipeline`, `BackupProofs` |
| `BackupProofs` | theorems about `Backup` | |
| `Overlay` | the mediation plane on OpenZiti, as a Provider and as the engine's fabric | run `overlay_mediation`, `OverlayProofs` |
| `OverlayProofs` | theorems about `Overlay` | |
| `Manifests` | loading, validation, edges, compatibility, feature gates as functions of a manifest set | `Access` |
| `Access` | the access graph, design lints, policy decisions and the audit | `Wiring` |
| `Wiring` | validate, plan and apply around the requests the engine builds | run `wiring_settles` |

An operator whose comment begins with "Fault:" is a seeded bug: the definition
below it with one plausible mistake. No specification uses it. Substituting it
for the original must make the property that `PROJECT.json` pairs it with fail,
which shows that the property depends on that piece of code.

### Engine

Go maps keyed by `resource.Key` are functions with a subset of `Key` as domain.
A spec is its hash; `metadata.protect` and the secret material are kept apart
because `SpecHash` does not cover them. A runtime object is the hash it was
built from and, per dependency, what the dependency was at that moment (`seen`).

| Code | Model |
|---|---|
| `ComputeWithSecretHashes`, `computeApplyDeletes`, `ComputeDestroy` | operators of the same names; the one-pass cascade is the fixed point `ChangedKeys` |
| `newApplyCmd`, `newDestroyCmd`, first part of `Apply` | `StartApply`, `StartDestroy` |
| level loop, semaphore, `--halt-on-error` | `CanBegin`, `BarrierPassed`, `Halted` |
| `processEntry`, `Destroy`'s loop | `Skip`, `Refuse`, `Noop`, `Run` |
| guards, `resolveRequest`, `prov.Reconcile`, `prov.Destroy` | `Reject`, `Realize`, `CallFails` |
| update of `st` and `Save` under `stateMu` | `Record`, `SaveFails` |
| return | `Finish`; `Crash` is a return without the rest |
| `Import` | `Import`, one step: nobody else holds the lock |

A failed provider call may or may not have had its effect, or may have removed
the old object without making the new one (`Remnants`). A probe always sees
a missing object; whether it notices a changed one depends on the provider, so
`Noop` and `Run` are both possible then. A preflight failure, a cancelled prompt
and an apply without changes leave everything as it was and need no action.
Recorded dependencies of entries that are no longer declared may form a cycle;
the code's depths then depend on Go's map iteration and `DeleteDepths` allows
every order. Host ports being left out, so is `hostport.ConflictError`, with
which an apply whose entries all succeeded may still return an error: the state
it leaves is the same.

### Locks

`StateLock` has `Acquire` and `Release`. `LeaseLock` has one action per request
to the object store, so that any two clients' requests interleave; a renewal in
flight may take effect after release or after the process died. A process that
dies with its own PUT or DELETE on the way stays at that step until the request
has taken effect. The ETag is a
digest of the content and the content is unique per acquisition and renewal, so
an ETag match is equality of leases. Clocks are taken to agree. `Timely` is the
assumption that a live client finishes `Lock` within the TTL and renews or
releases before its lease expires; it is a guard on `Tick`, never on a client.

### Commands

State entries are reduced to keys. `apply` makes provider calls and saves under
the lock; `drift` probes and saves all of the state under it (`Drift`, `Probe`),
`import` adds one entry (`ImportLock`, `ImportProbe`, `ImportSave`). `state repair` loads, inspects the Providers one by one, and only then
locks and saves. `gc apply` loads, lists and removes without the lock.

### Docker

One workload: its literal name is `Base`, replica *i* is named *i*, the volume a
container mounts has the container's name. Every call to the daemon is an action
named after it, so the process may die (`Interrupt`) and an operator may act
(`Meddle...`) between any two; checks on an inspection's result belong to the
inspection. A call by ID works on the inspected object only (`held`); a call by
name works on whatever has the name. A spec is `gen` (image, command,
environment, files, ports: whatever else the hash covers), the replica count and
`StableIdentity`; `specHash` keeps what the code hashes, for an ordinal without
the count. An unlabelled object is "foreign". Docker itself (name conflicts,
endpoints, volumes made for a mount) is modelled as the code relies on it.

### Rotation

Secrets are numbers, 0 is none. `boot` is the password file of the running
container, `acct` what the data volume holds for each of the administrator's
accounts (mysql has one per host, postgres one), `role` and `exporter` the
monitoring role's and the sidecar's. `liveSuperuser` stands for both providers'
read-back, whose errors are dropped: a failed read looks like a fresh instance
(`misread`). `EnsureRemove` and `EnsureStart` are `EnsureInstance` as far as the
password file goes, `Run`, `Rotate` and `VerifyRotated` the callbacks and waits
of `CredentialRotation.Run`. A wait that times out is an `Interrupt`.

### Kubernetes

One namespace and the containers in it, each ensured or removed by a worker of
its own. `Subject` takes every form of a `ContainerSpec` (Deployment or
StatefulSet, one or two replicas, node port, companions); its siblings have one.
The operators named after the adapter's functions are sets of steps; a step is
one write to the API server with the read before it. `todo` is what a worker has
left, and `Place` orders it: the code always makes its calls in the same order,
so a worker does the first step of those it has left (`Doing`). `look` and
`find` add the steps that the adapter's comparison finds necessary (`Needed`). A
hash is the form that wrote the workload and whether it had peers. The cluster's own actions are
`Finalize` (a terminating namespace goes, with all in it) and `Vanish`. History:
`walled` (containers whose hole for a node port was last
ensured behind a wall), `stale`
(companions touched or left since the hash was written), `astray` (a
`Remove` that did not find the workload), `lapsed` (an ensure in a namespace
that was going).

### Providers

`ProviderPrograms` has one operator per function that `Reconcile` or `Destroy`
dispatches to, named `<type>_<function>`: the sequence of calls that read or
change something outside. `Providers` gives a step its effect (`Effect`), `Destroy`
its early returns (`Return`), and the ways to fail: before the effect, after it,
or, for a step of several requests, in the middle. The twenty types differ in
where an item lives (`home`): in the instance's volume, in its memory, in Kafka,
in a container of its own, in the cluster. That decides what an out-of-band stop
or removal destroys and what a probe sees. The engine around them is reduced to
two levels, the instance and its items. Two Datasets of a bucket are the one
case where items of a level interact through a read-modify-write, two
Connections of an ingress on Kubernetes through a CA another, and two Catalogs
of a nessie instance through its container a third: a Catalog with a warehouse
ensures the instance again with the warehouse in its environment
(`ensureDerivedWarehouseConfig`), which replaces the container and loses the
branches in its memory.

### Backup

The state of the world is the object and the sidecar at each key, and the three
databases of a restore (target, scratch, the one set aside). `Side` are the
steps of producer and consumer, which go on whatever the command does;
`Pipeline` is the command: start, poll, read the marker files, clean up. A
stream is counted in chunks; a checksum is the number of chunks that were
hashed. Between any two steps a side may be killed, a call may fail or lose its
answer, the context may be cancelled and the command may die.

### Overlay

`kind` says whether the plane is declared or kept by the engine; `shared` what
the two Connections have in common. The controller's database is `rrec`, `erp`,
`svc`, `term`, `ident` (with an incarnation, so that an identity made again is
another) and `policy`; `reads` are the Connections whose consumer the graph names
now, which is the only one a reconcile authorises and a removal revokes; `admin`
and `cred` are the password in the database and
in the file on the volume. An entry's steps are requests to the controller and
calls to the runtime, in the code's order; the recreation of the controller's
container is a removal and a creation. `Bootstrap`, `EnrolRouter` and
`EnrolTunnel` are what the containers do on their own. History variables say
what a later entry, a sibling or an operator took away.

### Manifests, Access, Wiring

An envelope is a record; references are kept by the field they stand in.
`Manifests` and `Access` are functions of sets of envelopes that follow the
code's functions by name, so that `Load`, `Validate`, `Check`, `EdgesOf`, `Run`
and `Audit` are what `Wiring`'s `StartApply` evaluates in the order of the CLI.
`Wiring` follows three platforms, each with options that an `Edit` switches on
or off: `stream` (broker and its move to another, connectors of postgres and
mysql, lineage, monitoring, schema registry),
`lake` (object store, catalog, query engine, warehouse) and `reach` (Providers
in two domains and namespaces, grants, policies, mediated Connections, Docker or
Kubernetes, the zero-trust gates). `wired` is the request a live object was
built from; of it a connector keeps what its configuration has (`Kept`), which is
what a probe can compare.
An entry is one step, because no two entries of a level read what
the other writes, except that prometheus, grafana and trino read the facts of
whatever has run before them; these run in any order of their level.

## 3. What is checked

| Run | Instance | Shows |
|---|---|---|
| `engine_order` | 4 resources in a diamond, 3 manifest sets (a change, removals, a lost edge under an equal hash), 2 workers, with and without `--halt-on-error`, 1 fault | `ReconcileAfterDependencies`; `DestroyAfterDependents`; `SaveTouchesOnlyRealized`; `EventuallyConverges` |
| `engine_lifecycles` | a secret, its provider, a Managed or Imported resource, two External ones (one protected, without provider), an entry of an old format, an object made out of band; a second manifest set where only the provider is left, changed and without the secret; 2 secret versions, 1 fault | `IInv` (the inductive invariant, types included); `SettledIsAuthoritative`; `SettledReplansNoop` (NFR-2); `SettledSecretsCurrent`; `NoUninvitedDestroy` (NFR-3) |
| `lease_timely` | 2 timely clients, 3 calls of `Lock`, TTL 2, 4 ticks | `HoldersOwn`; `ImplementsStateLock`, the refinement of the port's promise |
| `lease_async` | 2 clients of any delay, 3 calls, 3 ticks, 1 forced unlock | `TakenOnlyExpired` |
| `commands_shared` | 2 processes that apply or import, a drift, a repair, a gc, 2 keys, 3 runs, 1 fault | `FileIsHolders`: nobody saves under a running command; `OrphansGo`: repeated gc removes what a crash left |
| `docker_ensure` | up to 2 replicas, one content, 2 acts of an operator, interruptions without limit | `OneShape` (ADR 004); `EnsuredExactly`; `DownLeavesNothing` (ADR 029); `ForeignUntouched`; `MatchingUndisturbed` |
| `kubernetes_namespace` | 2 containers, 5 forms, 3 isolation policies, 2 events (edit, fault, deletion out of band) | `EnsuredExactly`: the hash vouches for companions written before it; `RemovedLeavesNothing`; `IsolationRealized`; `SiblingsSurvive` |
| `rotation_ready` | 2 accounts, 3 passwords, with and without metrics; interruptions, failed reads, removed containers | `ReadyAuthenticates`; `GivesUpOnlyIfCut`; `ExporterKept` |
| `providers_converge` | 20 types, an instance and 2 items (1 where items do not interact), 2 edits, 1 fault, 1 act of an operator | `ApplyConverges`: success means that the world is as declared and probes agree; `NothingLeftBehind`; `DataKept`: no apply destroys data |
| `backup_pipeline` | postgres, mysql and s3 on both runtimes, 2 keys, 2 chunks, 2 commands, 2 faults | `SidecarMeansWhole`; `TargetWhole`; `SuccessIsWhole`; `FailureLeavesNothing` |
| `overlay_mediation` | plane as Provider with 2 Connections sharing a consumer or a target, and as fabric, 1 edit (of a Connection or a consumer), 1 mishap | `ReadyMeansMediated`; `RevokedLeavesNoAccess`; `CredentialKept` |
| `wiring_settles` | 3 platforms, 2 edits, rotations or vanished secrets, 1 fault | `FactsSettle`: an apply that finds nothing to do leaves no stale fact; the inferred ones apart; `ReachIsDeclared`: networks and policies realise the declared access graph and no more; `AuditAgrees`: the audit and the enforcement, written twice, decide alike; `AdmittedResolves`: what validation admits is not refused half-way |

### What the properties leave out, because the code does

Where the code really differs from what one would like to state, the property
has a named exception, and the exception is listed here.

**Engine and plan**

- A dependency's update is saved, its dependent's fails. The next plan compares
  hashes only (`plan.go:78`), so the dependent stays built from the old one,
  although the comment at `plan.go:73` promises the cascade. `Engine` and
  `Wiring` show it (`lost`).
- A failed update whose manifest is then reverted plans a noop, although the
  object may have been built from the other spec and from the secrets of then.
  `SettledSecretsCurrent` therefore speaks of objects of the declared spec.
- A provider and its resource leave the manifests together and the resource's
  delete fails: `blocked` is filled from the declared graph, where neither is,
  so the provider is deleted too and the survivor cannot be any more.
- A destroy leaves Imported and External dependents standing (`engine.go:1245`)
  and removes the provider they need; they are noops of the plan, and
  `DestroyAfterDependents` speaks of the dependents that are to go.
- Toggling `metadata.protect` alone is a noop for the plan, so the recorded
  manifest, which guards the deletion, keeps the old value.
- `externalConnectionStatus` reports Ready when `EnsureReachable` fails; External
  resources get neither the cascade nor a healing probe.
- Recorded envelopes of deleted resources stay in `byKey`; a failed delete whose
  dependency was deleted makes `Build` fail in later applies under
  GraphScopedAccess.

**Locks and commands**

- S3 release reads its lease and deletes without a condition (`s3.go:303`; the
  comment at :288 says otherwise). A release delayed past expiry and reclaim
  removes the new holder's lease; `HoldersOwn` therefore needs timely clients.
- Local store: A opens the lock file, B unlocks and removes it, A locks the
  nameless file, C creates a new one and locks it (`localfile.go:106-111`).
  `Commands` assumes the port's promise.
- `state repair` saves what it loaded before it held the lock (`state.go:304`)
  and undoes an apply in between.
- `gc apply` takes no lock; an object that an apply creates and records after gc
  loaded the state and before it listed is removed.

**Runtimes**

- Docker: a container whose file copy was cut carries the right hash and is
  started without its files (`docker.go:430`, :306, against the comment at
  :440). A network someone else creates between `EnsureNetwork`'s listing and
  its create is used, and `RemoveVolume` removes by name what it inspected
  before.
- Kubernetes: the hash ends an ensure, so companions deleted out of band are not
  restored (`container.go:67`); a `Remove` that was cut after the workload went
  leaves companions (`astray`), image-pull Secrets and a Deployment's budget stay
  for good; the cross-domain allow list is last-writer-wins, against
  `network.go:53-58`; a namespace that is terminating is accepted
  (`network.go:24`, `lapsed`); `RemoveNetwork` sees Deployments and StatefulSets
  only, so a sibling's volume, Job or Ingress goes with the namespace; switching
  to `networkPolicy: none` leaves the wall. Turning isolation on raises the wall
  (`network.go:46`) around containers that are there; their hash has not changed,
  so `ensureDeployment` returns at `container.go:67` and the policy that lets a
  node port through (`network.go:132-147`) is not made until the specification
  changes (`walled`, `Owed`).

**Providers**

- An interruption between the replacement of a database's container and the
  `ALTER` loses the only copy of the old password; the next reconcile reports
  the instance unreachable.
- Two Datasets' lifecycle rules are read and written without a lock
  (`s3/bucket.go:214`), so that one may lose the other's although the comment at
  :206-213 promises never to clobber a sibling's rule, and `removeDataset` removes an empty bucket under a
  declared sibling (`undercut`; the next apply's probe finds both). Two Connections may each make a CA
  (`ingress/kubernetes.go:122-140`); a certificate failure leaves the apply
  successful and the resource not Ready.
- A destroy of an item while the instance is stopped returns nil, the item comes
  back with the instance (`left`): `redpanda.go:747`, `debezium.go:701`,
  `s3.go:635`.
- `refuseShrink`'s scan stops at the first missing ordinal (`redpanda.go:500`,
  `s3.go:288`). Probes do not compare everything (`Blind`).
- Healing or updating a nessie Provider wipes the warehouse its Catalog had put
  into the environment (`nessie.go:227` against :295), and two Catalogs replace
  each other's; no probe compares it (`nessie.go:276-278`), so no later apply puts
  it back (`Unnoticed`). The branches of the replaced container are found missing.

**Backup**

- `RunPipeline` does not clean up when the consumer's `EnsureContainer` fails
  after it started, nor `runJobPipeline` when `EnsureJob` fails after creation,
  against `dbbackup.go:149-154`; a cancelled context makes the cleanup fail too
  (`hurt`), and a scratch database stays whose creation lost its answer
  (`dbbackup.go:240`). When mysql's `RENAME` loses its answer, the error path
  drops the database set aside.
- `dbjob.VerifyIntegrity`'s comment (`dbjob.go:725-731`) and the error it returns
  (:738) tell the operator that after a checksum mismatch the truncated data is
  already applied and the target is untrustworthy, not rolled back. They are older
  than the scratch database: `dbbackup.Restore` replays into that one and drops it
  on a mismatch. `TargetWhole` covers this case and holds: the message is wrong,
  the database is as it was.

**Overlay**

- `client.go:581-605` compares `tcp:`-prefixed with bare addresses, so a
  terminator is always deleted and made again (`client_test.go:667-682` says it
  is not); a sibling whose reconcile fails in between leaves a Ready Connection
  without one (`remaking`).
- The fabric's password is minted again whenever it cannot be read back
  (`fabric.go:313-323`): the read failed or gave something else, or the
  controller's container is gone and its volume is not, be it by an operator, by
  half a destroy or by a recreation that was cut before its create. The database
  keeps the old password, and the fabric is locked out of it (`orphaned`),
  although the comment at :306-312 calls that mint harmless.
- A removal revokes the consumers that the graph of its command names
  (`connection.go:428-440`). One that was taken away by an earlier command keeps its
  identity and policy. A removal that cannot compile the graph, or finds another
  target in it, revokes nothing or something else and reports success (:416-426,
  `left`). The identity of a Connection's consumer is fixed in the model; whether
  the graph names it varies.
- A destroy that cannot reach the controller returns nil and leaves the identity
  enrolled; since a token comes with a new identity only (`client.go:276`), the
  Connection never becomes ready again (`left`). Revoking one Connection takes
  the service or identity it shares with another (`undercut`, `dropped`).
- A crash between `EnsureFabric` and the save leaks the fabric if the mediated
  edges are then undeclared; an apply that deletes the last one keeps the fabric
  until a destroy.

**Manifests and wiring**

- The domain is defaulted on load (`manifest.go:206`), so the inheritance that
  `compatibility.go:42-43` and ADR 022 describe for a resource without a domain
  cannot happen: under a Provider of another domain it is refused.
- Removing a Provider and switching its type's gate off in one edit makes its
  delete fail in every later apply (`engine.go:1373`).
- A warehouse credential that nessie or trino does not list itself passes
  validation and fails at apply; so does the TLSTermination gate.
- Two facts have neither an edge nor a probe (`Unrefreshed`): a Connect worker
  keeps the brokers it inferred from its Bindings (`engine.go:1741`,
  `debezium.go:159-165`; its probe at :735-751 does not compare them) when the
  stream moves to another broker, and a second store changes the warehouse trino
  infers without a reconcile. The replication factor that a worker takes from the
  resources around it is not modelled. Adding a Binding, a domain or a label leaves the networks of
  an applied container as they were, so `ReachIsDeclared` speaks of containers
  reconciled under the present manifests.

**Seeded bugs.** Each property of each run has a mutant in `PROJECT.json`: a
"Fault:" operator that stands for a plausible mistake in the code, under which
TLC finds that property violated with the run's own configuration.

**Bounds.** `MaxFaults`, `MaxSecret`, `MaxClock`, `MaxLocks`, `MaxForce`,
`MaxRuns`, `MaxEdits`, `MaxMeddling`, `MaxMishaps`, `MaxEvents` and
`MaxCommands` bound counters and appear in guards.

- `Engine`: one fault is enough for the ordering properties because a fault only
  adds to `blocked`; two versions of a secret are a rotation, at any moment.
- `LeaseLock`: three calls of `Lock` let a lease be taken, lost, reclaimed and
  released late.
- `Docker`: two replicas give a set with an ordinal to prune and one to keep; two
  acts of an operator are the removal and the replacement of one object; one
  content is enough because a hash also differs in count and identity, and a lost
  network replaces an ordinal like a change of content.
- `Kubernetes`: `Gens` gives `Subject` four of the five forms and its siblings the
  fifth. Two containers are one that takes every form and a sibling that
  keeps the namespace in use; two events are an edit and a fault during its
  realisation, or a fault and a deletion. `Targets` are the subject alone, which
  leaves the sibling where it is, and both together; the proofs hold for any.
- `Rotation`: three passwords are the old, the new and one that changed again.
- `Providers`: two edits are a change and its revert, or a removal and a return;
  with one fault and one act of an operator an apply is cut, something is lost
  and a third apply has to mend both. Two items are needed where items share a
  bucket, a CA or an instance's environment; there they interact without any
  mishap, and `MaxMishaps` allows one, a fault or an act of an operator. Elsewhere
  `Lone` is the only item.
- `Backup`: two chunks make a partial stream possible; two commands are a backup
  and its restore, or a retry; two faults are a failure and a failing cleanup.
- `Overlay`: two Connections, since all interaction is pairwise; those that share
  nothing are left to the theorems, which hold of every `Sharings`; one edit and one
  mishap in any order with applies and destroys without limit.
- `Wiring`: one option switched and perhaps switched back, or one rotation, with
  a failure, a crash or a lost container in between. In the family `reach` the
  only fault is a crash, since its requests depend on manifests only.

Where the instance is too small to convince and a theorem below covers the
property, the theorem does not depend on it. `CHECK_DEADLOCK FALSE` stands where
everyone is idle once the bounds are used up, and in `Wiring`, where an operator
may be left with manifests that validation refuses. `Overlay` uses the symmetry
of the Connections, which no constant tells apart.

**Fairness.** `Engine`: a process that is not killed goes on (`WF` of its
steps), and an operator runs apply again. Faults are bounded, so "faults stop"
is part of the assumption; edits and destroys must stop for convergence, as the
property says. `Commands`: somebody keeps running gc and it is not killed
for ever. All other modules are checked for safety only: convergence there is
stated of an apply that reports success.

## 4. What is proved

`EngineProofs`, for all manifests, states, flags, levels of parallelism and
numbers of faults:

- `TypeCorrect`: types, together with `PlanInv`, what every plan in execution
  satisfies.
- `ApplyOrder` and `DestroyOrder`: the two ordering properties. Neither is
  inductive. The argument: levels follow the declared graph (`LevelInv`), no
  entry starts before the levels below it have finished (`BarrierInv`), and
  whatever failed or was skipped has blocked all that lies behind it
  (`BlockInv`, which needs that transitive dependencies are transitive). An
  entry that starts is not blocked, so its dependencies are finished and none
  failed or was skipped.
- `SavesAreLocal`: from `SaveInv`, the in-memory state is ahead of the file only
  where a save failed.
- `GuardedDestroy`: from `GuardInv`, a destroy plan contains no delete of an
  Imported resource without its flag.

`IInv` is the conjunction of these; `engine_lifecycles` checks it with TLC.
Two more invariants relate the end of a run to its plan:

- `EngineInvariant`, and from it `ApplyIsAuthoritative`
  (`SettledIsAuthoritative`) and `ApplyIsIdempotent` (`SettledReplansNoop`). The
  strengthening is `QuietInv`: while an apply runs and nothing outside changes,
  each declared entry that is done, or had nothing to do, has a `Current` record
  in memory, each other entry is a delete, and at rest the file holds just these
  records. That a current record plans a noop needs that `ChangedKeys`, the
  least fixed point of the cascade, really is a fixed point, and that no key is
  in it when no key changes by itself. The latter is an induction over levels,
  done with a least counterexample (lemma `Least`).
- `SecretsAreCurrent` (`SettledSecretsCurrent`): from `SecretInv`. A secret's
  version only grows; the fingerprint in a plan, and so in a record, is no newer
  than the secret; and an object that waits to be recorded was built from
  material no older than the fingerprints its record will copy, since a
  SecretReference is done before its consumers start. It needs that equal hashes
  are hashes of specs that name the same secrets (`SpecHashAssumption`; other
  dependencies may differ under one hash, since the edges of a Connection to its
  target's host depend on the rest of the set, `graph.go:224-237`) and that the records and
  objects a first run finds have such a history (`HistoryAssumption`).

`LeaseLockProofs`, for any set of clients and any TTL:

- `LeaseTypeCorrect`, `ReclaimIsSafe` (`TakenOnlyExpired`), `RenewalProlongs`
  (`NeverShortened`): from `LeaseInv`, without assumptions on timing. A lease to
  be reclaimed had expired when `Lock` began; a renewal prolongs the lease it
  read, and conditional PUTs make it apply to that lease only.
- `TimelyHoldersOwn` and `LeaseImplementsPort`: with timely clients and no
  forced unlock, from `TimelyInv`: a holder's lease is its own and has not
  expired, so nobody can take it and `Delete` only removes one's own.

`DockerProofs`, for any replica count, number of contents and meddling:

- `DockerTypes`: types.
- `ShapesExclusive` (`OneShape`) and `ForeignSafe` (`ForeignUntouched`): from
  `IInv`. `OneShape` alone is not inductive: between the shape guard and the
  create lie many calls, so one has to know where an operation can be (`Located`),
  that past the guard the other shape is absent and that no one but the
  operation itself creates managed containers (`PastGuard`), and that a held ID
  is one of platformctl's own objects (`HeldIsOurs`).

- `EnsureIsExact` (`EnsuredExactly`), `RemovalIsComplete` (`DownLeavesNothing`)
  and the action property `ReapplySpares` (`MatchingUndisturbed`): from
  `EnsureInv`. It says, per call, what an undisturbed ensure has made so far
  (`Ensuring`), that a set has been pruned and its lower ordinals are ready
  (`Scaling`), what a removal has yet to remove (`Removing`), and, with anybody
  interfering, that what is about to be removed or written is none of the
  containers that already fit (`Sparing`).

`RotationProofs`, for any set of accounts and passwords:

- `RotationInvariant` and from it `ReadyIsTrue`, `RotationSucceeds` and
  `ExporterSurvives`. The strengthening is `PasswordKept`, where the
  administrator's password is at each point of an uninterrupted reconcile, and
  `Progress`, what each point has established.

`CommandsProofs`, for any set of keys and processes and any number of runs and
faults:

- `CommandsInvariant` and `SavesBuildOnLoads` (`FileIsHolders`): a process that is
  past `Lock` is the one holder, and a holder is past `Lock` (`LockFollowed`), so
  that no error or crash leaves the lock behind and nobody else saves.

`BackupProofs`, for any length of the dump, any keys and any number of commands
and faults:

- `BackupInvariant`, and from it `SidecarsCertify`, `RestoreIsAllOrNothing`,
  `SuccessIsComplete` and `FailureCleansUp`. None of the four is inductive. The
  parts of `BackupInv` are the conclusions a command draws: a side that ended
  well has sent or stored all of it (`Ended`), the poll was told of no end that
  did not happen (`Polled`), a pipeline that passed carried the dump (`Carried`),
  the scratch database holds what was read until it becomes the target, and then
  has the sidecar's checksum (`Scratch`), and what is gone on the way out of a
  failure (`Cleaned`).

`OverlayProofs`, for any finite set of Connections and any number of edits and
mishaps:

- `OverlayInvariant`, and from it `CredentialSurvives` (`CredentialKept`),
  `ReadyIsMediated` (`ReadyMeansMediated`) and `RevocationIsComplete`
  (`RevokedLeavesNoAccess`). `OverlayInv` names the steps that may be left (a
  `Plan`), shows that they fit the work (`Planned`) and that removals follow
  reconciles (`Ordered`), and says what every stage has established: a
  credential is minted only where no database was made with another, or the
  fabric counts as orphaned (`Credited`), what the plane has (`Planed`), what a Connection has gained or
  lost (`Connecting`, `Disconnecting`), and that the identity on a volume is the
  consumer's present one unless it was taken away (`Fresh`). The last two must
  survive the steps of siblings that share a consumer or a target
  (`ConnOthers`) and the end of the plane, which comes when nobody is reconciled
  (`RazedAlone`).

`KubernetesProofs`, for any set of containers, any `Targets` of the commands and
any number of edits, faults and deletions out of band (the five forms of a `ContainerSpec` are those of the
module; no proof goes through them one by one, only through what `Forms` says of
all):

- `Invariance`, and from it `TypeCorrect`, `EnsureIsExact` (`EnsuredExactly`),
  `RemovalIsComplete` (`RemovedLeavesNothing`), `NetworkIsClosed`
  (`IsolationRealized`) and the action property `NamespaceGoesLast`
  (`SiblingsSurvive`). None is inductive: an ensure that finds its hash returns
  early, so that what it promises rests on what earlier attempts, of this form
  or another, left behind. `Vouches` says it: as long as nobody touched them, the
  companions of a workload are exactly those of the form whose hash it carries
  (it is why the workload has to be written last, and the mutant that writes it
  first breaks it). An ensure that does write is covered by `UpSoFar`: each step
  that is done, or was found unnecessary, has its companion as asked for
  (`Built`), and the workload is still to be written (`UpOrder`). A removal is
  covered by `DownSoFar`, and by `DropsLast`: the companions go after the
  workload that vouches for them. For the namespace, `ClosedSoFar` and `Walls`
  say how closed it is (a hole made behind a wall means that there is one), and `Listed` that a worker which has listed its workloads
  found none, which stays so because in a `down` nobody creates any. All of it
  must survive the turns of the other workers (`EffectLocal`), calls that fail
  with their effect, and the controllers (`GoneKeeps`, `FinalizeKeeps`).

Each of these invariants was checked with TLC on the instance of its run before
it was proved. Assumptions on constants are named `...Assumption` in the modules that declare
them and are evaluated by the runs.

**Only model-checked:** liveness (`EventuallyConverges`, `OrphansGo`), which
needs fairness and `ENABLED`, and everything about `Providers` and `Wiring`.
`Providers` interprets programs of twenty types, which are data: an inductive
invariant would have to say, for each type and each suffix of each of its
programs, what the steps before it have established, and no such statement short
of listing them was found. `Manifests` has recursive operators for closures and levels, which the
prover does not take, so that `Access` and `Wiring` stay with TLC.

## 5. What is not modelled, and the plan

Not modelled:

- Text and files for people: explain, compose, blueprints, docs, views,
  scaffolding, output, logging.
- The syntax of manifests: YAML, names, durations, sizes, option schemas, version
  catalogues; overlays.
- Status conditions and the catalogue of reasons; a model has the verdict of a
  probe.
- Host ports and subnets: hashes of strings.
- The wire protocols of databases, brokers and controllers, and what the
  software behind them does, beyond what the adapters rely on. Such definitions
  are marked external.
- Inside the modelled parts: Load and Save of the S3 store (single requests),
  the temp file and rename of the local store, state migrations, lint findings
  that depend on option values, wireguard through several tunnels, certificate
  modes other than managed, external object stores.

Next, in this order:

1. Proofs about `Providers`: `NothingLeftBehind` and `DataKept`, from an invariant
   on what a step may change rather than on what a program computes.
2. An abstract runtime port that `Docker` and `Kubernetes` both implement; that
   `Commands`' apply is implemented by `Engine`, and `Engine`'s `Realize` by
   `Providers`.
3. The local store's temp file, rename and directory sync with crashes, and the
   migration chain of `internal/ports/state` (NFR-9).
4. `TopologicalLevels`, `findCycle` and `Dependents` as the code computes them,
   against the definitions of `Resources`.
