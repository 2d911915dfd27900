# HandoffGraph: models, checks and proofs

HandoffGraph records what coding agents do as an append-only log of evidence
events. A Go program keeps the log in a local SQLite database, derives read
models, checkpoints and verdicts from it and, if the user asks, uploads a
redacted copy to a hosted service: a Cloudflare Worker over D1 (SQLite), R2
(objects), KV (a cache) and a queue.

This directory holds TLA+ specifications of the parts where order, failure and
concurrency decide whether the system is right, configurations that check them
with TLC, and theorems about them that TLAPS checks for every value of the
constants. `PROJECT.json` maps each definition to the lines it models, lists the
components, runs, mutants, hazards, findings and theorems. Paths below are
relative to the repository.

Contents: [the system](#the-system), [the modules](#the-modules),
[the runs](#the-runs), [fairness](#fairness), [the proofs](#the-proofs),
[divergences](#divergences-between-code-and-documentation),
[hazards](#hazards), [what is not modelled](#what-is-not-modelled),
[plan](#plan), [running it](#running-it).

## The system

### Parts, state and operations

| Part | State | Operations | Talks to |
|---|---|---|---|
| Local event store (`internal/storage`) | `events` with `sqlite_sequence`, one writer at a time | `AppendEventsAtomic` (hooks, native imports), `AppendEvent` (everything else), `ListEvents`, `MaxSeq` | every command is a process with its own connection |
| Derived tables (`internal/storage/observations.go`, `verify_cache.go`) | `span_observations` and siblings, `observations_meta`, `verify_results` | freshen, rebuild, query, reset, verify | read the log, trust a fingerprint of it |
| Hosted sync (`internal/hostedsync`) | `hosted-sync.json`: per scope a cursor, the acceptance of the preview, a pending batch, the workspace; a lock file | one run: lock, load, preview, save, post, advance | the log; `POST /v1/event-batches` |
| Hosted ingest (`platform/src/index.ts`, `ingest.ts`, `quota.ts`) | D1: `idempotency_keys`, `quota_reservations`, `events`, `workspace_entitlements` | authenticate, replay, preflight, one D1 batch | device table, account deletion, projection |
| Workstream projection (`ingest.ts`, `index.ts`) | D1: `workstreams` | one upsert per event, inside the ingest batch | dashboards and the API |
| Outbound webhooks (`webhooks.ts`) | D1: `webhook_endpoints`, `webhook_deliveries`, `webhook_cursors`; a queue | sweep, reconcile, deliver | the hosted log, customers' endpoints |
| Account deletion (`account.ts`, `deletion_ledger.ts`) | D1: `workspace_deletions`, `workspace_deletion_kv_keys`, workspace and session rows; R2: the ledger and the tenant's objects; KV: verdicts; WorkOS: the identity | request, cron pass, sign-out, restore | everything that authenticates |
| Teams (`teams.ts`, migration 0004) | D1: `workspace_members`, `workspace_invites`, `workspace_seats`, `audit_chain` | invite, revoke, accept, change a role, remove; the repair of a sign-in | everything that asks for a role; the audit trail |
| Accounts and browser sessions (`account.ts`, `hosted_capacity_ledger.ts`) | D1: `account_sessions`, `devices`, `hosted_beta_capacity`; R2: the lifetime ledger of accounts | sign-in and provisioning, rotation, sign-out, device enrolment | WorkOS, ingest, deletion |
| API keys and gateway (`apikeys.ts`, `gateway.ts`) | D1: keys, spend ledger; KV: verdicts, copies of keys, rate windows | create, verify, revoke; proxied calls with fallbacks, cache, charge and capture | everything public; model providers |
| Runs (`evals.ts`, `simulations.ts`, `playground.ts`) | D1: configs, runs; events of verdicts and transcripts; Workflow instances | start, execute inline or in a Workflow, settle | models, the hosted log, the alert sweep |
| Prompts, scores, annotations, alerts (`quality.ts`, `playground.ts`, `annotations.ts`, `alerts.ts`) | events; D1: queues and items, rules and firings; a Durable Object for the live view | promote behind a gate, refill, claim and submit, evaluate and fire | the hosted log, webhooks |
| Cold tier, attachments, dashboards (`artifacts.ts`, `attachments.ts`, `dashboards.ts`) | D1 rows, R2 objects | compact, export, sweep; upload; edit, share, revoke | the hosted log |
| Observations, analytics, lists (`observations.ts`, `analytics.ts`, `ingest.ts`) | D1: span and session rows | fold, reindex, retain; series, funnels, summaries; pages | ingest |
| Enterprise (`platform/ee`), hosted MCP (`mcp.ts`), OTLP (`otlp.ts`) | D1: tokens, invites, rules; events | provision, mask, assist; tools; exports | teams, ingest, models |
| Handing over (`internal/launch`, `internal/mcp`) | events, `checkpoints` | `continue`, `create_checkpoint`, `handoff_workstream`, `accept_handoff`, `claim_files`, `complete_workstream` | the event store; one MCP server for every agent |
| Local adapters, redaction, graph, traces, detections | none of their own (functions of the log), lock and object files | commands | the event store |

Within one process the code is sequential. What makes it hard is what happens
between two awaited calls (Worker) or two statements (local commands), where
other requests, cron ticks, queue consumers and processes run:

- *concurrency*: requests with one idempotency key, overlapping cron ticks,
  hooks of several agents on one database, two `sync` runs on one state file;
- *failure*: every storage call may fail, or take effect and not be
  acknowledged; Workers are evicted and local processes killed; D1, R2, KV and
  WorkOS share no transaction;
- *ordering*: batches and queue messages come late, again and out of order;
- *staleness*: cursors, fingerprints, cached verdicts and preflight reads are
  used after what they describe has moved;
- *restores*: D1 can be put back in time, R2 cannot; a local store can be reset
  under a cursor that outlives it.

### What makes each part correct

- *Event store*: a batch is all or nothing; an event id keeps its envelope; a
  session keeps one owner; the log grows only at its end.
- *Derived tables*: what passes for fresh is complete; a read or a verdict
  covers the log as it was when the command began.
- *Sync*: no event at or before a durable cursor is missing from the service;
  whatever is sent again is the same bytes; nothing leaves before the user's
  acceptance and the exact request are durable, or if any event in range fails
  redaction; the run never refuses its own state.
- *Ingest*: charge, receipt and evidence are one step; every request of a key
  gets the same answer; usage is exact and within the caps; nothing is written
  for a device revoked, or a workspace prelocked, before the commit.
- *Projection*: the read model is a function of the set of recorded events.
- *Teams*: a workspace keeps an owner and its seats; only owners make and unseat
  owners; every change is in one audit chain.
- *Webhooks*: the cursor passes nothing that has no delivery row; finished rows
  stay finished; no row stays queued for ever.
- *Deletion*: an accepted deletion completes, only forward, in the promised
  order, and nothing (a session, a cached verdict, an upload under way, a
  restored database) brings the tenant back.
- *Runs*: a run is settled once, by who works on it; its row says what its
  events say; it is left running only by a failure.
- *Scores and labels*: a gated label never moved on scores that were not on
  record; an item is scored at most once.
- *Alerts*: every firing was measured; a breach is announced, or known to be
  lost.
- *Gateway and keys*: the spend of a key is its ledger and within the budget but
  for calls in flight; a revocation reaches the edge within a stated time.
- *Cold tier, attachments, dashboards*: what left the log is in an object; an
  answer describes evidence; no edit is overwritten unseen.
- *Observations and reads*: a row is a fold of recorded events; a walk through
  pages shows every standing row once; counts are exact.
- *Accounts*: no more accounts are ever issued than the beta allows, restores
  included; a session that was signed out serves nobody.
- *Enterprise, MCP, OTLP*: seats and invites stay in order under provisioning;
  what a rule names is masked; an export sent again is absorbed; tools read only
  what they may and write what they answer.
- *Handing over*: an acknowledgement shows in the status; a handoff carries the
  checkpoint it names; a call that comes later is told what came before.

All components, modelled or not:

| Component | Modelled | Modules | Note |
|---|---|---|---|
| hosted sync (CLI) | modelled | `HostedSync` | Run with its state file, lock, preview, pending batch, crashes, lost and late requests; sanitizing is abstracted to which policy redacted an event and whether it failed. |
| outbound webhooks | modelled | `Webhooks` | Endpoint creation and disabling, the cursor sweep, the queue producer loop, reconciliation of stranded rows and the queue consumer; signing and sealing are abstracted to a POST that may not happen; the orphan branch is left out because events are never deleted; the test ping changes no state. |
| hosted workstream projection | modelled | `WorkstreamProjection`, `SetLemmas` | The rows built from a batch and the upsert that folds them into the read model, against an order-free definition of the result. |
| teams and audit chain | modelled | `Teams` | Invites, acceptance, role changes and removals with every read, the audited transaction and its retry, and the triggers; lists, the audit page and denied requests change nothing; the membership repair of a sign-in is part of it. |
| hosted account deletion | modelled | `AccountDeletion` | deleteAccount, the scheduled saga with every call to D1, R2, KV and WorkOS and its failure, the R2 ledger, the triggers of migration 0018 that matter to it, sign-out, late writers and D1 restores, for one workspace. |
| hosted ingest | modelled | `HostedIngest`, `IngestLedger` | handleEventBatches with its quota preflight, every await between them, the D1 batch with its triggers, device revocation and the deletion prelock; validation of the JSON document is abstracted to a batch that is well formed. |
| local event store | modelled | `EventStore` | Atomic batches, single appends and line-by-line import, with commit, rollback, cancellation and death; migrations and pure queries are left out. |
| observation index, verify cache and reset of derived tables | in part | `LocalReaders` | Staleness test, rebuild, query, derived reset, verify with its cache. The derivation itself and reset --hard (see HostedSync) are not part of it. |
| evals | modelled | `EvalRuns`, `RunLifecycle` | Configs, manual and scheduled runs, the dispatch to a Workflow or inline, the loop of executeEvalRun with its recorded steps, the appended verdicts and the settlement. The verdicts that checks and judges reach are left free. |
| simulations | modelled | `Simulations`, `RunLifecycle` | Scenarios, runs, the dispatch, the exchanges with their recorded steps, the deadline, the judge, the settlement and the transcript; what the models say is free. |
| playground | in part | `Playground` | Runs and the gated repointing of labels with the read model they resolve against. The suggestion of a new prompt body (one model call, one event) and the diff of two outputs are left out. |
| annotations | modelled | `Annotations` | Queues, refills, claims, submissions with their score events, skips and the room of the live view; the validation of a score value is left out. |
| alerts | modelled | `Alerts` | Rules, the cron sweep, the window, the decision to fire, the batch and the posts to the channels. The arithmetic of thresholds is in Decimals; a test post keeps no state. |
| llm gateway | modelled | `Gateway`, `SetLemmas` | One virtual key: creation, disabling, the edge copy, the rate window, the call with its fallbacks and the response cache, the charge with its ledger row and event, the mirroring. Sealing of the provider key and the listing of models are left out. |
| api keys | in part | `ApiKeys` | Creation, verification with the verdict cache, revocation with its tombstone; the cache as seen by account deletion is in AccountDeletion. The public read endpoints keep no state. |
| artifacts, exports and retention | modelled | `ColdTier`, `ObservationRows` | Compaction, exports and the sweep of retention. A compaction that finds the object of a range does not write it again; the check and the put are one step of the model, since both give the same bytes. |
| attachments | modelled | `Attachments`, `KeysetPages` | Uploads of one content, their events, downloads, and the list; the validation of a file name and of a target is left out. |
| dashboards | modelled | `Dashboards`, `KeysetPages` | Versions, share links and their revocation, and the list of dashboards; the validation of a configuration is left out. |
| hosted observations, analytics and quality | in part | `ObservationRows`, `Analytics`, `KeysetPages`, `Playground` | The rows folded from events and their reindexing, funnels, series and summaries, and the lists; of quality.ts the scans and the read model of prompts and scores, its datasets left out. |
| lists and cursors | modelled | `KeysetPages` | Every paginated list of the hosted API, by the key it walks along, as rows come, move and leave between pages. |
| browser sessions | in part | `BrowserSessions` | One user: sign-in, authentication, rotation with its guards, sign-out, devices and their slots. The sealing of the WorkOS cookie (workos_session.ts) is left out. |
| device authorisation and beta capacity | in part | `BetaAccounts`, `BrowserSessions` | Provisioning of accounts against the capacity row and the R2 ledger, with restores of the database; the polling of the device flow is left out: its statements are single compare-and-set updates of one row. |
| enterprise directory (SCIM) | modelled | `Directory`, `KeysetPages` | Tokens and their rotation, provisioning by invites under the seat triggers with the audited transaction and its retries, and the paged lists. |
| enterprise masking rules | modelled | `Masking` | Creation and deletion of rules, the glob of a field pattern, and the masking of a payload tree with its limits. |
| assistant | modelled | `HostedTools` | The loop of model turns and tool calls with its budget and refusals; the prompt is left out. |
| hosted MCP | in part | `HostedTools` | Authentication, the read tools by what they return, record_score and accept_handoff with repeated calls; prompts and the JSON-RPC envelope are left out. |
| hosted OTLP | in part | `OtlpExports` | The conversion of an export into events with identities, parents, sessions and traces, rejected spans, and their insertion; the wire decoding of otlp_proto.ts is left out. |
| amounts of money | modelled | `Decimals` | The four decimal implementations and the SQL one: checked over every operand of a few digits in a small radix, and proved exact for any digits in any radix. |
| handoff launch and acknowledgement | in part | `Handoffs`, `LocalReadersProofs` | continue, the list of handoffs and their acknowledgement beside the tools that do the same; the payload that is rendered for the agent, its score and the branch and dirty flag of a drift are left out. |
| local read models | in part | `Handoffs` | The status of a workstream and the newest checkpoint, derived from the events, are in Handoffs; titles, repositories, counts and the raw lists are plain queries. |
| capture spool and import | in part | `EventStore` | Import of a JSONL file, line by line, is in EventStore; the spool and its replay are called by no command and are left out. |
| capture hook | in part | `EventStore` | The atomic batch a hook writes is in EventStore; mapping a provider event to envelopes is parsing and left out. |
| other commands | no |  | Argument parsing and printing over the components below: no state of their own. |
| provider adapters | no |  | Normalisation of transcripts is parsing. The installation of hooks edits the configuration files of other programs, one file at a time and by hand: left for later. |
| hook integrations | no |  | Decoders of provider payloads: pure parsing, exercised by fixtures. |
| checkpoint builder | in part | `Handoffs` | Which events, sessions and worktree a checkpoint stands for is in Handoffs; the evidence it extracts from payloads, its redaction and its score are left out. |
| trace materialiser | no |  | A pure fold over the whole log, tested by fixtures; its cost is in the shape of payloads, which the models abstract. |
| graph reducer | no |  | A pure fold over the whole log into nodes and edges; nothing interleaves in it. |
| detections | no |  | Deterministic rules over the log: pure functions of payload texts. |
| local observations | no |  | Folding of events into observation rows: a pure function; when the table that holds them is fresh is in LocalReaders. |
| verification checks | no |  | The declared checks themselves, which are free in the model; when their report is cached is in LocalReaders. |
| datasets, prompts and scores | no |  | Append-only records with versions, folded by pure functions; their hosted counterpart is in Playground. |
| redaction | no |  | Pattern replacement: a pure function of strings, its use by sync is modelled in HostedSync as a policy that may fail. |
| local OTLP import and export | no |  | Encoding of spans: pure. The hosted conversion of an export is in OtlpExports. |
| local MCP server and web UI | in part | `Handoffs` | The tools that checkpoint, hand over, acknowledge, claim files and complete are in Handoffs; the reading tools and the web UI are views, decisions, verifications and scores single appends. |
| configuration, ids, objects and locks | no |  | Leaf libraries; the lock file is part of HostedSync. |
| worker router, cron and queue | no |  | Dispatch of requests, cron sweeps and queue batches; ingest, projection, webhooks, deletion, alerts and retention of it are modelled as steps of their own modules, in any order. |
| device authentication | no |  | Token lookup with the deletion fence; its commit-time half is in HostedIngest. |
| account page, web application and landing page | no |  | User interface: no state of the system. |
| url guard and plans | no |  | Pure checks of strings and a table of limits; the limits are constants of HostedIngest. |
| acceptance harness and deployment | no |  | Test harness and deployment files. |

## The modules

| Module | What it is |
|---|---|
| `IngestLedger` | abstract: one batch per (workspace, key), accepted with its evidence in one step |
| `HostedIngest` | `POST /v1/event-batches` as racing request processes; implements `IngestLedger` |
| `HostedSync` | `handoffgraph sync` as crashing processes; its server is `IngestLedger` |
| `WorkstreamProjection` | the hosted read model, folded event by event |
| `Teams` | members, invites and the audit chain of a workspace |
| `Webhooks` | sweep, reconciler, queue and consumers |
| `AccountDeletion` | deletion requests, the saga's passes, the ledger, cached verdicts, restore |
| `EventStore` | atomic batches and single appends on one SQLite database |
| `LocalReaders` | extends `EventStore` with index, verify cache and reset |
| `Handoffs` | `continue` and the MCP tools of several agents on one event log |
| `BetaAccounts` | sign-up against the capacity row in D1 and the ledger in R2, with restores |
| `BrowserSessions` | one user's sessions and devices |
| `ApiKeys`, `Gateway` | verdicts at the edge; keys with a budget, calls, charges and their mirror |
| `RunLifecycle` | abstract: a run is settled once, by who works on it |
| `EvalRuns`, `Simulations` | runs as inline executors or Workflow instances; both implement `RunLifecycle` |
| `Playground` | playground runs; gated promotion over a bounded scan |
| `Annotations`, `Alerts` | queues of spans to score; threshold rules over windows |
| `ObservationRows`, `ColdTier` | span rows and their reindexing; compaction, exports, retention |
| `Attachments`, `Dashboards`, `KeysetPages`, `Analytics` | uploads of one content; versions and shares; lists by page; series and funnels |
| `Directory`, `Masking`, `Decimals` | SCIM; masking of payload trees; the decimal implementations |
| `OtlpExports`, `HostedTools` | conversion and insertion of exports; hosted MCP and the assistant |
| `SetLemmas` | proved lemmas about finite sets of numbers and the sums over them |
| `HostedIngestProofs`, `HostedSyncProofs`, `LocalReadersProofs` | theorems and proofs about the module they are named after, the last also about `Handoffs` |
| `HostedLaterProofs` | those of `Webhooks` and `AccountDeletion` |
| `HostedWorkProofs` | those of `Teams` and `WorkstreamProjection`, and of all parts of `MCHostedWork` (`ApiKeys`, `Gateway`, `EvalRuns`, `Simulations`, `Playground`, `Annotations`, `Alerts`) for the composition `WorkSpec` |
| `RulesProofs` | lemmas about what `Masking` and `Decimals` compute, and their inductive invariants |
| `HostedDataProofs` | those of all parts of `MCHostedData`, for the composition `DataSpec` |
| `MC*` | constants and compositions for TLC: small sets, symmetry and constraints |

`HostedIngest` and `HostedSync` meet in `IngestLedger`: the first is shown to
implement it, the second relies on nothing else of the service, so that what
sync guarantees (no event skipped, no event charged twice) holds against the
real handler. `LocalReaders` composes the readers with all writers of
`EventStore`. `RunLifecycle` is what evaluations and simulations share. The MC
modules compose what runs in one Worker or on one machine: `MCHostedLater`
(webhooks and deletion, the work that cron does later), `MCHostedTables`
(projection and teams), `MCHostedWork` (eight features that call models and
services), `MCHostedData` (fourteen features over stored rows) and
`MCLocalStore`. The parts of one composition share no table that one writes
and another reads, so a behaviour moves one of them (`part`, `side`): the
interleavings that could matter are all inside a part.

The convention throughout: *a process is what keeps locals between two awaited
calls, and an action is one such call with the code up to the next one*. A
transaction (a D1 batch, an SQLite transaction, an atomic rename) is one action,
or a begin, its statements and a commit where others can see it open. A death of
the process is either an explicit action or a process that takes no further
step. Definitions marked `mutant` are not part of a specification: each is a
wrong version of the definition that follows it, and a property has to fail when
it takes that definition's place.

### `HostedIngest`

`handleEventBatches` (`platform/src/index.ts`), `quota.ts` and the triggers of
migrations 0003, 0019 and 0022. Variables: `pc`, `req`, `at`, `abort`, `answer`
are the locals of each request; `revoked`, `deleting`, `tombstoned`,
`entitlement` say who may write; `reservations`, `receipts`, `evidence`,
`periodStart`, `monthly`, `lifetime` are the tables.

| Action | Code |
|---|---|
| `Arrive`, `Authenticate` | router, body validation, `authenticateDevice`, capability check |
| `ReadReceipt` | first receipt read; a hit is answered by `Replay` |
| `ReadReservation`, `ReadPolicy`, `ReadWinner` | the two awaits of `prepareQuotaReservation`, and the re-read after "duplicate" |
| `Commit` | `env.DB.batch`: `AbortReasons` are the triggers in statement order, `ApplyBatch` what the statements write, with the rollover of `Reserve` |
| `ReadWinnerAfterFailure`, `RecheckReservation`, `RecheckPolicy` | the catch block that explains a failed batch |
| `RevokeDevice`, `PrelockWorkspace`, `CreateDeletionJob`, `Tick` | everybody else, and the clock |

A body is a value with a set of `<<event id, content>>` pairs and a cost; the
request hash is that set, because the code hashes the canonical envelope and not
the raw bytes. What `validateEventBatch` refuses never arrives. The clock a
request uses is the one it read before its preflight (`at`).

### `HostedSync`

`Run` (`internal/hostedsync/sync.go`) with `state.go`, `lock_unix.go` and the
redaction of `sanitize.go`. `disk` is the state file, `mem` each run's copy of
it, `log` the length of each database file and `epoch` which file is at a path
(`ResetHard` makes a new one). `sent` keeps every request for ever, so
`DeliverLate` covers loss, delay and duplication. A body is a range of a log
under a policy; its key is its digest, so the body stands for it. `NextBatch`
leaves open how many events fit the byte limit.

Steps of a run, in order: `AcquireStateLock`, `LoadState`, `Preview` (the whole
range is redacted before anything is sent), `SaveAcceptance`, then
`BuildPending`, `SavePending`, `PostPending`, `ReceiveReceipt` or `PostFails`,
`SaveCursor`, until the high-water mark. `Crash` may come anywhere; a save is a
rename that happened or did not.

### `WorkstreamProjection`

`RowOf` is `buildWorkstreamProjectionRows`, `Upsert` is `UPSERT_WORKSTREAM_SQL`
column by column; `InsertEvents` is the statement before it, whose trigger keeps
one content per event id. `Summarises` says, without any order, what a row has
to be for a set of events.

### `Teams`

One workspace. A request is authorized and begun by `CreateInvite`,
`RevokeInvite`, `AcceptInvite`, `ChangeMemberRole` or `RemoveMember`, reads what
it is about (`ReadInvite`, `ReadTarget`, `CountOwners`), then the head of the
chain (`ReadAuditHead`), and `Commit` is the batch of `commitAudited` with its
one retry. `req` is what a handler holds; the role of the actor (`as`) and of the
target (`was`) are read once and may be stale at the commit. `Aborts` are the
triggers of migration 0004 and the index on live invites, `Matches` the `WHERE`
of the updates, `ChainConflict` the key of `audit_chain`. A link is a number and
its predecessor's in place of hashes. `SignIn` is the membership repair of
`provisionAccount`, for the founder of a workspace whose row is there.

### `Webhooks`

`StartTick` to `SendNext` are `sweepWorkspace` for every workspace with an
active endpoint, `ReadStuck`, `ReconcileRow` and `Resend` are
`reconcileStuckDeliveries`, `Take`, `Post` and `RecordOutcome` are
`processDeliveryMessage`. The queue redelivers what a consumer threw on, or died
holding, `MaxRetries` times. `known` in a message says whether its delivery id
is the id of the row: when two ticks insert a row for one event, `INSERT OR
IGNORE` keeps one id and the other tick's message names a row that is not there.
`hits` counts, up to 2, what an endpoint accepted.

### `AccountDeletion`

One workspace. `ReadLinks` to `ReadJobAfterFailure` are `deleteAccount`, the
`KV*` actions `deleteWorkspaceKVBatch`, the rest of the pass actions
`processWorkspaceDeletion`: authorize by the ledger, delete the identity, mark
it, sweep R2, purge D1, wait for the grace period, finish. `Arrive`,
`ReadSession`, `CheckLedger`, `ArriveWithKey`, `ReadVerdict`, `CacheVerdict`,
`PutObject` and `SignOut` are the requests that race it. `Bookmark` and
`RestoreD1` are a point-in-time restore, taken while nothing runs, as the
runbook asks. Time is counted in ticks: a process is at most `Life` old, a job
is due when `wait` is 0, a verdict in KV lives `VerdictLife`. `Move` runs a step
of a process, `SagaFault` fails the call it makes, before or after it took
effect.

### `EventStore` and `LocalReaders`

A hook is `StartBatch` (`prepareEventBatch` included), `BeginImmediate`,
`ValidateStoredOwnership`, `InsertNext` for each event, `Commit`; `Abort` is any
statement that fails or a cancelled context, `Kill` a killed process. An import
appends line by line. `lock` is SQLite's write lock, `draft` the rows of the open
transaction. An ignored `INSERT OR IGNORE` uses up a sequence number, as SQLite's
`AUTOINCREMENT` does after the row was numbered.

A reader is `query` (`ReadCounts`, `ReadSnapshot`, `ListEvents`, `ReadMaxSeq`,
`RebuildObservations`, `QueryObservations`), `index rebuild`, `reset`
(`ClearObservations`, `ClearVerifyResults`, then a rebuild) or `verify`
(`ListEvents`, `LookUpReport`, `CompareSnapshot`, `RunVerifyChecks`,
`TakeSnapshot`, `SaveReport`, `RecordVerification`). A derived table is
represented by the rows it was computed from.

### `Handoffs`

One workstream, several agents. A call begins by what it reads (`LoadWorkstream`,
`LatestCheckpoint`, `MatchHandoff`, `ReadClaims`, `ReadCompletion`), takes the
clock (`BuildCheckpoint`, `Prepare`, `StampEvent`) and ends with its row
(`SaveCheckpoint`, `AppendOne`). `trail` is the event log of the workstream by
sequence number; `Precedes` is the order in which `ListEvents` returns it, by
`occurred_at`. `deriveWorkstreamStatus` and `ListHandoffs` are computed from it
as in the code. The clock may be set back, hooks append late events, and the
worktree moves (`ClockMoves`, `CaptureEvent`, `WorkInTree`).

### `BetaAccounts`, `BrowserSessions`

A callback of WorkOS is `provisionAccount`: it reads the account, reserves in the
R2 ledger by compare-and-set with retries, and commits one D1 batch with the
capacity trigger. `beta` is what D1 holds and a restore puts back, `burned` the
R2 ledger, which nothing puts back; `provisioned` is history.
`BrowserSessions` authenticates in one statement and commits in a later one;
rotation, sign-out, device creation and revocation interleave with it.

### `ApiKeys`, `Gateway`

`ApiKeys` separates the read of the edge cache, the read of the row, and the
write of the verdict, so that a revocation may come between any two. `Gateway`
does so for a proxied call: its checks of the copied row and the rate window, the
attempts upstream with their fallbacks and the response cache, the charge (one
statement with the ledger row and the capture), and the mirror into KV that may
fail. The clock counts ticks of a call's timeout.

### `EvalRuns`, `Simulations`

A run is a row and what executors of it hold. A Workflow instance that is
restarted finds the outcome of every finished step (`Recorded`) and repeats the
step it was in, for which models may answer otherwise; an inline executor ends
with its request. Creating an instance may seem to fail although it runs, so two
executors may work on one run. Verdicts of checks and answers of models are free.
`MaySettle` is the `WHERE status = 'running'` of the settlement.

### `Playground`, `Annotations`, `Alerts`

A playground run is a row, the variants that ran, and their events. The gate of a
label reads scores by a bounded scan and appends the label later; the read
model keeps the oldest rows, the gate the newest. An annotator claims by a
conditional update, finalises the item, then inserts the score; notification of
the room is not awaited. A sweep of alerts reads its rules once, measures each
window, and fires in one batch (event, firing, rule state) before it posts.

### `ObservationRows`, `ColdTier`, `Attachments`, `Dashboards`

`UpsertSpan` is the SQL merge, column group by column group; `StartWins` its tie
rule. A reindex clears and folds in several batches from a scan made before.
`ColdTier` has the sweep of compaction (put the object, list it, move the cursor)
and exports. `Attachments` is one content uploaded by several; `Dashboards` one
dashboard with versions and links; a commit may stand though its answer is lost.

### `KeysetPages`, `Analytics`, `Directory`, `Masking`, `Decimals`

`KeysetPages` has one record per kind of list: what it orders by, whether keys
move, whether rows leave, whether it resumes. A page has the rows beyond the cursor
(`Ahead`), each at the place that its order gives it (`PlaceOf`). `Analytics` states
the count of a series and a funnel without the SQL and compares; the spans of a trace
are placed by their time and id, and the steps of a funnel are taken along them. `Directory` is a SCIM request
with its token, its search for a live invite, the head of the chain and the batch
that is tried twice. `Masking` and `Decimals` are pure functions checked against
reference definitions, of patterns and trees up to three names, and of numbers
with up to two digits before and after the point, in base 2; the theorem covers every
size. A pattern of `Masking` is walked from its end: `walk[i]` is the set of places
from which the rest of the path matches the patterns from `i` on.

### `OtlpExports`, `HostedTools`

An exporter sends any grouping of its spans, in any of some orders and any number of
times; `convertOtlpExport` computes identity, parent and session of an event as
`otlp.ts` does within the export it came in, and the first span of a trace or of a
session (`FirstIn`) decides where the code's first hit does. `HostedTools` has the tools that read, the two that write
(whose event ids are digests with the millisecond), and the loop of the assistant.

## The runs

Every property has a mutant (`PROJECT.json`, "mutants"): a wrong version of one
mapped definition under which the property fails in the same run.

| Run | Module | Checks | What it shows |
|---|---|---|---|
| `ingest` | `MCHostedIngest` | `AtomicAcceptance`, `CountersAreSound`, `FencedWrites`, `ImplementsLedger` | Two requests of two devices race for two keys with equal, re-spaced, conflicting and larger bodies while the accounting period rolls over, devices are revoked, the workspace is deleted and any storage call may fail or go unacknowledged: charges are exact, nothing passes the fences, and the handler implements the abstract ledger. |
| `sync` | `MCHostedSync` | `CursorMeansDelivered`, `NeverWedged`, `ReplaysAreExact`, `NoLostUpdate` | Two invocations with two credentials over one state file crash anywhere, with requests lost, late and repeated, a redaction policy that changes between runs and an event that cannot be redacted: no event is skipped or sent in two versions, no update of the file is lost, the state never refuses itself. |
| `sync_reset_skips` (violated) | `MCHostedSync` | `CursorMeansDelivered` | After a hard reset of a store whose data directory does not hold the state file, the new store inherits the old cursor and its first events are never uploaded. |
| `later` | `MCHostedLater` | `SweepsAreSound`, `ErasureIsOrderly`, `SignOutFirstWins`, `NoResurrection` | Two overlapping cron ticks sweep a growing log page by page with one failing or unacknowledged call: the cursor passes no event without its row. And two requests (deletions, sign-outs, uploads by session and by cached key verdict) race two overlapping passes of the deletion saga, with a failing call, a lost answer, an eviction or a restore of D1 anywhere: a complete deletion left nothing behind, tenant rows go last, and nobody is let in again. |
| `later_ends` | `MCHostedLater` | `DeliveredWasAccepted`, `SettledForGood`, `DeliveryEnds`, `DeletionCompletes` | Two consumers with redelivery, lost answers and evictions against one tick whose calls fail: delivered means accepted, finished rows stay finished; with a fair cron and queue every subscribed event gets its row and no row stays queued for ever. And a deletion that was accepted completes although two calls fail, if cron keeps running. |
| `hosted_tables` | `MCHostedTables` | `Converged`, `TeamStands`, `OwnersActOnOwners`, `ChangesAreAudited` | Events of two workstreams with equal times, disputed contents, early completions and replays, in every order and batching: the read model depends only on the recorded set. And two requests at a time invite, accept, promote, demote and remove the members of a workspace of two seats: it keeps an owner, its seats, the authority of owners and one unbroken audit trail. |
| `teams_reinstated_owner` (violated) | `MCHostedTables` | `NoOwnerByInvite` | An owner who was removed is invited as a viewer, accepts, and is an owner again. |
| `local_store` | `MCLocalStore` | `FreshIndexIsComplete`, `HandoffsAreSound`, `GrowsAtTheEnd`, `BatchesEnd` | Any three of two hooks, an import, a query, a reset and a verify run on one database, each killed or failing at any statement: batches are all or nothing, sessions keep one owner, the log only grows at its end, an index that passes for fresh is complete, and no batch waits for ever. And any two calls that checkpoint, hand over, acknowledge, claim or complete one workstream, under a clock that is set back once. |
| `local_stale_verdict` (violated) | `MCLocalStore` | `VerdictIsCurrent` | An event is captured between the list a verify run checks and the fingerprint it saves: the next run takes the old verdict from the cache. |
| `hosted_work` | `MCHostedWork` | `SettledRunsAreWhole`, `ScoresAreSound`, `FiringsAreEvidence`, `SpendIsTheLedger`, `RevocationReachesTheEdge`, `RunsAreSettledOnce` | Eight independent features, one per behaviour: evaluation and simulation runs race two executors and restart; playground requests share a run; a label is promoted while scores arrive late; annotators submit, skip and are evicted; alert sweeps overlap; gateway calls race a revocation and each other; an API key is revoked under verification. |
| `hosted_data` | `MCHostedData` | `RowsAreFolds`, `ColdRowsAreWhole`, `AnswersStand`, `ReadsAreExact`, `IssuancesAreBurned`, `RulesAreExact`, `DirectoryIsOrderly`, `ExportsAreAbsorbed`, `ToolsAreFaithful`, `SessionsAreSound` | Fourteen features that keep rows of a workspace or of its account, one at a time, with two or three requests each and lost answers, evictions, failing stores and restores: reindexing races ingest and retention; compactions overlap; uploads, dashboards, lists, analytics, accounts, sessions, SCIM, masking, money, OTLP exports and MCP tools. |
| `otlp_resent_span` (violated) | `MCHostedData` | `SpansAreIdentical` | A child span is exported alone and again with its parent: its events are not the same, and the second export is refused. |

### Bounds and why they are enough

- *ingest*: two requests make every race between two reads and two commits;
  three keys, one of them with a receipt older than migration 0003, let both be
  accepted separately, replay and conflict; four bodies differ in exactly what
  the code tells apart (same envelope with other bytes, other content under an
  event id, more cost). The caps are such that one, two or three batches fit the
  month and the lifetime differently. `CountersAreSound` compares the counters
  with the sum of what was accepted. `MaxTime = 3` with `Period = 2` allows one
  rollover in the middle of a request. Requests are symmetric, and so are the two
  keys without a legacy receipt.
- *sync*: two invocations, two credentials of one workspace, three captures in
  pages of two, two policies, one event that redaction refuses. `Bounded` lets
  invocations overlap only while a single policy has been used: the two hazards
  (interleaving on the file, change of policy) are each explored in full, and
  their combination only one run after another. The theorems need neither bound.
- *later*: webhooks and deletion, safety. With one page per event and two events,
  two sweeps that overlap, die or fail between them leave the cursor in every
  position; a deletion has two requests and two passes, one key, one prefix.
  `MaxTickFaults` and `MaxSagaFaults` count failed or unacknowledged calls,
  evictions and the restore; one fault anywhere reaches every error branch. The
  lengths of time keep the order the platform gives them: a request lives shorter
  than `DELETION_RETRY_SECONDS`, which the grace period before the second sweep of
  R2 and KV relies on; a KV verdict (60 s) expires within it; a cron invocation
  may outlive the cron period (5 min), so that passes overlap. Some 2.7 million
  states.
- *later_ends*: the same, liveness: one tick, two consumers, an endpoint created
  and disabled at any time, redelivery (`MaxRetries = 1`, `MaxAttempts = 2`: both
  limits are crossed) and two failing calls on one event; one deletion with two
  failing calls.
- *hosted_work*: two executors of one run, two players, two annotators, two
  sweeps, two calls, two verifications, each with one fault: enough for a race
  between any read and the write that relies on it. Two traces and two turns let a
  run fail in the first and in a later step. The windows of an alert, of a rate
  limit and of a verdict each pass once.
- *hosted_data*: two requests of each kind (three where a third could meet the
  traces of two), one fault, pages and batches of one or two rows so that every
  limit is crossed. The spaces of payloads, patterns and numbers are complete up
  to their sizes.
- *otlp_resent_span*: a root span, a child and the exports of them.
- *local_store*: any three of two hooks, an import, a query, a reset and a
  verify; two events share an id and two claim one session for different owners.
  Three invocations are enough for a writer between any two steps of a reader
  while another writer holds the lock. Or two calls that hand a workstream over,
  that checkpoint, claim or complete, of two agents, while a hook captures, the
  tree moves once, and the clock ticks once and is set back once: enough for two
  calls to read before either writes, and for a row to sort before an earlier one.
  The store begins with or without a checkpoint and its handoff.
- *hosted_tables*: events with equal and different times and ids, with and
  without repository and title, in batches of up to three. For teams, two
  requests overlap in every way, among three users, two invites and two seats;
  the owner and the viewer are the highest and the lowest role and, with the
  admins that earlier requests left, reach every comparison of ranks. Three links
  are one more than two requests need to collide and retry. The theorems need no
  bound. No statement writes tables of both parts, so a behaviour moves one.

CHECK_DEADLOCK is off where every behaviour of an instance may end: requests are answered, logs
are full, jobs are complete.

## Fairness

Liveness is checked only where the code's environment justifies fairness.

- `LaterFairSpec` (`MCHostedLater`), webhooks: the cron trigger fires for ever
  (weak fairness of a tick's steps), the queue hands out what it holds and a
  consumer that runs gets on, a row becomes old. Nothing makes endpoints accept,
  events arrive or endpoints be disabled; the calls that may fail do so a bounded
  number of times.
- `LaterFairSpec`, deletion: time passes, cron runs, a running request or pass
  gets on. Nobody has to ask for a deletion.
- `LocalSpec` (`MCLocalStore`): a running hook or import proceeds, and SQLite lets a
  waiting writer in eventually (`busy_timeout` and the retry loop of
  `beginImmediate`). Readers and handoffs need no fairness.

Nothing is assumed fair in `hosted_work` and `hosted_data`: an executor that dies
inline leaves its run running, which the code never repairs, so no run has to
end. Their properties are safety, refinement of `RunLifecycle` included.

## The proofs

| Theorem | Module | Property | What it establishes |
|---|---|---|---|
| `SyncTypeCorrect` | `HostedSyncProofs` |  | Every variable keeps its type and an invocation has options and a copy of the state file exactly while it needs them. |
| `SyncDelivers` | `HostedSyncProofs` | `CursorMeansDelivered` | For any number of invocations, credentials, stores and policies, every event at or before a durable cursor is on record in the hosted workspace. |
| `SyncReplaysExactly` | `HostedSyncProofs` | `ReplaysAreExact` | A scope sends overlapping ranges only as the identical request. |
| `SyncNeverWedges` | `HostedSyncProofs` | `NeverWedged` | The checks that refuse a cursor or a pending batch never fire on state sync wrote. |
| `SyncFailsClosed` | `HostedSyncProofs` |  | Nothing is sent when redaction fails anywhere in the range of the run. |
| `SyncIsDurableFirst` | `HostedSyncProofs` |  | Body and acceptance are durable before a request leaves. |
| `SyncLosesNoUpdate` | `HostedSyncProofs` | `NoLostUpdate` | No write of the shared state file takes back what another run recorded. |
| `SyncServesLedger` | `HostedSyncProofs` |  | What sync's requests do to the hosted service, with crashes, late and repeated deliveries, is a behaviour of the abstract ledger the ingest handler implements. |
| `TeamsAreTyped` | `HostedWorkProofs` |  | Every variable keeps its type: an active member has a role and no invite is for an owner. |
| `TeamAlwaysStands` | `HostedWorkProofs` | `TeamStands` | The workspace keeps an active owner, however many requests counted its owners before, and its members fit the seats, for any number of invites redeemed at once. |
| `OwnersAreUnseatedByOwners` | `HostedWorkProofs` | `OwnersActOnOwners` | Only who was an owner when authorized makes or unseats an owner, except for leaving and for coming back. |
| `TrailIsComplete` | `HostedWorkProofs` | `ChangesAreAudited` | Members and invites change only together with the trail, which is one chain and is never rewritten. |
| `ReadersAreTyped` | `LocalReadersProofs` |  | Every variable of the local database and its readers keeps its type; indexes and lists are always part of the log. |
| `BatchesAreAtomic` | `LocalReadersProofs` |  | A batch that reported success or left a row is on record whole, beside any number of other commands and wherever it is killed. |
| `SessionsKeepOneOwner` | `LocalReadersProofs` |  | Batches never record two owners of one session, whatever interleaves. |
| `LogGrowsAtTheEnd` | `LocalReadersProofs` | `GrowsAtTheEnd` | No command adds a row at or below a sequence number on record, or changes a row. |
| `FreshIsComplete` | `LocalReadersProofs` | `FreshIndexIsComplete` | A fresh looking index is complete unless a reset emptied it: any log, any readers. |
| `HandoffsStaySound` | `LocalReadersProofs` | `HandoffsAreSound` | An acceptance that was answered shows, the status of a workstream is current, a later completion or claim is told of an earlier one, and a handoff carries a stored checkpoint: any number of calls, however they overlap. |
| `TypeCorrect` | `HostedIngestProofs` |  | Every variable keeps its type, the triggers leave no reservation undecided, and a request has an answer exactly when it is finished. |
| `AcceptanceIsAtomic` | `HostedIngestProofs` | `AtomicAcceptance` | Charge, receipt and evidence of a batch exist together or not at all, for any number of racing requests. |
| `AnswersAgree` | `HostedIngestProofs` |  | Every accepted answer is the receipt on record for the batch that was sent. |
| `DuplicateFindsReceipt` | `HostedIngestProofs` |  | The re-read after a duplicate reservation always finds a receipt of the same batch. |
| `LedgerAppendOnly` | `HostedIngestProofs` |  | Receipts, reservations and evidence are never rewritten. |
| `EvidenceHasOneContent` | `HostedIngestProofs` |  | One event id of a workspace has one content. |
| `WritesAreFenced` | `HostedIngestProofs` | `FencedWrites` | A revoked device and a prelocked workspace get no write, whatever authenticated before. |
| `Refinement` | `HostedIngestProofs` | `ImplementsLedger` | The handler with all its races and faults implements the abstract ledger. |
| `CountersHold` | `HostedIngestProofs` | `CountersAreSound` | The lifetime counters are the sums of what was accepted, the monthly ones never below what was decided in the running period, and neither passes its cap, for any races, retries and rollovers. |
| `RolloverIsForward` | `HostedIngestProofs` |  | A period moves forward by whole periods, never ahead of the clock, and a monthly counter falls only then. |
| `UpsertSummarises` | `HostedWorkProofs` |  | One upsert turns the summary of any set of events into the summary of the set with one more event: the merge is order-free. |
| `TypeCorrect` | `HostedWorkProofs` |  | Every variable keeps its type and a recorded event id has one content. |
| `ReadModelConverges` | `HostedWorkProofs` | `Converged` | After every batch the read model is the order-free summary of the recorded events, for any events, ids, times and batching. |
| `CompletionIsFinal` | `HostedWorkProofs` |  | No upsert reopens a completed workstream, removes a row or narrows its time span. |
| `LedgerHolds` | `HostedDataProofs` | `IssuancesAreBurned` | Every subject that ever had an account is among the at most MaxAccounts of the R2 ledger, which covers the counter and the identities of D1, whatever sign-ups race or fail half-way and whatever restores do. |
| `DirectoryStaysOrderly` | `HostedDataProofs` | `DirectoryIsOrderly` | For any number of provisioning calls, rotations and administrators, one SCIM token and one live invite per address, the seats are never oversold, and the audit chain names every invite created, once and in order. |
| `SessionsEndForGood` | `HostedDataProofs` | `SessionsAreSound` | A browser session that was signed out never serves again and the devices of a workspace are counted and capped, whatever requests started before the sign-out, the revocation or the rotation. |
| `PartsKeepTheirSpecs` | `HostedDataProofs` |  | In the composition that the runs check, accounts, sessions and the directory do only what their own specifications allow, so the theorems about those hold of it. |
| `WhatWasToldStands` | `HostedDataProofs` | `AnswersStand` | What was told stays true: an upload that was answered describes the one record of its content, whose object is stored, an edit answered 201 is the version it was told, and a link reported revoked resolves for nobody, though commits lose their answers. |
| `ToolsStayFaithful` | `HostedDataProofs` | `ToolsAreFaithful` | A tool answers with an event that is on record and writes no more of them than authorised calls attempted, for any number of clients that retry; the assistant stays within its budget, reads before it cites and cites only evidence of its caller. |
| `ColdRowsStayWhole` | `HostedDataProofs` | `ColdRowsAreWhole` | Whatever sweeps and exports overlap, die and fail, and whatever the sizes of pages and objects: the listed objects replay the log of a workspace up to its watermark, and an export that is offered has every event it was asked for, without a gap, and counts them right. |
| `RowsStayFolds` | `HostedDataProofs` | `RowsAreFolds` | Whatever batches of ingest, rebuilds and sweeps of retention overlap, in any number and order: the row of a span says what the events in it say, no trigger refuses a batch, the session counts the log, and an event is missing from the row only for retention or for a rebuild that died or overlapped it. |
| `ReadsStayExact` | `HostedDataProofs` | `ReadsAreExact` | A walk through any of the lists, over any number of rows and pages and whatever comes, moves and leaves meanwhile, shows every row that stood all along and no row twice, with the exceptions the lists state; a funnel, a series or a summary of any log counts each trace or span in its range exactly once. |
| `ExportsStayAbsorbed` | `HostedDataProofs` | `ExportsAreAbsorbed` | However an exporter groups, orders, repeats and mixes its spans: an export composed like those before is accepted unless nothing of it is sound, every sound span of it has one start and one end in one session, and nothing that was rejected or withheld by the tier is in the log. |
| `RulesStayExact` | `HostedDataProofs` | `RulesAreExact` | Whatever rules an account has and whatever a payload carries, a returned payload has in the clear exactly the fields that no rule names or encloses, and nothing dropped survives; and in any radix and for any number of digits, spends, sums, comparisons and rates of decimal strings are those of the numbers. |
| `NothingIsSkipped` | `HostedLaterProofs` | `SweepsAreSound` | However ticks overlap, die and fail, no cursor passes an event without its row for every endpoint that was there all along, in tables that keep their types. |
| `SettledStays` | `HostedLaterProofs` | `SettledForGood` | Delivered and dead rows never change, settled rows are never queued again and no cursor moves backward, whoever writes late. |
| `DeliveredIsAccepted` | `HostedLaterProofs` | `DeliveredWasAccepted` | A row says delivered only when its endpoint accepted a post of that delivery. |
| `RowsGoLast` | `HostedLaterProofs` |  | Every variable keeps its domain, the job the CHECKs of its table, and the rows of the tenant go after its identity, behind the ledger. |
| `NobodyIsResurrected` | `HostedLaterProofs` | `NoResurrection` | Once a deletion was accepted no session of that identity gets past the ledger, not even on a database restored to the time before. |
| `SignOutIsArbiter` | `HostedLaterProofs` | `SignOutFirstWins` | A deletion that comes after the sign-out it raced locks nothing and writes no ledger. |
| `CompleteIsErased` | `HostedLaterProofs` | `ErasureIsOrderly` | When the job says complete no object, verdict, row or identity of the tenant is left, however passes and requests overlap, fail, are evicted or restored, given that a request ends within a period of the cron and a verdict lives no longer than one. |
| `RevokedKeysDie` | `HostedWorkProofs` | `RevocationReachesTheEdge` | A key that was revoked is accepted by no verification later than the life of a verdict and of a request allow, whatever the edge cache kept, lost or got late. |
| `RunsSettleOnce` | `HostedWorkProofs` | `RunsAreSettledOnce` | Evaluations and simulations implement RunLifecycle: settled once, by one who works on them, and left running only by a failure. |
| `FiringsAreTold` | `HostedWorkProofs` | `FiringsAreEvidence` | However sweeps overlap, die and measure late spans, a rule fires once for a window, on what was measured, and what was announced is on the spine. |
| `SpendIsBooked` | `HostedWorkProofs` | `SpendIsTheLedger` | The spend of a virtual key is the sum of its ledger, and every call let through is in it, under way, failed or shadowed, for any number of racing calls. |
| `SettledRunsStand` | `HostedWorkProofs` | `SettledRunsAreWhole` | A run that says it is done graded every trace it counts, recorded the verdict it shows, told a whole conversation and stored every cell, however executors race, die and replay. |
| `ScoresStaySound` | `HostedWorkProofs` | `ScoresAreSound` | A promotion whose audit says the gate passed rests on the newest score its scan could see, and a label resolves to the version it was set to last; a span is in its queue once and scored at most once, and only an eviction leaves a finished item without its score. |

Assumptions are those named in the modules (`IngestAssumption`,
`SyncAssumption`, `ProjectionAssumption`, `EventStoreAssumption`,
`ReadersAssumption`, `TeamsAssumption`, `WebhooksAssumption`,
`DeletionAssumption`, `BetaAssumption`, `DirectoryAssumption`, `BrowserAssumption`,
`AttachmentAssumption`, `DashAssumption`, `ToolsAssumption`, `ColdTierAssumptions`,
`PagesAssumptions`, `AnalyticsAssumption`, `OtlpAssumption`, `MaskingAssumption`,
`DecimalsAssumption`, those of the parts of
`hosted_work` and the `None` and `NoRow` companions): types of the constants, and
that `None`, `"none"` and `Never`, which stand for a missing value, are no value.
The rows that a list or a query can meet are finitely many, under ids and keys that
are numbers, which stand for the order of the code's strings; no span ends before it
starts. The letters of a name are numbers, too, and a payload has finitely many nodes. A
radix has at least two digits, and the scale in which values are compared (`SumScale`,
of which `analytics.ts` has nine digits) is no coarser than the fractions of the
operands: the CHECK of the column caps them at nine. The gateway admits longer ones, and
for it the scale is only the unit of the statement, so it may be taken as long as they are.
That a workspace has a seat, and no limit of devices is negative, are CHECKs of
the schema (`max_seats` in migration 0004, `max_devices` and
`max_device_issuances` in 0003). One is about time: `LifeAssumption` of `AccountDeletion`, a request lives
shorter than the period of the cron (five minutes, `wrangler.toml`) and a cached
verdict at most as long (a minute for API keys, five for gateway keys). TLC evaluates them in every
run. No bound of a configuration is assumed.

*Hosted ingest.* `TypeOK` already says that no reservation stays undecided. The
inductive invariant `IngestInv` adds `AtomicAcceptance` (a receipt exists exactly
with its reservation, same hash, evidence on record), `AnswersMatchLedger` and
`DuplicateHasReceipt`: an answer or a "duplicate" verdict refers to rows that
never change (`AppendHolds`), so it stays true after the step that gave it.
`LedgerStep` reduces all steps to two cases, nothing written or one `Commit` with
`AbortReasons = {}`, from which the fences, the single content per event id and
the refinement of `IngestLedger` follow. The counters need an invariant of their
own, `CountersInv`: the charged keys are finitely many, and every batch was decided
before the running period ends. So when a period has expired none of the earlier
batches is decided in the next one, and the sum starts again from the batch that
rolled it over (`CountedCharge`, with the sums of `SetLemmas` and the division of
`WholePeriods`). `RolloverIsForward` needs only that no request is stamped ahead of
the clock.

*Hosted sync.* None of the properties is inductive. `SyncInv` says how each
run's copy of its own record differs from the file at each step (`CopyInv`), that
the range it works on was previewed and is in the log (`RangeInv`), what a record
of the file says about what the service holds (`RecordInv`), and that what was
sent is behind the cursor or is the pending batch (`SentInv`). It needs the
lock: an uploading run holds it, so nobody else saves. It does not hold with
hard resets, and neither do the properties (`sync_reset_skips`).
`SyncServesLedger` maps the service of this model to `IngestLedger`, the
abstraction that `HostedIngest` implements: client and service meet there.

*Workstream projection.* `UpsertSummarises`: if a row summarises a set of events
then the upserted row summarises the set with one more event, whatever order
they came in. The inductive invariant is that each row summarises the recorded
events of its workstream that are no longer pending.

*Teams.* `TeamsInv` adds to the three invariants and the single chain what a
request has established when it gets to its commit (`RequestsOK`): an invite
makes nobody an owner, the change is not forbidden for the role that was read,
and the head that was read is not beyond the trail. Nothing is said of the rows
it is about, which others may have changed: `AppliedKeepsOwner`,
`AppliedKeepsSeats` and `TrailGrows` use only the triggers, the `WHERE` of the
updates and the key of the chain.

*Local database.* `StoreInv` says of each batch where it stands: while it
inserts, it holds the lock, its owners still agree with everything stored
(`OwnedAsStored` stays true because nobody else can write), and each of its
events is still to come, on record, or in its draft, whose sequence numbers are
above all that were given out. `CommitKeeps` turns that into the atomicity of the
batch, the single owner of a session and the growth of the log at its end. Every
other step is one of three cases: a step of one writer that commits nothing
(`LocalStep`), a single append (`AppendKeeps`), or a reader. `IndexInv` is what
the completeness of the index rests on: the recorded size is that of what was
indexed, the index is part of the log, and so equal sizes make equal sets; the
maximum, read later than the list, is not needed.

*Webhooks.* `SweepInv` adds to the type and to `NothingSkipped` what a tick holds in
the middle of its page (`SweptOK`): the cursor it read is not beyond the one of the
table, the endpoints it read include those that were there all along, and as long
as such an endpoint is still to be created its workspace has no cursor and no
tick. Whatever another tick does meanwhile only adds rows. `SettledForGood` and
`DeliveredWasAccepted` rest on the `WHERE` clauses and triggers that guard a row,
not on who writes it; the second also needs that a consumer about to record success
has posted.

*Account deletion.* `DeletionInv` says of the database and of its bookmark alike
what their rows tell about the world outside (`TenantSays`: a job is in the ledger,
one that passed WorkOS has no identity left, and rows that are gone have both), that
what was accepted is in the ledger, and what each process has established before
the step it is at (`Knows`): whoever deletes has the ledger, and a pass that knows
of WorkOS finds no identity. A restore replaces the database by the bookmark, of
which the same is known.

*A complete deletion.* That a job says complete only when nothing is left rests on
time, since the code never looks at the requests that are under way. `ErasureInv`
therefore dates the job. `Since(e)` says that e ticks may have passed since the keys
were revoked: whatever can still write an object or a verdict was under way then,
or uses a verdict that was, and is not older than it may be. Each pass that moves the
job on started after the cron had fired again, so the job that has lost its identity
is one period old, that of the grace period two, and one with an entry of KV marked
deleted three, less what is left of the current period (`Elapsed`, `Dated`). Passes
that overlap started a period apart (`Apart`), and remember a job that was as old as
they found it, plus their own age (`OnTime`). After two periods no request that
authenticated with a session is left, after three no verdict and no request that
used one (`AtRest`), and the last pass finds no live entry only then: it sweeps what
nobody fills again (`Swept`). The one delicate point is a pass from before the grace
period that still marks an entry during it (`Late`). `LifeAssumption` says which
lengths of time this needs: a request ends before the cron fires again, and a
verdict lives no longer than the period of the cron. A restored database is dated by
its own row.

*Accounts.* `LedgerInv` relates three things that fail apart: the counter of D1,
now and in its backup, lies between the identities on record and those that are or
were (`Counted`), which are all in the ledger of R2, which holds at most
`MaxAccounts`; and a callback that is about to insert has its subject in that
ledger (`Established`).

*Directory.* `DirectoryInv` gives each clause of the property a form that a single
step shows: two live tokens are one, two open invites to an address are one, and
the invites that hold a seat are those that are open and unexpired at a time, of
which there are fewer later (`Holding`; `NotAhead` says that no request is ahead
of the clock). The batch of an invite is decided by what it finds, not by what the
request read before, so nothing is assumed of the read: the guard of the insert
counts the seats again, and the key of the chain refuses a stale head.

*Browser sessions.* `SessionsInv` dates the credential: what a request holds was
minted before what is minted next (`TokensAreOld`), and a session that was signed
out has ended and is the last or an earlier one (`SignedOutEnded`). So a statement
that still finds its credential finds it in a later session. A revocation that
found nothing to revoke is told apart from one whose credential died by
`MissesAreTrue`; the counters are the cardinalities of the devices that are
enrolled and of those ever drawn (`DevicesCount`).

*Attachments and dashboards.* An upload commits only after its object was stored,
and the record of the content, once there, never changes: `UploadKeeps` needs no
more. A writer whose insert
failed looks whether its number is taken, so an answer is about a number that
exists (`ToldTruly`). That an edit is among the versions once holds while no call
fails (`EachOnce`): one that was stored though its answer was lost is told 409, and
is there twice when it is tried again. The links reported revoked have a time of revocation, and no
statement takes one back.

*Tools.* A payload may be recorded more than once, because the digest of an event
has its millisecond. `CallsAreCounted` bounds how often: the events and the calls on
their way to one are together no more than the calls that were authorised, per
workspace and payload, and each step moves a call from the second set to the first
(`ArrivalBalances`) or drops it. A conversation holds only tools that read, and only
evidence they could show its caller (`TalkHolds`).

*Handoffs.* `HandInv` keeps for every call what it still knows of the place where it
began (`Stands`): rows and checkpoints only come after it, so a claim that was told
of every earlier one stays told, and its own row lies beyond that place (`Says`).
`Timely` is what a clock that was never set back adds: no row on record is later
than the clock, so the row of a call is not earlier than those it could read
(`RowsInOrder`), and a checkpoint is not older than those on its shelf. From this
alone follow the order of acceptances and the status. That the listing takes the
latest acceptance at all rests on there being one in a finite set (`LatestOfSome`).

*Cold tier.* Everything rests on ranges of sequence numbers that the log has reached:
no later event falls into one (`RangesStay`). `Covered(w, k)` says that the listed
objects hold every event of a workspace up to `k`; it holds of each end of a listed
range, of the cursors of each sweep, and so of the watermark (`WatermarkCovers`). A
page is a prefix of what is left, and one that is not full is all of it
(`PagesHaveNoGap`): the first makes an object the range it is named after, whoever
wrote it, so a sweep that finds the name taken finds its own rows; the second makes
an export whole. `Standing` says what a request has established when it gets to a
step, and that only it settles its row.

*Composition.* `PartsMove` says that a step of `DataSpec` is, for each part, a step of
its own specification or leaves it alone; a theorem about a part is then one about
the composition (`PartsKeepTheirSpecs`).

*Sets and sums.* What a fold over a finite set computes is usually shown by
induction on the set, which the installed provers cannot instantiate. `SetLemmas`
takes the induction from a fact that has no operator parameter: the finite subsets
of a set are well-founded by strict inclusion, so a non-empty set of
counterexamples has a smallest one (`SmallestSet`), and a smallest one leads to a
contradiction. This gives the least element of a finite set and the sums: they
exist, do not depend on the order, and change by an element when one is added
(`SumOfOneMore`). A sum is a function of the finite subsets of a table
(`SumFunction` of `Gateway`), as the code's `SUM(...)` is of its rows.

*API keys.* `KeysInv` orders the times: a verdict lives at most `VerdictTTL` longer,
and an "ok" of a key that is revoked ends by `LastAccepted`, because a
verification that may still put one started before the revocation and takes at
most `MaxVerify`.

*Runs.* `EvalInv` and `SimInv` say only that whoever works on a run has a row to
work on. With them every step of `EvalRuns` and `Simulations` is one of the steps
of `RunLifecycle`: nobody settles a run that is settled, and only who works on it.
The refinement is of the composition `WorkSpec`, in which the other parts stutter.

*Settled runs.* `SettledRunsAreWhole` is four statements with an invariant each.
`GradesInv` follows a trace from the step that graded it into the written scores:
whatever an executor claims is `Graded`, and grades are never taken back.
`VerdictInv` ties the end of a simulation on the spine to its row. `TalkInv`
says which turns are in the transcript when an executor stands at a step, by way of
the durable steps that a replay skips; without a lost write the places form an
interval, and the row counts them. `PlayInv` says of each playground run that what
its executor has recorded is stored or dropped, and that a run that is running has
an executor or was walked out of.

*Alerts.* `AlertsInv` says of a rule that its firings have distinct windows, that
the latest is the one its row names, and that each is announced, being announced
by a sweeper, or recorded as unannounced. Sweepers that
overlap meet at the compare-and-set of the rule's row, which lets one of them fire.

*Gateway.* `GatewayInv` balances the books: the row's spend is the sum of its
ledger, each call is in the ledger, in flight, or counted among those the code
loses, and a mirror, the edge's or the operator's copy, has spent no more than the
row and is disabled only if the row is. A charge adds one row to the ledger and its cost to the spend, in one batch
(`SumOfOneMore`).

*Promotions.* Scans are sets of places of the log: the rows kept by one with a limit
are those with fewer than that many before them, or after them. So what an audit
says of the log the gate read (`EvidenceStands`) stays true when rows are appended
(`EvidenceStays`), and so do the versions that are known (`VersionsStay`), although
the scan that finds them is cut at its end. `GateReadsTheNewest`: the score that is
quoted is the latest of those the scan kept, and a later one of the version was
left out only behind `MAX_SCORE_SCAN_ROWS` newer rows.

*Annotations.* `SpanIsSound` counts what a finished item leads to: its score, one
request that owes it, or a submission that was cut, exactly one of the three.
`EveryPlaceIsTaken` shows that a refill gives every span it adds a place of its own:
how many spans come before one is an injection into as many numbers as there are
spans, and so takes every value.

*Rows of observations.* `ObsInv` relates the row to `folded`, the events whose deltas
are in it: begun by the earliest of them (by time, then id), ended by the latest that
ends, with their highest status and an agent one of them gave (`SpanOf`).
`MergeKeeps` is the upsert: merging the delta of any event into the row of any set
gives the row of the set with the event, and no trigger refuses it, which is why the
order of arrival and repetition do not matter for these columns. A batch is a list of
deltas: `ChainExists` gives the recursion its rows, `UpsertFolds` follows them by least
counterexample, and `ProjectionLists` shows that the list, sorted by encoding, has
every event of the batch. For the last conjunct, `ObsCover`: every logged event is in
the row, excused, or still to be put back by one rebuild that has cleared; and a rebuild
that nobody disturbed has the events it scanned in the row or ahead of it.

*Lists.* `PagesInv` cuts the rows in two. A row that stood all along is shown or is
beyond the cursor, and a finished walk has nothing beyond it (`NothingMissed`); what
was shown is not beyond the cursor, so it is not shown again (`NothingTwice`). A read
moves the cursor to the last row of its page: `FetchedRows` says that the page is the
first of the rows beyond, in order, so those behind the new cursor are exactly the
rows of the page. Insertions, removals and moves each keep the cut, the moves of a
session or of a start in the one direction that the list allows for.

*Funnels, series and summaries.* A bucket of the index never excludes a row that the
exact times include (`BucketsAreMonotone`, `ScopeIsExact`). The walk of `evaluateTrace`
takes for each step the earliest span that matches it; `GreedyIsEnough` compares it
with any choice of spans that satisfies the steps, step by step, by the least step
at which the walk would be behind. Buckets and groups are the fibres of a function on
the rows, and the sizes of the fibres add up to the number of rows (`FibresAddUp`).

*OpenTelemetry exports.* What an export says of a span, a trace or a session depends
only on the spans related to it by a name they share, and their order (`SameKey`,
`SameSpanEvents`, `SameTraceEvents`, `SameSessionEvent`: a span that gave the session
its key is a relative, `KeyIsNamed`). So two exports that are composed alike have equal
events under equal ids, and the trigger has nothing to refuse. `ExportsInv` says that
the log is what the accepted exports said, with one event for an id.

*Masking.* `FirstHit` is `indexOf`, and `SearchIs` gives the recursion over the literals of
a token a table that is read place by place. `GlobSpells` compares the leftmost places
with any places that spell the name: none of the leftmost is behind, so the last literal
has room exactly when it has room at all. `WalkCuts` does the same for a pattern and a
path, from the end to the front, in both directions. A field that a rule names lies
under the first field that the walk stops at (`NamedIsReached`, a shortest prefix), which
is why skipping the subtree of a masked field leaves nothing in the clear. `MaskingInv`
says that what is shown was computed from the rules as they stand.

*Amounts of money.* `Pow` and `Num` are tables read from left to right (`Reads`): one
exists (`ReadsExist`, a chain of steps of `SetLemmas`), two agree as far as their digits do
(`ReadsAgree`, by least counterexample), and the recursive definition is one
(`DefinedReads`). From there `NumOfBoth` reads two numerals one after the other,
`FirstDifference` orders numerals of one length, and `CleanIsOnly` says that a number has
one numeral without leading zeros, which `DigitsAre` finds. Formatting in TypeScript and
in SQL both give the form `WrittenAs`, of which there is one for any units and scale
(`WrittenIsOnly`): so the two agree digit for digit, although one pads with zeros and the
other cuts the first digit off. Comparison goes by length, first difference and padded
fraction (`MagnitudesCompare`). `DecimalsInv`: the spend so far is an amount in that form
whose value is the sum of the costs, and the database has the same string or refused.

Not proved, only model-checked: liveness (out of the prover's reach: `DeliveryEnds`,
`DeletionCompletes`, `BatchesEnd`), and what queries and verify serve. The library's induction theorems
cannot be used, since they take an operator: where a definition recurs over data, the
proofs give its recursive function a table and reason by least counterexample.

## Divergences between code and documentation

Runs that TLC must find violated, each with the statement it refutes:

- `sync_reset_skips` violates `CursorMeansDelivered` (`internal/hostedsync/sync.go:192`). A cursor is keyed by the path of the database file and the only check is that it is not ahead of the log. After `reset --hard` of a repository-scoped data_dir the state file in the default data directory survives, the database is created again at the same path and, once it has caught up with the old cursor, inherits it: its first events are never uploaded and sync reports "up to date". internal/hostedsync/sync.go:65 says the store identity "prevents a cursor from one repository-scoped store being reused for a different store", and the error at internal/hostedsync/sync.go:193 says "refusing to guess after a local reset".
- `teams_reinstated_owner` violates `NoOwnerByInvite` (`platform/src/teams.ts:702`). Removing a member changes only his status, and the upsert of an accepted invite keeps the role of any row that says owner, active or removed: an owner who was removed and is invited back as a viewer is an owner again, and the answer and the audit trail say viewer. src/platform/src/teams.ts:60 says "Invites can never confer ownership; it is transferred by an existing owner." and src/platform/migrations/0004_teams_rbac.sql:193 "Ownership is never conferred by a bearer link."
- `local_stale_verdict` violates `VerdictIsCurrent` (`internal/commands/verify_cmd.go:122`). verify lists the events, runs its checks over them and only then takes the fingerprint it saves with the report, so an event captured in between is part of the fingerprint and not of the verdict: later runs serve the old verdict as cached, although "a cached report is reusable only while the fingerprint it was built from still matches the live event log" (internal/storage/verify_cache.go:16) and the fingerprint is to be taken "at the same point in the run the checks themselves were computed" (internal/storage/verify_cache.go:101).
- `otlp_resent_span` violates `SpansAreIdentical` (`platform/src/index.ts:640`). platform/src/index.ts:650 says of the events of an export: "Per event, the same span is byte-identical in every batch that carries it." The converter resolves the parent link of a span and the key of its session among the spans of the same export (platform/src/otlp.ts:317 and :196): a child exported alone has no parent_event_ids and the session of its trace id, and exported again with its parent has both, under the same event ids. The insert then meets events_reject_payload_conflict and the second export is refused as a whole.

Statements that the code does not keep either, defined beside the properties of
their modules but checked by no run. To see one fail, add it as an `INVARIANT`
to the run's configuration, with the part as the only member of `Parts` (for
`Handoffs`, `Sides = {"handoffs"}`) and the constants named here:

| Statement | Run, part | Constants | What happens |
|---|---|---|---|
| `Alerts.ReevaluationIsAbsorbed` | `hosted_work`, alerts | | A late span changes what a window measures; evaluated again it makes the same event id with another payload, and the trigger refuses the batch. |
| `Gateway.EverySpendIsRecorded` | `hosted_work`, gateway | | A request id used again finds the ledger row of the first call, and the second is charged to nobody. |
| `Gateway.RevocationSelfHeals` | `hosted_work`, gateway | `MaxGatewayTime = 4`, `RequestIds = {i1}` | The mirror of a later charge writes the copy it read before the revocation, with a new TTL. |
| `ApiKeys.NoVerdictOutlivesItsKey` | `hosted_work`, keys | | A verification that read the row before the revocation caches its verdict after the tombstone. |
| `Annotations.LiveViewIsCurrent` | `hosted_work`, annotations | | Notifications overtake one another, or are lost, and nothing refreshes the room. |
| `EvalRuns.ProgressIsHeld` | `hosted_work`, evals | | A verdict refused because of another run's counts as progress, though the spine holds the other. |
| `Attachments.AnswersDescribeTheRow` | `hosted_data`, attachments | `FileNames = {n1, n2}` | Two uploads of one content: the loser answers with its own file name. |
| `KeysetPages.CursorsLeadOn` | `hosted_data`, pages | | The two Enterprise lists go on after every full page. |
| `ObservationRows.RowsConverge` | `hosted_data`, observations | `ObsIds = {1, 2, 3}`, `ObsKinds = {"started"}`, `Agents = {1, 2}`, `Rebuilders = {x}` | A column that prefers a value to none keeps that of a start that another replaced, or not, by the order of arrival. |
| `Handoffs.EarlierClaimsAreReported` | `local_store` | | Two claims of one path both read before either is written. |
| `Handoffs.CompletedOnce` | `local_store` | | Two completions likewise. |
| `Handoffs.CleanIsVerified` | `local_store` | | A checkpoint of an unborn branch has a remote and no head, and nothing is compared. |
| `Handoffs.OwnSessionIsResumed` | `local_store` | `AgentSessions = {1, 2}`, of two agents in `MCProviderOf` | The session with the greatest key decides, and is another agent's. |

Smaller observations made while modelling, which no run states:

- The loser of a race whose quota preflight passed is answered 500 if the reason
  is gone when it looks (`platform/src/index.ts:1039`), although a retry would
  have been told 200, 409 or 429.
- A batch on record can be denied for lifetime quota when its receipt read fails
  over to the policy check (`platform/src/quota.ts:247`); a later retry gets its
  receipt.
- A sweep reads the endpoints before the events. An endpoint created in between
  is not in the fan-out, and the cursor passes the events of the page
  (`platform/src/webhooks.ts:687`), although "the sweep only ever advances past
  events it has already turned into delivery rows"
  (`platform/migrations/0007_webhooks.sql:97`).
- Two concurrent rebuilds of the index commit in any order; a query that found it
  fresh reads what an older rebuild put in its place
  (`internal/commands/index_cmd.go`, `rebuildObservations`).
- An invite revoked, or accepted, after `acceptInvite` read it still adds the
  member: `ACCEPT_INVITE_SQL` matches no row, so the trigger that forbids a second
  resolution does not fire, and the upsert follows in any case
  (`platform/src/teams.ts:964`).
- A role change or removal whose row changed since it was read matches nothing
  and is still audited and answered `changed: true` (`platform/src/teams.ts:1084`).
- An active member who accepts another invite while all seats are taken is told
  the seats are full: the seat trigger runs before the upsert finds the row.
- Two overlapping sweeps enqueue a message each for one row. The message that
  names the ignored row id is delivered as well (`platform/src/webhooks.ts:737`
  and `:835`): endpoints see the event twice, under two delivery ids.
- The grace period counts from the clock read when the pass started
  (`platform/src/account.ts:1834`), not from the end of its sweep as
  `docs/privacy.md:179` reads. It still covers every request that
  authenticated before the purge.
- `reset` empties the observation tables and leaves `observations_meta`, so that
  a query running before the rebuild takes the empty index for fresh
  (`internal/commands/reset_cmd.go:24`).
- Events appended one at a time are not checked for session ownership; they can
  make every later batch of that session fail.
- A checkpoint loaded early and saved late is the newest although it covers less
  than the one before it; `continue` takes it (`internal/launch/launch.go:280`).
- `accept_handoff` without an id takes the newest structured handoff, also when it
  was accepted already or a handoff without an id is newer
  (`internal/mcp/handlers.go`, `toolAcceptHandoff`); the remote of a checkpoint is
  a baseline of a drift and never compared.
- A local object store that dies between the body and its `.meta.json` makes every
  later `Put` of that content fail (`internal/object/object.go`).
- The sweep of alerts reads the rules that are due under a `LIMIT`: more due rules
  than that starve those with high ids. The spacing of firings is decided from the
  state that was read, so overlapping sweeps fire closer than it says.
- The read models of `platform/src/quality.ts` keep the oldest 50 000 rows, the
  scan of the gate the newest scores: past that they disagree.
- Compaction picks its workspaces by id under a cap for each run; busy ones at the
  front starve the rest. An export whose last write is not acknowledged is recorded
  as done although its object was dropped (`platform/src/artifacts.ts`).
- A reindex loses events that are ingested between its scan and its clearing until
  they are mentioned again (`platform/src/observations.ts`).
- `revoke all` of a dashboard's links is refused when a link was made in a later
  second than the clock it read; edits have no `If-Match`
  (`platform/src/dashboards.ts`).
- The list of workspaces of a user ignores the cursor it hands out
  (`platform/src/teams.ts`, `listWorkspaces`); SCIM lists page by offset, so that
  rows shift between pages.
- Analytics reads counts and costs in two statements, which ingest can tear.
- A spend wider than 18 digits makes the charge refuse every later call
  (`platform/src/gateway.ts:1086`).
- Only the newest 500 masking rules are read, and ingest does not apply them
  (`platform/ee/src/ee.ts`, `loadMaskingRules`). A request of a SCIM token that is
  rotated under way still commits; a rotation on a clock behind that of the live
  token fails with 500.
- In an OTLP export the child of a rejected span names a parent that is not there;
  a trace split over exports starts and completes several times; a change of tier
  between two exports of a span makes the second conflict.
- A hosted MCP tool that writes, repeated in a later millisecond, writes twice
  (`platform/src/mcp.ts:204`). The assistant cites ids from results that were cut
  before the model saw them.
- After a token rotation a scope starts at cursor 0. With another redaction
  policy the service refuses its first batch with 409, at every run.

## Hazards

| Where | Kind | What | Properties |
|---|---|---|---|
| `platform/src/teams.ts:1075` | interleaving | Two owners demote or remove each other, or leave together, after each counted two owners. | `TeamStands` |
| `platform/src/teams.ts:1067` | stale state | The role of the target and the head of the audit chain are read, then awaited and read once more on a retry: the target may have become an owner, the actor been demoted, or the chain been extended before the update. | `OwnersActOnOwners`, `ChangesAreAudited` |
| `platform/src/teams.ts:965` | resource bound | Invites are counted against the seats when they are made and redeemed later, several at once; the row of a former member who is invited again still holds what he was. | `TeamStands`, `NoOwnerByInvite` |
| `platform/src/account.ts:1838` | partial failure | The saga spans D1, R2, KV and WorkOS without a transaction: any call fails, is acknowledged late or dies with the Worker, the next pass starts from the row alone, and a request that authenticated before writes after the sweep. | `ErasureIsOrderly`, `DeletionCompletes` |
| `platform/src/account.ts:1262` | interleaving | Sign-out and deletion race with the same session. | `SignOutFirstWins` |
| `platform/src/deletion_ledger.ts:104` | crash recovery | D1 Time Travel brings back sessions and tenant rows from before a deletion that was accepted. | `NoResurrection` |
| `platform/src/index.ts:995` | interleaving | Two requests with one Idempotency-Key both read no receipt and both reach the final D1 batch, whose acknowledgement may be lost; the catch block must find the winner and not charge again. | `ImplementsLedger`, `AtomicAcceptance` |
| `platform/migrations/0003_account_foundation.sql:270` | numeric edge | The caps of batch, month and lifetime are compared by subtraction in the trigger: a batch that fits exactly, two that fit only one at a time, or a preflight that read the usage of a period that rolled over, must be decided by the trigger. | `CountersAreSound` |
| `platform/migrations/0022_workspace_prelock_device_fence.sql:10` | stale state | A device is revoked, or its workspace prelocked by account deletion, between authentication and commit. | `FencedWrites` |
| `internal/hostedsync/sync.go:249` | crash recovery | The process dies between building a batch, saving it and sending it, or a request times out and is processed later or twice; the next run must resend the same bytes under the same key. | `ReplaysAreExact`, `CursorMeansDelivered` |
| `internal/hostedsync/state.go:90` | interleaving | One state file holds every scope and each run rewrites the whole of it from the copy it loaded. | `NoLostUpdate` |
| `internal/hostedsync/sync.go:192` | stale state | The cursor of a scope outlives the event store it counts: a hard reset restarts sequences below it. | `CursorMeansDelivered` |
| `internal/hostedsync/sync.go:394` | protocol sequence | A durable pending batch that the strict resume check refuses would make every later run fail. | `NeverWedged` |
| `platform/src/webhooks.ts:735` | partial failure | The D1 batch stands and the queue sends that follow it fail one by one or die with the Worker. | `SweepsAreSound`, `DeliveryEnds` |
| `platform/src/webhooks.ts:929` | unreliable delivery | A consumer posts before it looks at the row, and the reconciler acts on rows it read earlier; redelivery posts again and must not overwrite a settled row. | `DeliveredWasAccepted`, `SettledForGood` |
| `platform/src/index.ts:811` | ordering | Batches arrive out of order and again; each event is folded into the row by one upsert that sees only the row. | `Converged` |
| `internal/storage/event_batch.go:166` | interleaving | Two hooks append batches at once: BEGIN IMMEDIATE is busy, the ownership of a session is merged inside the transaction, and nothing may ever appear below a sequence that somebody read. | `BatchesEnd`, `GrowsAtTheEnd` |
| `internal/commands/index_cmd.go:103` | stale state | The events and the watermark of a rebuild are two reads with hooks in between; the fingerprint must not vouch for events the rebuild has not seen. | `FreshIndexIsComplete` |
| `internal/commands/verify_cmd.go:122` | stale state | The report is computed from a list and saved under a fingerprint taken later. | `VerdictIsCurrent` |
| `platform/src/evals.ts:1203` | partial failure | The batch of a trace is refused because another run recorded one of its verdicts from an earlier state of the trace; the others must still be recorded. | `SettledRunsAreWhole` |
| `platform/src/simulations.ts:992` | crash recovery | A restarted instance repeats the turn it was in with another answer, races an executor that ran inline and may die with its request, and they may judge one run differently; the row is settled once and must not disagree with the events. | `SettledRunsAreWhole`, `RunsAreSettledOnce` |
| `platform/src/playground.ts:1981` | stale state | The gate reads the scores, and the label is appended later; scores that arrive late or in great number are not what it read. | `ScoresAreSound` |
| `platform/src/annotations.ts:850` | partial failure | An item is finalised before its score event is inserted; the Worker dies in between. | `ScoresAreSound` |
| `platform/src/alerts.ts:1360` | stale state | Overlapping evaluations both decide to fire from the rule state they read, and the dispatch that follows a committed firing may never happen. | `FiringsAreEvidence` |
| `platform/src/gateway.ts:571` | atomicity | The rate limit is a KV read followed by a write, and spend is mirrored to KV after it is charged: concurrent requests count as one and an older total may win, so what bounds the spend is the charge alone. | `SpendIsTheLedger` |
| `platform/src/apikeys.ts:526` | stale state | A verification that read the row before the revocation caches its verdict after the tombstone, and the tombstone itself may be lost. | `RevocationReachesTheEdge` |
| `platform/src/observations.ts:1377` | interleaving | A reindex clears rows and writes them again in several batches from a scan made before, while ingest folds new events and retention deletes. | `RowsAreFolds` |
| `platform/src/artifacts.ts:548` | crash recovery | Compaction writes the object, then the rows that name it, then drops the spine rows; it dies in between, overlaps with another run, or the write stands and is not acknowledged; an export likewise. | `ColdRowsAreWhole` |
| `platform/src/dashboards.ts:992` | interleaving | Two editors read the same latest version of a dashboard, or one retries after a lost answer. | `AnswersStand` |
| `platform/src/attachments.ts:624` | partial failure | The row of an attachment and its evidence are inserted in one batch after the object was stored; equal ids come from equal content uploaded at once. | `AnswersStand` |
| `platform/src/ingest.ts:603` | stale state | A cursor is a key of a row that may have moved, been joined by equals or left before the next page is read. | `ReadsAreExact` |
| `platform/src/hosted_capacity_ledger.ts:276` | crash recovery | The capacity ledger in R2 is written before the account in D1, by compare-and-set with retries; the insert fails, or a restore of D1 forgets accounts the ledger still counts. | `IssuancesAreBurned` |
| `platform/src/account.ts:792` | interleaving | A session rotates, signs out or creates a device while another request holds the token it read. | `SessionsAreSound` |
| `platform/ee/src/ee.ts:626` | interleaving | Two provisioning calls read one head of the audit chain and one set of seats while tokens rotate and administrators invite the same address. | `DirectoryIsOrderly` |
| `platform/ee/src/ee.ts:870` | numeric edge | The literal parts of a glob must not overlap in the text; ** spans any number of segments, and a dropped subtree must not hide a deeper rule. | `RulesAreExact` |
| `platform/src/gateway.ts:1086` | numeric edge | Money is added in TypeScript and again in SQL; zeros of a fraction and amounts wider than an integer of the database must come out alike or be refused. | `RulesAreExact` |
| `platform/src/otlp.ts:196` | unreliable delivery | An exporter retries, and composes the retry differently; events under the same id that differ by one byte abort the whole export. | `ExportsAreAbsorbed`, `SpansAreIdentical` |
| `platform/src/mcp.ts:204` | unreliable delivery | The answer of a writing tool is lost and the client calls again; the id of the event is derived from the content and the millisecond. | `ToolsAreFaithful` |
| `internal/launch/launch.go:351` | ordering | Events are read in the order of their clocks, not of their rows: an acceptance may come to stand before its handoff, and a later handoff before an acceptance. | `HandoffsAreSound` |
| `internal/mcp/handlers.go:1149` | stale state | Two agents call tools at once: what a call read, claims, completion, handoffs or the events of its checkpoint, is followed by rows of the other before its own. | `HandoffsAreSound` |

## What is not modelled

- Validation and canonicalisation of documents, redaction rules, cryptography,
  HTTP framing and rendering: data, which the models represent by small sets.
- KV's eventual consistency and D1's replication are the platform's; KV entries
  expire and are deleted, and a read may follow either.
- What models answer, what checks and judges conclude, and what a provider's
  transcript says: free in the models.
- The reducers of the local log (graph, traces, observations, detections, the
  evidence in a checkpoint, local prompts and scores): pure folds whose cost is
  in the shape of payloads. Nothing interleaves in them, and their fixtures test
  what a model of them would restate.
- The installation of hooks in other programs' settings, and the polling of the
  device flow, whose statements are single compare-and-set updates of one row.
- API keys are not fenced by the R2 ledger in the code; `AccountDeletion` models
  that, and relies on the purge and the expiry of verdicts.
- The capture spool (`OpenSpool`, `ReplaySpool`) is called by no command.
- Interleavings of features that share no table: the compositions move one part at
  a time (see [the modules](#the-modules)).
- Generated types, the landing page, the web application, the acceptance harness
  and deployment scripts.

## Plan

The core, the hosted control plane and the handoff of a workstream are done. What
would come next, in this order:

1. *Abstract specifications.* An at-least-once outbox, which `Webhooks` and `Alerts`
   implement up to what `Alerts` loses; a log with an order-free read model, for
   `WorkstreamProjection`, `ObservationRows` and the local read models.
2. *Local reducers.* Graph, traces and the evidence of a checkpoint as folds
   against order-free definitions; the coalescing of local observations.
3. *Devices.* The polling of the device flow beside `BrowserSessions`; the
   installation of hooks, one settings file after another.

## Running it

Inside this directory:

```
tlc -workers 2 -config ingest.cfg MCHostedIngest
tlapm HostedIngestProofs.tla
```

with the module and configuration of each run from the table above.
