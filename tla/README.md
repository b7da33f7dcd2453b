# A TLA+ model of rag-knowledge-ledger

rag-knowledge-ledger builds manifests of what a retrieval corpus should
contain (sources, chunks, embeddings), takes snapshots of what a vector
database does contain, and reconciles the two. Most of its difficulty is not
in the text processing. It is in what happens around it: jobs leased by
workers that die or run late, requests that cancel them, files written by
several builds at once, and a target database that changes while it is read.
This directory models those parts, checks them with TLC on small instances,
and proves the most important results with TLAPS for every instance.

Source paths below are relative to `src/src/ragledger/`.

## Inventory

| component | state | operations | talks to | hard behaviour | correct when |
|---|---|---|---|---|---|
| job queue (`server/jobs.py`) | `jobs` rows: status, lease, attempts, cancel flag | enqueue, lease, run, finish, retry, cancel | handlers, API requests, event streams, all through PostgreSQL | workers interleave and die, leases lapse, rows are read without a lock and written later | one holder and one outcome per job, everything settles |
| job handlers (`server/handlers.py`) | entity rows: builds, snapshots, reconciliations, manifests, source versions | scan, build, snapshot, reconcile, cancel finalizers | queue, pipeline, connectors, artifact store | side effects that are not in the transaction (files) | entity and job agree, every reference resolves |
| create and cancel endpoints (`server/api/*_routes.py`) | none of their own | create an entity and its job, `:cancel` | queue | decide on an entity row read before the job's lock is granted | a cancel is answered and never undoes a result |
| progress streams (`server/api/events_routes.py`) | last status, elapsed time per client | poll, emit, sleep, time out | queue (reads only) | any number of commits between two polls | `done` is true and stays true, a stream ends |
| artifact store (`core/artifacts.py`) | files named by digest, temporary files | put, get, verify, list | handlers, `:sign` | concurrent writers of one name, kills, failing writes | readers never meet a partial file |
| stage cache (`pipeline/cache.py`) | one JSON file per key, one temporary name per key | get, put | builds in several processes | shared temporary name, texts of different lengths under one key | a clash over one key spoils no other key, a kill spoils none |
| Qdrant connector (`connectors/qdrant.py`) | offset, counts | scroll passes, retries, count probes | a live collection | every page is a separate request | no point twice, no steady point missed |
| pgvector connector (`connectors/pgvector.py`) | transaction, cursor, counts | cursor passes in two isolation modes, keyset resume | a live table | statements with different snapshots | a strict pass is one snapshot |
| snapshot files (`connectors/ndjson.py`, `cli/commands/snapshot_cmd.py`) | NDJSON file, checkpoint sidecar | write, read and verify, resume | connectors, reconciliation | a process that dies while it writes, a token written by one run and read by another | a file that reads back is a finished pass, a resume skips nothing |
| build pipeline (`pipeline/`) | manifest under construction | discover, parse, chunk, embed | stage cache, artifact store, sandbox processes | files that change while read, timeouts, cached failures | same input, same manifest |
| reconciliation (`reconcile/`) | findings, sorted runs on disk | match, classify, judge | manifests, snapshots | duplicates, two code paths for small and big data | both paths agree with matching by key |
| chunkers (`pipeline/chunkers/`) | the open group of elements | hierarchical, hybrid, line based | build | carried tails, oversized elements, empty ones, section ends | every element is in a chunk, chunks have a bounded size |
| governance (`governance/`) | none | ACL, tenant and license assertions, timed PII scan | build | a budget that runs out while a pattern is running | nothing is resolved silently, no result reaches another text |
| manifests and signing (`core/manifest.py`, `core/signing.py`, `manifest_routes.py`) | manifest and signature rows | register, sign, verify | artifact store | concurrent builds and signers, a key file that is replaced | one row per hash, `signed` says what `:verify` finds |
| workspaces and tokens (`server/api/routes.py`, `deps.py`, `security.py`, `audit.py`) | users, workspaces, tokens, audit events | bootstrap, authenticate, create, revoke | every endpoint | a commit of its own before the handler's, check-then-insert | workspaces stay apart, a revocation is final, the log is true |
| vector targets (`routes.py`, `ssrf.py`, `security.py`, `settings.py`) | target rows with a sealed credential | create, update, delete | snapshots | overlapping PATCHes, a key that is added, cascading deletes | credentials open, references stand |
| policies (`reconcile_routes.py`) | policies and numbered revisions | create, revise | reconciliations | two edits that read the same latest revision | numbers without a gap, pinned revisions stay |
| reconciliation rows (`reconcile_routes.py`, `handlers.py`) | reconciliations, findings, evaluations, report artifacts | create, run, `:evaluate-policy`, remediation plan | manifests, snapshots, policies, artifact store | attempts that die, are cancelled or run twice | row, report, findings and evaluation are one |
| source collections (`pipeline_routes.py`, `handlers.py`) | collections, configs, assets, versions | create, scan | builds | two scans, a tree that is edited meanwhile | a quiet scan is the tree |

`PROJECT.json` lists the same components with what is modelled of each, and
under `hazards` the places in the code that a test would hardly reach.

## Structure

The order is by how much of the system rests on a component.

1. `JobQueue`, `JobContract`, `JobQueueProofs`: the queue.
2. `EventStream`, `EventStreamProofs`: clients over the queue.
3. `ArtifactStore`, `StageCache`, `ComponentProofs`: the shared files.
4. `VectorTarget`, `QdrantScan`, `PgvectorScan`, `SnapshotFile`, and `Snapshot`,
   which composes them, `SnapshotProofs`: a live target read into a file.
5. `BuildPipeline`, `BuildPipelineProofs`: discovery against a changing tree, parse, chunk and embed
   through the stage cache; `Chunker`, `ChunkerProofs`, `Governance`, `PiiScan`
   (proofs in `ComponentProofs`): what it calls for each source.
6. `Matching`, `Findings`, `Reconcile`, `ReconcileProofs`: the merge join on
   both paths, with kills and restarts, and what becomes of a matching up to the
   exit code.
7. `Requests`, and over it `Policies`, `Targets`, `Manifests`, `Sources` and
   `Reconciliations`; `Registry` composes them, `RegistryProofs`: the tables of
   the server under concurrent requests and jobs.

`MCJobQueue`, `MCBuildPipeline`, `MCReconcile`, `MCRegistry` and
`MCComponents` are the instances. `MCComponents` runs five parts that share no
state (store, cache, chunkers, governance, PII scan) as alternatives of one
behaviour.

Every invariant a run checks is also a theorem; what is left to TLC is listed at
the end of "Proofs".

## Modules

### JobQueue

The variables are **committed** column values, as PostgreSQL's READ COMMITTED
shows them to other sessions, with the row lock (`rowLock`) an open
transaction holds. This matters: `run_pending_jobs` flushes `RUNNING` and the
handler's writes in one transaction that ends with the terminal status, so
`RUNNING` is never visible to anyone else. It exists here only as a worker's
`pc` and its lock. A worker's session remembers the row it loaded (`seen`),
and `Put` writes a column only if its new value differs from the loaded one,
which is what the ORM's unit of work does.

| action | code |
|---|---|
| `scan_source_collection`, `create_build`, `create_snapshot`, `create_reconciliation` | the endpoints, each `enqueue_job` in the entity's transaction |
| `LoadEntityForCancel`, then `cancel_build`, `cancel_snapshot`, `cancel_reconciliation` | the `:cancel` endpoints: entity read first, then `SELECT ... FOR UPDATE` on the job, then `request_cancel` |
| `lease_next_job` | oldest leasable unlocked row, `SKIP LOCKED`, committed |
| `LoadLeased`, `FailUnhandled`, `StartHandler` | `run_pending_jobs` up to the handler call |
| `check_cancellation`, `HandlerCancelled`, `HandlerRaises`, `HandlerReturns` | the handler, as the outcomes it can have |
| `ReloadJob`, `RecordCancelled`, `fail_in_fresh_row` | what follows the rollback |
| `Crash`, `OrphanLeaseExpires`, `BusyLeaseExpires` | the environment |

A handler's work is abstracted to when it checks for cancellation and what it
leaves in the entity row: a build and a reconciliation check once, a snapshot
checks every 500 points (not at all for an empty target), a scan never.

`JobContract` is what a client may rely on: submitted jobs settle, once, and
the entity takes the matching state in the same instant. `Phase` maps queued,
leased and running to open. A job that ends `failed` leaves its entity
pending: no code ever assigns the entities' `FAILED` states.

### EventStream

Extends `JobQueue` with clients that poll a job row. `polls` counts sleeps,
as the code's `elapsed` does; `MaxPolls` stands for 600 s / 0.5 s. The branch
for a vanished job row is left out: nothing deletes job rows.

### ArtifactStore

`put` in its file-system steps: the existence test, `mkstemp`, the write, the
rename, and the `except BaseException` clean-up. A writer puts artifacts and
then commits a row that names them, or rolls back. Temporary files are
private (`mkstemp`), final names are shared.

### StageCache

Names and inodes are separate, because the interesting case is a file that is
renamed while another build holds it open: `open(..., "w")` truncates the
inode a name points to, `replace` moves the name. When a build's file was
truncated by another one after it began to write, both write into one inode,
each from offset 0. A file is therefore the length of the text at its start
and its own length, and it can be read if they are equal. A key does not
determine its text: `build.py:332` caches a parse outcome with its measured
`duration_seconds`, an embedding is whatever the provider answers, and only a
document's chunks always have the same JSON. `Lengths` gives each key the
lengths of its texts, so the tail of a longer one stays behind a shorter one
that is flushed last. What holds is `TornEntriesHaveACause` (an entry is torn
only at a key two builds were putting at once) and, for keys in `SameText`
only, that a torn entry is being rewritten, and `EntriesHeal`. A killed writer
leaves nothing or some bytes of its text.

### VectorTarget, QdrantScan, PgvectorScan

`VectorTarget` is the external database: a set of points that its owner
changes at any time, and three history variables for the current pass. Ids
are numbers in scroll order. `QdrantScan` reads page by page with an inclusive
offset (Qdrant's scroll returns points from the offset's id on), a start
count from the cached schema and an end count probe, each request retried up
to `max_retries` times. `PgvectorScan` counts, declares a cursor and fetches
it: under REPEATABLE READ all statements see the snapshot of the first, in
the other mode each statement has its own and the cursor keeps that of its
declaration. `resume` is `ragledger snapshot --resume`: the last point's id,
from the sidecar, becomes the checkpoint of a new pass.

### SnapshotFile, Snapshot

A file is the lines it has. `Snapshot` streams a pass of either connector into
one, by the command (output in place, sidecar afterwards, `--resume`) or by a
worker (temporary file, artifact store, row). `connect` is where the
credential must be there: `_connector_for_target` hands it over in an
environment variable that is unset once the connector is built, and only the
Qdrant connector has read it by then, so a worker's pgvector capture ends
there. `Die` leaves what had reached the disk, `Damage` cuts a
finished file, or removes or edits a point line of it (never the trailer: no
hash covers the completeness it states, so an edited one reads back), `Again` runs the command or the job once more.

### Chunker

An element is a number of tokens under a heading path, so a document is a
sequence of choices and the chunkers are compared with what they must keep:
`ChunksCoverTheDocument` (every element that has text is in a chunk, in
order) and `ChunksFit` (the size that really holds: `max_tokens` for
hierarchical chunks, `overlap_tokens` more for hybrid ones). `line_based`
takes every element a window touches, so its chunks have no such bound.

### Governance, PiiScan

`Governance` resolves ACL entries, tenant and license for one source and runs
the SPDX validator token by token against a grammar. `PiiScan` is `scan_text`
on the main thread (interval timer) and elsewhere (a helper thread that is
abandoned when it is late and finishes whenever it does).

### Requests, Policies, Targets, Manifests, Sources, Reconciliations, Registry

The tables hold committed rows. A request is: `authenticate` (reads the
token), `require_scope` (commits `last_used_at` on its own, then checks
workspace and scope), a read step, and a commit step with the audit event in
the same transaction. Between the two anything may be committed, so unique and
foreign-key constraints are the commit step's guards; a failure rolls back and
is a 500. `Merge` is the ORM's UPDATE of changed columns only.

| module | request actions | job and environment actions |
|---|---|---|
| `Requests` | `bootstrap`, `update_workspace`, `create_api_token`, `revoke_api_token` | `TokenExpires` |
| `Policies` | `create_policy`, `create_policy_revision` | |
| `Targets` | `create_target`, `update_target`, `delete_target`, `create_snapshot` | `SnapshotStored`, `AddEncryptionKey` |
| `Manifests` | `sign_manifest_endpoint`, `verify_manifest_endpoint` | `SelectExisting`, `run_build_job`, `RotateKey` |
| `Sources` | `create_source_collection`, `create_pipeline_config`, `scan_source_collection` | `Discover`, `LoadAssets`, `CheckVersion`, `run_scan_job`, `EditTree` |
| `Reconciliations` | `create_reconciliation`, `evaluate_policy_endpoint`, `get_remediation_plan` | `StartAttempt`, `PutReport`, `run_reconcile_job`, `AbandonAttempt` |
| `Registry` | `create_build` | |

A source version's id comes from namespace, URI and content, and
`CheckVersion` looks it up by that id alone, as the handler does. Namespaces
are unique in a workspace only, so the instance has two collections of one
namespace in two workspaces, and the scan of one finds the rows of the other.
`versions` is therefore one table of rows with a workspace, unlike the assets,
which the handler loads by collection.

Each request with a read and a commit has a second action for the read
(`UpdateTargetRead`, ...). Hosts are the kinds of addresses they resolve to,
documents stand for their hash, an artifact reference for the envelope it
names, a ciphertext for its credential and key id. The encryption keys only
grow: the code keeps old ones readable, removing one is the operator's act.
The reconciliation engine is a function here (`Found`, `Verdict`); `Reconcile`
models it.

### BuildPipeline

Builds of one tree, one after the other, over one cache. The tree's owner
edits it between any two steps of a build, and a build may be killed.

| action | code |
|---|---|
| `build_pipeline`, `walk_files` | the call, the list of names |
| `stat_before`, `hash_streaming`, `hash_again`, `stat_raises`, `changed_during_read` | `_build_source_record`: stat, hash, stat, one retry |
| `read_bytes`, `parse_source` | `_process_source`: the file is read a second time, the cache key is the hash of the first time |
| `process_chunks`, `skip_blocked`, `embed_chunk`, `embed_again`, `embed_fails`, `embed_raises` | `_process_chunks`, `_embed_chunk`, `_embed_with_retry` |
| `build_manifest` | tombstones, build status, the envelope |

A content stands for a file's bytes and their hash, a text for a chunk and its
hash; hashes are taken as injective. The cache is a map here: `StageCache`
models the files it is made of. An edit always changes size or modification
time; one that preserves both is invisible to the code and left out. The two
history variables `calm` and `suspect` only serve the properties: a build is
calm if nothing changed and no parser was stopped while it ran, and a hash is
suspect once its cache entry may be wrong. `IsReference` recomputes the
manifest from the tree alone.

### Matching, Findings, Reconcile

`Matching` and `Findings` are pure: expected points, keys, sort order;
findings, ratios, policy verdict, remediation plan, exit code. `Reconcile` is
one reconciliation. Both paths share the actions of the join loop, as both
call `stream_merge_join`: on the in-memory path a writer is a list whose only
"run" is the sorted list, on the big path it spills a sorted run file whenever
its buffer is full, and reading merges the runs as `heapq.merge` does.

| action | code |
|---|---|
| `begin` | `_reconcile_impl`: preflight, then the choice of the path |
| `spill` | `reconcile_big_data`: expected points, then observed ones, into run files |
| `start_round`, `end_round` | `finish`, `_merge_runs`, unlinking; the same rounds in `match_all_levels` |
| `leftover_expected`, `leftover_observed`, `open_group`, `grow_group`, `close_group`, `surplus` | `stream_merge_join`, one branch each |
| `report` | policy, remediation, exit code |
| `Crash`, `Restart` | the environment |

A work directory is either given (`--work-dir`, the same for every attempt) or
made afresh for each attempt; a run file's name starts with its attempt. The
confidence of a PII result is kept as two comparisons (above what the policy
allows, above 0.9), a license method as its rank, a ratio as a pair of
numbers. Levels 4 and 5 only suggest candidates that nothing reads.

## Runs

| run | instance | shows |
|---|---|---|
| `queue` | 2 jobs (snapshot, reconciliation), 2 workers, 1 crash, no lapsed lease; 93,844 states | one holder per job, job and entity agree at every commit, `JobContract` is implemented with its liveness, every cancel is answered |
| `overrun` | 1 job of any type, 2 workers, 1 crash, 2 lapsed leases; 169,690 states | handlers never overlap, a flagged build or reconciliation never completes, attempts are accounted for, every job settles for good |
| `event_stream` | 1 job, 2 workers, 1 crash, 1 client, 3 polls; 23,485 states | `done` stays true, every stream ends |
| `build` | 2 files, 3 contents, 2 edits, 2 builds; 283,873 states | a manifest is closed and accounts for every chunk, an undisturbed build over unsuspicious entries equals one without a cache, a wrong entry has one of two causes, every build ends |
| `reconcile` | 1,073 inputs, each on either path and with either kind of work directory (4,292 initial states), with up to 2 bindings and 3 points, chunks of 2, 2 points in memory, 1 kill; 343,207 states | both paths make the reference matching, in the same order; work directories are swept; observed duplicates of an expected id are reported; exit code 0 under a strict policy means agreement; only left over points under ids nobody expects are proposed for deletion; a restarted run ends |
| `components` | 2 writers and 2 artifacts with 2 kills; 2 builds over 2 keys, texts of 2 lengths under the first, 2 kills; documents of 4 elements for 3 chunkers; expressions of 6 tokens; 2 texts and 2 recognizers; 598,250 states | readers and rows meet whole artifacts only; a build fails on the cache, and an entry is torn, only at a key two were putting at once, and where a value has one text a torn entry heals; chunks cover the document and fit; assertions are sound; findings belong to their text |
| `snapshot` | 3 ids, pages of 2, 3 changes, 1 retry, 2 captures, 1 damage; both connectors, command and worker; 4,138,868 states | no point twice, no steady point missed, a quiet pass is exact, a strict pass is one snapshot; a file that reads back is the pass that finished; a resume skips nothing |
| `registry` | up to 3 requests in 9 scenes, 2 workspaces, 2 attempts of a reconciliation, 2 keys of each kind, 2 collections of one namespace that are scanned, 2 edits of their trees; 580,611 states | references stand and lead to whole records, every commit, deletes included, keeps to its token's workspace and no row refers to another's, the audit log is true, manifests and their signatures stand, a quiet scan is exact, a revocation is final |

A scene is a set of operations that work on the same rows: tokens, policies
and reconciliations, targets and snapshots, builds and signatures, collections.
Requests of different scenes touch no row in common, so checking them together
would only multiply states.

Four runs show a disagreement between the code and what a comment or a help
text says of it (`findings` in `PROJECT.json` quote both):

- `credential`: a server snapshot of a pgvector target cannot succeed. The
  connector resolves its connection string on first use, after the variable is
  unset, although `server/handlers.py:314-317` says both connectors capture
  the value when they are built.
- `lease_lapse`: two workers can hold one job when a lease lapses under a live
  one. Leases are never renewed. The row lock still keeps handlers apart.
- `stale_cache`: the cache decides a build's output: a sandbox failure is
  cached as the file's parse, and so is the parse of bytes that replaced the
  hashed ones before the second read.
- `pgvector_resume`: the sidecar of a table with a one-column primary key is
  rejected by the next run.

Further observations that the models contain without a run of their own. Two
builds that miss the same cache key at once may fail on the cache, since one
renames the temporary file the other is writing (`OnlyClashesFail` is what
holds). If the shorter of two parse texts is flushed last (they differ in
length because `build.py:332` caches `duration_seconds`), the published entry
has a tail that `json.loads` rejects: with every descriptor closed and nobody
killed, each later build of that input raises at `cache.get`, and nothing ever
rewrites the entry (`cache.py:70-82`). The docstring at `cache.py:53-55` says
that cache presence "never changes a build's output, only how much work
producing it takes". This is why `EntriesHeal` and the second half of
`TornEntriesHaveACause` are about `SameText` keys only. COMPLETE, for a Qdrant pass, means that the two count probes agree
with each other; neither is compared with the number of points yielded, as
the comment at `connectors/base.py:269` has it. `_process_source` opens the
NFC form of a path although `_walk_files` says that file access must use the
original form (names are single values in the model, so no run shows it).
`attempt_count` is compared with `MAX_ATTEMPTS` only in `_fail_in_fresh_row`,
which a worker that dies never reaches, so a handler that kills its worker is
leased again after every expiry; `AttemptsAccountedFor` states the bound that
does hold, the budget plus one attempt per crash or lapsed lease. And a
resumed Qdrant pass reads its checkpoint's point again, because the sidecar
stores the last point's id and the scroll offset includes the id it names;
this is why `SteadyPointsYielded` says `p >= checkpoint`. A `:cancel` of a
running job waits for the handler's transaction, which holds the row's lock,
although `server/api/pipeline_routes.py:544-547` has the flag set while the
job runs (`EveryCancelAnswered` is what holds).

Of reconciliation: the command's docstring (`cli/commands/reconcile_cmd.py`,
"a target schema no expected embedding dimension can possibly match") promises
exit code 2 for a failed preflight, while `_short_circuit_result` is an
ordinary result, so the command exits with 0 without a policy and with 1 or 0
under one. A duplicated point id is reported only if some binding expects it,
whereas `connectors/ndjson.py:285-291` leaves all duplicate detection to
reconciliation; and a duplicate finding has no locator, so the deletion it
leads to lists no candidate. When an id is duplicated, a surplus point may be
proposed for deletion under the id of a matched one, hence the condition
`DistinctIds` in `DeletesOnlyOrphans`. A pair matched at level 2 or 3 under
another point id yields no finding of its own. A severity rule uses its
threshold both as the least rank and as the number of findings
(`_evaluate_rule`). A manifest that still lists a deleted source as tombstone
makes its leftover points `STALE_CHUNKING`, not `ORPHAN_IN_INDEX`. A killed
attempt in a fresh temporary directory leaves its run files for good. And the
memory bound in the docstring of `reconcile_big_data` does not count the lists
of expected, matched, missing and orphan points.

Of the server's tables: two bootstraps that overlap with different addresses
both succeed, although `routes.py:107` answers a later one with "bootstrap can
only run once". Going back to an earlier policy document, or giving two
policies the same one, meets the unique `(workspace, config_hash)` and is a
500; so are a second signature by the same key, and deleting a target whose
snapshot a reconciliation uses. Two PATCHes of a target may leave the endpoint
of one with the decision of the other (`DecisionDescribesEndpoint` is stated
and does not hold), the ciphertext of one with the key id column of the other
(harmless: the blob names its key), and one increment of `credential_version`
too few. Two `:sign` requests around a key change leave only the later
signature in the artifact (`SignaturesAreAttached` does not hold; every
attached one is mirrored, which does). `VALID_UNTRUSTED` covers signatures by
unknown keys, which nobody checked. Two requests that delete one target, or
revoke one token, both leave an event. An attempt that lost its lease before
it began may add a second evaluation to a reconciliation without findings.

Of scans: where two workspaces have a collection with the same namespace and
the same files, the one that is scanned second gets active assets and no
version of its own, because `handlers.py:177-179` looks a version up by
`portable_id` in all workspaces, while the table is unique by workspace and
portable id (`db/models/sources.py:70`). The docstring of `run_scan_job` has "a
changed file produces a new immutable `SourceVersion` under the same asset".
`QuietScanIsExact` accordingly promises a version with the file's id in the
table, whoever's it is.

Of a source: folding ACL entries twice makes `case_normalize` raise for every
valid entry, since the folded prefix does not validate; the SPDX tokenizer
drops characters it does not match, so `MIT!` is accepted; license sidecars
are documented and never read by a build; a recognizer that ran out of time
leaves no trace in the assertion. `line_based` chunks may exceed `max_tokens`,
and `target_tokens` and `min_tokens` are parsed and unused. Of a snapshot:
`finished_at` is taken before the pass, replaying a best-effort file reports
strict consistency, and a failed command leaves the old sidecar beside a new
file (`ResumeSkipsNothing` still holds). The sandbox kills its direct child
only, not "the child process tree".

### Bounds

Two workers show every race over one row, and since a worker that lost its
lease keeps running, two lapses let each of them hold a job the other has
taken. Two jobs are needed for ordering, for `SKIP LOCKED` and for a
reconciliation with an input made by a job (`SeededArtifacts` says which
inputs exist before the first request). `MAX_ATTEMPTS = 2` has one retry,
which is the boundary the code tests. Crashes and lapses are counted because
each costs an attempt, and the budget property relates the counts. For files,
two concurrent writers are the smallest clash, two kills let both leave
something behind, two lengths are a longer text under a shorter one, and a
second key, with one text, lets a clash over one key show on another.
For captures, three ids with pages of two give full, partial and empty last
pages, three changes allow an insert, a delete and putting a point back, and a
second capture is what a resume or a retry needs. Three requests let a third
one come between the read and the commit of a second that overtakes a first;
two of each kind of key are before and after a change; two edits of the trees
are one before and one after a scan began, or a change and its revert; two attempts are one
that ends badly, or well, and one that follows. Documents of four elements
have a section end, an element at the limit, an oversized one and one without
a token; six tokens are the shortest nested expression with an operator. For
builds, two edits let a file change twice while it is hashed, which is what
raises, and two builds let one trip over what the other cached. For
reconciliations, two bindings and three points with two ids per level give
groups with a surplus on either side, a second run file for the observed
points, ties between runs and leftovers at every level; single pairs vary the
compared attributes under four policies.

### Deadlock and fairness

`CHECK_DEADLOCK FALSE` wherever the system may come to rest: a queue with no
more requests, a pass that has ended. Only `ArtifactStore` never stops.

Fairness is weak and is given to: each worker's `run_pending_jobs` (the
`server worker` command polls for ever, `cli/commands/server_cmd.py`), the
clock for leases without a live worker, a `:cancel` request that can go on,
the event loop for streams, and a running build (both in `StageCache` and in
`BuildPipeline`, where it may still be killed), a running reconciliation and
the restart of a killed one (a job is leased again, a command repeated).
Clients are never forced to act, handlers never to fail, workers never to die. `EventStream` does not even
assume workers: a stream ends without one.

## Proofs

`JobQueueProofs`, for any number of jobs, workers, attempts and crashes:

- `TypeCorrect`, from `TypeInv` (types, a worker is busy exactly while it
  holds a job, a held job exists).
- `HandlersAreSerialized`, from `HandlerOwnsLock`: whoever is in a handler has
  the row's lock. No assumption on leases.
- `FlaggedNeverCompletes`, from `FlagInv`: behind its check a build or a
  reconciliation works on an unflagged job, because the flag needs the lock.
- With `Timely` (`MaxOverruns = 0`: no lease lapses under a live worker):
  `OneHolder`, from `LeaseInv` (a held job is leased with a live lease, and
  the row a session remembers is the row in the table); `EntityAgrees`,
  `OutcomeIsFinal` and `Refinement` (`Spec => Contract!SafeSpec`), all from
  `VisibleStep`, which says what one step may do to the columns a client sees;
  `AttemptsBounded`.

The assumption `Timely` is needed: `lease_lapse` shows that `AtMostOneHolder`
fails without it.

`EventStreamProofs`: `QueueUnderStreams` (a behaviour of the composition is a
behaviour of the queue), hence the queue's theorems apply; `StreamTypeCorrect`;
`DoneStaysTrue` under `Timely`, from `StreamInv` (an open stream follows an
entity's job, and what it reported is the row's terminal status) and
`VisibleStep`.

`ChunkerProofs`, for every document, heading, length and size configuration:
`StructuralChunksFit`, that `ChunksFit` always holds. It is not inductive by
itself: `FitInv` adds the types, that a chunker runs only on a configuration
`parse_size_config` accepted (`max_tokens` positive, `overlap_tokens` smaller),
and that an empty group of a structural chunker counts no tokens; `ChunksFit`
itself bounds the open group as well as the chunks. `TailFits` (a carried tail has at
most `overlap_tokens` tokens), `PiecesFit` (so has a piece at most
`max_tokens`) and `YieldedFits` carry the argument; the first two are about
what `CHOOSE` and integer division return.

`DocumentIsCovered` in the same module: `ChunksCoverTheDocument` always holds,
for all three chunkers. `CoverInv` adds to `FitInv` that elements follow each
other without a gap (`DocInv`), that the open group is the end of the document
(`OpenInv`), that the chunks so far are lists of consecutive elements in which
neighbours meet (`ListInv`), and where the next chunk will join them: the open
group of a structural chunker (`JoinInv`), the window at `index` of
`line_based` (`LineInv`, by which the last window began `max_tokens -
overlap_tokens` tokens before `index`, inside the document). The property alone
speaks of chunks only, so it cannot say why a chunk that is not there yet will
meet the last one. The lemmas about the operators carry most of it: what a run of
elements spans (`RunSpan`), that a tail is the end of a run (`TailIsRun`), that
the pieces of an oversized element cover it and each brings new text
(`CutUp`, `RoundsUp`), and that a window takes exactly the elements from the one
that holds its first token to the one that holds its last (`TokenIsHeld`,
`WindowIsRun`). TLC checks `CoverInv`, its types apart, on every reachable state of
the chunker part of `components`.

`SnapshotProofs`, for every target, page size, isolation mode and number of
writes, retries, crashes and resumes, all from `CaptureInv`, with one part for
what a step can disturb: the target (`TargetInv`), what a pass has delivered so
far (`PassInv`, with `QdrantInv` and `PgvectorInv` for each connector's cursor
and counts), the file (`FileInv`), the artifact and its row (`RowInv`) and the
chain of resumed captures (`ChainInv`). From it follow
`PassDeliversSteadyPoints`, `QuietPassIsACopy`, `StrictPassIsOneState`,
`FileIsThePass` and `ResumeIsSafe`. A page is the ids of least rank
(`PageComesFirst`), an ascending list is determined by its members
(`AscendingIsUnique`), and appending a page that lies behind the cursor keeps
it ascending (`JoinedLists`).

`BuildPipelineProofs`, for every tree, parser, provider and number of edits and
builds, from `BuildInv`: where a build is (`PlaceInv`), what its stat calls told
(`StatInv`), what is cached and why (`CacheInv`), which records the draft has
(`DraftInv`), what became of each chunk (`ChunkInv`), and that an undisturbed
build has so far done what one without a cache does (`CalmInv`). It gives
`BuildTypes`, `CacheEntriesHaveACause`, `WarmBuildsAreColdBuilds`,
`EveryChunkIsAccountedFor` and `ManifestsAreClosed`. No part is
strong enough alone: a warm build is right because wrong entries have
a cause, and those have one because a build remembers what it hashed.

`ComponentProofs`, the parts that share no state:

- the artifact store, for any number of writers and artifacts, from `StoreInv`:
  a file about to be renamed is whole, and whatever a writer has put, or a row
  names, is whole in the store. `Soundness` is `StoreIsSound` of the
  `components` run (whole for readers, whole for rows, litter bounded by
  kills), put together from `ReadersSeeWholeArtifacts`, `RowsResolve` and
  `LitterBounded`; `Immutability` is the action property;
- the stage cache, for any finite number of builds: `SharedCacheSurvives`, from
  `CacheDirInv` (no file has two names; a descriptor is open while its builder
  writes, on a file only its own key has a name for; a key nobody clashed over
  has a whole entry and at most one build inside `put`; where a value has one
  text, every file of its key that nobody has open holds just that text,
  unless a build was killed). The theorem leaves keys with several texts to
  the first half of `TornEntriesHaveACause`, since no more is true of them.
  There is always a free inode because each build holds at most one;
- the PII scan, for any number of texts, recognizers and alarms:
  `ScansAreWhole`;
- governance, for any ACL entries, stated licenses and token lists:
  `AssertionsHold`, that `AssertionsAreSound` always holds. Its license part is
  `ConflictsAreReported`; the ACL part is `AclInv`: what is asserted validates;
  the SPDX part is that the validator
  accepts exactly the grammar. The validator has a flag and a depth where the grammar has nested
  parts, so `SpdxInv` says that what it has read is a `Run`: a depth that never
  goes below zero and at every place the kind of token the flag asks for.
  `GrammarIsComplete` shows that every expression of the grammar is such a run
  that ends at depth zero (`Complete`), `CompleteIsGrammar` the converse, by
  splitting a run where it first comes back to depth zero (`FirstPart`). Both are
  by the shortest counterexample, and that the recursive function `Grammar`
  satisfies its own equation is proved first (`GrammarIsDefined`).

`ReconcileProofs`, for every manifest, snapshot and policy, every chunk size
and memory bound, any number of kills and either path, from
`ReconcileInv`. Its parts: types (`TypeInv`); which containers are empty where
(`PlaceInv`); conservation (`ConservationInv`: of any set of items, the input
has as many as pairs, open group, unread runs and leftovers together, so
nothing is lost, doubled or made by spilling, merging or restarting); runs are
sorted for the round that reads them (`OrderInv`); the open group has one key,
the least that is still to be read (`GroupInv`); what is left over shares no
key with anything the other side has open (`ApartInv`); a point id seen twice
is in `duplicates` once its round is over (`DuplicateInv`); the report is made
of the outcome and the verdict of the report (`ResultInv`); files belong to
attempts (`DiskInv`). Conservation alone does not say who is paired with whom,
and `ApartInv` needs the order of the runs: a key that is smaller than all
heads cannot come up later. Two facts are proved on
the way: sorting keeps every item and puts them in order (`SortedFacts`, by rank
in a total order), and the least head of sorted runs is the least of all they
hold (`LeastHead`, which is `heapq.merge`). TLC checks the invariant on
every state of the `reconcile` instance. From it follow `MatchingHolds`,
`DuplicatesAreReported`, `StrictPassIsAgreement`, `OnlyOrphansDeleted`, and of
`PathsAgree` the two conjuncts about memory and disk, `RunFilesHoldAlways` and
`LitterIsOfKilledAttempts`.

`PathsAgreeAlways` says all of `PathsAgree`: either path ends with the matching
of `Reference`, and with the same leftovers in the same order. `ReconcileInv`
counts items and does not say which comes next, so it needs a second invariant,
`MergeInv`, over positions: what a round was given is, cut into chunks, what its
runs were written from (`Chunked`); what is read so far is a prefix of the
sorted list; the pairs and leftovers of a round are those of the prefix. The
argument has four parts. Sorting is stable, so a sorted chunk is a part of the
sorted list (`SortedItems`), and heads of sorted runs, ties going to the earlier
run, come out as that list (`NextIsHead`). No item that was read has its key in
common with one that is unread, except in the open group (`Split`). Within a key
the first goes with the first (`GroupPartners`). What a round leaves over, in its
order, is the input of the next level (`MergeEndRound`). `Reference` works on
the positions of the two lists and not on their records: two identical rows
are two items, and one of them may be matched while the other is left over.

`RegistryProofs`, for any number of requests, tokens, workspaces, keys, jobs
and attempts. The server's sessions read and commit in separate steps, so each
part of `RegistryInv` (`RequestInv`, `TokenInv`, `PolicyInv`, `TargetInv`,
`SnapshotInv`, `BuildInv`, `ManifestInv`, `ReconciliationInv`, `WorkInv`, `OwnInv`) says,
besides what holds of the rows, what is still true of the rows a request has
loaded when it comes to commit. A handler writes its own tables and its own
request (`HandlerStep`), and what it does is foreign to every other part
(`Foreign`), so each part is shown stable against its own handlers and framed
against all others. TLC checks the invariant on every state of the `registry`
run. From it follow `ReferencesHold`, `WorkspacesStayApart` and `ManifestsHold`;
`RevocationStands` needs `RequestInv` and `TokenInv` only.
`WorkspacesAreApart` is an action property: a deleted row leaves nothing an
invariant could look at. `OwnInv` says that what a request has read and is
about to insert, and what that refers to, is of the request's workspace; with
it each commit is shown to touch its caller's rows alone (`StepsAreApart`, one
lemma per handler), and `RowsStayApart` shows the part about references, which
is a property of states. `QuietScansAreExact`
rests on `ScanInv` (what an undisturbed scan has read is what is there; a
version it found stays, since version rows are never deleted, while one it
missed may meanwhile have come with another workspace's scan, which is no
conflict), and
`AuditIsTrue` on `AuditInv`, one part per table: each row a request wrote has
its event and each event its row, where a request that is refused, rolled back
or finds nothing to do adds neither.

Assumptions on constants are the named `ASSUME`s of the modules, and no more.
`FreshIds` (a new row's id is none of the existing ones: ids are UUIDs),
`ParseAssumption` (a parser returns a document or fails),
`ScanSizeAssumption` (something to scan, and something to scan with) and
`CacheSizesAssumption` (finitely many builds) are there for the proofs, and so
is `IdsAssumption` (ids are compared as numbers, and a point id is never
missing: normalization makes it a string that is not empty).

Where an argument is an induction over numbers, it is put as the least
counterexample: `LeastElement` gives one, and the step below it contradicts it.

Only model-checked: all liveness (`EveryJobSettles`, `EveryCancelAnswered`,
`EveryStreamEnds`, `EntriesHeal`, `EveryBuildEnds`, `EveryReconciliationEnds`,
the fairness part of the contract), since fairness is out of the prover's
reach.

## Not modelled

Parsing, PII recognizers, hashing and canonical JSON are conversions of one
value and have no interleavings. Reports, the command line around the
components, the web UI, migrations and schema classes are I/O or declarations;
the manifest and key commands work on files of one user. Of a build, ignore
rules and symbolic links are left out; of a chunk, the contextualization
template and the repeated table header, which is added on top of the size
counted; of a connector, how a point is normalized and hashed; of a
reconciliation, loading and validating a policy document, masking and evidence
texts. Endpoints that only list rows are left out, `:verify`,
`:evaluate-policy` and the remediation plan are in because they read
artifacts. A power failure that loses an unsynced rename is outside the code's
own steps; it is listed as a hazard.
