# Super Creator OS: verification project

TLA+ models of the parts of Super Creator OS that keep state which several
processes, crashes and late answers can damage, checked with TLC on small
instances and, where it matters most, proved with TLAPS for every instance.

The repository turns raw footage into short videos and learns from the results.
Its logic of its own (apart from media engines, prompts, kits and evidence files)
is in four places: `scos/control_center/` (the operator's control plane around the
external renderer HVS), `integrations/learning/` (the learning memory),
`packages/` with `apps/desktop/` (the video editor), and `scos/pipeline`,
`scos/commercial`, `scos/knowledge`, `scos/analytics` (sequential batch stages).

- [Inventory](#inventory)
- [Plan](#plan)
- [RenderAttempts](#renderattempts), [SingleUseCall](#singleusecall), [AppendLog](#appendlog),
  [MemoryStore](#memorystore), [LearningLoop](#learningloop), [EventLedger](#eventledger),
  [Reconciliation](#reconciliation), [ReconciledResult](#reconciledresult), [Release](#release),
  [ReleaseDecision](#releasedecision), [Materialization](#materialization)
- [Runs, bounds and what they show](#runs-bounds-and-what-they-show)
- [Fairness](#fairness)
- [Proofs](#proofs)
- [Disagreements found](#disagreements-found)
- [What is not modelled](#what-is-not-modelled)

## Inventory

| Component | State | Operations | Interacts with | Hard behaviours | Correct when |
|---|---|---|---|---|---|
| **Controlled render attempts** `scos/control_center/hvs_render_{attempt_store,execution_service,plan_models,cli}.py` | one JSON store: authorizations, capabilities, attempts; the running `execute` processes; what HVS was asked | authorize, execute (replay check, issue, claim, start, consume, run, HVS, discover, validate, finish), record-transport-unknown, reconcile (read-only), projection | desktop bridge (starts and times out processes), HVS (external), every execute shares the store file | one process per execute; check and write in different lock sections; crash between any two; late answer after a timeout; several revisions of a project | one HVS call per plan; the call on record; success only for a verified artifact; one render per project; the operator sees it |
| **Canonical learning memory** `integrations/learning/{memory_writer,_filelock}.py` | `database.json`, its integrity marker, `_db_backups/`, the advisory lock | `safe_append`: lock, verify, validate, duplicate guard, backup, replace, marker | learning loop, telemetry, any process with the path; people with an editor | two files that are not updated together; non-atomic marker; lock timeout; crash; edits without the lock | append-only, no lost or double record; earlier contents restorable; refuses only with cause; edits are noticed |
| **Re-render reconciliation and delivery lineage** (stages 8A.1, 8C, 8D) `scos/control_center/hvs_{rerender_result_reconciliation_service,rerender_result_store,delivery_lineage_service,delivery_lineage_store,rerender_dispatch_service,rerender_dispatch_store}.py` | three JSONL event ledgers: lineage, dispatches, results | request a dispatch; reconcile a result: look up, gate, register the successor, close, complete, accept, create, supersede | stage 7 closures, revisions (8B), release (8E) | up to seven appends without a lock or a rollback; crash between any two; a repeat at another time; contradicting results; one duplicate id makes a ledger unreadable | a supersession is whole; versions are unique; one result per revision; ledgers stay readable; what was told is on record |
| **Customer release** (stage 8E) `scos/control_center/hvs_revised_delivery_release_{service,store}.py` | one JSONL event ledger | record an acceptance, authorize, revoke, evaluate readiness, close finally | reads the ledgers of 8B and 8D | check and append apart; revocation in between; upstream changes | closed once, on a full acceptance and a live authorization of it |
| **Project and render-input materialization** (10D, 10E) `scos/control_center/hvs_project_materialization_{service,store,models}.py`, `hvs_materialization_cli.py`, `video_engine_materialization.py` | one JSON store with two sub-ledgers: authorizations, capabilities, attempts; the tree HVS writes | authorize, execute, reconcile, projection, for each of two stages | HVS (external), desktop bridge | the caller chooses capability and attempt ids; check and write in different lock sections; lost answers; partial trees | one call per capability; one attempt open; calls on record; success means a whole project |
| **Runtime journal, combined reads** `integrations/learning/{runtime_journal,memory_store}.py` | JSONL file, atomic marker | `append_runtime_record`, `load_runtime_records`, combined read | same lock; readers take none | torn last line; append durable before the marker; readers beside a writer | append-only, one record per id; a malformed line is never repaired silently |
| **Learning loop** `integrations/learning/{learning_manager,seed_store,anchor_library,archive_manager}.py` | seeds (pending, consumed), archive versions, anchor library | `process_project`: QA gate, append, archive, anchors; persist, resolve, consume, clean seeds | canonical memory, recommendation service | three effects without a transaction; retry after a crash; two runs with one seed; three different keys for one project, two of which projects can share; versions named to the second | an anchor is counted once per recorded project; a seed is credited once and retired after use; an archive is not replaced |
| **Recommendation, data quality, validators, telemetry** | none, or one report file | scoring, reports, schema checks, YouTube access | canonical memory | stale inputs | pure functions of what they read |
| **Editor command bus** `packages/command-system/src` | project, undo stack, redo stack | execute, batch, undo, redo, load | registry, desktop store | commands that throw half-way; state validated after the command; undo that pops before it applies | undo and redo are inverse; a failure changes nothing |
| **Project model, timeline, media cache** `packages/{project-model,timeline,media-engine}` | project document; cache of proxies by revision | schema, geometry; describe, record, invalidate | desktop store | stale entries | fresh only for the current revision |
| **AI plan compiler, provider routing** `packages/{ai-core,ai-providers}` | none | compile, route | providers (external) | fallbacks | a plan uses registered commands only |
| **Desktop application** `apps/desktop` | project and render lifecycle, unsaved changes, bridge child processes | open, save, recover, request render, poll | command bus, control center | results that come after the project changed; autosave; timeouts | a result is applied to the project it is for |
| **Command approval bridge** `scos/control_center/{operator_approval,approval_audit_store,command_queue,command_runner}.py` | decision ledger (SQLite, hash chain), approved queue (JSONL), event log | decide, append, verify chain, enqueue, run | operator UI, subprocesses | grant checked before a run and not again; queue is never dequeued; concurrent appends to the chain | a command runs only while granted; the chain is linear |
| **HVS delivery, revision, commercial and pilot stores** | one JSON file or event ledger each | put, mark, append | HVS, desktop | the disciplines of the stores above, with fewer steps | as for those |
| **Video studio process supervisor** `scos/control_center/video_studio_process_supervisor.py` | child process | run with timeout, kill, collect output, classify | PowerShell bridge | timeout racing exit; a child that ignores the kill | every run ends with one classified result |
| **Content pipeline and rendering** | files per stage | sequential stages | ffmpeg, models | long external calls | each stage reads what the one before wrote |
| **Commercial kits, knowledge index, analytics** | generated documents, index files | generate, query | files | none concurrent | deterministic output |
| **Integrations, scripts, skills** | none of their own | glue | external tools | external | out of scope |

How the parts interact: the learning loop calls `safe_append`; `anchor_library` and
`telemetry` repeat its discipline (validate, back up, replace) for files of their
own, the runtime journal for an append-only one, and `memory_store` reads canonical and
runtime records together. The desktop calls the control center through short-lived child
processes, so every control-center operation is a process that can be killed, can
run beside another one of its kind, and shares nothing with it but a file and a
lock - or, for the event ledgers of stages 8A to 8E, not even a lock. All modelled
parts have this shape: **a file, at best an advisory lock, and a protocol that takes more
than one locked section or more than one file**. That is where unit
tests, which run one operation at a time, do not reach.

`PROJECT.json` lists 40 hazards at their lines; most of those of the modelled
components have a property, and the ones without say why. The other components'
hazards are what the rest of the plan works from.

## Plan

In order of importance; done are 1 to 8 with the abstract specifications 1a, 5a and 6a.

| # | Module | Models | Relation | Properties and theorems |
|---|---|---|---|---|
| 1 | `RenderAttempts` (done) | execute protocol over the attempt store | composes processes, store, HVS | render once, on record, truthful, slot, visible, lifecycle; all proved |
| 1a | `SingleUseCall` (done) | what is promised of one costly call to HVS | abstract specification; 1 and 7 implement it | spent, asked once, outcome final; both refinements proved |
| 2 | `AppendLog` (done) | what a learning store promises | abstract specification | one record per key, nothing lost, append-only; proved |
| 3 | `MemoryStore` (done) | `safe_append` with files, lock, crashes, edits | implements `AppendLog` | refinement, backups, guard, edits; proved; lock freed, checked |
| 4 | `EventLedger` (done) | the append code of the JSONL event ledgers | used by 5 and 6 | lemmas on appends |
| 5 | `Reconciliation` (done) | stage 8D with 8A.1 and 8C | over `EventLedger` | supersessions whole, versions unique, one result, ledgers readable, answers on record; all proved |
| 5a | `ReconciledResult` (done) | what 8E reads of 8D | interface of 5 and 6 | 5 offers it, 6 assumes it; both sides proved |
| 6 | `Release` (done) | stage 8E | over `EventLedger` | closed on a release, once; ledger readable; all proved |
| 6a | `ReleaseDecision` (done) | what 8E promises, as decisions taken at once | abstract specification; 6 implements it while no two commands overlap | refinement proved |
| 7 | `Materialization` (done) | stages 10D and 10E | composes processes, store, HVS and its tree | single use, one call open and on record, success is there; all proved |
| 8 | `LearningLoop` (done) | a run of `learning_manager`, seeds, archive, anchors | uses `AppendLog` as its memory | derived stores follow the memory, seeds credited once and consumed after use, archives kept; all proved |
| 9 | `CommandBus` | execute, batch, undo, redo, load with failing commands | implements a history of states | undo/redo inverse; a failure changes nothing |
| 10 | `CommandBridge` | decision ledger, queue, runner | composes ledger and runner | the chain never forks; no run without a grant |
| 11 | `RuntimeJournal` | `append_runtime_record`: line, fsync, atomic marker, torn lines | implements `AppendLog` a second time | refinement; a reader gets a prefix |
| 12 | `MediaCache`, `ProcessSupervisor` | smaller protocols | - | staleness; one result per run |

Twelve runs are the ceiling the project sets itself, so that all of it can be checked
in one go, and all twelve are taken. 9 to 12 would replace some of the five counterexample
runs once the code they refute is changed. Bounds stay at two actors and two or three
items: all hazards listed need two actors, one crash and at most two identities.
Theorems are written for modules without recursion, so sequences are handled with
`Append`, `SubSeq` and quantifiers.

## RenderAttempts

One execute is one operating-system process. Every method of `RenderAttemptStore`
that writes is one section under the store's file lock that ends in one atomic
replacement, so it is one action; everything between two methods is a place where
another process can run, a report can arrive, or the process can die.

| Model | Code |
|---|---|
| `granted`, `cap`, `state`, `recorded` | the three collections of the JSON file: decision, `consumed_at`, attempt state, `render_calls` |
| `pc[p]`, `plan[p]` | how far `render()` of process `p` has come, and for which plan |
| `hvsCalls`, `delivered` | the world: what HVS was really asked for, and verified answers |
| `overlapped`, `contended` | history: plans (projects) two executes of which were alive at once |
| `Authorize` | `cmd_authorize`, which stores AUTHORIZED or DENIED over the previous decision |
| `Execute`, `CheckCapability` | `cmd_execute` loads the authorization; `render()` rejects a consumed capability or a missing project |
| `IssueCapability` | `put_capability`: overwrites what is stored |
| `ClaimSlot` | `try_claim_active`: looks at other attempts, writes nothing |
| `PutStarting` ... `PutFailed` | the `put_attempt` calls, in the code's order |
| `ConsumeCapability` | `consume_capability`, check and set under one lock |
| `RunningNotStored`, `HvsLost`, `PutUnknown` | the `except` around the RUNNING write and the HVS call |
| `RecordTransportUnknown` | the bridge's timeout report |
| `TruthState` | `cmd_projection`: `truth_priority`, then AUTHORIZED or NOT_REQUESTED |
| `Crash` | the process is killed, or a store operation raises out of `render()` |

`cmd_authorize` and `cmd_projection` hand out authorization, capability and attempt ids that are
derived from the plan's hash; `cmd_execute` takes whatever ids it is given. The model
assumes that a caller gives back the ones it was handed: a plan *is* its authorization, capability and attempt id.
(`Materialization`, where the caller makes the ids up, does not assume it.) Time is left out: an authorization that
has expired is one that `Execute` is not taken for. State names are those of the
code without the `RENDER_` and `ARTIFACT_` prefixes. `reconcile_render` writes nothing
and needs no action. A corrupt or busy store makes every operation raise, which is
`Crash` for an execute and no step for the operator.

Properties: `RenderOnce`, `RenderOnRecord`, `OutcomeTruthful`, `SlotRespected`,
`RenderVisible`, and the action property `Lifecycle`. Some are conditional on `h
\notin overlapped` (or `contended`) because the code does not keep them when two
executes of a plan overlap, see [below](#disagreements-found); crashes, retries,
re-authorizations and late reports are *not* excluded. `OutcomeTruthful`'s first
half, success only for a verified artifact, holds with overlaps too. `ImplementsCall`
puts them in one place: the render of a plan is the call of `SingleUseCall`.

## SingleUseCall

The abstract specification of a call to HVS that may be made once: `Spend` the permit,
`Ask`, then `Verify` and `Succeed`, or `Fail`. Nothing leads back, a process may stop
anywhere, and a key two processes work on at once is `Race`d: after that
nothing is promised of it. `Phase` is the mapping of both implementations. In
`RenderAttempts` the key is a plan and all phases occur; "raced" is `overlapped`. In
`Materialization` the key is a capability of a stage, "raced" is `contended`, and the
mapping ends at "asked": the outcome is stored for the attempt, which another capability may
execute again. The mappings have no phase for a second call ("asked twice" is no state of
`SingleUseCall`), so a second call without a race breaks the refinement.

## AppendLog

The abstract specification: `log` grows by `Add` when no record has the identity
yet, and `Acknowledge` tells the caller of a record that is in it. A record may be in the
log without an acknowledgement (the writer died, or its marker write failed), and
that is all a caller can rely on. `OnePerKey`, `NothingLost` and `AppendOnly` are
its theorems; implementations inherit them.

## MemoryStore

`safe_append` step by step, for any number of processes:

| Model | Code |
|---|---|
| `db`, `marker`, `backups`, `lock` | `database.json`, its marker's sha256, `_db_backups/`, `.database.json.lock` |
| `Call`, `Acquire`, `LockTimeout` | `safe_append` and the polling loop of `file_lock` |
| `Verify` | `verify_db_integrity`: missing or unreadable marker is trusted, a different hash refuses |
| `Read` | validation of the record and the file, duplicate guard; the records read are the ones written back |
| `Backup`, `Replace` | copy to `_db_backups/`, `_atomic_write_json` |
| `HashDb`, `TruncateMarker`, `FillMarker` | `_write_marker`: hash the file as it is now, then `write_text`, which truncates first |
| `Return`, `Crash` | `ok=True` and release; or the process dies / an operation raises, and the lock is released by the system (or by `finally`) |
| `EditByHand` | an editor, which takes no lock; at most `MaxEdits` times |

A sha256 is the content it was computed from: only collisions are lost. Whether a record
passes `validate_record` is chosen by `Read` each time, so every refusal is covered.
A record's content is abstracted to its identity `keyOf`, the pair the duplicate
guard compares. Backups have microsecond names, so a backup never replaces one.
Temporary files a dead process leaves behind are read by nobody and left out.
`EditByHand` removes the last record or adds one; the guard only tells equal contents
from different ones, so these two stand for any change that leaves a valid file.
Everything `held` by a process is a local variable of the code at that point.

Properties: `ImplementsLog` (`AppendLog` with `log <- db`), `EarlierContentsBackedUp`,
`TrustedUnlessCut`, `EditsRefused`, `LockFreed`. `EditsRefused` is about edits made while
no append holds the lock, over a readable marker: an edit *during* an append is
outside what the guard can see, because `_write_marker` hashes the file again and so
adopts an edit that lands after `os.replace` (hazard at `memory_writer.py:60`).

## LearningLoop

One run of `learning_manager.py` is one process. It goes through four stores in a
fixed order; each is safe by itself, nothing holds them together.

The stores do not agree on what a project is. The memory compares the exact
`project_name`; `archive_manager.slugify` keeps letters, digits, Thai signs, `_` and `-` and makes
the archive's folder of them; `seed_store._slug` keeps `a-z` and `0-9` only, so all names without
these have the slug `project`. `folderOf` and `slotOf` are these two conversions as far
as they matter: which projects share a folder or a slot is up to the constants.

| Model | Code |
|---|---|
| `memory`, `acked` | `database.json`, through the instance `Memory` of `AppendLog`; `MemoryStore` shows that `safe_append` implements it |
| `pending`, `consumed` | `work/seeds/<slot>.json`, `work/seeds/_consumed/` |
| `dirs`, `archive` | archive directories (version 0 of a folder is the plain one, others are named to the second); the record and `archived_at` of each manifest |
| `counted` | how often the anchor library holds a record's anchors |
| `slotOfSeed` | the slot a recommendation goes to: that of its project's name, or else of its niche |
| `Start` | `main`: the seed pending in the project's slot, one given by `--seed-json`, or none; `created_at` from the clock or given |
| `AppendRecord`, `Acknowledge` | `safe_append`, its refusal, its answer |
| `Look`, `Mkdir`, `Fill` | `archive_project`: `exists`, `mkdir(exist_ok=True)`, copies and manifest |
| `Count` | `record_project_anchors`; its refusal is not looked at |
| `Consume` | `consume_seed`: whatever is pending in the slot by then |
| `Recommend`, `CleanUp`, `Tick` | `persist_seed` at the end of `recommend`, over what is pending in the slot; `cleanup_seeds`; the clock |
| `offered`, `stray`, `again`, `left`, `shared`, `clashed` | history: what the properties except |

A recommendation id is a second and a hash of niche and name, so asking twice within a second
gives the same id (`Recommend` with `offered[s] = now`), asking later another one.

What each property excepts is what the code does, and no more; a project is never excepted as
a whole, only the seed or the directory it happened to:

- `FollowsMemory`: nothing, with any interleaving and any crash.
- `CreditedOnce`: a seed two live runs started from (`shared`, of one project or of two
  of one slot); one whose run stopped before retiring it, by a crash or `--keep-seed` (`left`); one
  given out besides, by `--seed-json` or by asking again in the same second (`again`). In each of these
  the code does credit a seed twice.
- `ConsumedWasUsed`: a seed that lay pending in the slot beside a run made from
  another one or from none (`stray`), which that run's `consume_seed` takes away, though it
  may have been meant for another project.
- `ArchivesKept`: directories named to the second in which the manifest there was completed, and
  those two runs had chosen at once (`clashed`). Everything else is write-once, also for
  projects that share a folder.

Adding a record is one step of the run here, as `AppendLog` has it; where in
`safe_append` it happens is `MemoryStore`'s matter. Dry runs and runs whose QA failed write
nothing and are no step.

## EventLedger

The event ledgers of stages 8A to 8E are JSONL files whose stores have the same code:
`read_*_events` parses all lines and raises if two carry one event id;
`append_*_event` reads, returns if it finds the same event, raises if it finds the id with another
body, and else appends a line. The id is a hash of a part of the event, so an event
is a pair of `id` and `body`. `Readable`, `Known`, `Clash` and `Recorded` are the
questions the code asks of a ledger. The module has no state of its own.

## Reconciliation

| Model | Code |
|---|---|
| `lineage`, `dispatches`, `results` | the ledgers of `hvs_delivery_lineage_store`, `hvs_rerender_dispatch_store`, `hvs_rerender_result_store` |
| `closed` | deliveries with an accepted stage 7 closure |
| `pc[p]`, `checked[p]` | how far a `reconcile_rerender_result` has come; its append has read and will write |
| `job`, `entry`, `code` | what the command was called with (a result with the delivery, evidence and time it names, or a dispatch and a time); planned lineage record; reason of the refusal under way |
| `CloseDelivery` | the customer accepts a delivery's closure |
| `Request`, `Ask` | `request_rerender_dispatch` up to its one append: denied by the gate, found and noted as a duplicate, or new |
| `Lookup` | dispatch, then accepted results: answer from the ledger (`Reconstruct`), refuse a rival, go on |
| `Gate` | failure path, acceptance gate, closure pre-check |
| `Register` | `register_delivery_lineage` up to its first append |
| `Check`, `Write` | the two halves of every append, in the order `Following` gives: requested, registered, close, complete, accept, create, supersede; rejected, duplicate or created for a dispatch request |
| `ShownTo8E(r, d)` | what `hvs_revised_delivery_release_service` concludes from the results' ledger |
| `Crash` | the process dies; what is appended stays |

What makes a result is what `build_result_idempotency_key` hashes. Two things are
not in it and belong to the call (`Calls`): the delivery it is to be registered as, and
the evidence it is registered by, which is the first evidence reference or, without one, the
caller's `result_id`. The lineage record holds these two and the parent, and nothing else of the
result. So `register_delivery_lineage` answers ok to a *contradicting* result that names the same
delivery and evidence as a reconciliation that died after its registration, and that
result is then closed and accepted in the place of the first: the model does this as well.

The links between results, dispatches, revisions and original deliveries are constants: a result
whose fields disagree with its dispatch is refused before anything is written, and a changed
field makes another result. A revision that is cancelled or superseded in 8B refuses
like the other reasons of the gate and is left out, as are MISSING_* refusals and the
distinct-artifact checks (deliveries have artifacts of their own). A `stamp` is
`recorded_at`: it is in the body of every event but in the id of almost none, which is why
a repeat at another time clashes with the events of the first try.

`SupersededIsWhole`, `AnswersOnRecord` and `FeedsRelease` are promised when commands overlap
too; the others start with `~overlap`: nothing is locked, and two commands, dispatch requests
included, can write one event id twice. Crashes, repeats, contradicting results and
failures are not excluded. Interesting is `OneResultPerRevision`: after a crash half way
nothing but the chain of versions keeps a rival's *delivery* out, since acceptance comes
late; the rival itself may take the delivery over, until the revision is closed.
`AnswersOnRecord` is the weaker for `_reconstruct_reconciliation`, which answers with the last revised
delivery of the ledger: it asks that the delivery told is on record for some accepted result.

## ReconciledResult

Stage 8E reads the ledger of 8D and decides by whether a revised delivery (a result and a
delivery) is incomplete, whole, or whole with a refusal of the same result beside it. `ReconciledResult` has these three and
`Later`, the moves between them. `Release` takes them as its environment (`Reconcile8D` is
any move along `Later`); `FeedsRelease` of `Reconciliation` says that its ledgers start at the
first and make no other move, with overlaps and crashes, and never show what
`ShownTo8E` calls "torn": a revised delivery and a supersession without the acceptance or the
closure they rest on, which is where 8E, checking only some of the events, would close a revision
nobody accepted. The two theorems `ReleaseFed` and `DecisionsReconciled` together carry the
release across both stages.

## Release

| Model | Code |
|---|---|
| `ledger` | `hvs_revised_delivery_release.jsonl` |
| `stage8D`, `approved` | what 8E reads of the 8D ledger (nothing complete, a whole reconciliation, one with a refusal of the same result as well) and of the 8B revision |
| `Accept`, `Authorize`, `Revoke` | `record_revised_delivery_acceptance`, `create_customer_release_authorization`, `revoke_customer_release_authorization` |
| `NotReady`, `Considered` | `evaluate_release_readiness`, reason by reason |
| `Evaluate`, `Settle` | the two halves of `close_final_revision` |
| `Check`, `Write` | `append_release_event` |
| `Unreadable` | a ledger with one id twice makes every command raise |

One revision with one reconciled result and one revised delivery; several acceptances
(reviewer, formats, verdict) and authorizations. `FeedsRelease` of
`Reconciliation` is why the 8D ledger can be one of three values here. Reasons that this setting cannot produce (mismatching
projects, a missing original) are left out of `NotReady`. The reads of one readiness
evaluation are one step; the append after it is not, so a revocation can come in
between - `ClosedOnRelease` therefore says "never after the revocation" only without
overlap, and "only after an authorization after a full acceptance" always.
`DecidedIsReconciled` says that nothing is decided about a result stage 8D has not
finished, overlap or not: readiness was read before the append, and 8D takes nothing back.

## ReleaseDecision

The abstract specification of 8E: one verdict (`Decide`), one authorization in force, only of
a full acceptance and never one that was revoked (`Authorize`, `Revoke`), one closure under the
authorization in force at that moment (`Close`); from the first overlap of two
commands on, anything (`Race`). `Release` maps its ledger to it: the verdicts with a record,
the authorizations given and not revoked, the revoked ones, the closures, and `overlap`. Every
appended line is such a decision or changes nothing, though the command looked
two or three steps before it appended and others may have crashed in between. The run
`release` checks the steps (`FollowsDecision`), since `MCRelease` also starts from ledgers that are not
empty; `Decision!Spec` itself, from the empty ledger, is the theorem `DecisionImplemented`.

## Materialization

| Model | Code |
|---|---|
| `granted`, `cap`, `state` | the store's collections, for the stages `project` (10D) and `inputs` (10E) |
| `tree` | what HVS has made of a stage on disk: absent, partial, whole |
| `Authorize`, `Execute`, `Reconcile` | `cmd_authorize`, `cmd_execute`, `cmd_reconcile` and the services behind them |
| `Check`, `Issue`, `Claim`, `Mark`, `Consume`, `Refuse` | steps 6b to 11 of `materialize`, and the same of `materialize_render_inputs` |
| `Call`, `Answer` | HVS: writes file by file; answers, refuses, or is not heard of, however much it has written; of the inputs its own list is believed |
| `Inspect`, `Outcome`, `Record`, `Ready` | steps 13 to 15 |
| `Look`, `Promote` | the reconciliations: the attempt loaded at the start is stored as a success |
| `Projection` | `cmd_projection` |
| `calls`, `reissued`, `unanswered`, `contended` | history |

The capability and attempt ids come from the caller, so an execution may name fresh or
used ones. The inputs' claim is a scan without the lock; it is the same step. The
properties except what two processes contend for: a capability, an attempt,
or the place in flight. A contended id stays excepted for good. `MaterializedIsWhole` also
holds under contention, but only while HVS was asked once: a second
initialization writes over the tree of the first. `ImplementsCall`: a capability nobody
contends for permits the call of `SingleUseCall`.

## Runs, bounds and what they show

| Run | Instance | Shows |
|---|---|---|
| `render` (pass) | 2 processes, 2 revisions of 1 project; about 1.6 million states | seven properties and that it implements `SingleUseCall` |
| `render_single_use`, `render_one_winner`, `render_transitions`, `render_truth` (violation) | the same | the disagreements below |
| `memory` (pass) | 2 processes, 3 records with 2 identities, no edits; `FairSpec` | refinement, backups, guard, lock freed |
| `memory_edits` (pass) | the same, one edit | edits are refused from then on |
| `memory_refusal` (violation) | the same as `memory` | the guard's docstring |
| `learning_loop` (pass) | 2 processes, 2 projects of one slot and folder, 2 seeds, 2 seconds, 2 runs from two starts; about 1.65 million states | five properties of the loop |
| `reconcile` (pass) | 2 processes, 2 contradicting results and a failed one of one dispatch, 3 deliveries, 2 evidences, 2 stamps, 3 commands (2 once two overlap) from three starts; about 0.49 million states | six properties of stage 8D, and that 8E is fed what it expects |
| `release` (pass) | 2 processes, a full and a partial acceptance, 2 authorizations of the full one, 3 calls, 1 stamp; about 0.25 million states | five properties of stage 8E and that it follows `ReleaseDecision` |
| `materialize` (pass) | 2 processes, 2 capabilities, 2 attempts, both stages, 3 runs; about 1.1 million states | six properties of 10D and 10E and that they implement `SingleUseCall` |

Why the bounds are enough to meet the interesting cases. *Processes:* every
hazard is a race of two. *Plans:* two revisions of one project are what the slot and the
projection are about; plans of different projects meet in nothing but the file,
which every action updates atomically (and the theorems hold for any number).
*Records:* two of one identity exercise the duplicate guard, the third the
growth behind it. `hvsCalls` counts to 2, "two or more": the properties only tell 0, 1
and more apart. `MaxEdits` is 1 in `memory_edits`: a second edit could restore the
content the marker stands for, and then the guard rightly trusts it. In these
models all other variables are finite by themselves: executes, crashes,
reports and calls may happen any number of times.

The four later models have ledgers and counters that grow, so they bound what is
*started*, never what a started process does: `MaxCalls` (3) commands on the
re-render or release ledgers, `MaxRuns` (3 executions or reconciliations of `Materialization`, 2
runs of the loop), `MaxTime` (2) seconds. Three are enough for a first try that dies, a racing or
repeated second one and a third that meets what both left behind; the mutants are found
within these bounds. Where the third actor of that pattern made the state space too large,
the run starts a step further instead. `MCLearningLoop` also starts after a first run that went
through without a seed, so that an archive is there for the two runs of the instance. In
`Reconciliation` a third command starts only while no two have overlapped (`MaxRaced` = 2),
and `MCReconciliation` also starts with the dispatch on record, and with a delivery registered by a
reconciliation that died there: in that start three commands meet what a fourth has left. All of
these starts are states that `Spec` reaches with larger bounds, but for the counter of what was
started; the theorems, about `Spec` alone, cover any number of commands and runs.
`Authorize` of `Materialization` asks `runs < MaxRuns` as well, since afterwards nobody
reads the authorization. `MCRelease` starts from two ledgers more than `Init`: a released
and a finally closed revision, which two and three commands lead to from the empty one, so
that the three commands of the run reach second closures with a revocation before them.
`Stamp` has two values where an id and a body must differ (`reconcile`), one in `release`,
where no property compares times; every hashed time in an id can then also meet itself, which
is the harder case.

`SYMMETRY` permutes processes and plans (both plans belong to the one project, so
`projectOf` is symmetric) in a run without liveness. `VIEW` drops `plan[p]` of an idle
process: every action that reads it has `pc[p] # "idle"` and `Execute` overwrites
it, and no property reads it for an idle process. In `reconcile` the symmetry also permutes
stamps, evidences, the contradicting results and the two new deliveries, none of which a start or a
constant singles out; in `learning_loop` it permutes processes, projects and seeds, and the `VIEW` drops
what no later step or property reads: `keep` without a seed, a directory already filled, strays that are on
record, and for which of three reasons a seed is excepted from `CreditedOnce`. The `VIEW` of `materialize` drops
the authorizations once the last run has started: no step reads them any more. Deadlock
is checked in every run but `reconcile`, `release` and `materialize`, where a
state with all bounded calls used up and every process idle may have no step left;
elsewhere an operator can always authorize, a process call, or a seed be cleaned up.

Every property of a passing run has a mutant: a variant of one action or helper with
a plausible bug (a dropped replay check, a marker with the old hash, a lock that is
not exclusive, a write moved), kept beside the original and marked "Faulty variant".

## Fairness

`RenderAttempts` has none: its promises are safety, and nothing in the code obliges
the operator to retry, report or reconcile. `MemoryStore` assumes `WF_vars(Step(p))`
for `LockFreed` only: a process inside `safe_append` that is not killed keeps running,
since the locked section contains no wait and the polling loop ends at its timeout.
`Call`, `Crash` and `EditByHand` are not fair: nobody has to call, die or edit.
`LearningLoop`, `Reconciliation`, `Release` and `Materialization` have none: every process
may be killed at any step and nothing restarts or resumes it, and a started call that is not
killed ends by itself after a fixed number of steps, so there is no progress to claim
beyond what the steps say.

## Proofs

`tlapm` proves these modules for all values of the constants, under the named
assumptions only: `PlanAssumption` (every plan has a project), `StoreAssumption`
(types of the constants; `Nobody` is no process, `NoMarker` no content).
`LinkAssumption` (each result has a dispatch, a revision, deliveries), `ReleaseAssumption`
(verdicts and acceptances of the constants, stamps are numbers), `RunsAssumption`,
`NoneAssumption` and `LoopAssumption` (types of the constants; `None` is nothing else).
`AppendLog` and `EventLedger` need none.

- `RenderAttempts_proofs`: `TypeCorrect`; `Inductive` (`IInv`); from it `RenderedOnce`,
  `RenderedOnRecord`, `OutcomesTruthful`, `SlotsRespected`, `RendersVisible`,
  `LifecycleHolds`. None of the properties is inductive: that a plan is not rendered
  twice depends on what the store said when a process that died long ago passed its last
  check. `IInv` adds `OverlapRemembered` (two live executes of a plan are in the
  history), `StepsInv` (where an undisturbed execute stands determines capability,
  stored state, `render_calls` and HVS calls of its plan), `PlansInv` (what the store
  says once nobody is alive: a rendered plan has a consumed capability) and
  `AnswerInv` (what an answer leaves behind, overlap or not). The argument for a step:
  `Alone` (an undisturbed execute is the only one of its plan), `StepLocal` (a step
  touches its own plan only), `StepKeepsOwn` (its own facts hold again afterwards),
  put together in `StepPreserves`. `CallImplemented` is the refinement of `SingleUseCall`:
  `StepAdvances` says which phase an undisturbed execute's step leads to, `PhaseStep` that a
  plan moving along its phases while others keep or lose theirs is a step of `SingleUseCall`.
- `AppendLog_proofs`: `LogOnePerKey`, `LogNothingLost`, `LogAppendOnly`.
- `MemoryStore_proofs`: `TypeCorrect`; `Inductive`, whose `IInv` has `LockInv` (the
  holder, and nobody else, is in the locked section), `HolderInv` (what the holder knows
  at each step: the guard trusted, its copy is the file, its backup exists, its record
  is in) and `EditInv` (a noticed edit keeps everyone before the guard);
  from it `BackupsComplete`, `GuardHasCause`, `EditsStopAppends` (for `MaxEdits <= 1`) and
  `LogImplemented` (for `MaxEdits = 0`): `Replace` is `Add`, `Return` is
  `Acknowledge`, everything else stutters. `AcknowledgedKept` then follows from
  `AppendLog`'s own theorem by that refinement.

- `LearningLoop_proofs`: `DerivedFollowsMemory`, `SeedsCreditedOnce`, `ConsumedSeedsUsed`,
  `ArchivesAreKept`, from an `IInv` whose core is `OwnRecords` (a record past its append
  has one run working on it, because the log refuses a second one of the same key; so
  nobody else counts or archives it), `SeedsAtHome` with `RetiredOrOnTheWay` (an orderly seed that is
  on record and still pending, in the slot it was made for, has a run on the way to retire it; so a
  later run of any project of that slot cannot start from it unnoticed, which is `SharesNoted`) and
  `PlacesKept` (a manifest is completed no earlier than the second its directory is named after, and a run about
  to fill a directory nobody clashed about finds a manifest there only of that very
  second). `AppendLog`'s actions are used as they are, its invariants carried along.
- `EventLedger_proofs`: what an append does to `Events`, `Readable` and the ids.
- `Reconciliation_proofs`: `SupersessionsWhole`, `VersionsOneToOne`, `LedgersStayReadable`,
  `OneResultTaken`, `AnswersAreOnRecord`. `IInv` says for each step what the process has
  behind it on the ledgers (`Along`; ledgers only grow, so it stays true under interference),
  and what it knows beyond that while it is alone (`Fresh`: its version is free, its event
  id new). `OneResultTaken` has two halves. Deliveries: `Chained` makes every record the version after its
  parent's and backs everything `Taken` by a registration, so two deliveries of a revision would
  share a version. Results: whatever is taken is closed, and `OneCloser` keeps the closures of a
  revision to one result, since `_close_revision` looks before it appends. `ReleaseFed`
  needs `NeverTorn` (what 8E finds is backed by acceptance and closure, read off `Chained`) and
  `ResultsGrow` for the moves.
- `Release_proofs`: `ClosuresOnRelease`, `OneReleaseOnly`, `LedgerStaysReadable`, by the
  same split; `AuthorizedAccepted` gives the order on the ledger. `DecisionsReconciled` adds
  `PendingIsReconciled` (it holds of events still to be appended too). `DecisionsFollowed` and
  `DecisionImplemented` add `Due`: what an event says of what it names is right (`Sound`), on
  record and pending, and a pending authorization or revocation is not yet given
  while nobody overlaps. `OneInForce` and `AcceptedBefore` read the mapping off the ledger,
  `WriteDecides` turns each kind of appended line into its decision, `StepDecides` all steps.
- `Materialization_proofs`: `CapabilitiesSingleUse`, `ReissuesAreRaces`, `CallsExclusive`,
  `CallsOnRecord`, `SuccessIsThere`. `ContentionNoted` turns "nobody else works on it" into
  a fact of the history; `PaidOnce` relates a capability's calls to its stored state and to the
  processes about to call; `OpenOnRecord` and `PlaceIsFree` relate open calls to stored states;
  `SeenWhole` keeps what the inspector saw true until it is stored. `CallImplemented`
  refines `SingleUseCall`: `IssueTakesNothing` (an uncontended capability that is issued
  was not spent), `ConsumeSpends` and `CallAsks` are its three steps.

In all of these the properties are not inductive by themselves: what a process is about to
write was justified by a read that others may have outdated since.

TLC had checked each property before it was proved, and each `IInv` as an invariant. Only model-checked are
`LockFreed` (liveness under fairness is outside TLAPS) and the five violations
(counterexamples).

## Disagreements found

Five statements of the code's comments that a run refutes (details and lines in `PROJECT.json`):

1. *"Exactly ONE HVS render call may occur"*: two overlapping executes of one plan can
   both call HVS, as `put_capability` un-consumes what the first one consumed.
2. *"two concurrent requests cannot both win"*: `try_claim_active` writes nothing, so
   two executes of one project can both pass it.
3. *"Invalid transitions fail closed"*: `put_attempt` checks no transition. When the bridge gives up
   on an execute that is still on its way to the call and stores the outcome as unknown, the
   execute stores RENDER_RUNNING over that and calls HVS. (A late answer, stored as
   artifact-discovered over an unknown outcome, is the same in a longer trace.)
4. *"an AUTHORIZED authorization with no terminal/running/starting attempt means the
   operator may execute"*: not after a crash in artifact-discovered or -validated.
5. *"ok=False means the DB was written OUTSIDE safe_append"*: a writer cut off between
   the replacement and the marker has the same effect, until the marker is removed by hand.

Further disagreements met while modelling, which no run refutes by itself; each
shapes a property's condition or a comment in a module:

- *Stage 8D replays.* The certification
  (`docs/certification/SCOS-HVS-Integration-Stage-8D-rerender-result-reconciliation.md`, section 4)
  says "Replaying an identical result returns the existing reconciliation".
  `_reconstruct_reconciliation` returns the last revised delivery of the *whole* ledger, or none after a
  crash between ACCEPTED and CREATED; nothing completes such a reconciliation later.
  `AnswersOnRecord` promises an accepted result's delivery, not this result's.
- *A reconciliation that died before ACCEPTED* cannot be repeated with another `recorded_at`: its
  first event clashes with the one on record and the call raises. A contradicting result that names
  the same delivery and evidence can then be registered, closed and accepted in its place.
- *Stage 8C requests* read and append without a lock. Two overlapping ones of one dispatch
  write its CREATED or DUPLICATE event twice, and the dispatch ledger is unreadable from then on, for 8D
  as well. The id of a DUPLICATE or REJECTED event has no time in it, so the second repeat
  of a request at another time raises instead of returning the existing dispatch.
- *Stage 8C dispatches* never look terminal to the 8D gate: the COMPLETED record has no
  `dispatch_id` (`hvs_rerender_dispatch_service.py:491`).
- *Release expiry.* The docstring of `_effective_authorization_status` has expired states
  "evaluated directly by the readiness gate"; the gate never reads `expiry_at`
  (`AUTH_EXPIRED` is imported and not used).
- *Materialization, the claim.* "two concurrent requests cannot both win"
  (`hvs_project_materialization_store.py:282`): `try_claim_inflight` writes nothing, as in
  disagreement 2. `put_capability` un-consumes as in 1.
- *Materialization, recovery.* "Only CONFIRMED_NOT_MATERIALIZED permits a new authorized
  attempt": an unknown outcome does not hold the place, so a new attempt is not held back. An
  attempt left in STARTING by a crash cannot be reconciled and blocks every other attempt id
  until its own is executed again. A materialized attempt executed again is overwritten with
  STARTING. A failed inspection is stored as a confirmed failure though the project exists.
  `_evaluate_capability` is never called, `_expected_payload_hash` never set, and an answer about the
  inputs that lists no artifact counts as complete.
- *Learning loop.* A run repeated with the same `created_at` after a crash is refused as a
  duplicate, so its archive and anchors never follow; an anchor library that refuses is reported as
  complete; `consume_seed` moves a seed the run did not use, against AC-3 of
  `DATA_INFRASTRUCTURE_PHASE.md`; the "write-once" archive is named to the second with `exist_ok`. "Overwrites
  a prior un-consumed seed for the same project" (`seed_store.py:60`) is true of any project with the same
  `_slug`: two Thai names share `project.json`, so one project's run is made from, credited
  with and consumes the other's recommendation.

## What is not modelled

The components marked `not_modelled` in `PROJECT.json`, with reasons: 9 to 12 of the plan
are left; pure computations, media processing, user interface, prompts and vendored
engines are not state machines a model checker says much about. Most of the repository's
lines are of these kinds (parsers, reports, command-line wiring, certification
evidence, kits), which is why the map covers a small share of them.

In the modelled components:

- *Render attempts:* wall-clock expiry, plan hashing, path and toolchain resolution,
  wording of results, `reconcile_render`, a corrupt store file.
- *Reconciliation:* the checks of a command's own fields, revisions cancelled in 8B,
  artifact collisions between different deliveries, the registration of originals and of
  historical deliveries by hand, why the approval gate denies a dispatch request (it may at any time,
  with one reason), dispatch ids that collide by their hash; several projects and operators
  (events of different projects share a ledger but no id).
- *Release:* field checks, reasons of unreadiness that one revision with one
  reconciliation cannot produce, the inspect functions.
- *Materialization:* expiry and bindings beyond "this execution does not start", plan
  hashes, the shape of the contract, several projects.
- *Learning loop:* what is in a record or a manifest, the shared temporary file of two
  concurrent recommendations (`seed_store.py:49`), anchors as such; the archive's stamp is local
  time and `archived_at` is UTC, one clock here (a clock set back is left out); a project whose
  plain folder has the name of another one's stamped directory.
