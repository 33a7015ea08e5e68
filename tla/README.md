# Specifications of ContentFactory

TLA+ models of the parts of ContentFactory whose correctness depends on the
order in which things happen, TLC configurations that check them on small
instances, and TLAPS proofs of the results that matter most for every size.
Paths are relative to the repository's root; `app/` is `backend/app/`.

## 1. The system

ContentFactory is a FastAPI process in front of PostgreSQL (`compose.yaml`),
with a Next.js frontend over a largely static API client. Handlers are
synchronous functions: FastAPI runs each on a thread of its threadpool, with a
SQLAlchemy session of its own (`app/db/session.py`: `autoflush=False`,
`expire_on_commit=False`), so requests interleave statement by statement at
READ COMMITTED. The render queue is memory of the API process, guarded by one
lock. The worker container is a standby loop: it takes no jobs in this commit.

| Component | State it keeps | Operations | Talks to | What is hard |
|---|---|---|---|---|
| Approval gate (`api/v1/agent_sessions.py`, `db/repos/agent_approval.py`) | `agent_approvals`, `agent_events` | request, approve, reject an approval; launch a render job with it | the render queue | races of decisions and launches, expiry, replay by idempotency key, claim and enqueue in two steps, restarts |
| Render queue and pipeline (`workers/queue.py`, `workers/tasks/render_pipeline.py`, `domain/services/render_state_machine.py`) | `_queue`, `_jobs`, shared `RenderJob` objects | `enqueue`, `next_job`, `run_dry_render_pipeline`, `fail_render_job` | the gate, workers | test and assignment of a status are two steps on a shared object; ids queued twice |
| Sessions, messages, event stream (`api/v1/agent_sessions.py`, `db/repos/agent_event.py`, `agent_session.py`) | `agent_sessions`, `agent_messages`, `agent_events` | create a session, post a message, stream events after an id | every handler that writes events | ids drawn at INSERT, rows visible at COMMIT; interrupted streams |
| Exports and analytics ingestion (`api/v1/exports.py`, `analytics.py`, `domain/services/tiktok_analytics_ingestion.py`) | `exports`, `analytics_snapshots` | create an export, attach a video id, record or ingest a snapshot; campaigns are deleted under them | catalog | checks on stale copies, unique keys, lock cycles, cascades, retries |
| Tool registry and executor (`domain/services/agent_tool_registry.py`, `db/repos/agent_tool_call.py`) | registered tools, a shared thread pool, audit rows | `register`, `execute` | read-only tool handlers | timeouts racing results, cancellation, hanging handlers |
| LLM runtime and providers (`domain/services/agent_llm_runtime.py`, `agent_prompt_registry.py`, `providers/llm/`) | none between calls | `assemble` the prompt, `respond`, retries with backoff | an HTTP API, the tool registry | retries of what was executed, errors that escape normalisation, prompts told apart by their fingerprint |
| Artifacts and lineage (`artifacts/storage.py`, `integrations/scripts/`, `db/repos/asset.py`) | files, `assets`, `asset_lineage` | run a script through an adapter, copy and record what it wrote, add lineage | legacy scripts | file system and database fail separately; a free name is tested and then taken |
| Catalog (`api/v1/campaigns.py` and five like it, `db/repos/base.py`) | six tables linked by foreign keys | CRUD | exports | deletes that read collection after collection while rows are created, moved and deleted; stale ORM copies |
| Read-only tools (`ReadOnlyAgentTools` in `agent_tool_registry.py`) | none; they read files and sidecars | list, inspect, keyframes, statistics, compare, caption, advise | artifact storage, text beats | seven ways to name and find the same artifact |
| Recommendation cards, narrative validator and edit advice, workflow validator, TikTok parsing | none | pure functions | analytics, text beats | ties, boundaries, floats cut to integers, the order in which Python walks a set |
| Delivery scripts (`scripts/`) | issues on GitHub | close batches and epics, create issues | GitHub | partial failure, runs that overlap, paging |
| FFmpeg commands, configuration, health, frontend | none that others rely on | formatting and I/O | | |

For each component, what makes it correct:

- *Gate*: an approval is decided once; it pays for at most one job; every
  client is told the same job; the audit trail and the claim agree; the queue
  holds nothing that was not claimed; nothing revives a closed approval.
- *Queue*: one worker per job, oldest first, statuses within the state machine,
  steps that fit the status, no job forgotten, every job ends.
- *Gate, queue and workers together*: what a worker runs is the committed claim
  of an approval that a person granted first; no approval pays for two jobs; a
  launch told that its job is known finds it in line, in work or ended.
- *Event stream*: a client that resumes with `after_id` repeats nothing, misses
  only events of transactions that overlapped another of their session, and
  receives all others at last.
- *Exports*: rows refer to rows that exist, keys are unique, an ingest that
  fails leaves nothing behind, an ingest belongs to the export's video.
- *Catalog*: foreign keys hold; a delete takes what it reached from its target,
  at one moment or one after the other, and nothing else; rows change only as a PUT asked; a 500 takes a delete that meets
  another request.
- *Tool registry*: a handler runs once for a call, and only if the tool is
  read-only; the audit row is the answer; every caller is answered.
- *Artifacts*: a recorded file exists with the recorded checksum; a failed
  registration leaves no row, and no copy that its cleanup can reach; one that
  returned is recorded whole, with its lineage.
- *LLM runtime*: a failure of the transport becomes one structured error (that a
  malformed reply does too is promised and not kept, section 3); attempts are
  bounded; tools are offered only in the native mode; the prompt holds what it
  was given, and its fingerprint tells different prompts apart.
- *Read-only tools*: what one tool lists, the next one finds; all mean the same
  artifact by the same reference, none above the root; nothing listed is lost.
- *Pure functions*: the card called best is best, a workflow is refused exactly
  when it is broken or circular, validator and advice agree on hook text, both
  formats of one TikTok export are read alike.
- *Delivery scripts*: an epic is closed only when its batches are; a rerun
  repeats nothing.

`PROJECT.json` lists the same components, and the hazards of the code line by
line, covered or not.

## 2. Modules

| Module | Role |
|---|---|
| `ApprovalGate` | the gate's handlers, statement by statement |
| `ApprovalContract` | what the gate promises, without threads, transactions or time |
| `RenderQueue` | the in-memory queue and the workers |
| `RenderQueueProofs` | TLAPS: one worker per job, nobody forgotten, oldest first |
| `RenderLaunch` | gate, queue and workers composed over one queue |
| `RenderLaunchProofs` | TLAPS: the gate's inductive invariant, its consequences and its contract; the composition implements the gate and the queue; what runs was granted first, and once |
| `EventStream` | sessions, event ids, commits, resuming readers |
| `AgentToolRegistry` | calls, the executor, timeouts, the audit sink |
| `AgentProofs` | TLAPS: a call runs once, the audit row is the answer; an event is skipped only when transactions overlapped |
| `Catalog` | the CRUD handlers of six tables, their ORM and database cascades |
| `CatalogProofs` | TLAPS: foreign keys, what deletes take, what changes, which errors there are |
| `ExportLedger` | exports, snapshots and deletions over PostgreSQL's locks |
| `ExportLedgerProofs` | TLAPS: references, keys, an ingest is whole |
| `ArtifactRegistration` | the adapters' runs: outputs, copies, rows, edges, cleanup |
| `ArtifactRegistrationProofs` | TLAPS: rows describe their files, failures leave what the cleanup cannot reach, returns are whole |
| `IssueClosure` | the script that closes issues, against GitHub and people |
| `IssueClosureProofs` | TLAPS: what a run knows of the issues it has passed; epics, reruns |
| `RecommendationCards`, `WorkflowValidator`, `AgentRuntime`, `EditAdvice`, `AnalyticsParsing`, `ArtifactTools` | functions without state, as operators |
| `Arranging` | a set as a list in an order: `sorted`, ORDER BY |
| `ContentRules` | asks the six modules above one problem at a time and states what the answers promise |
| `ContentRulesProofs` | TLAPS: the cards of every campaign, the turns of every agent and the advice on every list of videos are as promised |
| `MC...` | the inputs and symmetry sets of the instances TLC checks |

Each specification has definitions marked `Mutant:` next to the action they
vary. They are plausible bugs of that code and are not part of any
specification; each property is known to fail when its mutant takes the
action's place.

### ApprovalGate

*State.* `row` is the committed `agent_approvals` row (status, `render_job_id`,
`expires_at`), `events` the committed audit events of each approval, `lock` the
holder of the row lock, `queue` and `jobs` the `_queue` and the keys of `_jobs`
of the render queue, `clock` the wall clock in ticks. Each request has a `pc`,
its ORM copy `seen`, the time `now` it bound into its UPDATE, and the `draft`
and `outbox` of its open transaction.

*Actions.* `RequestApproval` is the handler of that name (one transaction that
nobody can meet half-way, since nobody knows the new id). Approve and reject run
`LoadDecision`, `CheckExpiry`, `StampNow`, `DecideUpdate`, `RefreshDecision`
and `Expire` or `Commit`; a launch runs `LoadLaunch`, `ClaimUpdate`,
`RefreshLaunch`, `Recheck`, `Commit`, `Enqueue`, and for a replay `Lookup` and
`Restore`, which are two calls on the queue and two critical sections of its
lock. `Abort` is a statement or COMMIT that fails (rollback); `Restart` kills
every request and empties the queue; `NextJob` is a worker's pop; `Tick`
advances the clock.

*Abstractions.* A job id is the pair of its approval and its key, or the request
for a launch without one, which is when `_resolve_render_job_id` makes equal
ids. Payload texts, sessions and message ids are left out; the episode of a
launch is only equal or different from the approval's. The clock does not run
backwards. An UPDATE whose committed row does not satisfy its WHERE clause
returns at once; one that has to wait re-evaluates it, as PostgreSQL does.

### RenderQueue

*State.* `heap` is the sequence of `RenderJob` objects made so far (an object is
its position), `entry` is `_jobs`, `fifo` is `_queue`; a worker has a `pc`, the
object it `held`s and the step it reached. `enqueue` and `next_job` are one
action each, because of the lock. The status test (`Test`) and the assignment
(`Start`, `Finish`, `Fail`) are separate steps, because the object has no lock;
so are, in `fail_render_job`, the assignment of the status (`Fail`) and that of
the step (`Mark`).
An id may be enqueued again, as replays of a launch do; the properties about
one worker and order speak of instances in which no id came twice (`Single`).

### RenderLaunch

*State.* That of `ApprovalGate`, and of `RenderQueue` the objects, their index
and the workers. The two modules share one queue (`fifo <- queue`), and a call
of `enqueue` or `next_job` is one step of both: `Hand` is the gate's `Enqueue`
or `Restore` with the queue's `Enqueue`, `Take` is `NextJob` of both. Everything
else a handler or worker does (`HandlerStep`, `Labour`) leaves the other side
alone. `Crash` is the gate's `Restart` with the workers' threads and the objects
gone too. A request enqueues at most once, so the bound that `RenderQueue` has
on its objects is never met.

### EventStream

*State.* `nextId` is the sequence of `agent_events.id`; `table` the committed
ids of each session; a handler has a target session, events left to insert and
the `batch` it inserted; a client has its `cursor` and what it `received` since
it last started afresh. `Read` is one request of a client: the rows beyond the
cursor in order, broken off after any of them. Handlers of one session do not
take turns: nothing in the code makes them. `overlapped` is history: the pairs
whose transactions were open at once, which the properties need to say whose
events can come too late.

### AgentToolRegistry

*State.* `class` is `_tools`, `backlog` the executor's work queue, `worker` what
each thread runs, `future` the state of each work item, `result` and `audit`
what the caller is answered and what was recorded. `Take` and `Finish` model
`concurrent.futures` from how the registry uses it. The timeout (`Timeout`) and
`future.cancel()` (`Cancel`) are two steps: a worker can take the item, and the
handler can return, in between.

*Abstractions.* `Register` is one step, though `register` tests for the name and
then assigns without a lock: one thread fills a registry before it is handed to
any caller. The handlers of the tools and the validation of their input are
a choice of outcomes here; `ArtifactTools` has both.

### Catalog

*State.* `owner` maps every primary key to the row above it (`Top` above a
campaign), or to `Unborn` or `Gone`; `voice` is `character_id` of the voice
lines. A request has its `task` with the ORM copy it loaded, and a delete the
collections it still reads (`todo`), the rows it marked (`victims`) and the
lines it will silence (`muted`). `under`, `carried`, `spoke` and `met` are
history: `under` has the rows that were below the target of a delete at some
one moment while it ran. A delete reads collection after collection, so it can
also reach a row that was at no moment below its target, by way of a scene that
was moved away meanwhile; `carried` has those.

*Actions.* `Begin` is the first statement of a route of one of the six tables
(`CampaignRoutes` ... `BeatRoutes`): a GET, a POST whole (its INSERT and
COMMIT), the SELECT of a PUT or of a DELETE. A PUT goes on with `Write`, which
is of the columns that differ from the loaded copy, and `Refresh`. A DELETE
reads the collections the ORM cascades to one by one (`List`), then the lines of
the characters that go (`ReadVoices`), and `Flush` writes: SET NULL for those
lines, DELETE by primary key, and the database's own ON DELETE CASCADE below.
`WriteError` tells the IntegrityErrors that handlers catch from the errors they
do not.

*Abstractions.* Columns that are not keys are one flag (`other`). The writes of
one COMMIT are a single step: others cannot see them earlier, and rows they
change are locked. What waiting for locks can add is a deadlock, which takes a
delete and another writer (`Deadlocked`, `Fail`).

### ExportLedger

*State.* `campaigns`, `exports` and `snapshots` are the committed rows, `drawn`
the export ids of the sequence; a request has its `task` (payload and what it
loaded), the `locks` of its transaction, and its `answer`.

*Actions.* `Arrive` is the SELECT of a handler with the refusals that follow
(one operator per route: `CreateExport`, `UpdateVideo`, `CreateSnapshot`,
`Ingest`, `DeleteCampaign`). Then one action per lock its statements need:
`LockRow` (UPDATE exports), `TakeVideo` and `TakeSnapshot` (unique indexes),
`CheckExport` and `CheckCampaign` (foreign keys), `LockCampaign` and `Cascade`
(DELETE), then `Commit` and `Refresh`. Lock modes and their conflicts are
PostgreSQL's: a foreign key takes FOR KEY SHARE, an UPDATE that changes the
unique `tiktok_video_id` takes FOR UPDATE and keeps the old index entry locked.
`Deadlock` fails a statement of a cycle of waits, and `Fail` any statement.

*Abstractions.* Metrics, assets and episodes of an export are left out; the rows
below a campaign that are not exports are those of `Catalog`. Which of its
exports a cascade meets first is left open. Waiters do not wait for waiters
ahead of them.

### ArtifactRegistration

*State.* `files` is the file system (who wrote each file and whose output it
holds), `assets`, `edges` and `drawn` the tables and their id sequence. A run of
an adapter has its `task`, the position `at` of the output it registers, the
`target` chosen for it, the `sum` of the stored file, `copied_artifacts`
(`copied`), and the `rows` and `links` of its open transaction.

*Actions.* `Start` is the part of `run_legacy_command` and of its adapters that
refuses before anything runs; `Command` the script; then, for each output,
`Choose` (`_target_for`), `Open` and `Close` (`shutil.copy2`, which fills the
file it has emptied), `Checksum`, `Record` (`record_stored_artifact` with its
edges). `Commit` and `Rollback` are the caller's. `Fails` is any of these calls
raising, on nothing, a part or the whole of a copy, and leads to `Cleanup`, one
`unlink` at a time, which may raise too (`UnlinkFails`). `Crash` ends the process
anywhere. A copy whose target is removed under it (`detached`) writes to a file
without a name.

*Abstractions.* A name is a sequence of words, so the default names join
namespace and prompt as the code does. A file's content and checksum are the
run whose command wrote it. Metadata, sizes, job ids and command lines are left
out. `shared` is history: the paths at which two runs have met, which the
properties excuse and section 3 describes: both chose one name, a script wrote
or was expected to write where another run reads or stores, or it left in place
what an earlier run had written there. `stranded` is history too: the copies
that a failure has put out of the reach of the cleanup, because they are not in
`copied_artifacts` yet or because the loop over it has ended.

### IssueClosure

*State.* `issue` and `label` are GitHub's; each run has a `pc`, the numbers it
still has to visit (`todo`), the issue it closes and what it read of it.
`comments` and `task.after` are history. Each action is one HTTP request;
`Fail` ends a run at any of them, before or after GitHub has executed it, and
`Edit` is a person who opens, closes or labels an issue.

`Validate` visits all issues of the closure map, batches and epics in the order
of the file (`BatchOrder \o EpicOrder`); the closing loop visits the numbers that
the pull request refers to, as `sorted` puts them (`Ascending`), and then the
epics.

*Abstractions.* Titles, bodies and dry runs are left out; the two review labels
are one.

### ContentRules and its six modules

The pure functions change no state, so `ContentRules` picks a `problem`,
computes the code's `answer` in one step, and states what the answer promises
without the code's loops, sorts and searches. `RecommendationCards` has the
whole of `build_recommendation_cards` with scores in units of the tolerance.
`WorkflowValidator` has `_cycle_issues` as the recursive search it is (a function
of the path and what the search has found so far), with one `visited` set for all roots, for every order in which Python may walk the set of
a node's dependencies. `AgentRuntime` is one turn: the prompt that is assembled
and its fingerprint, mode, tools, what the HTTP transport makes of the network,
retries with backoff, normalised errors. `EditAdvice` is `validate_text_beats`
and the two tools that judge metrics and beats, whose answers on the same video
must agree; times are tenths of a second, retention is in per cent.
`AnalyticsParsing` reads a video's JSON and its summary row: a text is a
sequence of numbers in thousandths, each with the mark that follows it, and
whether a product of floats falls short of the integer is an input (`short`):
IEEE arithmetic is not computed, so the property says that whichever it is the
count is off by one at most, equal in both formats, and marked as an estimate.
`ArtifactTools` is the seven read-only tools with their input schemas over a
storage that is a set of files; a place is directories, stem and suffix, so that
safe paths, sidecars (`x.mp4.metadata.json`) and frame names (`x_1.png`) are as
the code builds them.

## 3. Runs

| Run | Instance | Question |
|---|---|---|
| `approval_races` | 3 requests, 1 approval that lives a tick, 1 restart | do decisions and launches stay exclusive, audited and final, is a lost claim always an expired one, is every request answered? |
| `approval_queued_twice` | 3 requests | *violated*: a job is in the queue once |
| `launch` | 3 requests, 1 approval, 2 workers, 1 step, 1 tick, 1 restart | from approval to finished work: granted, claimed, handed over and run, once, across expiry and a restart; the gate's invariant and contract; the queue in order as the gate fills it |
| `stream` | 3 handlers of a session, 1 client, 1 reload | the inductive invariant, resuming skips nothing but after an overlap, and delivery |
| `stream_concurrent` | 2 handlers of one session | *violated*: resuming skips nothing |
| `catalog` | 3 requests; a campaign with a character, 2 episodes, a scene, a line and a beat, or nothing | foreign keys, what deletes reach and take, what PUTs change, which 500s there are; no request stuck |
| `tool_calls` | 3 calls, 2 workers | the executor's invariant; audit; every caller is answered |
| `ledger` | 3 requests, 2 campaigns, 2 exports, 2 video ids | references, keys, nothing left of a failed ingest |
| `artifacts` | 2 runs, 12 kinds of request, 2 earlier artifacts | rows describe their files, failed runs leave only what the cleanup cannot reach, runs that return are recorded whole; no wait without end |
| `closure` | 2 runs, 2 epics that share a batch, 1 edit, 1 failure | no epic closed early or forgotten; reruns repeat nothing |
| `rules` | 135,486 problems and answers | cards, workflow, turn, advice, parsing and tools are as promised |
| `reply_malformed` | the same | *violated*: every error of a provider is normalised |

*Bounds and why they suffice.* Three requests on one approval are two decisions
and a launch, a decision and two launches, or a launch and two replays; the
guards of a request look at one row, so a fourth request repeats what one of the
three does. That rows of different approvals do not mix is proved (section 4).
One tick separates before and after the expiry; lifetime 0 makes an approval
expire in the instant it is made, lifetime 1 while a request is under way. One
restart is enough for a loss; a second one starts from the same empty queue. Two
workers are what a job that was queued twice needs to be met twice.
One step can wait, be under way, be done and be marked as failed; for any number
of them the queue's invariant is proved. The
stream has a bound on the events of a transaction (2) and on reloads (1): a
batch with a first and a last event is what a reader could see half of. Three
handlers are two that overlap and one whose event a client reads in between;
other sessions draw ids of the same sequence, which a handler that rolls back
does as well, and the theorems are about any number of them. In
`tool_calls` two handlers can hold both workers while a third call waits. In
`catalog` a scene moves between two episodes while a delete reads them, a
character is voiced, changed and deleted under a line, and three requests are a
delete, one that it meets and one that creates what it has read past; what holds
of any number of rows is proved. In `ledger` three requests are what the longest
cycle of lock waits found needs; two values of each key are needed for a
conflict and for its absence. Initial tables of the ledger are all those that
completed requests can have left, with no snapshots. In `artifacts` two runs can
choose one name, wait for each other's row and clean up under each other; an
adapter with two outputs fails between them; the requests cover each adapter,
each refusal, a missing parent, one given twice and one that has children. In
`closure` one failure or edit at any moment separates a run that ends well from
one that does not. In `rules` three exports are a best, a middle and a worst;
three nodes have all cycles up to length three with a path into each; three
attempts are what the largest number of retries, two, allows; a file has an
artifact beside it in every relation the tools test (sidecar, frame, frame of a
longer name, other namespace, other depth, above the root).

*Fairness.* Every fairness is on a request that has started: the threadpool runs
the handlers it has started and PostgreSQL grants a released lock
(`approval_races`, the handlers of `stream`). A
client of the stream that keeps polling gets at least one more event per poll.
Nothing is assumed of workers, since this commit starts none: `launch` says what
they may do and not that they do it. In `tool_calls`
only callers are fair: a handler may hang for ever. Clients, clocks, failures,
restarts and timeouts owe nothing, except that a caller's own timeout passes.
Runs with a liveness property use no symmetry.

*Deadlock.* Most systems stop where all requests have been answered, so TLC's
deadlock check is off there; that nobody waits for ever is stated as liveness.
It is on in `artifacts` and `catalog`, where ended runs and requests stutter: no
two runs wait for each other's rows, because a file that exists is never chosen
as free, and a request of the catalog always has a next step.

*What the violations show.*

- `approval_queued_twice`: the claim is committed before the job is enqueued,
  and a replay tests for the entry and enqueues in two steps, so a replay in
  the gap puts the job into the queue a second time.
- `stream_concurrent`: event ids are drawn at INSERT and appear at COMMIT; a
  client whose cursor has passed a late id never receives that event.
- `reply_malformed`: a reply that is not the JSON it should be raises outside the
  `try` of the provider, so a raw error leaves the runtime, where
  `docs/agent-operational-hardening.md:33` wants provider errors normalised.

Other behaviour worth knowing, without a run of its own:

- An ingest compares its video id with a copy of the export read without a lock,
  so an attach in between leaves a snapshot of a video the export no longer has.
- A voice line moved to another scene after a delete of the old scene has listed
  it is deleted all the same; a line voiced anew after a delete has read that its
  old character goes is silenced, although the PUT was answered 200. A PUT or
  POST whose row vanishes before the refresh is committed and answered 500.
- A replay with the right key after the approval's expiry is refused, and marks
  a used approval expired, because expiry is tested before the claim;
  `docs/agent-operational-hardening.md:48` promises the original job.
- A restart between the claim and a worker loses the job until the client
  replays its key in time (`docs/milestones-epics-batches.md` plans durable
  jobs).
- Two clients that swap the video ids of two exports, or an ingest and a
  snapshot of one instant, deadlock in the database, and one is answered 500
  because the error is not an `IntegrityError`.
- Two registrations that choose one free name both copy to it. The second
  INSERT fails, its cleanup removes the file the first one has recorded, and
  the row that is left blocks the name: later imports find the name free on the
  disk and taken in the table, and fail. The path is in `shared`.
- Default output names join namespace and prompt with `_`, so namespace `a` with
  prompt `b c` and namespace `a_b` with prompt `c` write one file; a script that
  exits well without writing its output registers what an earlier run left
  there. A copy stays in the storage when a call on it raises before its checksum
  and size are taken, since it is not in `copied_artifacts` yet, and an `unlink`
  that raises leaves the copies after it.
- `close_delivery_issues.py` POSTs a missing label before it validates the map,
  which `docs/git-workflow.md` says comes before any write; a run that fails
  between its comment and its PATCH comments again when it is repeated; a label
  that a person sets between GET and PATCH is lost.
- A connection to the LLM that times out arrives as a `URLError` and is not
  retried, and an unknown profile ends in a raw error before anything is sent.
- Two prompts share a fingerprint when a text imitates the line that separates
  messages; the property excludes such texts.
- A scene that a delete has listed and that is moved away before it reads the
  scene's lines takes lines along that were written after the move.
- A count of `8.2M` is read as 8199999; `1h 30` is one hour and 30 seconds; a
  comma makes a duration unreadable but not a count; rows without an id share
  one entry of `snapshots_by_video_id`.
- An artifact below a nested namespace, or in no kind's directory, is listed
  under an id that no tool resolves, while its path does; its namespace and kind
  are the first two parts of its path, whatever was asked. Sidecars are not
  listed but can be named by path. The frames of `cut1` include those of `cut10`.
  `analyze_tiktok_stats` answers an unknown id with success and no rows, and one
  JSON file that is not text fails the whole call.
- `recommend_next_edit` advises hook text for a valid `no_text_experiment`, and
  its ranking compares different metrics of different variants and promotes one
  of two that tie.

## 4. Proofs

TLC checks the instances above. The theorems hold for any sets of requests,
approvals, keys, jobs, workers, rows, sessions, handlers, clients and runs, and
any bounds. They assume what the modules `ASSUME` of their constants, and
nothing else: model values are distinct, bounds are naturals, and

- `ExportLedger`: `NoRow`, which stands for an export that is not there, is not
  a row;
- `ArtifactRegistration`: a request is what its dataclass lets through
  (`RequestsAssumption`), and the earlier artifacts are files of the storage,
  each at its own path (`PresentAssumption`);
- `ContentRules`: keys are numbers that name one row each, numbers in a row may
  be NULL, and a snapshot has the campaign of its export (`CardsAssumption`; the
  last is what the ledger's `RowsAgree` says of the tables); texts are strings,
  the settings are any numbers and flags, and the network does one of
  `NetworkEvents` at every attempt that may be made (`TurnsAssumption`); an id,
  which is a path, names one artifact, a list of ids has one at least (a call
  without a list names its artifact by itself), and times, sizes and metrics are
  numbers, metrics possibly missing (`AdviceAssumption`);
- `RenderQueue`: that the number of steps is a natural is a hypothesis of each of
  its theorems; in `RenderLaunch` it is one of the assumptions.

*The gate* (`RenderLaunchProofs`, first half). None of the safety properties is inductive:
that launches agree, say, depends on what a handler between its UPDATE and its
COMMIT is about to write. `GateInv` adds what relates a handler to the row:

- `LockHeld`: a row lock is held only by a request that will commit that row;
- `DraftFollowsRow`: its draft is the committed row changed in one of three
  ways (decided, claimed, expired), so the guard of its UPDATE still holds when
  it commits;
- `HandlersInProgress`: a handler past its SELECT has a row, and an unsettled
  one has no answer;
- `QueuersHaveClaimed`: a handler on its way to the queue, or told that it
  launched, has its own job in the committed row.

`GateStep` shows it inductive, action by action. From it follow
`QueueServesClaimsAlways`, `LaunchesAgreeAlways`, `ClaimIsFinalAlways`,
`NoRevivalAlways`, and `GateKeepsContract`: under the mapping of statuses, jobs,
queue entries and answers, every statement is a step of `ApprovalContract` or a
stutter. Restarts and rolled-back transactions are included.
`ClientsAgreeAlways` adds `DecidedOnce`, inductive with `DecisionMarked` beside
`GateInv`: a handler about to commit a decision holds the row's lock, and one
that has committed it has left a row that is not pending and stays so
(`DecidedStays`), which the commit of another decision needs
(`DecisionCommits`). `LaunchAuditedAlways` adds `OutboxTellsAnswer`: a
transaction about to commit has inserted the events its answer stands for, and
no others, so a claim and its event become visible together.
`LostClaimIsExpiredAlways` adds `HandlersFitTime`: a launch goes on only with an
approved row, whose guard can then fail for two reasons, a taken claim and the
clock.

*The render queue* (`RenderQueueProofs`). `_queue` has ids, workers have
objects, and `QueueInv` speaks of both. `LineInv` joins them: `_jobs` points to
the newest object of an id (`EntryIsNewest`), the line is the ids of the newest
objects in the order of their calls (`FifoIsTail`), and an object that is still
in line, of an id that came once, is as `enqueue` made it and in nobody's hands
(`InLineIsUntouched`); what a worker holds is as far as the worker
(`WorkersFit`). `LineInvariant` shows it inductive; `QueueInvAlways` and
`OldestFirstAlways` follow.

*Gate, queue and workers* (`RenderLaunchProofs`, second half). Every step of the composition
is a step of the gate or a stutter of it (`LaunchIsGate`), so `GateInvAlways`
and `LaunchKeepsContract` carry over; it is also a step of the queue, of which
the module has an instance, so that the queue's invariant holds of the line as
the gate fills it and the process loses it (`QueueKept`, `LineQueueInvAlways`). `BoundNeverBites` shows that
the queue's bound on objects excludes nothing here: a request enqueues at most
once. `WorkIsCommittedAlways` follows with `LaunchInv`: an object is made only
by a request that `QueuersHaveClaimed` describes, objects keep their ids
(`WorkKeepsIds`), and a committed claim is final (`CommittedStays`).
`WorkIsGrantedAlways` adds `GrantRecorded`: an approved row has its event of the
grant, and a claimed one the event of its use after it. For
`OneJobPerApprovalAlways` every object has a launch of its own, which has been
answered (`EachHasLauncher`); `AnsweredWorkExistsAlways` follows from the
queue's `WaitingIsInLine`, since the gate knows exactly the jobs that have an
object (`JobsKnown`).

*The catalog* (`CatalogProofs`). `Below` walks three levels down and reaches
everything (`BelowIsClosed`) and nothing else (`BelowIsLeast`), because
`Consistent` tables are that deep. `CatalogInv` says besides that what a write
is about to store fits its columns (`WritesFit`), and that the rows a delete has
marked were below its target at one moment, or were below such a row when it
read them, and the lines it will silence are spoken by one
of them (`DeletesBelow`). `CatalogConsistent`, `DeletesTakeWhatTheyReached` and
`NothingChangesUnasked` follow for any number of requests, rows and tables'
contents. For `OnlyDeletesCauseErrors` `MissesInv` says that a request which
misses a row it loaded, or has failed, has met a delete: rows are taken by the
flush of a delete only (`OnlyFlushTakes`).

*The ledger* (`ExportLedgerProofs`). The rows alone are not inductive: what
keeps two exports from one video id is an index entry that an open transaction
holds. `TablesInv` says that no two transactions have locks that exclude each
other (`LocksAgree`), what a lock means for the row or key it is on
(`LocksMean`), and which tests a transaction has passed where it is, each with
the lock that keeps it true (`Tested`): the id it writes is on no other export,
the campaign and the export it refers to exist, the exports it deletes are all
that the campaign has. Each commit then writes only what its locks vouch for,
and the steps of the others cannot disturb it without a lock they do not have.
`LedgerInvAlways`, `RowsAgreeAlways` and `AttachedTogetherAlways` follow;
failures and deadlocks only release.

*The event stream* (`AgentProofs`, second half). All of it holds of handlers in
any interleaving. The ids of an open transaction are beyond every committed id
of its session but those of transactions it overlapped (`OpenIsLatest`), so a
cursor, which is a committed id (`CursorsCommitted`), is beyond one of them only
then: `StreamInvariant` shows this inductive, and `SkippedOnlyWhenOverlappedAlways`
follows. `NoneSkippedInTurns` is its corollary for a log in which no two
transactions of a session have overlapped: there nothing is skipped at all.

*The tool registry* (`AgentProofs`, first half). `RegistryInv` ties the executor
together (a call is queued, runs on one worker, or neither, as its future says)
and is inductive as it stands. From it follow
`RunsOnceAlways`, `AuditIsAnswerAlways` (however late a handler ends) and
`CancelledStays`: a call cancelled in the queue never runs.

*Artifacts* (`ArtifactRegistrationProofs`). Three inductive invariants. `Stored`
says where each run is with the file it registers: a target it chose is free or
`shared` (`ChosenFree`); what it has copied, and is not shared, is there and its
own (`Held`), with the content of its source, which is what the run's own
command wrote (`Outputs`, `Copied`); a row, of the open transaction or
committed, describes such a copy (`RowsStored`, `AssetStored`); and nothing is
copied twice in one run (`CopiedOnce`). A step of one run keeps this for the
others (`OthersKept`, `SourcesKept`, `ChosenKept`), unless it marks the path
shared. `RecordedIsStoredAlways` follows. `FreeIndex`, a CHOOSE, is a free name
because finitely many files cannot take every index. `Explained` accounts for
each file of the storage that a run wrote: its command's, in `copied_artifacts`,
the copy in hand, or out of the cleanup's reach by a call that raised, so that
the cleanup leaves what `FailedLeavesStrandedAlways` says: `stranded` grows in no
other way. `Recorded` has `Explained` in it and follows
the rows: ids and paths are unique over committed and open rows (`Numbered`),
and a run has one row, with all its edges, for each output before the one it is
at (`Progress`); where it returns that is all of them (`Whole`), which is
`RegistrationInvAlways`.

*Issue closure* (`IssueClosureProofs`). The properties speak of issues no person
has edited, and none is inductive: whether a run closes an epic too early depends
on what it has read and passed. `ScriptInv` says it of each run (`RunFits`): it is
at an issue of its loop, and in the second loop at epics (`Placed`); it has read
the type label of what it closes (`SeenFits`); the batches of its epic that it
need not read any more are closed (`HasRead`), and so are those of its request
that it need not visit any more (`Visited`); the runs that were over before it
began were done, and it does not comment on what they closed (`Quiet`).
`NotForgotten` speaks of all runs at once: an epic that could be closed is still
ahead of one of them, or none has passed it. `Visited` rests on a run visiting
every number of its request: `AscendingIs` says that `sorted` yields the numbers
in order, and `CanBeSorted`, that there is such a sequence for the CHOOSE to
find, by induction on the size of the set. `ClosureInvAlways`,
`EpicHasBatchesAlways`, `RerunIsQuietAlways` and `EpicNotForgottenAlways` follow,
for any map of batches and any number of runs, edits and failures.

*Cards, turns and advice* (`ContentRulesProofs`). The answers are computed in one
step, so `CardsInv`, `TurnInv` and `AdviceInv` only say of which problem an answer is;
the proofs are about the functions. For the cards, `UniqueIdsAre` says what the
thinning of the ids leaves (the first mention of each, in order), by the
recursion over finite sets that `SubsetRecursion` provides; `CanBeArranged`
shows that every finite set can be listed in every strict order, so the CHOOSE
that stands for `sorted` and ORDER BY finds a list; `LatestIs` and `VerdictIs`
say that the first snapshot of that list is the latest, and that the three
counters of the verdict compare in pairs. `CardsRightAlways` follows for any
number of exports, snapshots and scores, with NULLs and ties. For the turns,
`LastIs` and `WaitsGrow` are about retries and waits, for any settings, also
negative ones. The fingerprint is the hard part: it concatenates the messages
and loses where they end. `BlockCut` shows that a concatenation can be cut in one way
only where blocks begin with a role and no other of their lines does, and
`FingerprintTells` cuts off the four messages that vary, from the last to the
first; `Unfeigned` texts are what makes a message such a block (`TitledBlock`,
`RulesCalm`). `TurnAnsweredAlways` follows, for any prompts; of a malformed reply
it says nothing, since what should become of one is what `reply_malformed`
refutes. For the advice,
`FirstTextIs` is why the validator and the tool agree on a missing hook, though
one looks for any beat before the deadline and the other at the first: the least
start is within it exactly when some start is. `AllForIs` says what the advice
on all variants holds, in the order it is concatenated; `RankIs` takes the
stable descending sort from `CanBeArranged`, so `WinnerIs` may read the best and
the worst score at its ends; `LargestIs` is the same for sizes.
`AdviceAgreesAlways` follows, for lists of any length, ids that repeat included.

*What the proofs changed in the models.* A row of the ledger that vanished
before its lock met two overlapping CASE arms in `LockRow`; they are one test
after the other now, as in the code. `NoRow` had to be told from rows. `shared`
missed that a script which exits well without writing its output lets its run
register a copy that another run has put there: with two requests of suitable
names `RecordedIsStored` would be false, and the instance TLC checks has no such
pair. A parent of an artifact may be a row of the same transaction, since a
foreign key sees those (`Visible`). The closure script reads the map in its own
order, not in an ascending one, before it validates, and with an empty map it
goes straight to the pull request, where the model took the head of an empty
sequence. A negative cap on the waits, which the environment may set, is taken
for zero; the property said they were within the cap as it is written, and the
instance had no negative one. The recursive search of the validator and the
growth of the waits are functions now, and the advice ranks positions of
variants, a set, where it filtered a sequence.

*Only model-checked.* All liveness properties (fairness and `ENABLED` are out of
the prover's reach). Of `ContentRules`, the workflow validator's search
(`WorkflowJudged`), the seven tools (`ToolsAnswer`) and parsing
(`ParsingAgrees`): what a search, a fold or a float computes for every input
would be an induction over the shape of the input. (Over the naturals and finite
sets induction is available, as `NatSetInduction` and `SubsetRecursion`: they
take a set and not a predicate, so the provers can instantiate them.)

## 5. What is not modelled, and the plan

Modelled so far, in the order of their weight: the gate, the queue it feeds and
both together, the event stream, the catalog, exports and ingestion, the tool
registry and its tools, artifact registration, issue closure, parsing and the
other functions without state. What would come next is exports below the rows
of `Catalog`, to have one table of cascades.

A run is added only for a question none of the runs above asks.

Not modelled, and why:

- `providers/ffmpeg/commands.py` formats command lines; nothing depends on more
  than their text.
- Configuration, logging, start-up and health checks read the environment and
  report; they keep no state that other parts change.
- The worker container is a standby loop that takes no jobs.
- `scripts/sync_github_issues.py` is a sequential script with one operator that
  only creates what it does not find. (It asks for 100 issues and milestones and
  no further page, so in a larger repository it would create some again.)
- The frontend shows static data and calls the API as any client does.
- Of the LLM provider: models and reasoning settings in the payload, requests
  with images, and streaming, which the runtime never asks for.
- The ComfyUI client sends a workflow and returns the reply; its validator is
  `WorkflowValidator`.
