# SlackBot (TYBot): a verification project

TLA+ models of TYBot's archiving side and of the services around it, the TLC
configurations that check them, and theorems about them checked by TLAPS. Paths such as
`archive/ingest_ack.py` are below `src/tybot/` of the repository unless they
start with `scripts/` or `deploy/`.

TYBot is a set of Python processes around Slack and PostgreSQL. The *Master*
answers questions and used to be the only one to archive channels; the
*Archiving Bot* is taking that over, channel by channel. Both write Markdown
archives on disk, which a search index is built from. A web *console* lets
people steer them, and systemd timers start the hourly and nightly jobs. The
processes share rows and files and no memory: nearly everything that can go
wrong goes wrong between a read and a write of two of them.

## 1. Inventory

### Core components

| component | state it keeps | operations | interacts with |
|---|---|---|---|
| Channel modes (`archive/archiving_state.py`, `deploy/sql/archiving_schema.sql`) | `archive_channel_mode`: mode, owner, cutover coordinate, membership, operator hold | `plan_mode_change`, `may_write_live`; CHECK constraints | console, sync, both writers |
| Console actions (`console/archiving_admin.py`, `archiving_repo.py`) | the same row, the global switch | `set_channel_mode`, `set_collection_hold`, `set_feature_flag` | row |
| Right to write (`archive/write_owner.py`) | a verdict cached for 30 s | `OwnerLookup.state`, `decide` | asked by Pilot, Collector, Archiving Bot |
| Handover (`archive/handover.py`) | none (it reads the row) | `plan`: pause, drain for 60 s, activate | people follow it in the console |
| Membership sync (`archive/channel_membership.py`) | the row's membership | `sync`, `ensure_registered`, `apply_plan`, database function `archiver_save_membership` | Slack, row |
| Ingest (`archiving_bot.py`, `archive/writer.py`, `files.py`, `attachment_writer.py`) | raw documents, originals, attachment documents | `ingest_message` with eight recording steps | acknowledgement, conversion queue |
| Ingest acknowledgement (`archive/ingest_ack.py`, `ack_reconcile.py`, `attachment_ack.py`) | `archive_ingest_state`, an outbox file | `advance`, `drain_outbox`, `run`/`refresh_one` | ingest, drain of the queue |
| Conversion queue (`conversion_queue.py`, `scripts/drain_conversion_queue.py`) | `conversion_job`, `conversion_breaker` | `enqueue`, `claim`, `reclaim_expired`, `succeed`, `fail`, breaker | ingest, nightly job, console |
| Backfill (`archive/backfill*.py`, `console/supervisor_*.py`, `lock.py`) | `archive_backfill_job`, `archive_channel_cursor`, the instance lock | `request_backfill`, `cancel_backfill`, `claim_backfill`, `run`, `finish_backfill`, `fail_interrupted_backfills` | console, Slack's history, ingest |
| Image descriptions (`archive/image_description_*.py`, `image_model_catalog.py`) | policy, catalogue, approval, clearance, `archiver_image_description_job` | `save_policy`, `approve`, `revoke`, `reserve`, `begin_dispatch`, `finish_and_publish`, `reconcile_stale_dispatches` | console, a batch per workspace, a paid or free model |
| Reminders of meetings (`schedule_dm.py`) | `schedule_dm_preference`, `schedule_dm_delivery` | `plan`, `claim`, `send_due`, `enable`, `disable` | timer, people's buttons, the calendar's import, Slack |
| VIP answers (`vipbot_event.py`, `vipbot_event_claims.py`, `vipbot_delivery.py`, `vipbot_runtime.py`) | claims in SQLite, grants and source channels in the database | `claim`, `authorize`, `generate`, `deliver_*`, `grant`, `revoke` | Slack's events, console, model |
| Summary review (`summary_review.py`, `daily_review.py`, `canvas_answer.py`) | `summary_review_candidate`, `_artifact`, `_delivery`, `review_digest_sent` | `run`, `expire_unconfirmed`, `pending`, `_canvas_round`, `decide`, `approve_all`, `refresh_artifact_state` | timer, console, the bot's buttons, Slack's Canvases and messages |
| Revisions (`archive/revision_store.py`) | numbered revisions of a message | record, read | ingest |

### Around them

Conversation and answers (`slack/pilot.py`, `answer.py`), specialists, the LLM
gateway, the embedding and search indexes, polls and the import of schedules,
retention, deploy approval, the rest of the console, user
sync, file locks and the vendored Hermes sub-bot.
`PROJECT.json` lists every one of them with the reason it is not modelled: most
are sequential, or text in and text out, or one row with one writer; some are
planned (section 7).

### What is hard here, and what correct means

- **Two writers, one channel.** No lock spans the Master and the Archiving Bot.
  Exclusion rests on waiting out a cache after a pause. Correct: after a settled
  handover the two never write one channel at once; a pause that lasted is empty.
- **Plans older than the row.** The sync reads Slack, then the row, then writes;
  the console changes the row in between. Correct: no stale plan moves ownership,
  undoes a person's stop, or makes a row the table cannot hold; a removed bot is
  noticed in the end. One row the database refuses ends a round for all channels
  that come later.
- **At-least-once delivery.** Slack redelivers, backfills overlap live events,
  facts wait in an outbox and are replayed. Correct: the row only moves forward,
  a replay does nothing, nothing spooled is lost, and *ready* is true of the
  archive.
- **Leases without fencing.** A run may outlive its lease and close jobs by id.
  Correct: sharing is confined to lapses, the count of attempts is honest, a
  success means a published document and is not taken back by the queue.
- **A gap behind a cursor.** A backfill reads history, then replies, then stores,
  while people post, channels are closed, the process dies and its lock may be
  lost. Correct: a cursor passes nothing its job found and did not deal with; a
  job closed as succeeded left nothing out; an ended job never changes.
- **What cannot be taken back.** A photo sent to a model, a reminder or an answer
  posted to a person: each is recorded by a later transaction, and a process may
  die in between. Correct: a photo is sent once for ever, a reminder once for each
  lock that is not lost, a question gets one reply; what is begun is closed.
- **People who change their minds.** An approval, a grant or a preference is
  withdrawn while a batch, a model or a plan works from the old one. Correct: the
  withdrawal is seen at the last look before the irreversible step.
- **An outbox of calls that are not idempotent.** A review writes a row, makes a
  Canvas, grants rights, posts messages and notes each afterwards. Correct: one
  Canvas per round however the answers are lost (finding 8), nothing dropped as unconfirmed
  that nobody saw, no round closed with something left to decide.
- **Crashes** between any two steps of all of these.

`PROJECT.json` lists every hazard at its line with the properties that watch it.

## 2. Modules

| module | models | extends |
|---|---|---|
| `ChannelMode` | the row and every function that changes or judges it, as operators | |
| `ChannelHandover` | console, Slack, syncers, Pilots, Collectors, Archivers and time around one row | `ChannelMode` |
| `ChannelHandoverProofs` | eight theorems, and two of `MCWriting` | `MCWriting`, `ConversionQueueProofs` |
| `AckPromise` | abstract: what the ingest state of a message promises | |
| `IngestAck` | handlers, outbox, drains, reconcilers, conversions, faults for one message | instantiates `AckPromise` |
| `IngestAckProofs` | seven theorems | `IngestAck` |
| `ConversionQueue` | jobs, breaker, drain runs | |
| `ConversionQueueProofs` | six theorems | `ConversionQueue` |
| `BackfillPromise` | abstract: what jobs, cursors and the archive promise | |
| `Backfill` | consoles, archivers, jobs, cursors, messages of several channels | instantiates `BackfillPromise` |
| `BackfillProofs` | seven theorems | `Backfill` |
| `OncePromise` | abstract: an effect that cannot be taken back, permitted once | |
| `ImageDescription` | policies, catalogue, approvals, clearances, batches of several workspaces, jobs | instantiates `OncePromise` |
| `ImageDescriptionProofs` | seven theorems | `ImageDescription` |
| `MembershipSweep` | the periodic sync's round over several channels, the console and Slack's members | instantiates `ChannelMode` |
| `ScheduleDm` | meetings, preferences, the queue of reminders, several runs, a clock | |
| `ScheduleDmProofs` | six theorems | `ScheduleDm` |
| `VipAnswer` | grants, sources, deliveries of Slack, claims, listener threads | instantiates `OncePromise` |
| `VipAnswerProofs` | six theorems, and two of `MCServices` | `MCServices`, `BackfillProofs`, `ImageDescriptionProofs`, `ScheduleDmProofs`, `ConversionQueueProofs` |
| `SummaryReview` | candidates, rounds, Canvases, messages of one channel; the run and the buttons | |
| `SummaryReviewProofs` | five theorems, and two of `MCReviews` | `MCReviews`, `IngestAckProofs` |
| `MCChannelHandover`, `MCIngestAck`, `MCConversionQueue` | model values for TLC | `ChannelHandover`, `IngestAck`, `ConversionQueue` |
| `MCWriting` | model values, one component at a time | `ChannelHandover`, `ConversionQueue` |
| `MCReviews` | the same | `IngestAck`, `SummaryReview` |
| `MCServices` | the same | `Backfill`, `ImageDescription`, `ScheduleDm`, `VipAnswer`, `ConversionQueue`, `MembershipSweep` |

### `ChannelMode` and `ChannelHandover`

`row` is one row of `archive_channel_mode` (mode, owner, cutover, membership,
hold), with `NoRow` for a channel nobody registered. `plan_mode_change`,
`plan_sync`, `archiver_save_membership` and `set_operator_hold` are the
functions of those names; `SatisfiesChecks` is the table's constraints. An
action is one transaction, one request to Slack, or one verdict:

- `SetChannelMode`, `SetCollectionHold`, `SetLiveSwitch`: console requests. The
  readiness gates of an activation are taken as open (they only make fewer
  activations possible), except the live switch, which is state.
- `SyncFetch`, `SyncPlan`, `SyncApply` and `EventLook`, `EventFetch`, `SyncApply`:
  the periodic sync reads Slack, then the row, then writes; discovery reads the
  row first. Any other action may come between.
- `PilotVerdictFromCache/FromTable`, `CollectorVerdict`,
  `ArchiverReadsRow/ReadsSwitch/Verdict`, `WriteEnds`: a verdict and the write
  that follows it. Pilots share a cache; a failed read is answered as for a
  missing row and remembered as such.
- `Tick` ages the cache, the writes and the pause.

`pausedFor` and `cut` are history: how long the row has been paused, and
whether the last change of owner came on a settled pause.

Verdicts given while the database cannot be read are marked `degraded`. The code
chooses on purpose to keep collecting then, so the exclusion claim is about the
writes decided on a row that could be read.

### `MembershipSweep`

The round of the periodic sync over the channels of a workspace: `fetch_joined` asks
Slack, `plan_all` reads the table and applies `plan_sync` to each channel, and
`apply_plan` writes the plan row by row, the joined channels in any order and then the
left ones by their ids. A row that `archiver_save_membership` raises on
(`MembershipRaises`) ends the round; the loop logs it and starts the next. Between any
two steps the console changes modes and holds, and Slack the members. Writers and
discovery are in `ChannelHandover`, around one channel. `Blocks(d)` names the one kind of
row that ends every round: held, off, and the bot in the channel.

### `AckPromise` and `IngestAck`

One message, with its files, its text and what screening refuses of it. A
handler is one run of `ingest_message`; `pc` names the recording step (`_ack`)
or working step it is at. `advance` tries the database, then the outbox file,
then gives up; `write` is `_next` with the rest of `_write`, under the advisory
lock of the message. A drain is in steps, `DrainLine` by `DrainLine`, because other writers
get in between its transactions; spooling waits for the file's lock. A fault
may leave a write committed although it was reported as failed.
`Recount` and `Push` are `ack_reconcile` reading a row and pushing its decision
later. `owed` is history: what was spooled and not accepted since.

One branch of `ingest_message` is left out: a message whose raw line
is not found after a write that reported no error. Duplicate lines lie in the
file of their own day, where the confirmation looks, so the branch cannot be
entered by the steps modelled. A document's locks, formats and conversion
engines are abstracted to how many files are searchable.

`AckPromise` is what a reader of `archive_ingest_state` may rely on: forward
edges only, ends are ends, `live` never goes back to `shadow` once ready.
`PromiseKept` is `AckPromise!Spec` with `state <- status.state`,
`dest <- status.dest`.

### `ConversionQueue`

`job[j]` is a row (state, attempts, due, lease), `run[w]` a process of the drain
script with the jobs it was given. Actions are transactions or conversions:
`Reclaim`, `LookAtBreaker` (a transaction of its own inside `claim`), `Claim`
(with the give-back of jobs under an open breaker), `ConvertJob`, `Publish`,
`Succeed`, `FailReads` and `FailWrites` (the row is read without a lock),
`Enqueue`, `Dies`. Leases, pauses and the breaker's probe run out at any time,
so all lengths of conversions and leases are covered. Codes of failure are
grouped by what they do to the job and to the breaker. Ties in the order of
claims are left open: locked rows are skipped, so any choice is possible.

All jobs share one converter, so that the breaker matters. `tried`,
`lapsed` and `forced` are history.

### `Backfill`

`ticket[j]` is a row of `archive_backfill_job`; ids are taken in order. `desk[c]` is
a request a console has checked and not yet inserted: the transaction is READ
COMMITTED, so another may be inserted in between. `archiver[a]` is a process of
the archiving bot with what it holds of its job. `run_targets` has a step for
each read of Slack (`ReadHistory`, `ReadReplies`), each ingest (`ingest`, with every
answer `ingest_message` gives) and each save of a cursor; `claim_backfill`,
`finish_backfill` and `fail_interrupted` are transactions. A session that holds
the lock may break (`LoseLock`) while its process works on; a process may die, or
the database fail, anywhere.

What is left out, and why it may be: a dry run writes nothing and is one step; the
cursor read with the targets is not kept, since the save takes the greater of the
two in the database anyway; the 20 newest jobs a request is checked against are
more than the instances have; the desired mode of the supervisor and its
generation are another row. A live message is stored in the step it is posted, or
missed. `HistoryWindow` is what `conversations.history` returns without
`inclusive=True` (`backfill.py:276-281`): a post exactly at either bound is left out.
`owed` is history: what was posted in a job's scope when it chose its channels and is
in reach of its reads (`InReach`). Out of reach are replies to a parent at or before the
lookback, which the code documents that it does not see (`backfill.py:52-62`), and a
post exactly at the end of the scope, which `_in_range` counts and the history does not
return; no text of the repository says which of the two is meant. `abandoned` and
`lockLost` are history too.

`BackfillPromise` is what a reader of jobs, cursors and archive may rely on: jobs are begun in
the order they were asked for, an end is an end, a job's debt is settled once, and
neither a success nor a cursor leaves a known debt behind. `JobPromiseKept` is its `Spec`
with `state` read from `ticket` and `handled` from what the archive has or refused.

### `ImageDescription`

An identity is a photo and a route (a model of a provider). `ledger[i]` is its row
of `archiver_image_description_job`; `batch[w]` is the run of a workspace's timer
service, which an instance lock and systemd's oneshot keep alone in its workspace.
A batch first closes what is stale and reads the policy (`run_once`), then for each
source looks for approval and clearance (`checks_for`), reserves, begins the
dispatch, calls the model and records the end, each of the last four in a
transaction of its own under the store's advisory lock. Consoles save policies and
catalogue entries, judge, approve and revoke at any time; an approval and a
verification may expire. A batch may die anywhere, and the store may fail.

Two pairs of reads inside one batch are merged into one step each, because nothing
is written between them and everything is checked again under the lock. A
dispatch may always be refused (`DispatchRefused`), which stands for the expiry of
the receipt and for every reason that lies in the bytes of the photo. A provider's
quota is unlimited. A clearance is the newest judgement of the photo. `old` marks a
dispatch that is older than the 900 seconds after which it counts as stale.

A save of a catalogue entry names the revision it has read. `finish_and_publish` closes a
model that charged and leaves that revision as it is (`image_description_store.py:858-864`),
so an entry read before the charge may still be saved after it, as free: `save_catalog`
is either of a person who saw the charge or of one who did not. `ChargeStopsModel` says
what is left: no dispatch on a model with a charge that nobody saved over since.
Nothing in the repository calls `save_catalog`, so the model takes no more for granted
than its own check. `sent`, `charged` and `reopened` are history.

`OncePromise` is what sending a photo to a model and replying to a question have in
common: a row permits the effect once and for ever, before it takes place, and it takes
place at most once. `SendPromiseKept` reads the permission from `ledger` (dispatched, or
any state after that) and the effect from `sent`; `ReplyPromiseKept`, in `VipAnswer`,
reads them from `claimed` and from `answers` and `denials`.

### `ScheduleDm`

`dm[k]` is a row of `schedule_dm_delivery` for a meeting and a person, `sender[r]` a
run, either the timer's or one started by hand. `plan_dm` applies the statements of
`plan()` in their order and keeps the result to itself: `plan` is what it will write and
`held` the rows it has locked, until `commit` shows them. Others see what is committed;
who wants to change a held row waits, and `SKIP LOCKED` passes it over. An opt-out is
three steps: `disable` stores the wish, `StartCancel` is the moment at which
`CANCEL_ALL_PENDING_SQL` searches what is committed (READ COMMITTED), `cancel_pending` the
moment it has the rows it found, looked at again. A row that a plan in flight inserts,
revives or releases is not found and not waited for: it is `escaped`, like one a run
has claimed. `claim_due` takes the rows, and each is loaded, posted and marked in
three steps. Marks go by the id alone, as in the code. One tick of the clock is
ten minutes, which is both the lead time and the grace; a growing backoff and the
age of a lock (5 minutes) are flags that any moment may raise.

Left out: routing between workspaces, the limit of 50 rows a claim takes, and the
mode with personal access lists, in which the recipients are checked once more
before the post. A run with `--plan-only` is one that dies after its commit.
What earlier runs left (`LeftBefore`) is an initial state: nothing, a cancelled row, or
one claimed by a run that died, so that revivals and releases meet an opt-out in few
steps. `MeetingChanges` moves, deletes, hides or restores a meeting as `schedulesync.py`
and the folder's rights do. The two statements of `enable` are one step, those of
`disable` are apart (the button's connection commits each). `wishes` is what the
person last asked for, `prefs` what the table says: finding 6 is their difference.
`escaped` is history.

### `VipAnswer`

A listener thread takes a delivery, claims its event id in SQLite, asks the database
what the person may see, generates from that scope, asks again and delivers only
if nothing changed. `inbox` counts deliveries Slack has made; `Redeliver` makes
another. A scope is a grant with the registered source channels. Any call of a
thread may fail, the process may die (`Restart`) with all its threads, a message may
be sent though its answer is lost. `overtaken` is history: threads whose scope was
not in force the last time they could look. The engine that writes the answer and
the context of follow-up questions are left out.

### `SummaryReview`

`candidate[c]` is a row of `summary_review_candidate`, numbered in the order of
creation; a digest is the first number of its generation. `round[a]` is a row of
`summary_review_artifact`, of a day and the digest of its oldest candidate, with the
candidates fixed when it was begun. `session` is the one run an instance lock
admits, with its step and what it has read; `press[r]` is the handler of a
reviewer's button. A step is a statement that commits or a call of Slack:
`StartReview` (with `expire_unconfirmed`), `TidyReads` and `TidyWrites` (a round's state
is read and written by two statements, and handlers come between), `Generates`,
`ListPending`, `BeginRound`, `CanvasMade`, `GrantReaders`, `MarkRound`, `SendMessage`,
`RecordSent`, `DateSent`, `MarkShown`; and `decide`, `approve_all` with `approve_next`,
`RefreshReads`, `RefreshWrites`. Every call may fail with or without its effect, and
`ReviewDies` and `HandlerStops` come anywhere. Without a Canvas the candidates go out
as a list (`List`), whose buttons carry no round and are checked against
`review_digest_sent` only.

Abstractions, and why: whether a run generates anything is a choice, which covers the
cursor, the source runs, the hour between attempts and the model; rows generated
together have the same creation time, so which of them make a page is open; a
message of a round lists the round's candidates, found again at each press by the
round's id. `NextDay` lets a run see one midnight, as systemd stops it after 15
minutes. `expire_unscoped` (`summary_review.py:615-636`, called at `:2195-2199`) is left
out: it expires open candidates whose source channel is not known, which only versions
before B-61 made, seen or not; `ExpiredWasSeen` speaks of the rows the present code
makes. `canvases`, `linkRefusals` and `seen` are history.

### `MCWriting`, `MCReviews`, `MCServices`

The components of one of these share no variable and no file, so their behaviours
together are the interleavings of their behaviours, and no property here speaks
of two of them. One (`active`) moves in each behaviour and the others stay in one of
their initial states: what the run shows of each is what a run of its own would.

## 3. Runs

| run | instance | shows |
|---|---|---|
| `writing`, handover | a Pilot, a Collector, an Archiver, a periodic syncer; cache 1 tick, write 1, settle 2 | `SettledHandoverIsExclusive`, `SettledPauseIsEmpty` |
| `writing`, queue | two jobs, two runs, one attempt, threshold 1 | `SucceededIsPublished`, `SharedOnlyAfterLapse`, `AttemptsAreRuns`, `SuccessStaysUnlessOvertaken` |
| `writing`, membership | a periodic syncer and a discovery, coordinates 0..2, no writers | `AcceptedModesAreStorable`, `SyncNeverMovesOwnership`, `SyncNeverLiftsHold`, `CutoverNeverMovesBack` |
| `collector_pacing` | the code's own seconds in ticks of 30: cache 1, settle 2, write 3 | **violated**: finding 1 |
| `pause_resumed` | a syncer and the console | **violated**: finding 2 |
| `reviews`, ingest | two handlers, two deliveries, a reconciler, no faults | `ReadyMeansSearchable` |
| `reviews`, reviews | one reviewer, two candidates, two days in a row with a review each, one incident | `ExpiredWasSeen`, `DoneMeansDecided` |
| `reviews`, outbox | a handler, a delivery and a redelivery, two faults | `OutboxHoldsWhatIsOwed`, `ReplayChangesNothing`; `ReadyMeansSearchable` and `PromiseKept` hold in both ingests |
| `ready_unchecked` | a handler, a reconciler, a fault | **violated**: finding 3 |
| `refused_in_part` | a handler, cut off, redelivery | **violated**: finding 4 |
| `services`, backfills | two archivers, two consoles, two jobs, two posts and a reply in one of two channels, a scope that starts on a post and one that ends on one, one upset, fair | `SucceededMeansComplete`, `RunningIsRun`, `CursorPassesOnlyHandled`, `JobPromiseKept`, `EveryRequestEnds` |
| `services`, images | two workspaces with a photo each, one model, two approvals, limits of one or of two over all workspaces, one event, fair | `SendPromiseKept`, `RevokedLeavesNothingReserved`, `CapsHold`, `ChargeStopsModel`, `DispatchingEnds` |
| `services`, reminders | one meeting of one person, new, cancelled or left claimed, a timer's run and one by hand, two attempts, three ticks, one turn, fair | `RemindedOnce`, `TriesAreBounded`, `OptOutIsHeeded`, `ClaimsEnd` |
| `services`, VIP | two questions of one person, one of them in a channel, two threads, two rooms, two shifts | `ReplyPromiseKept`, `RevokedIsNotDelivered`, `NoticeTellsTruth` |
| `services`, queue | one job, two runs, two attempts, threshold 2, fair | `CapIsKept`, `LeaseEnds` |
| `services`, sweep | two channels, coordinates 0 and 1, three presses at the console, fair | `RemovalIsNoticedUnlessBlocked` |
| `one_run_at_a_time` | one job, two runs | **violated**: finding 5 |
| `opt_out` | the reminders of `services` | **violated**: finding 6 |
| `deferred` | one candidate, one reviewer, reviews on days 1 and 3, no incident | **violated**: finding 7 |
| `one_canvas` | one candidate, one reviewer, one day, one incident | **violated**: finding 8 |
| `sweep` | the sweep of `services` | **violated**: finding 9 |

`writing`, `reviews` and `services` also check the type invariants of their
components (`WritingTypeOK`, `ReviewsTypeOK`, `ServicesTypeOK`).

### Why these bounds

- *One channel, one message.* Rows, verdicts and plans of different channels
  never meet, nor do rows and archive lines of different messages, except in the
  outbox file (its drains by other traffic are an action) and in a sync round
  over several channels, which is a module of its own: there two channels are enough for
  one to block the other, and three presses for the rows that do (hold, shadow, off); the stop switch is pressed
  for one of the two.
- *Handover.* Exclusion is between one Master write and one Archiver write, so one
  worker of each kind is a witness of every violation; the proof covers any
  number. `MaxCutover` 2 allows a coordinate to move on and to be asked back.
- *Ingest.* `MaxFiles` 1 tells "none", "some missing" and "all" apart, as files of
  a message are kept together; two deliveries give every overlap of two runs.
  The deliveries overlap without faults (`ingest`) or follow each other with them
  (`outbox`). `MaxOutbox` 1 with two faults reaches a line kept by a failed push and a
  line pushed twice. The proofs cover every bound. `CHECK_DEADLOCK FALSE`,
  because a message that was delivered as often as the bound allows and has been
  recorded has nothing left to do.
- *Queue.* Sharing needs two runs; the interplay of batches needs two jobs.
  `MAX_ATTEMPTS` stands for every greater count too, as the code only compares
  with it; it is 1 where jobs matter and 2 where retries do. In `writing` the queue is
  taken up to permutations of jobs and runs (`Alike`), which is sound there as
  it checks no liveness. The proofs cover any number.

- *Backfills.* A gap behind a cursor needs one channel with two messages and a
  reply between which the steps of a job may fall; a second channel is there for a
  request for all of them. The two scopes stand on a post with one bound each, and the
  lookback of 2 brings the parent of the reply into reach of both. Two consoles race, and a second archiver takes over.
  The requests of a behaviour are for the same messages (`OneScopeAsked`), as one that
  writes must be for what a preview was for. One upset is one fault or one switch at every point of a job.
- *Images.* Two workspaces compete for a global slot: with a limit of one every
  second reservation is the one that must be refused, with a limit of two a job is
  reserved while the other charges, and comes to its dispatch after. That limit is there
  for this alone: its only event is one of the catalogue after a charge.
- *Reminders.* Leads, graces and horizons of one tick make every order of plan,
  claim, expiry and move happen in three ticks. One
  turn suffices to meet an opt-out, since the rows a plan revives or releases may be
  there from the start, of a person who has set nothing.
- *VIP.* Two threads for one event, or one for each of two; two rooms, so that the
  sources may change and not vanish.
- *Reviews.* Two candidates make a round partial, let a reviewer decide one between
  the run's read and its write, and leave one open when a list goes out; one
  reviewer suffices, since reviewers meet only in the candidates and the
  handler of one already races the run. A rejection is tried on a lone candidate, since
  the review treats it as it treats an approval. Two review days are what it takes to
  expire; the second run meets every state the first may leave. One incident at
  every point is one lost answer or death. `CHECK_DEADLOCK FALSE`, because days
  and candidates end.
- The proofs cover every bound of all five.

### Fairness

- `services`, sweep: the *round* is weakly fair, not its effect on any one channel: the
  loop (`archiving_bot.py:624-631`) goes round for as long as the process lives,
  whatever a round raised. The console and Slack are not fair.
  `RemovalIsNoticedUnlessBlocked` allows for a bot that is invited again and for rows
  that end every round; without the second allowance it is finding 9.
- The liveness properties say that something happens *again and again* (`[]<>`), so
  they speak of every occasion and not of the first.
- `services`, queue: the timer starts a run every five minutes when none is under way
  (`deploy/tybot-convert-retry.timer`), a run goes on, and a lease runs out. Runs
  may die as often as they like; that a waiting job becomes due is not even
  needed.
- `services`, backfills: an archiver's steps are weakly fair: the supervisor starts
  it again and its loop polls (`archiving_bot.py:634-641`). Requests, posts and
  faults are not.
- `services`, images: a batch goes on and its timer starts the next
  (`deploy/tybot-image-description@.timer`); a dispatch grows old. The end of a call
  is not promised to be recorded.
- `services`, reminders: the timer plans every few minutes
  (`deploy/tybot-schedule-dm.timer`), the lock of a row that no run
  holds grows old, and a run goes on. The last is strong fairness: a run that waits for
  a row gets it in its turn (PostgreSQL queues for locks), however many plans lock the
  row before and after.
- In `services` each of these holds while its component is the one that moves.
- `VipAnswer` has no fairness: a question whose handler died is not answered, and
  the code does not try to (the claim is never given back).
- `SummaryReview` has no fairness: what it promises here is safety. That a run comes
  again the next day is the timer's; whether reviewers press anything is theirs.
- `IngestAck` has no fairness: a fact that neither the database nor the file took
  is only in the log, and the code repairs no row without attachments, so no
  liveness would be honest.

## 4. What is proved

All theorems hold for every value of the constants under the modules' named
assumptions (`TicksAssumption`, `WorkersAssumption`, `BoundsAssumption`,
`ActorsAssumption`, `QueueAssumption`, `BackfillAssumption`, `ImageAssumption`,
`ScheduleAssumption`, `VipAssumption`, `ReviewAssumption`, `SweepAssumption`: numbers are naturals, kinds of actors do not
overlap, replies come after their parents, limits are positive).

**`ChannelHandoverProofs`.** `TypeCorrect`, `SettledPause`, `SettledHandover`,
`AcceptedStorable`, `SyncKeepsOwner`, `SyncKeepsHold`, `CutoverMovesForward`,
`OnlyUnheldMasterPausesAreEnded`.
The safety property alone is not inductive: a cached "yes" or a write under way
carries the past into the present. The invariant is a chain of ages:
nothing starts a write on a paused row except a cached "yes", so a
live cache entry is at least as old as the pause, an Archiver's write too, and a
Master's write is younger than the pause by less than the life of the cache. A
pause of `SettleTicks >= CacheTicks + WriteTicks` outlasts all of it; a change
of owner made then finds the channel empty, and afterwards only the new owner
can be told "yes". `SettledHandover` has that inequality as its hypothesis:
finding 1 is the code's own numbers not meeting it. `OnlyUnheldMasterPausesAreEnded`
is the other side of finding 2: a syncer ends no pause of a channel that is held or
that the Archiving Bot owns.

**`IngestAckProofs`.** `TypeCorrect`, `ReadyIsSearchable`, `NothingOwedIsLost`,
`ReplayIsIdle`, `ImplementsPromise`, `OnlyRecountsSkipChecks`,
`OnlyPartRefusalsLeaveText`. The invariant is about facts: a fact that
says ready was true of its archive when it was made, and the archive only grows,
so it is true whenever it reaches the row, late, twice, or out of order; the
other ends carry a reason and no counts. It therefore ranges over the
outbox, both halves of a drain, what handlers know, and what
reconcilers decided. `ImplementsPromise` maps initial states to initial states
and every step to a step of `AckPromise` or a stutter. The last two are the other
side of findings 3 and 4. A second invariant (`EndsAreVouched`) says what stands
behind an end: a handler goes on to the revision only of a message of which nothing
was refused, and past it only with the revision recorded; what waits to be written
says no more than that. So without re-counts ready means every check was passed,
and a refused message with a line in an archive was refused in part.

**`ConversionQueueProofs`.** `QueueTypes`, `SuccessIsPublished`,
`SharedAfterLapse`, `AttemptsCountRuns`, `CapKept`, `SuccessIsFinal`. The
invariant is about lapses: as long as a job never lost its lease and was not
asked for under way, its holder is alone and the row says leased
(`HeldAlone`); hence a verdict judged from the row is still true of it when it is
written by the id alone (`VerdictFits`), and the cap holds.

**`BackfillProofs`.** `BackfillInvariant`, `BackfillTypes`, `SucceededJobsAreComplete`,
`RunningRowsAreRun`, `EndedJobsAreFinal`, `CursorsPassOnlyHandled`,
`BackfillKeepsPromise`. The invariant
follows what a job owes through its steps: each owed message is in a channel still
to be read, or its thread or itself is among what was read, or it was dealt
with, or the job has failed in a way its end will say. A message
dealt with stays so, and nothing newer than a message that made trouble moves the
cursor, so what is behind a cursor is dealt with. `SucceededJobsAreComplete` is about
what the reads reach (`InReach`): a post exactly at the end of the scope is owed nothing. The refinement needs one fact more:
a job that was claimed and not looked at yet owes nothing, nor does a dry one
(`DebtsAreFresh`), so that a debt is settled once. A process that lost its lock goes on
after its job was closed as failed; that is why the promise lets a failed job survey
its scope and move a cursor, and nothing else.

**`ImageDescriptionProofs`.** `ImageInvariant`, `ImageTypes`, `PhotosAreSentOnce`,
`RevokedRowsAreClosed`, `LimitsHold`, `ChargedModelsStop`, `LedgerKeepsSendPromise`. The invariant ties each
batch to the row it reserved, each call to a dispatching row, and each
charge to a catalogue entry that is not verified; a receipt is valid only for the
entry it was made from. What is outstanding there is a charge nobody saved over. `LimitsHold` counts rows: every step that adds one checks
the count in the same transaction. In the refinement a photo is permitted from the
row's dispatch on; every later state is one no statement leads back from.

**`ScheduleDmProofs`.** `DmInvariant`, `DmTypes`, `PeopleAreRemindedOnce`,
`TriesStayBounded`, `OptOutsAreHeeded`, `OnlyUnstoredWishesAreOverridden`. The invariant gives every post an owner: a
row is sent, or a run is about to mark it, or a lock lapsed or an answer was lost;
every refusal was counted in the row or is about to be. It counts runs
that hold a row, which is at most one as long as no lock lapsed. For the opt-out it speaks of
plans in flight as well (`PlansAreSound`, `OffAndEmpty`): plans that would write the same
row exclude each other, what a plan will write is what it read under its locks, and
once the cancellation of a person is over, no row of theirs is queued, in the table or
in an uncommitted plan, unless it escaped. The last theorem is the other side of
finding 6: whose wish is in the table is heeded but for what escaped, so only a person
without a row gets later reminders.

**`VipAnswerProofs`.** `VipInvariant`, `VipTypes`, `QuestionsGetOneReply`,
`NothingRevokedIsDelivered`, `NoticesTellTheTruth`, `ClaimsKeepReplyPromise`. The invariant: a question's
replies and its threads past the claim are at most one together, and none before
the claim; a thread that is not overtaken carries the scope now in force. Hence a
reply is sent only under a claim and when none was sent, which is what `OncePromise`
allows.

**`SummaryReviewProofs`.** `ReviewInvariantHolds`, `ReviewTypes`, `OnlySeenExpires`,
`DoneRoundsAreDecided`, `CanvasesAreBounded`. Three arguments side by side. *Verdicts*:
a candidate that is approved, rejected or expired stays so, hence a verdict
"done", computed by a handler or the run, is still true when it is written, however
late (`VerdictsHold`); "partial" may be out of date by then, and no property says
otherwise. *Canvases*: a round that could be given a Canvas (not begun, or refused
without one) has none but those whose link was refused, and the round a run is
creating is marked as begun, so that a death leaves it unable to get another
(`CanvasBudget`, `CreatingIsBegun`). `CanvasesAreBounded` is the other side of finding 8:
a second Canvas takes a link that was clearly refused, and there is no other way. *Shown*: a candidate is noted as shown only after
Slack took a message with it (`ShownWasSeen`), and only what is noted expires. The proof
first shows which variables each action leaves alone (`Framed`), and then treats
each conjunct against the actions that can disturb it.

Each of these invariants was first checked by TLC on the instances above.

**The composed specifications.** The runs `writing`, `reviews` and `services` check
components put together, the theorems above speak of one component each.
`WritingKeepsItsParts`, `ReviewsKeepTheirParts` and `ServicesKeepTheirParts` close that
gap: a step of the whole is a step of the part that is active and leaves the variables
of the others alone, so whatever was proved of the steps of a part holds of the
whole. `WritingTypes`, `ReviewsTypes` and `ServicesTypes` follow; the types of the membership
round, which has no proof module of its own, are proved with `ServicesTypes`. For `services` the parts
are taken without their fairness, which in the whole is promised only to the
component that moves; what is proved of them is safety and needs none.

**Only model-checked.** `RemovalIsNoticedUnlessBlocked`, `LeaseEnds`, `EveryRequestEnds`,
`DispatchingEnds` and `ClaimsEnd` (liveness under fairness is out of the prover's
reach), and the nine violated properties, which are refuted by their traces; for
seven of them a theorem names the cause (`SettledHandover` by its hypothesis,
`SharedAfterLapse`, and the five named above), for `DeferredIsShownAgain` none does, and
for `RemovalIsNoticed` the passing `RemovalIsNoticedUnlessBlocked` does.
`SentOnce` and `OneReply` follow from the promises; `FinishedIsFinal`, of whole rows, is
proved, and what it says of the states is in `JobPromiseKept`: TLC checks the
promises. Nothing rests on
induction over data, and no module uses `RECURSIVE` operators, which the prover could
not treat.

## 5. Findings

1. **The hourly Collector outlives the drain** (`collector_pacing`). It asks for
   the right to write and then sleeps 65 s before it fetches and writes
   (`collect.py:155-164`); `handover.py:62-67` settles after 60 s, twice the cache,
   and then says the drain has finished.
2. **The sync ends a console pause** (`pause_resumed`). `plan_sync` reads a paused
   channel without a hold as one the bot left and rejoined
   (`channel_membership.py:183`), and takes it back to shadow in the middle of a
   drain, which `handover.py:82` describes as neither side writing.
3. **A re-count makes ready what was not** (`ready_unchecked`). It counts
   attachments only and overrules a partial recorded for a missing revision or a
   refusal (`ack_reconcile.py:201`), against `archiving_bot.py:437-438`.
4. **Refused, though a part is in the archive** (`refused_in_part`). A redelivery
   judges by what it newly wrote (`archiving_bot.py:417`), against
   `archiving_bot.py:413` and `archiving_schema.sql:392`.
5. **Two runs on one file** (`one_run_at_a_time`). An enqueue puts a leased job
   back into the queue (`conversion_queue.py:265`), and one lease of 600 s covers a
   batch of up to 20 conversions; `conversion_queue.py:11-12` promises one at a time.

6. **Turned off, and on again by the next plan** (`opt_out`). Who never turned the
   reminders on receives them by default and has no row; the button's UPDATE
   (`schedule_dm.py:134`) then stores nothing, the cancelled rows are pending again
   with the next plan (`:400`) and are sent, against `schedule_dm.py:334-335`, the
   button's text at `:883` and `tests/test_schedule_dm.py:266-267`.

7. **Tomorrow never comes** (`deferred`). A reviewer who defers a candidate is told that
   it will be shown again tomorrow (`summary_review.py:2512`). Where reviews are weekly
   nothing runs tomorrow, and the next run expires the candidate
   (`:588-597`) before it lists what is due (`:2214`), against the docstring at
   `:577-578`, by which it is shown once more on the promised day. A review that runs
   on the promised day, and has room for it, shows it.

8. **Two Canvases of one round** (`one_canvas`). `canvas_answer.create` makes the Canvas
   and then asks for its link (`canvas_answer.py:169-176`). If Slack refuses the link with
   a code of `_CLEAR_REFUSALS`, a missing scope for instance, `_canvas_failure` takes the
   Canvas for refused: the round is failed without an id, and the next run makes
   another (`summary_review.py:2045-2047`, `:2070-2071`), against `:2019`, `:2068-2069`,
   `:2100` and `tests/test_summary_review_canvas.py:310`.

9. **One channel hides the removals of all** (`sweep`). `apply_plan` has no try per
   channel (`channel_membership.py:222-236`). A channel that is held and off, which three
   legal console actions make it (hold, shadow, off), is sent to the database with mode off, which raises
   (`archiving_schema.sql:185`); every round ends there, and the removals, which come
   last, are not recorded, against `channel_membership.py:31-32`. The same exception
   at the start of the process (`archiving_bot.py:720`) is not caught at all.

Some more were met and have no run: a hold on a channel
owned by the Archiving Bot cannot be released on its own (a CHECK rejects the
row), and the breaker, whose opening time is set once, lets every job pass after
its first probe time and not one at a time (`conversion_queue.py:87-88`, `:448`); every
plan of reminders clears the wait of a failed one (`schedule_dm.py:395`), so the
growing backoff has no effect; and a review message that is sent again by hand and
fails takes away the right to decide with the message a reviewer already has, until
one is sent anew (`summary_review.py:2341`); a backfill does not fetch a post that stands
exactly at the end of its scope, which `_in_range` would count (`backfill.py:198-206`,
`:276-281`); and an opt-out that meets a plan in flight leaves what that plan inserts,
revives or releases to be sent (`schedule_dm.py:149-153`).

## 6. Slips

Definitions commented "A slip" are plausible bugs of the definition that follows
them, kept beside it to show that each property would notice: a cached verdict
that does not age, a row that adds counts, a drain that forgets what failed, an
upsert that revives a success, and so on. No specification uses them.

## 7. Plan

Done, in this order: (1) `ChannelMode`, `ChannelHandover` and their proofs;
(2) `AckPromise`, `IngestAck` and their proofs; (3) `ConversionQueue` and its
proofs; (4) `Backfill`, `ImageDescription`, `ScheduleDm`, `VipAnswer`, `SummaryReview`
and their proofs; the promises of the services, the composed specifications and the
causes of the findings; (5) `MembershipSweep`. Still to come, most important first:

6. `Revisions`: numbering under concurrent edits, against an abstract sequence of
   revisions of one message.
7. `DmHandoff`: files handed from the Master's DM to the Archiving Bot through a
   directory, with crashes on both sides.
8. Deploy approval against the release gate; the gateway's shared
   budget; the state file of the channel lifecycle; the desired mode and generation
   of the backfill supervisor.

## 8. Not modelled

Text understanding and formatting (the Master's conversation, the specialists, the
VIP engine) are long, sequential and without states a checker could enumerate.
Indexes are derived data a timer rebuilds. Most of the console is requests over
single rows. The organisation's import and retention are one job each, alone.
Locks of the operating system and of PostgreSQL are taken as correct, except that
a session may break. The Hermes sub-bot is vendored. `PROJECT.json` gives the reason
for each component, and for each modelled one what of it is left out.
