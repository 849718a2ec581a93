--------------------------- MODULE ChannelHandover ---------------------------
(***************************************************************************)
(* Handing one channel's operational archive from the Master to the        *)
(* Archiving Bot and back.  Five kinds of actors touch the channel and none*)
(* of them waits for another:                                              *)
(*                                                                         *)
(*   - the console presses mode changes, the collection stop and the global*)
(*     live switch (console/archiving_admin.py);                           *)
(*   - Slack members invite and remove the Archiving Bot;                  *)
(*   - syncers of the Archiving Bot read Slack, read the table, and write  *)
(*     the row in three separate steps (archive/channel_membership.py): the*)
(*     periodic loop, and the discovery that an event of an unknown channel*)
(*     triggers;                                                           *)
(*   - Master workers ask for a verdict and write later: Pilots share one  *)
(*     cached answer (slack/pilot.py), Collectors are the hourly job       *)
(*     (collect.py), which asks once and then waits out Slack's pacing;    *)
(*   - Archivers read the row, the switch and the row again, then write    *)
(*     (archiving_bot.py).                                                 *)
(*                                                                         *)
(* Time is discrete: a tick is a unit the code's seconds are multiples of. *)
(* Channels do not share rows, verdicts or plans, so one channel stands for*)
(* all of them in what may never happen.  They do share the periodic round,*)
(* which one of them can end for the others: MembershipSweep.              *)
(***************************************************************************)
EXTENDS ChannelMode

CONSTANTS
  Pilots, Collectors, Archivers,   \* writing threads and jobs
  PeriodicSyncers, EventSyncers,
  CacheTicks,    \* write_owner.CACHE_SECONDS
  SettleTicks,   \* handover.DRAIN_SETTLE_SECONDS
  WriteTicks     \* bound: the longest time from a verdict to the end of its write

ASSUME TicksAssumption ==
  /\ CacheTicks \in Nat \ {0}
  /\ SettleTicks \in Nat
  /\ WriteTicks \in Nat

ASSUME WorkersAssumption ==
  /\ (Pilots \cup Collectors) \cap Archivers = {}
  /\ PeriodicSyncers \cap EventSyncers = {}

Masters == Pilots \cup Collectors
Workers == Masters \cup Archivers
Syncers == PeriodicSyncers \cup EventSyncers

VARIABLES
  row,        \* the channel's row
  invited,    \* is the Archiving Bot in the channel, in Slack?
  flag,       \* the global switch archiver_writes_live
  cache,      \* the pilot's cached verdict: its age, answer, and whether the read failed
  work,       \* each worker's step, ticks since its verdict, and whether that was degraded
  sync,       \* each syncer's step, what it read from Slack, and its plan
  pausedFor,  \* history: ticks the row has been paused, up to SettleTicks
  cut         \* history: was the last change of owner made on a settled channel?

vars == <<row, invited, flag, cache, work, sync, pausedFor, cut>>

Idle == [pc |-> "idle", age |-> 0, degraded |-> FALSE]
SyncIdle == [pc |-> "idle", joined |-> FALSE, plan |-> NoPlan]

TypeOK ==
  /\ row \in Row
  /\ invited \in BOOLEAN
  /\ flag \in BOOLEAN
  /\ cache \in [age : 0 .. CacheTicks, allowed : BOOLEAN, degraded : BOOLEAN]
  /\ work \in [Workers -> [pc : {"idle", "collectible", "switched", "writing"},
                           age : 0 .. WriteTicks, degraded : BOOLEAN]]
  /\ sync \in [Syncers -> [pc : {"idle", "fetched", "planned", "looked"},
                           joined : BOOLEAN, plan : Plans \cup {NoPlan}]]
  /\ pausedFor \in 0 .. SettleTicks
  /\ cut \in {"settled", "hasty"}

\* A first start: nothing registered, nothing cached, the switch at its default.
Init ==
  /\ row = NoRow
  /\ invited \in BOOLEAN
  /\ flag = FALSE
  /\ cache = [age |-> CacheTicks, allowed |-> FALSE, degraded |-> FALSE]
  /\ work = [w \in Workers |-> Idle]
  /\ sync = [s \in Syncers |-> SyncIdle]
  /\ pausedFor = 0
  /\ cut = "settled"

(***************************************************************************)
(* Every change of the row, with the history kept beside it.               *)
(***************************************************************************)
ChangeRow(new) ==
  /\ row' = new
  /\ pausedFor' = IF row.mode = "paused" /\ new.mode = "paused" THEN pausedFor ELSE 0
  /\ cut' = IF new.owner = row.owner THEN cut
            ELSE IF row.mode = "paused" /\ pausedFor >= SettleTicks THEN "settled" ELSE "hasty"

(***************************************************************************)
(* The console.                                                            *)
(***************************************************************************)

\* The gate and the blockers that do not concern this state are taken as open; the
\* live switch is one of the blockers of an activation.
SetChannelMode(target, ts) ==
  /\ target = "active" => flag
  /\ AcceptsModeChange(row, target, ts)
  /\ SatisfiesChecks(plan_mode_change(row, target, ts))
  /\ ChangeRow(plan_mode_change(row, target, ts))
  /\ UNCHANGED <<invited, flag, cache, work, sync>>

SetCollectionHold(hold) ==
  /\ row.mode # "absent"
  /\ ChangeRow(set_operator_hold(row, hold))
  /\ UNCHANGED <<invited, flag, cache, work, sync>>

SetLiveSwitch(on) ==
  /\ flag' = on
  /\ UNCHANGED <<row, invited, cache, work, sync, pausedFor, cut>>

Console ==
  \/ \E target \in Modes, ts \in Cutovers : SetChannelMode(target, ts)
  \/ \E hold \in BOOLEAN : SetCollectionHold(hold)
  \/ \E on \in BOOLEAN : SetLiveSwitch(on)

(***************************************************************************)
(* Slack: invitations.                                                     *)
(***************************************************************************)
InviteOrKick ==
  /\ invited' = ~invited
  /\ UNCHANGED <<row, flag, cache, work, sync, pausedFor, cut>>

(***************************************************************************)
(* The membership syncers.                                                 *)
(***************************************************************************)
SyncStep(s, step) ==
  /\ sync' = [sync EXCEPT ![s] = step]
  /\ UNCHANGED <<invited, flag, cache, work>>

\* sync(): fetch_joined asks Slack first ...
SyncFetch(s) ==
  /\ sync[s].pc = "idle"
  /\ SyncStep(s, [pc |-> "fetched", joined |-> invited, plan |-> NoPlan])
  /\ UNCHANGED <<row, pausedFor, cut>>

\* ... then plan_sync reads the table; nothing to do ends the round.
SyncPlan(s) ==
  /\ sync[s].pc = "fetched"
  /\ LET plan == plan_sync(row, sync[s].joined)
     IN SyncStep(s, IF plan = NoPlan
                    THEN SyncIdle
                    ELSE [pc |-> "planned", joined |-> FALSE, plan |-> plan])
  /\ UNCHANGED <<row, pausedFor, cut>>

\* ensure_registered(): the row first, and only a channel not recorded as joined
\* makes it ask Slack; the plan is made from the row read here.
EventLook(s) ==
  /\ sync[s].pc = "idle"
  /\ row.membership # "joined"
  /\ SyncStep(s, [pc |-> "looked", joined |-> FALSE, plan |-> plan_sync(row, TRUE)])
  /\ UNCHANGED <<row, pausedFor, cut>>

EventFetch(s) ==
  /\ sync[s].pc = "looked"
  /\ SyncStep(s, IF invited THEN [sync[s] EXCEPT !.pc = "planned"] ELSE SyncIdle)
  /\ UNCHANGED <<row, pausedFor, cut>>

\* apply_plan: the plan meets whatever the row has become.
SyncApply(s) ==
  /\ sync[s].pc = "planned"
  /\ ChangeRow(archiver_save_membership(row, sync[s].plan))
  /\ SyncStep(s, SyncIdle)

Sync ==
  \/ \E s \in PeriodicSyncers : SyncFetch(s) \/ SyncPlan(s)
  \/ \E s \in EventSyncers : EventLook(s) \/ EventFetch(s)
  \/ \E s \in Syncers : SyncApply(s)

(***************************************************************************)
(* Writers.                                                                *)
(***************************************************************************)
Become(w, step) ==
  /\ work' = [work EXCEPT ![w] = step]
  /\ UNCHANGED <<row, invited, flag, sync, pausedFor, cut>>

Writing(degraded) == [pc |-> "writing", age |-> 0, degraded |-> degraded]

\* What the Master's lookup may answer now: the row's verdict, or, when the database
\* cannot be read, the verdict of a missing row.
MasterVerdicts ==
  {[allowed |-> MasterMayWrite(row), degraded |-> FALSE],
   [allowed |-> MasterMayWrite(NoRow), degraded |-> TRUE]}

\* OwnerLookup.state with a live cache entry.
PilotVerdictFromCache(w) ==
  /\ work[w].pc = "idle"
  /\ cache.age < CacheTicks
  /\ cache.allowed
  /\ Become(w, Writing(cache.degraded))
  /\ UNCHANGED cache

\* OwnerLookup.state with an expired one: read, remember, answer.  A failed read is
\* remembered as well.
PilotVerdictFromTable(w) ==
  /\ work[w].pc = "idle"
  /\ cache.age = CacheTicks
  /\ \E v \in MasterVerdicts :
       /\ cache' = [age |-> 0, allowed |-> v.allowed, degraded |-> v.degraded]
       /\ Become(w, IF v.allowed THEN Writing(v.degraded) ELSE Idle)

\* collect_workspace asks once per channel, before it sleeps and fetches.
CollectorVerdict(w) ==
  /\ work[w].pc = "idle"
  /\ \E v \in MasterVerdicts : v.allowed /\ Become(w, Writing(v.degraded))
  /\ UNCHANGED cache

\* _destination: the row says active and collectible ...
ArchiverReadsRow(w) ==
  /\ work[w].pc = "idle"
  /\ is_collectible(row)
  /\ row.mode = "active"
  /\ Become(w, [Idle EXCEPT !.pc = "collectible"])
  /\ UNCHANGED cache

\* ... the switch is read on its own ...
ArchiverReadsSwitch(w) ==
  /\ work[w].pc = "collectible"
  /\ Become(w, IF flag THEN [Idle EXCEPT !.pc = "switched"] ELSE Idle)
  /\ UNCHANGED cache

\* ... and the verdict reads the row again, uncached.
ArchiverVerdict(w) ==
  /\ work[w].pc = "switched"
  /\ Become(w, IF ArchiverMayWrite(row, TRUE) THEN Writing(FALSE) ELSE Idle)
  /\ UNCHANGED cache

\* The write lands, fails, or is lost with its process.
WriteEnds(w) ==
  /\ work[w].pc = "writing"
  /\ Become(w, Idle)
  /\ UNCHANGED cache

Write ==
  \/ \E w \in Pilots : PilotVerdictFromCache(w) \/ PilotVerdictFromTable(w)
  \/ \E w \in Collectors : CollectorVerdict(w)
  \/ \E w \in Archivers : ArchiverReadsRow(w) \/ ArchiverReadsSwitch(w) \/ ArchiverVerdict(w)
  \/ \E w \in Workers : WriteEnds(w)

(***************************************************************************)
(* Time.                                                                   *)
(***************************************************************************)
Older(age, limit) == IF age < limit THEN age + 1 ELSE age

\* A slip: the cached verdict does not age.
TickKeepsCache ==
  /\ \A w \in Workers : work[w].pc = "writing" => work[w].age < WriteTicks
  /\ work' = [w \in Workers |-> IF work[w].pc = "writing"
                                THEN [work[w] EXCEPT !.age = @ + 1] ELSE work[w]]
  /\ pausedFor' = IF row.mode = "paused" THEN Older(pausedFor, SettleTicks) ELSE pausedFor
  /\ UNCHANGED <<row, invited, flag, cache, sync, cut>>

\* No write outlives WriteTicks: the bound every property about writes rests on.
Tick ==
  /\ \A w \in Workers : work[w].pc = "writing" => work[w].age < WriteTicks
  /\ work' = [w \in Workers |-> IF work[w].pc = "writing"
                                THEN [work[w] EXCEPT !.age = @ + 1] ELSE work[w]]
  /\ cache' = [cache EXCEPT !.age = Older(@, CacheTicks)]
  /\ pausedFor' = IF row.mode = "paused" THEN Older(pausedFor, SettleTicks) ELSE pausedFor
  /\ UNCHANGED <<row, invited, flag, sync, cut>>

Next == Console \/ InviteOrKick \/ Sync \/ Write \/ Tick

\* Nothing is fair: a round of the periodic loop ends where another channel's row is
\* refused, and may never reach this one (MembershipSweep).
Spec == Init /\ [][Next]_vars

(***************************************************************************)
(* Properties.                                                             *)
(***************************************************************************)
MasterWriting == \E w \in Masters : work[w].pc = "writing" /\ ~work[w].degraded
ArchiverWriting == \E w \in Archivers : work[w].pc = "writing"

\* handover.py: draining before the owner changes is what keeps the two bots from
\* writing the same channel at once.  After a change of owner on a channel that had
\* been paused for the settling time, no Master write decided on a row it could read
\* overlaps an Archiver write, whatever the syncers and the console do in between.
SettledHandoverIsExclusive ==
  cut = "settled" => ~(MasterWriting /\ ArchiverWriting)

\* archiving_admin.py and the table together: every mode change plan_mode_change
\* accepts leaves a row the CHECK constraints accept, from every row that the stop
\* switch, the syncers and their out-of-date plans can produce.
AcceptedModesAreStorable ==
  \A target \in Modes, ts \in Cutovers :
    AcceptsModeChange(row, target, ts) => SatisfiesChecks(plan_mode_change(row, target, ts))

\* channel_membership.py: moving the operational writer is a person's decision.  No
\* syncer, however old its plan, promotes a channel, changes its owner or coordinate,
\* or resumes a channel that stopped while the Archiving Bot owned it.
SyncNeverMovesOwnership ==
  [][(\E s \in Syncers : SyncApply(s)) =>
       /\ row'.owner = row.owner
       /\ row'.cutover = row.cutover
       /\ row'.mode = "active" => row.mode = "active"
       /\ row.owner = "archiver" /\ row.mode = "paused" => row'.mode = "paused"]_vars

\* channel_membership.py: inviting the bot again does not undo a person's stop.  A
\* syncer leaves a held channel stopped and held, or does not change its mode at all.
SyncNeverLiftsHold ==
  [][(\E s \in Syncers : SyncApply(s)) /\ row.hold =>
       row'.hold /\ row'.mode \in {row.mode, "paused"}]_vars

\* archiving_state.py: a coordinate never moves backwards while the channel stays in
\* scope; only turning the channel off forgets it.
CutoverNeverMovesBack ==
  [][row'.cutover >= row.cutover \/ row'.mode = "off"]_vars

\* handover.py, Step "activate": a pause that lasted the settling time, when that time
\* covers a cached verdict and the write it allowed, has emptied the channel of both
\* bots' writes, whichever of them owned it.
SettledPauseIsEmpty ==
  /\ SettleTicks >= CacheTicks + WriteTicks
  /\ row.mode = "paused" /\ pausedFor >= SettleTicks
  =>
    ~MasterWriting /\ ~ArchiverWriting

\* handover.py, Stage.DRAINING: a paused channel is empty, "neither side writes", until
\* the operator takes the next step.  Here: a channel the bot never left does not leave
\* the pause except by the console.
PauseIsEndedByConsole ==
  [][row.mode = "paused" /\ row.membership = "joined" /\ row'.mode # "paused" => Console]_vars
=============================================================================
