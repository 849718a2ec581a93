------------------------ MODULE ChannelHandoverProofs ------------------------
(***************************************************************************)
(* Theorems of ChannelHandover for every set of workers and syncers and    *)
(* every number of ticks.                                                  *)
(*                                                                         *)
(* The argument about writes is a chain of ages.  Nothing a bot does on a  *)
(* paused row starts a write, so whatever is still under way was decided   *)
(* before the pause: a live cached "yes" is at least as old as the pause,  *)
(* an Archiver write too, and a Master write may be younger than the pause *)
(* by less than the cache's life.  A pause of SettleTicks therefore        *)
(* outlasts all three, and a change of owner made then finds the channel   *)
(* empty; afterwards only the new owner can be told "yes".                 *)
(*                                                                         *)
(* At the end, the handover and the conversion queue side by side.         *)
(***************************************************************************)
EXTENDS MCWriting, ConversionQueueProofs, TLAPS

\* What the table's constraints and the absence of a row keep true of the row.
RowCoherent ==
  /\ SatisfiesChecks(row)
  /\ row.mode = "absent" => row = NoRow

CachedYes == cache.age < CacheTicks /\ cache.allowed /\ ~cache.degraded

\* While the channel is paused, what was allowed before the pause is this old.
PauseOutlived ==
  row.mode = "paused" =>
    /\ CachedYes => pausedFor <= cache.age
    /\ \A w \in Masters : work[w].pc = "writing" /\ ~work[w].degraded
                            => pausedFor < work[w].age + CacheTicks
    /\ \A w \in Archivers : work[w].pc = "writing" => pausedFor <= work[w].age

\* Since the last change of owner was settled, only the owner can be writing.
OnlyOwner ==
  cut = "settled" =>
    /\ row.owner = "archiver" => ~CachedYes /\ ~MasterWriting
    /\ row.owner = "master" => ~ArchiverWriting

IInv == TypeOK /\ RowCoherent /\ PauseOutlived
IInvSettled == IInv /\ OnlyOwner

(***************************************************************************)
(* The operators over a row.                                               *)
(***************************************************************************)

\* What the console writes is a row, with a mode of its own.
LEMMA PlannedRow ==
  ASSUME NEW r \in Row, NEW target \in Modes, NEW ts \in Cutovers
  PROVE  /\ plan_mode_change(r, target, ts) \in Row
         /\ plan_mode_change(r, target, ts).mode # "absent"
<1>1. ActivationTs(r, ts) \in Cutovers
  BY DEF ActivationTs, Row
<1>2. OwnerAfter(r, target) \in Owners
  BY DEF OwnerAfter, Row, Owners, Modes
<1>3. CutoverAfter(r, target, ts) \in Cutovers
  BY <1>1, MaxCutoverAssumption DEF CutoverAfter, Row, Cutovers
<1>4. QED
  BY <1>2, <1>3 DEF plan_mode_change, Row, Modes

\* Pressing or releasing the stop leaves a coherent row coherent, and does not touch
\* its owner and coordinate.
LEMMA HeldRow ==
  ASSUME NEW r \in Row, r.mode # "absent", SatisfiesChecks(r), NEW hold \in BOOLEAN
  PROVE  /\ set_operator_hold(r, hold) \in Row
         /\ SatisfiesChecks(set_operator_hold(r, hold))
         /\ set_operator_hold(r, hold).mode # "absent"
         /\ set_operator_hold(r, hold).owner = r.owner
         /\ set_operator_hold(r, hold).cutover = r.cutover
  BY DEF set_operator_hold, Row, Modes

\* What a syncer writes is a coherent row with the owner and coordinate it found; it
\* neither promotes a channel nor resumes one that stopped as the Archiver's.
LEMMA SyncedRow ==
  ASSUME NEW r \in Row, SatisfiesChecks(r), r.mode = "absent" => r = NoRow,
         NEW plan \in Plans \cup {NoPlan}
  PROVE  LET new == archiver_save_membership(r, plan)
         IN  /\ new \in Row
             /\ SatisfiesChecks(new)
             /\ new.mode = "absent" => new = NoRow
             /\ new.owner = r.owner
             /\ new.cutover = r.cutover
             /\ new.mode = "active" => r.mode = "active"
             /\ r.owner = "archiver" /\ r.mode = "paused" => new.mode = "paused"
             /\ r.hold => new.hold /\ new.mode \in {r.mode, "paused"}
<1>1. plan.membership \in Memberships
  BY DEF Plans, NoPlan, Memberships
<1>2. NoRow \in Row
  BY MaxCutoverAssumption DEF NoRow, Row, Owners, Memberships, Cutovers
<1>3. MembershipMode(r, plan) \in {"paused", "shadow", "active"}
  BY DEF MembershipMode
<1>4. CASE r.mode = "absent"
  BY <1>2, <1>4 DEF archiver_save_membership, MembershipRow, MembershipRaises, NoRow, Row, Modes, Memberships, SatisfiesChecks
<1>5. CASE r.mode # "absent"
  <2> DEFINE wanted == [r EXCEPT !.mode = MembershipMode(r, plan), !.membership = plan.membership]
  <2>1. wanted \in Row /\ wanted.mode = MembershipMode(r, plan) /\ wanted.mode # "absent"
        /\ wanted.owner = r.owner /\ wanted.cutover = r.cutover /\ wanted.hold = r.hold
    BY <1>1, <1>3 DEF Row, Modes
  <2>2. MembershipMode(r, plan) = "active" => r.mode = "active"
    BY DEF MembershipMode
  <2>3. r.hold => MembershipMode(r, plan) = "paused"
    BY DEF MembershipMode, Row
  <2>4. r.owner = "archiver" /\ r.mode = "paused" /\ SatisfiesChecks(wanted)
          => MembershipMode(r, plan) = "paused"
    BY <2>1, <2>2, <1>3 DEF SatisfiesChecks
  <2>5. archiver_save_membership(r, plan) = r
        \/ (archiver_save_membership(r, plan) = wanted /\ SatisfiesChecks(wanted))
    BY <1>5 DEF archiver_save_membership, MembershipRow, MembershipRaises
  <2>6. QED
    BY <1>5, <2>1, <2>2, <2>3, <2>4, <2>5
<1>6. QED
  BY <1>4, <1>5

\* Nobody is told "yes" on a paused row, and a "yes" on a coherent row goes to its owner.
LEMMA VerdictGoesToOwner ==
  ASSUME NEW r \in Row, SatisfiesChecks(r)
  PROVE  /\ MasterMayWrite(r) => r.mode # "paused" /\ r.owner = "master"
         /\ ArchiverMayWrite(r, TRUE) => r.mode # "paused" /\ r.owner = "archiver"
  BY DEF MasterMayWrite, ArchiverMayWrite, owns_write, SatisfiesChecks

\* AcceptedModesAreStorable holds of every coherent row.
LEMMA CoherentAcceptsStorable ==
  ASSUME NEW r \in Row, SatisfiesChecks(r), r.mode = "absent" => r = NoRow,
         NEW target \in Modes, NEW ts \in Cutovers, AcceptsModeChange(r, target, ts)
  PROVE  /\ SatisfiesChecks(plan_mode_change(r, target, ts))
         /\ plan_mode_change(r, target, ts).cutover >= r.cutover \/ target = "off"
<1>1. ActivationTs(r, ts) \in Cutovers /\ Cutovers \subseteq Nat /\ r.cutover \in Cutovers
  BY DEF ActivationTs, Row, Cutovers
<1>2. CASE target = ModeOf(r)
  BY <1>1, <1>2 DEF plan_mode_change, ModeOf, SatisfiesChecks, Row, Modes
<1>3. CASE target # ModeOf(r)
  <2>1. target \in MODE_EDGES[ModeOf(r)]
        /\ (target = "active" => ActivationTs(r, ts) # 0 /\ ActivationTs(r, ts) >= r.cutover)
        /\ (target = "shadow" /\ r.owner = "archiver" => ts # 0 /\ ts >= r.cutover)
    BY <1>3 DEF AcceptsModeChange
  <2>2. /\ plan_mode_change(r, target, ts).mode = target
        /\ plan_mode_change(r, target, ts).owner = OwnerAfter(r, target)
        /\ plan_mode_change(r, target, ts).cutover = CutoverAfter(r, target, ts)
    BY <1>3 DEF plan_mode_change, Row
  <2>3. CASE target = "active"
    BY <1>1, <2>1, <2>2, <2>3 DEF OwnerAfter, CutoverAfter, SatisfiesChecks
  <2>4. CASE target = "shadow"
    BY <1>1, <2>1, <2>2, <2>4 DEF OwnerAfter, CutoverAfter, SatisfiesChecks
  <2>5. CASE target = "off"
    BY <1>1, <2>1, <2>2, <2>5 DEF OwnerAfter, CutoverAfter, SatisfiesChecks
  <2>6. CASE target = "paused"
    BY <1>1, <2>1, <2>2, <2>6 DEF OwnerAfter, CutoverAfter, SatisfiesChecks, Row, Owners
  <2>7. QED
    BY <2>3, <2>4, <2>5, <2>6 DEF Modes
<1>4. QED
  BY <1>2, <1>3

(***************************************************************************)
(* The inductive invariant.                                                *)
(***************************************************************************)

LEMMA InitInvariant == Init => IInvSettled
<1> SUFFICES ASSUME Init PROVE IInvSettled
  OBVIOUS
<1> USE DEF Init
<1>1. row \in Row
  BY MaxCutoverAssumption DEF NoRow, Row, Owners, Memberships, Cutovers
<1>2. work \in [Workers -> [pc : {"idle", "collectible", "switched", "writing"},
                            age : 0 .. WriteTicks, degraded : BOOLEAN]]
  BY TicksAssumption DEF Idle
<1>3. cache \in [age : 0 .. CacheTicks, allowed : BOOLEAN, degraded : BOOLEAN]
  BY TicksAssumption
<1>4. TypeOK
  <2>1. SyncIdle \in [pc : {"idle", "fetched", "planned", "looked"},
                      joined : BOOLEAN, plan : Plans \cup {NoPlan}]
    BY DEF SyncIdle
  <2>2. sync \in [Syncers -> [pc : {"idle", "fetched", "planned", "looked"},
                              joined : BOOLEAN, plan : Plans \cup {NoPlan}]]
    BY <2>1
  <2>3. pausedFor \in 0 .. SettleTicks
    BY TicksAssumption
  <2>4. QED
    BY <1>1, <1>2, <1>3, <2>2, <2>3 DEF TypeOK
<1>5. RowCoherent /\ PauseOutlived
  BY DEF RowCoherent, PauseOutlived, SatisfiesChecks, NoRow
<1>6. OnlyOwner
  BY DEF OnlyOwner, NoRow, ArchiverWriting, Idle, Workers
<1>7. QED
  BY <1>4, <1>5, <1>6 DEF IInvSettled, IInv

\* Every change of the row that keeps it coherent keeps the ages in order, and one that
\* changes the owner of a channel paused long enough finds nobody writing.
LEMMA RowChangeKeepsInvariant ==
  ASSUME IInv, NEW new \in Row, SatisfiesChecks(new), new.mode = "absent" => new = NoRow,
         ChangeRow(new), invited' \in BOOLEAN, flag' \in BOOLEAN,
         sync' \in [Syncers -> [pc : {"idle", "fetched", "planned", "looked"},
                                joined : BOOLEAN, plan : Plans \cup {NoPlan}]],
         UNCHANGED <<cache, work>>
  PROVE  /\ IInv'
         /\ SettleTicks >= CacheTicks + WriteTicks /\ OnlyOwner => OnlyOwner'
<1> USE DEF IInv
<1>1. pausedFor' \in 0 .. SettleTicks /\ cut' \in {"settled", "hasty"}
  BY TicksAssumption DEF ChangeRow, TypeOK
<1>2. TypeOK'
  BY <1>1 DEF TypeOK, ChangeRow
<1>3. RowCoherent'
  BY DEF RowCoherent, ChangeRow, SatisfiesChecks, NoRow
<1>4. /\ cache.age \in Nat
      /\ \A w \in Workers : work[w].age \in 0 .. WriteTicks
      /\ CacheTicks \in Nat \ {0} /\ WriteTicks \in Nat /\ SettleTicks \in Nat
      /\ pausedFor \in 0 .. SettleTicks
  BY TicksAssumption DEF TypeOK
<1>5. Masters \subseteq Workers /\ Archivers \subseteq Workers
  BY DEF Workers
<1>6. PauseOutlived'
  <2>1. CASE row.mode = "paused" /\ new.mode = "paused"
    BY <2>1 DEF PauseOutlived, ChangeRow, CachedYes
  <2>2. CASE ~(row.mode = "paused" /\ new.mode = "paused")
    BY <1>4, <1>5, <2>2 DEF PauseOutlived, ChangeRow, CachedYes
  <2>3. QED
    BY <2>1, <2>2
<1>7. ASSUME SettleTicks >= CacheTicks + WriteTicks, OnlyOwner
      PROVE  OnlyOwner'
  <2>1. CASE new.owner = row.owner
    BY <1>7, <2>1 DEF OnlyOwner, ChangeRow, CachedYes, MasterWriting, ArchiverWriting
  <2>2. CASE new.owner # row.owner /\ row.mode = "paused" /\ pausedFor >= SettleTicks
    <3>1. ~CachedYes
      BY <1>4, <1>7, <2>2 DEF PauseOutlived, CachedYes
    <3>2. ~MasterWriting
      BY <1>4, <1>5, <1>7, <2>2 DEF PauseOutlived, MasterWriting
    <3>3. ~ArchiverWriting
      BY <1>4, <1>5, <1>7, <2>2 DEF PauseOutlived, ArchiverWriting
    <3>4. QED
      BY <3>1, <3>2, <3>3 DEF OnlyOwner, CachedYes, MasterWriting, ArchiverWriting
  <2>3. CASE new.owner # row.owner /\ ~(row.mode = "paused" /\ pausedFor >= SettleTicks)
    BY <2>3 DEF OnlyOwner, ChangeRow
  <2>4. QED
    BY <2>1, <2>2, <2>3
<1>8. QED
  BY <1>2, <1>3, <1>6, <1>7

\* A step that leaves the row and every running write alone, whatever else it does.
LEMMA QuietStepKeepsInvariant ==
  ASSUME IInv, TypeOK', UNCHANGED <<row, cache, work, pausedFor, cut>>
  PROVE  /\ IInv'
         /\ OnlyOwner => OnlyOwner'
<1>1. RowCoherent'
  BY DEF IInv, RowCoherent, SatisfiesChecks, NoRow
<1>2. PauseOutlived'
  BY DEF IInv, PauseOutlived, CachedYes
<1>3. OnlyOwner => OnlyOwner'
  BY DEF OnlyOwner, CachedYes, MasterWriting, ArchiverWriting
<1>4. QED
  BY <1>1, <1>2, <1>3 DEF IInv

LEMMA ConsoleKeepsInvariant ==
  ASSUME IInv, Console
  PROVE  /\ IInv'
         /\ SettleTicks >= CacheTicks + WriteTicks /\ OnlyOwner => OnlyOwner'
<1>1. CASE \E target \in Modes, ts \in Cutovers : SetChannelMode(target, ts)
  <2>1. PICK target \in Modes, ts \in Cutovers : SetChannelMode(target, ts)
    BY <1>1
  <2>2. /\ plan_mode_change(row, target, ts) \in Row
        /\ plan_mode_change(row, target, ts).mode # "absent"
    BY PlannedRow DEF IInv, TypeOK
  <2>3. QED
    BY <2>1, <2>2, RowChangeKeepsInvariant DEF SetChannelMode, IInv, TypeOK
<1>2. CASE \E hold \in BOOLEAN : SetCollectionHold(hold)
  <2>1. PICK hold \in BOOLEAN : SetCollectionHold(hold)
    BY <1>2
  <2>2. /\ set_operator_hold(row, hold) \in Row
        /\ SatisfiesChecks(set_operator_hold(row, hold))
        /\ set_operator_hold(row, hold).mode # "absent"
    BY <2>1, HeldRow DEF SetCollectionHold, IInv, TypeOK, RowCoherent
  <2>3. QED
    BY <2>1, <2>2, RowChangeKeepsInvariant DEF SetCollectionHold, IInv, TypeOK
<1>3. CASE \E on \in BOOLEAN : SetLiveSwitch(on)
  <2>1. TypeOK'
    BY <1>3 DEF SetLiveSwitch, IInv, TypeOK
  <2>2. QED
    BY <1>3, <2>1, QuietStepKeepsInvariant DEF SetLiveSwitch
<1>4. QED
  BY <1>1, <1>2, <1>3 DEF Console

\* A plan made from any row is one of the plans the database function is called with.
LEMMA PlannedSync ==
  ASSUME NEW r \in Row, NEW joined \in BOOLEAN
  PROVE  plan_sync(r, joined) \in Plans \cup {NoPlan}
  BY DEF plan_sync, Plans, Row, Modes

LEMMA SyncKeepsInvariant ==
  ASSUME IInv, Sync
  PROVE  /\ IInv'
         /\ SettleTicks >= CacheTicks + WriteTicks /\ OnlyOwner => OnlyOwner'
<1> DEFINE Kinds == [pc : {"idle", "fetched", "planned", "looked"},
                     joined : BOOLEAN, plan : Plans \cup {NoPlan}]
<1>1. sync \in [Syncers -> Kinds] /\ row \in Row /\ invited \in BOOLEAN
  BY DEF IInv, TypeOK
<1>2. SyncIdle \in Kinds
  BY DEF SyncIdle
<1>3. ASSUME NEW s \in Syncers, NEW step \in Kinds, SyncStep(s, step),
             UNCHANGED <<row, pausedFor, cut>>
      PROVE  IInv' /\ (OnlyOwner => OnlyOwner')
  <2>1. sync' \in [Syncers -> Kinds]
    BY <1>1, <1>3 DEF SyncStep
  <2>2. TypeOK'
    BY <1>3, <2>1 DEF SyncStep, IInv, TypeOK
  <2>3. QED
    BY <1>3, <2>2, QuietStepKeepsInvariant DEF SyncStep
<1>4. ASSUME NEW s \in PeriodicSyncers, SyncFetch(s) \/ SyncPlan(s)
      PROVE  IInv' /\ (OnlyOwner => OnlyOwner')
  <2>1. s \in Syncers /\ sync[s] \in Kinds
    BY <1>1, <1>4 DEF Syncers
  <2>2. [pc |-> "fetched", joined |-> invited, plan |-> NoPlan] \in Kinds
    BY <1>1
  <2>3. plan_sync(row, sync[s].joined) \in Plans \cup {NoPlan}
    BY <1>1, <2>1, PlannedSync
  <2>4. CASE SyncFetch(s)
    BY <1>3, <2>1, <2>2, <2>4 DEF SyncFetch
  <2>5. CASE SyncPlan(s)
    <3> DEFINE plan == plan_sync(row, sync[s].joined)
               step == IF plan = NoPlan THEN SyncIdle
                       ELSE [pc |-> "planned", joined |-> FALSE, plan |-> plan]
    <3>1. step \in Kinds
      BY <1>2, <2>3
    <3>2. SyncStep(s, step) /\ UNCHANGED <<row, pausedFor, cut>>
      BY <2>5 DEF SyncPlan
    <3>3. QED
      BY <1>3, <2>1, <3>1, <3>2
  <2>6. QED
    BY <1>4, <2>4, <2>5
<1>5. ASSUME NEW s \in EventSyncers, EventLook(s) \/ EventFetch(s)
      PROVE  IInv' /\ (OnlyOwner => OnlyOwner')
  <2>1. s \in Syncers /\ sync[s] \in Kinds
    BY <1>1, <1>5 DEF Syncers
  <2>2. [pc |-> "looked", joined |-> FALSE, plan |-> plan_sync(row, TRUE)] \in Kinds
    BY <1>1, PlannedSync
  <2>3. CASE EventLook(s)
    BY <1>3, <2>1, <2>2, <2>3 DEF EventLook
  <2>4. CASE EventFetch(s)
    <3> DEFINE step == IF invited THEN [sync[s] EXCEPT !.pc = "planned"] ELSE SyncIdle
    <3>1. step \in Kinds
      BY <1>2, <2>1
    <3>2. SyncStep(s, step) /\ UNCHANGED <<row, pausedFor, cut>>
      BY <2>4 DEF EventFetch
    <3>3. QED
      BY <1>3, <2>1, <3>1, <3>2
  <2>5. QED
    BY <1>5, <2>3, <2>4
<1>6. ASSUME NEW s \in Syncers, SyncApply(s)
      PROVE  /\ IInv'
             /\ SettleTicks >= CacheTicks + WriteTicks /\ OnlyOwner => OnlyOwner'
  <2> DEFINE new == archiver_save_membership(row, sync[s].plan)
  <2>1. sync[s].plan \in Plans \cup {NoPlan}
    BY <1>1, <1>6
  <2>2. new \in Row /\ SatisfiesChecks(new) /\ (new.mode = "absent" => new = NoRow)
    BY <1>1, <2>1, SyncedRow DEF IInv, RowCoherent
  <2>3. sync' \in [Syncers -> Kinds]
    BY <1>1, <1>2, <1>6 DEF SyncApply, SyncStep
  <2>4. ChangeRow(new) /\ UNCHANGED <<invited, flag, cache, work>>
    BY <1>6 DEF SyncApply, SyncStep
  <2>5. invited' \in BOOLEAN /\ flag' \in BOOLEAN
    BY <2>4 DEF IInv, TypeOK
  <2> HIDE DEF new
  <2>6. QED
    BY <2>2, <2>3, <2>4, <2>5, RowChangeKeepsInvariant
<1>7. QED
  BY <1>4, <1>5, <1>6 DEF Sync

\* A worker takes a step of its own: the row and the histories stay, and if the step
\* leaves it writing, the verdict behind it was given on a row that is not paused, or
\* came from the cache, or was already under way.
LEMMA WriteKeepsInvariant ==
  ASSUME IInv, Write
  PROVE  /\ IInv'
         /\ OnlyOwner => OnlyOwner'
<1> DEFINE Kinds == [pc : {"idle", "collectible", "switched", "writing"},
                     age : 0 .. WriteTicks, degraded : BOOLEAN]
           Caches == [age : 0 .. CacheTicks, allowed : BOOLEAN, degraded : BOOLEAN]
<1>1. /\ work \in [Workers -> Kinds] /\ cache \in Caches /\ row \in Row
      /\ SatisfiesChecks(row)
  BY DEF IInv, TypeOK, RowCoherent
<1>2. /\ Idle \in Kinds
      /\ \A d \in BOOLEAN : Writing(d) \in Kinds
      /\ [Idle EXCEPT !.pc = "collectible"] \in Kinds
      /\ [Idle EXCEPT !.pc = "switched"] \in Kinds
  <2>1. 0 \in 0 .. WriteTicks
    BY TicksAssumption
  <2>2. QED
    BY <2>1 DEF Idle, Writing
<1>3. /\ Idle.pc # "writing"
      /\ [Idle EXCEPT !.pc = "collectible"].pc # "writing"
      /\ [Idle EXCEPT !.pc = "switched"].pc # "writing"
  BY DEF Idle
<1>4. ASSUME NEW w \in Workers, NEW step \in Kinds, Become(w, step), cache' \in Caches,
             CachedYes' => CachedYes \/ MasterMayWrite(row),
             CachedYes' /\ CachedYes => cache'.age = cache.age,
             step.pc = "writing" =>
               \/ w \in Masters /\ step.degraded
               \/ w \in Masters /\ ~step.degraded /\ MasterMayWrite(row)
               \/ w \in Masters /\ ~step.degraded /\ step.age = 0 /\ CachedYes
               \/ w \in Archivers /\ ArchiverMayWrite(row, TRUE)
      PROVE  IInv' /\ (OnlyOwner => OnlyOwner')
  <2>1. work' \in [Workers -> Kinds]
    BY <1>1, <1>4 DEF Become
  <2>2. TypeOK'
    BY <1>4, <2>1 DEF Become, IInv, TypeOK
  <2>3. RowCoherent'
    BY <1>4 DEF Become, IInv, RowCoherent, SatisfiesChecks, NoRow
  <2>4. /\ MasterMayWrite(row) => row.mode # "paused" /\ row.owner = "master"
        /\ ArchiverMayWrite(row, TRUE) => row.mode # "paused" /\ row.owner = "archiver"
    BY <1>1, VerdictGoesToOwner
  <2>5. Masters \cap Archivers = {} /\ Masters \subseteq Workers /\ Archivers \subseteq Workers
    BY WorkersAssumption DEF Masters, Workers
  <2>6. \A v \in Workers : work'[v] = IF v = w THEN step ELSE work[v]
    BY <1>1, <1>4 DEF Become
  <2>7. row' = row /\ pausedFor' = pausedFor /\ cut' = cut
    BY <1>4 DEF Become
  <2>8. PauseOutlived'
    <3> SUFFICES ASSUME row.mode = "paused"
                 PROVE  /\ CachedYes' => pausedFor <= cache'.age
                        /\ \A v \in Masters : work'[v].pc = "writing" /\ ~work'[v].degraded
                             => pausedFor < work'[v].age + CacheTicks
                        /\ \A v \in Archivers :
                             work'[v].pc = "writing" => pausedFor <= work'[v].age
      BY <2>7 DEF PauseOutlived, CachedYes
    <3>1. CachedYes' => CachedYes /\ cache'.age = cache.age
      BY <1>4, <2>4
    <3>2. CachedYes => pausedFor <= cache.age /\ pausedFor < 0 + CacheTicks
      BY <1>1, TicksAssumption DEF IInv, PauseOutlived, CachedYes, TypeOK
    <3>3. ASSUME NEW v \in Masters, work'[v].pc = "writing", ~work'[v].degraded
          PROVE  pausedFor < work'[v].age + CacheTicks
      <4>1. CASE v = w
        BY <1>4, <2>4, <2>5, <2>6, <3>2, <3>3, <4>1
      <4>2. CASE v # w
        BY <2>5, <2>6, <3>3, <4>2 DEF IInv, PauseOutlived
      <4>3. QED
        BY <4>1, <4>2
    <3>4. ASSUME NEW v \in Archivers, work'[v].pc = "writing"
          PROVE  pausedFor <= work'[v].age
      <4>1. CASE v = w
        BY <1>4, <2>4, <2>5, <2>6, <3>4, <4>1
      <4>2. CASE v # w
        BY <2>5, <2>6, <3>4, <4>2 DEF IInv, PauseOutlived
      <4>3. QED
        BY <4>1, <4>2
    <3>5. QED
      BY <3>1, <3>2, <3>3, <3>4
  <2>9. OnlyOwner => OnlyOwner'
    <3> SUFFICES ASSUME OnlyOwner, cut = "settled"
                 PROVE  /\ row.owner = "archiver" => ~CachedYes' /\ ~MasterWriting'
                        /\ row.owner = "master" => ~ArchiverWriting'
      BY <2>7 DEF OnlyOwner, CachedYes, MasterWriting, ArchiverWriting
    <3>1. ASSUME row.owner = "archiver" PROVE ~CachedYes' /\ ~MasterWriting'
      <4>1. ~CachedYes /\ ~MasterWriting /\ ~MasterMayWrite(row)
        BY <2>4, <3>1 DEF OnlyOwner
      <4>2. ~CachedYes'
        BY <1>4, <4>1
      <4>3. ASSUME NEW v \in Masters, work'[v].pc = "writing", ~work'[v].degraded PROVE FALSE
        BY <1>4, <2>5, <2>6, <4>1, <4>3 DEF MasterWriting
      <4>4. QED
        BY <4>2, <4>3 DEF MasterWriting
    <3>2. ASSUME row.owner = "master" PROVE ~ArchiverWriting'
      <4>1. ~ArchiverWriting /\ ~ArchiverMayWrite(row, TRUE)
        BY <2>4, <3>2 DEF OnlyOwner
      <4>2. ASSUME NEW v \in Archivers, work'[v].pc = "writing" PROVE FALSE
        BY <1>4, <2>5, <2>6, <4>1, <4>2 DEF ArchiverWriting
      <4>3. QED
        BY <4>2 DEF ArchiverWriting
    <3>3. QED
      BY <3>1, <3>2
  <2>10. QED
    BY <2>2, <2>3, <2>8, <2>9 DEF IInv
<1>5. Pilots \subseteq Masters /\ Collectors \subseteq Masters /\ Masters \subseteq Workers
      /\ Archivers \subseteq Workers
  BY DEF Masters, Workers
<1>6. ASSUME NEW v \in MasterVerdicts
      PROVE  /\ v.allowed \in BOOLEAN /\ v.degraded \in BOOLEAN
             /\ v.allowed /\ ~v.degraded => MasterMayWrite(row)
  <2>1. MasterMayWrite(row) \in BOOLEAN /\ MasterMayWrite(NoRow) \in BOOLEAN
    BY DEF MasterMayWrite
  <2>2. PICK yes \in BOOLEAN, missing \in BOOLEAN :
          yes = MasterMayWrite(row) /\ missing = MasterMayWrite(NoRow)
    BY <2>1
  <2>3. \/ v = [allowed |-> yes, degraded |-> FALSE]
        \/ v = [allowed |-> missing, degraded |-> TRUE]
    BY <2>2, Zenon DEF MasterVerdicts
  <2>4. CASE v = [allowed |-> yes, degraded |-> FALSE]
    <3>1. v.allowed = yes /\ v.degraded = FALSE
      BY <2>4
    <3>2. QED
      BY <2>2, <3>1
  <2>5. CASE v = [allowed |-> missing, degraded |-> TRUE]
    <3>1. v.allowed = missing /\ v.degraded = TRUE
      BY <2>5
    <3>2. QED
      BY <2>2, <3>1
  <2>6. QED
    BY <2>3, <2>4, <2>5
<1>7. ASSUME NEW w \in Pilots, PilotVerdictFromCache(w)
      PROVE  IInv' /\ (OnlyOwner => OnlyOwner')
  <2>1. cache.degraded \in BOOLEAN
    BY <1>1
  <2>2. /\ Writing(cache.degraded) \in Kinds
        /\ Writing(cache.degraded).age = 0
        /\ Writing(cache.degraded).degraded = cache.degraded
    BY <1>2, <2>1 DEF Writing
  <2>3. Become(w, Writing(cache.degraded)) /\ cache' = cache
        /\ (~cache.degraded => CachedYes)
    BY <1>7 DEF PilotVerdictFromCache, CachedYes
  <2>4. CachedYes' <=> CachedYes
    BY <2>3 DEF CachedYes
  <2>5. QED
    BY <1>1, <1>4, <1>5, <1>7, <2>2, <2>3, <2>4
<1>8. ASSUME NEW w \in Pilots, PilotVerdictFromTable(w)
      PROVE  IInv' /\ (OnlyOwner => OnlyOwner')
  <2>1. PICK v \in MasterVerdicts :
          /\ cache' = [age |-> 0, allowed |-> v.allowed, degraded |-> v.degraded]
          /\ Become(w, IF v.allowed THEN Writing(v.degraded) ELSE Idle)
    BY <1>8 DEF PilotVerdictFromTable
  <2>2. /\ v.allowed \in BOOLEAN /\ v.degraded \in BOOLEAN
        /\ v.allowed /\ ~v.degraded => MasterMayWrite(row)
    BY <1>6
  <2> DEFINE step == IF v.allowed THEN Writing(v.degraded) ELSE Idle
  <2>3. step \in Kinds
    BY <1>2, <2>2
  <2>4. step.pc = "writing" => v.allowed /\ step.degraded = v.degraded
    BY <1>3 DEF Writing
  <2>5. cache' \in Caches
    BY <2>1, <2>2, TicksAssumption
  <2>6. (CachedYes' => MasterMayWrite(row)) /\ ~CachedYes
    <3>1. cache.age = CacheTicks /\ CacheTicks \in Nat
      BY <1>8, TicksAssumption DEF PilotVerdictFromTable
    <3>2. cache'.allowed = v.allowed /\ cache'.degraded = v.degraded
      BY <2>1
    <3>3. QED
      BY <2>2, <3>1, <3>2 DEF CachedYes
  <2>7. Become(w, step)
    BY <2>1
  <2> HIDE DEF step
  <2>8. QED
    BY <1>4, <1>5, <1>8, <2>2, <2>3, <2>4, <2>5, <2>6, <2>7
<1>9. ASSUME NEW w \in Collectors, CollectorVerdict(w)
      PROVE  IInv' /\ (OnlyOwner => OnlyOwner')
  <2>1. PICK v \in MasterVerdicts : v.allowed /\ Become(w, Writing(v.degraded)) /\ cache' = cache
    BY <1>9 DEF CollectorVerdict
  <2>2. v.degraded \in BOOLEAN /\ (~v.degraded => MasterMayWrite(row))
    BY <1>6, <2>1
  <2>3. Writing(v.degraded) \in Kinds /\ Writing(v.degraded).degraded = v.degraded
    BY <1>2, <2>2 DEF Writing
  <2>4. CachedYes' <=> CachedYes
    BY <2>1 DEF CachedYes
  <2>5. QED
    BY <1>1, <1>4, <1>5, <1>9, <2>1, <2>2, <2>3, <2>4
<1>10. ASSUME NEW w \in Workers, NEW step \in Kinds, Become(w, step), cache' = cache,
              step.pc = "writing" => w \in Archivers /\ ArchiverMayWrite(row, TRUE)
       PROVE  IInv' /\ (OnlyOwner => OnlyOwner')
  <2>1. CachedYes' <=> CachedYes
    BY <1>10 DEF CachedYes
  <2>2. QED
    BY <1>1, <1>4, <1>10, <2>1
<1>11. ASSUME NEW w \in Archivers, ArchiverReadsRow(w) \/ ArchiverReadsSwitch(w)
       PROVE  IInv' /\ (OnlyOwner => OnlyOwner')
  <2>1. CASE ArchiverReadsRow(w)
    BY <1>2, <1>3, <1>5, <1>10, <1>11, <2>1 DEF ArchiverReadsRow
  <2>2. CASE ArchiverReadsSwitch(w)
    BY <1>2, <1>3, <1>5, <1>10, <1>11, <2>2 DEF ArchiverReadsSwitch
  <2>3. QED
    BY <1>11, <2>1, <2>2
<1>12. ASSUME NEW w \in Archivers, ArchiverVerdict(w)
       PROVE  IInv' /\ (OnlyOwner => OnlyOwner')
  BY <1>2, <1>3, <1>5, <1>10, <1>12 DEF ArchiverVerdict
<1>13. ASSUME NEW w \in Workers, WriteEnds(w)
       PROVE  IInv' /\ (OnlyOwner => OnlyOwner')
  BY <1>2, <1>3, <1>10, <1>13 DEF WriteEnds
<1>14. QED
  BY <1>7, <1>8, <1>9, <1>11, <1>12, <1>13 DEF Write

LEMMA TickKeepsInvariant ==
  ASSUME IInv, Tick
  PROVE  /\ IInv'
         /\ OnlyOwner => OnlyOwner'
<1> DEFINE Kinds == [pc : {"idle", "collectible", "switched", "writing"},
                     age : 0 .. WriteTicks, degraded : BOOLEAN]
           Caches == [age : 0 .. CacheTicks, allowed : BOOLEAN, degraded : BOOLEAN]
<1>1. /\ work \in [Workers -> Kinds] /\ cache \in Caches
      /\ pausedFor \in 0 .. SettleTicks
      /\ CacheTicks \in Nat /\ WriteTicks \in Nat /\ SettleTicks \in Nat
  BY TicksAssumption DEF IInv, TypeOK
<1>2. Masters \subseteq Workers /\ Archivers \subseteq Workers
  BY DEF Workers
<1>3. \A v \in Workers :
        /\ work'[v].pc = work[v].pc
        /\ work'[v].degraded = work[v].degraded
        /\ work'[v] \in Kinds
        /\ work[v].pc = "writing" => work'[v].age = work[v].age + 1
  BY <1>1 DEF Tick
<1>4. work' \in [Workers -> Kinds]
  BY <1>3 DEF Tick
<1>5. /\ cache' \in Caches
      /\ cache'.allowed = cache.allowed /\ cache'.degraded = cache.degraded
      /\ cache'.age < CacheTicks => cache.age < CacheTicks /\ cache'.age = cache.age + 1
  BY <1>1 DEF Tick, Older
<1>6. /\ pausedFor' \in 0 .. SettleTicks
      /\ pausedFor' <= pausedFor + 1
  BY <1>1 DEF Tick, Older
<1>7. row' = row /\ invited' = invited /\ flag' = flag /\ sync' = sync /\ cut' = cut
  BY DEF Tick
<1>8. TypeOK'
  BY <1>4, <1>5, <1>6, <1>7 DEF IInv, TypeOK
<1>9. RowCoherent'
  BY <1>7 DEF IInv, RowCoherent, SatisfiesChecks, NoRow
<1>10. CachedYes' => CachedYes
  BY <1>5 DEF CachedYes
<1>11. PauseOutlived'
  <2> SUFFICES ASSUME row.mode = "paused"
               PROVE  /\ CachedYes' => pausedFor' <= cache'.age
                      /\ \A v \in Masters : work'[v].pc = "writing" /\ ~work'[v].degraded
                           => pausedFor' < work'[v].age + CacheTicks
                      /\ \A v \in Archivers :
                           work'[v].pc = "writing" => pausedFor' <= work'[v].age
    BY <1>7 DEF PauseOutlived, CachedYes
  <2>1. CachedYes' => pausedFor' <= cache'.age
    BY <1>1, <1>5, <1>6, <1>10 DEF IInv, PauseOutlived, CachedYes
  <2>2. ASSUME NEW v \in Masters, work'[v].pc = "writing", ~work'[v].degraded
        PROVE  pausedFor' < work'[v].age + CacheTicks
    <3>1. pausedFor < work[v].age + CacheTicks /\ work'[v].age = work[v].age + 1
      BY <1>2, <1>3, <2>2 DEF IInv, PauseOutlived
    <3>2. work[v].age \in Nat
      BY <1>1, <1>2
    <3>3. QED
      BY <1>1, <1>6, <3>1, <3>2
  <2>3. ASSUME NEW v \in Archivers, work'[v].pc = "writing"
        PROVE  pausedFor' <= work'[v].age
    <3>1. pausedFor <= work[v].age /\ work'[v].age = work[v].age + 1
      BY <1>2, <1>3, <2>3 DEF IInv, PauseOutlived
    <3>2. work[v].age \in Nat
      BY <1>1, <1>2
    <3>3. QED
      BY <1>1, <1>6, <3>1, <3>2
  <2>4. QED
    BY <2>1, <2>2, <2>3
<1>12. OnlyOwner => OnlyOwner'
  BY <1>2, <1>3, <1>7, <1>10 DEF OnlyOwner, MasterWriting, ArchiverWriting
<1>13. QED
  BY <1>8, <1>9, <1>11, <1>12 DEF IInv

\* Every step keeps the invariant; keeping it to the owner as well takes a settling time
\* that covers a cached verdict and the write it allowed.
LEMMA NextKeepsInvariant ==
  ASSUME IInv, [Next]_vars
  PROVE  /\ IInv'
         /\ SettleTicks >= CacheTicks + WriteTicks /\ OnlyOwner => OnlyOwner'
<1>1. CASE InviteOrKick
  <2>1. TypeOK'
    BY <1>1 DEF InviteOrKick, IInv, TypeOK
  <2>2. QED
    BY <1>1, <2>1, QuietStepKeepsInvariant DEF InviteOrKick
<1>2. CASE UNCHANGED vars
  <2>1. TypeOK'
    BY <1>2 DEF vars, IInv, TypeOK
  <2>2. QED
    BY <1>2, <2>1, QuietStepKeepsInvariant DEF vars
<1>3. QED
  BY <1>1, <1>2, ConsoleKeepsInvariant, SyncKeepsInvariant, WriteKeepsInvariant,
     TickKeepsInvariant DEF Next

(***************************************************************************)
(* The theorems.                                                           *)
(***************************************************************************)

LEMMA Invariance == Spec => []IInv
<1>1. Init => IInv
  BY InitInvariant DEF IInvSettled
<1>2. IInv /\ [Next]_vars => IInv'
  BY NextKeepsInvariant
<1>3. QED
  BY <1>1, <1>2, PTL DEF Spec

\* Every state the handover reaches is of its declared type: in particular no actor ever
\* stores a mode, an owner or a plan the table and the functions do not know.
THEOREM TypeCorrect == Spec => []TypeOK
<1>1. IInv => TypeOK
  BY DEF IInv
<1>2. QED
  BY <1>1, Invariance, PTL

\* A pause that outlasts a cached verdict and the write it allowed leaves nobody writing,
\* for every number of pilots, collectors, archivers and syncers (handover.py, "activate").
THEOREM SettledPause == Spec => []SettledPauseIsEmpty
<1>1. ASSUME IInv PROVE SettledPauseIsEmpty
  <2> SUFFICES ASSUME SettleTicks >= CacheTicks + WriteTicks, row.mode = "paused",
                      pausedFor >= SettleTicks
               PROVE  ~MasterWriting /\ ~ArchiverWriting
    BY DEF SettledPauseIsEmpty
  <2>1. /\ \A w \in Workers : work[w].age \in 0 .. WriteTicks
        /\ CacheTicks \in Nat \ {0} /\ WriteTicks \in Nat /\ SettleTicks \in Nat
        /\ pausedFor \in 0 .. SettleTicks
    BY <1>1, TicksAssumption DEF IInv, TypeOK
  <2>2. ~MasterWriting
    BY <1>1, <2>1 DEF IInv, PauseOutlived, MasterWriting, Workers
  <2>3. ~ArchiverWriting
    BY <1>1, <2>1 DEF IInv, PauseOutlived, ArchiverWriting, Workers
  <2>4. QED
    BY <2>2, <2>3
<1>2. QED
  BY <1>1, Invariance, PTL

\* When the settling time covers a cached verdict and the write it allowed, a change of
\* owner made on a settled pause never lets the two bots write at once (handover.py).
THEOREM SettledHandover ==
  ASSUME SettleTicks >= CacheTicks + WriteTicks
  PROVE  Spec => []SettledHandoverIsExclusive
<1>1. Init => IInvSettled
  BY InitInvariant
<1>2. IInvSettled /\ [Next]_vars => IInvSettled'
  BY NextKeepsInvariant DEF IInvSettled
<1>3. IInvSettled => SettledHandoverIsExclusive
  BY DEF IInvSettled, IInv, OnlyOwner, SettledHandoverIsExclusive, TypeOK, Row, Owners
<1>4. QED
  BY <1>1, <1>2, <1>3, PTL DEF Spec

\* plan_mode_change and the table's CHECK constraints agree on every reachable row: an
\* accepted press is never rejected by the database.
THEOREM AcceptedStorable == Spec => []AcceptedModesAreStorable
<1>1. ASSUME IInv PROVE AcceptedModesAreStorable
  <2> SUFFICES ASSUME NEW target \in Modes, NEW ts \in Cutovers,
                      AcceptsModeChange(row, target, ts)
               PROVE  SatisfiesChecks(plan_mode_change(row, target, ts))
    BY DEF AcceptedModesAreStorable
  <2>1. row \in Row /\ SatisfiesChecks(row) /\ (row.mode = "absent" => row = NoRow)
    BY <1>1 DEF IInv, TypeOK, RowCoherent
  <2>2. QED
    BY <2>1, CoherentAcceptsStorable
<1>2. QED
  BY <1>1, Invariance, PTL

\* What one syncer's write does to a coherent row: the step behind the two theorems below.
LEMMA SyncApplied ==
  ASSUME IInv, NEW s \in Syncers, SyncApply(s)
  PROVE  /\ row'.owner = row.owner
         /\ row'.cutover = row.cutover
         /\ row'.mode = "active" => row.mode = "active"
         /\ row.owner = "archiver" /\ row.mode = "paused" => row'.mode = "paused"
         /\ row.hold => row'.hold /\ row'.mode \in {row.mode, "paused"}
<1>1. row' = archiver_save_membership(row, sync[s].plan)
  BY DEF SyncApply, ChangeRow
<1>2. row \in Row /\ SatisfiesChecks(row) /\ (row.mode = "absent" => row = NoRow)
  BY DEF IInv, TypeOK, RowCoherent
<1>3. sync[s].plan \in Plans \cup {NoPlan}
  BY DEF IInv, TypeOK
<1>4. QED
  BY <1>1, <1>2, <1>3, SyncedRow

\* No syncer, however old its plan, moves the operational writer (channel_membership.py).
THEOREM SyncKeepsOwner == Spec => SyncNeverMovesOwnership
<1>1. ASSUME IInv, [Next]_vars
      PROVE  [(\E s \in Syncers : SyncApply(s)) =>
                /\ row'.owner = row.owner
                /\ row'.cutover = row.cutover
                /\ row'.mode = "active" => row.mode = "active"
                /\ row.owner = "archiver" /\ row.mode = "paused" => row'.mode = "paused"]_vars
  BY <1>1, SyncApplied
<1>2. QED
  BY <1>1, Invariance, PTL DEF Spec, SyncNeverMovesOwnership

\* No syncer lifts a person's stop (channel_membership.py).
THEOREM SyncKeepsHold == Spec => SyncNeverLiftsHold
<1>1. ASSUME IInv, [Next]_vars
      PROVE  [(\E s \in Syncers : SyncApply(s)) /\ row.hold =>
                row'.hold /\ row'.mode \in {row.mode, "paused"}]_vars
  BY <1>1, SyncApplied
<1>2. QED
  BY <1>1, Invariance, PTL DEF Spec, SyncNeverLiftsHold

\* A handover coordinate is forgotten only with the channel (archiving_state.py).
THEOREM CutoverMovesForward == Spec => CutoverNeverMovesBack
<1>1. ASSUME IInv, [Next]_vars
      PROVE  [row'.cutover >= row.cutover \/ row'.mode = "off"]_vars
  <2>1. row \in Row /\ SatisfiesChecks(row) /\ (row.mode = "absent" => row = NoRow)
        /\ row.cutover \in Nat
    BY <1>1 DEF IInv, TypeOK, RowCoherent, Row, Cutovers
  <2>2. CASE \E target \in Modes, ts \in Cutovers : SetChannelMode(target, ts)
    <3>1. PICK target \in Modes, ts \in Cutovers : SetChannelMode(target, ts)
      BY <2>2
    <3>2. row' = plan_mode_change(row, target, ts) /\ AcceptsModeChange(row, target, ts)
      BY <3>1 DEF SetChannelMode, ChangeRow
    <3>3. plan_mode_change(row, target, ts).mode = target
      BY <2>1 DEF plan_mode_change, Row
    <3>4. QED
      BY <2>1, <3>2, <3>3, CoherentAcceptsStorable
  <2>3. CASE \E hold \in BOOLEAN : SetCollectionHold(hold)
    BY <2>1, <2>3, HeldRow DEF SetCollectionHold, ChangeRow
  <2>4. CASE \E s \in Syncers : SyncApply(s)
    BY <1>1, <2>1, <2>4, SyncApplied
  <2>5. CASE UNCHANGED row
    BY <2>1, <2>5
  <2>6. CASE \E on \in BOOLEAN : SetLiveSwitch(on)
    BY <2>5, <2>6 DEF SetLiveSwitch
  <2>7. CASE InviteOrKick \/ Tick \/ UNCHANGED vars
    BY <2>5, <2>7 DEF InviteOrKick, Tick, vars
  <2>8. CASE Write
    BY <2>5, <2>8 DEF Write, PilotVerdictFromCache, PilotVerdictFromTable, CollectorVerdict,
                      ArchiverReadsRow, ArchiverReadsSwitch, ArchiverVerdict, WriteEnds, Become
  <2>9. CASE \/ \E s \in PeriodicSyncers : SyncFetch(s) \/ SyncPlan(s)
             \/ \E s \in EventSyncers : EventLook(s) \/ EventFetch(s)
    BY <2>5, <2>9 DEF SyncFetch, SyncPlan, EventLook, EventFetch
  <2>10. QED
    BY <1>1, <2>2, <2>3, <2>4, <2>6, <2>7, <2>8, <2>9 DEF Next, Console, Sync
<1>2. QED
  BY <1>1, Invariance, PTL DEF Spec, CutoverNeverMovesBack

\* A pause ends behind the console's back only if nobody held the channel and the Master
\* owns it: a syncer then takes it for one the bot left and rejoined (channel_membership.py).
\* This is the one cause of the violation MCPauseResumed shows.
THEOREM OnlyUnheldMasterPausesAreEnded ==
  Spec => [][row.mode = "paused" /\ row'.mode # "paused" =>
               Console \/ (~row.hold /\ row.owner # "archiver")]_vars
<1>1. ASSUME IInv, [Next]_vars
      PROVE  [row.mode = "paused" /\ row'.mode # "paused" =>
                Console \/ (~row.hold /\ row.owner # "archiver")]_vars
  <2>1. CASE Console
    BY <2>1
  <2>2. CASE \E s \in Syncers : SyncApply(s)
    BY <1>1, <2>2, SyncApplied
  <2>3. CASE UNCHANGED row
    BY <2>3
  <2>4. CASE InviteOrKick \/ Tick \/ UNCHANGED vars
    BY <2>3, <2>4 DEF InviteOrKick, Tick, vars
  <2>5. CASE Write
    BY <2>3, <2>5 DEF Write, PilotVerdictFromCache, PilotVerdictFromTable, CollectorVerdict,
                      ArchiverReadsRow, ArchiverReadsSwitch, ArchiverVerdict, WriteEnds, Become
  <2>6. CASE \/ \E s \in PeriodicSyncers : SyncFetch(s) \/ SyncPlan(s)
             \/ \E s \in EventSyncers : EventLook(s) \/ EventFetch(s)
    BY <2>3, <2>6 DEF SyncFetch, SyncPlan, EventLook, EventFetch
  <2>7. QED
    BY <1>1, <2>1, <2>2, <2>4, <2>5, <2>6 DEF Next, Sync
<1>2. QED
  BY <1>1, Invariance, PTL DEF Spec

(***************************************************************************)
(* The handover beside the conversion queue (MCWriting).                   *)
(***************************************************************************)
\* A step of the whole is a step of one part and leaves the other alone, so each part behaves
\* as it does by itself and keeps every invariant it was shown to have.
THEOREM WritingKeepsItsParts == WritingSpec => Spec /\ QueueSpec
<1>1. WritingInit => Init /\ QueueInit
  BY DEF WritingInit
<1>2. [WritingNext]_writingVars => [Next]_vars /\ [QueueNext]_queueVars
  BY DEF WritingNext, HandoverMoves, MembershipMoves, QueueMoves, writingVars
<1>3. QED
  BY <1>1, <1>2, PTL DEF WritingSpec, Spec, QueueSpec

\* Every variable of the two keeps its type.
THEOREM WritingTypes == WritingSpec => []WritingTypeOK
<1>1. TypeOK /\ QueueTypeOK => WritingTypeOK
  BY DEF WritingTypeOK
<1>2. QED
  BY <1>1, WritingKeepsItsParts, TypeCorrect, QueueTypes, PTL
=============================================================================
