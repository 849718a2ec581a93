----------------------------- MODULE MCServices -----------------------------
(***************************************************************************)
(* Four services, the conversion queue and the membership round for TLC.   *)
(* They share no state, so a behaviour of the whole tells nothing that the *)
(* behaviours of each do not: the one that moves is chosen at the start,   *)
(* and the others stay as they are, in one of their initial states.        *)
(*   MCServices.cfg   every property of the six                            *)
(*   MCOptOut.cfg     the reminders alone, against what a comment says     *)
(*   MCSweep.cfg      the round alone, against what a docstring says       *)
(***************************************************************************)
EXTENDS Backfill, ImageDescription, ScheduleDm, VipAnswer, ConversionQueue, MembershipSweep,
        TLC

CONSTANTS
  Components,                            \* those one of which moves
  a1, a2, k1, k2,                        \* archivers and consoles
  w1, w2, p1, p2,                        \* workspaces and photos
  ann, timer, hand,                      \* a person and her reminders' runs
  th1, th2, q1, ceo, ra, rb,             \* listener threads, a question, rooms
  retry, nightly, drawing                \* runs of the queue and a job

\* Messages 1 and 2 are posts of one channel, 3 replies to 1.
channelOf == [ts \in 1 .. 3 |-> "c1"]
parentOf == [ts \in 1 .. 3 |-> IF ts = 3 THEN 1 ELSE 0]
\* With a lookback of 2 both reach post 1; the second ends on a post, the first starts on one.
scopes == {[channel |-> "all", from |-> 2, to |-> 0], [channel |-> "all", from |-> 0, to |-> 2]}
workspaceOf == (p1 :> w1) @@ (p2 :> w2)
ownLimits == [slots |-> 1, calls |-> 1]
limitChoices == {ownLimits, [slots |-> 2, calls |-> 2]}
personOf == [k \in Keys |-> ann]
asker == [q \in Questions |-> ceo]

\* Bounds of this instance besides the constants.  The requests of a behaviour are for the same messages, to preview or to write.
OneScopeAsked ==
  LET asked == UNION {desk[c] : c \in Consoles}
               \cup {ticket[j].order : j \in {i \in JobIds : ticket[i].state # "absent"}}
  IN  Cardinality({[o EXCEPT !.dry = TRUE] : o \in asked}) <= 1

VARIABLE active       \* the component that moves

serviceVars == <<active, backfillVars, imageVars, dmVars, vipVars, queueVars, sweepVars>>

ServicesInit ==
  /\ active \in Components
  /\ BackfillInit /\ ImageInit /\ DmInit /\ VipInit /\ QueueInit /\ SweepInit
  /\ active # "images" => limits = ownLimits
  /\ active # "reminders" => /\ prefs = [p \in People |-> "none"]
                             /\ dm = [k \in Keys |-> NoReminder]
  /\ prefs[ann] = "on" => dm = [k \in Keys |-> NoReminder]
  /\ active # "sweep" => members = {}

BackfillMoves ==
  /\ active = "backfill" /\ BackfillNext /\ OneScopeAsked'
  /\ UNCHANGED <<active, imageVars, dmVars, vipVars, queueVars, sweepVars>>
ImagesMove ==
  /\ active = "images" /\ ImageNext
  \* Two at once is for a charge that meets another batch: only the catalogue has its event then.
  /\ limits # ownLimits => (events' # events => charged # {} /\ verified' # verified)
  /\ UNCHANGED <<active, backfillVars, dmVars, vipVars, queueVars, sweepVars>>
RemindersMove ==
  /\ active = "reminders" /\ DmNext
  /\ UNCHANGED <<active, backfillVars, imageVars, vipVars, queueVars, sweepVars>>
VipMoves ==
  /\ active = "vip" /\ VipNext
  /\ UNCHANGED <<active, backfillVars, imageVars, dmVars, queueVars, sweepVars>>
QueueMoves ==
  /\ active = "queue" /\ QueueNext
  /\ UNCHANGED <<active, backfillVars, imageVars, dmVars, vipVars, sweepVars>>
SweepMoves ==
  /\ active = "sweep" /\ SweepNext
  \* The stop switch is there for one of the channels.
  /\ rows'[2].hold = rows[2].hold
  /\ UNCHANGED <<active, backfillVars, imageVars, dmVars, vipVars, queueVars>>
ServicesNext ==
  \/ BackfillMoves \/ ImagesMove \/ RemindersMove \/ VipMoves \/ QueueMoves \/ SweepMoves

\* The fairness of each component, while it is the one that moves.
ServicesFairness ==
  /\ \A a \in Archivers : WF_backfillVars(active = "backfill" /\ Works(a))
  /\ \A w \in Workspaces : WF_imageVars(active = "images" /\ Proceeds(w))
  /\ \A i \in Identities : WF_imageVars(active = "images" /\ GrowOld(i))
  /\ WF_dmVars(active = "reminders" /\ plan_dm(Timer))
  /\ \A r \in Senders : SF_dmVars(active = "reminders" /\ Sending(r))
  /\ \A k \in Keys : WF_dmVars(active = "reminders" /\ LockOutlivesRun(k))
  /\ \A w \in Runs : /\ WF_queueVars(active = "queue" /\ Reclaim(w))
                     /\ WF_queueVars(active = "queue" /\ RunStep(w))
  /\ \A j \in Jobs : WF_queueVars(active = "queue" /\ LeaseRunsOut(j))
  /\ WF_sweepVars(active = "sweep" /\ fetch_joined)
  /\ WF_sweepVars(active = "sweep" /\ plan_all)
  /\ WF_sweepVars(active = "sweep" /\ apply_plan)

ServicesSpec == ServicesInit /\ [][ServicesNext]_serviceVars /\ ServicesFairness

ServicesTypeOK ==
  /\ BackfillTypeOK /\ ImageTypeOK /\ DmTypeOK /\ VipTypeOK /\ QueueTypeOK
  /\ SweepTypeOK
=============================================================================
