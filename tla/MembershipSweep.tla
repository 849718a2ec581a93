--------------------------- MODULE MembershipSweep ---------------------------
(***************************************************************************)
(* The periodic round of an Archiving Bot over all channels of its         *)
(* workspace (channel_membership.sync, called by _membership_sync_loop and *)
(* once at the start of the process).  A round asks Slack where the bot is,*)
(* reads the table, and writes one row after the other, without a try per  *)
(* channel: the first row the database refuses ends the round for all that *)
(* come later.  ChannelHandover follows one channel through every actor;   *)
(* here are the channels of one round, with the console and Slack's members*)
(* beside it, and nobody who writes.                                       *)
(*                                                                         *)
(* A channel's number is its place in the order of channel ids.            *)
(***************************************************************************)
EXTENDS Naturals

CONSTANTS
  SweptChannels,
  MaxCutover,    \* bound: the greatest cutover coordinate an operator gives
  MaxPresses     \* bound: changes made at the console

ASSUME SweepAssumption ==
  SweptChannels \subseteq Nat /\ MaxCutover \in Nat /\ MaxPresses \in Nat

Mode == INSTANCE ChannelMode

VARIABLES
  rows,      \* archive_channel_mode
  members,   \* the channels the bot is in, in Slack
  sweep,     \* the step of the round, what Slack said, and what is left of the plan
  presses    \* console changes made so far

sweepVars == <<rows, members, sweep, presses>>

NothingPlanned == [c \in SweptChannels |-> Mode!NoPlan]
BetweenRounds == [pc |-> "waiting", joined |-> {}, plan |-> NothingPlanned]

SweepTypeOK ==
  /\ rows \in [SweptChannels -> Mode!Row]
  /\ members \subseteq SweptChannels
  /\ sweep \in [pc : {"waiting", "fetched", "applying"}, joined : SUBSET SweptChannels,
                plan : [SweptChannels -> Mode!Plans \cup {Mode!NoPlan}]]
  /\ presses \in 0 .. MaxPresses

SweepInit ==
  /\ rows = [c \in SweptChannels |-> Mode!NoRow]
  /\ members \in SUBSET SweptChannels
  /\ sweep = BetweenRounds
  /\ presses = 0

(***************************************************************************)
(* The console, and people in Slack.                                       *)
(***************************************************************************)
Press(c, new) ==
  /\ presses < MaxPresses /\ presses' = presses + 1
  /\ rows' = [rows EXCEPT ![c] = new]
  /\ UNCHANGED <<members, sweep>>

\* The gate, the live switch and the other blockers of an activation are taken as open.
PressMode(c, target, ts) ==
  /\ Mode!AcceptsModeChange(rows[c], target, ts)
  /\ Mode!SatisfiesChecks(Mode!plan_mode_change(rows[c], target, ts))
  /\ Press(c, Mode!plan_mode_change(rows[c], target, ts))

PressHold(c, hold) ==
  /\ rows[c].mode # "absent"
  /\ Press(c, Mode!set_operator_hold(rows[c], hold))

Join(c) ==
  /\ members' = members \cup {c}
  /\ UNCHANGED <<rows, sweep, presses>>
Leave(c) ==
  /\ members' = members \ {c}
  /\ UNCHANGED <<rows, sweep, presses>>

(***************************************************************************)
(* A round.                                                                *)
(***************************************************************************)
fetch_joined ==
  /\ sweep.pc = "waiting"
  /\ sweep' = [BetweenRounds EXCEPT !.pc = "fetched", !.joined = members]
  /\ UNCHANGED <<rows, members, presses>>

ToApply(plan) == {c \in SweptChannels : plan[c] # Mode!NoPlan}
LeftOf(plan) ==
  IF ToApply(plan) = {} THEN BetweenRounds
  ELSE [sweep EXCEPT !.pc = "applying", !.plan = plan]

plan_all ==
  /\ sweep.pc = "fetched"
  /\ sweep' = LeftOf([c \in SweptChannels |-> Mode!plan_sync(rows[c], c \in sweep.joined)])
  /\ UNCHANGED <<rows, members, presses>>

\* The joined channels come first, as Slack lists them; the others in the order of their ids.
IsNext(c) ==
  /\ c \in ToApply(sweep.plan)
  /\ c \notin sweep.joined =>
       \A d \in ToApply(sweep.plan) : d \notin sweep.joined /\ c <= d

\* save_membership took the row ...
ApplyAction(c) ==
  /\ sweep.pc = "applying" /\ IsNext(c)
  /\ ~Mode!MembershipRaises(rows[c], sweep.plan[c])
  /\ rows' = [rows EXCEPT ![c] = Mode!archiver_save_membership(rows[c], sweep.plan[c])]
  /\ sweep' = LeftOf([sweep.plan EXCEPT ![c] = Mode!NoPlan])
  /\ UNCHANGED <<members, presses>>

\* ... or raises: the round is over, and the loop logs it and waits.
ActionRaises(c) ==
  /\ sweep.pc = "applying" /\ IsNext(c)
  /\ Mode!MembershipRaises(rows[c], sweep.plan[c])
  /\ sweep' = BetweenRounds
  /\ UNCHANGED <<rows, members, presses>>

apply_plan == \E c \in SweptChannels : ApplyAction(c) \/ ActionRaises(c)

SweepNext ==
  \/ \E c \in SweptChannels, target \in Mode!Modes, ts \in Mode!Cutovers : PressMode(c, target, ts)
  \/ \E c \in SweptChannels, hold \in BOOLEAN : PressHold(c, hold)
  \/ \E c \in SweptChannels : Join(c) \/ Leave(c)
  \/ fetch_joined \/ plan_all \/ apply_plan

\* The loop goes on as long as the process does, whatever a round raised, and calls return.
SweepFairness == WF_sweepVars(fetch_joined) /\ WF_sweepVars(plan_all) /\ WF_sweepVars(apply_plan)
SweepSpec == SweepInit /\ [][SweepNext]_sweepVars /\ SweepFairness

(***************************************************************************)
(* Properties.                                                             *)
(***************************************************************************)
\* What the documentation of channel_membership promises: a channel the bot was removed from
\* is recorded as left, so that its collection stops.
RemovalIsNoticed ==
  \A c \in SweptChannels : []<>(c \in members \/ rows[c].membership # "joined")

\* A channel that the stop switch holds and the console turned off, with the bot still in it:
\* plan_sync hands its mode back, and archiver_save_membership raises on it.
Blocks(d) == d \in members /\ rows[d].hold /\ rows[d].mode = "off"

\* A removal goes unnoticed for one reason only: some other channel that ends every round
\* before the removed one's turn.  Nothing else that the console does, however it races with
\* the rounds, keeps a round from its end for good.
RemovalIsNoticedUnlessBlocked ==
  \A c \in SweptChannels :
    []<>(\/ c \in members \/ rows[c].membership # "joined"
         \/ \E d \in SweptChannels : Blocks(d))
=============================================================================
