----------------------------- MODULE ChannelMode -----------------------------
(***************************************************************************)
(* One row of archive_channel_mode and the pure decisions taken over it:   *)
(* which mode follows which (archiving_state.py), who may write the        *)
(* operational archive (write_owner.py), what the membership sync wants    *)
(* (channel_membership.py) and what the database function it calls makes of*)
(* the wish (archiving_schema.sql).  No state: ChannelHandover and         *)
(* MembershipSweep interleave the actors that apply these decisions.       *)
(*                                                                         *)
(* A cutover coordinate is a natural number that orders as Slack timestamps*)
(* do; 0 is the empty string.  A channel with no row is NoRow.             *)
(***************************************************************************)
EXTENDS Naturals

CONSTANT MaxCutover   \* bound: the greatest cutover coordinate an operator gives

ASSUME MaxCutoverAssumption == MaxCutover \in Nat

Modes == {"off", "shadow", "active", "paused"}
Owners == {"master", "archiver"}
Memberships == {"joined", "left", "unknown"}
Cutovers == 0 .. MaxCutover

Row == [mode : Modes \cup {"absent"}, owner : Owners, cutover : Cutovers,
        membership : Memberships, hold : BOOLEAN]

NoRow == [mode |-> "absent", owner |-> "master", cutover |-> 0,
          membership |-> "unknown", hold |-> FALSE]

(***************************************************************************)
(* Mode changes asked for by the console.                                  *)
(***************************************************************************)

MODE_EDGES == [off    |-> {"shadow"},
               shadow |-> {"off", "active", "paused"},
               active |-> {"paused"},
               paused |-> {"shadow", "active"}]

\* A channel without a row is judged as one that is off and the master's.
ModeOf(row) == IF row.mode = "absent" THEN "off" ELSE row.mode

\* The coordinate an activation takes: the one given, or the one recorded.
ActivationTs(row, ts) == IF ts # 0 THEN ts ELSE row.cutover

\* A slip: a new handover coordinate is not compared with the recorded one.
AcceptsForgetsOrder(row, target, ts) ==
  \/ target = ModeOf(row)
  \/ /\ target \in MODE_EDGES[ModeOf(row)]
     /\ target = "active" => ActivationTs(row, ts) # 0
     /\ target = "shadow" /\ row.owner = "archiver" => ts # 0

\* A slip: an activation is accepted without any coordinate.
AcceptsWithoutTs(row, target, ts) ==
  \/ target = ModeOf(row)
  \/ target \in MODE_EDGES[ModeOf(row)]

\* plan_mode_change does not raise TransitionRefused.
AcceptsModeChange(row, target, ts) ==
  \/ target = ModeOf(row)
  \/ /\ target \in MODE_EDGES[ModeOf(row)]
     /\ target = "active" => /\ ActivationTs(row, ts) # 0
                             /\ ActivationTs(row, ts) >= row.cutover
     /\ target = "shadow" /\ row.owner = "archiver" => ts # 0 /\ ts >= row.cutover

OwnerAfter(row, target) ==
  CASE target = "active"            -> "archiver"
    [] target \in {"shadow", "off"} -> "master"
    [] target = "paused"            -> row.owner

CutoverAfter(row, target, ts) ==
  CASE target = "active"                               -> ActivationTs(row, ts)
    [] target = "shadow" /\ row.owner = "archiver"     -> ts
    [] target = "off"                                  -> 0
    [] OTHER                                           -> row.cutover

\* What plan_mode_change returns, written over the row as save_channel_state does:
\* mode, owner and coordinate in one statement, membership and hold left alone.
plan_mode_change(row, target, ts) ==
  IF target = ModeOf(row)
  THEN [row EXCEPT !.mode = target]
  ELSE [row EXCEPT !.mode = target,
                   !.owner = OwnerAfter(row, target),
                   !.cutover = CutoverAfter(row, target, ts)]

\* The two CHECK constraints of the table; a statement whose result breaks one is
\* rejected and changes nothing.
SatisfiesChecks(row) ==
  /\ \/ row.mode = "paused"
     \/ row.mode \in {"absent", "off", "shadow"} /\ row.owner = "master"
     \/ row.mode = "active" /\ row.owner = "archiver"
  /\ row.owner = "archiver" => row.cutover # 0

(***************************************************************************)
(* Who may write.                                                          *)
(***************************************************************************)

\* A slip: a paused channel goes to its recorded owner instead of to nobody.
OwnsWriteWhilePaused(row, actor) ==
  \/ row.mode \in {"off", "shadow"} /\ actor = "master"
  \/ row.mode = "active" /\ actor = "archiver"
  \/ row.mode = "paused" /\ actor = row.owner

owns_write(row, actor) ==
  \/ row.mode \in {"off", "shadow"} /\ actor = "master"
  \/ row.mode = "active" /\ actor = "archiver"

\* decide() for each actor on a row that was read: a missing row is the master's.
MasterMayWrite(row) == row.mode = "absent" \/ owns_write(row, "master")
ArchiverMayWrite(row, flag) == row.mode # "absent" /\ owns_write(row, "archiver") /\ flag

\* May the Archiving Bot take an event of this channel at all?
is_collectible(row) ==
  /\ row.membership = "joined"
  /\ ~row.hold
  /\ row.mode \in {"shadow", "active"}

(***************************************************************************)
(* The membership sync.  A plan is the row the sync asks the database for. *)
(***************************************************************************)

Plans == [mode : Modes, membership : {"joined", "left"}]
NoPlan == [mode |-> "absent", membership |-> "unknown"]

\* A slip: a bot that lost an active channel is not recorded as gone.
PlanKeepsActive(row, joined) ==
  CASE joined /\ row.hold                           -> [mode |-> row.mode, membership |-> "joined"]
    [] joined /\ ~row.hold                          -> [mode |-> "shadow", membership |-> "joined"]
    [] ~joined /\ row.mode \notin {"absent", "active"}
                                                    -> [mode |-> "paused", membership |-> "left"]
    [] OTHER                                        -> NoPlan

\* plan_sync for one channel: joined is what Slack said, row what the table said.
\* In order: register, touch a held channel, keep an archiver-owned channel stopped,
\* rejoin, touch, leave.
plan_sync(row, joined) ==
  IF joined
  THEN [membership |-> "joined",
        mode |->
          CASE row.mode = "absent"                          -> "shadow"
            [] row.mode # "absent" /\ row.hold              -> row.mode
            [] row.mode # "absent" /\ ~row.hold /\ row.owner = "archiver"
               /\ (row.membership # "joined" \/ row.mode = "paused")
                                                            -> "paused"
            [] row.mode # "absent" /\ ~row.hold /\ row.owner # "archiver"
               /\ (row.membership # "joined" \/ row.mode \in {"off", "paused"})
                                                            -> "shadow"
            [] OTHER                                        -> row.mode]
  ELSE IF row.mode = "absent" \/ row.membership = "left"
       THEN NoPlan
       ELSE [mode |-> "paused", membership |-> "left"]

\* A slip: the stop switch is not looked at when the wish is applied.
ModeIgnoringHold(row, plan) ==
  CASE plan.membership = "left" \/ plan.mode = "paused" -> "paused"
    [] row.mode = "active"                              -> "active"
    [] OTHER                                            -> "shadow"

\* The mode archiver_save_membership settles on for an existing row.
MembershipMode(row, plan) ==
  CASE row.hold \/ plan.membership = "left" \/ plan.mode = "paused" -> "paused"
    [] ~row.hold /\ row.mode = "active"                             -> "active"
    [] OTHER                                                        -> "shadow"

\* A slip: an out-of-date "active" wish is let through.
SaveWithoutPromotionGuard(row, plan) ==
  IF row.mode = "absent"
  THEN [NoRow EXCEPT !.mode = plan.mode, !.membership = "joined"]
  ELSE [row EXCEPT !.mode = IF plan.mode = "active" THEN "active" ELSE MembershipMode(row, plan),
                   !.membership = plan.membership]

\* The row archiver_save_membership inserts, or updates the existing one to.
MembershipRow(row, plan) ==
  IF row.mode = "absent"
  THEN [NoRow EXCEPT !.mode = "shadow", !.membership = "joined"]
  ELSE [row EXCEPT !.mode = MembershipMode(row, plan), !.membership = plan.membership]

\* The function raises, or a CHECK rejects what it writes.
MembershipRaises(row, plan) ==
  \/ plan.mode = "off"
  \/ row.mode = "absent" /\ (plan.membership # "joined" \/ plan.mode # "shadow")
  \/ row.mode # "absent" /\ plan.mode = "active" /\ row.mode # "active"
  \/ ~SatisfiesChecks(MembershipRow(row, plan))

\* archiver_save_membership: the row after the call, as it was if the call raises.
archiver_save_membership(row, plan) ==
  IF MembershipRaises(row, plan) THEN row ELSE MembershipRow(row, plan)

\* set_operator_hold: paused when held; released, shadow if the bot is in the channel.
\* The owner is not touched, so a CHECK can reject the release.
set_operator_hold(row, hold) ==
  LET wanted == [row EXCEPT !.hold = hold,
                            !.mode = IF hold THEN "paused"
                                     ELSE IF row.membership = "joined" THEN "shadow" ELSE @]
  IN IF SatisfiesChecks(wanted) THEN wanted ELSE row
=============================================================================
