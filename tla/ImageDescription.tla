--------------------------- MODULE ImageDescription ---------------------------
(***************************************************************************)
(* Sending a photo to an outside model for a description                   *)
(* (src/tybot/archive/image_description_*.py).  A timer starts one batch   *)
(* per workspace; for each photo the batch reads the human clearance and   *)
(* the approval, reserves a row of the job ledger, begins the dispatch,    *)
(* calls the model once and writes how it ended.  Meanwhile people save    *)
(* policies, approve, revoke and clear, maintenance verifies the models,   *)
(* the batches of other workspaces use the same slots, and a batch may     *)
(* die between any two of its steps.                                       *)
(*                                                                         *)
(* Every store transaction takes the global policy row FOR UPDATE, so each *)
(* is one step.  The prompt's revision and the bytes of a photo are part   *)
(* of what names it.  Quota counts are unlimited; receipts and approvals   *)
(* run out at any time.                                                    *)
(***************************************************************************)
EXTENDS Naturals, FiniteSets

CONSTANTS
  Workspaces,
  Global,           \* workspace '': the policy row of all
  Photos,           \* candidates: workspace, channel, file and hash of a photo
  WorkspaceOf,
  Routes,           \* provider and model
  ApprovalIds,      \* in the order of their creation
  Limits,           \* max_concurrency and daily_calls the global row may have
  OwnLimits,        \* those of a workspace's row
  MaxEvents         \* bound: what people, time and faults do

Identities == Photos \X Routes      \* identity_sha256

ASSUME ImageAssumption ==
  /\ Global \notin Workspaces
  /\ WorkspaceOf \in [Photos -> Workspaces]
  /\ IsFiniteSet(Photos) /\ IsFiniteSet(Routes) /\ Photos # {} /\ Routes # {}
  /\ ApprovalIds \subseteq Nat \ {0}
  /\ MaxEvents \in Nat
  /\ Limits \subseteq [slots : Nat \ {0}, calls : Nat \ {0}]
  /\ OwnLimits \in [slots : Nat \ {0}, calls : Nat \ {0}]

VARIABLES
  policy,       \* archiver_image_description_policy, a workspace's row or the global one
  limits,       \* the global row's max_concurrency and daily_calls: nobody changes them
  verified,     \* routes the catalog holds for free, vision and current
  clearance,    \* the policy revision each photo is cleared for, <<>> for none
  approval,     \* archiver_image_description_approval
  ledger,       \* archiver_image_description_job, by identity
  batch,        \* the batch of each workspace
  events,       \* what people, time and faults did so far
  sent,         \* history: calls of the model, by identity
  charged,      \* history: routes with a charge nobody who saved the catalog since had seen
  reopened      \* history: those of them that were saved as free again all the same

imageVars == <<policy, limits, verified, clearance, approval, ledger, batch, events, sent,
               charged, reopened>>

Revisions == (0 .. MaxEvents) \X (0 .. MaxEvents)
Policies == [rev : 0 .. MaxEvents, on : BOOLEAN, route : Routes]
Approvals == [state : {"absent", "active", "revoked", "expired"}, photo : Photos,
              route : Routes, rev : Revisions]
Closed == {"published", "failed", "unknown", "cancelled", "blocked"}
ImageRows == [state : Closed \cup {"absent", "reserved", "dispatching"},
              approval : ApprovalIds \cup {0}, today : BOOLEAN, old : BOOLEAN]
BatchSteps == [pc : {"off", "picking", "found", "reserved", "granted",
                     "answered", "marking"},
               rev : Revisions, route : Routes, todo : SUBSET Photos, photo : Photos,
               approval : ApprovalIds \cup {0},
               answer : {"described", "unusable", "charged", "broken"}]

SomePhoto == CHOOSE p \in Photos : TRUE
SomeRoute == CHOOSE m \in Routes : TRUE
Off == [pc |-> "off", rev |-> <<0, 0>>, route |-> SomeRoute, todo |-> {}, photo |-> SomePhoto,
        approval |-> 0, answer |-> "broken"]
NoRow == [state |-> "absent", approval |-> 0, today |-> FALSE, old |-> FALSE]

ImageTypeOK ==
  /\ policy \in [Workspaces \cup {Global} -> Policies]
  /\ limits \in Limits /\ verified \subseteq Routes
  /\ clearance \in [Photos -> Revisions \cup {<<>>}]
  /\ approval \in [ApprovalIds -> Approvals]
  /\ ledger \in [Identities -> ImageRows]
  /\ batch \in [Workspaces -> BatchSteps]
  /\ events \in 0 .. MaxEvents
  /\ sent \in [Identities -> Nat]
  /\ charged \subseteq Routes /\ reopened \subseteq charged

\* The description is switched on and the photos are cleared; nothing has been approved yet.
ImageInit ==
  /\ policy \in [Workspaces \cup {Global} -> [rev : {0}, on : {TRUE}, route : {SomeRoute}]]
  /\ limits \in Limits /\ verified = Routes
  /\ clearance = [p \in Photos |-> <<0, 0>>]
  /\ approval = [a \in ApprovalIds |-> [state |-> "absent", photo |-> SomePhoto,
                                        route |-> SomeRoute, rev |-> <<0, 0>>]]
  /\ ledger = [i \in Identities |-> NoRow]
  /\ batch = [w \in Workspaces |-> Off]
  /\ events = 0
  /\ sent = [i \in Identities |-> 0] /\ charged = {} /\ reopened = {}

(***************************************************************************)
(* The policy in force, and the ledger's counts.                           *)
(***************************************************************************)
_effective(w) ==
  [rev |-> <<policy[Global].rev, policy[w].rev>>,
   on |-> policy[Global].on /\ policy[w].on, route |-> policy[w].route]

Holding == {"reserved", "dispatching", "unknown"}
Of(w) == {i \in Identities : WorkspaceOf[i[1]] = w}
Active == {i \in Identities : ledger[i].state \in Holding}
Today == {i \in Identities : ledger[i].today}

\* A slip: a workspace minds its own slots and calls only.
OwnSlotsLeft(w) ==
  /\ Cardinality(Active \cap Of(w)) < OwnLimits.slots
  /\ Cardinality(Today \cap Of(w)) < OwnLimits.calls
SlotsLeft(w) ==
  /\ Cardinality(Active) < limits.slots /\ Cardinality(Active \cap Of(w)) < OwnLimits.slots
  /\ Cardinality(Today) < limits.calls /\ Cardinality(Today \cap Of(w)) < OwnLimits.calls

(***************************************************************************)
(* People and maintenance.                                                 *)
(***************************************************************************)
\* What people, time and faults do is counted together.
Event == events < MaxEvents /\ events' = events + 1

\* The form's expected revision is that of the row it overwrites, or the save is refused.
save_policy(w, on, route) ==
  /\ Event
  /\ policy' = [policy EXCEPT ![w] = [rev |-> events + 1, on |-> on, route |-> route]]
  /\ UNCHANGED <<limits, verified, clearance, approval, ledger, batch, sent, charged, reopened>>

\* Whoever saves an entry has read its revision, and the save is refused if another one came
\* between.  The cost guard leaves the revision as it is, so who read it before a charge still
\* saves the model as free after it, once: the next to save has read what this save wrote.
save_catalog(m, sawCharge) ==
  /\ Event
  /\ verified' = verified \cup {m}
  /\ \/ sawCharge /\ charged' = charged \ {m} /\ reopened' = reopened \ {m}
     \/ ~sawCharge /\ m \in charged \ reopened /\ reopened' = reopened \cup {m}
        /\ UNCHANGED charged
  /\ UNCHANGED <<policy, limits, clearance, approval, ledger, batch, sent>>

\* The verification is older than the policy lets it be.
VerificationLapses(m) ==
  /\ Event
  /\ m \in verified
  /\ verified' = verified \ {m}
  /\ UNCHANGED <<policy, limits, clearance, approval, ledger, batch, sent, charged, reopened>>

\* The newest judgement of a photo that is not revoked and has not run out counts: saving,
\* revoking and running out set it to the policy in force or to nothing.
Judge(p, rev) ==
  /\ Event
  /\ clearance[p] # rev /\ rev \in {<<>>, _effective(WorkspaceOf[p]).rev}
  /\ clearance' = [clearance EXCEPT ![p] = rev]
  /\ UNCHANGED <<policy, limits, verified, approval, ledger, batch, sent, charged, reopened>>

\* The console reads the policy and the transaction refuses the approval if it is no longer
\* in force.
approve(a, p) ==
  LET w == WorkspaceOf[p]
  IN /\ approval[a].state = "absent"
     /\ \A b \in ApprovalIds : approval[b].state = "absent" => a <= b
     /\ approval' = [approval EXCEPT ![a] =
          [state |-> "active", photo |-> p, route |-> _effective(w).route,
           rev |-> _effective(w).rev]]
     /\ UNCHANGED <<policy, limits, verified, clearance, ledger, batch, events, sent,
                    charged, reopened>>

\* A slip: the rows an approval reserved outlive it.
KeepsReserved(row, a) == row
CancelReserved(row, a) ==
  IF row.approval = a /\ row.state = "reserved" THEN [row EXCEPT !.state = "cancelled"] ELSE row

revoke(a) ==
  /\ Event
  /\ approval[a].state \in {"active", "expired"}
  /\ approval' = [approval EXCEPT ![a].state = "revoked"]
  /\ ledger' = [i \in Identities |-> CancelReserved(ledger[i], a)]
  /\ UNCHANGED <<policy, limits, verified, clearance, batch, sent, charged, reopened>>

ApprovalExpires(a) ==
  /\ Event
  /\ approval[a].state = "active"
  /\ approval' = [approval EXCEPT ![a].state = "expired"]
  /\ UNCHANGED <<policy, limits, verified, clearance, ledger, batch, sent, charged, reopened>>

Midnight ==
  /\ Event
  /\ Today # {}
  /\ ledger' = [i \in Identities |-> [ledger[i] EXCEPT !.today = FALSE]]
  /\ UNCHANGED <<policy, limits, verified, clearance, approval, batch, sent, charged, reopened>>

\* STALE_DISPATCH_SECONDS pass; a call may take longer.
GrowOld(i) ==
  /\ ledger[i].state = "dispatching" /\ ~ledger[i].old
  /\ ledger' = [ledger EXCEPT ![i].old = TRUE]
  /\ UNCHANGED <<policy, limits, verified, clearance, approval, batch, events, sent, charged,
                 reopened>>

(***************************************************************************)
(* A batch.                                                                *)
(***************************************************************************)
At(w, pcs) == batch[w].pc \in pcs
Moves(w, s) == batch' = [batch EXCEPT ![w] = s]
IdentityOf(w) == <<batch[w].photo, batch[w].route>>
RowIs(i, row) == ledger' = [ledger EXCEPT ![i] = row]

\* What a batch that has these photos left does next: one of them, or it ends.
GoesOn(w, photos) ==
  IF photos = {} THEN Off
  ELSE [Off EXCEPT !.pc = "picking", !.rev = batch[w].rev, !.route = batch[w].route,
                   !.todo = photos]
NextPhoto(w) == GoesOn(w, batch[w].todo \ {batch[w].photo})

\* A slip: what is under way is left to its own batch.
NeverStale(row) == row
Reconciled(row) ==
  IF row.state = "dispatching" /\ row.old THEN [row EXCEPT !.state = "unknown"] ELSE row

\* What already has a revision, on whichever route, is not a candidate.
indexed_sources == {p \in Photos : \E m \in Routes : ledger[<<p, m>>].state = "published"}

\* reconcile_stale_dispatches, for all workspaces, and the policy and the candidates as the
\* batch reads them next.
run_once(w) ==
  LET photos == {p \in Photos : WorkspaceOf[p] = w} \ indexed_sources
  IN /\ At(w, {"off"})
     /\ ledger' = [i \in Identities |-> Reconciled(ledger[i])]
     /\ Moves(w, IF ~_effective(w).on \/ photos = {} THEN Off
                 ELSE [Off EXCEPT !.pc = "picking", !.rev = _effective(w).rev,
                                  !.route = _effective(w).route, !.todo = photos])
     /\ UNCHANGED <<policy, limits, verified, clearance, approval, events, sent, charged,
                    reopened>>

Approving(w, p) ==
  {a \in ApprovalIds : /\ approval[a].state = "active" /\ approval[a].photo = p
                       /\ approval[a].rev = batch[w].rev /\ approval[a].route = batch[w].route}

\* checks_for and approval_id_for, in this order: nothing later reads the clearance again.
checks_for(w, p) ==
  /\ At(w, {"picking"}) /\ p \in batch[w].todo
  /\ \/ /\ clearance[p] # batch[w].rev \/ Approving(w, p) = {}
        /\ Moves(w, GoesOn(w, batch[w].todo \ {p}))
     \/ /\ clearance[p] = batch[w].rev
        /\ \E a \in Approving(w, p) :
             /\ \A b \in Approving(w, p) : b <= a
             /\ Moves(w, [batch[w] EXCEPT !.pc = "found", !.photo = p, !.approval = a])
  /\ UNCHANGED <<policy, limits, verified, clearance, approval, ledger, events, sent, charged,
                 reopened>>

\* The approval names this photo, and the policy and the route in force.
InForce(i, a) ==
  LET now == _effective(WorkspaceOf[i[1]])
  IN /\ now.on /\ now.route = i[2]
     /\ a \in ApprovalIds
     /\ approval[a] = [state |-> "active", photo |-> i[1], route |-> now.route, rev |-> now.rev]

\* A slip: the model's entry in the catalog is taken as it was when the row was reserved.
TrustsReceipt(i, a) == InForce(i, a)
\* preflight_image_description, with what is in force in the transaction.
Preflight(i, a) == InForce(i, a) /\ i[2] \in verified

\* A slip: what ended without a revision may be tried again.
NotOpen(row) == row.state \in {"absent", "failed", "unknown", "cancelled"}
\* duplicate_job: one row per identity for ever.
Unheard(row) == row.state = "absent"

reserve(w) ==
  LET i == IdentityOf(w)
      a == batch[w].approval
  IN /\ At(w, {"found"})
     /\ Preflight(i, a) /\ Unheard(ledger[i]) /\ SlotsLeft(w)
     /\ RowIs(i, [state |-> "reserved", approval |-> a, today |-> TRUE, old |-> FALSE])
     /\ Moves(w, [batch[w] EXCEPT !.pc = "reserved"])
     /\ UNCHANGED <<policy, limits, verified, clearance, approval, events, sent, charged,
                    reopened>>

\* The original cannot be read, or the reservation is refused.
PassOver(w) ==
  /\ At(w, {"found"})
  /\ Moves(w, NextPhoto(w))
  /\ UNCHANGED <<policy, limits, verified, clearance, approval, ledger, events, sent, charged,
                 reopened>>

begin_dispatch(w) ==
  LET i == IdentityOf(w)
  IN /\ At(w, {"reserved"})
     /\ ledger[i].state = "reserved" /\ Preflight(i, ledger[i].approval)
     /\ RowIs(i, [ledger[i] EXCEPT !.state = "dispatching"])
     /\ Moves(w, [batch[w] EXCEPT !.pc = "granted"])
     /\ UNCHANGED <<policy, limits, verified, clearance, approval, events, sent, charged,
                    reopened>>

\* The row is cancelled, a fact has changed, or the receipt has run out.  A row that is still
\* reserved stays so: nothing looks at it again.
DispatchRefused(w) ==
  /\ At(w, {"reserved"})
  /\ Moves(w, NextPhoto(w))
  /\ UNCHANGED <<policy, limits, verified, clearance, approval, ledger, events, sent, charged,
                 reopened>>

\* The answer is usable, is none, was charged or of unknown cost, or is one the ledger cannot
\* take: a timeout, an error of the model, an identity that does not match.
describe_image(w, answer) ==
  /\ At(w, {"granted"})
  /\ sent' = [sent EXCEPT ![IdentityOf(w)] = @ + 1]
  /\ Moves(w, [batch[w] EXCEPT !.pc = "answered", !.answer = answer])
  /\ UNCHANGED <<policy, limits, verified, clearance, approval, ledger, events, charged,
                 reopened>>

IsDispatching(row) == row.state = "dispatching"

\* ImageInputError: the router does not have the model, and nothing was sent.
finish_without_call(w) ==
  LET i == IdentityOf(w)
  IN /\ At(w, {"granted"})
     /\ IF IsDispatching(ledger[i]) THEN RowIs(i, [ledger[i] EXCEPT !.state = "blocked"])
        ELSE UNCHANGED ledger
     /\ Moves(w, NextPhoto(w))
     /\ UNCHANGED <<policy, limits, verified, clearance, approval, events, sent, charged,
                    reopened>>

Ending(answer) ==
  CASE answer = "described" -> "published"
    [] answer = "unusable" -> "failed"
    [] answer = "charged" -> "blocked"

CostGuard(routes, w) ==
  IF batch[w].answer = "charged" THEN routes \ {batch[w].route} ELSE routes

finish_and_publish(w) ==
  LET i == IdentityOf(w)
  IN /\ At(w, {"answered"}) /\ batch[w].answer # "broken" /\ IsDispatching(ledger[i])
     /\ RowIs(i, [ledger[i] EXCEPT !.state = Ending(batch[w].answer)])
     /\ verified' = CostGuard(verified, w)
     /\ IF batch[w].answer = "charged"
        THEN charged' = charged \cup {batch[w].route} /\ reopened' = reopened \ {batch[w].route}
        ELSE UNCHANGED <<charged, reopened>>
     /\ Moves(w, NextPhoto(w))
     /\ UNCHANGED <<policy, limits, clearance, approval, events, sent>>

\* The ledger does not take the result.
PublishFails(w) ==
  /\ At(w, {"answered"})
  /\ batch[w].answer = "broken" \/ ~IsDispatching(ledger[IdentityOf(w)])
  /\ Moves(w, [batch[w] EXCEPT !.pc = "marking"])
  /\ UNCHANGED <<policy, limits, verified, clearance, approval, ledger, events, sent, charged,
                 reopened>>

\* A row that is no longer dispatching raises, and the worker does not mind.
mark_unknown(w) ==
  LET i == IdentityOf(w)
  IN /\ At(w, {"marking"})
     /\ IF IsDispatching(ledger[i]) THEN RowIs(i, [ledger[i] EXCEPT !.state = "unknown"])
        ELSE UNCHANGED ledger
     /\ Moves(w, NextPhoto(w))
     /\ UNCHANGED <<policy, limits, verified, clearance, approval, events, sent, charged,
                    reopened>>

(***************************************************************************)
(* Faults: a batch dies, or the database fails it: the photo is passed     *)
(* over, or after the call its end is still to be marked.                  *)
(***************************************************************************)
BatchDies(w) ==
  /\ Event /\ ~At(w, {"off"})
  /\ Moves(w, Off)
  /\ UNCHANGED <<policy, limits, verified, clearance, approval, ledger, sent, charged, reopened>>

StoreFails(w) ==
  /\ Event
  /\ \/ At(w, {"found", "reserved", "granted", "marking"}) /\ Moves(w, NextPhoto(w))
     \/ At(w, {"answered"}) /\ Moves(w, [batch[w] EXCEPT !.pc = "marking"])
  /\ UNCHANGED <<policy, limits, verified, clearance, approval, ledger, sent, charged, reopened>>

(***************************************************************************)
(* Specification.                                                          *)
(***************************************************************************)
Proceeds(w) ==
  \/ run_once(w)
  \/ \E p \in Photos : checks_for(w, p)
  \/ reserve(w) \/ PassOver(w)
  \/ begin_dispatch(w) \/ DispatchRefused(w)
  \/ \E answer \in {"described", "unusable", "charged", "broken"} : describe_image(w, answer)
  \/ finish_without_call(w) \/ finish_and_publish(w) \/ PublishFails(w)
  \/ mark_unknown(w)

ImageNext ==
  \/ \E w \in Workspaces \cup {Global}, on \in BOOLEAN, m \in Routes : save_policy(w, on, m)
  \/ \E m \in Routes : (\E saw \in BOOLEAN : save_catalog(m, saw)) \/ VerificationLapses(m)
  \/ \E p \in Photos, rev \in Revisions \cup {<<>>} : Judge(p, rev)
  \/ \E a \in ApprovalIds :
       (\E p \in Photos : approve(a, p)) \/ revoke(a) \/ ApprovalExpires(a)
  \/ Midnight
  \/ \E i \in Identities : GrowOld(i)
  \/ \E w \in Workspaces : Proceeds(w) \/ BatchDies(w) \/ StoreFails(w)

\* A timer starts the batches, a started batch runs, and time passes.
ImageFairness ==
  /\ \A w \in Workspaces : WF_imageVars(Proceeds(w))
  /\ \A i \in Identities : WF_imageVars(GrowOld(i))

ImageSpec == ImageInit /\ [][ImageNext]_imageVars /\ ImageFairness

(***************************************************************************)
(* Properties.                                                             *)
(***************************************************************************)
\* The bytes of one photo go to one model once, for ever: across batches that die, approvals
\* that are renewed, policies that are saved again and calls whose end nobody knows.  What was
\* sent is never on the ledger as something that was not.
SentOnce ==
  \A i \in Identities :
    /\ sent[i] <= 1
    /\ sent[i] = 1 => ledger[i].state \notin {"absent", "reserved", "cancelled"}

\* OncePromise: the ledger gives the permission to send a photo to a model once, before the
\* call, and never takes it back, so that no batch, approval or policy gives it again.
SendPromise ==
  INSTANCE OncePromise WITH
    Items <- Identities, done <- sent,
    permitted <- {i \in Identities : ledger[i].state \notin {"absent", "reserved", "cancelled"}}
SendPromiseKept == SendPromise!Spec

\* A revoked approval leaves no row behind that a batch could still dispatch, not even one
\* whose reservation the revocation raced.
RevokedLeavesNothingReserved ==
  \A i \in Identities :
    ledger[i].state = "reserved" => approval[ledger[i].approval].state # "revoked"

\* Slots and daily calls are kept for all workspaces together and for each, whichever batches
\* reserve at the same time: a call of unknown end keeps its slot.
CapsHold ==
  /\ Cardinality(Active) <= limits.slots /\ Cardinality(Today) <= limits.calls
  /\ \A w \in Workspaces :
       /\ Cardinality(Active \cap Of(w)) <= OwnLimits.slots
       /\ Cardinality(Today \cap Of(w)) <= OwnLimits.calls

\* After a charge is on the ledger no dispatch of that model begins, not even of a photo that
\* another batch had reserved before the charge, until somebody verifies the model who knows of
\* the charge, or its entry is saved by one who had read it before and does not.
ChargeStopsModel ==
  [][\A i \in Identities :
       ledger'[i].state = "dispatching" /\ ledger[i].state # "dispatching" =>
         i[2] \notin charged \ reopened]_imageVars

\* No call stays under way for ever: what its own batch does not close, a later batch of any
\* workspace closes as unknown.
DispatchingEnds == \A i \in Identities : []<>(ledger[i].state # "dispatching")
=============================================================================
