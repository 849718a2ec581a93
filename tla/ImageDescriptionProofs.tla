------------------------ MODULE ImageDescriptionProofs ------------------------
(***************************************************************************)
(* What ImageDescription promises, for every number of workspaces, photos, *)
(* models, approvals and events, and whatever the limits are.              *)
(***************************************************************************)
EXTENDS ImageDescription, FiniteSetTheorems, TLAPS

Underway(w) == At(w, {"found", "reserved", "granted", "answered", "marking"})

\* A batch handles the photos of its own workspace, so no two batches share an identity.
PhotosAreOwn ==
  \A w \in Workspaces :
    /\ \A p \in batch[w].todo : WorkspaceOf[p] = w
    /\ Underway(w) => WorkspaceOf[batch[w].photo] = w

\* What is not sent yet was not sent before, and a batch that may call has a row that says so.
LedgerLeadsTheCall ==
  /\ \A i \in Identities :
       ledger[i].state \in {"absent", "reserved", "cancelled"} => sent[i] = 0
  /\ \A w \in Workspaces :
       At(w, {"granted"}) => /\ sent[IdentityOf(w)] = 0
                             /\ ledger[IdentityOf(w)].state \in {"dispatching", "unknown"}

\* The transaction that puts a charge on the ledger takes the model out of the catalog, and
\* only a save by one who does not know of the charge puts it back while that stands.
ChargedIsUnverified == (charged \ reopened) \cap verified = {}

ReservedAreApproved ==
  \A i \in Identities : ledger[i].state = "reserved" => ledger[i].approval \in ApprovalIds

ImageInv ==
  /\ ImageTypeOK
  /\ PhotosAreOwn
  /\ LedgerLeadsTheCall
  /\ SentOnce
  /\ ReservedAreApproved
  /\ RevokedLeavesNothingReserved
  /\ ChargedIsUnverified
  /\ CapsHold

(***************************************************************************)
(* What a step may do to the batches.                                      *)
(***************************************************************************)
Moved(w) == \E s \in BatchSteps : Moves(w, s)

LEMMA OffTyped == Off \in BatchSteps /\ SomePhoto \in Photos /\ SomeRoute \in Routes
<1>1. SomePhoto \in Photos
  BY ImageAssumption DEF SomePhoto
<1>2. SomeRoute \in Routes
  BY ImageAssumption DEF SomeRoute
<1>3. <<0, 0>> \in Revisions
  BY ImageAssumption DEF Revisions
<1> QED
  BY <1>1, <1>2, <1>3 DEF Off, BatchSteps

LEMMA StepTyped ==
  ASSUME ImageTypeOK, NEW w \in Workspaces
  PROVE  batch[w] \in BatchSteps /\ IdentityOf(w) \in Identities
<1>1. batch[w] \in BatchSteps
  BY DEF ImageTypeOK
<1> QED
  BY <1>1 DEF BatchSteps, IdentityOf, Identities

LEMMA GoesOnTyped ==
  ASSUME ImageTypeOK, NEW w \in Workspaces, NEW photos \in SUBSET Photos
  PROVE  GoesOn(w, photos) \in BatchSteps
<1>1. batch[w] \in BatchSteps
  BY StepTyped
<1> QED
  BY <1>1, OffTyped DEF GoesOn, BatchSteps

LEMMA NextPhotoTyped ==
  ASSUME ImageTypeOK, NEW w \in Workspaces
  PROVE  NextPhoto(w) \in BatchSteps
<1>1. batch[w].todo \ {batch[w].photo} \in SUBSET Photos
  BY StepTyped DEF BatchSteps
<1> QED
  BY <1>1, GoesOnTyped DEF NextPhoto

LEMMA EffectiveTyped ==
  ASSUME ImageTypeOK, NEW w \in Workspaces
  PROVE  /\ _effective(w).rev \in Revisions /\ _effective(w).route \in Routes
<1>1. policy[Global] \in Policies /\ policy[w] \in Policies
  BY DEF ImageTypeOK
<1> QED
  BY <1>1 DEF _effective, Policies, Revisions

LEMMA MovesTyped ==
  ASSUME ImageTypeOK, NEW w \in Workspaces, Proceeds(w) \/ BatchDies(w) \/ StoreFails(w)
  PROVE  Moved(w)
<1>0. batch[w] \in BatchSteps
  BY StepTyped
<1>1. CASE run_once(w)
  <2>1. {p \in Photos : WorkspaceOf[p] = w} \ indexed_sources \in SUBSET Photos
    OBVIOUS
  <2> QED
    BY <1>1, <2>1, EffectiveTyped, OffTyped DEF run_once, Moved, BatchSteps
<1>2. ASSUME NEW p \in Photos, checks_for(w, p)
      PROVE  Moved(w)
  <2>1. batch[w].todo \ {p} \in SUBSET Photos
    BY <1>0 DEF BatchSteps
  <2>2. CASE Moves(w, GoesOn(w, batch[w].todo \ {p}))
    BY <2>1, <2>2, GoesOnTyped DEF Moved
  <2>3. ASSUME NEW a \in Approving(w, p),
               Moves(w, [batch[w] EXCEPT !.pc = "found", !.photo = p, !.approval = a])
        PROVE  Moved(w)
    BY <1>0, <2>3 DEF Moved, Approving, BatchSteps
  <2> QED
    BY <1>2, <2>2, <2>3 DEF checks_for
<1>3. CASE Moves(w, NextPhoto(w)) \/ BatchDies(w)
  BY <1>3, NextPhotoTyped, OffTyped DEF BatchDies, Moved
<1>4. CASE reserve(w) \/ begin_dispatch(w) \/ PublishFails(w)
  BY <1>0, <1>4 DEF reserve, begin_dispatch, PublishFails, Moved, BatchSteps
<1>5. ASSUME NEW answer \in {"described", "unusable", "charged", "broken"},
             describe_image(w, answer)
      PROVE  Moved(w)
  BY <1>0, <1>5 DEF describe_image, Moved, BatchSteps
<1>6. CASE StoreFails(w)
  <2>1. CASE Moves(w, NextPhoto(w))
    BY <1>3, <2>1
  <2>2. CASE Moves(w, [batch[w] EXCEPT !.pc = "marking"])
    BY <1>0, <2>2 DEF Moved, BatchSteps
  <2> QED
    BY <1>6, <2>1, <2>2 DEF StoreFails
<1>7. CASE PassOver(w) \/ DispatchRefused(w) \/ finish_without_call(w)
           \/ finish_and_publish(w) \/ mark_unknown(w)
  BY <1>3, <1>7 DEF PassOver, DispatchRefused, finish_without_call, finish_and_publish,
                    mark_unknown
<1> QED
  BY <1>1, <1>2, <1>4, <1>5, <1>6, <1>7, <1>3 DEF Proceeds

(***************************************************************************)
(* What a step may do to a row of the ledger.                              *)
(***************************************************************************)
Same(i) ==
  /\ ledger'[i].approval = ledger[i].approval
  /\ ledger'[i].today => ledger[i].today
Stays(i) == Same(i) /\ ledger'[i].state = ledger[i].state
Ends(i) ==
  /\ Same(i) /\ ledger[i].state = "dispatching"
  /\ ledger'[i].state \in {"published", "failed", "unknown", "blocked"}
IsCancelled(i) ==
  Same(i) /\ ledger[i].state = "reserved" /\ ledger'[i].state = "cancelled"

RowsKept == \A i \in Identities : Stays(i) \/ Ends(i) \/ IsCancelled(i)

LEMMA RowTyped ==
  ASSUME ImageTypeOK, NEW i \in Identities
  PROVE  /\ ledger[i] \in ImageRows
         /\ ledger[i].state \in Closed \cup {"absent", "reserved", "dispatching"}
         /\ ledger[i].today \in BOOLEAN
  BY DEF ImageTypeOK, ImageRows

LEMMA EndingTyped ==
  ASSUME ImageTypeOK, NEW w \in Workspaces, batch[w].answer # "broken"
  PROVE  Ending(batch[w].answer) \in {"published", "failed", "blocked"}
<1>1. batch[w].answer \in {"described", "unusable", "charged"}
  BY StepTyped DEF BatchSteps
<1> QED
  BY <1>1 DEF Ending

\* One row of the ledger is replaced and the others stay.
LEMMA OneRow ==
  ASSUME ImageTypeOK, NEW i \in Identities, NEW row \in ImageRows, RowIs(i, row)
  PROVE  /\ ledger' \in [Identities -> ImageRows]
         /\ ledger'[i] = row
         /\ \A k \in Identities : k # i => ledger'[k] = ledger[k]
  BY DEF ImageTypeOK, RowIs

LEMMA UnchangedRows ==
  ASSUME ImageTypeOK, UNCHANGED ledger
  PROVE  ledger' \in [Identities -> ImageRows] /\ RowsKept
  BY DEF ImageTypeOK, RowsKept, Stays, Same

\* The row's state is replaced by one a call under way ends in.
LEMMA RowEnds ==
  ASSUME ImageTypeOK, NEW i \in Identities, ledger[i].state = "dispatching",
         NEW state \in {"published", "failed", "unknown", "blocked"},
         RowIs(i, [ledger[i] EXCEPT !.state = state])
  PROVE  ledger' \in [Identities -> ImageRows] /\ RowsKept
<1>1. ledger[i] \in ImageRows
  BY RowTyped
<1>2. [ledger[i] EXCEPT !.state = state] \in ImageRows
  BY <1>1 DEF ImageRows, Closed
<1>3. /\ ledger' \in [Identities -> ImageRows]
      /\ ledger'[i] = [ledger[i] EXCEPT !.state = state]
      /\ \A k \in Identities : k # i => ledger'[k] = ledger[k]
  BY <1>2, OneRow
<1>4. Ends(i)
  BY <1>1, <1>3 DEF Ends, Same, ImageRows
<1>5. \A k \in Identities : k # i => Stays(k)
  BY <1>3 DEF Stays, Same
<1> QED
  BY <1>3, <1>4, <1>5 DEF RowsKept

LEMMA RevokeRows ==
  ASSUME ImageTypeOK, NEW a \in ApprovalIds, revoke(a)
  PROVE  ledger' \in [Identities -> ImageRows] /\ RowsKept
<1>1. \A i \in Identities : ledger'[i] = CancelReserved(ledger[i], a)
  BY DEF revoke
<1>2. ASSUME NEW i \in Identities
      PROVE  CancelReserved(ledger[i], a) \in ImageRows /\ (Stays(i) \/ IsCancelled(i))
  <2>1. ledger[i] \in ImageRows
    BY RowTyped
  <2>2. CASE ledger[i].approval = a /\ ledger[i].state = "reserved"
    BY <1>1, <2>1, <2>2 DEF CancelReserved, IsCancelled, Same, ImageRows, Closed
  <2>3. CASE ~(ledger[i].approval = a /\ ledger[i].state = "reserved")
    BY <1>1, <2>1, <2>3 DEF CancelReserved, Stays, Same
  <2> QED
    BY <2>2, <2>3
<1>3. ledger' \in [Identities -> ImageRows]
  BY <1>2 DEF revoke
<1> QED
  BY <1>2, <1>3 DEF RowsKept

LEMMA MidnightRows ==
  ASSUME ImageTypeOK, Midnight
  PROVE  ledger' \in [Identities -> ImageRows] /\ RowsKept
<1>1. ledger' = [i \in Identities |-> [ledger[i] EXCEPT !.today = FALSE]]
  BY DEF Midnight
<1>2. ASSUME NEW i \in Identities
      PROVE  [ledger[i] EXCEPT !.today = FALSE] \in ImageRows /\ Stays(i)
  <2>1. ledger[i] \in ImageRows
    BY RowTyped
  <2> QED
    BY <1>1, <2>1 DEF Stays, Same, ImageRows
<1> QED
  BY <1>1, <1>2 DEF RowsKept

LEMMA OldRows ==
  ASSUME ImageTypeOK, NEW i \in Identities, GrowOld(i)
  PROVE  ledger' \in [Identities -> ImageRows] /\ RowsKept
<1>1. ledger[i] \in ImageRows /\ ledger' = [ledger EXCEPT ![i] = [ledger[i] EXCEPT !.old = TRUE]]
  BY RowTyped DEF GrowOld
<1>2. [ledger[i] EXCEPT !.old = TRUE] \in ImageRows
  BY <1>1 DEF ImageRows
<1>3. /\ ledger' \in [Identities -> ImageRows]
      /\ ledger'[i] = [ledger[i] EXCEPT !.old = TRUE]
      /\ \A k \in Identities : k # i => ledger'[k] = ledger[k]
  BY <1>1, <1>2, OneRow DEF RowIs
<1>4. Stays(i)
  BY <1>1, <1>3 DEF Stays, Same, ImageRows
<1> QED
  BY <1>3, <1>4 DEF RowsKept, Stays, Same

LEMMA ReconciledRows ==
  ASSUME ImageTypeOK, NEW w \in Workspaces, run_once(w)
  PROVE  ledger' \in [Identities -> ImageRows] /\ RowsKept
<1>1. ledger' = [i \in Identities |-> Reconciled(ledger[i])]
  BY DEF run_once
<1>2. ASSUME NEW i \in Identities
      PROVE  Reconciled(ledger[i]) \in ImageRows /\ (Stays(i) \/ Ends(i))
  <2>1. ledger[i] \in ImageRows
    BY RowTyped
  <2>2. CASE ledger[i].state = "dispatching" /\ ledger[i].old
    BY <1>1, <2>1, <2>2 DEF Reconciled, Ends, Same, ImageRows, Closed
  <2>3. CASE ~(ledger[i].state = "dispatching" /\ ledger[i].old)
    BY <1>1, <2>1, <2>3 DEF Reconciled, Stays, Same
  <2> QED
    BY <2>2, <2>3
<1> QED
  BY <1>1, <1>2 DEF RowsKept

\* What ends a batch's call.
LEMMA CallRows ==
  ASSUME ImageTypeOK, NEW w \in Workspaces,
         finish_without_call(w) \/ finish_and_publish(w) \/ mark_unknown(w)
  PROVE  ledger' \in [Identities -> ImageRows] /\ RowsKept
<1>1. IdentityOf(w) \in Identities
  BY StepTyped
<1>2. CASE finish_without_call(w) \/ mark_unknown(w)
  BY <1>1, <1>2, RowEnds, UnchangedRows DEF finish_without_call, mark_unknown, IsDispatching
<1>3. CASE finish_and_publish(w)
  <2>1. Ending(batch[w].answer) \in {"published", "failed", "unknown", "blocked"}
    BY <1>3, EndingTyped DEF finish_and_publish
  <2> QED
    BY <1>1, <1>3, <2>1, RowEnds DEF finish_and_publish, IsDispatching
<1> QED
  BY <1>2, <1>3

LEMMA ReservedRow ==
  ASSUME ImageTypeOK, NEW w \in Workspaces, reserve(w)
  PROVE  /\ ledger' \in [Identities -> ImageRows]
         /\ ledger'[IdentityOf(w)] = [state |-> "reserved", approval |-> batch[w].approval,
                                      today |-> TRUE, old |-> FALSE]
         /\ \A k \in Identities : k # IdentityOf(w) => ledger'[k] = ledger[k]
<1>1. /\ IdentityOf(w) \in Identities
      /\ batch[w] \in BatchSteps
  BY StepTyped
<1>2. [state |-> "reserved", approval |-> batch[w].approval, today |-> TRUE,
       old |-> FALSE] \in ImageRows
  BY <1>1 DEF BatchSteps, ImageRows
<1> QED
  BY <1>1, <1>2, OneRow DEF reserve

LEMMA DispatchedRow ==
  ASSUME ImageTypeOK, NEW w \in Workspaces, begin_dispatch(w)
  PROVE  /\ ledger' \in [Identities -> ImageRows]
         /\ ledger'[IdentityOf(w)].state = "dispatching"
         /\ Same(IdentityOf(w))
         /\ \A k \in Identities : k # IdentityOf(w) => ledger'[k] = ledger[k]
<1>1. IdentityOf(w) \in Identities /\ ledger[IdentityOf(w)] \in ImageRows
  BY StepTyped, RowTyped
<1>2. [ledger[IdentityOf(w)] EXCEPT !.state = "dispatching"] \in ImageRows
  BY <1>1 DEF ImageRows
<1>3. /\ ledger' \in [Identities -> ImageRows]
      /\ ledger'[IdentityOf(w)] = [ledger[IdentityOf(w)] EXCEPT !.state = "dispatching"]
      /\ \A k \in Identities : k # IdentityOf(w) => ledger'[k] = ledger[k]
  BY <1>1, <1>2, OneRow DEF begin_dispatch
<1> QED
  BY <1>1, <1>3 DEF Same, ImageRows

\* Reserving and beginning a dispatch are the steps that open a row.
LEMMA AnyRows ==
  ASSUME ImageTypeOK, [ImageNext]_imageVars
  PROVE  /\ ledger' \in [Identities -> ImageRows]
         /\ \/ RowsKept
            \/ \E w \in Workspaces : reserve(w) \/ begin_dispatch(w)
<1>1. CASE \/ \E w \in Workspaces \cup {Global}, on \in BOOLEAN, m \in Routes :
                save_policy(w, on, m)
           \/ \E m \in Routes : (\E saw \in BOOLEAN : save_catalog(m, saw)) \/ VerificationLapses(m)
           \/ \E p \in Photos, rev \in Revisions \cup {<<>>} : Judge(p, rev)
           \/ \E a \in ApprovalIds :
                (\E p \in Photos : approve(a, p)) \/ ApprovalExpires(a)
  BY <1>1, UnchangedRows DEF save_policy, save_catalog, VerificationLapses, Judge, approve,
                             ApprovalExpires
<1>2. CASE (\E a \in ApprovalIds : revoke(a)) \/ Midnight \/ \E i \in Identities : GrowOld(i)
  BY <1>2, RevokeRows, MidnightRows, OldRows
<1>3. ASSUME NEW w \in Workspaces, Proceeds(w)
      PROVE  /\ ledger' \in [Identities -> ImageRows]
             /\ RowsKept \/ reserve(w) \/ begin_dispatch(w)
  <2>1. CASE run_once(w)
    BY <2>1, ReconciledRows
  <2>2. CASE \/ \E p \in Photos : checks_for(w, p)
             \/ PassOver(w) \/ DispatchRefused(w) \/ PublishFails(w)
             \/ \E answer \in {"described", "unusable", "charged", "broken"} :
                  describe_image(w, answer)
    BY <2>2, UnchangedRows DEF checks_for, PassOver, DispatchRefused, PublishFails,
                               describe_image
  <2>3. CASE finish_without_call(w) \/ finish_and_publish(w) \/ mark_unknown(w)
    BY <2>3, CallRows
  <2>4. CASE reserve(w)
    BY <2>4, ReservedRow
  <2>5. CASE begin_dispatch(w)
    BY <2>5, DispatchedRow
  <2> QED
    BY <1>3, <2>1, <2>2, <2>3, <2>4, <2>5 DEF Proceeds
<1>4. CASE (\E w \in Workspaces : BatchDies(w) \/ StoreFails(w)) \/ UNCHANGED imageVars
  BY <1>4, UnchangedRows DEF BatchDies, StoreFails, imageVars
<1> QED
  BY <1>1, <1>2, <1>3, <1>4 DEF ImageNext

\* A step of the batches leaves what people decide, and the other way round.
Facts == <<policy, limits, clearance, approval>>

LEMMA BatchesLeaveFacts ==
  ASSUME NEW w \in Workspaces, Proceeds(w) \/ BatchDies(w) \/ StoreFails(w)
  PROVE  UNCHANGED Facts
  BY DEF Proceeds, BatchDies, StoreFails, run_once, checks_for, reserve, PassOver,
         begin_dispatch, DispatchRefused, describe_image, finish_without_call,
         finish_and_publish, PublishFails, mark_unknown, Facts

PeopleStep ==
  \/ \E w \in Workspaces \cup {Global}, on \in BOOLEAN, m \in Routes : save_policy(w, on, m)
  \/ \E m \in Routes : (\E saw \in BOOLEAN : save_catalog(m, saw)) \/ VerificationLapses(m)
  \/ \E p \in Photos, rev \in Revisions \cup {<<>>} : Judge(p, rev)
  \/ \E a \in ApprovalIds :
       (\E p \in Photos : approve(a, p)) \/ revoke(a) \/ ApprovalExpires(a)
  \/ Midnight
  \/ \E i \in Identities : GrowOld(i)

LEMMA PeopleLeaveBatches ==
  ASSUME PeopleStep
  PROVE  UNCHANGED <<batch, sent>>
  BY DEF PeopleStep, save_policy, save_catalog, VerificationLapses, Judge, approve, revoke,
         ApprovalExpires, Midnight, GrowOld

LEMMA NextCases ==
  ASSUME [ImageNext]_imageVars
  PROVE  \/ PeopleStep
         \/ \E w \in Workspaces : Proceeds(w) \/ BatchDies(w) \/ StoreFails(w)
         \/ UNCHANGED imageVars
  BY DEF ImageNext, PeopleStep

LEMMA EventTyped ==
  ASSUME ImageTypeOK, Event
  PROVE  events' \in 0 .. MaxEvents /\ events + 1 \in 0 .. MaxEvents
  BY ImageAssumption DEF ImageTypeOK, Event

LEMMA FactsTyped ==
  ASSUME ImageTypeOK, PeopleStep
  PROVE  /\ policy' \in [Workspaces \cup {Global} -> Policies]
         /\ limits' \in Limits /\ verified' \subseteq Routes
         /\ charged' \subseteq Routes /\ reopened' \subseteq charged'
         /\ clearance' \in [Photos -> Revisions \cup {<<>>}]
         /\ approval' \in [ApprovalIds -> Approvals]
         /\ events' \in 0 .. MaxEvents
<1>1. ASSUME NEW w \in Workspaces \cup {Global}, NEW on \in BOOLEAN, NEW m \in Routes,
             save_policy(w, on, m)
      PROVE  /\ policy' \in [Workspaces \cup {Global} -> Policies]
             /\ UNCHANGED <<limits, verified, clearance, approval, charged, reopened>>
             /\ events' \in 0 .. MaxEvents
  <2>1. [rev |-> events + 1, on |-> on, route |-> m] \in Policies
    BY <1>1, EventTyped DEF save_policy, Policies
  <2> QED
    BY <1>1, <2>1, EventTyped DEF save_policy, ImageTypeOK
<1>2. ASSUME NEW m \in Routes, (\E saw \in BOOLEAN : save_catalog(m, saw)) \/ VerificationLapses(m)
      PROVE  /\ verified' \subseteq Routes
             /\ charged' \subseteq Routes /\ reopened' \subseteq charged'
             /\ UNCHANGED <<policy, limits, clearance, approval>>
             /\ events' \in 0 .. MaxEvents
  BY <1>2, EventTyped DEF save_catalog, VerificationLapses, ImageTypeOK
<1>3. ASSUME NEW p \in Photos, NEW rev \in Revisions \cup {<<>>}, Judge(p, rev)
      PROVE  /\ clearance' \in [Photos -> Revisions \cup {<<>>}]
             /\ UNCHANGED <<policy, limits, verified, approval, charged, reopened>>
             /\ events' \in 0 .. MaxEvents
  BY <1>3, EventTyped DEF Judge, ImageTypeOK
<1>4. ASSUME NEW a \in ApprovalIds,
             (\E p \in Photos : approve(a, p)) \/ revoke(a) \/ ApprovalExpires(a)
      PROVE  /\ approval' \in [ApprovalIds -> Approvals]
             /\ UNCHANGED <<policy, limits, verified, clearance, charged, reopened>>
             /\ events' \in 0 .. MaxEvents
  <2>1. approval[a] \in Approvals
    BY DEF ImageTypeOK
  <2>2. ASSUME NEW p \in Photos, approve(a, p)
        PROVE  approval' \in [ApprovalIds -> Approvals]
    <3>1. WorkspaceOf[p] \in Workspaces
      BY ImageAssumption
    <3>2. [state |-> "active", photo |-> p, route |-> _effective(WorkspaceOf[p]).route,
           rev |-> _effective(WorkspaceOf[p]).rev] \in Approvals
      BY <3>1, EffectiveTyped DEF Approvals
    <3> QED
      BY <2>2, <3>2 DEF approve, ImageTypeOK
  <2>3. ASSUME NEW state \in {"revoked", "expired"},
               approval' = [approval EXCEPT ![a].state = state]
        PROVE  approval' \in [ApprovalIds -> Approvals]
    <3>1. [approval[a] EXCEPT !.state = state] \in Approvals
      BY <2>1 DEF Approvals
    <3>2. approval' = [approval EXCEPT ![a] = [approval[a] EXCEPT !.state = state]]
      BY <2>3
    <3> QED
      BY <3>1, <3>2 DEF ImageTypeOK
  <2>4. UNCHANGED <<policy, limits, verified, clearance, charged, reopened>>
    BY <1>4 DEF approve, revoke, ApprovalExpires
  <2>5. events' \in 0 .. MaxEvents
    BY <1>4, EventTyped DEF approve, revoke, ApprovalExpires, ImageTypeOK
  <2> QED
    BY <1>4, <2>2, <2>3, <2>4, <2>5 DEF revoke, ApprovalExpires
<1>5. ASSUME Midnight \/ \E i \in Identities : GrowOld(i)
      PROVE  /\ UNCHANGED <<policy, limits, verified, clearance, approval, charged, reopened>>
             /\ events' \in 0 .. MaxEvents
  BY <1>5, EventTyped DEF Midnight, GrowOld, ImageTypeOK
<1> QED
  BY <1>1, <1>2, <1>3, <1>4, <1>5 DEF PeopleStep, ImageTypeOK

LEMMA BatchFactsTyped ==
  ASSUME ImageTypeOK, NEW w \in Workspaces, Proceeds(w) \/ BatchDies(w) \/ StoreFails(w)
  PROVE  /\ verified' \subseteq Routes /\ charged' \subseteq Routes /\ reopened' \subseteq charged'
         /\ events' \in 0 .. MaxEvents
         /\ sent' \in [Identities -> Nat]
<1>1. CASE finish_and_publish(w)
  <2>1. batch[w].route \in Routes
    BY StepTyped DEF BatchSteps
  <2> QED
    BY <1>1, <2>1 DEF finish_and_publish, CostGuard, ImageTypeOK
<1>2. ASSUME NEW answer, describe_image(w, answer)
      PROVE  /\ UNCHANGED <<verified, charged, reopened, events>> /\ sent' \in [Identities -> Nat]
  BY <1>2, StepTyped DEF describe_image, ImageTypeOK
<1>3. CASE BatchDies(w) \/ StoreFails(w)
  BY <1>3, EventTyped DEF BatchDies, StoreFails, ImageTypeOK
<1>4. ASSUME \/ run_once(w) \/ (\E p \in Photos : checks_for(w, p)) \/ reserve(w)
             \/ PassOver(w) \/ begin_dispatch(w) \/ DispatchRefused(w)
             \/ finish_without_call(w) \/ PublishFails(w) \/ mark_unknown(w)
      PROVE  UNCHANGED <<verified, charged, reopened, events, sent>>
  BY <1>4 DEF run_once, checks_for, reserve, PassOver, begin_dispatch, DispatchRefused,
              finish_without_call, PublishFails, mark_unknown
<1> QED
  BY <1>1, <1>2, <1>3, <1>4 DEF Proceeds, ImageTypeOK

LEMMA BatchStaysTyped ==
  ASSUME ImageTypeOK, NEW w \in Workspaces, Moved(w)
  PROVE  batch' \in [Workspaces -> BatchSteps]
  BY DEF Moved, Moves, ImageTypeOK

LEMMA ImageTypeStep ==
  ASSUME ImageTypeOK, [ImageNext]_imageVars
  PROVE  ImageTypeOK'
<1>1. ledger' \in [Identities -> ImageRows]
  BY AnyRows
<1>2. CASE PeopleStep
  BY <1>1, <1>2, FactsTyped, PeopleLeaveBatches DEF ImageTypeOK
<1>3. ASSUME NEW w \in Workspaces, Proceeds(w) \/ BatchDies(w) \/ StoreFails(w)
      PROVE  ImageTypeOK'
  <2>1. batch' \in [Workspaces -> BatchSteps]
    BY <1>3, MovesTyped, BatchStaysTyped
  <2>2. UNCHANGED <<policy, limits, clearance, approval>>
    BY <1>3, BatchesLeaveFacts DEF Facts
  <2> QED
    BY <1>1, <1>3, <2>1, <2>2, BatchFactsTyped DEF ImageTypeOK
<1>4. CASE UNCHANGED imageVars
  BY <1>4 DEF imageVars, ImageTypeOK
<1> QED
  BY <1>2, <1>3, <1>4, NextCases

LEMMA ImageInitType == ImageInit => ImageTypeOK
<1> SUFFICES ASSUME ImageInit
             PROVE  ImageTypeOK
  OBVIOUS
<1>1. 0 \in 0 .. MaxEvents /\ <<0, 0>> \in Revisions
  BY ImageAssumption DEF Revisions
<1>2. [state |-> "absent", photo |-> SomePhoto, route |-> SomeRoute, rev |-> <<0, 0>>]
        \in Approvals
  BY <1>1, OffTyped DEF Approvals
<1>3. NoRow \in ImageRows
  BY DEF NoRow, ImageRows
<1>4. [rev : {0}, on : {TRUE}, route : {SomeRoute}] \subseteq Policies
  BY <1>1, OffTyped DEF Policies
<1>5. policy \in [Workspaces \cup {Global} -> Policies]
  BY <1>4 DEF ImageInit
<1>6. /\ approval \in [ApprovalIds -> Approvals] /\ ledger \in [Identities -> ImageRows]
      /\ batch \in [Workspaces -> BatchSteps] /\ sent \in [Identities -> Nat]
  BY <1>2, <1>3, OffTyped DEF ImageInit
<1>7. /\ limits \in Limits /\ verified \subseteq Routes
      /\ charged \subseteq Routes /\ reopened \subseteq charged
      /\ clearance \in [Photos -> Revisions \cup {<<>>}] /\ events \in 0 .. MaxEvents
  BY <1>1 DEF ImageInit
<1> QED
  BY <1>5, <1>6, <1>7 DEF ImageTypeOK

(***************************************************************************)
(* The batches' own photos.                                                *)
(***************************************************************************)
LEMMA PhotosAreOwnStep ==
  ASSUME ImageTypeOK, PhotosAreOwn, [ImageNext]_imageVars
  PROVE  PhotosAreOwn'
<1>1. CASE UNCHANGED batch
  BY <1>1 DEF PhotosAreOwn, Underway, At
<1>2. ASSUME NEW w \in Workspaces, Proceeds(w) \/ BatchDies(w) \/ StoreFails(w)
      PROVE  PhotosAreOwn'
  <2> DEFINE OwnStep(s) == /\ \A p \in s.todo : WorkspaceOf[p] = w
                           /\ s.pc \in {"found", "reserved", "granted", "answered", "marking"} =>
                                WorkspaceOf[s.photo] = w
  <2>0. batch[w] \in BatchSteps /\ OwnStep(batch[w])
    BY StepTyped DEF PhotosAreOwn, Underway, At
  <2>1. ASSUME NEW s, Moves(w, s), OwnStep(s)
        PROVE  PhotosAreOwn'
    <3>1. ASSUME NEW v \in Workspaces
          PROVE  batch'[v] = IF v = w THEN s ELSE batch[v]
      BY <2>1 DEF Moves, ImageTypeOK
    <3> QED
      BY <2>1, <3>1 DEF PhotosAreOwn, Underway, At
  <2>2. OwnStep(Off)
    BY DEF Off
  <2>3. ASSUME NEW photos \in SUBSET Photos, \A p \in photos : WorkspaceOf[p] = w
        PROVE  OwnStep(GoesOn(w, photos))
    BY <2>2, <2>3 DEF GoesOn, Off
  <2>4. OwnStep(NextPhoto(w))
    BY <2>0, <2>3 DEF NextPhoto, BatchSteps
  <2>5. CASE run_once(w)
    <3>1. OwnStep([Off EXCEPT !.pc = "picking", !.rev = _effective(w).rev,
                              !.route = _effective(w).route,
                              !.todo = {p \in Photos : WorkspaceOf[p] = w} \ indexed_sources])
      BY DEF Off
    <3> QED
      BY <2>1, <2>2, <2>5, <3>1 DEF run_once
  <2>6. ASSUME NEW p \in Photos, checks_for(w, p)
        PROVE  PhotosAreOwn'
    <3>1. p \in batch[w].todo
      BY <2>6 DEF checks_for
    <3>2. CASE Moves(w, GoesOn(w, batch[w].todo \ {p}))
      BY <2>0, <2>1, <2>3, <3>2 DEF BatchSteps
    <3>3. ASSUME NEW a \in Approving(w, p),
                 Moves(w, [batch[w] EXCEPT !.pc = "found", !.photo = p, !.approval = a])
          PROVE  PhotosAreOwn'
      <4>1. OwnStep([batch[w] EXCEPT !.pc = "found", !.photo = p, !.approval = a])
        BY <2>0, <3>1 DEF BatchSteps
      <4> QED
        BY <2>1, <3>3, <4>1
    <3> QED
      BY <2>6, <3>2, <3>3 DEF checks_for
  <2>7. CASE Moves(w, NextPhoto(w)) \/ BatchDies(w)
    BY <2>1, <2>2, <2>4, <2>7 DEF BatchDies
  <2>8. ASSUME NEW pc \in {"reserved", "granted", "marking"}, Underway(w),
               Moves(w, [batch[w] EXCEPT !.pc = pc])
        PROVE  PhotosAreOwn'
    <3>1. OwnStep([batch[w] EXCEPT !.pc = pc])
      BY <2>0, <2>8 DEF BatchSteps, Underway, At
    <3> QED
      BY <2>1, <2>8, <3>1
  <2>9. CASE reserve(w) \/ begin_dispatch(w) \/ PublishFails(w) \/ StoreFails(w)
    BY <2>7, <2>8, <2>9 DEF reserve, begin_dispatch, PublishFails, StoreFails, Underway, At
  <2>10. ASSUME NEW answer, describe_image(w, answer)
         PROVE  PhotosAreOwn'
    <3>1. OwnStep([batch[w] EXCEPT !.pc = "answered", !.answer = answer])
      BY <2>0, <2>10 DEF BatchSteps, describe_image, At
    <3> QED
      BY <2>1, <2>10, <3>1 DEF describe_image
  <2>11. CASE PassOver(w) \/ DispatchRefused(w) \/ finish_without_call(w)
              \/ finish_and_publish(w) \/ mark_unknown(w)
    BY <2>7, <2>11 DEF PassOver, DispatchRefused, finish_without_call, finish_and_publish,
                       mark_unknown
  <2> QED
    BY <1>2, <2>5, <2>6, <2>7, <2>9, <2>10, <2>11 DEF Proceeds
<1> QED
  BY <1>1, <1>2, NextCases, PeopleLeaveBatches DEF imageVars

(***************************************************************************)
(* One call for one identity.                                              *)
(***************************************************************************)
OneCall == LedgerLeadsTheCall /\ SentOnce

\* A batch that was granted a call got there just now, or was there before.
LEMMA GrantsAreBegun ==
  ASSUME ImageTypeOK, [ImageNext]_imageVars, NEW v \in Workspaces, At(v, {"granted"})'
  PROVE  begin_dispatch(v) \/ (At(v, {"granted"}) /\ batch'[v] = batch[v])
<1>1. CASE UNCHANGED batch
  BY <1>1 DEF At
<1>2. ASSUME NEW w \in Workspaces, Proceeds(w) \/ BatchDies(w) \/ StoreFails(w), w # v
      PROVE  batch'[v] = batch[v]
  BY <1>2, MovesTyped DEF Moved, Moves, ImageTypeOK
<1>3. ASSUME Proceeds(v) \/ BatchDies(v) \/ StoreFails(v)
      PROVE  begin_dispatch(v)
  <2>0. batch[v] \in BatchSteps
    BY StepTyped
  <2>1. batch'[v].pc = "granted"
    BY DEF At
  <2>2. ASSUME NEW s, Moves(v, s)
        PROVE  s.pc = "granted"
    BY <2>1, <2>2 DEF Moves, ImageTypeOK
  <2>3. ASSUME NEW photos
        PROVE  GoesOn(v, photos).pc # "granted" /\ Off.pc # "granted"
    BY DEF Off, GoesOn
  <2>4. ~Moves(v, Off) /\ ~Moves(v, NextPhoto(v))
    BY <2>2, <2>3 DEF NextPhoto
  <2>5. ASSUME run_once(v)
        PROVE  FALSE
    <3> DEFINE on == [Off EXCEPT !.pc = "picking", !.rev = _effective(v).rev,
                       !.route = _effective(v).route,
                       !.todo = {p \in Photos : WorkspaceOf[p] = v} \ indexed_sources]
    <3>1. Moves(v, Off) \/ Moves(v, on)
      BY <2>5 DEF run_once
    <3>2. on.pc = "picking"
      BY DEF Off
    <3> QED
      BY <2>2, <2>4, <3>1, <3>2
  <2>6. ASSUME NEW p \in Photos, checks_for(v, p)
        PROVE  FALSE
    <3>1. ASSUME NEW a
          PROVE  ~Moves(v, [batch[v] EXCEPT !.pc = "found", !.photo = p, !.approval = a])
      <4>1. [batch[v] EXCEPT !.pc = "found", !.photo = p, !.approval = a].pc = "found"
        BY <2>0 DEF BatchSteps
      <4> QED
        BY <2>2, <4>1
    <3>2. ~Moves(v, GoesOn(v, batch[v].todo \ {p}))
      BY <2>2, <2>3
    <3> QED
      BY <2>6, <3>1, <3>2 DEF checks_for
  <2>7. ASSUME NEW pc \in {"reserved", "marking"}
        PROVE  ~Moves(v, [batch[v] EXCEPT !.pc = pc])
    BY <2>0, <2>2 DEF BatchSteps
  <2>8. ASSUME NEW answer, describe_image(v, answer)
        PROVE  FALSE
    <3>1. [batch[v] EXCEPT !.pc = "answered", !.answer = answer].pc = "answered"
      BY <2>0 DEF BatchSteps
    <3> QED
      BY <2>2, <2>8, <3>1 DEF describe_image
  <2>9. ~reserve(v) /\ ~PublishFails(v) /\ ~StoreFails(v) /\ ~BatchDies(v)
    BY <2>4, <2>7 DEF reserve, PublishFails, StoreFails, BatchDies
  <2>10. ~(PassOver(v) \/ DispatchRefused(v) \/ finish_without_call(v)
           \/ finish_and_publish(v) \/ mark_unknown(v))
    BY <2>4 DEF PassOver, DispatchRefused, finish_without_call, finish_and_publish,
                mark_unknown
  <2> QED
    BY <1>3, <2>5, <2>6, <2>8, <2>9, <2>10 DEF Proceeds
<1> QED
  BY <1>1, <1>2, <1>3, NextCases, PeopleLeaveBatches DEF imageVars, At

\* A row that ends otherwise than unknown is ended by the batch that holds it.
LEMMA EndedByItsBatch ==
  ASSUME ImageTypeOK, [ImageNext]_imageVars, NEW i \in Identities,
         ledger[i].state = "dispatching", ledger'[i].state \notin {"dispatching", "unknown"}
  PROVE  \E w \in Workspaces : /\ finish_without_call(w) \/ finish_and_publish(w)
                               /\ IdentityOf(w) = i
<1>0. ledger[i] \in ImageRows
  BY RowTyped
<1>1. CASE PeopleStep
  <2>1. ASSUME NEW a \in ApprovalIds, revoke(a)
        PROVE  FALSE
    BY <2>1 DEF revoke, CancelReserved
  <2>2. ASSUME Midnight
        PROVE  FALSE
    BY <1>0, <2>2 DEF Midnight, ImageRows
  <2>3. ASSUME NEW k \in Identities, GrowOld(k)
        PROVE  FALSE
    BY <1>0, <2>3 DEF GrowOld, ImageRows, ImageTypeOK
  <2> QED
    BY <1>1, <2>1, <2>2, <2>3 DEF PeopleStep, save_policy, save_catalog, VerificationLapses,
                                  Judge, approve, ApprovalExpires
<1>2. ASSUME NEW w \in Workspaces, Proceeds(w) \/ BatchDies(w) \/ StoreFails(w)
      PROVE  /\ finish_without_call(w) \/ finish_and_publish(w)
             /\ IdentityOf(w) = i
  <2>1. ASSUME run_once(w)
        PROVE  FALSE
    BY <1>0, <2>1 DEF run_once, Reconciled, ImageRows
  <2>2. ASSUME reserve(w) \/ begin_dispatch(w)
        PROVE  FALSE
    <3>1. ledger[IdentityOf(w)].state # "dispatching"
      BY <2>2 DEF reserve, begin_dispatch, Unheard
    <3> QED
      BY <2>2, <3>1, ReservedRow, DispatchedRow
  <2>3. ASSUME finish_without_call(w) \/ finish_and_publish(w), IdentityOf(w) # i
        PROVE  FALSE
    BY <2>3 DEF finish_without_call, finish_and_publish, RowIs, ImageTypeOK
  <2>4. ASSUME mark_unknown(w)
        PROVE  FALSE
    <3>1. CASE IdentityOf(w) = i
      <4>1. ledger' = [ledger EXCEPT ![i] = [ledger[i] EXCEPT !.state = "unknown"]]
        BY <2>4, <3>1 DEF mark_unknown, RowIs, IsDispatching
      <4>2. ledger'[i].state = "unknown"
        BY <1>0, <4>1 DEF ImageTypeOK, ImageRows
      <4> QED
        BY <4>2
    <3>2. CASE IdentityOf(w) # i
      <4>1. ledger'[i] = ledger[i]
        BY <2>4, <3>2 DEF mark_unknown, RowIs, ImageTypeOK
      <4> QED
        BY <4>1
    <3> QED
      BY <3>1, <3>2
  <2> QED
    BY <1>2, <2>1, <2>2, <2>3, <2>4
       DEF Proceeds, BatchDies, StoreFails, checks_for, PassOver, DispatchRefused,
           describe_image, PublishFails
<1> QED
  BY <1>1, <1>2, NextCases DEF imageVars

\* Nobody but the batch itself changes the row it was granted, unless it grows stale.
LEMMA GrantedRows ==
  ASSUME ImageTypeOK, PhotosAreOwn, [ImageNext]_imageVars,
         NEW v \in Workspaces, At(v, {"granted"}), At(v, {"granted"})', batch'[v] = batch[v],
         ledger[IdentityOf(v)].state \in {"dispatching", "unknown"}
  PROVE  ledger'[IdentityOf(v)].state \in {"dispatching", "unknown"}
<1>0. IdentityOf(v) \in Identities
  BY StepTyped
<1>1. ASSUME NEW w \in Workspaces, reserve(w) \/ begin_dispatch(w)
      PROVE  ledger'[IdentityOf(v)] = ledger[IdentityOf(v)]
  <2>1. IdentityOf(w) # IdentityOf(v)
    BY <1>1 DEF PhotosAreOwn, Underway, At, IdentityOf, reserve, begin_dispatch
  <2> QED
    BY <1>0, <1>1, <2>1, ReservedRow, DispatchedRow
<1>2. ASSUME NEW w \in Workspaces, finish_without_call(w) \/ finish_and_publish(w),
             IdentityOf(w) = IdentityOf(v)
      PROVE  FALSE
  <2>1. w = v
    BY <1>2 DEF PhotosAreOwn, Underway, At, IdentityOf, finish_without_call,
                finish_and_publish
  <2>2. Moves(v, NextPhoto(v))
    BY <1>2, <2>1 DEF finish_without_call, finish_and_publish
  <2>3. batch'[v] = NextPhoto(v)
    BY <2>2 DEF Moves, ImageTypeOK
  <2> QED
    BY <2>3 DEF NextPhoto, GoesOn, Off, At
<1>3. CASE RowsKept
  <2>1. CASE ledger[IdentityOf(v)].state = "dispatching"
    BY <1>0, <1>2, <2>1, EndedByItsBatch
  <2>2. CASE ledger[IdentityOf(v)].state = "unknown"
    BY <1>0, <1>3, <2>2 DEF RowsKept, Stays, Ends, IsCancelled
  <2> QED
    BY <2>1, <2>2
<1> QED
  BY <1>1, <1>3, AnyRows

LEMMA OneCallStep ==
  ASSUME ImageTypeOK, PhotosAreOwn, OneCall, [ImageNext]_imageVars
  PROVE  OneCall'
<1>1. ASSUME NEW v \in Workspaces, At(v, {"granted"})'
      PROVE  /\ sent'[IdentityOf(v)'] = 0
             /\ ledger'[IdentityOf(v)'].state \in {"dispatching", "unknown"}
  <2>1. CASE begin_dispatch(v)
    <3>1. IdentityOf(v)' = IdentityOf(v) /\ sent' = sent
      <4>1. batch'[v] = [batch[v] EXCEPT !.pc = "granted"] /\ sent' = sent
        BY <2>1 DEF begin_dispatch, Moves, ImageTypeOK
      <4> QED
        BY <4>1, StepTyped DEF IdentityOf, BatchSteps
    <3>2. sent[IdentityOf(v)] = 0
      BY <2>1, StepTyped DEF begin_dispatch, OneCall, LedgerLeadsTheCall
    <3> QED
      BY <2>1, <3>1, <3>2, DispatchedRow
  <2>2. CASE At(v, {"granted"}) /\ batch'[v] = batch[v]
    <3>1. IdentityOf(v)' = IdentityOf(v) /\ IdentityOf(v) \in Identities
      BY <2>2, StepTyped DEF IdentityOf
    <3>2. ledger'[IdentityOf(v)].state \in {"dispatching", "unknown"}
      BY <1>1, <2>2, GrantedRows DEF OneCall, LedgerLeadsTheCall
    <3>3. sent'[IdentityOf(v)] = sent[IdentityOf(v)]
      <4>1. ASSUME NEW w \in Workspaces, NEW answer, describe_image(w, answer)
            PROVE  sent'[IdentityOf(v)] = sent[IdentityOf(v)]
        <5>1. w # v
          BY <1>1, <4>1, StepTyped DEF describe_image, Moves, At, ImageTypeOK, BatchSteps
        <5>2. IdentityOf(w) # IdentityOf(v)
          BY <2>2, <4>1, <5>1 DEF PhotosAreOwn, Underway, At, IdentityOf, describe_image
        <5> QED
          BY <3>1, <4>1, <5>2 DEF describe_image, ImageTypeOK
      <4>2. \/ sent' = sent
            \/ \E w \in Workspaces,
                  answer \in {"described", "unusable", "charged", "broken"} :
                 describe_image(w, answer)
        BY NextCases, PeopleLeaveBatches
           DEF Proceeds, BatchDies, StoreFails, run_once, checks_for, reserve, PassOver,
               begin_dispatch, DispatchRefused, finish_without_call, finish_and_publish,
               PublishFails, mark_unknown, imageVars
      <4> QED
        BY <4>1, <4>2
    <3> QED
      BY <2>2, <3>1, <3>2, <3>3 DEF OneCall, LedgerLeadsTheCall
  <2> QED
    BY <1>1, <2>1, <2>2, GrantsAreBegun
<1>2. ASSUME NEW w \in Workspaces, NEW answer, describe_image(w, answer)
      PROVE  /\ \A i \in Identities :
                  ledger'[i].state \in {"absent", "reserved", "cancelled"} => sent'[i] = 0
             /\ \A i \in Identities : sent'[i] <= 1
  <2>1. /\ IdentityOf(w) \in Identities /\ ledger' = ledger
        /\ sent' = [sent EXCEPT ![IdentityOf(w)] = sent[IdentityOf(w)] + 1]
        /\ sent[IdentityOf(w)] = 0
        /\ ledger[IdentityOf(w)].state \in {"dispatching", "unknown"}
    BY <1>2, StepTyped DEF describe_image, OneCall, LedgerLeadsTheCall
  <2>2. \A i \in Identities : sent'[i] = IF i = IdentityOf(w) THEN 1 ELSE sent[i]
    BY <2>1 DEF ImageTypeOK
  <2> QED
    BY <2>1, <2>2 DEF OneCall, LedgerLeadsTheCall, SentOnce
<1>3. ASSUME sent' = sent
      PROVE  /\ \A i \in Identities :
                  ledger'[i].state \in {"absent", "reserved", "cancelled"} => sent'[i] = 0
             /\ \A i \in Identities : sent'[i] <= 1
  <2>1. ASSUME NEW w \in Workspaces, reserve(w), NEW i \in Identities,
               ledger'[i].state \in {"absent", "reserved", "cancelled"}
        PROVE  ledger[i].state \in {"absent", "reserved", "cancelled"}
    BY <2>1, ReservedRow DEF reserve, Unheard
  <2>2. ASSUME NEW w \in Workspaces, begin_dispatch(w), NEW i \in Identities,
               ledger'[i].state \in {"absent", "reserved", "cancelled"}
        PROVE  ledger[i].state \in {"absent", "reserved", "cancelled"}
    BY <2>2, DispatchedRow
  <2>3. ASSUME RowsKept, NEW i \in Identities,
               ledger'[i].state \in {"absent", "reserved", "cancelled"}
        PROVE  ledger[i].state \in {"absent", "reserved", "cancelled"}
    BY <2>3 DEF RowsKept, Stays, Ends, IsCancelled
  <2> QED
    BY <1>3, <2>1, <2>2, <2>3, AnyRows DEF OneCall, LedgerLeadsTheCall, SentOnce
<1>4. \/ sent' = sent
      \/ \E w \in Workspaces, answer \in {"described", "unusable", "charged", "broken"} :
           describe_image(w, answer)
  BY NextCases, PeopleLeaveBatches
     DEF Proceeds, BatchDies, StoreFails, run_once, checks_for, reserve, PassOver,
         begin_dispatch, DispatchRefused, finish_without_call, finish_and_publish,
         PublishFails, mark_unknown, imageVars
<1>5. LedgerLeadsTheCall' /\ \A i \in Identities : sent'[i] <= 1
  BY <1>1, <1>2, <1>3, <1>4 DEF LedgerLeadsTheCall
<1>6. SentOnce'
  BY <1>5 DEF LedgerLeadsTheCall, SentOnce
<1> QED
  BY <1>5, <1>6 DEF OneCall

(***************************************************************************)
(* Approvals, charges and limits.                                          *)
(***************************************************************************)
LEMMA RevokedStep ==
  ASSUME ImageTypeOK, ReservedAreApproved, RevokedLeavesNothingReserved,
         [ImageNext]_imageVars
  PROVE  ReservedAreApproved' /\ RevokedLeavesNothingReserved'
<1>1. ASSUME NEW w \in Workspaces, reserve(w) \/ begin_dispatch(w)
      PROVE  ReservedAreApproved' /\ RevokedLeavesNothingReserved'
  <2>1. approval' = approval
    BY <1>1 DEF reserve, begin_dispatch
  <2>2. CASE reserve(w)
    <3>1. /\ batch[w].approval \in ApprovalIds
          /\ approval[batch[w].approval].state = "active"
      BY <2>2 DEF reserve, Preflight, InForce
    <3>2. /\ ledger'[IdentityOf(w)].approval = batch[w].approval
          /\ \A k \in Identities : k # IdentityOf(w) => ledger'[k] = ledger[k]
      <4>1. ledger'[IdentityOf(w)] = [state |-> "reserved", approval |-> batch[w].approval,
                                      today |-> TRUE, old |-> FALSE]
        BY <2>2, ReservedRow
      <4>2. ledger'[IdentityOf(w)].approval = batch[w].approval
        BY <4>1
      <4>3. \A k \in Identities : k # IdentityOf(w) => ledger'[k] = ledger[k]
        BY <2>2, ReservedRow
      <4> QED
        BY <4>2, <4>3
    <3>3. ASSUME NEW k \in Identities, ledger'[k].state = "reserved"
          PROVE  /\ ledger'[k].approval \in ApprovalIds
                 /\ approval[ledger'[k].approval].state # "revoked"
      BY <3>1, <3>2, <3>3 DEF ReservedAreApproved, RevokedLeavesNothingReserved
    <3> QED
      BY <2>1, <3>3 DEF ReservedAreApproved, RevokedLeavesNothingReserved
  <2>3. CASE begin_dispatch(w)
    BY <2>1, <2>3, DispatchedRow DEF ReservedAreApproved, RevokedLeavesNothingReserved
  <2> QED
    BY <1>1, <2>2, <2>3
<1>2. ASSUME RowsKept, NEW i \in Identities, ledger'[i].state = "reserved"
      PROVE  /\ ledger[i].state = "reserved" /\ ledger'[i].approval = ledger[i].approval
             /\ ledger[i].approval \in ApprovalIds
             /\ approval[ledger[i].approval].state # "revoked"
  BY <1>2 DEF RowsKept, Stays, Ends, IsCancelled, Same, ReservedAreApproved,
              RevokedLeavesNothingReserved
<1>3. ASSUME RowsKept, UNCHANGED approval
      PROVE  ReservedAreApproved' /\ RevokedLeavesNothingReserved'
  BY <1>2, <1>3 DEF ReservedAreApproved, RevokedLeavesNothingReserved
<1>4. ASSUME RowsKept, NEW a \in ApprovalIds, approval[a] \in Approvals,
             (\E p \in Photos : approve(a, p)) \/ revoke(a) \/ ApprovalExpires(a)
      PROVE  ReservedAreApproved' /\ RevokedLeavesNothingReserved'
  <2>1. ASSUME NEW i \in Identities, ledger'[i].state = "reserved",
               approval'[ledger[i].approval].state = "revoked"
        PROVE  FALSE
    <3>1. approval'[ledger[i].approval].state = "revoked" /\ ledger[i].approval \in ApprovalIds
          /\ approval[ledger[i].approval].state # "revoked"
      BY <1>2, <1>4, <2>1
    <3>2. ASSUME NEW p \in Photos, approve(a, p)
          PROVE  FALSE
      BY <3>1, <3>2 DEF approve, ImageTypeOK
    <3>3. ASSUME ApprovalExpires(a)
          PROVE  FALSE
      BY <1>4, <3>1, <3>3 DEF ApprovalExpires, ImageTypeOK, Approvals
    <3>4. ASSUME revoke(a)
          PROVE  FALSE
      <4>1. ledger[i].approval = a
        BY <3>1, <3>4 DEF revoke, ImageTypeOK
      <4>2. ledger[i].state = "reserved" /\ ledger'[i] = CancelReserved(ledger[i], a)
        BY <1>2, <1>4, <2>1, <3>4 DEF revoke, CancelReserved
      <4>3. ledger[i] \in ImageRows
        BY RowTyped
      <4> QED
        BY <2>1, <4>1, <4>2, <4>3 DEF CancelReserved, ImageRows
    <3> QED
      BY <1>4, <3>2, <3>3, <3>4
  <2> QED
    BY <1>2, <1>4, <2>1 DEF ReservedAreApproved, RevokedLeavesNothingReserved
<1>5. \/ UNCHANGED approval
      \/ \E a \in ApprovalIds :
           (\E p \in Photos : approve(a, p)) \/ revoke(a) \/ ApprovalExpires(a)
  BY NextCases, BatchesLeaveFacts
     DEF PeopleStep, save_policy, save_catalog, VerificationLapses, Judge, Midnight, GrowOld,
         Facts, imageVars
<1>6. \A a \in ApprovalIds : approval[a] \in Approvals
  BY DEF ImageTypeOK
<1> QED
  BY <1>1, <1>3, <1>4, <1>5, <1>6, AnyRows

LEMMA ChargedStep ==
  ASSUME ImageTypeOK, ChargedIsUnverified, [ImageNext]_imageVars
  PROVE  ChargedIsUnverified'
<1>1. ASSUME NEW m \in Routes, (\E saw \in BOOLEAN : save_catalog(m, saw)) \/ VerificationLapses(m)
      PROVE  ChargedIsUnverified'
  BY <1>1 DEF save_catalog, VerificationLapses, ChargedIsUnverified
<1>2. ASSUME NEW w \in Workspaces, finish_and_publish(w)
      PROVE  ChargedIsUnverified'
  BY <1>2 DEF finish_and_publish, CostGuard, ChargedIsUnverified
<1>3. \/ UNCHANGED <<verified, charged, reopened>>
      \/ \E m \in Routes : (\E saw \in BOOLEAN : save_catalog(m, saw)) \/ VerificationLapses(m)
      \/ \E w \in Workspaces : finish_and_publish(w)
  BY NextCases
     DEF PeopleStep, save_policy, Judge, approve, revoke, ApprovalExpires, Midnight, GrowOld,
         Proceeds, BatchDies, StoreFails, run_once, checks_for, reserve, PassOver,
         begin_dispatch, DispatchRefused, describe_image, finish_without_call, PublishFails,
         mark_unknown, imageVars
<1> QED
  BY <1>1, <1>2, <1>3 DEF ChargedIsUnverified

LEMMA CountsAreFinite ==
  ASSUME NEW T, T \subseteq Identities
  PROVE  IsFiniteSet(T) /\ Cardinality(T) \in Nat
<1>1. IsFiniteSet(Identities)
  BY FS_Product, ImageAssumption DEF Identities
<1>2. IsFiniteSet(T)
  BY <1>1, FS_Subset
<1> QED
  BY <1>2, FS_CardinalityType

LEMMA FewerOf ==
  ASSUME NEW T, NEW U, U \subseteq T, T \subseteq Identities
  PROVE  Cardinality(U) <= Cardinality(T)
  BY CountsAreFinite, FS_Subset

LEMMA NoMoreOf ==
  ASSUME NEW T, NEW U, U \subseteq T, T \subseteq Identities, NEW cap \in Nat,
         Cardinality(T) <= cap
  PROVE  Cardinality(U) <= cap
<1>1. U \subseteq Identities
  OBVIOUS
<1> QED
  BY <1>1, FewerOf, CountsAreFinite

LEMMA OneMoreOf ==
  ASSUME NEW T, NEW U, NEW x, U \subseteq T \cup {x}, T \subseteq Identities,
         x \in Identities, NEW cap \in Nat, Cardinality(T) < cap
  PROVE  Cardinality(U) <= cap
<1>1. T \cup {x} \subseteq Identities
  OBVIOUS
<1>2. Cardinality(U) <= Cardinality(T \cup {x})
  BY <1>1, FewerOf
<1>3. Cardinality(T \cup {x}) <= Cardinality(T) + 1
  BY CountsAreFinite, FS_AddElement
<1> QED
  BY <1>1, <1>2, <1>3, CountsAreFinite

LEMMA CapsStep ==
  ASSUME ImageTypeOK, PhotosAreOwn, CapsHold, [ImageNext]_imageVars
  PROVE  CapsHold'
<1>0. /\ Active \subseteq Identities /\ Today \subseteq Identities
      /\ Active' \subseteq Identities /\ Today' \subseteq Identities
      /\ \A w \in Workspaces : Of(w)' = Of(w) /\ Of(w) \subseteq Identities
  BY DEF Active, Today, Of, Identities
<1>1. limits' = limits /\ limits.slots \in Nat /\ limits.calls \in Nat
      /\ OwnLimits.slots \in Nat /\ OwnLimits.calls \in Nat
  <2>1. limits' = limits
    BY NextCases, BatchesLeaveFacts
       DEF PeopleStep, save_policy, save_catalog, VerificationLapses, Judge, approve, revoke,
           ApprovalExpires, Midnight, GrowOld, Facts, imageVars
  <2>2. limits \in [slots : Nat \ {0}, calls : Nat \ {0}]
    BY ImageAssumption DEF ImageTypeOK
  <2> QED
    BY <2>1, <2>2, ImageAssumption
<1>2. ASSUME Active' \subseteq Active, Today' \subseteq Today
      PROVE  CapsHold'
  <2>1. ASSUME NEW w \in Workspaces
        PROVE  /\ Cardinality((Active \cap Of(w))') <= OwnLimits.slots
               /\ Cardinality((Today \cap Of(w))') <= OwnLimits.calls
    <3>1. /\ (Active \cap Of(w))' \subseteq Active \cap Of(w)
          /\ (Today \cap Of(w))' \subseteq Today \cap Of(w)
      BY <1>0, <1>2
    <3>2. /\ Cardinality(Active \cap Of(w)) <= OwnLimits.slots
          /\ Cardinality(Today \cap Of(w)) <= OwnLimits.calls
      BY DEF CapsHold
    <3> QED
      BY <1>0, <1>1, <3>1, <3>2, NoMoreOf
  <2>2. Cardinality(Active') <= limits.slots /\ Cardinality(Today') <= limits.calls
    BY <1>0, <1>1, <1>2, NoMoreOf DEF CapsHold
  <2> QED
    BY <1>1, <2>1, <2>2 DEF CapsHold
<1>3. ASSUME RowsKept
      PROVE  CapsHold'
  <2>1. Active' \subseteq Active
    BY <1>3 DEF RowsKept, Stays, Ends, IsCancelled, Active, Holding
  <2>2. Today' \subseteq Today
    BY <1>3 DEF RowsKept, Stays, Ends, IsCancelled, Same, Today
  <2> QED
    BY <1>2, <2>1, <2>2
<1>4. ASSUME NEW w \in Workspaces, begin_dispatch(w)
      PROVE  CapsHold'
  <2>1. ledger[IdentityOf(w)].state = "reserved" /\ IdentityOf(w) \in Identities
    BY <1>4, StepTyped DEF begin_dispatch
  <2>2. Active' \subseteq Active
    BY <1>4, <2>1, DispatchedRow DEF Active, Holding
  <2>3. Today' \subseteq Today
    BY <1>4, <2>1, DispatchedRow DEF Same, Today
  <2> QED
    BY <1>2, <2>2, <2>3
<1>5. ASSUME NEW w \in Workspaces, reserve(w)
      PROVE  CapsHold'
  <2> DEFINE i == IdentityOf(w)
  <2>1. i \in Identities /\ SlotsLeft(w)
    BY <1>5, StepTyped DEF reserve
  <2>2. Active' \subseteq Active \cup {i} /\ Today' \subseteq Today \cup {i}
    BY <1>5, ReservedRow DEF Active, Today
  <2>3. Cardinality(Active') <= limits.slots /\ Cardinality(Today') <= limits.calls
    BY <1>0, <1>1, <2>1, <2>2, OneMoreOf DEF SlotsLeft
  <2>4. /\ Cardinality((Active \cap Of(w))') <= OwnLimits.slots
        /\ Cardinality((Today \cap Of(w))') <= OwnLimits.calls
    <3>1. /\ (Active \cap Of(w))' \subseteq (Active \cap Of(w)) \cup {i}
          /\ (Today \cap Of(w))' \subseteq (Today \cap Of(w)) \cup {i}
      BY <1>0, <2>2
    <3>2. /\ Cardinality(Active \cap Of(w)) < OwnLimits.slots
          /\ Cardinality(Today \cap Of(w)) < OwnLimits.calls
      BY <2>1 DEF SlotsLeft
    <3> QED
      BY <1>0, <1>1, <2>1, <3>1, <3>2, OneMoreOf
  <2>5. WorkspaceOf[i[1]] = w
    BY <1>5 DEF reserve, PhotosAreOwn, Underway, At, IdentityOf
  <2>6. ASSUME NEW v \in Workspaces, v # w
        PROVE  /\ Cardinality((Active \cap Of(v))') <= OwnLimits.slots
               /\ Cardinality((Today \cap Of(v))') <= OwnLimits.calls
    <3>1. i \notin Of(v)
      BY <2>5, <2>6 DEF Of
    <3>2. /\ (Active \cap Of(v))' \subseteq Active \cap Of(v)
          /\ (Today \cap Of(v))' \subseteq Today \cap Of(v)
      BY <1>0, <2>2, <3>1
    <3>3. /\ Cardinality(Active \cap Of(v)) <= OwnLimits.slots
          /\ Cardinality(Today \cap Of(v)) <= OwnLimits.calls
      BY DEF CapsHold
    <3> QED
      BY <1>0, <1>1, <3>2, <3>3, NoMoreOf
  <2> QED
    BY <1>1, <2>3, <2>4, <2>6 DEF CapsHold
<1> QED
  BY <1>3, <1>4, <1>5, AnyRows

(***************************************************************************)
(* The theorems.                                                           *)
(***************************************************************************)
LEMMA ImageInitInv == ImageInit => ImageInv
<1> SUFFICES ASSUME ImageInit
             PROVE  ImageInv
  OBVIOUS
<1>1. ImageTypeOK
  BY ImageInitType
<1>2. /\ \A i \in Identities : ledger[i] = NoRow /\ sent[i] = 0
      /\ \A w \in Workspaces : batch[w] = Off
  BY DEF ImageInit
<1>3. PhotosAreOwn /\ LedgerLeadsTheCall /\ SentOnce
  BY <1>2 DEF PhotosAreOwn, LedgerLeadsTheCall, SentOnce, Underway, At, Off, NoRow
<1>4. ReservedAreApproved /\ RevokedLeavesNothingReserved
  BY <1>2 DEF ReservedAreApproved, RevokedLeavesNothingReserved, NoRow
<1>5. ChargedIsUnverified
  BY DEF ImageInit, ChargedIsUnverified
<1>6. Active = {} /\ Today = {}
  BY <1>2 DEF Active, Today, Holding, NoRow
<1>7. CapsHold
  <2>1. limits \in [slots : Nat \ {0}, calls : Nat \ {0}]
    BY <1>1, ImageAssumption DEF ImageTypeOK
  <2>2. \A w \in Workspaces : Active \cap Of(w) = {} /\ Today \cap Of(w) = {}
    BY <1>6
  <2> QED
    BY <1>6, <2>1, <2>2, FS_EmptySet, ImageAssumption DEF CapsHold
<1> QED
  BY <1>1, <1>3, <1>4, <1>5, <1>7 DEF ImageInv

LEMMA ImageInvStep == ImageInv /\ [ImageNext]_imageVars => ImageInv'
<1> SUFFICES ASSUME ImageInv, [ImageNext]_imageVars
             PROVE  ImageInv'
  OBVIOUS
<1>1. ImageTypeOK' /\ PhotosAreOwn'
  BY ImageTypeStep, PhotosAreOwnStep DEF ImageInv
<1>2. LedgerLeadsTheCall' /\ SentOnce'
  BY OneCallStep DEF ImageInv, OneCall
<1>3. ReservedAreApproved' /\ RevokedLeavesNothingReserved'
  BY RevokedStep DEF ImageInv
<1>4. ChargedIsUnverified' /\ CapsHold'
  BY ChargedStep, CapsStep DEF ImageInv
<1> QED
  BY <1>1, <1>2, <1>3, <1>4 DEF ImageInv

\* The inductive invariant the others rest on.
THEOREM ImageInvariant == ImageSpec => []ImageInv
  BY ImageInitInv, ImageInvStep, PTL DEF ImageSpec

\* Every variable keeps its type (ImageDescriptionStore's tables, a batch's progress).
THEOREM ImageTypes == ImageSpec => []ImageTypeOK
<1>1. ImageInv => ImageTypeOK
  BY DEF ImageInv
<1> QED
  BY <1>1, ImageInvariant, PTL

\* The bytes of a photo go to a model at most once, and never before the ledger says so
\* (begin_dispatch, reserve, mark_unknown, reconcile_stale_dispatches).
THEOREM PhotosAreSentOnce == ImageSpec => []SentOnce
<1>1. ImageInv => SentOnce
  BY DEF ImageInv
<1> QED
  BY <1>1, ImageInvariant, PTL

\* A revoked approval has no reserved row (revoke, reserve).
THEOREM RevokedRowsAreClosed == ImageSpec => []RevokedLeavesNothingReserved
<1>1. ImageInv => RevokedLeavesNothingReserved
  BY DEF ImageInv
<1> QED
  BY <1>1, ImageInvariant, PTL

\* max_concurrency and daily_calls hold globally and per workspace (reserve).
THEOREM LimitsHold == ImageSpec => []CapsHold
<1>1. ImageInv => CapsHold
  BY DEF ImageInv
<1> QED
  BY <1>1, ImageInvariant, PTL

\* No dispatch begins on a model with an unsettled charge (finish_and_publish, begin_dispatch),
\* until it is verified again, or saved as free by one who had read its entry before.
THEOREM ChargedModelsStop == ImageSpec => ChargeStopsModel
<1>1. ASSUME ImageInv, [ImageNext]_imageVars
      PROVE  [\A i \in Identities :
                ledger'[i].state = "dispatching" /\ ledger[i].state # "dispatching" =>
                  i[2] \notin charged \ reopened]_imageVars
  <2>1. ASSUME NEW i \in Identities, ledger'[i].state = "dispatching",
               ledger[i].state # "dispatching"
        PROVE  i[2] \notin charged \ reopened
    <3>0. ImageTypeOK /\ ChargedIsUnverified
      BY <1>1 DEF ImageInv
    <3>1. ~RowsKept
      BY <2>1 DEF RowsKept, Stays, Ends, IsCancelled
    <3>2. PICK w \in Workspaces : reserve(w) \/ begin_dispatch(w)
      BY <1>1, <3>0, <3>1, AnyRows
    <3>r. ~reserve(w)
      <4>1. SUFFICES ASSUME reserve(w) PROVE FALSE
        OBVIOUS
      <4>2. ledger'[IdentityOf(w)] = [state |-> "reserved", approval |-> batch[w].approval,
                                      today |-> TRUE, old |-> FALSE]
        BY <3>0, <4>1, ReservedRow
      <4>3. \A k \in Identities : k # IdentityOf(w) => ledger'[k] = ledger[k]
        BY <3>0, <4>1, ReservedRow
      <4>4. ledger'[IdentityOf(w)].state # "dispatching"
        BY <4>2
      <4> QED
        BY <2>1, <4>3, <4>4
    <3>3. begin_dispatch(w) /\ IdentityOf(w) = i
      <4>1. begin_dispatch(w)
        BY <3>2, <3>r
      <4>2. \A k \in Identities : k # IdentityOf(w) => ledger'[k] = ledger[k]
        BY <3>0, <4>1, DispatchedRow
      <4> QED
        BY <2>1, <4>1, <4>2
    <3>4. i[2] \in verified
      BY <3>3 DEF begin_dispatch, Preflight
    <3> QED
      BY <3>0, <3>4 DEF ChargedIsUnverified
  <2> QED
    BY <2>1
<1> QED
  BY <1>1, ImageInvariant, PTL DEF ImageSpec, ChargeStopsModel

(***************************************************************************)
(* The ledger implements OncePromise.                                      *)
(***************************************************************************)
Permitted == {i \in Identities : ledger[i].state \notin {"absent", "reserved", "cancelled"}}

LEMMA OnlyCallsSend ==
  ASSUME [ImageNext]_imageVars
  PROVE  \/ sent' = sent
         \/ \E w \in Workspaces, answer \in {"described", "unusable", "charged", "broken"} :
              describe_image(w, answer)
  BY NextCases, PeopleLeaveBatches
     DEF Proceeds, BatchDies, StoreFails, run_once, checks_for, reserve, PassOver,
         begin_dispatch, DispatchRefused, finish_without_call, finish_and_publish,
         PublishFails, mark_unknown, imageVars

\* Rows that are kept keep the permission they gave, and give none.
LEMMA KeptRowsPermit ==
  ASSUME RowsKept
  PROVE  Permitted' = Permitted
<1>1. \A i \in Identities : ledger'[i].state \notin {"absent", "reserved", "cancelled"}
                              <=> ledger[i].state \notin {"absent", "reserved", "cancelled"}
  BY DEF RowsKept, Stays, Ends, IsCancelled
<1> QED
  BY <1>1 DEF Permitted

LEMMA ReservingPermits ==
  ASSUME ImageTypeOK, NEW w \in Workspaces, reserve(w)
  PROVE  Permitted' = Permitted
<1>1. IdentityOf(w) \in Identities /\ ledger[IdentityOf(w)].state = "absent"
  BY StepTyped DEF reserve, Unheard
<1>2. ledger'[IdentityOf(w)] = [state |-> "reserved", approval |-> batch[w].approval,
                                today |-> TRUE, old |-> FALSE]
  BY ReservedRow
<1>3. \A k \in Identities : k # IdentityOf(w) => ledger'[k] = ledger[k]
  BY ReservedRow
<1>4. ledger'[IdentityOf(w)].state = "reserved"
  BY <1>2
<1> QED
  BY <1>1, <1>3, <1>4 DEF Permitted

LEMMA DispatchingPermits ==
  ASSUME ImageTypeOK, NEW w \in Workspaces, begin_dispatch(w)
  PROVE  \E i \in Identities : i \notin Permitted /\ Permitted' = Permitted \cup {i}
<1>1. IdentityOf(w) \in Identities /\ ledger[IdentityOf(w)].state = "reserved"
  BY StepTyped DEF begin_dispatch
<1>2. /\ ledger'[IdentityOf(w)].state = "dispatching"
      /\ \A k \in Identities : k # IdentityOf(w) => ledger'[k] = ledger[k]
  BY DispatchedRow
<1> QED
  BY <1>1, <1>2 DEF Permitted

LEMMA CallsArePermitted ==
  ASSUME ImageTypeOK, LedgerLeadsTheCall, NEW w \in Workspaces, NEW answer,
         describe_image(w, answer)
  PROVE  \E i \in Identities :
           i \in Permitted /\ sent[i] = 0 /\ sent' = [sent EXCEPT ![i] = 1]
<1>1. PICK i \in Identities : i = IdentityOf(w)
  BY StepTyped
<1>2. sent[i] = 0 /\ i \in Permitted
  BY <1>1 DEF describe_image, LedgerLeadsTheCall, Permitted
<1>3. sent' = [sent EXCEPT ![i] = 1]
  BY <1>1, <1>2 DEF describe_image
<1> QED
  BY <1>2, <1>3

LEMMA ImageStepKeepsPromise ==
  ASSUME ImageInv, [ImageNext]_imageVars
  PROVE  [SendPromise!Next]_<<Permitted, sent>>
<1>0. ImageTypeOK /\ LedgerLeadsTheCall
  BY DEF ImageInv
<1>1. ASSUME NEW w \in Workspaces, NEW answer, describe_image(w, answer)
      PROVE  SendPromise!Next
  <2>1. Permitted' = Permitted
    BY <1>1 DEF describe_image, Permitted
  <2>2. PICK i \in Identities :
          i \in Permitted /\ sent[i] = 0 /\ sent' = [sent EXCEPT ![i] = 1]
    BY <1>0, <1>1, CallsArePermitted
  <2> QED
    BY <2>1, <2>2 DEF SendPromise!Next, SendPromise!Perform, Permitted
<1>2. ASSUME NEW w \in Workspaces, begin_dispatch(w)
      PROVE  SendPromise!Next
  <2>1. sent' = sent
    BY <1>2 DEF begin_dispatch
  <2>2. PICK i \in Identities : i \notin Permitted /\ Permitted' = Permitted \cup {i}
    BY <1>0, <1>2, DispatchingPermits
  <2> QED
    BY <2>1, <2>2 DEF SendPromise!Next, SendPromise!Permit, Permitted
<1>3. CASE sent' = sent /\ RowsKept
  BY <1>3, KeptRowsPermit
<1>4. ASSUME NEW w \in Workspaces, reserve(w)
      PROVE  UNCHANGED <<Permitted, sent>>
  <2>1. sent' = sent
    BY <1>4 DEF reserve
  <2> QED
    BY <1>0, <1>4, <2>1, ReservingPermits
<1> QED
  BY <1>0, <1>1, <1>2, <1>3, <1>4, AnyRows, OnlyCallsSend

\* The bytes of a photo leave on a permission the ledger gave once, in an earlier transaction,
\* and never took back: no batch, approval, policy or fault makes a second call of a model.
THEOREM LedgerKeepsSendPromise == ImageSpec => SendPromiseKept
<1>1. ImageInit => SendPromise!Init
  BY DEF ImageInit, NoRow, SendPromise!Init
<1>2. ImageInv /\ [ImageNext]_imageVars
        => [SendPromise!Next]_<<{i \in Identities :
              ledger[i].state \notin {"absent", "reserved", "cancelled"}}, sent>>
  BY ImageStepKeepsPromise DEF Permitted
<1> QED
  BY <1>1, <1>2, ImageInvariant, PTL DEF ImageSpec, SendPromiseKept, SendPromise!Spec
=============================================================================
