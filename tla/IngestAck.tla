------------------------------ MODULE IngestAck ------------------------------
(***************************************************************************)
(* The ingest acknowledgement of one Slack message.  Handlers of the       *)
(* Archiving Bot carry the message through the archive (ingest_message in  *)
(* archiving_bot.py) and record each step with advance (ingest_ack.py):    *)
(* in the database, or, when that fails, in an outbox file that the next   *)
(* success drains.  Reconcilers re-count attachments whose conversion ended*)
(* later (ack_reconcile.py).  Slack may deliver the message again, a       *)
(* backfill may read it at the same time, and each may stop anywhere.      *)
(*                                                                         *)
(* Messages share neither rows nor archive lines, so one message stands for*)
(* all of them; traffic of the others shows only as drains of the outbox.  *)
(* The files of a message are alike: they are retained together.           *)
(***************************************************************************)
EXTENDS Naturals, Sequences, Functions

CONSTANTS
  Handlers, Reconcilers,   \* processes and threads
  MaxFiles,        \* bound: attachments of the message
  MaxDeliveries,   \* bound: times the message is delivered or backfilled
  MaxFaults,       \* bound: failures of the database, the outbox file or a read
  MaxOutbox        \* bound: lines the outbox holds

ASSUME BoundsAssumption ==
  /\ MaxFiles \in Nat
  /\ MaxDeliveries \in Nat
  /\ MaxFaults \in Nat
  /\ MaxOutbox \in Nat

ASSUME ActorsAssumption ==
  /\ Handlers \cap Reconcilers = {}
  /\ {"nobody", "traffic"} \cap (Handlers \cup Reconcilers) = {}

VARIABLES
  event,       \* the message: its files, whether it has text, what screening refuses
  status,      \* the row of archive_ingest_state
  outbox,      \* the lines of the outbox file
  drain,       \* the drain under way: by whom, lines to push, lines kept
  raw,         \* per archive: how much of the message is in the raw document
  kept,        \* per archive: does the staging metadata say the originals are retained?
  searchable,  \* per archive: converted attachments
  revised,     \* is the message's revision recorded?
  handler,     \* each handler's step and what it found
  recon,       \* each reconciler's step and the change it decided on
  deliveries, faults,
  owed         \* history: facts spooled and not yet accepted by the database

vars == <<event, status, outbox, drain, raw, kept, searchable, revised, handler, recon,
          deliveries, faults, owed>>

Promise == INSTANCE AckPromise WITH state <- status.state, dest <- status.dest

IngestStates == {"received", "raw_written", "attachment_pending", "ready", "partial",
                 "refused", "failed"}
Archives == {"shadow", "live"}
Errors == {"none", "no-message", "unconfirmed", "screened", "revision", "pending", "lost"}
Counts == 0 .. MaxFiles

\* Screening can refuse a part only of a message that has more than one part.
Events ==
  {e \in [files : Counts, text : BOOLEAN, screened : {"nothing", "part", "all"}] :
     /\ e.files = 0 /\ ~e.text => e.screened = "nothing"
     /\ e.screened = "part" => e.files > 1 \/ (e.files = 1 /\ e.text)}

Payloads == [target : IngestStates, counted : BOOLEAN, total : Counts, ready : Counts,
             dest : Archives, path : BOOLEAN, error : Errors]

Statuses == [state : IngestStates \cup {"none"}, total : Counts, ready : Counts,
             dest : Archives \cup {"nowhere"}, error : Errors]

NoStatus == [state |-> "none", total |-> 0, ready |-> 0, dest |-> "nowhere", error |-> "none"]

\* The steps of ingest_message that record something, and the others.
AckSteps == {"received", "empty", "raw", "pending", "unconfirmed", "screened", "unrevised",
             "final"}
WorkSteps == {"stage", "ingest", "docs", "confirm", "revise"}

HandlerStates == [pc : AckSteps \cup WorkSteps \cup {"idle"}, dest : Archives,
                  wrote : BOOLEAN, ready : Counts, error : Errors]
ReconStates == [pc : {"idle", "decided"}, total : Counts, ready : Counts, dest : Archives,
                error : Errors]

Absent == [pc |-> "idle", dest |-> "shadow", wrote |-> FALSE, ready |-> 0, error |-> "none"]
NoChange == [pc |-> "idle", total |-> 0, ready |-> 0, dest |-> "shadow", error |-> "none"]
NoDrain == [by |-> "nobody", todo |-> <<>>, left |-> <<>>]

TypeOK ==
  /\ event \in Events
  /\ status \in Statuses
  /\ outbox \in Seq(Payloads) /\ Len(outbox) <= MaxOutbox
  /\ drain.by \in Handlers \cup Reconcilers \cup {"nobody", "traffic"}
  /\ drain.todo \in Seq(Payloads) /\ drain.left \in Seq(Payloads)
  /\ raw \in [Archives -> {"none", "part", "whole"}]
  /\ kept \in [Archives -> BOOLEAN]
  /\ searchable \in [Archives -> Counts]
  /\ revised \in BOOLEAN
  /\ handler \in [Handlers -> HandlerStates]
  /\ recon \in [Reconcilers -> ReconStates]
  /\ deliveries \in 0 .. MaxDeliveries
  /\ faults \in 0 .. MaxFaults
  /\ owed \subseteq Payloads

Init ==
  /\ event \in Events
  /\ status = NoStatus
  /\ outbox = <<>>
  /\ drain = NoDrain
  /\ raw = [a \in Archives |-> "none"]
  /\ kept = [a \in Archives |-> FALSE]
  /\ searchable = [a \in Archives |-> 0]
  /\ revised = FALSE
  /\ handler = [h \in Handlers |-> Absent]
  /\ recon = [r \in Reconcilers |-> NoChange]
  /\ deliveries = 0
  /\ faults = 0
  /\ owed = {}

(***************************************************************************)
(* One write of a fact over the row: _next and the rest of _write, under   *)
(* the message's advisory lock.                                            *)
(***************************************************************************)

\* A slip: the attachments of a fact are added to the recorded ones.
TotalAdds(st, p) == IF p.counted THEN st.total + p.total ELSE st.total

Total(st, p) == IF p.counted THEN p.total ELSE st.total
Ready(st, p) ==
  LET ready == IF p.counted THEN p.ready ELSE st.ready
  IN IF ready <= Total(st, p) THEN ready ELSE Total(st, p)

\* The row as the fact has it.
Stated(st, p) == [state |-> p.target, total |-> Total(st, p), ready |-> Ready(st, p),
                  dest |-> p.dest, error |-> p.error]

\* The same state again is worth writing only when a count or the reason differs.
SaysMore(st, p) ==
  \/ Total(st, p) # st.total
  \/ Ready(st, p) # st.ready
  \/ p.error # st.error

\* A message finished (or stopped short) in the shadow archive reached the live one.
CopiedLive(st, p) ==
  /\ st.dest = "shadow" /\ p.dest = "live" /\ p.path
  /\ \/ st.state = "ready" /\ p.total = p.ready
     \/ st.state = "partial" /\ p.counted

\* A slip: an end is left as easily as any other state.
MovesForwardFromEnds(st, p) ==
  /\ p.target \notin {"received", st.state}
  /\ p.target = "ready" => Ready(st, p) >= Total(st, p)

MovesForward(st, p) ==
  /\ p.target \in Promise!INGEST_EDGES[st.state]
  /\ p.target = "ready" => Ready(st, p) >= Total(st, p)

write(st, p) ==
  IF st.state = "none" THEN Stated(st, p)
  ELSE IF p.target = st.state
       THEN IF SaysMore(st, p) THEN Stated(st, p)
            ELSE IF CopiedLive(st, p) THEN [st EXCEPT !.dest = "live"] ELSE st
  ELSE IF MovesForward(st, p) THEN Stated(st, p) ELSE st

(***************************************************************************)
(* advance: the database; after a success the outbox; after a failure the  *)
(* outbox file, under its lock.                                            *)
(***************************************************************************)
Fault == faults < MaxFaults /\ faults' = faults + 1

DrainBy(who) == [by |-> who, todo |-> outbox, left |-> <<>>]

Recorded(who, p) ==
  /\ status' = write(status, p)
  /\ drain' = IF outbox # <<>> /\ drain.by = "nobody" THEN DrainBy(who) ELSE drain
  /\ UNCHANGED <<outbox, owed, faults>>

\* The commit may have happened although it was reported as failed.
Spooled(p) ==
  /\ Fault
  /\ drain.by = "nobody"
  /\ Len(outbox) < MaxOutbox
  /\ status' \in {status, write(status, p)}
  /\ outbox' = Append(outbox, p)
  /\ owed' = owed \cup {p}
  /\ UNCHANGED drain

\* Neither the database nor the file took it; only the log knows.
Dropped ==
  /\ Fault
  /\ UNCHANGED <<status, outbox, owed, drain>>

advance(who, p) == Recorded(who, p) \/ Spooled(p) \/ Dropped

(***************************************************************************)
(* drain_outbox, line by line: other writers get in between.               *)
(***************************************************************************)
World == <<event, raw, kept, searchable, revised>>

\* A start of the process, or another message's success, drains as well.
StartDrain ==
  /\ outbox # <<>> /\ drain.by = "nobody"
  /\ drain' = DrainBy("traffic")
  /\ UNCHANGED <<World, status, outbox, handler, recon, deliveries, faults, owed>>

DrainLine ==
  /\ drain.todo # <<>>
  /\ LET p == Head(drain.todo)
         rest == [drain EXCEPT !.todo = Tail(@)]
     IN \/ /\ status' = write(status, p)
           /\ drain' = rest
           /\ owed' = owed \ {p}
           /\ UNCHANGED faults
        \/ /\ Fault
           /\ status' \in {status, write(status, p)}
           /\ drain' = [rest EXCEPT !.left = Append(@, p)]
           /\ UNCHANGED owed
  /\ UNCHANGED <<World, outbox, handler, recon, deliveries>>

\* A slip: the lines read at the start are taken out, whether or not they were pushed.
DrainForgetsLeft ==
  /\ drain.by # "nobody" /\ drain.todo = <<>>
  /\ outbox' = <<>>
  /\ drain' = NoDrain
  /\ UNCHANGED <<World, status, handler, recon, deliveries, faults, owed>>

DrainEnds ==
  /\ drain.by # "nobody" /\ drain.todo = <<>>
  /\ outbox' = drain.left
  /\ drain' = NoDrain
  /\ UNCHANGED <<World, status, handler, recon, deliveries, faults, owed>>

\* The process dies in the middle: the file still has every line.
DrainDies ==
  /\ drain.by # "nobody"
  /\ drain' = NoDrain
  /\ handler' = [h \in Handlers |-> IF h = drain.by THEN Absent ELSE handler[h]]
  /\ recon' = [r \in Reconcilers |-> IF r = drain.by THEN NoChange ELSE recon[r]]
  /\ UNCHANGED <<World, status, outbox, deliveries, faults, owed>>

(***************************************************************************)
(* ingest_message, step by step.                                           *)
(***************************************************************************)
At(h, pc) == handler[h].pc = pc /\ drain.by # h

GoTo(h, step) == handler' = [handler EXCEPT ![h] = step]

\* Slack delivers, or a backfill reads; the destination is settled once, for the run.
Deliver(h) ==
  /\ handler[h].pc = "idle"
  /\ deliveries < MaxDeliveries
  /\ deliveries' = deliveries + 1
  /\ \E a \in Archives : GoTo(h, [Absent EXCEPT !.pc = "received", !.dest = a])
  /\ UNCHANGED <<World, status, outbox, drain, recon, faults, owed>>

\* Originals are downloaded and kept, and the metadata says whether that worked this time.
Stage(h) ==
  /\ At(h, "stage")
  /\ IF event.files > 0
     THEN \E retained \in BOOLEAN : kept' = [kept EXCEPT ![handler[h].dest] = retained]
     ELSE UNCHANGED kept
  /\ GoTo(h, [handler[h] EXCEPT !.pc = IF event.files = 0 /\ ~event.text
                                       THEN "empty" ELSE "ingest"])
  /\ UNCHANGED <<event, raw, searchable, revised, status, outbox, drain, recon, deliveries,
                 faults, owed>>

Refused == event.screened # "nothing"

\* writer.ingest: lines already there are not written again, refused ones are refused
\* again.
Ingest(h) ==
  /\ At(h, "ingest")
  /\ LET a == handler[h].dest
         wrote == raw[a] = "none" /\ event.screened # "all"
         confirmed == wrote \/ ~Refused
     IN /\ raw' = [raw EXCEPT ![a] = CASE ~wrote            -> @
                                       [] wrote /\ Refused  -> "part"
                                       [] wrote /\ ~Refused -> "whole"]
        /\ GoTo(h, [handler[h] EXCEPT
                      !.wrote = wrote,
                      !.pc = CASE confirmed                      -> "raw"
                               [] ~confirmed /\ event.files > 0  -> "pending"
                               [] ~confirmed /\ event.files = 0  -> "screened"])
  /\ UNCHANGED <<event, kept, searchable, revised, status, outbox, drain, recon, deliveries,
                 faults, owed>>

\* The canonical documents: a text file is converted on the spot, others come later.  A
\* run counts the documents it wrote or found unchanged.
WriteDocs(h) ==
  /\ At(h, "docs")
  /\ LET a == handler[h].dest
     IN \E n \in searchable[a] .. (IF kept[a] THEN event.files ELSE searchable[a]) :
          /\ searchable' = [searchable EXCEPT ![a] = n]
          /\ \E seen \in 0 .. n : GoTo(h, [handler[h] EXCEPT !.pc = "pending", !.ready = seen])
  /\ UNCHANGED <<event, raw, kept, revised, status, outbox, drain, recon, deliveries, faults,
                 owed>>

AfterFiles == IF Refused THEN "screened" ELSE "revise"

\* classify over what confirm_archived found: the reference lines are in the raw
\* document, and the originals are retained.
Confirm(h) ==
  /\ At(h, "confirm")
  /\ \/ /\ Fault
        /\ GoTo(h, [handler[h] EXCEPT !.pc = "unconfirmed"])
     \/ \E archived \in BOOLEAN :
          /\ event.screened = "nothing" => archived
          /\ event.screened = "all" => ~archived
          /\ GoTo(h, IF archived /\ kept[handler[h].dest]
                     THEN [handler[h] EXCEPT
                             !.pc = AfterFiles,
                             !.error = IF handler[h].ready = event.files
                                       THEN "none" ELSE "pending"]
                     ELSE [handler[h] EXCEPT !.pc = AfterFiles, !.ready = 0, !.error = "lost"])
          /\ UNCHANGED faults
  /\ UNCHANGED <<World, status, outbox, drain, recon, deliveries, owed>>

\* _record_revision, for a message with a text.
Revise(h) ==
  /\ At(h, "revise")
  /\ \/ /\ revised' = TRUE
        /\ GoTo(h, [handler[h] EXCEPT !.pc = "final"])
        /\ UNCHANGED faults
     \/ /\ event.text
        /\ Fault
        /\ GoTo(h, [handler[h] EXCEPT !.pc = "unrevised"])
        /\ UNCHANGED revised
  /\ UNCHANGED <<event, raw, kept, searchable, status, outbox, drain, recon, deliveries, owed>>

\* Outcome.all_ready decides.
FinalState(h) == IF handler[h].error = "none" THEN "ready" ELSE "partial"

Fact(h, target, error) ==
  [target |-> target, counted |-> FALSE, total |-> 0, ready |-> 0, dest |-> handler[h].dest,
   path |-> FALSE, error |-> error]

\* What _ack is called with at each recording step.
Payload(h) ==
  CASE handler[h].pc = "received"    -> Fact(h, "received", "none")
    [] handler[h].pc = "empty"       -> Fact(h, "failed", "no-message")
    [] handler[h].pc = "raw"         -> [Fact(h, "raw_written", "none") EXCEPT
                                           !.counted = TRUE, !.total = event.files, !.path = TRUE]
    [] handler[h].pc = "pending"     -> [Fact(h, "attachment_pending", "none") EXCEPT
                                           !.counted = TRUE, !.total = event.files]
    [] handler[h].pc = "unconfirmed" -> Fact(h, "partial", "unconfirmed")
    [] handler[h].pc = "screened"    -> Fact(h, IF handler[h].wrote THEN "partial" ELSE "refused",
                                             "screened")
    [] handler[h].pc = "unrevised"   -> Fact(h, "partial", "revision")
    [] handler[h].pc = "final"       -> [Fact(h, FinalState(h), handler[h].error) EXCEPT
                                           !.counted = TRUE, !.total = event.files,
                                           !.ready = handler[h].ready, !.path = TRUE]

AfterAck(h) ==
  CASE handler[h].pc = "received" -> [handler[h] EXCEPT !.pc = "stage"]
    [] handler[h].pc = "raw"      -> [handler[h] EXCEPT !.pc = IF event.files > 0
                                                               THEN "docs" ELSE AfterFiles]
    [] handler[h].pc = "pending"  -> [handler[h] EXCEPT !.pc = "confirm"]
    [] OTHER                      -> Absent

\* _ack swallows every failure: the run goes on.
Ack(h) ==
  /\ handler[h].pc \in AckSteps /\ drain.by # h
  /\ advance(h, Payload(h))
  /\ GoTo(h, AfterAck(h))
  /\ UNCHANGED <<World, recon, deliveries>>

\* An exception or the end of the process, anywhere outside a drain.
Abort(h) ==
  /\ handler[h].pc # "idle" /\ drain.by # h
  /\ GoTo(h, Absent)
  /\ UNCHANGED <<World, status, outbox, drain, recon, deliveries, faults, owed>>

(***************************************************************************)
(* Conversion ends later, and the row is counted again.                    *)
(***************************************************************************)

\* A queued conversion is published only beside a raw line of the file.
Convert(a) ==
  /\ raw[a] # "none"
  /\ searchable[a] < event.files
  /\ searchable' = [searchable EXCEPT ![a] = @ + 1]
  /\ UNCHANGED <<event, raw, kept, revised, status, outbox, drain, handler, recon, deliveries,
                 faults, owed>>

\* A slip: whatever the documents say, the row counts as done.
RecountsOptimistically(a, total) == {[ready |-> total, error |-> "none"]}

\* _recount: documents beyond the recorded total are not looked at, missing ones are
\* pending, and an original that may be gone wins over everything.
Recounts(a, total) ==
  LET found == IF searchable[a] <= total THEN searchable[a] ELSE total
  IN IF kept[a]
     THEN {[ready |-> found, error |-> IF found = total THEN "none" ELSE "pending"]}
     ELSE {[ready |-> 0, error |-> "lost"]} \cup
          {[ready |-> 0, error |-> e] : e \in IF found = 0 THEN {"pending"} ELSE {}}

\* plan for one row, by refresh_one after a conversion or by a whole run.
Recount(r) ==
  /\ recon[r].pc = "idle" /\ drain.by # r
  /\ status.state \in {"raw_written", "attachment_pending", "partial"}
  /\ status.total > 0
  /\ status.error # "lost"
  /\ \E outcome \in Recounts(status.dest, status.total) :
       /\ \/ outcome.ready # status.ready
          \/ outcome.error # status.error
          \/ status.state # IF outcome.error = "none" THEN "ready" ELSE "partial"
       /\ recon' = [recon EXCEPT ![r] = [pc |-> "decided", total |-> status.total,
                                         ready |-> outcome.ready, dest |-> status.dest,
                                         error |-> outcome.error]]
  /\ UNCHANGED <<World, status, outbox, drain, handler, deliveries, faults, owed>>

\* _push: the change meets whatever the row has become.
Push(r) ==
  /\ recon[r].pc = "decided" /\ drain.by # r
  /\ advance(r, [target |-> IF recon[r].error = "none" THEN "ready" ELSE "partial",
                 counted |-> TRUE, total |-> recon[r].total, ready |-> recon[r].ready,
                 dest |-> recon[r].dest, path |-> FALSE, error |-> recon[r].error])
  /\ recon' = [recon EXCEPT ![r] = NoChange]
  /\ UNCHANGED <<World, handler, deliveries>>

HandlerStep(h) ==
  Deliver(h) \/ Stage(h) \/ Ingest(h) \/ WriteDocs(h) \/ Confirm(h) \/ Revise(h) \/ Ack(h)
    \/ Abort(h)

Next ==
  \/ \E h \in Handlers : HandlerStep(h)
  \/ \E r \in Reconcilers : Recount(r) \/ Push(r)
  \/ \E a \in Archives : Convert(a)
  \/ StartDrain \/ DrainLine \/ DrainEnds \/ DrainDies

Spec == Init /\ [][Next]_vars

(***************************************************************************)
(* Properties.                                                             *)
(***************************************************************************)

\* ingest_ack.is_searchable: a row that says ready is about an archive that has the
\* message and every one of its attachments in searchable form, however many deliveries,
\* replays and re-counts met on the row.
ReadyMeansSearchable ==
  status.state = "ready" =>
    /\ raw[status.dest] # "none"
    /\ searchable[status.dest] = event.files

\* drain_outbox: only lines that were accepted are taken out.  Every fact that was spooled
\* and not accepted since is in the file, also when a drain is cut off half way.
OutboxHoldsWhatIsOwed == owed \subseteq Range(outbox)

\* drain_outbox, "pushing twice is the same as once": a line of the outbox pushed again
\* right after it was accepted changes nothing.
ReplayChangesNothing ==
  \A p \in Range(outbox) : write(write(status, p), p) = write(status, p)

\* archiving_state.py: the row only moves forward, ends are final, and searchable in the
\* operational archive is never taken back.
PromiseKept == Promise!Spec

\* archiving_bot.py, ingest_message: ready comes only after the attachments were confirmed,
\* refusals judged and the revision recorded.
ReadyPassedEveryCheck ==
  status.state = "ready" => ~Refused /\ (event.text => revised)

\* archiving_schema.sql: a refused message was stopped by screening and its body is nowhere.
RefusedIsNowhere ==
  status.state = "refused" => \A a \in Archives : raw[a] = "none"
=============================================================================
