------------------------------- MODULE Backfill -------------------------------
(***************************************************************************)
(* The backfill of history: a console puts a job into the table            *)
(* (supervisor_admin.py), and the archiving bot that holds the workspace's *)
(* lock takes the jobs one after the other (backfill_runner.py), reads     *)
(* each channel's history and then the replies of its threads, hands every *)
(* message to the same ingest as the live ones, moves the channel's cursor *)
(* and closes the job (archive/backfill.py).  Meanwhile people post, the   *)
(* live collection stores, channels are opened and closed.                 *)
(*                                                                         *)
(* A message is its Slack timestamp, 1 .. LastTs, and all channels share   *)
(* the clock.  Faults are counted up to MaxUpsets: a process dies, the     *)
(* lock's session breaks while its holder works on, the database fails.    *)
(***************************************************************************)
EXTENDS Naturals, FiniteSets

CONSTANTS
  Archivers,        \* processes of the archiving bot of one workspace
  NoArchiver,
  Consoles,         \* requests under way at once
  JobIds,           \* ids of archive_backfill_job, in the order of their creation
  Channels,
  Everywhere,       \* channel_id "": every channel of the workspace
  Before,           \* messages posted before the bot came to the workspace
  LastTs,           \* bound: messages ever posted
  ChannelOf,        \* the channel of each message
  ParentOf,         \* the parent of each reply, 0 for a message of its own
  Lookback,         \* PARENT_LOOKBACK_SECONDS
  Scopes,           \* channel, from and to of the requests; 0 is an empty from or to
  MaxUpsets         \* bound

Messages == 1 .. LastTs

ASSUME BackfillAssumption ==
  /\ NoArchiver \notin Archivers
  /\ JobIds \subseteq Nat \ {0}
  /\ Everywhere \notin Channels
  /\ LastTs \in Nat /\ Before \in 0 .. LastTs /\ Lookback \in Nat \ {0} /\ MaxUpsets \in Nat
  /\ ChannelOf \in [Messages -> Channels]
  /\ ParentOf \in [Messages -> 0 .. LastTs]
  /\ \A m \in Messages : ParentOf[m] # 0 =>
       /\ ParentOf[m] < m /\ ParentOf[ParentOf[m]] = 0
       /\ ChannelOf[ParentOf[m]] = ChannelOf[m]
  /\ Scopes \subseteq [channel : Channels \cup {Everywhere}, from : 0 .. LastTs, to : 0 .. LastTs]

VARIABLES
  ticket,       \* the rows of archive_backfill_job
  desk,         \* the requests a console has checked and not yet inserted
  archiver,     \* each process's step and what it holds of its job
  lock,         \* the holder of the workspace's instance lock, as the database knows it
  posted,       \* the newest message's timestamp
  stored,       \* messages in the archive
  refused,      \* messages an ingest refused: screened, or of a channel it found closed
  cursor,       \* archive_channel_cursor.last_history_ts
  collectible,  \* channels that may be collected
  upsets,       \* faults and switches so far
  owed,         \* history: what a job found posted in its scope when it chose its channels
  abandoned,    \* history: jobs whose end the database took neither time
  lockLost      \* history: did a session break under a working process?

backfillVars == <<ticket, desk, archiver, lock, posted, stored, refused, cursor, collectible,
                  upsets, owed, abandoned, lockLost>>

Ended == {"succeeded", "partial", "failed", "cancelled"}
Orders == [channel : Channels \cup {Everywhere}, from : 0 .. LastTs, to : 0 .. LastTs,
           dry : BOOLEAN]
BackfillRows == [state : Ended \cup {"absent", "queued", "running"}, order : Orders]
ArchiverSteps ==
  [pc : {"down", "starting", "idle", "claimed", "listing", "scanned", "writing", "closing",
         "erring"},
   job : JobIds \cup {0}, left : SUBSET Channels, at : Channels \cup {Everywhere},
   known : {"unasked", "open", "closed"}, threads : SUBSET Messages,
   found : SUBSET Messages, highest : 0 .. LastTs, trouble : BOOLEAN,
   written : BOOLEAN, failed : BOOLEAN, exhausted : BOOLEAN,
   verdict : {"succeeded", "partial", "failed"}]

NoOrder == [channel |-> Everywhere, from |-> 0, to |-> 0, dry |-> TRUE]
Idle == [pc |-> "idle", job |-> 0, left |-> {}, at |-> Everywhere, known |-> "unasked",
         threads |-> {}, found |-> {}, highest |-> 0, trouble |-> FALSE, written |-> FALSE,
         failed |-> FALSE, exhausted |-> TRUE, verdict |-> "failed"]
Down == [Idle EXCEPT !.pc = "down"]

BackfillTypeOK ==
  /\ ticket \in [JobIds -> BackfillRows]
  /\ desk \in [Consoles -> SUBSET Orders]
  /\ archiver \in [Archivers -> ArchiverSteps]
  /\ lock \in Archivers \cup {NoArchiver}
  /\ posted \in 0 .. LastTs
  /\ stored \subseteq Messages /\ refused \subseteq Messages
  /\ cursor \in [Channels -> 0 .. LastTs]
  /\ collectible \subseteq Channels
  /\ upsets \in 0 .. MaxUpsets
  /\ owed \in [JobIds -> SUBSET Messages]
  /\ abandoned \subseteq JobIds
  /\ lockLost \in BOOLEAN

BackfillInit ==
  /\ ticket = [j \in JobIds |-> [state |-> "absent", order |-> NoOrder]]
  /\ desk = [c \in Consoles |-> {}]
  /\ archiver = [a \in Archivers |-> Down]
  /\ lock = NoArchiver
  /\ posted = Before /\ stored = {} /\ refused = {}
  /\ cursor = [c \in Channels |-> 0]
  /\ collectible = Channels
  /\ upsets = 0
  /\ owed = [j \in JobIds |-> {}] /\ abandoned = {} /\ lockLost = FALSE

(***************************************************************************)
(* The console.  A request is checked against the jobs of one moment and   *)
(* inserted at a later one: its transaction is READ COMMITTED.             *)
(***************************************************************************)
In(state) == {j \in JobIds : ticket[j].state = state}

RequestAllowed(order) ==
  /\ \A j \in In("queued") \cup In("running") :
       order.channel # Everywhere /\ ticket[j].order.channel \notin {Everywhere, order.channel}
  /\ order.dry \/ \E j \in In("succeeded") \cup In("partial") :
                     ticket[j].order = [order EXCEPT !.dry = TRUE]

\* Bound: an id is left for each request under way.
IdIsLeft == Cardinality({c \in Consoles : desk[c] # {}}) < Cardinality(In("absent"))

request_backfill(c, order) ==
  /\ desk[c] = {} /\ RequestAllowed(order) /\ IdIsLeft
  /\ desk' = [desk EXCEPT ![c] = {order}]
  /\ UNCHANGED <<ticket, archiver, lock, posted, stored, refused, cursor, collectible, upsets,
                 owed, abandoned, lockLost>>

create_job(c, j) ==
  /\ ticket[j].state = "absent" /\ \A k \in In("absent") : j <= k
  /\ \E order \in desk[c] : ticket' = [ticket EXCEPT ![j] = [state |-> "queued", order |-> order]]
  /\ desk' = [desk EXCEPT ![c] = {}]
  /\ UNCHANGED <<archiver, lock, posted, stored, refused, cursor, collectible, upsets, owed,
                 abandoned, lockLost>>

cancel_backfill(j) ==
  /\ ticket[j].state = "queued"
  /\ ticket' = [ticket EXCEPT ![j].state = "cancelled"]
  /\ UNCHANGED <<desk, archiver, lock, posted, stored, refused, cursor, collectible, upsets,
                 owed, abandoned, lockLost>>

(***************************************************************************)
(* Everything around a job.                                                *)
(***************************************************************************)
\* The live collection of a process that is up stores a new message of a channel it may
\* collect, or misses it.
Post ==
  /\ posted < LastTs /\ posted' = posted + 1
  /\ \/ stored' = stored
     \/ /\ ChannelOf[posted + 1] \in collectible
        /\ \E a \in Archivers : archiver[a].pc \notin {"down", "starting"}
        /\ stored' = stored \cup {posted + 1}
  /\ UNCHANGED <<ticket, desk, archiver, lock, refused, cursor, collectible, upsets, owed,
                 abandoned, lockLost>>

\* Faults, and the switches people make, are counted together.
Upset == upsets < MaxUpsets /\ upsets' = upsets + 1

SwitchChannel(c) ==
  /\ Upset
  /\ collectible' = IF c \in collectible THEN collectible \ {c} ELSE collectible \cup {c}
  /\ UNCHANGED <<ticket, desk, archiver, lock, posted, stored, refused, cursor, owed,
                 abandoned, lockLost>>

(***************************************************************************)
(* A ticket's scope, and what a read of Slack finds in it.                    *)
(***************************************************************************)
_in_range(m, order) ==
  /\ order.from # 0 => order.from <= m
  /\ order.to # 0 => m <= order.to

parent_scan_oldest(order) == IF order.from > Lookback THEN order.from - Lookback ELSE 0

\* conversations.history without inclusive=True: Slack leaves out a message at either bound.
HistoryWindow(c, order) ==
  {m \in 1 .. posted : /\ ChannelOf[m] = c /\ ParentOf[m] = 0
                       /\ parent_scan_oldest(order) < m
                       /\ order.to # 0 => m < order.to}

\* conversations.replies, which is asked for no range.
RepliesTo(threads) == {m \in 1 .. posted : ParentOf[m] \in threads}

\* What the reads of a job can reach.  _in_range counts a post that stands exactly at the end
\* of the scope, and the history leaves it out; a reply there is reached.  A thread is reached
\* if its parent is younger than the history the job looks back on.
InReach(m, order) ==
  IF ParentOf[m] = 0 THEN order.to # 0 => m < order.to
                     ELSE parent_scan_oldest(order) < ParentOf[m]

\* What a job has to deal with, by its order alone: what was posted in its scope and in reach.
Owed(targets, order) ==
  {m \in 1 .. posted : ChannelOf[m] \in targets /\ _in_range(m, order) /\ InReach(m, order)}

ScopeOf(order) ==
  IF order.channel = Everywhere THEN Channels ELSE Channels \cap {order.channel}

finish_state(a) ==
  IF a.failed /\ ~a.written THEN "failed"
  ELSE IF a.failed \/ ~a.exhausted THEN "partial"
  ELSE "succeeded"

\* dry-run: some channels are read, the others refuse.
preview_state(targets, denied) ==
  IF denied = {} THEN "succeeded" ELSE IF denied = targets THEN "failed" ELSE "partial"

\* A slip: the cursor follows what was written, whatever failed after it.
AdvanceAnyway(old, a) == IF a.highest > old THEN a.highest ELSE old
advance_cursor(old, a) == IF a.highest > old /\ ~a.trouble THEN a.highest ELSE old

(***************************************************************************)
(* One archiver.                                                           *)
(***************************************************************************)
Does(a, pcs) == archiver[a].pc \in pcs
Turns(a, s) == archiver' = [archiver EXCEPT ![a] = s]
OrderOf(a) == ticket[archiver[a].job].order

\* A slip: a process starts whether or not it got the lock.
AcquireAnyway(a) ==
  /\ Does(a, {"down"})
  /\ lock' = a
  /\ Turns(a, [Idle EXCEPT !.pc = "starting"])
  /\ UNCHANGED <<ticket, desk, posted, stored, refused, cursor, collectible, upsets, owed,
                 abandoned, lockLost>>

Acquire(a) ==
  /\ Does(a, {"down"}) /\ lock = NoArchiver
  /\ lock' = a
  /\ Turns(a, [Idle EXCEPT !.pc = "starting"])
  /\ UNCHANGED <<ticket, desk, posted, stored, refused, cursor, collectible, upsets, owed,
                 abandoned, lockLost>>

\* A slip: a restart closes the jobs that wait, not the one that was cut off.
FailsQueued(row) == IF row.state = "queued" THEN [row EXCEPT !.state = "failed"] ELSE row
fail_interrupted(row) == IF row.state = "running" THEN [row EXCEPT !.state = "failed"] ELSE row

recover_interrupted(a) ==
  /\ Does(a, {"starting"})
  /\ ticket' = [j \in JobIds |-> fail_interrupted(ticket[j])]
  /\ Turns(a, Idle)
  /\ UNCHANGED <<desk, lock, posted, stored, refused, cursor, collectible, upsets, owed,
                 abandoned, lockLost>>

claim_backfill(a, j) ==
  /\ Does(a, {"idle"}) /\ ticket[j].state = "queued" /\ \A k \in In("queued") : j <= k
  /\ ticket' = [ticket EXCEPT ![j].state = "running"]
  /\ Turns(a, [Idle EXCEPT !.pc = "claimed", !.job = j])
  /\ UNCHANGED <<desk, lock, posted, stored, refused, cursor, collectible, upsets, owed,
                 abandoned, lockLost>>

_targets(a) ==
  LET targets == ScopeOf(OrderOf(a)) \cap collectible
  IN /\ Does(a, {"claimed"})
     /\ Turns(a, [archiver[a] EXCEPT !.pc = IF targets = {} THEN "closing" ELSE "listing",
                                     !.left = targets, !.verdict = "failed"])
     /\ owed' = [owed EXCEPT
          ![archiver[a].job] = IF OrderOf(a).dry THEN {} ELSE Owed(targets, OrderOf(a))]
     /\ UNCHANGED <<ticket, desk, lock, posted, stored, refused, cursor, collectible, upsets,
                    abandoned, lockLost>>

plan(a, denied) ==
  /\ Does(a, {"listing"}) /\ OrderOf(a).dry /\ denied \subseteq archiver[a].left
  /\ Turns(a, [archiver[a] EXCEPT
       !.pc = "closing", !.left = {},
       !.verdict = preview_state(archiver[a].left, denied)])
  /\ UNCHANGED <<ticket, desk, lock, posted, stored, refused, cursor, collectible, upsets, owed,
                 abandoned, lockLost>>

ReadHistory(a, c) ==
  LET window == HistoryWindow(c, OrderOf(a))
  IN /\ Does(a, {"listing"}) /\ ~OrderOf(a).dry /\ c \in archiver[a].left
     /\ Turns(a, [archiver[a] EXCEPT
          !.pc = "scanned", !.at = c, !.known = "unasked",
          !.threads = {m \in window : RepliesTo({m}) # {}},
          !.found = {m \in window : _in_range(m, OrderOf(a))},
          !.highest = 0, !.trouble = FALSE])
     /\ UNCHANGED <<ticket, desk, lock, posted, stored, refused, cursor, collectible, upsets,
                    owed, abandoned, lockLost>>

ReadReplies(a) ==
  /\ Does(a, {"scanned"})
  /\ Turns(a, [archiver[a] EXCEPT
       !.pc = "writing", !.threads = {},
       !.found = @ \cup {m \in RepliesTo(archiver[a].threads) : _in_range(m, OrderOf(a))}])
  /\ UNCHANGED <<ticket, desk, lock, posted, stored, refused, cursor, collectible, upsets, owed,
                 abandoned, lockLost>>

\* SlackDenied, by the history or by a thread's replies: nothing of the channel is written.
ChannelDenied(a, c) ==
  /\ \/ Does(a, {"listing"}) /\ ~OrderOf(a).dry /\ c \in archiver[a].left
     \/ Does(a, {"scanned"}) /\ c = archiver[a].at
  /\ Turns(a, [archiver[a] EXCEPT
       !.pc = "listing", !.left = @ \ {c}, !.found = {}, !.threads = {},
       !.failed = TRUE, !.exhausted = FALSE])
  /\ UNCHANGED <<ticket, desk, lock, posted, stored, refused, cursor, collectible, upsets, owed,
                 abandoned, lockLost>>

\* A channel is looked up at its first message and the answer kept for the job.
Known(a) ==
  IF archiver[a].known # "unasked" THEN archiver[a].known
  ELSE IF archiver[a].at \in collectible THEN "open" ELSE "closed"

\* What one ingest answers, and what it leaves in the archive.
Outcomes(a, m) ==
  IF Known(a) = "closed" THEN {"refused", "raised"}
  ELSE IF m \in stored THEN {"duplicate", "partial", "raised"}
  ELSE {"written", "refused", "partial", "raised"}

\* A slip: a message of which only a part was written counts as written.
MarksPartialWritten(s, m, answer) ==
  CASE answer \in {"written", "partial"} -> [s EXCEPT !.found = @ \ {m}, !.written = TRUE, !.highest = m]
    [] answer \in {"duplicate", "refused"} -> [s EXCEPT !.found = @ \ {m}, !.highest = m]
    [] answer = "raised" -> [s EXCEPT !.found = {}, !.failed = TRUE, !.exhausted = FALSE, !.trouble = TRUE]

\* After an answer that is neither kept nor refused the loop goes on only past "partial".
Accounts(s, m, answer) ==
  CASE answer = "written" -> [s EXCEPT !.found = @ \ {m}, !.written = TRUE, !.highest = m]
    [] answer \in {"duplicate", "refused"} -> [s EXCEPT !.found = @ \ {m}, !.highest = m]
    [] answer = "partial" ->
         [s EXCEPT !.found = @ \ {m}, !.failed = TRUE, !.exhausted = FALSE, !.trouble = TRUE]
    [] answer = "raised" ->
         [s EXCEPT !.found = {}, !.failed = TRUE, !.exhausted = FALSE, !.trouble = TRUE]

ingest(a, m) ==
  /\ Does(a, {"writing"}) /\ m \in archiver[a].found /\ \A n \in archiver[a].found : m <= n
  /\ \E answer \in Outcomes(a, m) :
       /\ Turns(a, [Accounts(archiver[a], m, answer) EXCEPT !.known = Known(a)])
       /\ \/ answer \in {"written", "partial", "raised"} /\ Known(a) = "open"
             /\ stored' = stored \cup {m}
          \/ answer # "written" /\ stored' = stored
       /\ refused' = IF answer = "refused" THEN refused \cup {m} ELSE refused
  /\ UNCHANGED <<ticket, desk, lock, posted, cursor, collectible, upsets, owed, abandoned,
                 lockLost>>

save_cursor(a) ==
  /\ Does(a, {"writing"}) /\ archiver[a].found = {}
  /\ cursor' = [cursor EXCEPT ![archiver[a].at] = advance_cursor(@, archiver[a])]
  /\ Turns(a, [archiver[a] EXCEPT !.pc = "listing", !.left = @ \ {archiver[a].at}])
  /\ UNCHANGED <<ticket, desk, lock, posted, stored, refused, collectible, upsets, owed,
                 abandoned, lockLost>>

run_targets(a) ==
  /\ Does(a, {"listing"}) /\ ~OrderOf(a).dry /\ archiver[a].left = {}
  /\ Turns(a, [archiver[a] EXCEPT !.pc = "closing",
                                  !.verdict = finish_state(archiver[a])])
  /\ UNCHANGED <<ticket, desk, lock, posted, stored, refused, cursor, collectible, upsets, owed,
                 abandoned, lockLost>>

\* A slip: a job is closed by its id alone.
ClosedById(row, verdict) == [row EXCEPT !.state = verdict]
\* A row that is no longer running raises, and so does the handler's second attempt.
finish_backfill(row, verdict) ==
  IF row.state = "running" THEN [row EXCEPT !.state = verdict] ELSE row

Finish(a) ==
  /\ Does(a, {"closing", "erring"})
  /\ ticket' = [ticket EXCEPT ![archiver[a].job] = finish_backfill(@, archiver[a].verdict)]
  /\ Turns(a, Idle)
  /\ UNCHANGED <<desk, lock, posted, stored, refused, cursor, collectible, upsets, owed,
                 abandoned, lockLost>>

(***************************************************************************)
(* Faults.                                                                 *)
(***************************************************************************)
\* The database fails under the channel list, a cursor or the ticket's end: the handler of
\* run_once closes the job as failed.
DatabaseFails(a) ==
  /\ Upset
  /\ \/ Does(a, {"claimed", "closing"})
     \/ Does(a, {"writing"}) /\ archiver[a].found = {}
  /\ Turns(a, [archiver[a] EXCEPT !.pc = "erring", !.verdict = "failed"])
  /\ UNCHANGED <<ticket, desk, lock, posted, stored, refused, cursor, collectible, owed,
                 abandoned, lockLost>>

\* The same outage meets the handler: the loop logs and goes on to the next job.
HandlerFails(a) ==
  /\ Does(a, {"erring"})
  /\ Turns(a, Idle)
  /\ abandoned' = abandoned \cup {archiver[a].job}
  /\ UNCHANGED <<ticket, desk, lock, posted, stored, refused, cursor, collectible, upsets, owed,
                 lockLost>>

Die(a) ==
  /\ Upset /\ ~Does(a, {"down"})
  /\ Turns(a, Down)
  /\ lock' = IF lock = a THEN NoArchiver ELSE lock
  /\ UNCHANGED <<ticket, desk, posted, stored, refused, cursor, collectible, owed, abandoned,
                 lockLost>>

LoseLock ==
  /\ Upset /\ lock # NoArchiver
  /\ lock' = NoArchiver /\ lockLost' = TRUE
  /\ UNCHANGED <<ticket, desk, archiver, posted, stored, refused, cursor, collectible, owed,
                 abandoned>>

(***************************************************************************)
(* Specification.                                                          *)
(***************************************************************************)
Works(a) ==
  \/ Acquire(a) \/ recover_interrupted(a)
  \/ \E j \in JobIds : claim_backfill(a, j)
  \/ _targets(a)
  \/ \E denied \in SUBSET Channels : plan(a, denied)
  \/ \E c \in Channels : ReadHistory(a, c) \/ ChannelDenied(a, c)
  \/ ReadReplies(a)
  \/ \E m \in Messages : ingest(a, m)
  \/ save_cursor(a) \/ run_targets(a) \/ Finish(a)

Stumbles(a) == DatabaseFails(a) \/ HandlerFails(a) \/ Die(a)

BackfillNext ==
  \/ \E c \in Consoles, scope \in Scopes, dry \in BOOLEAN :
       request_backfill(c, [channel |-> scope.channel, from |-> scope.from,
                            to |-> scope.to, dry |-> dry])
  \/ \E c \in Consoles, j \in JobIds : create_job(c, j)
  \/ \E j \in JobIds : cancel_backfill(j)
  \/ Post
  \/ \E c \in Channels : SwitchChannel(c)
  \/ \E a \in Archivers : Works(a) \/ Stumbles(a)
  \/ LoseLock

\* A process that can take a step takes it: a supervisor starts it again, and its loop polls.
BackfillFairness == \A a \in Archivers : WF_backfillVars(Works(a))

BackfillSpec == BackfillInit /\ [][BackfillNext]_backfillVars /\ BackfillFairness

(***************************************************************************)
(* Properties.                                                             *)
(***************************************************************************)
Handled == stored \cup refused

\* A real job that is closed as succeeded left nothing of what it owed behind: all of it is in
\* the archive or was refused, whatever was posted, stored or closed between its reads, and
\* whichever answers single ingests gave.  What it owes is in its scope and in reach: a post at
\* the very end of the scope is not, nor a reply to a parent before the lookback.
SucceededMeansComplete ==
  \A j \in JobIds : ticket[j].state = "succeeded" /\ ~ticket[j].order.dry => owed[j] \subseteq Handled

\* A cursor never goes back, and it moves past nothing the moving job owed and did not handle:
\* a gap behind the cursor is a gap nobody looks at again.
CursorPassesOnlyHandled ==
  [][\A c \in Channels : cursor'[c] # cursor[c] =>
       /\ cursor'[c] > cursor[c]
       /\ \E a \in Archivers : /\ archiver[a].at = c /\ archiver[a].job # 0
                               /\ \A m \in owed[archiver[a].job] :
                                    ChannelOf[m] = c /\ m <= cursor'[c] => m \in Handled]_backfillVars

\* What a job ended as is what people read, so it never changes: not by a process that lost
\* its lock and ends a job its successor closed as interrupted, nor by a late cancellation.
FinishedIsFinal ==
  [][\A j \in JobIds : ticket[j].state \in Ended => ticket'[j] = ticket[j]]_backfillVars

\* As long as no session broke, a row that says running is the job of the process that holds
\* the lock, waits to be closed by the next process to start, or is one whose end the database
\* refused twice.
RunningIsRun ==
  ~lockLost => \A j \in In("running") :
    \/ j \in abandoned
    \/ \A a \in Archivers : Does(a, {"down", "starting"})
    \/ \E a \in Archivers : lock = a /\ archiver[a].job = j

\* Jobs, cursors and archive keep BackfillPromise, though several processes work on them, one
\* of which may have lost the lock without noticing: begun in order and once, closed once, as
\* succeeded and past a cursor only what was dealt with.
JobPromise ==
  INSTANCE BackfillPromise WITH state <- [j \in JobIds |-> ticket[j].state], handled <- Handled
JobPromiseKept == JobPromise!Spec

\* Every job that is put into the queue ends, or is one whose end the database refused twice.
EveryRequestEnds ==
  \A j \in JobIds : []<>(ticket[j].state \notin {"queued", "running"} \/ j \in abandoned)
=============================================================================
