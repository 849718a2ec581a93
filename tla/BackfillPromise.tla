--------------------------- MODULE BackfillPromise ---------------------------
(***************************************************************************)
(* What the backfill promises to whoever reads its jobs, the cursors and   *)
(* the archive (archive_backfill_job, archive_channel_cursor), without its *)
(* processes, lock, reads and retries.  Jobs are begun in the order they   *)
(* were asked for, each once, and an end is an end.  A job's debt, what    *)
(* was posted in its scope when it began, is settled once; it may end as   *)
(* succeeded only when that is dealt with, and the cursor of a channel     *)
(* follows only what a job that was begun has dealt with there.  Backfill  *)
(* implements it.                                                          *)
(***************************************************************************)
EXTENDS Naturals

CONSTANTS JobIds, Channels, Messages, ChannelOf

VARIABLES
  state,     \* how far each job got
  owed,      \* what each job has to deal with
  handled,   \* the messages that are in the archive or were refused
  cursor     \* up to where each channel was read

Verdicts == {"succeeded", "partial", "failed"}

Init ==
  /\ state = [j \in JobIds |-> "absent"] /\ owed = [j \in JobIds |-> {}]
  /\ handled = {}
  /\ cursor = [c \in Channels |-> 0]

\* The least of those in this state: ids are given, and jobs begun, in order.
IsNext(j, s) == state[j] = s /\ \A k \in JobIds : state[k] = s => j <= k
Becomes(j, s) == state' = [state EXCEPT ![j] = s] /\ UNCHANGED <<owed, handled, cursor>>

Request(j) == IsNext(j, "absent") /\ Becomes(j, "queued")
Withdraw(j) == state[j] = "queued" /\ Becomes(j, "cancelled")
Begin(j) == IsNext(j, "queued") /\ Becomes(j, "running")

\* A process that was taken for dead may still look, after its job was closed as failed.
WasBegun(j) == state[j] \in {"running", "failed"}
Survey(j) ==
  /\ WasBegun(j) /\ owed[j] = {}
  /\ \E found \in SUBSET Messages : owed' = [owed EXCEPT ![j] = found]
  /\ UNCHANGED <<state, handled, cursor>>

Archive ==
  /\ handled \subseteq handled' /\ handled' \subseteq Messages
  /\ UNCHANGED <<state, owed, cursor>>

Advance(c, j) ==
  /\ WasBegun(j)
  /\ \E to \in Messages :
       /\ to > cursor[c] /\ cursor' = [cursor EXCEPT ![c] = to]
       /\ \A m \in owed[j] : ChannelOf[m] = c /\ m <= to => m \in handled
  /\ UNCHANGED <<state, owed, handled>>

Close(j, verdict) ==
  /\ state[j] = "running"
  /\ verdict = "succeeded" => owed[j] \subseteq handled
  /\ Becomes(j, verdict)

\* A process that starts closes what was running before it.
Interrupt ==
  /\ state' = [j \in JobIds |-> IF state[j] = "running" THEN "failed" ELSE state[j]]
  /\ UNCHANGED <<owed, handled, cursor>>

Next ==
  \/ \E j \in JobIds :
       \/ Request(j) \/ Withdraw(j) \/ Begin(j) \/ Survey(j)
       \/ \E c \in Channels : Advance(c, j)
       \/ \E verdict \in Verdicts : Close(j, verdict)
  \/ Archive
  \/ Interrupt

Spec == Init /\ [][Next]_<<state, owed, handled, cursor>>
=============================================================================
