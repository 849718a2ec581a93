----------------------------- MODULE AckPromise ------------------------------
(***************************************************************************)
(* What the ingest state of one message promises to whoever reads it       *)
(* (archive_ingest_state, archiving_state.py): it only moves forward, an   *)
(* end is an end, and a message once called searchable in the operational  *)
(* archive stays so.  IngestAck implements it through retries, an outbox   *)
(* and concurrent deliveries.                                              *)
(***************************************************************************)
VARIABLES
  state,   \* how far the message got; "none" before anybody recorded it
  dest     \* the archive the record speaks of

IngestStates == {"received", "raw_written", "attachment_pending", "ready", "partial",
                 "refused", "failed"}
Ends == {"ready", "refused", "failed"}
Archives == {"shadow", "live"}

INGEST_EDGES ==
  [received           |-> {"raw_written", "refused", "failed"},
   raw_written        |-> {"attachment_pending", "ready", "partial", "failed"},
   attachment_pending |-> {"ready", "partial", "failed"},
   partial            |-> {"ready", "failed"},
   ready              |-> {},
   refused            |-> {},
   failed             |-> {}]

Init == state = "none" /\ dest = "nowhere"

\* The first record may be any: the ones before it can be lost or late.
FirstRecord ==
  /\ state = "none"
  /\ state' \in IngestStates
  /\ dest' \in Archives

Forward ==
  /\ state # "none"
  /\ state' \in INGEST_EDGES[state]
  /\ dest' \in Archives

\* A message on its way may come through the other archive.
Redirect ==
  /\ state \notin Ends \cup {"none"}
  /\ dest' \in Archives
  /\ UNCHANGED state

\* Searchable in the shadow archive, then in the operational one; never the reverse.
Publish ==
  /\ state = "ready"
  /\ dest = "shadow" /\ dest' = "live"
  /\ UNCHANGED state

Next == FirstRecord \/ Forward \/ Redirect \/ Publish

Spec == Init /\ [][Next]_<<state, dest>>
=============================================================================
