--------------------------- MODULE IngestAckProofs ---------------------------
(***************************************************************************)
(* Theorems of IngestAck for any number of handlers, reconcilers, files,   *)
(* deliveries, faults and outbox lines.                                    *)
(*                                                                         *)
(* The argument is about facts.  A fact that says ready was true of its    *)
(* archive when it was made, and the archive only grows, so it is true     *)
(* whenever it reaches the row: late, twice, or out of order.  The other   *)
(* ends carry a reason of their own and no counts.  Hence a second fact of *)
(* the same end never says more than the row, and the row of an end can    *)
(* change in one way only, from the shadow archive to the live one.        *)
(***************************************************************************)
EXTENDS IngestAck, TLAPS

\* What stays true of a fact wherever it waits.
FactHolds(p) ==
  /\ p.counted => p.total = event.files
  /\ p.target = "ready" =>
       /\ p.counted /\ p.ready = event.files /\ p.error = "none"
       /\ raw[p.dest] # "none" /\ searchable[p.dest] = event.files
  /\ p.target = "refused" => ~p.counted /\ p.error = "screened"
  /\ p.target = "failed" => ~p.counted /\ p.error = "no-message"

RowHolds(st) ==
  /\ st.ready <= st.total
  /\ st.total \in {0, event.files}
  /\ st.state # "none" => st.dest \in Archives
  /\ st.state = "ready" =>
       /\ st.total = event.files /\ st.ready = event.files /\ st.error = "none"
       /\ raw[st.dest] # "none" /\ searchable[st.dest] = event.files
  /\ st.state = "refused" => st.error = "screened"
  /\ st.state = "failed" => st.error = "no-message"

ArchiveHolds ==
  \A a \in Archives : /\ searchable[a] <= event.files
                      /\ searchable[a] > 0 => raw[a] # "none"

\* What a handler at step s knows.
Knows(s) ==
  /\ s.ready <= searchable[s.dest]
  /\ s.pc \in {"received", "empty", "stage", "ingest", "raw"} => s.ready = 0 /\ s.error = "none"
  /\ s.pc \in {"raw", "docs", "revise", "final"} => raw[s.dest] # "none"
  /\ s.pc \in {"pending", "confirm"} /\ ~Refused => raw[s.dest] # "none"
  /\ s.pc \in {"revise", "final"} /\ s.error = "none" => s.ready = event.files

\* What a reconciler that decided on the change c knows.
DecisionHolds(c) ==
  c.pc = "decided" =>
    /\ c.total = event.files
    /\ c.error = "none" =>
         /\ c.ready = event.files
         /\ raw[c.dest] # "none" /\ searchable[c.dest] = event.files

\* The drain and the outbox: nothing that is owed falls between them.
DrainHolds ==
  /\ owed \subseteq Range(outbox)
  /\ drain.by = "nobody" => drain.todo = <<>> /\ drain.left = <<>>
  /\ drain.by # "nobody" => owed \subseteq Range(drain.todo) \cup Range(drain.left)
  /\ Len(drain.todo) + Len(drain.left) <= MaxOutbox

Waiting == Range(outbox) \cup Range(drain.todo) \cup Range(drain.left)

IInv ==
  /\ TypeOK
  /\ ArchiveHolds
  /\ RowHolds(status)
  /\ \A p \in Waiting : FactHolds(p)
  /\ \A h \in Handlers : Knows(handler[h])
  /\ \A r \in Reconcilers : DecisionHolds(recon[r])
  /\ DrainHolds

(***************************************************************************)
(* Writing a fact over a row.                                              *)
(***************************************************************************)
LEMMA Types ==
  ASSUME TypeOK
  PROVE  /\ status \in Statuses /\ event.files \in Counts /\ event.files \in Nat
         /\ Counts \subseteq Nat /\ 0 \in Counts
         /\ \A a \in Archives : searchable[a] \in Nat
  BY BoundsAssumption DEF TypeOK, Events, Counts

\* Counts stay counts, and never more ready than there are.
LEMMA CountsOf ==
  ASSUME NEW st \in Statuses, NEW p \in Payloads
  PROVE  /\ Total(st, p) \in Counts /\ Ready(st, p) \in Counts
         /\ Total(st, p) \in Nat /\ Ready(st, p) \in Nat
         /\ Ready(st, p) <= Total(st, p)
         /\ Stated(st, p) \in Statuses
<1>1. p.total \in Counts /\ p.ready \in Counts /\ st.total \in Counts /\ st.ready \in Counts
  BY DEF Payloads, Statuses
<1>2. Total(st, p) \in Counts
  BY <1>1 DEF Total
<1>3. Ready(st, p) \in Counts /\ Ready(st, p) <= Total(st, p)
  BY <1>1, <1>2, BoundsAssumption DEF Ready, Counts
<1>4. Stated(st, p) \in Statuses
  BY <1>2, <1>3 DEF Stated, Statuses, Payloads
<1>5. QED
  BY <1>2, <1>3, <1>4, BoundsAssumption DEF Counts

\* The outcomes of a write, in one place.
LEMMA WriteCases ==
  ASSUME NEW st \in Statuses, NEW p \in Payloads
  PROVE  \/ write(st, p) = st
         \/ st.state = "none" /\ write(st, p) = Stated(st, p)
         \/ /\ st.state # "none" /\ p.target = st.state /\ SaysMore(st, p)
            /\ write(st, p) = Stated(st, p)
         \/ /\ st.state # "none" /\ p.target = st.state /\ ~SaysMore(st, p)
            /\ CopiedLive(st, p)
            /\ write(st, p) = [st EXCEPT !.dest = "live"]
         \/ st.state # "none" /\ MovesForward(st, p) /\ write(st, p) = Stated(st, p)
  BY DEF write

\* ReplayChangesNothing holds of every row and every fact.
LEMMA WriteTwice ==
  ASSUME NEW st \in Statuses, NEW p \in Payloads
  PROVE  /\ write(st, p) \in Statuses
         /\ write(write(st, p), p) = write(st, p)
<1> DEFINE stated == Stated(st, p)
           copied == [st EXCEPT !.dest = "live"]
<1>1. stated \in Statuses
  BY CountsOf
<1>2. copied \in Statuses
  BY DEF Statuses, Archives
<1>3. write(st, p) \in {st, stated, copied}
  BY WriteCases
<1>4. CASE write(st, p) = stated
  <2>1. /\ stated.state = p.target /\ stated.total = Total(st, p)
        /\ stated.ready = Ready(st, p) /\ stated.dest = p.dest /\ stated.error = p.error
    BY DEF Stated
  <2>2. stated.state # "none"
    BY <2>1 DEF Payloads, IngestStates
  <2>3. Total(stated, p) = stated.total
    BY <2>1 DEF Total
  <2>4. Ready(stated, p) = stated.ready
    <3>1. Total(st, p) \in Nat /\ Ready(st, p) \in Nat /\ Ready(st, p) <= Total(st, p)
      BY CountsOf
    <3>2. CASE p.counted
      BY <2>1, <2>3, <3>2 DEF Ready
    <3>3. CASE ~p.counted
      BY <2>1, <2>3, <3>1, <3>3 DEF Ready
    <3>4. QED
      BY <3>2, <3>3
  <2>5. ~SaysMore(stated, p) /\ ~CopiedLive(stated, p)
    BY <2>1, <2>3, <2>4 DEF SaysMore, CopiedLive
  <2>6. write(stated, p) = stated
    BY <2>1, <2>2, <2>5 DEF write
  <2>7. QED
    BY <1>1, <1>4, <2>6
<1>5. CASE write(st, p) = copied /\ copied # stated /\ copied # st
  <2>1. st.state # "none" /\ p.target = st.state /\ ~SaysMore(st, p)
    BY <1>5, WriteCases
  <2>2. /\ copied.state = st.state /\ copied.total = st.total /\ copied.ready = st.ready
        /\ copied.dest = "live" /\ copied.error = st.error
    BY DEF Statuses
  <2>3. Total(copied, p) = Total(st, p) /\ Ready(copied, p) = Ready(st, p)
    BY <2>2 DEF Total, Ready
  <2>4. ~SaysMore(copied, p) /\ ~CopiedLive(copied, p)
    BY <2>1, <2>2, <2>3 DEF SaysMore, CopiedLive
  <2>5. write(copied, p) = copied
    BY <2>1, <2>2, <2>4 DEF write
  <2>6. QED
    BY <1>2, <1>5, <2>5
<1>6. QED
  BY <1>3, <1>4, <1>5

\* A fact that holds, written over a row that holds, leaves a row that holds.
LEMMA WriteHolds ==
  ASSUME TypeOK, NEW st \in Statuses, NEW p \in Payloads, RowHolds(st), FactHolds(p)
  PROVE  RowHolds(write(st, p))
<1>1. event.files \in Nat /\ st.total \in Nat /\ st.ready \in Nat
  BY Types DEF Statuses
<1>2. CASE write(st, p) = Stated(st, p)
  <2> DEFINE new == Stated(st, p)
  <2>1. /\ new.state = p.target /\ new.total = Total(st, p)
        /\ new.ready = Ready(st, p) /\ new.dest = p.dest /\ new.error = p.error
    BY DEF Stated
  <2>2. new.ready <= new.total
    BY <2>1, CountsOf
  <2>3. new.total \in {0, event.files}
    BY <2>1 DEF Total, RowHolds, FactHolds
  <2>4. new.dest \in Archives
    BY <2>1 DEF Payloads
  <2>5. new.state = "ready" =>
          /\ new.total = event.files /\ new.ready = event.files /\ new.error = "none"
          /\ raw[new.dest] # "none" /\ searchable[new.dest] = event.files
    BY <1>1, <2>1 DEF FactHolds, Total, Ready
  <2>6. /\ new.state = "refused" => new.error = "screened"
        /\ new.state = "failed" => new.error = "no-message"
    BY <2>1 DEF FactHolds
  <2>7. QED
    BY <1>2, <2>2, <2>3, <2>4, <2>5, <2>6 DEF RowHolds
<1>3. CASE /\ write(st, p) = [st EXCEPT !.dest = "live"]
           /\ p.target = st.state /\ CopiedLive(st, p)
  <2>1. st.state = "ready" => raw["live"] # "none" /\ searchable["live"] = event.files
    BY <1>3 DEF CopiedLive, FactHolds
  <2>2. QED
    BY <1>3, <2>1 DEF RowHolds, Statuses, Archives
<1>4. QED
  BY <1>2, <1>3, WriteCases

\* What a write makes of the row is a step of the promise, or none.
LEMMA WriteKeepsPromise ==
  ASSUME TypeOK, NEW p \in Payloads, RowHolds(status), FactHolds(p),
         status' = write(status, p)
  PROVE  [Promise!Next]_<<status.state, status.dest>>
<1> DEFINE st == status
           new == Stated(status, p)
<1>1. status \in Statuses /\ event.files \in Nat
  BY Types
<1>2. /\ new.state = p.target /\ new.total = Total(st, p)
      /\ new.ready = Ready(st, p) /\ new.dest = p.dest /\ new.error = p.error
      /\ p.dest \in Archives /\ p.target \in IngestStates
  BY DEF Stated, Payloads
<1>3. CASE status' = status
  BY <1>3
<1>4. CASE st.state = "none" /\ status' = new
  BY <1>2, <1>4 DEF Promise!Next, Promise!FirstRecord, Promise!IngestStates, Promise!Archives,
                    IngestStates, Archives
<1>5. CASE st.state # "none" /\ MovesForward(st, p) /\ status' = new
  BY <1>2, <1>5 DEF Promise!Next, Promise!Forward, Promise!Archives, Archives, MovesForward
<1>6. CASE /\ st.state # "none" /\ p.target = st.state /\ SaysMore(st, p)
           /\ status' = new
  <2>1. st.state \notin Promise!Ends
    <3>1. CASE st.state = "ready"
      BY <1>1, <1>6, <3>1 DEF SaysMore, Total, Ready, RowHolds, FactHolds
    <3>2. CASE st.state \in {"refused", "failed"}
      BY <1>1, <1>6, <3>2 DEF SaysMore, Total, Ready, RowHolds, FactHolds
    <3>3. QED
      BY <3>1, <3>2 DEF Promise!Ends
  <2>2. QED
    BY <1>2, <1>6, <2>1 DEF Promise!Next, Promise!Redirect, Promise!Archives, Archives
<1>7. CASE /\ st.state # "none" /\ p.target = st.state
           /\ CopiedLive(st, p) /\ status' = [st EXCEPT !.dest = "live"]
  <2>1. status'.state = st.state /\ status'.dest = "live" /\ st.dest = "shadow"
    BY <1>1, <1>7 DEF Statuses, CopiedLive
  <2>2. st.state \in {"ready", "partial"}
    BY <1>7 DEF CopiedLive
  <2>3. QED
    BY <2>1, <2>2 DEF Promise!Next, Promise!Redirect, Promise!Publish, Promise!Ends,
                      Promise!Archives
<1>8. QED
  BY <1>1, <1>3, <1>4, <1>5, <1>6, <1>7, WriteCases

(***************************************************************************)
(* The archive only grows.                                                 *)
(***************************************************************************)
Grows ==
  /\ event' = event
  /\ \A a \in Archives : /\ raw[a] # "none" => raw'[a] # "none"
                         /\ searchable[a] <= searchable'[a]
                         /\ searchable'[a] <= event.files
                         /\ searchable'[a] \in Nat

\* What is true of the archive once is true of it from then on.
LEMMA FactStays ==
  ASSUME TypeOK, Grows, NEW p \in Payloads, FactHolds(p)
  PROVE  FactHolds(p)'
<1>1. p.dest \in Archives
  BY DEF Payloads
<1>2. searchable[p.dest] = event.files => searchable'[p.dest] = event'.files
  BY <1>1, Types DEF Grows
<1>3. QED
  BY <1>1, <1>2 DEF Grows, FactHolds

LEMMA RowStays ==
  ASSUME TypeOK, Grows, RowHolds(status), status' = status
  PROVE  RowHolds(status)'
<1>1. status.state = "ready" => status.dest \in Archives
  BY DEF RowHolds
<1>2. status.state = "ready" =>
        raw'[status.dest] # "none" /\ searchable'[status.dest] = event'.files
  BY <1>1, Types DEF Grows, RowHolds
<1>3. QED
  BY <1>2 DEF Grows, RowHolds

LEMMA KnowsStays ==
  ASSUME TypeOK, Grows, NEW s \in HandlerStates, Knows(s)
  PROVE  Knows(s)'
<1>1. s.dest \in Archives /\ s.ready \in Nat
  BY Types DEF HandlerStates
<1>2. s.ready <= searchable'[s.dest]
  BY <1>1, Types DEF Grows, Knows
<1>3. QED
  BY <1>1, <1>2 DEF Grows, Knows, Refused

LEMMA DecisionStays ==
  ASSUME TypeOK, Grows, NEW c \in ReconStates, DecisionHolds(c)
  PROVE  DecisionHolds(c)'
<1>1. c.dest \in Archives
  BY DEF ReconStates
<1>2. searchable[c.dest] = event.files => searchable'[c.dest] = event'.files
  BY <1>1, Types DEF Grows
<1>3. QED
  BY <1>1, <1>2 DEF Grows, DecisionHolds

\* One handler moves, the others know what they knew.
LEMMA HandlerMoves ==
  ASSUME IInv, Grows, NEW h \in Handlers, NEW s \in HandlerStates, Knows(s)', GoTo(h, s)
  PROVE  /\ handler' \in [Handlers -> HandlerStates]
         /\ \A g \in Handlers : Knows(handler[g])'
<1>1. handler \in [Handlers -> HandlerStates]
  BY DEF IInv, TypeOK
<1>2. handler' = [handler EXCEPT ![h] = s]
  BY DEF GoTo
<1>3. ASSUME NEW g \in Handlers
      PROVE  Knows(handler[g])'
  <2>1. CASE g = h
    <3>1. handler'[g] = s
      BY <1>1, <1>2, <2>1
    <3>2. QED
      BY <3>1 DEF Knows
  <2>2. CASE g # h
    <3>1. handler'[g] = handler[g] /\ handler[g] \in HandlerStates
      BY <1>1, <1>2, <2>2
    <3>2. PICK t \in HandlerStates : t = handler[g]
      BY <3>1
    <3>3. Knows(t)
      BY <3>2 DEF IInv, Knows
    <3>4. Knows(t)'
      BY <3>3, KnowsStays DEF IInv
    <3>5. QED
      BY <3>1, <3>2, <3>4 DEF Knows
  <2>3. QED
    BY <2>1, <2>2
<1>4. QED
  BY <1>1, <1>2, <1>3

\* Handlers that do not move.
LEMMA HandlersStay ==
  ASSUME IInv, Grows, handler' = handler
  PROVE  /\ handler' \in [Handlers -> HandlerStates]
         /\ \A g \in Handlers : Knows(handler[g])'
<1>1. handler \in [Handlers -> HandlerStates]
  BY DEF IInv, TypeOK
<1>2. ASSUME NEW g \in Handlers
      PROVE  Knows(handler[g])'
  <2>1. PICK t \in HandlerStates : t = handler[g]
    BY <1>1
  <2>2. Knows(t)
    BY <2>1 DEF IInv, Knows
  <2>3. Knows(t)'
    BY <2>2, KnowsStays DEF IInv
  <2>4. QED
    BY <2>1, <2>3 DEF Knows
<1>3. QED
  BY <1>1, <1>2

LEMMA ReconMoves ==
  ASSUME IInv, Grows, NEW r \in Reconcilers, NEW c \in ReconStates, DecisionHolds(c)',
         recon' = [recon EXCEPT ![r] = c]
  PROVE  /\ recon' \in [Reconcilers -> ReconStates]
         /\ \A q \in Reconcilers : DecisionHolds(recon[q])'
<1>1. recon \in [Reconcilers -> ReconStates]
  BY DEF IInv, TypeOK
<1>2. ASSUME NEW q \in Reconcilers
      PROVE  DecisionHolds(recon[q])'
  <2>1. CASE q = r
    <3>1. recon'[q] = c
      BY <1>1, <2>1
    <3>2. QED
      BY <3>1 DEF DecisionHolds
  <2>2. CASE q # r
    <3>1. recon'[q] = recon[q] /\ recon[q] \in ReconStates
      BY <1>1, <2>2
    <3>2. PICK t \in ReconStates : t = recon[q]
      BY <3>1
    <3>3. DecisionHolds(t)
      BY <3>2 DEF IInv, DecisionHolds
    <3>4. DecisionHolds(t)'
      BY <3>3, DecisionStays DEF IInv
    <3>5. QED
      BY <3>1, <3>2, <3>4 DEF DecisionHolds
  <2>3. QED
    BY <2>1, <2>2
<1>3. QED
  BY <1>1, <1>2

LEMMA ReconsStay ==
  ASSUME IInv, Grows, recon' = recon
  PROVE  /\ recon' \in [Reconcilers -> ReconStates]
         /\ \A q \in Reconcilers : DecisionHolds(recon[q])'
<1>1. recon \in [Reconcilers -> ReconStates]
  BY DEF IInv, TypeOK
<1>2. ASSUME NEW q \in Reconcilers
      PROVE  DecisionHolds(recon[q])'
  <2>1. PICK t \in ReconStates : t = recon[q]
    BY <1>1
  <2>2. DecisionHolds(t)
    BY <2>1 DEF IInv, DecisionHolds
  <2>3. DecisionHolds(t)'
    BY <2>2, DecisionStays DEF IInv
  <2>4. QED
    BY <2>1, <2>3 DEF DecisionHolds
<1>3. QED
  BY <1>1, <1>2

\* An archive left alone grows, in the weak sense.
LEMMA WorldGrows ==
  ASSUME IInv, UNCHANGED <<event, raw, searchable>>
  PROVE  Grows /\ ArchiveHolds'
  BY Types DEF IInv, Grows, ArchiveHolds

(***************************************************************************)
(* Recording a fact, and the outbox.                                       *)
(***************************************************************************)
LEMMA RangeOfAppend ==
  ASSUME NEW S, NEW s \in Seq(S), NEW e \in S
  PROVE  /\ Append(s, e) \in Seq(S)
         /\ Len(Append(s, e)) = Len(s) + 1
         /\ Range(Append(s, e)) = Range(s) \cup {e}
<1>1. Append(s, e) \in Seq(S) /\ Len(Append(s, e)) = Len(s) + 1
  OBVIOUS
<1>2. \A i \in 1 .. Len(s) : Append(s, e)[i] = s[i]
  OBVIOUS
<1>3. Append(s, e)[Len(s) + 1] = e
  OBVIOUS
<1>4. DOMAIN s = 1 .. Len(s) /\ DOMAIN Append(s, e) = 1 .. Len(s) + 1 /\ Len(s) \in Nat
  BY <1>1
<1>5. QED
  BY <1>1, <1>2, <1>3, <1>4 DEF Range

LEMMA RangeOfTail ==
  ASSUME NEW S, NEW s \in Seq(S), s # <<>>
  PROVE  /\ Tail(s) \in Seq(S) /\ Head(s) \in S
         /\ Len(s) = Len(Tail(s)) + 1
         /\ Range(s) = Range(Tail(s)) \cup {Head(s)}
<1>1. Tail(s) \in Seq(S) /\ Head(s) \in S /\ Len(s) = Len(Tail(s)) + 1 /\ Head(s) = s[1]
  OBVIOUS
<1>2. \A i \in 1 .. Len(Tail(s)) : Tail(s)[i] = s[i + 1]
  BY <1>1
<1>3. DOMAIN s = 1 .. Len(s) /\ DOMAIN Tail(s) = 1 .. Len(Tail(s)) /\ Len(Tail(s)) \in Nat
  BY <1>1
<1>4. Range(s) \subseteq Range(Tail(s)) \cup {s[1]}
  <2>1. ASSUME NEW i \in 1 .. Len(s), i # 1
        PROVE  i - 1 \in 1 .. Len(Tail(s)) /\ Tail(s)[i - 1] = s[i]
    BY <1>1, <1>2, <1>3, <2>1
  <2>2. QED
    BY <1>3, <2>1 DEF Range
<1>5. Range(Tail(s)) \subseteq Range(s) /\ s[1] \in Range(s)
  <2>1. ASSUME NEW i \in 1 .. Len(Tail(s))
        PROVE  i + 1 \in 1 .. Len(s) /\ Tail(s)[i] = s[i + 1]
    BY <1>1, <1>2, <1>3
  <2>2. 1 \in 1 .. Len(s)
    BY <1>1, <1>3
  <2>3. QED
    BY <1>3, <2>1, <2>2 DEF Range
<1>6. QED
  BY <1>1, <1>4, <1>5

\* What a drain finds in the file is what the file holds.
LEMMA DrainStarts ==
  ASSUME IInv, NEW who \in Handlers \cup Reconcilers \cup {"traffic"},
         drain' = DrainBy(who), outbox' = outbox, owed' = owed
  PROVE  /\ drain'.by \in Handlers \cup Reconcilers \cup {"nobody", "traffic"}
         /\ drain'.todo \in Seq(Payloads) /\ drain'.left \in Seq(Payloads)
         /\ DrainHolds'
         /\ Waiting' \subseteq Waiting
<1>1. /\ drain'.by = who /\ drain'.todo = outbox /\ drain'.left = <<>>
      /\ who # "nobody"
  BY ActorsAssumption DEF DrainBy
<1>2. outbox \in Seq(Payloads) /\ Len(outbox) <= MaxOutbox /\ owed \subseteq Range(outbox)
  BY DEF IInv, TypeOK, DrainHolds
<1>3. Range(<<>>) = {} /\ Len(<<>>) = 0 /\ <<>> \in Seq(Payloads) /\ Len(outbox) \in Nat
  BY <1>2 DEF Range
<1>4. Waiting' \subseteq Waiting
  BY <1>1, <1>3 DEF Waiting
<1>5. QED
  BY <1>1, <1>2, <1>3, <1>4 DEF DrainHolds

\* The row after a fact that holds was, or was not, written over it.
LEMMA RowWritten ==
  ASSUME IInv, NEW p \in Payloads, FactHolds(p), UNCHANGED World,
         status' \in {status, write(status, p)}
  PROVE  status' \in Statuses /\ RowHolds(status)'
<1>1. status \in Statuses /\ RowHolds(status)
  BY Types DEF IInv
<1>2. write(status, p) \in Statuses /\ RowHolds(write(status, p))
  BY <1>1, WriteTwice, WriteHolds DEF IInv
<1>3. status' \in Statuses /\ RowHolds(status')
  BY <1>1, <1>2
<1>4. UNCHANGED <<event, raw, searchable>>
  BY DEF World
<1>5. QED
  BY <1>3, <1>4 DEF RowHolds

\* advance with a fact that holds, whoever calls it.
LEMMA AdvanceHolds ==
  ASSUME IInv, NEW who \in Handlers \cup Reconcilers, NEW p \in Payloads, FactHolds(p),
         UNCHANGED World, advance(who, p)
  PROVE  /\ status' \in Statuses /\ RowHolds(status)'
         /\ outbox' \in Seq(Payloads) /\ Len(outbox') <= MaxOutbox
         /\ drain'.by \in Handlers \cup Reconcilers \cup {"nobody", "traffic"}
         /\ drain'.todo \in Seq(Payloads) /\ drain'.left \in Seq(Payloads)
         /\ owed' \subseteq Payloads
         /\ faults' \in 0 .. MaxFaults
         /\ DrainHolds'
         /\ \A q \in Waiting' : FactHolds(q)
<1>1. /\ outbox \in Seq(Payloads) /\ Len(outbox) <= MaxOutbox /\ Len(outbox) \in Nat
      /\ drain.by \in Handlers \cup Reconcilers \cup {"nobody", "traffic"}
      /\ drain.todo \in Seq(Payloads) /\ drain.left \in Seq(Payloads)
      /\ owed \subseteq Payloads /\ faults \in 0 .. MaxFaults
      /\ DrainHolds /\ \A q \in Waiting : FactHolds(q)
  BY DEF IInv, TypeOK
<1>2. Fault => faults' \in 0 .. MaxFaults
  BY <1>1, BoundsAssumption DEF Fault
<1>3. CASE Recorded(who, p)
  <2>1. status' = write(status, p) /\ UNCHANGED <<outbox, owed, faults>>
    BY <1>3 DEF Recorded
  <2>2. status' \in Statuses /\ RowHolds(status)'
    BY <2>1, RowWritten
  <2>3. CASE drain' = drain
    BY <1>1, <2>1, <2>2, <2>3 DEF DrainHolds, Waiting
  <2>4. CASE drain' = DrainBy(who)
    BY <1>1, <2>1, <2>2, <2>4, DrainStarts
  <2>5. QED
    BY <1>3, <2>3, <2>4 DEF Recorded
<1>4. CASE Spooled(p)
  <2>1. /\ drain.by = "nobody" /\ drain' = drain /\ Len(outbox) < MaxOutbox
        /\ outbox' = Append(outbox, p) /\ owed' = owed \cup {p} /\ Fault
        /\ status' \in {status, write(status, p)}
    BY <1>4 DEF Spooled
  <2>2. status' \in Statuses /\ RowHolds(status)'
    BY <2>1, RowWritten
  <2>3. /\ outbox' \in Seq(Payloads) /\ Len(outbox') <= MaxOutbox
        /\ Range(outbox') = Range(outbox) \cup {p}
    BY <1>1, <2>1, RangeOfAppend, BoundsAssumption
  <2>4. DrainHolds'
    BY <1>1, <2>1, <2>3 DEF DrainHolds
  <2>5. Waiting' = Waiting \cup {p}
    BY <2>1, <2>3 DEF Waiting
  <2>6. QED
    BY <1>1, <1>2, <2>1, <2>2, <2>3, <2>4, <2>5
<1>5. CASE Dropped
  <2>1. UNCHANGED <<status, outbox, owed, drain>> /\ Fault
    BY <1>5 DEF Dropped
  <2>2. status' \in Statuses /\ RowHolds(status)'
    BY <2>1, RowWritten
  <2>3. QED
    BY <1>1, <1>2, <2>1, <2>2 DEF DrainHolds, Waiting
<1>6. QED
  BY <1>3, <1>4, <1>5 DEF advance

\* With the world as it was, a fact that holds still does.
LEMMA WaitingStays ==
  ASSUME UNCHANGED World, \A q \in Waiting' : FactHolds(q)
  PROVE  (\A q \in Waiting : FactHolds(q))'
  BY DEF World, FactHolds

\* Steps that leave the row, the outbox and the drain alone.
LEMMA Quiet ==
  ASSUME IInv, Grows, ArchiveHolds',
         UNCHANGED <<status, outbox, drain, owed>>,
         event' \in Events,
         raw' \in [Archives -> {"none", "part", "whole"}],
         kept' \in [Archives -> BOOLEAN],
         searchable' \in [Archives -> Counts],
         revised' \in BOOLEAN,
         handler' \in [Handlers -> HandlerStates], \A h \in Handlers : Knows(handler[h])',
         recon' \in [Reconcilers -> ReconStates], \A r \in Reconcilers : DecisionHolds(recon[r])',
         deliveries' \in 0 .. MaxDeliveries, faults' \in 0 .. MaxFaults
  PROVE  IInv'
<1>1. TypeOK'
  BY DEF IInv, TypeOK
<1>2. RowHolds(status)'
  BY RowStays DEF IInv
<1>3. (\A p \in Waiting : FactHolds(p))'
  <2>1. Waiting' = Waiting /\ Waiting \subseteq Payloads
    <3>1. /\ outbox \in Seq(Payloads) /\ drain.todo \in Seq(Payloads)
          /\ drain.left \in Seq(Payloads)
      BY DEF IInv, TypeOK
    <3>2. ASSUME NEW s \in Seq(Payloads)
          PROVE  Range(s) \subseteq Payloads
      BY DEF Range
    <3>3. QED
      BY <3>1, <3>2 DEF Waiting
  <2>2. ASSUME NEW p \in Waiting
        PROVE  FactHolds(p)'
    BY <2>1, FactStays DEF IInv
  <2>3. QED
    BY <2>1, <2>2
<1>4. DrainHolds'
  BY DEF IInv, DrainHolds
<1>5. QED
  BY <1>1, <1>2, <1>3, <1>4 DEF IInv

(***************************************************************************)
(* Each step keeps the invariant.                                          *)
(***************************************************************************)
LEMMA HandlerAt ==
  ASSUME IInv, NEW h \in Handlers
  PROVE  /\ handler[h] \in HandlerStates /\ Knows(handler[h])
         /\ handler[h].dest \in Archives /\ handler[h].ready \in Nat
  BY Types DEF IInv, TypeOK, HandlerStates

LEMMA DeliverStep ==
  ASSUME IInv, NEW h \in Handlers, Deliver(h)
  PROVE  IInv'
<1>1. PICK a \in Archives : GoTo(h, [Absent EXCEPT !.pc = "received", !.dest = a])
  BY DEF Deliver
<1> DEFINE new == [Absent EXCEPT !.pc = "received", !.dest = a]
<1>2. new \in HandlerStates
  BY Types DEF IInv, HandlerStates, Absent, AckSteps, Errors
<1>3. /\ UNCHANGED <<World, status, outbox, drain, recon, faults, owed>>
      /\ deliveries' = deliveries + 1 /\ deliveries < MaxDeliveries
  BY DEF Deliver
<1>4. Grows /\ ArchiveHolds'
  BY <1>3, WorldGrows DEF World
<1>5. Knows(new)'
  <2>1. new.pc = "received" /\ new.ready = 0 /\ new.error = "none" /\ new.dest = a
    BY DEF Absent
  <2>2. searchable' = searchable /\ searchable[a] \in Nat
    BY <1>3, Types DEF World, IInv
  <2>3. QED
    BY <2>1, <2>2 DEF Knows
<1>6. handler' \in [Handlers -> HandlerStates] /\ \A g \in Handlers : Knows(handler[g])'
  BY <1>1, <1>2, <1>4, <1>5, HandlerMoves
<1>7. recon' \in [Reconcilers -> ReconStates] /\ \A r \in Reconcilers : DecisionHolds(recon[r])'
  BY <1>3, <1>4, ReconsStay
<1>8. deliveries' \in 0 .. MaxDeliveries
  BY <1>3, BoundsAssumption DEF IInv, TypeOK
<1>9. QED
  BY <1>3, <1>4, <1>6, <1>7, <1>8, Quiet DEF IInv, TypeOK, World

LEMMA AbortStep ==
  ASSUME IInv, NEW h \in Handlers, Abort(h)
  PROVE  IInv'
<1>1. GoTo(h, Absent) /\ UNCHANGED <<World, status, outbox, drain, recon, deliveries, faults, owed>>
  BY DEF Abort
<1>2. Absent \in HandlerStates
  BY Types DEF IInv, HandlerStates, Absent, Archives, Errors
<1>3. Grows /\ ArchiveHolds'
  BY <1>1, WorldGrows DEF World
<1>4. Knows(Absent)'
  <2>1. searchable' = searchable /\ searchable["shadow"] \in Nat
    BY <1>1, Types DEF World, IInv, Archives
  <2>2. QED
    BY <2>1 DEF Knows, Absent
<1>5. handler' \in [Handlers -> HandlerStates] /\ \A g \in Handlers : Knows(handler[g])'
  <2>1. PICK s \in HandlerStates : s = Absent
    BY <1>2
  <2>2. Knows(s)' /\ GoTo(h, s)
    BY <1>1, <1>4, <2>1 DEF Knows
  <2>3. QED
    BY <1>3, <2>2, HandlerMoves
<1>6. recon' \in [Reconcilers -> ReconStates] /\ \A r \in Reconcilers : DecisionHolds(recon[r])'
  BY <1>1, <1>3, ReconsStay
<1>7. QED
  BY <1>1, <1>3, <1>5, <1>6, Quiet DEF IInv, TypeOK, World

LEMMA StageStep ==
  ASSUME IInv, NEW h \in Handlers, Stage(h)
  PROVE  IInv'
<1>1. PICK s : s = [handler[h] EXCEPT !.pc = IF event.files = 0 /\ ~event.text
                                             THEN "empty" ELSE "ingest"]
  OBVIOUS
<1>2. /\ GoTo(h, s) /\ handler[h].pc = "stage"
      /\ UNCHANGED <<event, raw, searchable, revised, status, outbox, drain, recon, deliveries,
                     faults, owed>>
  BY <1>1 DEF Stage, At
<1>3. s \in HandlerStates /\ s.pc \in {"empty", "ingest"} /\ s.ready = handler[h].ready
      /\ s.error = handler[h].error /\ s.dest = handler[h].dest
  BY <1>1, HandlerAt DEF HandlerStates, AckSteps, WorkSteps
<1>4. Grows /\ ArchiveHolds'
  BY <1>2, WorldGrows
<1>5. Knows(s)'
  BY <1>2, <1>3, HandlerAt DEF Knows
<1>6. handler' \in [Handlers -> HandlerStates] /\ \A g \in Handlers : Knows(handler[g])'
  BY <1>2, <1>3, <1>4, <1>5, HandlerMoves
<1>7. recon' \in [Reconcilers -> ReconStates] /\ \A r \in Reconcilers : DecisionHolds(recon[r])'
  BY <1>2, <1>4, ReconsStay
<1>8. kept' \in [Archives -> BOOLEAN]
  BY DEF Stage, IInv, TypeOK
<1>9. QED
  BY <1>2, <1>4, <1>6, <1>7, <1>8, Quiet DEF IInv, TypeOK

LEMMA IngestStep ==
  ASSUME IInv, NEW h \in Handlers, Ingest(h)
  PROVE  IInv'
<1> DEFINE a == handler[h].dest
           wrote == raw[a] = "none" /\ event.screened # "all"
           confirmed == wrote \/ ~Refused
           next == CASE confirmed                      -> "raw"
                     [] ~confirmed /\ event.files > 0  -> "pending"
                     [] ~confirmed /\ event.files = 0  -> "screened"
           found == CASE ~wrote            -> raw[a]
                      [] wrote /\ Refused  -> "part"
                      [] wrote /\ ~Refused -> "whole"
<1>1. PICK s : s = [handler[h] EXCEPT !.wrote = wrote, !.pc = next]
  OBVIOUS
<1>2. /\ GoTo(h, s) /\ handler[h].pc = "ingest"
      /\ raw' = [raw EXCEPT ![a] = found]
      /\ UNCHANGED <<event, kept, searchable, revised, status, outbox, drain, recon, deliveries,
                     faults, owed>>
  BY <1>1 DEF Ingest, At
<1>3. wrote \in BOOLEAN /\ next \in {"raw", "pending", "screened"}
      /\ (next = "raw" <=> confirmed)
  BY Types DEF IInv, Counts
<1>4. /\ s \in HandlerStates /\ s.pc = next /\ s.dest = a
      /\ s.ready = handler[h].ready /\ s.error = handler[h].error
  BY <1>1, <1>3, HandlerAt DEF HandlerStates, AckSteps, WorkSteps
<1>5. raw \in [Archives -> {"none", "part", "whole"}] /\ a \in Archives
  BY HandlerAt DEF IInv, TypeOK
<1>6. found \in {"none", "part", "whole"} /\ (raw[a] # "none" => found # "none")
      /\ (confirmed => found # "none")
  <2>1. CASE wrote
    BY <2>1
  <2>2. CASE ~wrote
    <3>1. found = raw[a]
      BY <2>2
    <3>2. confirmed => raw[a] # "none"
      BY <2>2 DEF Refused
    <3>3. QED
      BY <1>5, <3>1, <3>2
  <2>3. QED
    BY <2>1, <2>2
<1>7. /\ raw' \in [Archives -> {"none", "part", "whole"}] /\ raw'[a] = found
      /\ \A b \in Archives : raw[b] # "none" => raw'[b] # "none"
  BY <1>2, <1>5, <1>6
<1>8. Grows /\ ArchiveHolds'
  BY <1>2, <1>7, Types DEF IInv, Grows, ArchiveHolds
<1>9. Knows(s)'
  <2>1. Refused' = Refused /\ searchable' = searchable
    BY <1>2 DEF Refused
  <2>2. s.pc \in {"pending"} => Refused
    BY <1>3, <1>4
  <2>3. s.pc = "raw" => raw'[s.dest] # "none"
    BY <1>3, <1>4, <1>6, <1>7
  <2>4. s.ready = 0 /\ s.error = "none" /\ s.ready <= searchable[s.dest]
    BY <1>2, <1>4, HandlerAt DEF Knows
  <2>5. QED
    BY <1>3, <1>4, <2>1, <2>2, <2>3, <2>4 DEF Knows
<1>10. handler' \in [Handlers -> HandlerStates] /\ \A g \in Handlers : Knows(handler[g])'
  BY <1>2, <1>4, <1>8, <1>9, HandlerMoves
<1>11. recon' \in [Reconcilers -> ReconStates] /\ \A r \in Reconcilers : DecisionHolds(recon[r])'
  BY <1>2, <1>8, ReconsStay
<1>12. QED
  BY <1>2, <1>7, <1>8, <1>10, <1>11, Quiet DEF IInv, TypeOK

LEMMA WriteDocsStep ==
  ASSUME IInv, NEW h \in Handlers, WriteDocs(h)
  PROVE  IInv'
<1> DEFINE a == handler[h].dest
<1>1. PICK n \in searchable[a] .. (IF kept[a] THEN event.files ELSE searchable[a]) :
         /\ searchable' = [searchable EXCEPT ![a] = n]
         /\ \E seen \in 0 .. n : GoTo(h, [handler[h] EXCEPT !.pc = "pending", !.ready = seen])
  BY DEF WriteDocs
<1>2. PICK seen \in 0 .. n : GoTo(h, [handler[h] EXCEPT !.pc = "pending", !.ready = seen])
  BY <1>1
<1>3. PICK s : s = [handler[h] EXCEPT !.pc = "pending", !.ready = seen]
  OBVIOUS
<1>4. /\ handler[h].pc = "docs"
      /\ UNCHANGED <<event, raw, kept, revised, status, outbox, drain, recon, deliveries, faults,
                     owed>>
  BY DEF WriteDocs, At
<1>5. /\ a \in Archives /\ searchable[a] \in Nat /\ event.files \in Counts
      /\ searchable[a] <= event.files /\ searchable \in [Archives -> Counts]
      /\ raw[a] # "none"
  BY <1>4, HandlerAt, Types DEF IInv, TypeOK, ArchiveHolds, Knows
<1>6. n \in Nat /\ searchable[a] <= n /\ n <= event.files /\ n \in Counts /\ seen \in Counts
  BY <1>5, BoundsAssumption DEF Counts
<1>7. /\ s \in HandlerStates /\ s.pc = "pending" /\ s.ready = seen /\ s.dest = a
  BY <1>3, <1>6, HandlerAt DEF HandlerStates, AckSteps
<1>8. searchable' \in [Archives -> Counts] /\ searchable'[a] = n
      /\ \A b \in Archives : b # a => searchable'[b] = searchable[b]
  BY <1>1, <1>5, <1>6
<1>9. Grows /\ ArchiveHolds'
  BY <1>4, <1>5, <1>6, <1>8, Types DEF IInv, Grows, ArchiveHolds
<1>10. Knows(s)'
  BY <1>4, <1>5, <1>6, <1>7, <1>8 DEF Knows
<1>11. handler' \in [Handlers -> HandlerStates] /\ \A g \in Handlers : Knows(handler[g])'
  BY <1>2, <1>3, <1>7, <1>9, <1>10, HandlerMoves
<1>12. recon' \in [Reconcilers -> ReconStates] /\ \A r \in Reconcilers : DecisionHolds(recon[r])'
  BY <1>4, <1>9, ReconsStay
<1>13. QED
  BY <1>4, <1>8, <1>9, <1>11, <1>12, Quiet DEF IInv, TypeOK

LEMMA ConfirmStep ==
  ASSUME IInv, NEW h \in Handlers, Confirm(h)
  PROVE  IInv'
<1>1. /\ handler[h].pc = "confirm"
      /\ UNCHANGED <<World, status, outbox, drain, recon, deliveries, owed>>
  BY DEF Confirm, At
<1>2. Grows /\ ArchiveHolds' /\ Refused' = Refused
      /\ raw' = raw /\ searchable' = searchable /\ event' = event
  BY <1>1, WorldGrows DEF World, Refused
<1>3. recon' \in [Reconcilers -> ReconStates] /\ \A r \in Reconcilers : DecisionHolds(recon[r])'
  BY <1>1, <1>2, ReconsStay
<1>4. AfterFiles \in {"screened", "revise"} /\ (AfterFiles = "revise" => ~Refused)
  BY DEF AfterFiles
<1>5. \E s \in HandlerStates : GoTo(h, s) /\ Knows(s)'
  <2>1. CASE GoTo(h, [handler[h] EXCEPT !.pc = "unconfirmed"])
    <3>0. PICK s : s = [handler[h] EXCEPT !.pc = "unconfirmed"]
      OBVIOUS
    <3>1. s \in HandlerStates /\ s.pc = "unconfirmed" /\ s.ready = handler[h].ready
          /\ s.dest = handler[h].dest
      BY <3>0, HandlerAt DEF HandlerStates, AckSteps
    <3>2. Knows(s)'
      BY <1>2, <3>1, HandlerAt DEF Knows
    <3>3. QED
      BY <2>1, <3>0, <3>1, <3>2
  <2>2. CASE GoTo(h, [handler[h] EXCEPT
                        !.pc = AfterFiles,
                        !.error = IF handler[h].ready = event.files THEN "none" ELSE "pending"])
    <3>0. PICK s : s = [handler[h] EXCEPT
                          !.pc = AfterFiles,
                          !.error = IF handler[h].ready = event.files THEN "none" ELSE "pending"]
      OBVIOUS
    <3>1. /\ s \in HandlerStates /\ s.pc = AfterFiles /\ s.ready = handler[h].ready
          /\ s.dest = handler[h].dest
          /\ s.error = IF handler[h].ready = event.files THEN "none" ELSE "pending"
      BY <1>4, <3>0, HandlerAt DEF HandlerStates, AckSteps, WorkSteps, Errors
    <3>2. Knows(s)'
      BY <1>1, <1>2, <1>4, <3>1, HandlerAt DEF Knows
    <3>3. QED
      BY <2>2, <3>0, <3>1, <3>2
  <2>3. CASE GoTo(h, [handler[h] EXCEPT !.pc = AfterFiles, !.ready = 0, !.error = "lost"])
    <3>0. PICK s : s = [handler[h] EXCEPT !.pc = AfterFiles, !.ready = 0, !.error = "lost"]
      OBVIOUS
    <3>1. /\ s \in HandlerStates /\ s.pc = AfterFiles /\ s.ready = 0
          /\ s.dest = handler[h].dest /\ s.error = "lost"
      BY <1>4, <3>0, HandlerAt, Types DEF IInv, HandlerStates, AckSteps, WorkSteps, Errors
    <3>2. searchable[s.dest] \in Nat
      BY <3>1, HandlerAt, Types DEF IInv
    <3>3. Knows(s)'
      BY <1>1, <1>2, <1>4, <3>1, <3>2, HandlerAt DEF Knows
    <3>4. QED
      BY <2>3, <3>0, <3>1, <3>3
  <2>4. QED
    BY <2>1, <2>2, <2>3 DEF Confirm
<1>6. handler' \in [Handlers -> HandlerStates] /\ \A g \in Handlers : Knows(handler[g])'
  BY <1>2, <1>5, HandlerMoves
<1>7. faults' \in 0 .. MaxFaults
  BY BoundsAssumption DEF Confirm, Fault, IInv, TypeOK
<1>8. QED
  BY <1>1, <1>2, <1>3, <1>6, <1>7, Quiet DEF IInv, TypeOK, World

LEMMA ReviseStep ==
  ASSUME IInv, NEW h \in Handlers, Revise(h)
  PROVE  IInv'
<1>1. /\ handler[h].pc = "revise"
      /\ UNCHANGED <<event, raw, kept, searchable, status, outbox, drain, recon, deliveries, owed>>
  BY DEF Revise, At
<1>2. Grows /\ ArchiveHolds' /\ Refused' = Refused
  BY <1>1, WorldGrows DEF Refused
<1>3. recon' \in [Reconcilers -> ReconStates] /\ \A r \in Reconcilers : DecisionHolds(recon[r])'
  BY <1>1, <1>2, ReconsStay
<1>4. PICK step \in {"final", "unrevised"} : GoTo(h, [handler[h] EXCEPT !.pc = step])
  BY DEF Revise
<1>5. PICK s : s = [handler[h] EXCEPT !.pc = step]
  OBVIOUS
<1>6. /\ s \in HandlerStates /\ s.pc = step /\ s.ready = handler[h].ready
      /\ s.dest = handler[h].dest /\ s.error = handler[h].error
  BY <1>5, HandlerAt DEF HandlerStates, AckSteps
<1>7. Knows(s)'
  BY <1>1, <1>2, <1>6, HandlerAt DEF Knows
<1>8. handler' \in [Handlers -> HandlerStates] /\ \A g \in Handlers : Knows(handler[g])'
  BY <1>2, <1>4, <1>5, <1>6, <1>7, HandlerMoves
<1>9. faults' \in 0 .. MaxFaults
  BY BoundsAssumption DEF Revise, Fault, IInv, TypeOK
<1>10. revised' \in BOOLEAN
  BY Zenon DEF Revise, IInv, TypeOK
<1>11. QED
  BY <1>1, <1>2, <1>3, <1>8, <1>9, <1>10, Quiet DEF IInv, TypeOK

\* What a run records holds when it is recorded.
LEMMA PayloadHolds ==
  ASSUME IInv, NEW h \in Handlers, handler[h].pc \in AckSteps
  PROVE  Payload(h) \in Payloads /\ FactHolds(Payload(h))
<1>1. /\ handler[h] \in HandlerStates /\ Knows(handler[h]) /\ handler[h].dest \in Archives
      /\ handler[h].ready \in Counts /\ handler[h].error \in Errors
      /\ event.files \in Counts /\ 0 \in Counts
  BY HandlerAt, Types DEF IInv, HandlerStates
<1>2. ASSUME NEW target \in IngestStates \ {"ready", "refused", "failed"}, NEW error \in Errors
      PROVE  Fact(h, target, error) \in Payloads /\ FactHolds(Fact(h, target, error))
  BY <1>1, <1>2 DEF Fact, Payloads, FactHolds
<1>3. CASE handler[h].pc = "received"
  BY <1>2, <1>3 DEF Payload, IngestStates, Errors
<1>4. CASE handler[h].pc = "empty"
  BY <1>1, <1>4 DEF Payload, Fact, Payloads, FactHolds, IngestStates, Errors
<1>5. CASE handler[h].pc = "raw"
  BY <1>1, <1>5 DEF Payload, Fact, Payloads, FactHolds, IngestStates, Errors
<1>6. CASE handler[h].pc = "pending"
  BY <1>1, <1>6 DEF Payload, Fact, Payloads, FactHolds, IngestStates, Errors
<1>7. CASE handler[h].pc = "unconfirmed"
  BY <1>2, <1>7 DEF Payload, IngestStates, Errors
<1>8. CASE handler[h].pc = "screened"
  <2>1. Payload(h) = Fact(h, IF handler[h].wrote THEN "partial" ELSE "refused", "screened")
    BY <1>8 DEF Payload
  <2>2. QED
    BY <1>1, <2>1 DEF Fact, Payloads, FactHolds, IngestStates, Errors
<1>9. CASE handler[h].pc = "unrevised"
  BY <1>2, <1>9 DEF Payload, IngestStates, Errors
<1>10. CASE handler[h].pc = "final"
  <2> DEFINE p == [Fact(h, FinalState(h), handler[h].error) EXCEPT
                     !.counted = TRUE, !.total = event.files, !.ready = handler[h].ready,
                     !.path = TRUE]
  <2>1. Payload(h) = p
    BY <1>10 DEF Payload
  <2>2. /\ p.target = FinalState(h) /\ p.counted = TRUE /\ p.total = event.files
        /\ p.ready = handler[h].ready /\ p.dest = handler[h].dest /\ p.error = handler[h].error
    BY DEF Fact
  <2>3. FinalState(h) \in {"ready", "partial"}
        /\ (FinalState(h) = "ready" => handler[h].error = "none")
    BY DEF FinalState
  <2>4. p \in Payloads
    BY <1>1, <2>3 DEF Fact, Payloads, IngestStates
  <2>5. /\ raw[handler[h].dest] # "none"
        /\ handler[h].ready <= searchable[handler[h].dest]
        /\ handler[h].error = "none" => handler[h].ready = event.files
    BY <1>1, <1>10 DEF Knows
  <2>6. searchable[handler[h].dest] <= event.files /\ searchable[handler[h].dest] \in Nat
        /\ event.files \in Nat
    BY <1>1, Types DEF IInv, ArchiveHolds
  <2>7. FactHolds(p)
    BY <2>2, <2>3, <2>5, <2>6 DEF FactHolds
  <2>8. QED
    BY <2>1, <2>4, <2>7
<1>11. QED
  BY <1>3, <1>4, <1>5, <1>6, <1>7, <1>8, <1>9, <1>10 DEF AckSteps

LEMMA AckStep ==
  ASSUME IInv, NEW h \in Handlers, Ack(h)
  PROVE  IInv'
<1>1. /\ handler[h].pc \in AckSteps /\ advance(h, Payload(h)) /\ GoTo(h, AfterAck(h))
      /\ UNCHANGED <<World, recon, deliveries>>
  BY DEF Ack
<1>2. PICK p \in Payloads : p = Payload(h) /\ FactHolds(p)
  BY <1>1, PayloadHolds
<1>3. Grows /\ ArchiveHolds' /\ Refused' = Refused /\ searchable' = searchable /\ raw' = raw
      /\ event' = event
  BY <1>1, WorldGrows DEF World, Refused
<1>4. PICK s : s = AfterAck(h)
  OBVIOUS
<1>5. s \in HandlerStates /\ Knows(s)'
  <2>1. AfterFiles \in {"screened", "revise"} /\ (AfterFiles = "revise" => ~Refused)
    BY DEF AfterFiles
  <2>2. CASE s = Absent
    <3>1. searchable["shadow"] \in Nat
      BY Types DEF IInv, Archives
    <3>2. QED
      BY <1>3, <2>2, <3>1, Types DEF IInv, HandlerStates, Absent, Archives, Errors, Knows
  <2>3. CASE handler[h].pc = "received" /\ s = [handler[h] EXCEPT !.pc = "stage"]
    <3>1. /\ s \in HandlerStates /\ s.pc = "stage" /\ s.ready = handler[h].ready
          /\ s.dest = handler[h].dest /\ s.error = handler[h].error
      BY <2>3, HandlerAt DEF HandlerStates, WorkSteps
    <3>2. QED
      BY <1>3, <2>3, <3>1, HandlerAt DEF Knows
  <2>4. CASE /\ handler[h].pc = "raw"
             /\ s = [handler[h] EXCEPT !.pc = IF event.files > 0 THEN "docs" ELSE AfterFiles]
    <3>1. /\ s \in HandlerStates /\ s.pc \in {"docs", "screened", "revise"}
          /\ s.ready = handler[h].ready
          /\ s.dest = handler[h].dest /\ s.error = handler[h].error
          /\ s.pc = "revise" => event.files = 0
      BY <2>1, <2>4, HandlerAt, Types DEF IInv, HandlerStates, WorkSteps, AckSteps
    <3>2. QED
      BY <1>3, <2>4, <3>1, HandlerAt DEF Knows
  <2>5. CASE handler[h].pc = "pending" /\ s = [handler[h] EXCEPT !.pc = "confirm"]
    <3>1. /\ s \in HandlerStates /\ s.pc = "confirm" /\ s.ready = handler[h].ready
          /\ s.dest = handler[h].dest /\ s.error = handler[h].error
      BY <2>5, HandlerAt DEF HandlerStates, WorkSteps
    <3>2. QED
      BY <1>3, <2>5, <3>1, HandlerAt DEF Knows
  <2>6. QED
    BY <1>1, <1>4, <2>2, <2>3, <2>4, <2>5 DEF AfterAck
<1>6. handler' \in [Handlers -> HandlerStates] /\ \A g \in Handlers : Knows(handler[g])'
  BY <1>1, <1>3, <1>4, <1>5, HandlerMoves
<1>7. recon' \in [Reconcilers -> ReconStates] /\ \A r \in Reconcilers : DecisionHolds(recon[r])'
  BY <1>1, <1>3, ReconsStay
<1>8. /\ status' \in Statuses /\ RowHolds(status)'
      /\ outbox' \in Seq(Payloads) /\ Len(outbox') <= MaxOutbox
      /\ drain'.by \in Handlers \cup Reconcilers \cup {"nobody", "traffic"}
      /\ drain'.todo \in Seq(Payloads) /\ drain'.left \in Seq(Payloads)
      /\ owed' \subseteq Payloads /\ faults' \in 0 .. MaxFaults /\ DrainHolds'
      /\ \A q \in Waiting' : FactHolds(q)
  BY <1>1, <1>2, AdvanceHolds
<1>9. (\A q \in Waiting : FactHolds(q))'
  BY <1>1, <1>8, WaitingStays
<1>10. TypeOK'
  BY <1>1, <1>6, <1>7, <1>8 DEF IInv, TypeOK, World
<1>11. QED
  BY <1>3, <1>6, <1>7, <1>8, <1>9, <1>10 DEF IInv

LEMMA ReconAt ==
  ASSUME IInv, NEW r \in Reconcilers
  PROVE  recon[r] \in ReconStates /\ DecisionHolds(recon[r])
  BY DEF IInv, TypeOK

LEMMA RecountStep ==
  ASSUME IInv, NEW r \in Reconcilers, Recount(r)
  PROVE  IInv'
<1>1. /\ status.state \in {"raw_written", "attachment_pending", "partial"}
      /\ status.total > 0
      /\ UNCHANGED <<World, status, outbox, drain, handler, deliveries, faults, owed>>
  BY DEF Recount
<1>2. /\ status.dest \in Archives /\ status.total = event.files /\ status.total \in Counts
      /\ event.files \in Nat /\ status.total \in Nat
      /\ searchable[status.dest] \in Nat
  BY <1>1, Types DEF IInv, RowHolds, Statuses
<1>3. PICK outcome \in Recounts(status.dest, status.total) :
        recon' = [recon EXCEPT ![r] = [pc |-> "decided", total |-> status.total,
                                       ready |-> outcome.ready, dest |-> status.dest,
                                       error |-> outcome.error]]
  BY DEF Recount
<1>4. PICK c : c = [pc |-> "decided", total |-> status.total, ready |-> outcome.ready,
                    dest |-> status.dest, error |-> outcome.error]
  OBVIOUS
<1> DEFINE found == IF searchable[status.dest] <= status.total
                    THEN searchable[status.dest] ELSE status.total
<1>5. /\ found \in Counts /\ 0 \in Counts
      /\ found = status.total => searchable[status.dest] >= status.total
  BY <1>2, BoundsAssumption DEF Counts
<1>6. \/ /\ outcome.ready = found
         /\ outcome.error = IF found = status.total THEN "none" ELSE "pending"
      \/ outcome.ready = 0 /\ outcome.error \in {"lost", "pending"}
  <2>1. CASE kept[status.dest]
    BY <1>3, <2>1 DEF Recounts
  <2>2. CASE ~kept[status.dest]
    BY <1>3, <2>2 DEF Recounts
  <2>3. QED
    BY <2>1, <2>2
<1>7. outcome.ready \in Counts /\ outcome.error \in {"none", "pending", "lost"}
  BY <1>5, <1>6
<1>8. c \in ReconStates
  BY <1>2, <1>4, <1>7 DEF ReconStates, Errors
<1>9. Grows /\ ArchiveHolds' /\ raw' = raw /\ searchable' = searchable /\ event' = event
  BY <1>1, WorldGrows DEF World
<1>10. DecisionHolds(c)'
  <2>1. CASE outcome.error = "none"
    <3>1. outcome.ready = status.total /\ searchable[status.dest] >= status.total
      BY <1>5, <1>6, <2>1
    <3>2. searchable[status.dest] = event.files /\ raw[status.dest] # "none"
      BY <1>1, <1>2, <3>1 DEF IInv, ArchiveHolds
    <3>3. QED
      BY <1>2, <1>4, <1>9, <3>1, <3>2 DEF DecisionHolds
  <2>2. CASE outcome.error # "none"
    BY <1>2, <1>4, <1>9, <2>2 DEF DecisionHolds
  <2>3. QED
    BY <2>1, <2>2
<1>11. recon' \in [Reconcilers -> ReconStates] /\ \A q \in Reconcilers : DecisionHolds(recon[q])'
  BY <1>3, <1>4, <1>8, <1>9, <1>10, ReconMoves
<1>12. handler' \in [Handlers -> HandlerStates] /\ \A g \in Handlers : Knows(handler[g])'
  BY <1>1, <1>9, HandlersStay
<1>13. QED
  BY <1>1, <1>9, <1>11, <1>12, Quiet DEF IInv, TypeOK, World

LEMMA PushStep ==
  ASSUME IInv, NEW r \in Reconcilers, Push(r)
  PROVE  IInv'
<1> DEFINE f == [target |-> IF recon[r].error = "none" THEN "ready" ELSE "partial",
                 counted |-> TRUE, total |-> recon[r].total, ready |-> recon[r].ready,
                 dest |-> recon[r].dest, path |-> FALSE, error |-> recon[r].error]
<1>1. /\ recon[r].pc = "decided" /\ advance(r, f)
      /\ recon' = [recon EXCEPT ![r] = NoChange]
      /\ UNCHANGED <<World, handler, deliveries>>
  BY DEF Push
<1>2. f \in Payloads
  BY ReconAt DEF ReconStates, Payloads, IngestStates
<1>3. FactHolds(f)
  BY <1>1, ReconAt DEF DecisionHolds, FactHolds
<1>4. PICK p \in Payloads : p = f /\ FactHolds(p)
  BY <1>2, <1>3
<1>5. Grows /\ ArchiveHolds'
  BY <1>1, WorldGrows DEF World
<1>6. PICK c : c = NoChange
  OBVIOUS
<1>7. c \in ReconStates /\ DecisionHolds(c)'
  BY <1>6, Types DEF IInv, NoChange, ReconStates, Archives, Errors, DecisionHolds
<1>8. recon' \in [Reconcilers -> ReconStates] /\ \A q \in Reconcilers : DecisionHolds(recon[q])'
  BY <1>1, <1>5, <1>6, <1>7, ReconMoves
<1>9. handler' \in [Handlers -> HandlerStates] /\ \A g \in Handlers : Knows(handler[g])'
  BY <1>1, <1>5, HandlersStay
<1>10. /\ status' \in Statuses /\ RowHolds(status)'
       /\ outbox' \in Seq(Payloads) /\ Len(outbox') <= MaxOutbox
       /\ drain'.by \in Handlers \cup Reconcilers \cup {"nobody", "traffic"}
       /\ drain'.todo \in Seq(Payloads) /\ drain'.left \in Seq(Payloads)
       /\ owed' \subseteq Payloads /\ faults' \in 0 .. MaxFaults /\ DrainHolds'
       /\ \A q \in Waiting' : FactHolds(q)
  BY <1>1, <1>4, AdvanceHolds
<1>11. (\A q \in Waiting : FactHolds(q))'
  BY <1>1, <1>10, WaitingStays
<1>12. TypeOK'
  BY <1>1, <1>8, <1>9, <1>10 DEF IInv, TypeOK, World
<1>13. QED
  BY <1>5, <1>8, <1>9, <1>10, <1>11, <1>12 DEF IInv

LEMMA ConvertStep ==
  ASSUME IInv, NEW a \in Archives, Convert(a)
  PROVE  IInv'
<1>1. /\ raw[a] # "none" /\ searchable[a] < event.files
      /\ searchable' = [searchable EXCEPT ![a] = @ + 1]
      /\ UNCHANGED <<event, raw, kept, revised, status, outbox, drain, handler, recon,
                     deliveries, faults, owed>>
  BY DEF Convert
<1>2. searchable \in [Archives -> Counts]
  BY DEF IInv, TypeOK
<1>3. /\ searchable' \in [Archives -> Counts] /\ searchable'[a] = searchable[a] + 1
      /\ \A b \in Archives : b # a => searchable'[b] = searchable[b]
  BY <1>1, <1>2, Types, BoundsAssumption DEF IInv, Counts
<1>4. Grows /\ ArchiveHolds'
  BY <1>1, <1>3, Types DEF IInv, Grows, ArchiveHolds
<1>5. handler' \in [Handlers -> HandlerStates] /\ \A g \in Handlers : Knows(handler[g])'
  BY <1>1, <1>4, HandlersStay
<1>6. recon' \in [Reconcilers -> ReconStates] /\ \A r \in Reconcilers : DecisionHolds(recon[r])'
  BY <1>1, <1>4, ReconsStay
<1>7. QED
  BY <1>1, <1>3, <1>4, <1>5, <1>6, Quiet DEF IInv, TypeOK

\* A step of a drain: the world stays, the actors know what they knew, and what waits
\* was waiting before.
LEMMA DrainStep ==
  ASSUME IInv, UNCHANGED <<World, deliveries>>,
         handler' \in [Handlers -> HandlerStates], \A g \in Handlers : Knows(handler[g])',
         recon' \in [Reconcilers -> ReconStates], \A r \in Reconcilers : DecisionHolds(recon[r])',
         status' \in Statuses, RowHolds(status)',
         outbox' \in Seq(Payloads), Len(outbox') <= MaxOutbox,
         drain'.by \in Handlers \cup Reconcilers \cup {"nobody", "traffic"},
         drain'.todo \in Seq(Payloads), drain'.left \in Seq(Payloads),
         DrainHolds', Waiting' \subseteq Waiting, owed' \subseteq owed,
         faults' \in 0 .. MaxFaults
  PROVE  IInv'
<1>1. ArchiveHolds'
  BY WorldGrows DEF World
<1>2. (\A q \in Waiting : FactHolds(q))'
  <2>1. \A q \in Waiting' : FactHolds(q)
    BY DEF IInv
  <2>2. QED
    BY <2>1, WaitingStays
<1>3. TypeOK'
  BY DEF IInv, TypeOK, World
<1>4. QED
  BY <1>1, <1>2, <1>3 DEF IInv

LEMMA ActorsStay ==
  ASSUME IInv, UNCHANGED <<World, handler, recon>>
  PROVE  /\ handler' \in [Handlers -> HandlerStates]
         /\ \A g \in Handlers : Knows(handler[g])'
         /\ recon' \in [Reconcilers -> ReconStates]
         /\ \A r \in Reconcilers : DecisionHolds(recon[r])'
<1>1. Grows
  BY WorldGrows DEF World
<1>2. QED
  BY <1>1, HandlersStay, ReconsStay

LEMMA StartDrainStep ==
  ASSUME IInv, StartDrain
  PROVE  IInv'
<1>1. /\ drain' = DrainBy("traffic")
      /\ UNCHANGED <<World, status, outbox, handler, recon, deliveries, faults, owed>>
  BY DEF StartDrain
<1>2. RowHolds(status)' /\ status' \in Statuses
  <2>1. Grows
    BY <1>1, WorldGrows DEF World
  <2>2. QED
    BY <1>1, <2>1, RowStays, Types DEF IInv
<1>3. /\ drain'.by \in Handlers \cup Reconcilers \cup {"nobody", "traffic"}
      /\ drain'.todo \in Seq(Payloads) /\ drain'.left \in Seq(Payloads)
      /\ DrainHolds' /\ Waiting' \subseteq Waiting
  BY <1>1, DrainStarts
<1>4. outbox \in Seq(Payloads) /\ Len(outbox) <= MaxOutbox /\ faults \in 0 .. MaxFaults
  BY DEF IInv, TypeOK
<1>5. QED
  BY <1>1, <1>2, <1>3, <1>4, ActorsStay, DrainStep

LEMMA DrainLineStep ==
  ASSUME IInv, DrainLine
  PROVE  IInv'
<1>1. drain.todo # <<>> /\ UNCHANGED <<World, outbox, handler, recon, deliveries>>
  BY DEF DrainLine
<1>2. /\ outbox \in Seq(Payloads) /\ Len(outbox) <= MaxOutbox
      /\ drain.by \in Handlers \cup Reconcilers \cup {"nobody", "traffic"}
      /\ drain.todo \in Seq(Payloads) /\ drain.left \in Seq(Payloads)
      /\ faults \in 0 .. MaxFaults /\ DrainHolds
  BY DEF IInv, TypeOK
<1>3. /\ Tail(drain.todo) \in Seq(Payloads) /\ Head(drain.todo) \in Payloads
      /\ Len(drain.todo) = Len(Tail(drain.todo)) + 1
      /\ Range(drain.todo) = Range(Tail(drain.todo)) \cup {Head(drain.todo)}
      /\ Len(Tail(drain.todo)) \in Nat /\ Len(drain.left) \in Nat
  BY <1>1, <1>2, RangeOfTail
<1>4. PICK p \in Payloads : p = Head(drain.todo)
  BY <1>3
<1>5. FactHolds(p)
  BY <1>3, <1>4 DEF IInv, Waiting
<1>6. drain.by # "nobody"
  BY <1>1, <1>2 DEF DrainHolds
<1>7. Len(Tail(drain.todo)) + 1 + Len(drain.left) <= MaxOutbox
  <2>1. Len(drain.todo) + Len(drain.left) <= MaxOutbox
    BY <1>2 DEF DrainHolds
  <2>2. PICK n \in Nat, m \in Nat : n = Len(Tail(drain.todo)) /\ m = Len(drain.left)
    BY <1>3
  <2>3. n + 1 + m <= MaxOutbox
    BY <1>3, <2>1, <2>2
  <2>4. QED
    BY <2>2, <2>3
<1> DEFINE rest == [drain EXCEPT !.todo = Tail(drain.todo)]
<1>8. CASE /\ status' = write(status, p) /\ drain' = rest /\ owed' = owed \ {p}
           /\ UNCHANGED faults
  <2>1. status' \in Statuses /\ RowHolds(status)'
    BY <1>1, <1>5, <1>8, RowWritten
  <2>2. drain'.by = drain.by /\ drain'.todo = Tail(drain.todo) /\ drain'.left = drain.left
    BY <1>8
  <2>3. DrainHolds'
    <3>1. owed' \subseteq Range(outbox') /\ drain'.by # "nobody"
      BY <1>1, <1>2, <1>6, <1>8, <2>2 DEF DrainHolds
    <3>2. owed \subseteq Range(Tail(drain.todo)) \cup {p} \cup Range(drain.left)
      BY <1>2, <1>3, <1>4, <1>6 DEF DrainHolds
    <3>3. owed' \subseteq Range(drain'.todo) \cup Range(drain'.left)
      BY <1>8, <2>2, <3>2
    <3>4. Len(drain'.todo) + Len(drain'.left) <= MaxOutbox
      <4>1. PICK n \in Nat, m \in Nat : n = Len(drain'.todo) /\ m = Len(drain'.left)
        BY <1>3, <2>2
      <4>2. n + 1 + m <= MaxOutbox
        BY <1>7, <2>2, <4>1
      <4>3. n + m <= MaxOutbox
        BY <4>2, BoundsAssumption
      <4>4. QED
        BY <4>1, <4>3
    <3>5. QED
      BY <3>1, <3>3, <3>4 DEF DrainHolds
  <2>4. Waiting' \subseteq Waiting
    BY <1>1, <1>3, <2>2 DEF Waiting
  <2>5. QED
    BY <1>1, <1>2, <1>3, <1>8, <2>1, <2>2, <2>3, <2>4, ActorsStay, DrainStep
<1>9. CASE /\ Fault /\ status' \in {status, write(status, p)}
           /\ drain' = [rest EXCEPT !.left = Append(drain.left, p)] /\ UNCHANGED owed
  <2>1. status' \in Statuses /\ RowHolds(status)'
    BY <1>1, <1>5, <1>9, RowWritten
  <2>2. /\ drain'.by = drain.by /\ drain'.todo = Tail(drain.todo)
        /\ drain'.left = Append(drain.left, p)
    BY <1>9
  <2>3. /\ Append(drain.left, p) \in Seq(Payloads)
        /\ Len(Append(drain.left, p)) = Len(drain.left) + 1
        /\ Range(Append(drain.left, p)) = Range(drain.left) \cup {p}
    BY <1>2, RangeOfAppend
  <2>4. DrainHolds'
    <3>1. owed' \subseteq Range(outbox') /\ drain'.by # "nobody"
      BY <1>1, <1>2, <1>6, <1>9, <2>2 DEF DrainHolds
    <3>2. owed \subseteq Range(Tail(drain.todo)) \cup {p} \cup Range(drain.left)
      BY <1>2, <1>3, <1>4, <1>6 DEF DrainHolds
    <3>3. owed' \subseteq Range(drain'.todo) \cup Range(drain'.left)
      BY <1>9, <2>2, <2>3, <3>2
    <3>4. Len(drain'.todo) + Len(drain'.left) <= MaxOutbox
      <4>1. PICK n \in Nat, m \in Nat : n = Len(drain'.todo) /\ m = Len(drain.left)
        BY <1>3, <2>2
      <4>2. n + 1 + m <= MaxOutbox /\ Len(drain'.left) = m + 1
        BY <1>7, <2>2, <2>3, <4>1
      <4>3. n + (m + 1) <= MaxOutbox
        BY <4>2, BoundsAssumption
      <4>4. QED
        BY <4>1, <4>2, <4>3
    <3>5. QED
      BY <3>1, <3>3, <3>4 DEF DrainHolds
  <2>5. Waiting' \subseteq Waiting
    BY <1>1, <1>3, <1>4, <2>2, <2>3 DEF Waiting
  <2>6. faults' \in 0 .. MaxFaults
    BY <1>2, <1>9, BoundsAssumption DEF Fault
  <2>7. QED
    BY <1>1, <1>2, <1>3, <1>9, <2>1, <2>2, <2>3, <2>4, <2>5, <2>6, ActorsStay, DrainStep
<1>10. QED
  BY <1>4, <1>8, <1>9 DEF DrainLine

LEMMA DrainEndsStep ==
  ASSUME IInv, DrainEnds
  PROVE  IInv'
<1>1. /\ drain.by # "nobody" /\ drain.todo = <<>>
      /\ outbox' = drain.left /\ drain' = NoDrain
      /\ UNCHANGED <<World, status, handler, recon, deliveries, faults, owed>>
  BY DEF DrainEnds
<1>2. /\ drain.left \in Seq(Payloads) /\ Len(drain.left) \in Nat /\ faults \in 0 .. MaxFaults
      /\ DrainHolds
  BY DEF IInv, TypeOK
<1>3. Range(<<>>) = {} /\ Len(<<>>) = 0 /\ <<>> \in Seq(Payloads)
  BY DEF Range
<1>4. drain'.by = "nobody" /\ drain'.todo = <<>> /\ drain'.left = <<>>
  BY <1>1 DEF NoDrain
<1>5. RowHolds(status)' /\ status' \in Statuses
  <2>1. Grows
    BY <1>1, WorldGrows DEF World
  <2>2. QED
    BY <1>1, <2>1, RowStays, Types DEF IInv
<1>6. Len(outbox') <= MaxOutbox /\ DrainHolds' /\ Waiting' \subseteq Waiting
  BY <1>1, <1>2, <1>3, <1>4, BoundsAssumption DEF DrainHolds, Waiting
<1>7. QED
  BY <1>1, <1>2, <1>3, <1>4, <1>5, <1>6, ActorsStay, DrainStep

LEMMA DrainDiesStep ==
  ASSUME IInv, DrainDies
  PROVE  IInv'
<1>1. /\ drain' = NoDrain
      /\ handler' = [h \in Handlers |-> IF h = drain.by THEN Absent ELSE handler[h]]
      /\ recon' = [r \in Reconcilers |-> IF r = drain.by THEN NoChange ELSE recon[r]]
      /\ UNCHANGED <<World, status, outbox, deliveries, faults, owed>>
  BY DEF DrainDies
<1>2. /\ outbox \in Seq(Payloads) /\ Len(outbox) <= MaxOutbox /\ faults \in 0 .. MaxFaults
      /\ DrainHolds
      /\ handler \in [Handlers -> HandlerStates] /\ recon \in [Reconcilers -> ReconStates]
  BY DEF IInv, TypeOK
<1>3. Range(<<>>) = {} /\ Len(<<>>) = 0 /\ <<>> \in Seq(Payloads)
  BY DEF Range
<1>4. drain'.by = "nobody" /\ drain'.todo = <<>> /\ drain'.left = <<>>
  BY <1>1 DEF NoDrain
<1>5. Grows
  BY <1>1, WorldGrows DEF World
<1>6. RowHolds(status)' /\ status' \in Statuses
  BY <1>1, <1>5, RowStays, Types DEF IInv
<1>7. DrainHolds' /\ Waiting' \subseteq Waiting
  BY <1>1, <1>2, <1>3, <1>4, BoundsAssumption DEF DrainHolds, Waiting
<1>8. Absent \in HandlerStates /\ NoChange \in ReconStates
  BY Types DEF IInv, HandlerStates, ReconStates, Absent, NoChange, Archives, Errors
<1>9. handler' \in [Handlers -> HandlerStates] /\ recon' \in [Reconcilers -> ReconStates]
  BY <1>1, <1>2, <1>8
<1>10. ASSUME NEW g \in Handlers
       PROVE  Knows(handler[g])'
  <2>1. CASE handler'[g] = handler[g]
    <3>1. PICK t \in HandlerStates : t = handler[g]
      BY <1>2
    <3>2. Knows(t)'
      <4>1. Knows(t)
        BY <3>1 DEF IInv, Knows
      <4>2. QED
        BY <1>5, <4>1, KnowsStays DEF IInv
    <3>3. QED
      BY <2>1, <3>1, <3>2 DEF Knows
  <2>2. CASE handler'[g] = Absent
    <3>1. searchable'["shadow"] \in Nat
      BY <1>5 DEF Grows, Archives
    <3>2. QED
      BY <2>2, <3>1 DEF Knows, Absent
  <2>3. QED
    BY <1>1, <2>1, <2>2
<1>11. ASSUME NEW q \in Reconcilers
       PROVE  DecisionHolds(recon[q])'
  <2>1. CASE recon'[q] = recon[q]
    <3>1. PICK t \in ReconStates : t = recon[q]
      BY <1>2
    <3>2. DecisionHolds(t)'
      <4>1. DecisionHolds(t)
        BY <3>1 DEF IInv, DecisionHolds
      <4>2. QED
        BY <1>5, <4>1, DecisionStays DEF IInv
    <3>3. QED
      BY <2>1, <3>1, <3>2 DEF DecisionHolds
  <2>2. CASE recon'[q] = NoChange
    BY <2>2 DEF DecisionHolds, NoChange
  <2>3. QED
    BY <1>1, <2>1, <2>2
<1>12. QED
  BY <1>1, <1>2, <1>3, <1>4, <1>6, <1>7, <1>9, <1>10, <1>11, DrainStep

LEMMA Stutter ==
  ASSUME IInv, UNCHANGED vars
  PROVE  IInv'
<1>1. UNCHANGED <<World, status, outbox, drain, handler, recon, deliveries, faults, owed>>
  BY DEF vars, World
<1>2. Grows /\ ArchiveHolds'
  BY <1>1, WorldGrows DEF World
<1>3. QED
  BY <1>1, <1>2, ActorsStay, Quiet DEF IInv, TypeOK, World

(***************************************************************************)
(* The invariant.                                                          *)
(***************************************************************************)
LEMMA InitHolds == Init => IInv
<1> SUFFICES ASSUME Init
             PROVE  IInv
  OBVIOUS
<1>1. Range(<<>>) = {} /\ Len(<<>>) = 0 /\ <<>> \in Seq(Payloads)
  BY DEF Range
<1>2. event.files \in Nat /\ 0 \in Counts
  BY BoundsAssumption DEF Init, Events, Counts
<1>3. Absent \in HandlerStates /\ NoChange \in ReconStates /\ NoStatus \in Statuses
  BY <1>2 DEF HandlerStates, ReconStates, Statuses, Absent, NoChange, NoStatus, Archives, Errors
<1>4. TypeOK
  <2>1. /\ raw \in [Archives -> {"none", "part", "whole"}]
        /\ kept \in [Archives -> BOOLEAN]
        /\ searchable \in [Archives -> Counts]
    BY <1>2 DEF Init
  <2>2. /\ handler \in [Handlers -> HandlerStates]
        /\ recon \in [Reconcilers -> ReconStates]
    BY <1>3 DEF Init
  <2>3. /\ drain.by = "nobody" /\ drain.todo = <<>> /\ drain.left = <<>>
        /\ event \in Events /\ status \in Statuses /\ outbox = <<>> /\ revised \in BOOLEAN
        /\ deliveries = 0 /\ faults = 0 /\ owed = {}
    BY <1>3 DEF Init, NoDrain
  <2>4. QED
    BY <1>1, <2>1, <2>2, <2>3, BoundsAssumption DEF TypeOK
<1>5. ArchiveHolds /\ RowHolds(status)
  BY <1>2 DEF Init, ArchiveHolds, RowHolds, NoStatus
<1>6. (\A p \in Waiting : FactHolds(p)) /\ DrainHolds
  BY <1>1, BoundsAssumption DEF Init, Waiting, DrainHolds, NoDrain
<1>7. \A h \in Handlers : Knows(handler[h])
  BY <1>2 DEF Init, Knows, Absent, Archives
<1>8. \A r \in Reconcilers : DecisionHolds(recon[r])
  BY DEF Init, DecisionHolds, NoChange
<1>9. QED
  BY <1>4, <1>5, <1>6, <1>7, <1>8 DEF IInv

LEMMA NextHolds == IInv /\ [Next]_vars => IInv'
<1> SUFFICES ASSUME IInv, [Next]_vars
             PROVE  IInv'
  OBVIOUS
<1>1. ASSUME NEW h \in Handlers, HandlerStep(h)
      PROVE  IInv'
  BY <1>1, DeliverStep, StageStep, IngestStep, WriteDocsStep, ConfirmStep, ReviseStep, AckStep,
     AbortStep DEF HandlerStep
<1>2. CASE \E r \in Reconcilers : Recount(r) \/ Push(r)
  BY <1>2, RecountStep, PushStep
<1>3. CASE \E a \in Archives : Convert(a)
  BY <1>3, ConvertStep
<1>4. CASE StartDrain \/ DrainLine \/ DrainEnds \/ DrainDies
  BY <1>4, StartDrainStep, DrainLineStep, DrainEndsStep, DrainDiesStep
<1>5. CASE UNCHANGED vars
  BY <1>5, Stutter
<1>6. QED
  BY <1>1, <1>2, <1>3, <1>4, <1>5 DEF Next

LEMMA Invariance == Spec => []IInv
  BY InitHolds, NextHolds, PTL DEF Spec

(***************************************************************************)
(* Theorems.                                                               *)
(***************************************************************************)

\* Every row, line and step keeps its type; the outbox keeps to its bound.
THEOREM TypeCorrect == Spec => []TypeOK
<1>1. IInv => TypeOK
  BY DEF IInv
<1>2. QED
  BY <1>1, Invariance, PTL

\* A row that says ready is about an archive that holds the message and each of its
\* attachments in searchable form (ingest_ack.is_searchable).
THEOREM ReadyIsSearchable == Spec => []ReadyMeansSearchable
<1>1. IInv => ReadyMeansSearchable
  BY DEF IInv, RowHolds, ReadyMeansSearchable
<1>2. QED
  BY <1>1, Invariance, PTL

\* No fact that was spooled is lost between the file, the drain and the database
\* (ingest_ack.drain_outbox).
THEOREM NothingOwedIsLost == Spec => []OutboxHoldsWhatIsOwed
<1>1. IInv => OutboxHoldsWhatIsOwed
  BY DEF IInv, DrainHolds, OutboxHoldsWhatIsOwed
<1>2. QED
  BY <1>1, Invariance, PTL

\* Pushing a line of the outbox twice is the same as once (ingest_ack.drain_outbox).
THEOREM ReplayIsIdle == Spec => []ReplayChangesNothing
<1>1. ASSUME IInv
      PROVE  ReplayChangesNothing
  <2>1. status \in Statuses /\ outbox \in Seq(Payloads)
    BY <1>1 DEF IInv, TypeOK
  <2>2. Range(outbox) \subseteq Payloads
    BY <2>1 DEF Range
  <2>3. QED
    BY <2>1, <2>2, WriteTwice DEF ReplayChangesNothing
<1>2. QED
  BY <1>1, Invariance, PTL

\* What advance does to the row is a step of the promise, or none.
LEMMA AdvanceKeepsPromise ==
  ASSUME IInv, NEW who, NEW p \in Payloads, FactHolds(p), advance(who, p)
  PROVE  [Promise!Next]_<<status.state, status.dest>>
<1>1. status' = status \/ status' = write(status, p)
  BY DEF advance, Recorded, Spooled, Dropped
<1>2. QED
  BY <1>1, WriteKeepsPromise DEF IInv

\* So is what any step does to it.
LEMMA StepKeepsPromise ==
  ASSUME IInv, [Next]_vars
  PROVE  [Promise!Next]_<<status.state, status.dest>>
<1>1. ASSUME NEW h \in Handlers, Ack(h)
      PROVE  [Promise!Next]_<<status.state, status.dest>>
  <2>1. handler[h].pc \in AckSteps /\ advance(h, Payload(h))
    BY <1>1 DEF Ack
  <2>2. PICK p \in Payloads : p = Payload(h) /\ FactHolds(p)
    BY <2>1, PayloadHolds
  <2>3. QED
    BY <2>1, <2>2, AdvanceKeepsPromise
<1>2. ASSUME NEW r \in Reconcilers, Push(r)
      PROVE  [Promise!Next]_<<status.state, status.dest>>
  <2> DEFINE f == [target |-> IF recon[r].error = "none" THEN "ready" ELSE "partial",
                   counted |-> TRUE, total |-> recon[r].total, ready |-> recon[r].ready,
                   dest |-> recon[r].dest, path |-> FALSE, error |-> recon[r].error]
  <2>1. recon[r].pc = "decided" /\ advance(r, f)
    BY <1>2 DEF Push
  <2>2. f \in Payloads /\ FactHolds(f)
    BY <2>1, ReconAt DEF ReconStates, Payloads, IngestStates, DecisionHolds, FactHolds
  <2>3. PICK p \in Payloads : p = f /\ FactHolds(p)
    BY <2>2
  <2>4. QED
    BY <2>1, <2>3, AdvanceKeepsPromise
<1>3. CASE DrainLine
  <2>1. drain.todo # <<>> /\ drain.todo \in Seq(Payloads)
    BY <1>3 DEF DrainLine, IInv, TypeOK
  <2>2. Head(drain.todo) \in Payloads /\ Head(drain.todo) \in Range(drain.todo)
    BY <2>1, RangeOfTail
  <2>3. PICK p \in Payloads : p = Head(drain.todo) /\ FactHolds(p)
    BY <2>2 DEF IInv, Waiting
  <2>4. status' = status \/ status' = write(status, p)
    BY <1>3, <2>3 DEF DrainLine
  <2>5. QED
    BY <2>3, <2>4, WriteKeepsPromise DEF IInv
<1>4. CASE UNCHANGED status
  BY <1>4
<1>5. ASSUME NEW h \in Handlers, HandlerStep(h), ~Ack(h)
      PROVE  UNCHANGED status
  BY <1>5 DEF HandlerStep, Deliver, Stage, Ingest, WriteDocs, Confirm, Revise, Abort
<1>6. ASSUME NEW r \in Reconcilers, Recount(r)
      PROVE  UNCHANGED status
  BY <1>6 DEF Recount
<1>7. ASSUME NEW a \in Archives, Convert(a)
      PROVE  UNCHANGED status
  BY <1>7 DEF Convert
<1>8. CASE StartDrain \/ DrainEnds \/ DrainDies
  BY <1>4, <1>8 DEF StartDrain, DrainEnds, DrainDies
<1>9. CASE UNCHANGED vars
  BY <1>4, <1>9 DEF vars
<1>10. QED
  BY <1>1, <1>2, <1>3, <1>4, <1>5, <1>6, <1>7, <1>8, <1>9 DEF Next

\* The ingest acknowledgement implements its promise: through retries, an outbox and
\* concurrent deliveries, the row moves only forward, an end is an end, and searchable in
\* the operational archive is never taken back (archiving_state.py, ingest_ack.py).
THEOREM ImplementsPromise == Spec => PromiseKept
<1>1. Init => Promise!Init
  BY DEF Init, NoStatus, Promise!Init
<1>2. QED
  BY <1>1, StepKeepsPromise, Invariance, PTL DEF Spec, PromiseKept, Promise!Spec

(***************************************************************************)
(* Who may say ready or refused.  Two things documents and schema say of   *)
(* these states are not so (MCReadyUnchecked, MCRefusedInPart); what       *)
(* follows shows that each has the one cause named there.                  *)
(***************************************************************************)
Vouched(target) ==
  /\ target = "refused" => Refused
  /\ target = "ready" /\ Reconcilers = {} => ~Refused /\ revised

\* A handler goes on to the revision only of a message that is not refused at all, and past
\* it only with the revision recorded.
MayBe(pc) ==
  /\ pc = "screened" => Refused
  /\ pc = "revise" => ~Refused
  /\ pc = "final" => ~Refused /\ revised

EndsAreVouched ==
  /\ event.screened = "all" => \A a \in Archives : raw[a] = "none"
  /\ \A h \in Handlers : MayBe(handler[h].pc)
  /\ \A p \in Waiting : Vouched(p.target)
  /\ Vouched(status.state)

LEMMA WriteSays ==
  ASSUME NEW st \in Statuses, NEW p \in Payloads
  PROVE  write(st, p).state \in {st.state, p.target}
<1>1. [st EXCEPT !.dest = "live"].state = st.state /\ Stated(st, p).state = p.target
  BY DEF Statuses, Stated
<1>2. QED
  BY <1>1, WriteCases

LEMMA VouchedStays ==
  ASSUME event' = event, revised => revised', NEW target, Vouched(target)
  PROVE  Vouched(target)'
  BY DEF Vouched, Refused

\* The row and what waits for it, after a step that may have written the fact p or put it on.
LEMMA RowIsVouched ==
  ASSUME IInv, EndsAreVouched, event' = event, revised => revised',
         NEW p \in Payloads, Vouched(p.target),
         status' \in {status, write(status, p)}, Waiting' \subseteq Waiting \cup {p}
  PROVE  (\A q \in Waiting : Vouched(q.target))' /\ Vouched(status.state)'
<1>1. \A target : Vouched(target) => Vouched(target)'
  BY VouchedStays
<1>2. status'.state \in {status.state, p.target}
  BY WriteSays DEF IInv, TypeOK
<1>3. Vouched(status.state)'
  BY <1>2 DEF EndsAreVouched, Vouched, Refused
<1>4. ASSUME NEW q \in Waiting'
      PROVE  Vouched(q.target)'
  BY <1>4 DEF EndsAreVouched, Vouched, Refused
<1>5. QED
  BY <1>3, <1>4 DEF Vouched, Refused

LEMMA AdvanceWaits ==
  ASSUME IInv, NEW who \in Handlers \cup Reconcilers, NEW p \in Payloads, advance(who, p)
  PROVE  status' \in {status, write(status, p)} /\ Waiting' \subseteq Waiting \cup {p}
<1>1. CASE Recorded(who, p)
  <2>1. status' = write(status, p) /\ UNCHANGED <<outbox, owed>>
    BY <1>1 DEF Recorded
  <2>2. drain' = drain \/ drain' = DrainBy(who)
    BY <1>1 DEF Recorded
  <2>3. Waiting' \subseteq Waiting
    BY <2>1, <2>2, DrainStarts DEF Waiting
  <2>4. QED
    BY <2>1, <2>3
<1>2. CASE Spooled(p)
  <2>1. Range(Append(outbox, p)) = Range(outbox) \cup {p}
    BY RangeOfAppend DEF IInv, TypeOK
  <2>2. QED
    BY <1>2, <2>1 DEF Spooled, Waiting
<1>3. CASE Dropped
  BY <1>3 DEF Dropped, Waiting
<1>4. QED
  BY <1>1, <1>2, <1>3 DEF advance

\* A handler goes where it may, and the others stay.
LEMMA HandlersMayBe ==
  ASSUME IInv, EndsAreVouched, event' = event, revised => revised',
         NEW h \in Handlers, NEW s, MayBe(s.pc)', GoTo(h, s)
  PROVE  (\A g \in Handlers : MayBe(handler[g].pc))'
<1>1. handler \in [Handlers -> HandlerStates]
  BY DEF IInv, TypeOK
<1>2. ASSUME NEW g \in Handlers, g # h
      PROVE  MayBe(handler[g].pc)'
  <2>1. handler'[g] = handler[g]
    BY <1>1, <1>2 DEF GoTo
  <2>2. QED
    BY <2>1 DEF EndsAreVouched, MayBe, Refused
<1>3. MayBe(handler[h].pc)'
  BY <1>1 DEF GoTo, MayBe, Refused
<1>4. QED
  BY <1>2, <1>3

\* Handlers that stay, or start over.
LEMMA HandlersRest ==
  ASSUME EndsAreVouched, event' = event, revised => revised',
         \A h \in Handlers : handler'[h] \in {handler[h], Absent}
  PROVE  (\A h \in Handlers : MayBe(handler[h].pc))'
  BY DEF EndsAreVouched, MayBe, Refused, Absent

\* Nothing is written and nothing new waits.
LEMMA RowRests ==
  ASSUME EndsAreVouched, event' = event, revised => revised', status' = status,
         Waiting' \subseteq Waiting
  PROVE  (\A q \in Waiting : Vouched(q.target))' /\ Vouched(status.state)'
  BY DEF EndsAreVouched, Vouched, Refused

LEMMA HandlerKeepsEndsVouched ==
  ASSUME IInv, EndsAreVouched, NEW h \in Handlers, HandlerStep(h), ~Ack(h)
  PROVE  EndsAreVouched'
<1>1. /\ event' = event /\ status' = status /\ outbox' = outbox /\ drain' = drain
      /\ revised => revised'
  <2>1. CASE Ingest(h)
    BY <2>1 DEF Ingest
  <2>2. CASE Revise(h)
    BY <2>2 DEF Revise
  <2>3. CASE Deliver(h) \/ Confirm(h) \/ Abort(h)
    <3>1. UNCHANGED <<World, status, outbox, drain>>
      BY <2>3 DEF Deliver, Confirm, Abort
    <3>2. QED
      BY <3>1 DEF World
  <2>4. CASE Stage(h)
    BY <2>4 DEF Stage
  <2>5. CASE WriteDocs(h)
    BY <2>5 DEF WriteDocs
  <2>6. QED
    BY <2>1, <2>2, <2>3, <2>4, <2>5 DEF HandlerStep
<1>2. (\A q \in Waiting : Vouched(q.target))' /\ Vouched(status.state)'
  BY <1>1, RowRests DEF Waiting
<1>3. (event.screened = "all" => \A a \in Archives : raw[a] = "none")'
  <2>1. CASE Ingest(h)
    <3>1. raw \in [Archives -> {"none", "part", "whole"}] /\ handler[h].dest \in Archives
      BY HandlerAt DEF IInv, TypeOK
    <3>2. event.screened = "all" => raw' = [raw EXCEPT ![handler[h].dest] = @]
      BY <2>1 DEF Ingest
    <3>3. event.screened = "all" => raw' = raw
      BY <3>1, <3>2
    <3>4. QED
      BY <1>1, <3>3 DEF EndsAreVouched
  <2>2. CASE raw' = raw
    BY <1>1, <2>2 DEF EndsAreVouched
  <2>3. QED
    BY <2>1, <2>2 DEF HandlerStep, Deliver, Stage, WriteDocs, Confirm, Revise, Abort, World
<1>4. \A pc \in (WorkSteps \ {"revise"}) \cup {"received", "empty", "raw", "pending",
                                               "unconfirmed", "unrevised", "idle"} : MayBe(pc)'
  BY DEF MayBe, WorkSteps
<1>5. \A pc : pc = AfterFiles => MayBe(pc)'
  BY <1>1 DEF MayBe, AfterFiles, Refused
<1>6. handler[h] \in HandlerStates /\ Absent.pc = "idle"
  BY HandlerAt DEF Absent
<1>7. \E s : GoTo(h, s) /\ MayBe(s.pc)'
  <2>1. CASE Deliver(h)
    <3>1. PICK a \in Archives : GoTo(h, [Absent EXCEPT !.pc = "received", !.dest = a])
      BY <2>1 DEF Deliver
    <3>2. [Absent EXCEPT !.pc = "received", !.dest = a].pc = "received"
      BY DEF Absent
    <3>3. QED
      BY <1>4, <3>1, <3>2
  <2>2. CASE Stage(h)
    <3>1. PICK pc \in {"empty", "ingest"} : GoTo(h, [handler[h] EXCEPT !.pc = pc])
      BY <2>2 DEF Stage
    <3>2. [handler[h] EXCEPT !.pc = pc].pc = pc
      BY <1>6 DEF HandlerStates
    <3>3. QED
      BY <1>4, <3>1, <3>2 DEF MayBe, WorkSteps
  <2>3. CASE Ingest(h)
    <3> DEFINE wrote == raw[handler[h].dest] = "none" /\ event.screened # "all"
               pc == CASE wrote \/ ~Refused                          -> "raw"
                       [] ~(wrote \/ ~Refused) /\ event.files > 0    -> "pending"
                       [] ~(wrote \/ ~Refused) /\ event.files = 0    -> "screened"
    <3>1. /\ GoTo(h, [handler[h] EXCEPT !.wrote = wrote, !.pc = pc])
          /\ pc = "screened" => Refused
      <4>1. event.files = 0 \/ event.files > 0
        BY Types DEF IInv
      <4>2. QED
        BY <2>3, <4>1 DEF Ingest
    <3>2. \A w, p : [handler[h] EXCEPT !.wrote = w, !.pc = p].pc = p
      BY <1>6 DEF HandlerStates
    <3>3. \A p : p = pc => MayBe(p)'
      BY <1>1, <3>1, Types DEF MayBe, Refused, IInv
    <3>4. PICK s : s = [handler[h] EXCEPT !.wrote = wrote, !.pc = pc]
      OBVIOUS
    <3>5. PICK p : p = pc
      OBVIOUS
    <3>6. GoTo(h, s) /\ s.pc = p
      BY <3>1, <3>2, <3>4, <3>5
    <3>7. MayBe(p)'
      BY <3>3, <3>5 DEF MayBe
    <3>8. QED
      BY <3>6, <3>7 DEF MayBe
  <2>4. CASE WriteDocs(h)
    <3>1. PICK seen : GoTo(h, [handler[h] EXCEPT !.pc = "pending", !.ready = seen])
      BY <2>4 DEF WriteDocs
    <3>2. [handler[h] EXCEPT !.pc = "pending", !.ready = seen].pc = "pending"
      BY <1>6 DEF HandlerStates
    <3>3. QED
      BY <1>4, <3>1, <3>2
  <2>5. CASE Confirm(h)
    <3>1. CASE GoTo(h, [handler[h] EXCEPT !.pc = "unconfirmed"])
      <4>1. [handler[h] EXCEPT !.pc = "unconfirmed"].pc = "unconfirmed"
        BY <1>6 DEF HandlerStates
      <4>2. QED
        BY <1>4, <3>1, <4>1
    <3>2. ASSUME NEW error, GoTo(h, [handler[h] EXCEPT !.pc = AfterFiles, !.error = error])
          PROVE  \E s : GoTo(h, s) /\ MayBe(s.pc)'
      <4>1. [handler[h] EXCEPT !.pc = AfterFiles, !.error = error].pc = AfterFiles
        BY <1>6 DEF HandlerStates
      <4>2. QED
        BY <1>5, <3>2, <4>1 DEF MayBe
    <3>3. CASE GoTo(h, [handler[h] EXCEPT !.pc = AfterFiles, !.ready = 0, !.error = "lost"])
      <4>1. [handler[h] EXCEPT !.pc = AfterFiles, !.ready = 0, !.error = "lost"].pc = AfterFiles
        BY <1>6 DEF HandlerStates
      <4>2. QED
        BY <1>5, <3>3, <4>1 DEF MayBe
    <3>4. QED
      BY <2>5, <3>1, <3>2, <3>3 DEF Confirm
  <2>6. CASE Revise(h)
    <3>1. handler[h].pc = "revise"
      BY <2>6 DEF Revise, At
    <3>2. ~Refused
      BY <3>1 DEF EndsAreVouched, MayBe
    <3>3. PICK pc \in {"final", "unrevised"} : /\ GoTo(h, [handler[h] EXCEPT !.pc = pc])
                                               /\ pc = "final" => revised'
      BY <2>6 DEF Revise
    <3>4. [handler[h] EXCEPT !.pc = pc].pc = pc
      BY <1>6 DEF HandlerStates
    <3>5. MayBe(pc)'
      BY <1>1, <3>2, <3>3 DEF MayBe, Refused
    <3>6. QED
      BY <3>3, <3>4, <3>5
  <2>7. CASE Abort(h)
    BY <1>4, <1>6, <2>7 DEF Abort
  <2>8. QED
    BY <2>1, <2>2, <2>3, <2>4, <2>5, <2>6, <2>7 DEF HandlerStep
<1>8. (\A g \in Handlers : MayBe(handler[g].pc))'
  BY <1>1, <1>7, HandlersMayBe
<1>9. QED
  BY <1>2, <1>3, <1>8 DEF EndsAreVouched

LEMMA AckKeepsEndsVouched ==
  ASSUME IInv, EndsAreVouched, NEW h \in Handlers, Ack(h)
  PROVE  EndsAreVouched'
<1>1. /\ handler[h].pc \in AckSteps /\ advance(h, Payload(h)) /\ GoTo(h, AfterAck(h))
      /\ UNCHANGED World /\ MayBe(handler[h].pc)
  BY DEF Ack, EndsAreVouched
<1>2. event' = event /\ raw' = raw /\ (revised => revised')
  BY <1>1 DEF World
<1>3. PICK p \in Payloads : p = Payload(h)
  BY <1>1, PayloadHolds
<1>4. Vouched(p.target)
  <2>1. CASE handler[h].pc = "screened"
    <3>1. p.target # "ready"
      BY <1>3, <2>1 DEF Payload, Fact
    <3>2. Refused
      BY <1>1, <2>1 DEF MayBe
    <3>3. QED
      BY <3>1, <3>2 DEF Vouched
  <2>2. CASE handler[h].pc = "final"
    <3>1. p.target # "refused"
      BY <1>3, <2>2 DEF Payload, Fact, FinalState
    <3>2. ~Refused /\ revised
      BY <1>1, <2>2 DEF MayBe
    <3>3. QED
      BY <3>1, <3>2 DEF Vouched
  <2>3. CASE handler[h].pc \notin {"screened", "final"}
    <3>1. p.target \notin {"ready", "refused"}
      BY <1>1, <1>3, <2>3 DEF Payload, Fact, AckSteps
    <3>2. QED
      BY <3>1 DEF Vouched
  <2>4. QED
    BY <2>1, <2>2, <2>3
<1>5. (\A q \in Waiting : Vouched(q.target))' /\ Vouched(status.state)'
  BY <1>1, <1>2, <1>3, <1>4, AdvanceWaits, RowIsVouched
<1>6. (\A g \in Handlers : MayBe(handler[g].pc))'
  <2>1. PICK s : s = AfterAck(h)
    OBVIOUS
  <2>2. s.pc \notin {"screened", "revise", "final"} \/ s.pc = AfterFiles
    BY <1>1, <2>1, HandlerAt DEF AfterAck, HandlerStates, Absent
  <2>3. MayBe(s.pc)'
    BY <1>2, <2>2 DEF MayBe, AfterFiles, Refused
  <2>4. QED
    BY <1>1, <1>2, <2>1, <2>3, HandlersMayBe
<1>7. QED
  BY <1>2, <1>5, <1>6 DEF EndsAreVouched

LEMMA PushKeepsEndsVouched ==
  ASSUME IInv, EndsAreVouched, NEW r \in Reconcilers, Push(r)
  PROVE  EndsAreVouched'
<1> DEFINE f == [target |-> IF recon[r].error = "none" THEN "ready" ELSE "partial",
                 counted |-> TRUE, total |-> recon[r].total, ready |-> recon[r].ready,
                 dest |-> recon[r].dest, path |-> FALSE, error |-> recon[r].error]
<1>1. recon[r].pc = "decided" /\ advance(r, f) /\ UNCHANGED <<World, handler>>
  BY DEF Push
<1>2. f \in Payloads /\ f.target # "refused"
  BY <1>1, ReconAt DEF ReconStates, Payloads, IngestStates
<1>3. PICK p \in Payloads : p = f
  BY <1>2
<1>4. Vouched(p.target)
  BY <1>2, <1>3 DEF Vouched
<1>5. event' = event /\ raw' = raw /\ (revised => revised')
  BY <1>1 DEF World
<1>6. (\A q \in Waiting : Vouched(q.target))' /\ Vouched(status.state)'
  BY <1>1, <1>3, <1>4, <1>5, AdvanceWaits, RowIsVouched
<1>7. (\A g \in Handlers : MayBe(handler[g].pc))'
  BY <1>1, <1>5, HandlersRest
<1>8. QED
  BY <1>5, <1>6, <1>7 DEF EndsAreVouched

LEMMA DrainKeepsEndsVouched ==
  ASSUME IInv, EndsAreVouched, StartDrain \/ DrainLine \/ DrainEnds \/ DrainDies
  PROVE  EndsAreVouched'
<1>1. event' = event /\ raw' = raw /\ (revised => revised')
  <2>1. UNCHANGED World
    BY DEF StartDrain, DrainLine, DrainEnds, DrainDies
  <2>2. QED
    BY <2>1 DEF World
<1>2. (\A g \in Handlers : MayBe(handler[g].pc))'
  <2>1. \A g \in Handlers : handler'[g] \in {handler[g], Absent}
    BY DEF StartDrain, DrainLine, DrainEnds, DrainDies
  <2>2. QED
    BY <1>1, <2>1, HandlersRest
<1>3. Range(<<>>) = {}
  BY DEF Range
<1>4. (\A q \in Waiting : Vouched(q.target))' /\ Vouched(status.state)'
  <2>1. CASE DrainLine
    <3>1. /\ drain.todo # <<>> /\ drain.todo \in Seq(Payloads) /\ drain.left \in Seq(Payloads)
          /\ outbox' = outbox
      BY <2>1 DEF DrainLine, IInv, TypeOK
    <3>2. /\ Head(drain.todo) \in Payloads /\ Tail(drain.todo) \in Seq(Payloads)
          /\ Range(drain.todo) = Range(Tail(drain.todo)) \cup {Head(drain.todo)}
      BY <3>1, RangeOfTail
    <3>3. PICK p \in Payloads : p = Head(drain.todo)
      BY <3>2
    <3>4. Vouched(p.target)
      BY <3>2, <3>3 DEF EndsAreVouched, Waiting
    <3>5. Range(Append(drain.left, p)) = Range(drain.left) \cup {p}
      BY <3>1, RangeOfAppend
    <3>6. /\ status' \in {status, write(status, p)}
          /\ drain'.todo = Tail(drain.todo)
          /\ drain'.left \in {drain.left, Append(drain.left, p)}
      <4> DEFINE rest == [drain EXCEPT !.todo = Tail(drain.todo)]
      <4>1. /\ status' \in {status, write(status, p)}
            /\ \/ drain' = rest
               \/ drain' = [rest EXCEPT !.left = Append(drain.left, p)]
        BY <2>1, <3>3 DEF DrainLine
      <4>2. drain' = rest => drain'.todo = Tail(drain.todo) /\ drain'.left = drain.left
        OBVIOUS
      <4>3. drain' = [rest EXCEPT !.left = Append(drain.left, p)] =>
              drain'.todo = Tail(drain.todo) /\ drain'.left \in {drain.left, Append(drain.left, p)}
        OBVIOUS
      <4>4. QED
        BY <4>1, <4>2, <4>3
    <3>7. Waiting' \subseteq Waiting \cup {p}
      BY <3>1, <3>2, <3>5, <3>6 DEF Waiting
    <3>8. QED
      BY <1>1, <3>4, <3>6, <3>7, RowIsVouched
  <2>2. CASE StartDrain
    <3>1. drain' = DrainBy("traffic") /\ outbox' = outbox /\ owed' = owed
      BY <2>2 DEF StartDrain
    <3>2. Waiting' \subseteq Waiting
      BY <3>1, DrainStarts
    <3>3. QED
      BY <1>1, <2>2, <3>2, RowRests DEF StartDrain
  <2>3. CASE DrainEnds \/ DrainDies
    <3>1. drain'.todo = <<>> /\ drain'.left = <<>> /\ outbox' \in {outbox, drain.left}
      BY <2>3 DEF DrainEnds, DrainDies, NoDrain
    <3>2. Waiting' \subseteq Waiting
      BY <1>3, <3>1 DEF Waiting
    <3>3. QED
      BY <1>1, <2>3, <3>2, RowRests DEF DrainEnds, DrainDies
  <2>4. QED
    BY <2>1, <2>2, <2>3
<1>5. QED
  BY <1>1, <1>2, <1>4 DEF EndsAreVouched

LEMMA StepKeepsEndsVouched == IInv /\ EndsAreVouched /\ [Next]_vars => EndsAreVouched'
<1> SUFFICES ASSUME IInv, EndsAreVouched, [Next]_vars
             PROVE  EndsAreVouched'
  OBVIOUS
<1>1. ASSUME NEW h \in Handlers, HandlerStep(h)
      PROVE  EndsAreVouched'
  BY <1>1, HandlerKeepsEndsVouched, AckKeepsEndsVouched
<1>2. ASSUME NEW r \in Reconcilers, Push(r)
      PROVE  EndsAreVouched'
  BY <1>2, PushKeepsEndsVouched
<1>3. CASE StartDrain \/ DrainLine \/ DrainEnds \/ DrainDies
  BY <1>3, DrainKeepsEndsVouched
<1>4. CASE UNCHANGED <<event, raw, revised, status, outbox, drain, handler>>
  BY <1>4 DEF EndsAreVouched, MayBe, Vouched, Refused, Waiting
<1>5. ASSUME NEW r \in Reconcilers, Recount(r)
      PROVE  UNCHANGED <<event, raw, revised, status, outbox, drain, handler>>
  BY <1>5 DEF Recount, World
<1>6. ASSUME NEW a \in Archives, Convert(a)
      PROVE  UNCHANGED <<event, raw, revised, status, outbox, drain, handler>>
  BY <1>6 DEF Convert
<1>7. CASE UNCHANGED vars
  BY <1>4, <1>7 DEF vars
<1>8. QED
  BY <1>1, <1>2, <1>3, <1>4, <1>5, <1>6, <1>7 DEF Next

LEMMA VouchingInvariant == Spec => []EndsAreVouched
<1>1. Init => EndsAreVouched
  <2>1. Range(<<>>) = {}
    BY DEF Range
  <2>2. QED
    BY <2>1 DEF Init, EndsAreVouched, MayBe, Vouched, Waiting, NoStatus, NoDrain, Absent
<1>2. QED
  BY <1>1, StepKeepsEndsVouched, Invariance, PTL DEF Spec

\* Where no attachment is counted again later, ready is said only past every check
\* ingest_message makes: nothing of the message was refused, and its revision is recorded.
\* A re-count (ack_reconcile.py) is thus the one way around them.
THEOREM OnlyRecountsSkipChecks ==
  ASSUME Reconcilers = {}
  PROVE  Spec => []ReadyPassedEveryCheck
<1>1. EndsAreVouched => ReadyPassedEveryCheck
  BY DEF EndsAreVouched, Vouched, ReadyPassedEveryCheck
<1>2. QED
  BY <1>1, VouchingInvariant, PTL

\* A refused message of which anything is in an archive was refused in part: screening
\* never refuses the whole of it and lets a line through, over all deliveries
\* (archiving_bot.ingest_message, archiving_schema.sql).
THEOREM OnlyPartRefusalsLeaveText ==
  Spec => [](event.screened # "part" => RefusedIsNowhere)
<1>1. IInv /\ EndsAreVouched => (event.screened # "part" => RefusedIsNowhere)
  BY DEF IInv, TypeOK, EndsAreVouched, Vouched, Refused, RefusedIsNowhere, Events
<1>2. QED
  BY <1>1, VouchingInvariant, Invariance, PTL
=============================================================================
