--------------------------- MODULE DeliveryProofs ---------------------------
(***************************************************************************)
(* The safety of commands, outbox and Event stream, for every number of    *)
(* clients, requests, publishers, repetitions and faults, and every page   *)
(* size.                                                                   *)
(*                                                                         *)
(* Commands: a receipt is written once, by the only open transaction of    *)
(* its key (CommandInv), so that every later answer is the first one and   *)
(* an Event id is never appended twice.  Outbox: a publisher that reports  *)
(* success has delivered the Event of its row (OutboxInv).  Stream: what   *)
(* was sent is the Events up to the position, and a page continues there   *)
(* (StreamInv).                                                            *)
(***************************************************************************)
EXTENDS Delivery, SequenceTheorems, TLAPS

RunStatuses == {"active", "paused", "cancelled"}

Refusals == {"reused", "conflict", "invalid"}

Reasons == {r.reason : r \in Requests} \cup {"none"}

Answers == [status : RunStatuses \cup Refusals \cup {"none"}, version : Nat]

RunRows == [status : RunStatuses, version : Nat]

ClientRows ==
  [request : Requests, pc : {"ready", "loaded", "open", "done"}, expected : Nat,
   answer : Answers, calls : Nat]

OutboxRows ==
  [status : {"pending", "publishing", "published"}, time : {"now", "later"}, attempt : Nat,
   owner : Publishers \cup {NoOwner}]

PublisherRows ==
  [pc : {"idle", "claimed", "sent"}, row : Nat, attempt : Nat, result : {"none", "ok", "error"}]

CommandTypes ==
  /\ run \in RunRows
  /\ events \in Seq(Keys)
  /\ receipts \in [Keys -> [reason : Reasons, answer : Answers]]
  /\ client \in [Clients -> ClientRows]

\* A receipt that exists stores a snapshot of the Run.
Stored(k) == receipts[k].answer.status \in RunStatuses

ClientInv(c) ==
  /\ client[c].pc = "open" =>
       /\ receipts[Key(c)] = NoReceipt
       /\ \A d \in Clients : client[d].pc = "open" /\ Key(d) = Key(c) => d = c
  /\ client[c].pc = "done" /\ client[c].answer.status \notin Refusals =>
       /\ Stored(Key(c))
       /\ receipts[Key(c)] = [reason |-> Request(c).reason, answer |-> client[c].answer]

CommandInv ==
  /\ CommandTypes
  /\ \A k \in Keys : receipts[k] = NoReceipt \/ Stored(k)
  /\ \A i \in 1 .. Len(events) : Stored(events[i])
  /\ \A c \in Clients : ClientInv(c)

\* The outbox has one row per Event; a publisher at work has one of them, and has
\* delivered its Event when it will report success.
PublisherInv(p) ==
  /\ publisher[p].pc # "idle" => publisher[p].row \in 1 .. Len(events)
  /\ publisher[p].pc = "sent" /\ publisher[p].result = "ok" => events[publisher[p].row] \in seen

OutboxInv ==
  /\ outbox \in Seq(OutboxRows) /\ Len(outbox) = Len(events)
  /\ publisher \in [Publishers -> PublisherRows]
  /\ \A p \in Publishers : PublisherInv(p)
  /\ \A i \in 1 .. Len(outbox) : outbox[i].status = "published" => events[i] \in seen

StreamRows ==
  [pc : {"open", "empty", "ended"}, after : Nat, pending : Seq(Nat), got : Seq(Keys)]

StreamInv ==
  /\ stream \in StreamRows
  /\ Len(stream.got) = stream.after
  /\ stream.after + Len(stream.pending) <= Len(events)
  /\ \A n \in 1 .. Len(stream.pending) : stream.pending[n] = stream.after + n
  /\ \A n \in 1 .. stream.after : stream.got[n] = events[n]

DeliveryInv == CommandInv /\ OutboxInv /\ StreamInv /\ faults \in Nat

----------------------------------------------------------------------------
\* Commands and receipts.

\* The request of a client and its key.
LEMMA KeyType ==
  ASSUME CommandTypes, NEW c \in Clients
  PROVE  /\ client[c] \in ClientRows /\ Request(c) \in Requests /\ Key(c) \in Keys
         /\ Request(c).kind \in Kinds /\ Request(c).reason \in Reasons
<1>1. client[c] \in ClientRows
  BY DEF CommandTypes
<1>2. Request(c) \in Requests
  BY <1>1 DEF ClientRows, Request
<1>3. Request(c).kind \in Kinds /\ Request(c).reason \in Reasons
  BY <1>2, DeliveryAssumption DEF Reasons
<1>4. Key(c) \in Keys
  BY <1>2 DEF Key, Keys
<1> QED
  BY <1>1, <1>2, <1>3, <1>4

\* The client gets its answer or may send again: one row changes, the request stays.
LEMMA AnsweredRow ==
  ASSUME CommandTypes, faults \in Nat, NEW c \in Clients, NEW answer \in Answers,
         Answered(c, answer)
  PROVE  /\ faults' \in Nat
         /\ \E row \in ClientRows :
              /\ client' = [client EXCEPT ![c] = row]
              /\ row.request = client[c].request
              /\ row.pc \in {"ready", "done"}
              /\ row.pc = "done" => row.answer = answer
<1>0. client \in [Clients -> ClientRows] /\ client[c] \in ClientRows
  BY DEF CommandTypes
<1>1. CASE /\ client' = [client EXCEPT ![c].pc = "done", ![c].answer = answer, ![c].expected = 0]
           /\ UNCHANGED faults
  <2> DEFINE row == [client[c] EXCEPT !.pc = "done", !.answer = answer, !.expected = 0]
  <2>1. client' = [client EXCEPT ![c] = row]
    BY <1>0, <1>1
  <2>2. /\ row \in ClientRows /\ row.request = client[c].request /\ row.pc = "done"
        /\ row.answer = answer
    BY <1>0 DEF ClientRows
  <2> QED
    BY <1>1, <2>1, <2>2
<1>2. CASE Fault /\ client' = [client EXCEPT ![c].pc = "ready", ![c].expected = 0]
  <2> DEFINE row == [client[c] EXCEPT !.pc = "ready", !.expected = 0]
  <2>1. client' = [client EXCEPT ![c] = row]
    BY <1>0, <1>2
  <2>2. row \in ClientRows /\ row.request = client[c].request /\ row.pc = "ready"
    BY <1>0 DEF ClientRows
  <2>3. faults' \in Nat
    BY <1>2 DEF Fault
  <2> QED
    BY <2>1, <2>2, <2>3
<1> QED
  BY <1>1, <1>2 DEF Answered

\* A client moves and no receipt is written: what it now claims must be so already.
LEMMA ClientMoves ==
  ASSUME CommandInv, UNCHANGED <<run, events, receipts>>, NEW c \in Clients,
         NEW row \in ClientRows, client' = [client EXCEPT ![c] = row],
         row.request = client[c].request,
         row.pc = "open" => receipts[Key(c)] = NoReceipt /\ ~KeyHeld(c),
         row.pc = "done" /\ row.answer.status \notin Refusals =>
           /\ Stored(Key(c))
           /\ receipts[Key(c)] = [reason |-> Request(c).reason, answer |-> row.answer]
  PROVE  CommandInv'
<1>0. /\ CommandTypes /\ client \in [Clients -> ClientRows]
      /\ \A d \in Clients : ClientInv(d)
  BY DEF CommandInv, CommandTypes
<1>1. CommandTypes'
  BY <1>0 DEF CommandTypes
<1>2. /\ client'[c] = row
      /\ \A d \in Clients : d # c => client'[d] = client[d]
  BY <1>0
<1>3. \A d \in Clients : Request(d)' = Request(d) /\ Key(d)' = Key(d)
  BY <1>2 DEF Request, Key
<1>4. \A d \in Clients : (Stored(Key(d)))' <=> Stored(Key(d))
  BY <1>3 DEF Stored
<1>5. ASSUME NEW d \in Clients PROVE ClientInv(d)'
  <2>1. ASSUME client'[d].pc = "open"
        PROVE  /\ receipts[Key(d)] = NoReceipt
               /\ \A e \in Clients : client'[e].pc = "open" /\ Key(e) = Key(d) => e = d
    <3>1. CASE d = c
      BY <3>1, <2>1, <1>2 DEF KeyHeld
    <3>2. CASE d # c
      BY <3>2, <2>1, <1>0, <1>2 DEF KeyHeld, ClientInv
    <3> QED
      BY <3>1, <3>2
  <2>2. ASSUME client'[d].pc = "done", client'[d].answer.status \notin Refusals
        PROVE  /\ Stored(Key(d))
               /\ receipts[Key(d)] = [reason |-> Request(d).reason, answer |-> client'[d].answer]
    BY <2>2, <1>0, <1>2 DEF ClientInv
  <2> QED
    BY <2>1, <2>2, <1>3, <1>4 DEF ClientInv
<1>6. /\ (\A k \in Keys : receipts[k] = NoReceipt \/ Stored(k))'
      /\ (\A i \in 1 .. Len(events) : Stored(events[i]))'
  BY DEF CommandInv, Stored
<1> QED
  BY <1>1, <1>5, <1>6 DEF CommandInv

\* The open transaction of a key writes its receipt, with or without an Event.
LEMMA ReceiptWritten ==
  ASSUME CommandInv, NEW c \in Clients, client[c].pc = "open", NEW snapshot \in RunRows,
         NEW row \in ClientRows, client' = [client EXCEPT ![c] = row],
         row.request = client[c].request, row.pc \in {"ready", "done"},
         row.pc = "done" => row.answer = snapshot,
         FinishReceipt(c, snapshot), run' \in RunRows,
         events' = events \/ events' = Append(events, Key(c))
  PROVE  CommandInv'
<1>0. /\ CommandTypes /\ client \in [Clients -> ClientRows]
      /\ receipts \in [Keys -> [reason : Reasons, answer : Answers]]
      /\ \A d \in Clients : ClientInv(d)
      /\ events \in Seq(Keys)
  BY DEF CommandInv, CommandTypes
<1>k. PICK key \in Keys : key = Key(c)
  BY <1>0, KeyType
<1>s. PICK stored : stored = [reason |-> Request(c).reason, answer |-> snapshot]
  OBVIOUS
<1>1. /\ snapshot \in Answers /\ snapshot.status \in RunStatuses
      /\ stored \in [reason : Reasons, answer : Answers] /\ stored.answer.status \in RunStatuses
  <2>1. snapshot \in Answers /\ snapshot.status \in RunStatuses
    BY DEF RunRows, Answers
  <2> QED
    BY <1>0, <1>s, <2>1, KeyType
<1>2. /\ receipts' \in [Keys -> [reason : Reasons, answer : Answers]]
      /\ receipts'[key] = stored
      /\ \A k \in Keys : k # key => receipts'[k] = receipts[k]
  BY <1>0, <1>1, <1>k, <1>s DEF FinishReceipt
<1>3. events' \in Seq(Keys)
  BY <1>0, <1>k, SMTT(30)
<1>4. CommandTypes'
  BY <1>0, <1>2, <1>3 DEF CommandTypes
<1>5. /\ client'[c] = row
      /\ \A d \in Clients : d # c => client'[d] = client[d]
  BY <1>0
<1>6. \A d \in Clients : Request(d)' = Request(d) /\ Key(d)' = Key(d)
  BY <1>5 DEF Request, Key
<1>7. ASSUME NEW k \in Keys, Stored(k) \/ k = key
      PROVE  Stored(k)' /\ receipts'[k].answer.status \in RunStatuses
  <2>1. CASE k = key
    BY <2>1, <1>1, <1>2 DEF Stored
  <2>2. CASE k # key
    BY <2>2, <1>2, <1>7 DEF Stored
  <2> QED
    BY <2>1, <2>2
<1>8. receipts[key] = NoReceipt /\ ~Stored(key)
  <2>1. receipts[key] = NoReceipt
    BY <1>0, <1>k DEF ClientInv
  <2>2. NoReceipt.answer.status = "none"
    BY DEF NoReceipt, NoAnswer, Reply
  <2> QED
    BY <2>1, <2>2 DEF Stored, RunStatuses
<1>9. ASSUME NEW d \in Clients PROVE ClientInv(d)'
  <2>0. Key(d) \in Keys
    BY <1>0, KeyType
  <2>1. CASE d = c
    <3>1. client'[d].pc = "done" => receipts'[Key(d)] = [reason |-> Request(d).reason,
                                                         answer |-> client'[d].answer]
      BY <2>1, <1>2, <1>5, <1>k, <1>s
    <3> QED
      BY <2>1, <3>1, <1>5, <1>6, <1>7, <1>k, <2>0 DEF ClientInv
  <2>2. CASE d # c
    <3>1. ASSUME client[d].pc = "open" PROVE Key(d) # key
      BY <3>1, <2>2, <1>0, <1>k DEF ClientInv
    <3>2. ASSUME client[d].pc = "done", client[d].answer.status \notin Refusals PROVE Key(d) # key
      BY <3>2, <1>0, <1>8 DEF ClientInv
    <3>3. ASSUME client[d].pc = "open"
          PROVE  /\ receipts'[Key(d)] = NoReceipt
                 /\ \A e \in Clients : client'[e].pc = "open" /\ Key(e) = Key(d) => e = d
      BY <3>3, <3>1, <2>0, <2>2, <1>0, <1>2, <1>5 DEF ClientInv
    <3>4. ASSUME client[d].pc = "done", client[d].answer.status \notin Refusals
          PROVE  /\ Stored(Key(d))
                 /\ receipts'[Key(d)] = [reason |-> Request(d).reason, answer |-> client[d].answer]
      BY <3>4, <3>2, <2>0, <1>0, <1>2 DEF ClientInv
    <3> QED
      BY <3>3, <3>4, <2>0, <2>2, <1>5, <1>6, <1>7 DEF ClientInv
  <2> QED
    BY <2>1, <2>2
<1>10. \A k \in Keys : receipts'[k] = NoReceipt \/ Stored(k)'
  BY <1>2, <1>7 DEF CommandInv
<1>11. ASSUME NEW i \in 1 .. Len(events')
       PROVE  receipts'[events'[i]].answer.status \in RunStatuses
  <2>0. \A j \in 1 .. Len(events) : events[j] \in Keys /\ Stored(events[j])
    BY <1>0 DEF CommandInv
  <2>1. CASE events' = events
    BY <2>0, <2>1, <1>7
  <2>2. CASE events' = Append(events, Key(c))
    <3>1. /\ i = Len(events) + 1 => events'[i] = key
          /\ i # Len(events) + 1 => i \in 1 .. Len(events) /\ events'[i] = events[i]
      BY <2>2, <1>0, <1>k
    <3> QED
      BY <2>0, <3>1, <1>7
  <2> QED
    BY <2>1, <2>2
<1> QED
  BY <1>4, <1>9, <1>10, <1>11 DEF CommandInv, Stored

\* The steps of a client.
LEMMA LoadRunStep ==
  ASSUME CommandInv, NEW c \in Clients, LoadRun(c)
  PROVE  CommandInv'
<1>0. client \in [Clients -> ClientRows] /\ client[c] \in ClientRows /\ run.version \in Nat
  BY DEF CommandInv, CommandTypes, RunRows
<1> DEFINE row == [client[c] EXCEPT !.pc = "loaded", !.expected = run.version, !.calls = @ + 1]
<1>1. client' = [client EXCEPT ![c] = row]
  BY <1>0 DEF LoadRun
<1>2. row \in ClientRows /\ row.request = client[c].request /\ row.pc = "loaded"
  <2>1. client[c].calls + 1 \in Nat
    BY <1>0 DEF ClientRows
  <2>2. [client[c] EXCEPT !.calls = @ + 1] \in ClientRows
    BY <1>0, <2>1 DEF ClientRows
  <2> QED
    BY <1>0, <2>2 DEF ClientRows
<1>3. UNCHANGED <<run, events, receipts>>
  BY DEF LoadRun
<1> HIDE DEF row
<1> QED
  BY <1>1, <1>2, <1>3, ClientMoves

\* A rolled-back transaction leaves receipt, Run and Events as they were.
LEMMA AbortStep ==
  ASSUME CommandInv, NEW c \in Clients, Abort(c)
  PROVE  CommandInv'
<1>0. client \in [Clients -> ClientRows] /\ client[c] \in ClientRows
  BY DEF CommandInv, CommandTypes
<1> DEFINE row == [client[c] EXCEPT !.pc = "ready", !.expected = 0]
<1>1. client' = [client EXCEPT ![c] = row]
  BY <1>0 DEF Abort
<1>2. row \in ClientRows /\ row.request = client[c].request /\ row.pc = "ready"
  BY <1>0 DEF ClientRows
<1>3. UNCHANGED <<run, events, receipts>>
  BY DEF Abort
<1> HIDE DEF row
<1> QED
  BY <1>1, <1>2, <1>3, ClientMoves

\* A refusal is no claim about the receipt.
LEMMA RefusalAnswered ==
  ASSUME CommandInv, faults \in Nat, NEW c \in Clients, UNCHANGED <<run, events, receipts>>,
         NEW word \in Refusals, Answered(c, Reply(word))
  PROVE  CommandInv' /\ faults' \in Nat
<1>1. Reply(word) \in Answers /\ Reply(word).status \in Refusals
  BY DEF Reply, Answers
<1>2. faults' \in Nat
  BY <1>1, AnsweredRow DEF CommandInv
<1>3. PICK row \in ClientRows :
        /\ client' = [client EXCEPT ![c] = row] /\ row.request = client[c].request
        /\ row.pc \in {"ready", "done"}
        /\ row.pc = "done" => row.answer = Reply(word)
  BY <1>1, AnsweredRow DEF CommandInv
<1> QED
  BY <1>1, <1>2, <1>3, ClientMoves

\* acquire_receipt: a client goes on only where the key has no receipt and no other
\* transaction has it; otherwise it gets the stored answer or a refusal.
LEMMA AcquireReceiptStep ==
  ASSUME CommandInv, faults \in Nat, NEW c \in Clients, AcquireReceipt(c)
  PROVE  CommandInv' /\ faults' \in Nat
<1>0. /\ client \in [Clients -> ClientRows] /\ client[c] \in ClientRows
      /\ receipts \in [Keys -> [reason : Reasons, answer : Answers]] /\ CommandTypes
      /\ UNCHANGED <<run, events, receipts>> /\ ~KeyHeld(c) /\ Key(c) \in Keys
  BY KeyType DEF CommandInv, CommandTypes, AcquireReceipt
<1>1. CASE receipts[Key(c)] = NoReceipt /\ client' = [client EXCEPT ![c].pc = "open"]
           /\ UNCHANGED faults
  <2> DEFINE row == [client[c] EXCEPT !.pc = "open"]
  <2>1. client' = [client EXCEPT ![c] = row]
    BY <1>0, <1>1
  <2>2. row \in ClientRows /\ row.request = client[c].request /\ row.pc = "open"
    BY <1>0 DEF ClientRows
  <2> HIDE DEF row
  <2> QED
    BY <1>0, <1>1, <2>1, <2>2, ClientMoves
<1>2. CASE Answered(c, Reply("reused"))
  BY <1>0, <1>2, RefusalAnswered DEF Refusals
<1>3. CASE /\ receipts[Key(c)] # NoReceipt /\ receipts[Key(c)].reason = Request(c).reason
           /\ Answered(c, receipts[Key(c)].answer)
  <2>1. /\ receipts[Key(c)].answer \in Answers /\ Stored(Key(c))
        /\ receipts[Key(c)] = [reason |-> Request(c).reason, answer |-> receipts[Key(c)].answer]
    BY <1>0, <1>3 DEF CommandInv
  <2>2. faults' \in Nat
    BY <1>0, <1>3, <2>1, AnsweredRow
  <2>3. PICK row \in ClientRows :
          /\ client' = [client EXCEPT ![c] = row] /\ row.request = client[c].request
          /\ row.pc \in {"ready", "done"}
          /\ row.pc = "done" => row.answer = receipts[Key(c)].answer
    BY <1>0, <1>3, <2>1, AnsweredRow
  <2> QED
    BY <1>0, <2>1, <2>2, <2>3, ClientMoves
<1> QED
  BY <1>1, <1>2, <1>3 DEF AcquireReceipt, DuplicateAnswer

\* execute_control refuses: the rolled-back transaction leaves no receipt.
LEMMA CommitRefusedStep ==
  ASSUME CommandInv, faults \in Nat, NEW c \in Clients, CommitRefused(c)
  PROVE  CommandInv' /\ faults' \in Nat
<1>1. RefusedWith(c) \in Refusals
  BY DEF CommitRefused, RefusedWith, Refusals
<1> QED
  BY <1>1, RefusalAnswered DEF CommitRefused

\* Both commits that write the receipt.
LEMMA CommitStep ==
  ASSUME CommandInv, faults \in Nat, NEW c \in Clients, CommitNoOp(c) \/ CommitApplied(c)
  PROVE  CommandInv' /\ faults' \in Nat
<1>0. CommandTypes /\ client[c].pc = "open" /\ run \in RunRows /\ Request(c).kind \in Kinds
  BY KeyType DEF CommandInv, CommandTypes, CommitNoOp, CommitApplied
<1>1. PICK snapshot \in RunRows :
        /\ FinishReceipt(c, snapshot) /\ Answered(c, snapshot) /\ run' \in RunRows
        /\ events' = events \/ events' = Append(events, Key(c))
  <2>1. CASE CommitNoOp(c)
    BY <2>1, <1>0 DEF CommitNoOp
  <2>2. CASE CommitApplied(c)
    <3> DEFINE snapshot == [status |-> StatusAfter(Request(c).kind), version |-> run.version + 1]
    <3>1. StatusAfter(Request(c).kind) \in RunStatuses
      BY <1>0 DEF StatusAfter, RunStatuses, Kinds
    <3>2. snapshot \in RunRows
      BY <1>0, <3>1 DEF RunRows
    <3>3. run' = snapshot /\ events' = Append(events, Key(c)) /\ FinishReceipt(c, snapshot)
          /\ Answered(c, snapshot)
      BY <2>2 DEF CommitApplied, InsertEvent
    <3> QED
      BY <3>2, <3>3
  <2> QED
    BY <2>1, <2>2
<1>2. snapshot \in Answers
  BY DEF RunRows, Answers
<1>3. faults' \in Nat
  BY <1>0, <1>1, <1>2, AnsweredRow
<1>4. PICK row \in ClientRows :
        /\ client' = [client EXCEPT ![c] = row] /\ row.request = client[c].request
        /\ row.pc \in {"ready", "done"}
        /\ row.pc = "done" => row.answer = snapshot
  BY <1>0, <1>1, <1>2, AnsweredRow
<1> QED
  BY <1>0, <1>1, <1>3, <1>4, ReceiptWritten

----------------------------------------------------------------------------
\* Outbox.

\* What the outbox and the stream need to know of the Events.
EventsType == events \in Seq(Keys)

\* insert_event: the Event and its row come together.
LEMMA OutboxAppended ==
  ASSUME EventsType, OutboxInv, NEW k \in Keys, InsertEvent(k), UNCHANGED <<publisher, seen>>
  PROVE  OutboxInv'
<1> DEFINE row == [status |-> "pending", time |-> "now", attempt |-> 0, owner |-> NoOwner]
<1>0. row \in OutboxRows /\ row.status # "published"
  BY DEF OutboxRows
<1>1. /\ events \in Seq(Keys) /\ outbox \in Seq(OutboxRows) /\ Len(outbox) = Len(events)
      /\ events' = Append(events, k) /\ outbox' = Append(outbox, row)
  BY DEF EventsType, OutboxInv, InsertEvent
<1> HIDE DEF row
<1>2. /\ outbox' \in Seq(OutboxRows) /\ Len(outbox') = Len(events')
      /\ Len(events') = Len(events) + 1 /\ Len(events) \in Nat
      /\ \A i \in 1 .. Len(events) : events'[i] = events[i] /\ outbox'[i] = outbox[i]
      /\ outbox'[Len(events) + 1] = row
  BY <1>0, <1>1
<1>3. ASSUME NEW p \in Publishers PROVE PublisherInv(p)'
  <2>1. PublisherInv(p)
    BY DEF OutboxInv
  <2>2. publisher[p].pc # "idle" => publisher[p].row \in 1 .. Len(events')
    BY <2>1, <1>2 DEF PublisherInv
  <2> QED
    BY <2>1, <2>2, <1>2 DEF PublisherInv
<1>4. ASSUME NEW i \in 1 .. Len(outbox'), outbox'[i].status = "published"
      PROVE  events'[i] \in seen
  <2>1. i # Len(events) + 1
    BY <1>0, <1>2, <1>4
  <2>2. i \in 1 .. Len(events)
    BY <1>2, <2>1
  <2> QED
    BY <1>2, <1>4, <2>2, <1>1 DEF OutboxInv
<1> QED
  BY <1>2, <1>3, <1>4 DEF OutboxInv

\* One row and one publisher change; no row becomes published unless its Event was seen.
LEMMA RowChanges ==
  ASSUME EventsType, OutboxInv, UNCHANGED <<events, seen>>, NEW i \in 1 .. Len(outbox),
         NEW row \in OutboxRows, outbox' = [outbox EXCEPT ![i] = row],
         row.status = "published" => events[i] \in seen,
         publisher' \in [Publishers -> PublisherRows], \A p \in Publishers : PublisherInv(p)'
  PROVE  OutboxInv'
<1>1. outbox \in Seq(OutboxRows) /\ Len(outbox) = Len(events)
  BY DEF OutboxInv
<1>2. /\ outbox' \in Seq(OutboxRows) /\ Len(outbox') = Len(outbox)
      /\ \A j \in 1 .. Len(outbox) : outbox'[j] = IF j = i THEN row ELSE outbox[j]
  BY <1>1, ExceptSeq
<1> QED
  BY <1>1, <1>2 DEF OutboxInv

\* A publisher at work whose state does not move keeps what it knows.
LEMMA PublisherKept ==
  ASSUME OutboxInv, UNCHANGED events, seen \subseteq seen', NEW p \in Publishers,
         publisher'[p] = publisher[p]
  PROVE  PublisherInv(p)'
<1> QED
  BY DEF OutboxInv, PublisherInv

\* claim_outbox gives the publisher a row that has its Event.
LEMMA ClaimOutboxStep ==
  ASSUME EventsType, OutboxInv, NEW p \in Publishers, NEW i \in DOMAIN outbox, ClaimOutbox(p, i)
  PROVE  OutboxInv'
<1>0. /\ outbox \in Seq(OutboxRows) /\ i \in 1 .. Len(outbox) /\ Len(outbox) = Len(events)
      /\ outbox[i] \in OutboxRows /\ UNCHANGED <<events, seen>>
      /\ publisher \in [Publishers -> PublisherRows]
  BY DEF OutboxInv, ClaimOutbox
<1>n. outbox[i].attempt + 1 \in Nat /\ i \in Nat
  BY <1>0 DEF OutboxRows
<1> DEFINE row == [status |-> "publishing", time |-> "later", attempt |-> outbox[i].attempt + 1,
                   owner |-> p]
           claim == [pc |-> "claimed", row |-> i, attempt |-> outbox[i].attempt + 1,
                     result |-> "none"]
<1>1. outbox' = [outbox EXCEPT ![i] = row] /\ publisher' = [publisher EXCEPT ![p] = claim]
  BY DEF ClaimOutbox
<1>2. row \in OutboxRows /\ row.status # "published"
  BY <1>n DEF OutboxRows
<1>3. claim \in PublisherRows /\ claim.row = i /\ claim.pc = "claimed"
  BY <1>n DEF PublisherRows
<1> HIDE DEF row, claim
<1>4. /\ publisher' \in [Publishers -> PublisherRows] /\ publisher'[p] = claim
      /\ \A q \in Publishers : q # p => publisher'[q] = publisher[q]
  BY <1>0, <1>1, <1>3
<1>5. ASSUME NEW q \in Publishers PROVE PublisherInv(q)'
  <2>1. CASE q = p
    BY <2>1, <1>0, <1>3, <1>4 DEF PublisherInv
  <2>2. CASE q # p
    BY <2>2, <1>0, <1>4, PublisherKept
  <2> QED
    BY <2>1, <2>2
<1> QED
  BY <1>0, <1>1, <1>2, <1>4, <1>5, RowChanges

\* publish: a publisher that will report success has delivered the Event of its row.
LEMMA PublishStep ==
  ASSUME EventsType, OutboxInv, NEW p \in Publishers, Publish(p)
  PROVE  /\ OutboxInv'
         /\ \E id \in Keys : id \in ToSet(events) /\ seen' \in {seen, seen \cup {id}}
<1>0. /\ publisher \in [Publishers -> PublisherRows] /\ publisher[p] \in PublisherRows
      /\ publisher[p].pc = "claimed" /\ UNCHANGED <<events, outbox>>
      /\ publisher[p].row \in 1 .. Len(events) /\ events \in Seq(Keys)
  BY DEF OutboxInv, PublisherInv, Publish, EventsType
<1>1. PICK id \in Keys : id = events[publisher[p].row]
  BY <1>0
<1>2. PICK result \in {"ok", "error"} :
        /\ publisher' = [publisher EXCEPT ![p].pc = "sent", ![p].result = result]
        /\ seen' \in {seen, seen \cup {id}}
        /\ result = "ok" => seen' = seen \cup {id}
  BY <1>1 DEF Publish
<1> DEFINE row == [publisher[p] EXCEPT !.pc = "sent", !.result = result]
<1>3. row \in PublisherRows /\ row.row = publisher[p].row /\ row.result = result
  BY <1>0 DEF PublisherRows
<1>4. publisher' = [publisher EXCEPT ![p] = row]
  BY <1>0, <1>2
<1> HIDE DEF row
<1>5. /\ publisher' \in [Publishers -> PublisherRows] /\ publisher'[p] = row
      /\ \A q \in Publishers : q # p => publisher'[q] = publisher[q]
  BY <1>0, <1>3, <1>4
<1>6. ASSUME NEW q \in Publishers PROVE PublisherInv(q)'
  <2>1. CASE q = p
    BY <2>1, <1>0, <1>1, <1>2, <1>3, <1>5 DEF PublisherInv
  <2>2. CASE q # p
    BY <2>2, <1>0, <1>2, <1>5, PublisherKept
  <2> QED
    BY <2>1, <2>2
<1>7. OutboxInv'
  BY <1>0, <1>2, <1>5, <1>6 DEF OutboxInv
<1>8. id \in ToSet(events)
  BY <1>0, <1>1 DEF ToSet
<1> QED
  BY <1>2, <1>7, <1>8

\* record_outbox_delivery: a row is published only by a publisher that delivered it.
LEMMA RecordOutboxDeliveryStep ==
  ASSUME EventsType, OutboxInv, NEW p \in Publishers, RecordOutboxDelivery(p)
  PROVE  OutboxInv'
<1>0. /\ outbox \in Seq(OutboxRows) /\ Len(outbox) = Len(events)
      /\ publisher \in [Publishers -> PublisherRows]
      /\ publisher[p] \in PublisherRows /\ publisher[p].pc = "sent"
      /\ publisher[p].row \in 1 .. Len(outbox) /\ UNCHANGED <<events, seen>>
      /\ publisher[p].result = "ok" => events[publisher[p].row] \in seen
      /\ publisher' = [publisher EXCEPT ![p] = IdlePublisher]
  BY DEF OutboxInv, PublisherInv, RecordOutboxDelivery
<1>1. IdlePublisher \in PublisherRows
  BY DEF IdlePublisher, PublisherRows
<1>2. publisher' \in [Publishers -> PublisherRows]
  BY <1>0, <1>1
<1>3. ASSUME NEW q \in Publishers PROVE PublisherInv(q)'
  <2>1. CASE q = p
    BY <2>1, <1>0 DEF PublisherInv, IdlePublisher
  <2>2. CASE q # p
    BY <2>2, <1>0, PublisherKept
  <2> QED
    BY <2>1, <2>2
<1>4. CASE Fence(p)
  <2> DEFINE i == publisher[p].row
             row == [outbox[i] EXCEPT !.status = Settled(publisher[p].result), !.owner = NoOwner]
  <2>1. outbox[i] \in OutboxRows /\ Settled(publisher[p].result) \in {"pending", "published"}
    BY <1>0 DEF Settled
  <2>2. row \in OutboxRows /\ row.status = Settled(publisher[p].result)
    BY <2>1 DEF OutboxRows
  <2>3. outbox' = [outbox EXCEPT ![i] = row]
    BY <1>0, <1>4 DEF RecordOutboxDelivery
  <2>4. row.status = "published" => events[i] \in seen
    BY <1>0, <2>2 DEF Settled
  <2> HIDE DEF row
  <2> QED
    BY <1>0, <1>2, <1>3, <2>2, <2>3, <2>4, RowChanges
<1>5. CASE ~Fence(p)
  BY <1>0, <1>2, <1>3, <1>5 DEF RecordOutboxDelivery, OutboxInv
<1> QED
  BY <1>4, <1>5

\* A publisher that stops settles no row.
LEMMA StopPublisherStep ==
  ASSUME EventsType, OutboxInv, NEW p \in Publishers, StopPublisher(p)
  PROVE  OutboxInv'
<1>0. /\ publisher \in [Publishers -> PublisherRows] /\ UNCHANGED <<events, outbox, seen>>
      /\ publisher' = [publisher EXCEPT ![p] = IdlePublisher]
  BY DEF OutboxInv, StopPublisher
<1>1. IdlePublisher \in PublisherRows
  BY DEF IdlePublisher, PublisherRows
<1>2. ASSUME NEW q \in Publishers PROVE PublisherInv(q)'
  <2>1. CASE q = p
    BY <2>1, <1>0 DEF PublisherInv, IdlePublisher
  <2>2. CASE q # p
    BY <2>2, <1>0, PublisherKept
  <2> QED
    BY <2>1, <2>2
<1> QED
  BY <1>0, <1>1, <1>2 DEF OutboxInv

\* When the moment of a row comes its fence and its Event stay.
LEMMA TimePassesStep ==
  ASSUME EventsType, OutboxInv, NEW i \in DOMAIN outbox, TimePasses(i)
  PROVE  OutboxInv'
<1>0. /\ outbox \in Seq(OutboxRows) /\ i \in 1 .. Len(outbox) /\ outbox[i] \in OutboxRows
      /\ UNCHANGED <<events, seen, publisher>> /\ outbox[i].status # "published"
      /\ publisher \in [Publishers -> PublisherRows]
  BY DEF OutboxInv, TimePasses
<1> DEFINE row == [outbox[i] EXCEPT !.time = "now"]
<1>1. row \in OutboxRows /\ row.status # "published"
  BY <1>0 DEF OutboxRows
<1>2. outbox' = [outbox EXCEPT ![i] = row]
  BY <1>0 DEF TimePasses
<1>3. \A p \in Publishers : PublisherInv(p)'
  BY <1>0, PublisherKept
<1> HIDE DEF row
<1> QED
  BY <1>0, <1>1, <1>2, <1>3, RowChanges

----------------------------------------------------------------------------
\* The Event stream.

\* Events appended behind the stream's position do not disturb it.
LEMMA StreamBehind ==
  ASSUME EventsType, StreamInv, UNCHANGED stream,
         events' = events \/ \E k \in Keys : events' = Append(events, k)
  PROVE  StreamInv'
<1>1. CASE events' = events
  BY <1>1 DEF StreamInv
<1>2. ASSUME NEW k \in Keys, events' = Append(events, k) PROVE StreamInv'
  <2>1. /\ Len(events) \in Nat /\ Len(events') = Len(events) + 1
        /\ \A n \in 1 .. Len(events) : events'[n] = events[n]
    BY <1>2 DEF EventsType
  <2>2. /\ stream.after \in Nat /\ Len(stream.pending) \in Nat
        /\ stream.after + Len(stream.pending) <= Len(events)
        /\ \A n \in 1 .. stream.after : stream.got[n] = events[n]
    BY DEF StreamInv
  <2>3. \A n \in 1 .. stream.after : n \in 1 .. Len(events)
    BY <2>1, <2>2
  <2>4. stream.after + Len(stream.pending) <= Len(events')
    BY <2>1, <2>2
  <2>5. \A n \in 1 .. stream.after : stream.got[n] = events'[n]
    BY <2>1, <2>2, <2>3
  <2> QED
    BY <2>4, <2>5 DEF StreamInv
<1> QED
  BY <1>1, <1>2

\* A page continues at the position and ends with the Events.
LEMMA PollEventsStep ==
  ASSUME EventsType, StreamInv, PollEvents
  PROVE  StreamInv'
<1> DEFINE last == Smaller(stream.after + PageSize, Len(events))
           page == [n \in 1 .. last - stream.after |-> stream.after + n]
<1>0. /\ stream \in StreamRows
      /\ stream.after \in Nat /\ stream.after <= Len(events) /\ Len(events) \in Nat
      /\ UNCHANGED events
      /\ stream' = IF page = <<>> THEN [stream EXCEPT !.pc = "empty"]
                   ELSE [stream EXCEPT !.pending = page]
  BY DEF StreamInv, EventsType, PollEvents
<1>1. last \in Nat /\ stream.after <= last /\ last <= Len(events)
  BY <1>0, DeliveryAssumption DEF Smaller
<1> HIDE DEF last
<1>2. /\ page \in Seq(Nat) /\ Len(page) = last - stream.after
      /\ \A n \in 1 .. Len(page) : page[n] = stream.after + n
  <2>1. last - stream.after \in Nat
    BY <1>0, <1>1
  <2>2. page \in [1 .. last - stream.after -> Nat]
    BY <1>0, <2>1
  <2> QED
    BY <2>1, <2>2
<1> HIDE DEF page
<1>3. CASE stream' = [stream EXCEPT !.pc = "empty"]
  BY <1>0, <1>3 DEF StreamInv, StreamRows
<1>4. CASE stream' = [stream EXCEPT !.pending = page]
  <2>1. /\ stream'.after = stream.after /\ stream'.got = stream.got /\ stream'.pending = page
        /\ stream' \in StreamRows
    BY <1>0, <1>2, <1>4 DEF StreamRows
  <2>2. stream.after + Len(page) <= Len(events)
    BY <1>0, <1>1, <1>2
  <2> QED
    BY <1>0, <1>2, <2>1, <2>2 DEF StreamInv
<1> QED
  BY <1>0, <1>3, <1>4

\* The next Event of the page is sent: the position moves by one.
LEMMA SendEventStep ==
  ASSUME EventsType, StreamInv, SendEvent
  PROVE  StreamInv'
<1>0. PICK after \in Nat, pending \in Seq(Nat), got \in Seq(Keys) :
        /\ after = stream.after /\ pending = stream.pending /\ got = stream.got
  BY DEF StreamInv, StreamRows
<1>1. /\ stream \in StreamRows /\ events \in Seq(Keys) /\ Len(events) \in Nat
      /\ Len(got) = after /\ after + Len(pending) <= Len(events)
      /\ \A n \in 1 .. Len(pending) : pending[n] = after + n
      /\ \A n \in 1 .. after : got[n] = events[n]
      /\ UNCHANGED events /\ pending # <<>>
      /\ stream' = [stream EXCEPT !.pending = Tail(pending), !.after = Head(pending),
                                  !.got = Append(got, events[Head(pending)])]
  BY <1>0 DEF StreamInv, EventsType, SendEvent
<1>2. PICK rest \in Seq(Nat) :
        /\ rest = Tail(pending) /\ Len(rest) = Len(pending) - 1
        /\ \A n \in 1 .. Len(rest) : rest[n] = pending[n + 1]
  <2>1. Tail(pending) \in Seq(Nat) /\ Len(Tail(pending)) = Len(pending) - 1
    BY <1>1, HeadTailProperties
  <2>2. \A n \in 1 .. Len(Tail(pending)) : Tail(pending)[n] = pending[n + 1]
    BY <1>1, HeadTailProperties
  <2> QED
    BY <2>1, <2>2
<1>3. Len(pending) \in Nat /\ Len(pending) >= 1 /\ Head(pending) = pending[1] /\ Len(rest) \in Nat
  BY <1>1
<1>4. Head(pending) = after + 1 /\ after + 1 \in 1 .. Len(events)
  <2>1. 1 \in 1 .. Len(pending)
    BY <1>3
  <2>2. pending[1] = after + 1
    BY <1>1, <2>1
  <2>3. after + 1 <= Len(events)
    BY <1>1, <1>3
  <2> QED
    BY <1>1, <1>3, <2>2, <2>3
<1>5. PICK id \in Keys : id = events[after + 1]
  BY <1>1, <1>4
<1>6. PICK sent \in Seq(Keys) :
        /\ sent = Append(got, id) /\ Len(sent) = Len(got) + 1 /\ sent[Len(got) + 1] = id
        /\ \A n \in 1 .. Len(got) : sent[n] = got[n]
  <2>1. Append(got, id) \in Seq(Keys) /\ Len(Append(got, id)) = Len(got) + 1
    OBVIOUS
  <2>2. /\ Append(got, id)[Len(got) + 1] = id
        /\ \A n \in 1 .. Len(got) : Append(got, id)[n] = got[n]
    BY AppendProperties
  <2> QED
    BY <2>1, <2>2
<1>7. stream' = [stream EXCEPT !.pending = rest, !.after = after + 1, !.got = sent]
  BY <1>1, <1>2, <1>4, <1>5, <1>6
<1>8. /\ stream' \in StreamRows
      /\ stream'.after = after + 1 /\ stream'.pending = rest /\ stream'.got = sent
  <2>1. [stream EXCEPT !.pending = rest, !.after = after + 1, !.got = sent] \in StreamRows
    <3>1. PICK position \in Nat : position = after + 1
      OBVIOUS
    <3>2. [stream EXCEPT !.pending = rest, !.after = position, !.got = sent] \in StreamRows
      BY <1>1 DEF StreamRows
    <3> QED
      BY <3>1, <3>2
  <2> QED
    BY <1>1, <1>7, <2>1 DEF StreamRows
<1>9. \A n \in 1 .. Len(rest) : rest[n] = after + 1 + n
  <2> TAKE n \in 1 .. Len(rest)
  <2>1. n + 1 \in 1 .. Len(pending)
    BY <1>2, <1>3
  <2> QED
    BY <2>1, <1>1, <1>2
<1>10. \A n \in 1 .. after + 1 : sent[n] = events[n]
  <2> TAKE n \in 1 .. after + 1
  <2>1. n = after + 1 \/ n \in 1 .. after
    OBVIOUS
  <2> QED
    BY <2>1, <1>1, <1>5, <1>6
<1>11. after + 1 + Len(rest) <= Len(events) /\ Len(sent) = after + 1
  BY <1>1, <1>2, <1>3, <1>6
<1> QED
  BY <1>1, <1>8, <1>9, <1>10, <1>11 DEF StreamInv

\* The check of an empty page, the end and a reconnection keep what was sent.
LEMMA StreamResumes ==
  ASSUME EventsType, StreamInv, CheckRun \/ CutStream
  PROVE  StreamInv'
<1>0. stream \in StreamRows
  BY DEF StreamInv
<1>1. CASE CheckRun
  <2>1. PICK pc \in {"open", "ended"} : stream' = [stream EXCEPT !.pc = pc]
    BY <1>1 DEF CheckRun
  <2>2. UNCHANGED events
    BY <1>1 DEF CheckRun
  <2>3. /\ stream' \in StreamRows
        /\ stream'.pending = stream.pending /\ stream'.after = stream.after
        /\ stream'.got = stream.got
    BY <1>0, <2>1 DEF StreamRows
  <2> QED
    BY <2>2, <2>3 DEF StreamInv
<1>2. CASE CutStream
  <2>1. /\ stream' \in StreamRows
        /\ stream'.pending = <<>> /\ stream'.after = stream.after /\ stream'.got = stream.got
        /\ UNCHANGED events
    <3>1. stream' = [stream EXCEPT !.pc = "open", !.pending = <<>>] /\ UNCHANGED events
      BY <1>2 DEF CutStream
    <3>2. <<>> \in Seq(Nat)
      OBVIOUS
    <3> QED
      BY <1>0, <3>1, <3>2 DEF StreamRows
  <2>2. stream.after <= Len(events)
    BY DEF StreamInv, EventsType
  <2> QED
    BY <2>1, <2>2, <1>0 DEF StreamInv
<1> QED
  BY <1>1, <1>2

----------------------------------------------------------------------------
\* The induction, and the step of the feed.

\* The first state satisfies the invariant and is a first state of the feed.
LEMMA DeliveryStart ==
  DeliveryInit => DeliveryInv /\ Feed!FeedInit
<1> SUFFICES ASSUME DeliveryInit PROVE DeliveryInv /\ Feed!FeedInit
  OBVIOUS
<1>1. NoReceipt \in [reason : Reasons, answer : Answers] /\ NoAnswer \in Answers
  <2>1. NoAnswer \in Answers
    BY DEF NoAnswer, Reply, Answers
  <2>2. "none" \in Reasons
    BY DEF Reasons
  <2> QED
    BY <2>1, <2>2 DEF NoReceipt
<1>2. CommandInv
  <2>1. client \in [Clients -> ClientRows]
    BY <1>1 DEF DeliveryInit, ClientRows
  <2>2. \A c \in Clients : client[c].pc = "ready"
    BY DEF DeliveryInit
  <2>3. run \in RunRows
    BY DEF DeliveryInit, RunRows, RunStatuses
  <2>4. events = <<>> /\ receipts = [k \in Keys |-> NoReceipt]
    BY DEF DeliveryInit
  <2>5. \A c \in Clients : ClientInv(c)
    BY <2>2 DEF ClientInv
  <2> QED
    BY <1>1, <2>1, <2>3, <2>4, <2>5 DEF CommandInv, CommandTypes
<1>3. OutboxInv
  BY DEF DeliveryInit, OutboxInv, PublisherInv, IdlePublisher, PublisherRows
<1>4. StreamInv
  <2>1. <<>> \in Seq(Nat) /\ <<>> \in Seq(Keys) /\ Len(<<>>) = 0
    OBVIOUS
  <2>2. stream \in StreamRows /\ stream.after = 0 /\ stream.pending = <<>> /\ stream.got = <<>>
    BY <2>1 DEF DeliveryInit, StreamRows
  <2>3. events = <<>>
    BY DEF DeliveryInit
  <2> QED
    BY <2>2, <2>3 DEF StreamInv
<1>5. Feed!FeedInit
  BY DEF DeliveryInit, Feed!FeedInit
<1> QED
  BY <1>2, <1>3, <1>4, <1>5 DEF DeliveryInv, DeliveryInit

\* A step of a client that writes no Event.
LEMMA QuietClient ==
  ASSUME DeliveryInv, CommandInv', faults' \in Nat, UNCHANGED <<events, outbox, publisher, seen, stream>>
  PROVE  DeliveryInv'
<1>1. OutboxInv'
  BY DEF DeliveryInv, OutboxInv, PublisherInv
<1>2. StreamInv'
  BY StreamBehind DEF DeliveryInv, CommandInv, CommandTypes, EventsType
<1> QED
  BY <1>1, <1>2 DEF DeliveryInv

\* A client keeps the invariant, and at most appends its Event to the feed.
LEMMA ClientStepKeeps ==
  ASSUME DeliveryInv, NEW c \in Clients, ClientStep(c) \/ Abort(c)
  PROVE  DeliveryInv' /\ [Feed!FeedNext]_<<events, seen>>
<1>0. CommandInv /\ faults \in Nat /\ EventsType /\ CommandTypes
  BY DEF DeliveryInv, CommandInv, CommandTypes, EventsType
<1>1. CASE LoadRun(c) \/ AcquireReceipt(c) \/ CommitNoOp(c) \/ CommitRefused(c) \/ Abort(c)
  <2>1. CommandInv' /\ faults' \in Nat
    <3>1. CASE LoadRun(c)
      BY <3>1, <1>0, LoadRunStep DEF LoadRun
    <3>2. CASE Abort(c)
      <4>1. faults' = faults + 1
        BY <3>2 DEF Abort, Fault
      <4> QED
        BY <4>1, <3>2, <1>0, AbortStep
    <3> QED
      BY <1>0, <1>1, <3>1, <3>2, AcquireReceiptStep, CommitStep, CommitRefusedStep
  <2>2. UNCHANGED <<events, outbox, publisher, seen, stream>>
    BY <1>1 DEF LoadRun, AcquireReceipt, CommitNoOp, CommitRefused, Abort
  <2> QED
    BY <2>1, <2>2, QuietClient
<1>2. CASE CommitApplied(c)
  <2>1. CommandInv' /\ faults' \in Nat
    BY <1>0, <1>2, CommitStep
  <2>2. PICK k \in Keys : k = Key(c)
    BY <1>0, KeyType
  <2>3. InsertEvent(k) /\ UNCHANGED <<publisher, seen, stream>> /\ client[c].pc = "open"
    BY <1>2, <2>2 DEF CommitApplied
  <2>4. OutboxInv' /\ StreamInv'
    BY <1>0, <2>3, OutboxAppended, StreamBehind DEF DeliveryInv, InsertEvent
  <2>5. k \notin ToSet(events)
    <3>1. receipts[k] = NoReceipt
      BY <1>0, <2>2, <2>3 DEF CommandInv, ClientInv
    <3>2. ~Stored(k)
      BY <3>1 DEF Stored, NoReceipt, NoAnswer, Reply, RunStatuses
    <3> QED
      BY <1>0, <3>2 DEF CommandInv, ToSet, EventsType
  <2>6. Feed!AppendEvent(k)
    BY <2>3, <2>5 DEF Feed!AppendEvent, InsertEvent, ToSet, Feed!ToSet
  <2> QED
    BY <2>1, <2>4, <2>6 DEF DeliveryInv, Feed!FeedNext
<1> QED
  BY <1>1, <1>2 DEF ClientStep

\* A publisher keeps the invariant, and at most has an Event of the feed learnt.
LEMMA PublisherStepKeeps ==
  ASSUME DeliveryInv, NEW p \in Publishers, PublisherStep(p) \/ StopPublisher(p)
  PROVE  DeliveryInv' /\ [Feed!FeedNext]_<<events, seen>>
<1>0. CommandInv /\ faults \in Nat /\ EventsType /\ OutboxInv
  BY DEF DeliveryInv, CommandInv, CommandTypes, EventsType
<1>1. UNCHANGED <<commandVars, stream>> /\ faults' \in Nat
  BY <1>0 DEF PublisherStep, ClaimOutbox, Publish, RecordOutboxDelivery, StopPublisher, Fault,
     commandVars
<1>2. CommandInv' /\ StreamInv'
  BY <1>0, <1>1, StreamBehind DEF commandVars, DeliveryInv, CommandInv, CommandTypes, ClientInv,
     Stored, Key, Request
<1>3. OutboxInv'
  BY <1>0, ClaimOutboxStep, PublishStep, RecordOutboxDeliveryStep, StopPublisherStep
     DEF PublisherStep
<1>4. [Feed!FeedNext]_<<events, seen>>
  <2>1. CASE Publish(p)
    <3>1. PICK id \in Keys : id \in ToSet(events) /\ seen' \in {seen, seen \cup {id}}
      BY <1>0, <2>1, PublishStep
    <3>2. CASE id \in seen
      BY <3>1, <3>2, <1>1 DEF commandVars
    <3>3. CASE seen' = seen \cup {id} /\ id \notin seen
      BY <3>1, <3>3, <1>1 DEF commandVars, Feed!FeedNext, Feed!LearnEvent, ToSet, Feed!ToSet
    <3> QED
      BY <3>1, <3>2, <3>3, <1>1 DEF commandVars
  <2>2. CASE ~Publish(p)
    BY <2>2, <1>1 DEF PublisherStep, ClaimOutbox, RecordOutboxDelivery, StopPublisher, commandVars
  <2> QED
    BY <2>1, <2>2
<1> QED
  BY <1>1, <1>2, <1>3, <1>4 DEF DeliveryInv

\* Every step keeps the invariant and is a step, or a stutter, of the feed.
LEMMA DeliveryStep ==
  DeliveryInv /\ [DeliveryNext]_deliveryVars => DeliveryInv' /\ [Feed!FeedNext]_<<events, seen>>
<1> SUFFICES ASSUME DeliveryInv, [DeliveryNext]_deliveryVars
             PROVE  DeliveryInv' /\ [Feed!FeedNext]_<<events, seen>>
  OBVIOUS
<1>0. CommandInv /\ faults \in Nat /\ EventsType /\ OutboxInv /\ StreamInv
  BY DEF DeliveryInv, CommandInv, CommandTypes, EventsType
<1>1. ASSUME UNCHANGED commandVars PROVE CommandInv'
  BY <1>0, <1>1 DEF commandVars, CommandInv, CommandTypes, ClientInv, Stored, Key, Request
<1>2. ASSUME NEW i \in DOMAIN outbox, TimePasses(i)
      PROVE  DeliveryInv' /\ [Feed!FeedNext]_<<events, seen>>
  <2>1. UNCHANGED <<run, events, receipts, client, seen, stream>> /\ faults' \in Nat
    BY <1>0, <1>2 DEF TimePasses, Fault
  <2> QED
    BY <1>0, <1>1, <1>2, <2>1, TimePassesStep, StreamBehind DEF DeliveryInv, commandVars
<1>3. ASSUME StreamStep \/ CutStream
      PROVE  DeliveryInv' /\ [Feed!FeedNext]_<<events, seen>>
  <2>1. UNCHANGED <<run, events, receipts, client, outbox, publisher, seen>> /\ faults' \in Nat
    BY <1>0, <1>3 DEF StreamStep, PollEvents, SendEvent, CheckRun, CutStream, Fault
  <2>2. OutboxInv'
    BY <1>0, <2>1 DEF OutboxInv, PublisherInv
  <2>3. StreamInv'
    BY <1>0, <1>3, PollEventsStep, SendEventStep, StreamResumes DEF StreamStep
  <2> QED
    BY <1>1, <2>1, <2>2, <2>3 DEF DeliveryInv, commandVars
<1>4. CASE UNCHANGED deliveryVars
  BY <1>0, <1>1, <1>4, QuietClient DEF deliveryVars, commandVars
<1> QED
  BY <1>2, <1>3, <1>4, ClientStepKeeps, PublisherStepKeeps DEF DeliveryNext

\* The inductive invariant holds in every reachable state, for every number of
\* clients, publishers, repetitions and faults.
THEOREM DeliveryInvariant == DeliverySpec => []DeliveryInv
<1> QED
  BY DeliveryStart, DeliveryStep, PTL DEF DeliverySpec

\* Every reply for a key and request is the one stored in its receipt
\* (acquire_receipt, finish_receipt, decode_run_receipt).
THEOREM AnswersAreReplayed == DeliverySpec => []ReplayedAnswer
<1>1. DeliveryInv => ReplayedAnswer
  BY DEF DeliveryInv, CommandInv, ClientInv, ReplayedAnswer, Refusals
<1> QED
  BY <1>1, DeliveryInvariant, PTL

\* A message given up as published has reached the consumer (claim_outbox,
\* record_outbox_delivery).
THEOREM OutboxIsTrue == DeliverySpec => []OutboxTruth
<1>1. DeliveryInv => OutboxTruth
  BY DEF DeliveryInv, OutboxInv, OutboxTruth
<1> QED
  BY <1>1, DeliveryInvariant, PTL

\* The stream gives the Events in order, none twice and none left out, over any
\* number of pages and resumptions (next_sse_event, stream_events).
THEOREM StreamIsInOrder == DeliverySpec => []StreamInOrder
<1>1. DeliveryInv => StreamInOrder
  <2> SUFFICES ASSUME DeliveryInv PROVE StreamInOrder
    OBVIOUS
  <2>1. /\ stream.got \in Seq(Keys) /\ events \in Seq(Keys) /\ stream.after \in Nat
        /\ Len(stream.got) = stream.after /\ stream.after <= Len(events)
        /\ \A n \in 1 .. stream.after : stream.got[n] = events[n]
    <3>1. stream.got \in Seq(Keys) /\ stream.after \in Nat /\ Len(stream.pending) \in Nat
      BY DEF DeliveryInv, StreamInv, StreamRows
    <3>2. Len(events) \in Nat /\ events \in Seq(Keys)
      BY DEF DeliveryInv, CommandInv, CommandTypes
    <3> QED
      BY <3>1, <3>2 DEF DeliveryInv, StreamInv
  <2>2. SubSeq(stream.got, 1, stream.after) = SubSeq(events, 1, stream.after)
    BY <2>1
  <2> QED
    BY <2>1, <2>2 DEF StreamInOrder, IsPrefix
<1> QED
  BY <1>1, DeliveryInvariant, PTL

\* Commands, receipts and outbox implement the safety part of the Event feed: an Event
\* is appended at most once under its id, is never taken back, and only appended
\* Events are learnt.
THEOREM FeedIsSafe == DeliverySpec => Feed!FeedInit /\ [][Feed!FeedNext]_<<events, seen>>
<1> QED
  BY DeliveryInvariant, DeliveryStart, DeliveryStep, PTL DEF DeliverySpec
=============================================================================
