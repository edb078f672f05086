------------------------------ MODULE Delivery ------------------------------
(***************************************************************************)
(* How a client's command becomes an Event, and how the Event leaves the   *)
(* store: idempotent control commands on one Run with their receipts, the  *)
(* transactional outbox with its publishers, and the Event stream of the   *)
(* HTTP API.  Replies are lost, connections break, publishers fail, stop   *)
(* or outlive their lease, streams are cut and resumed.                    *)
(*                                                                         *)
(* A Run is reduced to status and version; what a control command does to  *)
(* Tasks and Waits, and the other transactions of a Run, are in RunStore.  *)
(* The database clock is reduced to the one thing the outbox asks of it:   *)
(* whether a row's moment has come.                                        *)
(***************************************************************************)
EXTENDS Naturals, Sequences, SequencesExt, FiniteSets

CONSTANTS
  Clients,
  Requests,       \* the commands clients send: records [kind, key, reason]
  Publishers,
  PageSize,       \* Events per page of the stream
  MaxCalls,       \* bound: how often a client sends its command
  MaxFaults       \* bound: lost replies, broken connections, late publishers, cut streams

Kinds == {"pause", "resume", "cancel"}

ASSUME DeliveryAssumption ==
  /\ Requests \subseteq [kind : Kinds, key : STRING, reason : STRING]
  /\ PageSize \in Nat \ {0}
  /\ MaxCalls \in Nat /\ MaxFaults \in Nat

\* command_context: the scope and the client's key identify the command; its
\* Event id is derived from them, its request hash from the reason.
KeyOf(r) == <<r.kind, r.key>>

Keys == {KeyOf(r) : r \in Requests}

VARIABLES
  run,        \* [status, version]
  events,     \* the ids of the Run's Events, in sequence order
  receipts,   \* [Keys -> [reason, answer]]: committed command_receipts
  client,     \* [Clients -> [request, pc, expected, answer, calls]]
  outbox,     \* the row of each Event: [status, time, attempt, owner]
  publisher,  \* [Publishers -> [pc, row, attempt, result]]
  seen,       \* the ids the consumer behind the publisher has kept
  stream,     \* [pc, after, pending, got]: one client of the Event stream
  faults

commandVars == <<run, events, receipts, client>>
deliveryVars == <<run, events, receipts, client, outbox, publisher, seen, stream, faults>>

Reply(status) == [status |-> status, version |-> 0]
NoAnswer == Reply("none")
NoReceipt == [reason |-> "none", answer |-> NoAnswer]
NoOwner == "none"
IdlePublisher == [pc |-> "idle", row |-> 0, attempt |-> 0, result |-> "none"]

DeliveryInit ==
  /\ run = [status |-> "active", version |-> 1]
  /\ events = <<>>
  /\ receipts = [k \in Keys |-> NoReceipt]
  /\ client \in [Clients -> [request : Requests, pc : {"ready"}, expected : {0},
                             answer : {NoAnswer}, calls : {0}]]
  /\ outbox = <<>>
  /\ publisher = [p \in Publishers |-> IdlePublisher]
  /\ seen = {}
  /\ stream = [pc |-> "open", after |-> 0, pending |-> <<>>, got |-> <<>>]
  /\ faults = 0

Fault == faults < MaxFaults /\ faults' = faults + 1

----------------------------------------------------------------------------
\* The command a client sends, again when it got no answer: api control, then
\* execute_control in one transaction.

Request(c) == client[c].request
Key(c) == KeyOf(Request(c))

Terminal == run.status = "cancelled"

\* control: load_run reads the version the command will expect.
LoadRun(c) ==
  /\ client[c].pc = "ready" /\ client[c].calls < MaxCalls
  /\ client' = [client EXCEPT ![c].pc = "loaded", ![c].expected = run.version,
                              ![c].calls = @ + 1]
  /\ UNCHANGED <<run, events, receipts, outbox, publisher, seen, stream, faults>>

\* The client has its answer, or the answer is lost and it may send again.
Answered(c, answer) ==
  \/ /\ client' = [client EXCEPT ![c].pc = "done", ![c].answer = answer,
                                 ![c].expected = 0]
     /\ UNCHANGED faults
  \/ /\ Fault
     /\ client' = [client EXCEPT ![c].pc = "ready", ![c].expected = 0]

\* Another transaction has inserted the key and is not through: the INSERT waits.
KeyHeld(c) == \E d \in Clients \ {c} : client[d].pc = "open" /\ Key(d) = Key(c)

\* Mutant: the repetition is answered with the Run as it is now.
DuplicateIsCurrent(c) == run

\* decode_run_receipt: every field of the stored snapshot comes back.
DuplicateAnswer(c) == receipts[Key(c)].answer

\* acquire_receipt: the key is taken, or its receipt answers.
AcquireReceipt(c) ==
  LET receipt == receipts[Key(c)]
  IN  /\ client[c].pc = "loaded" /\ ~KeyHeld(c)
      /\ \/ /\ receipt = NoReceipt
            /\ client' = [client EXCEPT ![c].pc = "open"]
            /\ UNCHANGED faults
         \/ /\ receipt # NoReceipt /\ receipt.reason # Request(c).reason
            /\ Answered(c, Reply("reused"))
         \/ /\ receipt # NoReceipt /\ receipt.reason = Request(c).reason
            /\ Answered(c, DuplicateAnswer(c))
      /\ UNCHANGED <<run, events, receipts, outbox, publisher, seen, stream>>

\* ControlKind::is_no_op
NoOp(kind) ==
  CASE kind = "pause"  -> run.status = "paused" \/ Terminal
    [] kind = "cancel" -> Terminal
    [] kind = "resume" -> FALSE

\* validate_control_expectations, and resume only from "paused".
RefusedWith(c) ==
  CASE client[c].expected # run.version -> "conflict"
    [] client[c].expected = run.version
       /\ Request(c).kind = "resume" /\ run.status # "paused" -> "invalid"
    [] OTHER -> "none"

StatusAfter(kind) ==
  CASE kind = "pause" -> "paused" [] kind = "resume" -> "active" [] kind = "cancel" -> "cancelled"

\* Mutant: the guard is left unfinished and is not committed.
FinishNothing(c, snapshot) == UNCHANGED receipts

\* finish_receipt with the encoded snapshot of the Run.
FinishReceipt(c, snapshot) ==
  receipts' = [receipts EXCEPT ![Key(c)] = [reason |-> Request(c).reason, answer |-> snapshot]]

\* insert_event: the Event and its outbox row.
InsertEvent(id) ==
  /\ events' = Append(events, id)
  /\ outbox' = Append(outbox, [status |-> "pending", time |-> "now", attempt |-> 0,
                               owner |-> NoOwner])

\* execute_control behind the lock of the Run row.
CommitNoOp(c) ==
  /\ client[c].pc = "open" /\ NoOp(Request(c).kind)
  /\ FinishReceipt(c, run)
  /\ Answered(c, run)
  /\ UNCHANGED <<run, events, outbox, publisher, seen, stream>>

CommitRefused(c) ==
  /\ client[c].pc = "open" /\ ~NoOp(Request(c).kind) /\ RefusedWith(c) # "none"
  /\ Answered(c, Reply(RefusedWith(c)))
  /\ UNCHANGED <<run, events, receipts, outbox, publisher, seen, stream>>

CommitApplied(c) ==
  LET snapshot == [status |-> StatusAfter(Request(c).kind), version |-> run.version + 1]
  IN  /\ client[c].pc = "open" /\ ~NoOp(Request(c).kind) /\ RefusedWith(c) = "none"
      /\ run' = snapshot
      /\ InsertEvent(Key(c))
      /\ FinishReceipt(c, snapshot)
      /\ Answered(c, snapshot)
      /\ UNCHANGED <<publisher, seen, stream>>

\* The connection breaks before the commit: the receipt goes with the rest.
Abort(c) ==
  /\ client[c].pc \in {"loaded", "open"} /\ Fault
  /\ client' = [client EXCEPT ![c].pc = "ready", ![c].expected = 0]
  /\ UNCHANGED <<run, events, receipts, outbox, publisher, seen, stream>>

----------------------------------------------------------------------------
\* The outbox.  time is "now" when available_at or lease_expires_at has passed.

Due(i) == outbox[i].status \in {"pending", "publishing"} /\ outbox[i].time = "now"

\* claim_outbox
ClaimOutbox(p, i) ==
  /\ publisher[p].pc = "idle" /\ Due(i)
  /\ outbox' = [outbox EXCEPT ![i] = [status |-> "publishing", time |-> "later",
                                      attempt |-> @.attempt + 1, owner |-> p]]
  /\ publisher' = [publisher EXCEPT ![p] = [pc |-> "claimed", row |-> i,
                                            attempt |-> outbox[i].attempt + 1, result |-> "none"]]
  /\ UNCHANGED <<run, events, receipts, client, seen, stream, faults>>

\* OutboxPublisher::publish: it succeeds, or it fails and the message may have
\* gone out all the same.  The consumer drops an id it has seen.
Publish(p) ==
  LET id == events[publisher[p].row]
  IN  /\ publisher[p].pc = "claimed"
      /\ \/ /\ seen' = seen \cup {id}
            /\ publisher' = [publisher EXCEPT ![p].pc = "sent", ![p].result = "ok"]
            /\ UNCHANGED faults
         \/ /\ Fault
            /\ seen' \in {seen, seen \cup {id}}
            /\ publisher' = [publisher EXCEPT ![p].pc = "sent", ![p].result = "error"]
      /\ UNCHANGED <<run, events, receipts, client, outbox, stream>>

\* record_outbox_delivery: the row is still the one this claim made, and in time.
Fence(p) ==
  LET row == outbox[publisher[p].row]
  IN  /\ row.status = "publishing" /\ row.owner = p /\ row.attempt = publisher[p].attempt
      /\ row.time = "later"

\* Mutant: every result settles the message.
SettledAlways(result) == "published"

\* poll_once: a failed publish goes back to "pending", available when the lease ends.
Settled(result) == IF result = "ok" THEN "published" ELSE "pending"

RecordOutboxDelivery(p) ==
  /\ publisher[p].pc = "sent"
  /\ outbox' = IF Fence(p)
               THEN [outbox EXCEPT ![publisher[p].row].status = Settled(publisher[p].result),
                                   ![publisher[p].row].owner = NoOwner]
               ELSE outbox
  /\ publisher' = [publisher EXCEPT ![p] = IdlePublisher]
  /\ UNCHANGED <<run, events, receipts, client, seen, stream, faults>>

\* The process stops before it has published or reported.
StopPublisher(p) ==
  /\ publisher[p].pc # "idle" /\ Fault
  /\ publisher' = [publisher EXCEPT ![p] = IdlePublisher]
  /\ UNCHANGED <<run, events, receipts, client, outbox, seen, stream>>

Working(i) ==
  \E p \in Publishers : publisher[p].pc # "idle" /\ publisher[p].row = i
                        /\ publisher[p].attempt = outbox[i].attempt

\* The row's moment comes; that its publisher is still at work is a fault.
TimePasses(i) ==
  /\ outbox[i].status # "published" /\ outbox[i].time = "later"
  /\ IF outbox[i].status = "publishing" /\ Working(i) THEN Fault ELSE UNCHANGED faults
  /\ outbox' = [outbox EXCEPT ![i].time = "now"]
  /\ UNCHANGED <<run, events, receipts, client, publisher, seen, stream>>

----------------------------------------------------------------------------
\* The Event stream of the API.

Smaller(a, b) == IF a < b THEN a ELSE b

\* Mutant: the position moves with the page, not with what was sent.
PollMovesOn ==
  LET last == Smaller(stream.after + PageSize, Len(events))
      page == [n \in 1 .. last - stream.after |-> stream.after + n]
  IN  /\ stream.pc = "open" /\ stream.pending = <<>>
      /\ stream' = IF page = <<>> THEN [stream EXCEPT !.pc = "empty"]
                   ELSE [stream EXCEPT !.pending = page, !.after = last]
      /\ UNCHANGED <<run, events, receipts, client, outbox, publisher, seen, faults>>

\* next_sse_event: list_events after the position, one page at a time.
PollEvents ==
  LET last == Smaller(stream.after + PageSize, Len(events))
      page == [n \in 1 .. last - stream.after |-> stream.after + n]
  IN  /\ stream.pc = "open" /\ stream.pending = <<>>
      /\ stream' = IF page = <<>> THEN [stream EXCEPT !.pc = "empty"]
                   ELSE [stream EXCEPT !.pending = page]
      /\ UNCHANGED <<run, events, receipts, client, outbox, publisher, seen, faults>>

SendEvent ==
  /\ stream.pending # <<>>
  /\ stream' = [stream EXCEPT !.pending = Tail(@), !.after = Head(stream.pending),
                              !.got = Append(@, events[Head(stream.pending)])]
  /\ UNCHANGED <<run, events, receipts, client, outbox, publisher, seen, faults>>

\* Nothing new: the stream ends with the Run, which is read a moment later.
CheckRun ==
  /\ stream.pc = "empty"
  /\ stream' = [stream EXCEPT !.pc = IF Terminal THEN "ended" ELSE "open"]
  /\ UNCHANGED <<run, events, receipts, client, outbox, publisher, seen, faults>>

\* stream_events: the connection is cut, or a query fails, and the client resumes
\* from the last id it got.
CutStream ==
  /\ stream.pc # "ended" /\ Fault
  /\ stream' = [stream EXCEPT !.pc = "open", !.pending = <<>>]
  /\ UNCHANGED <<run, events, receipts, client, outbox, publisher, seen>>

----------------------------------------------------------------------------
ClientStep(c) ==
  LoadRun(c) \/ AcquireReceipt(c) \/ CommitNoOp(c) \/ CommitRefused(c) \/ CommitApplied(c)

PublisherStep(p) ==
  (\E i \in DOMAIN outbox : ClaimOutbox(p, i)) \/ Publish(p) \/ RecordOutboxDelivery(p)

StreamStep == PollEvents \/ SendEvent \/ CheckRun

DeliveryNext ==
  \/ \E c \in Clients : ClientStep(c) \/ Abort(c)
  \/ \E p \in Publishers : PublisherStep(p) \/ StopPublisher(p)
  \/ \E i \in DOMAIN outbox : TimePasses(i)
  \/ StreamStep \/ CutStream

\* Requests that arrived are served, the polling service calls its publisher again
\* after every result, time passes, an open stream is served.
DeliverySpec ==
  /\ DeliveryInit /\ [][DeliveryNext]_deliveryVars
  /\ \A c \in Clients : WF_deliveryVars(client[c].pc # "ready" /\ ClientStep(c))
  /\ \A p \in Publishers : WF_deliveryVars(PublisherStep(p))
  /\ \A i \in 1 .. Cardinality(Keys) :
       WF_deliveryVars(i \in DOMAIN outbox /\ ~Working(i) /\ TimePasses(i))
  /\ WF_deliveryVars(StreamStep)

----------------------------------------------------------------------------
\* Every reply a client got for a key and request is the one stored in its receipt:
\* a repetition, after a lost reply or beside another client, is told what the first
\* execution did, even when the Run has changed since.
ReplayedAnswer ==
  \A c \in Clients :
    client[c].pc = "done" /\ client[c].answer.status \notin {"reused", "conflict", "invalid"} =>
      receipts[Key(c)] = [reason |-> Request(c).reason, answer |-> client[c].answer]

\* A message the outbox gave up as published has reached the consumer, although
\* publishers crash between publishing and recording, lose their claim to another
\* one, and record late.
OutboxTruth ==
  \A i \in DOMAIN outbox : outbox[i].status = "published" => events[i] \in seen

\* The stream gives the Events of the Run in order, none twice and none left out,
\* over any number of pages and resumptions.
StreamInOrder == IsPrefix(stream.got, events)

Feed == INSTANCE EventFeed WITH Ids <- Keys, feed <- events, known <- seen

\* Commands, receipts and outbox together implement the Event feed: one Event per key
\* whatever is repeated, lost or interleaved, and every Event reaches the consumer.
FeedImplemented == Feed!FeedSpec
=============================================================================
