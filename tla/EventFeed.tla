----------------------------- MODULE EventFeed -----------------------------
(***************************************************************************)
(* What clients and consumers are promised of the Events of a Run: an      *)
(* Event is appended at most once under its id and never taken back, only  *)
(* appended Events are learnt, and each of them is learnt in the end.      *)
(***************************************************************************)
EXTENDS Naturals, Sequences, SequencesExt

CONSTANT Ids        \* the ids an Event may have

VARIABLES
  feed,   \* the ids of the appended Events, in order
  known   \* the ids the consumer has learnt

FeedInit == feed = <<>> /\ known = {}

AppendEvent(id) ==
  /\ id \notin ToSet(feed)
  /\ feed' = Append(feed, id)
  /\ UNCHANGED known

LearnEvent(id) ==
  /\ id \in ToSet(feed) \ known
  /\ known' = known \cup {id}
  /\ UNCHANGED feed

FeedNext == \E id \in Ids : AppendEvent(id) \/ LearnEvent(id)

FeedSpec ==
  /\ FeedInit /\ [][FeedNext]_<<feed, known>>
  /\ \A id \in Ids : WF_<<feed, known>>(LearnEvent(id))
=============================================================================
