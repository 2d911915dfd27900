------------------------------ MODULE Annotations ------------------------------
(***************************************************************************)
(* The human annotation queues of platform/src/annotations.ts: one queue   *)
(* over the spans its filter matches, the annotators who claim, submit and *)
(* skip its items, the refills, and the room (a Durable Object) that       *)
(* mirrors its counts for the live view.                                   *)
(*                                                                         *)
(* A request is cut at each await: the read of the candidates, each        *)
(* statement, the count and the notification, which nobody awaits.  The    *)
(* Worker may be evicted at any of these points.                           *)
(***************************************************************************)
EXTENDS Naturals, Sequences, FiniteSets

CONSTANTS
  Spans,        \* the spans of the workspace, in the order of their start
  Annotators,   \* requests in flight
  MaxScan,      \* MAX_ITEMS_PER_SCAN
  MaxAnnEvictions  \* bound: Workers evicted in the middle of a request

ASSUME AnnotationsAssumption ==
  /\ IsFiniteSet(Spans) /\ Spans \subseteq Nat
  /\ MaxScan \in Nat \ {0} /\ MaxAnnEvictions \in Nat

VARIABLES
  matching,  \* the spans that match the filter now (span_observations)
  queue,     \* has the queue been created
  items,     \* annotation_items of the queue, in the order of CLAIM_NEXT_SQL
  scores,    \* how many score.recorded events name the item of a span
  room,      \* the counts the room holds
  annotator,   \* what each request is about to do
  annEvictions,
  cutScores        \* history: items whose submission was evicted before its score

annVars == <<matching, queue, items, scores, room, annotator, annEvictions, cutScores>>

AnnIdle == [at |-> "idle"]
ZeroCounts == [pending |-> 0, claimed |-> 0, done |-> 0]
PendingItem(s) == [target |-> s, status |-> "pending"]
FinalStatuses == {"done", "skipped"}

(* countsForQueue: skipped items are in none of the three counts.          *)
With(status) == Cardinality({i \in DOMAIN items : items[i].status = status})
ItemCounts == [pending |-> With("pending"), claimed |-> With("claimed"), done |-> With("done")]

Targets == {items[i].target : i \in DOMAIN items}
(* How many of some spans come before this one.                            *)
Earlier(some, s) == Cardinality({t \in some : t < s})
(* CANDIDATE_SPANS_SQL: matching, not yet an item, oldest first, bounded.  *)
Candidates == LET new == matching \ Targets IN {s \in new : Earlier(new, s) < MaxScan}

(* INSERT OR IGNORE, oldest first: another refill may have added the same  *)
(* targets.                                                                *)
InsertTargets(some) ==
  LET new == some \ Targets
  IN  items \o [k \in 1 .. Cardinality(new) |-> PendingItem(CHOOSE s \in new : Earlier(new, s) = k - 1)]

-------------------------------------------------------------------------------
AnnotationsInit ==
  /\ matching \in SUBSET Spans
  /\ queue = FALSE
  /\ items = <<>>
  /\ scores = [s \in Spans |-> 0]
  /\ room = ZeroCounts
  /\ annotator = [r \in Annotators |-> AnnIdle]
  /\ annEvictions = 0
  /\ cutScores = {}

AnnGoto(r, next) == annotator' = [annotator EXCEPT ![r] = next]
(* The triggers of annotation_items abort what the statements rule out.    *)
StatusAborts(i, status) ==
  \/ items[i].status \in FinalStatuses /\ status # items[i].status
  \/ status = "claimed" /\ items[i].status # "pending"
SetStatus(i, status) == ~StatusAborts(i, status) /\ items' = [items EXCEPT ![i].status = status]

(* createQueue and refillQueue read the candidates ...                     *)
ScanSpans(r) ==
  /\ annotator[r] = AnnIdle
  /\ queue \/ \A q \in Annotators : annotator[q] = AnnIdle
  /\ AnnGoto(r, IF queue /\ Candidates = {} THEN [at |-> "count"]
                ELSE [at |-> "insert", spans |-> Candidates])
  /\ UNCHANGED <<matching, queue, items, scores, room, annEvictions, cutScores>>

(* ... and insert them, with the queue itself when it is created.          *)
InsertItems(r) ==
  /\ annotator[r].at = "insert"
  /\ queue' = TRUE
  /\ items' = InsertTargets(annotator[r].spans)
  /\ AnnGoto(r, [at |-> "count"])
  /\ UNCHANGED <<matching, scores, room, annEvictions, cutScores>>

Claimable(i) == items[i].status = "pending"
(* claimNextItem: the oldest pending item, in one statement.               *)
ClaimNext(r) ==
  /\ annotator[r] = AnnIdle /\ queue
  /\ \E i \in DOMAIN items :
       /\ Claimable(i) /\ \A j \in 1 .. i - 1 : ~Claimable(j)
       /\ SetStatus(i, "claimed")
  /\ AnnGoto(r, [at |-> "count"])
  /\ UNCHANGED <<matching, queue, scores, room, annEvictions, cutScores>>

(* finalizeItem: pending or claimed, by whomever; otherwise 404 or 409.    *)
Finalisable(i) == items[i].status \notin FinalStatuses

(* submitItem and skipItem: the item is final ...                          *)
SubmitItem(r) ==
  /\ annotator[r] = AnnIdle /\ queue
  /\ \E i \in DOMAIN items :
       Finalisable(i) /\ SetStatus(i, "done") /\ AnnGoto(r, [at |-> "score", span |-> items[i].target])
  /\ UNCHANGED <<matching, queue, scores, room, annEvictions, cutScores>>
SkipItem(r) ==
  /\ annotator[r] = AnnIdle /\ queue
  /\ \E i \in DOMAIN items : Finalisable(i) /\ SetStatus(i, "skipped")
  /\ AnnGoto(r, [at |-> "count"])
  /\ UNCHANGED <<matching, queue, scores, room, annEvictions, cutScores>>

(* ... before insertAnnotationScoreEvent, whose id holds the item and the  *)
(* time: a second submission of the item would be a second event.          *)
RecordScore(r) ==
  /\ annotator[r].at = "score"
  /\ scores' = [scores EXCEPT ![annotator[r].span] = @ + 1]
  /\ AnnGoto(r, [at |-> "count"])
  /\ UNCHANGED <<matching, queue, items, room, annEvictions, cutScores>>

(* countsForQueue, then notifyRoom, which nobody awaits: the request keeps *)
(* its place until the post has arrived or is lost, which bounds the posts *)
(* in flight by the requests.                                              *)
CountAndNotify(r) ==
  /\ annotator[r].at = "count"
  /\ AnnGoto(r, [at |-> "posted", counts |-> ItemCounts])
  /\ UNCHANGED <<matching, queue, items, scores, room, annEvictions, cutScores>>

(* AnnotationQueueRoom.fetch: each post replaces the snapshot; posts of    *)
(* different requests arrive in any order, or never.                       *)
RoomReceives(r) ==
  /\ annotator[r].at = "posted"
  /\ room' \in {annotator[r].counts, room}
  /\ AnnGoto(r, AnnIdle)
  /\ UNCHANGED <<matching, queue, items, scores, annEvictions, cutScores>>

RoomRestarts ==
  /\ room # ZeroCounts /\ room' = ZeroCounts
  /\ UNCHANGED <<matching, queue, items, scores, annotator, annEvictions, cutScores>>

(* The Worker of a request is evicted: what it had not written is lost.    *)
EvictAnnotator(r) ==
  /\ annotator[r].at \in {"insert", "score", "count"} /\ annEvictions < MaxAnnEvictions
  /\ annEvictions' = annEvictions + 1
  /\ cutScores' = IF annotator[r].at = "score" THEN cutScores \cup {annotator[r].span} ELSE cutScores
  /\ AnnGoto(r, AnnIdle)
  /\ UNCHANGED <<matching, queue, items, scores, room>>

(* Ingest changes which spans match.                                       *)
SpansChange ==
  /\ \E s \in Spans : matching' = matching \cup {s} /\ s \notin matching
  /\ UNCHANGED <<queue, items, scores, room, annotator, annEvictions, cutScores>>

AnnotationsNext ==
  \/ RoomRestarts \/ SpansChange
  \/ \E r \in Annotators :
       ScanSpans(r) \/ InsertItems(r) \/ ClaimNext(r) \/ SubmitItem(r) \/ SkipItem(r)
         \/ RecordScore(r) \/ CountAndNotify(r) \/ RoomReceives(r)
         \/ EvictAnnotator(r)

-------------------------------------------------------------------------------
Submitting(s) == \E r \in Annotators : annotator[r] = [at |-> "score", span |-> s]
Done(s) == \E i \in DOMAIN items : items[i] = [target |-> s, status |-> "done"]

(* A span is in the queue once, however many refills scanned it, and gets  *)
(* at most one score, and only when its item was finished by a submission: *)
(* the second annotator is refused (409) and not counted.  A finished item *)
(* without a score is either about to get it or lost it to an eviction     *)
(* between the two writes, which nothing repairs.                          *)
ScoredOnce ==
  /\ \A i, j \in DOMAIN items : items[i].target = items[j].target => i = j
  /\ \A s \in Spans :
       /\ scores[s] <= 1
       /\ scores[s] = 1 => Done(s)
       /\ Done(s) <=> scores[s] = 1 \/ Submitting(s) \/ s \in cutScores

(* readRoomState and getLiveState: whatever a reachable room answers, or   *)
(* the counts of the tables.                                               *)
LiveAnswers == {room, ItemCounts}
(* The live view: when nothing is under way, it shows the counts of the    *)
(* tables (platform/src/annotations.ts on the room: "so the room can never *)
(* drift out of sync").                                                    *)
LiveViewIsCurrent ==
  (\A r \in Annotators : annotator[r] = AnnIdle) => LiveAnswers = {ItemCounts}

===============================================================================
