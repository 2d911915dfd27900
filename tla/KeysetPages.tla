------------------------------ MODULE KeysetPages ------------------------------
(***************************************************************************)
(* The lists of the API.  Every one is read a page at a time: the handler  *)
(* fetches one row more than the limit, in the order of a key and then of  *)
(* the id, and when it gets that row hands out a cursor, which is the key  *)
(* and the id of the last row of the page.  Rows are inserted while a      *)
(* client walks; in some tables the key of a row moves, or a row leaves.   *)
(* Two lists of the Enterprise tier are read otherwise: by offset, and in  *)
(* the order of the log; they go on after every full page.                 *)
(***************************************************************************)
EXTENDS Naturals, Sequences, FiniteSets, FiniteSetsExt

CONSTANTS
  RowIds,      \* ids, in their order
  KeyTimes,    \* keys
  PageLimit,   \* ?limit=
  MaxPages     \* pages a client asks for (a bound)

ASSUME PagesAssumptions ==
  /\ RowIds \subseteq Nat \ {0} /\ IsFiniteSet(RowIds)
  /\ KeyTimes \subseteq Nat \ {0} /\ PageLimit \in Nat \ {0}

VARIABLES
  list,      \* the list that is read
  keyOf,     \* the rows, by id: their key, or 0 when there is no row
  cursor,    \* the client's cursor, Start before the first page, or Finished
  pages,     \* the pages it got
  standing   \* history: the rows there have been since the walk began

pageVars == <<list, keyOf, cursor, pages, standing>>

-------------------------------------------------------------------------------
(* What a list is sorted by, how the key of a row may move, whether rows   *)
(* leave it, and whether the handler reads the cursor it is sent.          *)
ByTime == [by |-> "time", moves |-> "no", leaves |-> FALSE, resumes |-> TRUE, probes |-> TRUE]
BySeq == [ByTime EXCEPT !.by = "seq"]    \* one row has a number, and the cursor is that
ByName == [ByTime EXCEPT !.by = "name"]  \* ascending, by the id itself
WhileActive == [ByTime EXCEPT !.leaves = TRUE]
OfSpans == [ByTime EXCEPT !.moves = "earlier", !.leaves = TRUE]  \* a start, until retention
OfSessions == [ByTime EXCEPT !.moves = "later"]  \* the last event
OfLog == [ByTime EXCEPT !.by = "log", !.probes = FALSE]  \* ascending numbers
ByOffset == [WhileActive EXCEPT !.by = "offset", !.probes = FALSE]  \* by id, so many rows on
OfWorkstreams == [ByTime EXCEPT !.moves = "earlier"]  \* MIN of the starts

listExports == ByTime
listAttachments == ByTime
listDashboards == ByTime
listConfigs == ByTime
listEvalRuns == ByTime
listScenarios == ByTime
listSimulationRuns == ByTime
listPlaygroundRuns == ByTime
listAlertRules == ByTime
alertRuleHistory == BySeq
listGatewayKeys == ByTime
listQueues == ByTime
listApiKeys == ByTime
publicListScores == BySeq
listWebhookEndpoints == ByTime
listMembers == WhileActive
listInvites == WhileActive
listAudit == BySeq
listWorkspaces == [WhileActive EXCEPT !.resumes = FALSE]
handleListWorkstreams == OfWorkstreams
publicListWorkstreams == OfWorkstreams
listObservations == OfSpans
publicListObservations == OfSpans
listSessions == OfSessions
publicListSessions == OfSessions
listFingerprints == ByName
listMaskingRules == WhileActive
listScimUsers == ByOffset
exportAudit == OfLog

Lists == {listExports, listAttachments, listDashboards, listConfigs, listEvalRuns, listScenarios,
          listSimulationRuns, listPlaygroundRuns, listAlertRules, alertRuleHistory, listGatewayKeys,
          listQueues, listApiKeys, publicListScores, listWebhookEndpoints, listMembers, listInvites,
          listAudit, listWorkspaces, handleListWorkstreams, publicListWorkstreams, listObservations,
          publicListObservations, listSessions, publicListSessions, listFingerprints,
          listMaskingRules, listScimUsers, exportAudit}

-------------------------------------------------------------------------------
Start == [key |-> 0, id |-> 0]
Finished == [key |-> 0, id |-> 1]
Walking == cursor # Finished /\ Len(pages) < MaxPages
Present == {i \in RowIds : keyOf[i] # 0}
Places == {place \in (1 .. Len(pages)) \X (1 .. PageLimit) : place[2] <= Len(pages[place[1]])}
RowAt(place) == pages[place[1]][place[2]]
Shown == {RowAt(place) : place \in Places}

(* A name is its own key, and a sequence number is given once.             *)
Admissible(keys) ==
  /\ list.by = "name" => \A i \in RowIds : keys[i] \in {0, Min(KeyTimes)}
  /\ list.by \in {"seq", "log"} => \A i, j \in RowIds : keys[i] = keys[j] => i = j \/ keys[i] = 0

PagesInit ==
  /\ list \in Lists
  /\ keyOf \in {keys \in [RowIds -> {0} \cup KeyTimes] : Admissible(keys)}
  /\ cursor = Start /\ pages = <<>> /\ standing = Present

(* The order of a page, which every handler sorts by once more.            *)
Precedes(i, j) ==
  IF list.by \in {"name", "offset"} THEN i < j
  ELSE IF list.by = "log" THEN keyOf[i] < keyOf[j]
  ELSE keyOf[i] > keyOf[j] \/ (keyOf[i] = keyOf[j] /\ i > j)

BeyondKey(i) == cursor = Start \/ keyOf[i] < cursor.key  \* mutant: ties are skipped
Beyond(i) ==
  \/ cursor = Start \/ ~list.resumes
  \/ list.by = "name" /\ i > cursor.id
  \/ list.by = "seq" /\ keyOf[i] < cursor.key
  \/ list.by = "log" /\ keyOf[i] > cursor.key
  \/ list.by = "offset" /\ Cardinality({j \in Present : j < i}) >= Cardinality(Places)
  \/ list.by = "time" /\ (keyOf[i] < cursor.key \/ (keyOf[i] = cursor.key /\ i < cursor.id))

(* One row more than the limit says whether there is another page; the    *)
(* other two lists take a full page for a sign of it.                      *)
FetchLimit == IF list.probes THEN PageLimit + 1 ELSE PageLimit
Ahead == {i \in Present : Beyond(i)}
PlaceOf(i) == Cardinality({j \in Ahead : Precedes(j, i)}) + 1
Fetched ==
  [n \in 1 .. Min({Cardinality(Ahead), FetchLimit}) |-> CHOOSE i \in Ahead : PlaceOf(i) = n]

ReadPage ==
  LET page == SubSeq(Fetched, 1, Min({Len(Fetched), PageLimit}))
      last == page[Len(page)]
  IN /\ Walking
     /\ pages' = Append(pages, page)
     /\ cursor' = IF Len(Fetched) = FetchLimit THEN [key |-> keyOf[last], id |-> last] ELSE Finished
     /\ UNCHANGED <<list, keyOf, standing>>

WriteKey(i, t) ==
  /\ Walking /\ keyOf' = [keyOf EXCEPT ![i] = t] /\ Admissible(keyOf')
  /\ UNCHANGED <<list, cursor, pages>>

(* A row that was shown and left comes back, if it does, where it was.     *)
InsertRow(i, t) ==
  i \notin Present \cup Shown /\ WriteKey(i, t) /\ UNCHANGED standing

MoveKey(i, t) ==
  /\ i \in Present
  /\ (list.moves = "earlier" /\ t < keyOf[i]) \/ (list.moves = "later" /\ t > keyOf[i])
  /\ WriteKey(i, t) /\ UNCHANGED standing

RemoveRow(i) ==
  i \in Present /\ list.leaves /\ WriteKey(i, 0) /\ standing' = standing \ {i}

PagesNext ==
  \/ ReadPage
  \/ \E i \in RowIds, t \in KeyTimes : InsertRow(i, t) \/ MoveKey(i, t)
  \/ \E i \in RowIds : RemoveRow(i)

-------------------------------------------------------------------------------
(* A client that follows the cursors to the end while rows are written     *)
(* sees every row that was there throughout, unless a later event of a     *)
(* session moved it over the cursor; and no row twice, unless it is a span *)
(* or a workstream whose start was found to be earlier.  The workspaces of *)
(* a user are the exception to both: their second page is the first again; *)
(* and the directory's list by offset is another, since its rows shift.    *)
WalksAreComplete ==
  list.resumes /\ list.by # "offset" =>
    /\ cursor = Finished /\ list.moves # "later" => standing \subseteq Shown
    /\ list.moves # "earlier" => \A p, q \in Places : RowAt(p) = RowAt(q) => p = q

(* "a next_cursor is emitted only when that extra row proved another page  *)
(* exists" (platform/src/ingest.ts, the rule the lists share): the page a  *)
(* cursor leads to is another page.                                        *)
CursorsLeadOn ==
  list.moves = "no" =>
    \A n \in DOMAIN pages : n > 1 /\ pages[n] # <<>> => pages[n] # pages[n - 1]
===============================================================================
