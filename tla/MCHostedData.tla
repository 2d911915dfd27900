----------------------------- MODULE MCHostedData -----------------------------
(***************************************************************************)
(* What the hosted service keeps for a workspace and for its account: the  *)
(* read models of the event log, the cold tier and exports, attachments,   *)
(* dashboards, pages of lists, analytics, beta accounts, browser sessions, *)
(* SCIM, masking, OTLP exports, MCP tools.  They share no row of the       *)
(* database but the log that most of them read, so a behaviour moves one   *)
(* of them only: "part" picks it, and the others stay as they began.       *)
(***************************************************************************)
EXTENDS ObservationRows, ColdTier, Attachments, Dashboards,
        KeysetPages, BetaAccounts, BrowserSessions, Directory, Masking, Decimals, Analytics,
        OtlpExports, HostedTools, TLC

CONSTANT Parts  \* the parts that a behaviour may move

(* Patterns of up to three segments over the names 1, 2, 12 and 121, with  *)
(* stars that must not match overlapping text, and payloads whose paths    *)
(* are named, enclose a named one, or are too many or too deep.            *)
MCPatterns ==
  LET tokens == {<< <<1>> >>, << <<>>, <<>> >>, << <<1>>, <<1>> >>, << <<1>>, <<>> >>,
                 << <<>>, <<2>>, <<>> >>, << <<1>>, <<2>>, <<1>> >>, << <<1, 2>>, <<2>> >>,
                 << <<>>, <<1>> >>}
      first == {<< <<1>> >>, Globstar}
      last == {<< <<1>> >>, Globstar, << <<>>, <<2>>, <<>> >>}
  IN {<<t>> : t \in tokens \cup {Globstar}} \cup {<<s, t>> : s \in first, t \in last}
     \cup {<<Globstar, << <<1>> >>, t>> : t \in {Globstar, << <<1>>, <<2>>, <<1>> >>}}
MCPayloads ==
  LET Closed(S) == UNION {{SubSeq(p, 1, n) : n \in 0 .. Len(p)} : p \in S}
      x == <<1>>  y == <<2>>  xy == <<1, 2>>  xyx == <<1, 2, 1>>
  IN {Closed(S) : S \in {{<<>>}, {<<x>>, <<y>>}, {<<x, xy>>, <<xyx>>}, {<<xy, x>>, <<x, y>>, <<x, x>>},
                         {<<x, x, xyx>>, <<y>>}, {<<x, y, x, y>>}}}

(* Traces of three spans and of one, in two groups.                        *)
MCTraceOf == 1 :> 1 @@ 2 :> 1 @@ 3 :> 1 @@ 4 :> 2
MCGroupOf == 1 :> "g" @@ 2 :> "h" @@ 3 :> "g" @@ 4 :> "g"
MCKindOf == 1 :> {"a"} @@ 2 :> {"b"} @@ 3 :> {"a", "b"} @@ 4 :> {"a"}

(* A trace with a session key on its root only and a child with a bad one, *)
(* another trace of the same session, and one with a refused service.      *)
Telemetry(t, p, from, to, k, v, n, f) ==
  [trace |-> t, parent |-> p, from |-> from, to |-> to, key |-> k, service |-> v, tokens |-> n, fault |-> f]
MCOtlpSpan ==
  [s1 |-> Telemetry("t1", "", 0, 2, "k1", "v1", 1, "none"),
   s2 |-> Telemetry("t1", "s1", 1, 2, "", "v1", 2, "none"),
   s3 |-> Telemetry("t2", "", 1, 3, "k1", "v2", 0, "none"),
   s4 |-> Telemetry("t1", "s1", 0, 1, "k2", "v1", 0, "key"),
   s5 |-> Telemetry("t3", "", 1, 1, "", "", 1, "none"),
   s6 |-> Telemetry("t3", "s5", 2, 2, "", "v3", 1, "none")]
MCOrders == {<<"s1", "s2", "s3", "s4", "s5", "s6">>, <<"s6", "s5", "s4", "s3", "s2", "s1">>}

(* One who may write, and one of another workspace who may not.            *)
MCHomeOf == [u1 |-> "w1", u2 |-> "w2"]
MCWriteFlag == [list_scores |-> FALSE, record_score |-> TRUE]

VARIABLE part

(* The choices of the initial states matter to their own part only.        *)
DataInit ==
  /\ part \in Parts
  /\ ObservationsInit /\ ColdTierInit
  /\ AttachmentsInit
  /\ part # "attachments" => \A u \in Uploads : upload[u].row.kind = CHOOSE k \in Kinds : TRUE
  /\ DashboardsInit /\ AccountsInit /\ SessionsInit
  /\ PagesInit /\ (part # "pages" => list = listExports /\ Present = {})
  /\ DirectoryInit /\ MaskingInit /\ DecimalsInit /\ AnalyticsInit /\ OtlpInit /\ ToolsInit

ObservationPart == part = "observations" /\ ObservationsNext
CompactionPart == part = "compaction" /\ CompactionNext
ExportPart == part = "exports" /\ ExportNext
AttachmentPart == part = "attachments" /\ AttachmentsNext
DashboardPart == part = "dashboards" /\ DashboardsNext
PagePart == part = "pages" /\ PagesNext
AccountPart == part = "accounts" /\ AccountsNext
SessionPart == part = "sessions" /\ SessionsNext
DirectoryPart == part = "directory" /\ DirectoryNext
MaskingPart == part = "masking" /\ MaskingNext
DecimalsPart == part = "decimals" /\ DecimalsNext
AnalyticsPart == part = "analytics" /\ AnalyticsNext
OtlpPart == part = "otlp" /\ OtlpNext
ToolsPart == part = "tools" /\ ToolsNext

dataVars ==
  <<obsVars, coldVars, attachmentVars, dashVars, pageVars, accountVars, browserVars,
    directoryVars, maskingVars, decimalVars, analyticsVars, otlpVars, toolVars>>
Still(names, rows) == part \notin names => UNCHANGED rows
DataNext ==
  /\ UNCHANGED part
  /\ \/ ObservationPart \/ CompactionPart \/ ExportPart \/ AttachmentPart
     \/ DashboardPart \/ PagePart \/ AccountPart \/ SessionPart \/ DirectoryPart \/ MaskingPart
     \/ DecimalsPart \/ AnalyticsPart \/ OtlpPart \/ ToolsPart
  /\ Still({"observations"}, obsVars) /\ Still({"compaction", "exports"}, coldVars)
  /\ Still({"attachments"}, attachmentVars) /\ Still({"dashboards"}, dashVars)
  /\ Still({"pages"}, pageVars) /\ Still({"accounts"}, accountVars)
  /\ Still({"sessions"}, browserVars) /\ Still({"directory"}, directoryVars)
  /\ Still({"masking"}, maskingVars) /\ Still({"decimals"}, decimalVars)
  /\ Still({"analytics"}, analyticsVars) /\ Still({"otlp"}, otlpVars) /\ Still({"tools"}, toolVars)

DataSpec == DataInit /\ [][DataNext]_<<part, dataVars>>

-------------------------------------------------------------------------------
(* Rows that compaction moves are in one tier or the other, never in none, *)
(* and an export that is done has every row it began with.                 *)
ColdRowsAreWhole == ColdTierIsComplete /\ ExportsAreWhole

(* What a client was told of its upload, or of its version of a dashboard, *)
(* stays true.                                                             *)
AnswersStand == AttachmentsAreEvidence /\ EditsAreKept

(* What a reader gets is what is stored: a walk through the pages of a     *)
(* list shows every row that was there all along, once, and funnels,       *)
(* series and summaries are exact for the rows they cover.                 *)
ReadsAreExact == WalksAreComplete /\ AnswersAreExact

(* A signed-out session serves nobody again, and the slots of a user count *)
(* the devices that hold them.                                             *)
SessionsAreSound == SignOutIsFinal /\ []DevicesAreCounted

(* What a rule of masking names is masked, and amounts of money are exact. *)
RulesAreExact == MaskingIsComplete /\ DecimalsAreExact
===============================================================================
