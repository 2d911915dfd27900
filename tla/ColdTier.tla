-------------------------------- MODULE ColdTier --------------------------------
(***************************************************************************)
(* What leaves the event log for R2 (platform/src/artifacts.ts, migration  *)
(* 0006): the compaction sweep, which copies the log of a workspace into   *)
(* objects and lists them, and the exports a device asks for.  Sweeps      *)
(* overlap, and a sweep or a request may die at any of its calls.          *)
(*                                                                         *)
(* The log is one sequence for every workspace; an object is what is in    *)
(* it, a set of sequence numbers, under the name of its range.             *)
(***************************************************************************)
EXTENDS Naturals, Sequences, FiniteSets, FiniteSetsExt

CONSTANTS
  Tenants,        \* workspaces, in the order of their ids
  Compactors,     \* runs of the cron that may overlap
  Exporters,      \* POST /v1/exports requests
  MaxSpineRows,   \* length of the log (a bound)
  SizeTrigger,    \* COMPACTION_SIZE_BYTES, in rows
  ObjectRows,     \* COMPACTION_MAX_EVENTS_PER_OBJECT
  ObjectsPerRun,  \* COMPACTION_MAX_OBJECTS_PER_RUN
  TenantsPerRun,  \* COMPACTION_MAX_WORKSPACES_PER_RUN
  ExportPage,     \* EXPORT_PAGE_SIZE
  ExportRows,     \* EXPORT_MAX_EVENTS
  MaxColdFaults   \* calls that fail, and Workers that die (a bound)

ASSUME ColdTierAssumptions ==
  /\ Tenants \subseteq Nat
  /\ {SizeTrigger, ObjectRows, ObjectsPerRun, TenantsPerRun, ExportPage, ExportRows} \subseteq Nat \ {0}

VARIABLES
  spineOf,    \* the log: whose event each sequence number is
  aged,       \* how much of it is older than COMPACTION_AGE_SECONDS
  fileList,   \* artifact_file_list
  cold,       \* the objects under artifacts/, by name
  compactor,  \* per sweep, where it is and what it read
  export,     \* per request, its row of exports
  download,   \* per request, the object of its export, or NoObject
  exporter,   \* per request, where it is, its cursor and its lines
  ackLost,    \* history: requests whose manifest was committed and reported as failed
  coldFaults

compactionVars == <<spineOf, aged, fileList, cold, compactor>>
exportVars == <<export, download, exporter, ackLost>>
coldVars == <<compactionVars, exportVars, coldFaults>>

NoObject == {0}
Asleep == [at |-> "asleep"]
RowsOf(w) == {n \in DOMAIN spineOf : spineOf[n] = w}
Page(rows, after, limit) ==
  LET rest == {n \in rows : n > after}
  IN {n \in rest : Cardinality({m \in rest : m <= n}) <= limit}
ColdFault == coldFaults < MaxColdFaults /\ coldFaults' = coldFaults + 1

ColdTierInit ==
  /\ spineOf = <<>> /\ aged = 0 /\ fileList = {} /\ cold = {}
  /\ compactor = [c \in Compactors |-> Asleep]
  /\ export = [e \in Exporters |-> [status |-> "none"]]
  /\ download = [e \in Exporters |-> NoObject]
  /\ exporter = [e \in Exporters |-> [at |-> "start"]]
  /\ ackLost = {} /\ coldFaults = 0

AppendRow(w) ==
  /\ Len(spineOf) < MaxSpineRows
  /\ spineOf' = Append(spineOf, w)
  /\ UNCHANGED <<aged, fileList, cold, compactor, exportVars, coldFaults>>

RowsAge ==
  /\ aged < Len(spineOf) /\ aged' = Len(spineOf)
  /\ UNCHANGED <<spineOf, fileList, cold, compactor, exportVars, coldFaults>>

-------------------------------------------------------------------------------
(* runCompaction.  A workspace is a candidate when what is above its       *)
(* watermark is old enough or large enough.                                *)
Watermark(w) == Max({f.max : f \in {g \in fileList : g.of = w}} \cup {0})
Pending(w) == {n \in RowsOf(w) : n > Watermark(w)}
Candidate(w) ==
  /\ Pending(w) # {}
  /\ Cardinality(Pending(w)) >= SizeTrigger \/ Min(Pending(w)) <= aged
Candidates ==
  LET all == {w \in Tenants : Candidate(w)}
  IN {w \in all : Cardinality({v \in all : v <= w}) <= TenantsPerRun}

CompactorGoto(c, next) == compactor' = [compactor EXCEPT ![c] = next]
CompactorRests(c) == CompactorGoto(c, Asleep)
BeforeFirst(w) == Min(Pending(w)) - 1

StartCompaction(c) ==
  /\ compactor[c] = Asleep /\ Candidates # {}
  /\ CompactorGoto(c, [at |-> "page", made |-> 0, todo |-> [w \in Candidates |-> BeforeFirst(w)]])
  /\ UNCHANGED <<spineOf, aged, fileList, cold, exportVars, coldFaults>>

(* The workspace at hand, which is done when a page is empty or not full.  *)
Here(job) == Min(DOMAIN job.todo)
Others(job) == DOMAIN job.todo \ {Here(job)}
NextTenant(c, job) ==
  IF Others(job) = {} \/ job.made >= ObjectsPerRun THEN CompactorRests(c)
  ELSE CompactorGoto(c, [at |-> "page", made |-> job.made, todo |-> [w \in Others(job) |-> job.todo[w]]])

ReadObjectRows(c) ==
  LET job == compactor[c]
      rows == Page(RowsOf(Here(job)), job.todo[Here(job)], ObjectRows)
  IN /\ job.at = "page"
     /\ IF rows = {} THEN NextTenant(c, job)
        ELSE CompactorGoto(c, [at |-> "put", made |-> job.made, todo |-> job.todo, rows |-> rows])
     /\ UNCHANGED <<spineOf, aged, fileList, cold, exportVars, coldFaults>>

(* The name of an object is its range: one that exists is not written.     *)
ObjectName(w, rows) == [of |-> w, min |-> Min(rows), max |-> Max(rows)]
PutObject(c) ==
  LET job == compactor[c]
      name == ObjectName(Here(job), job.rows)
  IN /\ job.at = "put"
     /\ cold' = IF \E o \in cold : o.name = name THEN cold ELSE cold \cup {[name |-> name, rows |-> job.rows]}
     /\ CompactorGoto(c, [job EXCEPT !.at = "list"])
     /\ UNCHANGED <<spineOf, aged, fileList, exportVars, coldFaults>>

(* INSERT OR IGNORE, then the next page of the workspace or the next one.  *)
ListObject(c) ==
  LET job == compactor[c]
      made == job.made + 1
  IN /\ job.at = "list"
     /\ fileList' = fileList \cup {ObjectName(Here(job), job.rows)}
     /\ IF Cardinality(job.rows) < ObjectRows \/ made >= ObjectsPerRun
        THEN NextTenant(c, [job EXCEPT !.made = made])
        ELSE CompactorGoto(c, [at |-> "page", made |-> made,
                               todo |-> [job.todo EXCEPT ![Here(job)] = Max(job.rows)]])
     /\ UNCHANGED <<spineOf, aged, cold, exportVars, coldFaults>>

CompactorDies(c) ==
  /\ compactor[c] # Asleep /\ ColdFault
  /\ CompactorRests(c)
  /\ UNCHANGED <<spineOf, aged, fileList, cold, exportVars>>

-------------------------------------------------------------------------------
(* createExport: the row, pages of the log by cursor, the object and the   *)
(* manifest.                                                               *)
ExporterGoto(e, next) == exporter' = [exporter EXCEPT ![e] = next]
SettleExport(e, row) ==
  export' = IF export[e].status = "running" THEN [export EXCEPT ![e] = row] ELSE export

InsertExport(e, w) ==
  /\ exporter[e].at = "start"
  /\ export' = [export EXCEPT ![e] = [status |-> "running"]]
  /\ ExporterGoto(e, [at |-> "page", of |-> w, cursor |-> 0, lines |-> {}, since |-> RowsOf(w)])
  /\ UNCHANGED <<compactionVars, download, ackLost, coldFaults>>

(* mutant: the next page starts one row too far.                           *)
CursorPast(rows, cursor) == Max(rows \cup {cursor}) + 1
CursorAfter(rows, cursor) == Max(rows \cup {cursor})

ReadExportPage(e) ==
  LET job == exporter[e]
      rows == Page(RowsOf(job.of), job.cursor, ExportPage)
      lines == job.lines \cup rows
  IN /\ job.at = "page"
     /\ ExporterGoto(e, [job EXCEPT
          !.at = IF Cardinality(lines) > ExportRows THEN "failed"
                 ELSE IF Cardinality(rows) < ExportPage THEN "put" ELSE "page",
          !.lines = lines, !.cursor = CursorAfter(rows, job.cursor)])
     /\ UNCHANGED <<compactionVars, export, download, ackLost, coldFaults>>

PutExport(e) ==
  /\ exporter[e].at = "put"
  /\ download' = [download EXCEPT ![e] = exporter[e].lines]
  /\ ExporterGoto(e, [exporter[e] EXCEPT !.at = "manifest"])
  /\ UNCHANGED <<compactionVars, export, ackLost, coldFaults>>

DoneRow(e) == [status |-> "done", count |-> Cardinality(exporter[e].lines)]
CompleteExport(e) ==
  /\ exporter[e].at = "manifest"
  /\ SettleExport(e, DoneRow(e))
  /\ ExporterGoto(e, [exporter[e] EXCEPT !.at = "end"])
  /\ UNCHANGED <<compactionVars, download, ackLost, coldFaults>>

(* The manifest throws, and was committed or not: the object is dropped.   *)
ManifestThrows(e) ==
  /\ exporter[e].at = "manifest" /\ ColdFault
  /\ \/ UNCHANGED <<export, ackLost>>
     \/ SettleExport(e, DoneRow(e)) /\ ackLost' = ackLost \cup {e}
  /\ ExporterGoto(e, [exporter[e] EXCEPT !.at = "drop"])
  /\ UNCHANGED <<compactionVars, download>>

DropObject(e) ==
  /\ exporter[e].at = "drop"
  /\ download' = [download EXCEPT ![e] = NoObject]
  /\ ExporterGoto(e, [exporter[e] EXCEPT !.at = "failed"])
  /\ UNCHANGED <<compactionVars, export, ackLost, coldFaults>>

(* Any other call throws: a page, or a put that may have been stored.      *)
ExportThrows(e) ==
  /\ exporter[e].at \in {"page", "put"} /\ ColdFault
  /\ \/ UNCHANGED download
     \/ exporter[e].at = "put" /\ download' = [download EXCEPT ![e] = exporter[e].lines]
  /\ ExporterGoto(e, [exporter[e] EXCEPT !.at = "failed"])
  /\ UNCHANGED <<compactionVars, export, ackLost>>

SettleFailedExport(e) ==
  /\ exporter[e].at = "failed"
  /\ SettleExport(e, [status |-> "error"])
  /\ ExporterGoto(e, [exporter[e] EXCEPT !.at = "end"])
  /\ UNCHANGED <<compactionVars, download, ackLost, coldFaults>>

ExporterDies(e) ==
  /\ exporter[e].at \notin {"start", "end"} /\ ColdFault
  /\ ExporterGoto(e, [exporter[e] EXCEPT !.at = "end"])
  /\ UNCHANGED <<compactionVars, export, download, ackLost>>

CompactionNext ==
  \/ \E w \in Tenants : AppendRow(w)
  \/ RowsAge
  \/ \E c \in Compactors :
       StartCompaction(c) \/ ReadObjectRows(c) \/ PutObject(c) \/ ListObject(c) \/ CompactorDies(c)

ExportNext ==
  \/ \E w \in Tenants : AppendRow(w)
  \/ \E e \in Exporters : \E w \in Tenants : InsertExport(e, w)
  \/ \E e \in Exporters :
       ReadExportPage(e) \/ PutExport(e) \/ CompleteExport(e) \/ ManifestThrows(e)
       \/ DropObject(e) \/ ExportThrows(e) \/ SettleFailedExport(e) \/ ExporterDies(e)

ColdTierNext == CompactionNext \/ ExportNext

-------------------------------------------------------------------------------
(* However sweeps overlap and die, the cold tier replays the log: a listed *)
(* object exists and holds every event of its workspace in its range, and  *)
(* no event at or below the watermark of its workspace, which no sweep     *)
(* looks at again, is missing from the listed objects.                     *)
ColdTierIsComplete ==
  /\ \A f \in fileList : \E o \in cold :
       o.name = f /\ o.rows = {n \in RowsOf(f.of) : f.min <= n /\ n <= f.max}
  /\ \A w \in Tenants : \A n \in RowsOf(w) :
       n <= Watermark(w) => \E f \in fileList : f.of = w /\ f.min <= n /\ n <= f.max

(* A finished export has its object, which counts what the manifest says,  *)
(* has every event that was there when it was asked for, and whose events  *)
(* have no gap; the exception is a manifest that was committed while its   *)
(* acknowledgement was lost.  No export that failed is offered.            *)
ExportsAreWhole ==
  \A e \in Exporters : export[e].status = "done" /\ e \notin ackLost =>
    LET job == exporter[e]
    IN /\ download[e] # NoObject /\ Cardinality(download[e]) = export[e].count
       /\ job.since \subseteq download[e]
       /\ download[e] = {n \in RowsOf(job.of) : n <= Max(download[e] \cup {0})}
       /\ export[e].count <= ExportRows
===============================================================================
