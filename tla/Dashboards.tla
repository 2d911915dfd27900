------------------------------- MODULE Dashboards -------------------------------
(***************************************************************************)
(* Dashboards as configuration (platform/src/dashboards.ts, migration      *)
(* 0008): versions that writers append, each at the number after the       *)
(* latest it read, and links that are shared and revoked.  The model has   *)
(* one dashboard; the config a writer sends is known by the writer.        *)
(***************************************************************************)
EXTENDS Naturals, FiniteSets, FiniteSetsExt, SequencesExt

CONSTANTS
  Writers,         \* requests that append a version
  Links,           \* share tokens
  Revokers,        \* requests that revoke the links
  DashSeconds,     \* the clock (a bound)
  MaxVersions,     \* versions after which nothing is retried (a bound)
  MaxDashFaults    \* statements that fail, done or not, and dead Workers (a bound)

VARIABLES
  versions,     \* dashboard_versions: who wrote each of them; empty before the dashboard exists
  writer,       \* per request: where it is and the number it will claim
  share,        \* dashboard_shares: per link, its created_at and revoked_at
  revoker,      \* per request: where it is, its time and what it revokes
  promised,     \* history: the links a revocation answered for, with 200
  dashClock,
  dashFaults

dashVars == <<versions, writer, share, revoker, promised, dashClock, dashFaults>>

Never == 99
(* "Never" stands for a time that is not set.                              *)
ASSUME DashAssumption == DashSeconds \subseteq Nat \ {Never}

NoShare == [created |-> Never, revoked |-> Never]
IsLive(s) == s.created # Never /\ s.revoked = Never
LiveLinks == {l \in Links : IsLive(share[l])}

DashboardsInit ==
  /\ versions = <<>>
  /\ writer = [w \in Writers |-> [at |-> "start", next |-> 0]]
  /\ share = [l \in Links |-> NoShare]
  /\ revoker = [r \in Revokers |-> [at |-> "start"]]
  /\ promised = {} /\ dashClock = 0 /\ dashFaults = 0

DashTick ==
  /\ dashClock + 1 \in DashSeconds /\ dashClock' = dashClock + 1
  /\ UNCHANGED <<versions, writer, share, revoker, promised, dashFaults>>

WriterGoto(w, at, next) == writer' = [writer EXCEPT ![w] = [at |-> at, next |-> next]]
DashFault == dashFaults < MaxDashFaults /\ dashFaults' = dashFaults + 1

(* The row and its version 1 commit together.                              *)
CreateDashboard(w) ==
  /\ versions = <<>> /\ writer[w].at = "start"
  /\ versions' = <<w>>
  /\ WriterGoto(w, "201", 1)
  /\ UNCHANGED <<share, revoker, promised, dashClock, dashFaults>>

ReadLatest(w) ==
  /\ versions # <<>> /\ writer[w].at = "start"
  /\ WriterGoto(w, "insert", Len(versions) + 1)
  /\ UNCHANGED <<versions, share, revoker, promised, dashClock, dashFaults>>

(* The primary key and the trigger of the dense sequence.                  *)
Admits(n) == n = Len(versions) + 1

InsertVersion(w) ==
  /\ writer[w].at = "insert"
  /\ IF Admits(writer[w].next)
     THEN versions' = Append(versions, w) /\ WriterGoto(w, "201", writer[w].next)
     ELSE UNCHANGED versions /\ WriterGoto(w, "confirm", writer[w].next)
  /\ UNCHANGED <<share, revoker, promised, dashClock, dashFaults>>

InsertFails(w) ==
  /\ writer[w].at = "insert" /\ DashFault
  /\ \/ UNCHANGED versions
     \/ Admits(writer[w].next) /\ versions' = Append(versions, w)
  /\ WriterGoto(w, "confirm", writer[w].next)
  /\ UNCHANGED <<share, revoker, promised, dashClock>>

(* The failure is a conflict only if the number is taken; any other is     *)
(* rethrown.                                                               *)
AnyFailure(n) == TRUE  \* mutant: every failure is called a conflict
Confirmed(n) == Len(versions) >= n
ConfirmConflict(w) ==
  /\ writer[w].at = "confirm"
  /\ WriterGoto(w, IF Confirmed(writer[w].next) THEN "409" ELSE "500", writer[w].next)
  /\ UNCHANGED <<versions, share, revoker, promised, dashClock, dashFaults>>

(* The statement that confirms fails too.                                  *)
ConfirmFails(w) ==
  /\ writer[w].at = "confirm" /\ DashFault
  /\ WriterGoto(w, "500", writer[w].next)
  /\ UNCHANGED <<versions, share, revoker, promised, dashClock>>

(* A client reads again after a conflict, and sends its edit again if it   *)
(* is not there; after an error it just may.                               *)
RetryEdit(w) ==
  /\ writer[w].at = "500" \/ (writer[w].at = "409" /\ w \notin Range(versions))
  /\ Len(versions) < MaxVersions
  /\ WriterGoto(w, "start", 0)
  /\ UNCHANGED <<versions, share, revoker, promised, dashClock, dashFaults>>

-------------------------------------------------------------------------------
CreateShare(l) ==
  /\ versions # <<>> /\ share[l] = NoShare
  /\ share' = [share EXCEPT ![l].created = dashClock]
  /\ UNCHANGED <<versions, writer, revoker, promised, dashClock, dashFaults>>

(* The dashboard is read, and the time taken, before the UPDATE.           *)
StartRevoke(r) ==
  /\ versions # <<>> /\ revoker[r].at = "start"
  /\ \E which \in {Links} \cup {{l} : l \in Links} :
       revoker' = [revoker EXCEPT ![r] = [at |-> "update", now |-> dashClock, which |-> which]]
  /\ UNCHANGED <<versions, writer, share, promised, dashClock, dashFaults>>

(* A link made in a second after that time makes the CHECK of revoked_at   *)
(* refuse the whole UPDATE.                                                *)
Refuses(now, links) == \E l \in links : share[l].created > now
Revoked(r) == revoker[r].which \cap LiveLinks
MarkRevoked(r) ==
  share' = [l \in Links |->
    IF l \in Revoked(r) THEN [share[l] EXCEPT !.revoked = revoker[r].now] ELSE share[l]]

UpdateShares(r) ==
  LET job == revoker[r]
  IN /\ job.at = "update"
     /\ IF Refuses(job.now, Revoked(r))
        THEN UNCHANGED <<share, promised>> /\ revoker' = [revoker EXCEPT ![r].at = "500"]
        ELSE /\ MarkRevoked(r)
             /\ promised' = IF job.which = Links \/ Revoked(r) # {}
                            THEN promised \cup {l \in job.which : share[l] # NoShare} ELSE promised
             /\ revoker' = [revoker EXCEPT ![r].at =
                  IF job.which = Links \/ Revoked(r) # {} THEN "200" ELSE "404"]
     /\ UNCHANGED <<versions, writer, dashClock, dashFaults>>

RevokeFails(r) ==
  /\ revoker[r].at = "update" /\ DashFault
  /\ \/ UNCHANGED share
     \/ ~Refuses(revoker[r].now, Revoked(r)) /\ MarkRevoked(r)
  /\ revoker' = [revoker EXCEPT ![r].at = "500"]
  /\ UNCHANGED <<versions, writer, promised, dashClock>>

DashboardsNext ==
  \/ DashTick
  \/ \E w \in Writers :
       CreateDashboard(w) \/ ReadLatest(w) \/ InsertVersion(w) \/ InsertFails(w)
       \/ ConfirmConflict(w) \/ ConfirmFails(w) \/ RetryEdit(w)
  \/ \E l \in Links : CreateShare(l)
  \/ \E r \in Revokers : StartRevoke(r) \/ UpdateShares(r) \/ RevokeFails(r)

(* resolveShare: the latest version, through a live link.                  *)
Resolves(l) == IsLive(share[l]) /\ versions # <<>>

-------------------------------------------------------------------------------
(* Edits race for a number, fail and are retried, and none is lost: one    *)
(* answered 201 is and stays the version it was told, and a conflict is    *)
(* reported only for a number that someone has taken, whatever failed; no  *)
(* edit is there twice when no statement failed.  A link that a            *)
(* revocation answered for resolves to nothing.                            *)
EditsAreKept ==
  /\ \A w \in Writers : writer[w].at = "201" =>
       writer[w].next \in DOMAIN versions /\ versions[writer[w].next] = w
  /\ \A w \in Writers : writer[w].at = "409" => writer[w].next \in DOMAIN versions
  /\ dashFaults = 0 => IsInjective(versions)
  /\ \A l \in promised : ~Resolves(l)
===============================================================================
