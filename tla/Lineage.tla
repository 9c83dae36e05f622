------------------------------- MODULE Lineage -------------------------------
(***************************************************************************)
(* What /provenance/forecast and /health report of the live forecast        *)
(* (managers/api.py, forecast/provenance.py): the run this worker served    *)
(* last, the newest manifested run of the store and the newest legacy       *)
(* record, which the producer and the operator change between two lookups.  *)
(*                                                                          *)
(* A value of a record is known by the artifact it describes.               *)
(***************************************************************************)
EXTENDS Naturals, FiniteSetsExt

CONSTANTS
    MaxManifest,  \* bound: manifests the producer uploads
    LegacyRecord, \* the one legacy artifact
    Stale,        \* artifacts whose created_at is older than the SLA
    None

Manifests == 1..MaxManifest
Artifacts == Manifests \cup {LegacyRecord}

ASSUME LineageAssumption ==
    /\ MaxManifest \in Nat /\ LegacyRecord \notin Manifests
    /\ Stale \subseteq Artifacts /\ None \notin Artifacts

VARIABLES
    newest,    \* manifests 1..newest were uploaded
    excluded,  \* those deleted or quarantined
    legacy,    \* whether the legacy record is in the store
    live,      \* _last_forecast_provenance
    refused,   \* whether _forecast_serving_state is degraded
    report,    \* the request, and what it is answered with
    present    \* the artifacts that have been in the store ever since the request began;
               \* recorded for the properties, read by no action

lineageVars == <<newest, excluded, legacy, live, refused, report, present>>

StoreFields == {"file_id", "source", "created_at", "filename", "name", "targets", "description", "file_hash"}
Fields == StoreFields \cup {"artifact_id", "run_id"}
Record == [Fields -> Artifacts \cup {None}]

ASSUME NoneIsNoRecord == None \notin Record

\* An entry the disk cache kept from an earlier build lacks fields this build writes: the
\* labels of #290, or the timestamp of #249 as well.
WireFields == {"file_id", "source", "run_id", "name", "filename", "targets", "created_at"}
Builds == {{}, {"name", "filename", "targets"}, {"name", "filename", "targets", "created_at"}}
ServedRun == [artifact : Manifests, lacks : Builds]

\* What a served run says of itself.
Of(s, f) == IF s # None /\ f \in WireFields \ s.lacks THEN s.artifact ELSE None

Lookups == {"manifest", "stored"}
\* `failed` are the lookups that failed; `of` is the run that was served when the request
\* was answered.
Reports == [route : {"none", "provenance", "health"},
            at : {"idle", "manifest", "stored", "judge"},
            manifest : Manifests \cup {None}, failed : SUBSET Lookups, of : ServedRun \cup {None},
            record : Record \cup {None}, judged : Artifacts \cup {None},
            status : {"none", "found", "not found", "error", "healthy", "degraded"}]
NoReport == [route |-> "none", at |-> "idle", manifest |-> None, failed |-> {},
             of |-> None, record |-> None, judged |-> None, status |-> "none"]

LineageInit ==
    /\ newest = 0 /\ excluded = {} /\ legacy \in BOOLEAN
    /\ live = None /\ refused = FALSE /\ report = NoReport /\ present = {}

\* What an operator has neither withdrawn nor deleted.
Selectable == (1..newest) \ excluded
InStore == Selectable \cup (IF legacy THEN {LegacyRecord} ELSE {})

-------------------------------------------------------------------------------
(* The store, and the service that serves from it *)

Upload ==
    /\ newest < MaxManifest /\ newest' = newest + 1
    /\ UNCHANGED <<excluded, legacy, live, refused, report, present>>

\* An operator withdraws a run or brings it back, and the legacy record goes or comes.
Rule ==
    /\ \/ /\ \E r \in 1..newest : excluded' = SymDiff(excluded, {r})
          /\ legacy' = legacy
       \/ excluded' = excluded /\ legacy' = ~legacy
    /\ UNCHANGED <<newest, live, refused, report>>
    /\ present' = present \cap InStore'

\* get_latest_dataset serves a run, refuses one and falls back on the last good one, or
\* refuses without one to fall back on.
Serve ==
    /\ report.at = "idle"
    /\ \/ \E r \in 1..newest, lacks \in Builds : live' = [artifact |-> r, lacks |-> lacks]
          /\ refused' \in BOOLEAN
       \/ live' = live /\ refused' = TRUE
    /\ UNCHANGED <<newest, excluded, legacy, report, present>>

Restart ==
    /\ live' = None /\ refused' = FALSE /\ report' = NoReport /\ present' = {}
    /\ UNCHANGED <<newest, excluded, legacy>>

\* get_latest_manifest: None as well when the search fails.
LatestManifest == IF Selectable = {} THEN None ELSE Max(Selectable)

\* get_latest_provenance of the forecast category: the transition guard pins it to the
\* legacy type.
LatestLegacy == IF legacy THEN LegacyRecord ELSE None

-------------------------------------------------------------------------------
(* The record *)

\* PredictionProvenance.to_dict, and what a fresh record holds besides.
StoreRecord(a) == [f \in Fields |-> IF f \in StoreFields THEN a ELSE None]

\* _base_record: a manifested run is what this build serves.
BaseRecord(manifest, stored) ==
    IF manifest # None THEN StoreRecord(manifest)
    ELSE IF stored # None THEN StoreRecord(stored) ELSE None

\* Mutant: the labels of the served run only, as before #290.
AppliedLabels(data) ==
    [data EXCEPT !["artifact_id"] = live.artifact, !["source"] = live.artifact,
                 !["run_id"] = live.artifact,
                 !["created_at"] = IF Of(live, "created_at") = None THEN @ ELSE live.artifact]

\* _apply_served of a wire run: its name is rebuilt from source and its filename from
\* run_id, targets may be None and file_hash is, and only a missing created_at stays what
\* it was.
Applied(data) ==
    [f \in Fields |->
        CASE f = "targets" -> Of(live, "targets")
          [] f = "file_hash" -> None
          [] f = "created_at" /\ Of(live, f) = None -> data[f]
          [] OTHER -> live.artifact]

AppliedNothing(data) == [data EXCEPT !["artifact_id"] = data["file_id"]]

\* forecast_record.
ForecastRecord(manifest, stored) ==
    LET base == BaseRecord(manifest, stored)
    IN  IF live = None THEN IF base = None THEN None ELSE AppliedNothing(base)
        ELSE Applied(IF base = None THEN [f \in Fields |-> None] ELSE base)

\* freshness_input.
FreshnessInput(record) ==
    IF Of(live, "created_at") # None THEN live.artifact ELSE record["created_at"]

-------------------------------------------------------------------------------
(* The routes: each lookup is a call to the store.  One whose search fails finds nothing
   (prediction/manager.py:157-161); any other failure raises. *)

Ask(route) ==
    /\ report.at = "idle"
    /\ report' = [NoReport EXCEPT !.route = route,
                    !.at = IF route = "health" /\ Of(live, "created_at") # None
                           THEN "judge" ELSE "manifest"]
    /\ present' = InStore
    /\ UNCHANGED <<newest, excluded, legacy, live, refused>>

\* However it fails, the manifest lookup then stands for an absence.
LookUpManifest ==
    /\ report.at = "manifest"
    /\ \E lost \in BOOLEAN :
          LET m == IF lost THEN None ELSE LatestManifest
          IN  report' = [report EXCEPT !.manifest = m,
                           !.failed = IF lost THEN {"manifest"} ELSE {},
                           !.at = IF report.route = "health" /\ m # None THEN "judge" ELSE "stored"]
    /\ UNCHANGED <<newest, excluded, legacy, live, refused, present>>

Status(judged) == IF judged \in Stale \/ refused THEN "degraded" ELSE "healthy"

\* get_provenance, once both sources answered; a legacy lookup that raises is a 500.
AnswerProvenance ==
    /\ report.route = "provenance" /\ report.at = "stored"
    /\ \/ \E lost \in BOOLEAN :
          LET record == ForecastRecord(report.manifest, IF lost THEN None ELSE LatestLegacy)
          IN  report' = [report EXCEPT
                 !.at = "idle", !.failed = IF lost THEN @ \cup {"stored"} ELSE @,
                 !.of = live, !.record = record,
                 !.judged = IF record = None THEN None ELSE FreshnessInput(record),
                 !.status = IF record = None THEN "not found" ELSE "found"]
       \/ report' = [report EXCEPT !.at = "idle", !.status = "error"]
    /\ UNCHANGED <<newest, excluded, legacy, live, refused, present>>

\* health_check: the served run, else the newest manifest, else the legacy record.
AnswerHealth ==
    /\ report.route = "health" /\ report.at \in {"judge", "stored"}
    /\ \E stored \in {LatestLegacy, None} :
          LET judged == IF Of(live, "created_at") # None THEN live.artifact
                        ELSE IF report.manifest # None THEN report.manifest ELSE stored
          IN  report' = [report EXCEPT !.at = "idle", !.of = live, !.judged = judged,
                                              !.status = Status(judged)]
    /\ UNCHANGED <<newest, excluded, legacy, live, refused, present>>

LineageNext ==
    \/ Upload \/ Rule \/ Serve \/ Restart
    \/ Ask("provenance") \/ Ask("health") \/ LookUpManifest \/ AnswerProvenance \/ AnswerHealth

LineageSpec == LineageInit /\ [][LineageNext]_lineageVars

-------------------------------------------------------------------------------
(* Properties *)

LineageTypeOK ==
    /\ newest \in 0..MaxManifest /\ excluded \subseteq Manifests /\ legacy \in BOOLEAN
    /\ live \in ServedRun \cup {None} /\ refused \in BOOLEAN
    /\ report \in Reports /\ present \subseteq Artifacts

Dated(s) == s # None /\ Of(s, "created_at") # None

\* Both routes report the run this worker serves, whatever the store holds beside it and
\* whichever lookup failed: the record has no value of another artifact, save for the
\* created_at of a run that was cached without one; the age of the served run alone is
\* judged, and a stale one is never healthy.  When nothing was served, the legacy record
\* stands in for a manifest, and a 404 for either, only where its own lookup failed: a
\* source that was in the store all the while and was looked up is not passed over (#60).
ReportsWhatIsServed ==
    report.at = "idle" =>
        /\ report.record # None /\ report.of # None =>
              \A f \in Fields :
                 CASE f \in {"artifact_id", "file_id", "source", "name", "filename"} ->
                        report.record[f] = report.of.artifact
                   [] f = "created_at" /\ ~Dated(report.of) -> TRUE
                   [] OTHER -> report.record[f] \in {report.of.artifact, None}
        /\ Dated(report.of) =>
              /\ report.judged = report.of.artifact
              /\ report.of.artifact \in Stale => report.status # "healthy"
        /\ report.status = "not found"
             \/ (report.record # None /\ report.record["file_id"] = LegacyRecord) =>
              /\ report.of = None
              /\ present \cap Manifests # {} => "manifest" \in report.failed
        /\ report.status = "not found" /\ LegacyRecord \in present => "stored" \in report.failed

===============================================================================
