--------------------------- MODULE HistoricalServing ---------------------------
(***************************************************************************)
(* DatasetService serving the historical category (managers/                *)
(* dataset_service.py): loose artifacts, newest first, over the warm cache  *)
(* of each worker and the shared disk cache (module DiskCache).  An         *)
(* artifact is streamed into the disk cache when it can be, and decoded in  *)
(* memory when it cannot or when anything goes wrong on the way.            *)
(*                                                                          *)
(* As for forecasts, a worker runs one request at a time, and workers       *)
(* interleave at every call to the store and every step on the disk.        *)
(***************************************************************************)
EXTENDS DiskCache

CONSTANTS
    MaxArtifact,   \* bound: artifacts the producer uploads
    Unstreamable,  \* artifacts that are not parquet, not dense or not sorted
    Implausible,   \* artifacts whose geography is refused
    Unparsable,    \* artifacts no reader of the cascade can read
    KeyTtl,        \* life of a TTLCache entry from its insertion (api.py)
    MaxMishaps,    \* bound: failed lookups, downloads and stagings
    MaxQuarantined \* bound: artifacts an operator quarantines

Artifacts == 1..MaxArtifact
Sound == Artifacts \ (Implausible \cup Unparsable)

ASSUME HistoricalAssumption ==
    /\ {MaxArtifact, KeyTtl, MaxMishaps, MaxQuarantined} \subseteq Nat
    /\ Files = Artifacts /\ Legacy = Files
    /\ Unstreamable \cup Implausible \cup Unparsable \subseteq Artifacts

VARIABLES
    uploaded,    \* artifacts 1..uploaded are in the bucket, newest last
    quarantined, \* those an operator has taken out of the selection
    entry,       \* entry[w]: w's in-memory entry, or Absent
    ask,         \* ask[w]: w's request
    outcome,     \* outcome[w]: the answer to w's last request
    mishaps

bucketVars == <<uploaded, quarantined>>
serviceVars == <<entry, ask, outcome>>
historicalVars == <<diskVars, bucketVars, serviceVars, mishaps>>

\* `raced` serves the properties: another worker stored while the entry was obtained.
Entry == [since : Nat, data : Files \cup {Absent}, fileId : Files \cup {Absent},
          timestamp : Nat, raced : BOOLEAN]
Empty(since) == [since |-> since, data |-> Absent, fileId |-> Absent, timestamp |-> 0,
                 raced |-> FALSE]

\* latest is what the lookup for the caches named and file what the lookup for the
\* ingest did; for the properties, overtaken: another worker has stored since, and
\* excused: a remote call failed.
Ask == [at : {"idle", "check", "disk", "lineage", "ingest", "adopt", "readback", "write"},
        latest : Files \cup {Absent}, file : Files \cup {Absent}, began : Nat,
        overtaken : BOOLEAN, excused : BOOLEAN]
Unasked == [at |-> "idle", latest |-> Absent, file |-> Absent, began |-> 0,
            overtaken |-> FALSE, excused |-> FALSE]
Outcome == [status : {0, 200, 404, 500}, data : Files \cup {Absent}]
Unanswered == [status |-> 0, data |-> Absent]

ASSUME AbsentIsNoEntry == Absent \notin Entry

HistoricalInit ==
    /\ DiskInit
    /\ uploaded \in Artifacts \cup {0}
    /\ \A f \in {value} \cap Files : f <= uploaded
    /\ quarantined = {}
    /\ entry = [w \in Workers |-> Absent]
    /\ ask = [w \in Workers |-> Unasked]
    /\ outcome = [w \in Workers |-> Unanswered]
    /\ mishaps = 0

-------------------------------------------------------------------------------
(* Helpers *)

Selectable == (1..uploaded) \ quarantined
Latest == IF Selectable = {} THEN Absent
          ELSE CHOOSE f \in Selectable : \A g \in Selectable : g <= f

\* Of both lookups a failure is taken for an empty selection.
LooksUp(f) == \/ f = Latest /\ UNCHANGED mishaps
              \/ f = Absent /\ mishaps < MaxMishaps /\ mishaps' = mishaps + 1

Move(w, place) == ask' = [ask EXCEPT ![w].at = place]
Reply(w, status, data) ==
    /\ outcome' = [outcome EXCEPT ![w] = [status |-> status, data |-> data]]
    /\ Move(w, "idle")
Rest == <<bucketVars, entry, outcome, mishaps>>

\* The entry becomes e, and get_latest_dataset looks it up again: an entry that expired
\* meanwhile raises KeyError.
Commit(w, e) ==
    /\ entry' = [entry EXCEPT ![w] = e]
    /\ IF now - e.since >= KeyTtl THEN Reply(w, 500, Absent) ELSE Reply(w, 200, e.data)

-------------------------------------------------------------------------------
(* The caches *)

PresentEntry(w) ==
    IF entry[w] = Absent \/ now - entry[w].since >= KeyTtl THEN Empty(now) ELSE entry[w]

\* Mutant: an entry is kept for its time to live, whatever was uploaded since (C-172).
StillLatestUntilTtl(fileId, latest) == TRUE

StillLatest(fileId, latest) == latest = Absent \/ fileId = latest

AskFor(w, force, latest) ==
    LET e == PresentEntry(w)
        hit == /\ ~force /\ e.data # Absent /\ now - e.timestamp <= Ttl
               /\ StillLatest(e.fileId, latest)
        next == IF force THEN "lineage" ELSE IF latest = Absent THEN "disk" ELSE "check"
        asked == [Unasked EXCEPT !.latest = latest, !.began = now]
    IN  /\ ask[w].at = "idle"
        /\ LooksUp(latest)
        /\ entry' = [entry EXCEPT ![w] = e]
        /\ IF hit
           THEN /\ outcome' = [outcome EXCEPT ![w] = [status |-> 200, data |-> e.data]]
                /\ ask' = [ask EXCEPT ![w] = asked]
                /\ UNCHANGED diskVars
           ELSE /\ outcome' = [outcome EXCEPT ![w] = Unanswered]
                /\ ask' = [ask EXCEPT ![w] = [asked EXCEPT !.at = next]]
                /\ IF next = "disk" THEN Read(w) ELSE UNCHANGED diskVars
        /\ UNCHANGED bucketVars

\* The probe of the sidecar, before the value directory is loaded.
ProbeDisk(w) ==
    /\ ask[w].at = "check"
    /\ IF CheckFileId(ask[w].latest)
       THEN Read(w) /\ Move(w, "disk")
       ELSE Move(w, "lineage") /\ UNCHANGED diskVars
    /\ UNCHANGED Rest

\* What was read is served as it is labelled.
FromDisk(w) ==
    /\ ask[w].at = "disk" /\ phase[w] = "ready"
    /\ IF ret[w].hit
       THEN Commit(w, [entry[w] EXCEPT !.data = ret[w].data, !.fileId = ret[w].label.fileId,
                         !.timestamp = ret[w].label.timestamp, !.raced = ask[w].overtaken])
       ELSE Move(w, "lineage") /\ UNCHANGED <<entry, outcome>>
    /\ Forget(w)
    /\ UNCHANGED <<bucketVars, mishaps>>

-------------------------------------------------------------------------------
(* The ingest *)

\* get_latest_provenance: the selection is looked up again.
Lineage(w) ==
    /\ ask[w].at = "lineage"
    /\ \E f \in Files \cup {Absent} :
        /\ LooksUp(f)
        /\ IF f = Absent
           THEN Reply(w, 404, Absent)
           ELSE /\ ask' = [ask EXCEPT ![w].at = "ingest", ![w].file = f]
                /\ UNCHANGED outcome
    /\ UNCHANGED <<diskVars, bucketVars, entry>>

\* _download_file_bytes: the download fails or is empty.
DownloadFails(w) ==
    /\ ask[w].at = "ingest" /\ mishaps < MaxMishaps /\ mishaps' = mishaps + 1
    /\ outcome' = [outcome EXCEPT ![w] = [status |-> 500, data |-> Absent]]
    /\ ask' = [ask EXCEPT ![w].at = "idle", ![w].excused = TRUE]
    /\ UNCHANGED <<diskVars, bucketVars, entry>>

\* Implausible, by the streamer or by the in-memory path; or unreadable in every format.
Reject(w) ==
    /\ ask[w].at = "ingest" /\ ask[w].file \notin Sound
    /\ Reply(w, 500, Absent)
    /\ UNCHANGED <<diskVars, bucketVars, entry, mishaps>>

\* Mutant: plausibility is checked on what was read back, after the adoption.
StreamUnchecked(w) ==
    /\ ask[w].at = "ingest" /\ ask[w].file \notin Unstreamable \cup Unparsable
    /\ WriteValueDir(w, ask[w].file) /\ Move(w, "adopt")
    /\ UNCHANGED Rest

\* _try_stream_historical: streamed into staging whole and plausible, and adopted.
Stream(w) ==
    /\ ask[w].at = "ingest" /\ ask[w].file \in Sound \ Unstreamable
    /\ WriteValueDir(w, ask[w].file) /\ Move(w, "adopt")
    /\ UNCHANGED Rest

\* The in-memory path decodes what the streamer cannot, or could not stage, and writes it
\* to the disk cache.
Decode(w) ==
    /\ ask[w].at = "ingest" /\ ask[w].file \in Sound
    /\ \/ ask[w].file \in Unstreamable /\ UNCHANGED mishaps
       \/ mishaps < MaxMishaps /\ mishaps' = mishaps + 1
    /\ Write(w, ask[w].file) /\ Move(w, "write")
    /\ UNCHANGED <<bucketVars, entry, outcome>>

\* Mutant: an adoption that fails ends the request.
StreamedOrFailed(w) ==
    /\ ask[w].at = "adopt" /\ phase[w] = "ready"
    /\ IF ret[w].hit
       THEN Read(w) /\ Move(w, "readback") /\ UNCHANGED outcome
       ELSE Reply(w, 500, Absent) /\ UNCHANGED diskVars
    /\ UNCHANGED <<bucketVars, entry, mishaps>>

\* Not adopted: in memory, then.
Streamed(w) ==
    /\ ask[w].at = "adopt" /\ phase[w] = "ready"
    /\ IF ret[w].hit
       THEN Read(w) /\ Move(w, "readback")
       ELSE Write(w, ask[w].file) /\ Move(w, "write")
    /\ UNCHANGED Rest

\* What was read back is committed under the id of the artifact that was streamed; what
\* cannot be read back is decoded in memory.
StreamReadBack(w) ==
    /\ ask[w].at = "readback" /\ phase[w] = "ready"
    /\ IF ret[w].hit
       THEN /\ Commit(w, [entry[w] EXCEPT !.data = ret[w].data, !.fileId = ask[w].file,
                            !.timestamp = ret[w].label.timestamp, !.raced = ask[w].overtaken])
            /\ Forget(w)
       ELSE Write(w, ask[w].file) /\ Move(w, "write") /\ UNCHANGED <<entry, outcome>>
    /\ UNCHANGED <<bucketVars, mishaps>>

\* The dataset in memory is served, whether or not it could be written.
Decoded(w) ==
    /\ ask[w].at = "write" /\ phase[w] = "ready"
    /\ Commit(w, [entry[w] EXCEPT !.data = ask[w].file, !.fileId = ask[w].file,
                    !.timestamp = ask[w].began, !.raced = FALSE])
    /\ Forget(w)
    /\ UNCHANGED <<bucketVars, mishaps>>

-------------------------------------------------------------------------------
(* Steps of the disk cache, the producer, the operator and the clock *)

\* Whoever stores overtakes the requests of the others.
Overtake(w) ==
    ask' = [u \in Workers |-> IF u # w /\ ask[u].at # "idle"
                              THEN [ask[u] EXCEPT !.overtaken = TRUE] ELSE ask[u]]
HistoricalDiskStep(w) ==
    /\ CallStep(w) \/ Fail(w)
    /\ IF UNCHANGED <<value, meta>> THEN UNCHANGED ask ELSE Overtake(w)
    /\ UNCHANGED Rest

\* systemd restarts a dead worker: its memory is gone.
HistoricalRestart(w) ==
    /\ Die(w)
    /\ entry' = [entry EXCEPT ![w] = Absent]
    /\ ask' = [ask EXCEPT ![w] = Unasked]
    /\ outcome' = [outcome EXCEPT ![w] = Unanswered]
    /\ UNCHANGED <<bucketVars, mishaps>>

Supply ==
    /\ uploaded < MaxArtifact /\ uploaded' = uploaded + 1
    /\ UNCHANGED <<diskVars, quarantined, serviceVars, mishaps>>

Quarantine(f) ==
    /\ f \in Selectable /\ Cardinality(quarantined) < MaxQuarantined
    /\ quarantined' = quarantined \cup {f}
    /\ UNCHANGED <<diskVars, uploaded, serviceVars, mishaps>>

HistoricalTick == DiskTick /\ UNCHANGED <<bucketVars, serviceVars, mishaps>>

HistoricalStep(w) ==
    \/ ProbeDisk(w) \/ FromDisk(w) \/ Lineage(w) \/ DownloadFails(w) \/ Reject(w)
    \/ Stream(w) \/ Decode(w) \/ Streamed(w) \/ StreamReadBack(w) \/ Decoded(w)

HistoricalNext ==
    \/ \E w \in Workers :
        \/ \E force \in BOOLEAN, latest \in Files \cup {Absent} : AskFor(w, force, latest)
        \/ HistoricalStep(w) \/ HistoricalDiskStep(w) \/ HistoricalRestart(w)
    \/ Supply \/ \E f \in Files : Quarantine(f)
    \/ HistoricalTick

HistoricalSpec == HistoricalInit /\ [][HistoricalNext]_historicalVars

-------------------------------------------------------------------------------
(* Properties *)

\* The variables of the service and of the bucket keep their types.
HistoricalTypeOK ==
    /\ uploaded \in 0..MaxArtifact /\ quarantined \subseteq Files
    /\ entry \in [Workers -> Entry \cup {Absent}]
    /\ ask \in [Workers -> Ask] /\ outcome \in [Workers -> Outcome]
    /\ mishaps \in Nat

\* Data that is served has passed the plausibility checks, on whichever tier it was
\* found and whatever failed before: a refused artifact is never committed to the slot
\* for the next request to find unvalidated (historical_stream.py:80-83).
OnlySoundServed == \A w \in Workers : outcome[w].status = 200 => outcome[w].data \in Sound

\* "it is never allowed to be the reason a request fails" (dataset_service.py:574): no
\* failure of the streamer, of the disk cache or of another worker ends a request in a
\* 500; only a download, an artifact that is refused, or an expired entry does.
DiskNeverFailsRequest ==
    \A w \in Workers : outcome[w].status = 500 =>
        \/ ask[w].excused \/ ask[w].file \in Files \ Sound
        \/ entry[w] # Absent /\ now - entry[w].since >= KeyTtl

\* What is served is what one of the request's two lookups named, unless both failed or
\* named nothing, or another worker stored while the entry in use was read back.
AnswersALookup ==
    \A w \in Workers : outcome[w].status = 200 /\ ask[w].latest # Absent =>
        outcome[w].data \in {ask[w].latest, ask[w].file} \/ entry[w].raced

===============================================================================
