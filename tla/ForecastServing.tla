--------------------------- MODULE ForecastServing ---------------------------
(***************************************************************************)
(* DatasetService serving the forecast category (managers/                  *)
(* dataset_service.py): get_latest_dataset over the warm per-worker cache,  *)
(* the shared disk cache (module DiskCache) and the prediction store, with  *)
(* the ingest of a manifested run, the refusals of ADR-033 and the bounded  *)
(* last-good fallback.                                                      *)
(*                                                                          *)
(* A worker process runs one request at a time: the routes are coroutines   *)
(* that never await inside the service.  Workers interleave at every call   *)
(* to the store and every step on the disk.                                 *)
(***************************************************************************)
EXTENDS DiskCache

CONSTANTS
    MaxRun,          \* bound: runs the producer publishes
    Malformed,       \* manifests without a string fileId
    Unrenderable,    \* runs of a contract version this build cannot render
    Defective,       \* runs that fail parsing, hashes, density or capacity
    Unidentifiable,  \* runs whose source is absent or "unknown"
    Undated,         \* runs without a usable created_at
    Sla,             \* freshness_sla_days
    MemTtl,          \* life of a TTLCache entry from its insertion (api.py)
    MaxBlips,        \* bound: remote calls that fail
    MaxRulings,      \* bound: withdrawals and reinstatements
    Unfetched        \* _MANIFEST_UNFETCHED: the lookup raised

Runs == 1..MaxRun
Unservable == Malformed \cup Unrenderable \cup Defective \cup Unidentifiable
Servable == Runs \ Unservable

\* A worker's in-memory cache entry, see WarmEntry.
Warm == [since : Nat, data : Files \cup {Absent}, fileId : Files \cup {Absent},
         timestamp : Nat]

ASSUME ServingAssumption ==
    /\ {MaxRun, Sla, MemTtl, MaxBlips, MaxRulings} \subseteq Nat
    /\ Files = Runs \cup Legacy /\ Runs \cap Legacy = {}
    /\ Unservable \subseteq Runs /\ Undated \subseteq Runs
    /\ Unfetched \notin Files \cup {Absent} /\ Absent \notin Warm

VARIABLES
    published,   \* runs 1..published have a manifest in the store, newest last
    withdrawn,   \* those deleted or quarantined by an operator
    born,        \* born[r]: the created_at of run r
    rulings,     \* withdrawals and reinstatements so far
    warm,        \* warm[w]: w's in-memory entry, or Absent
    req,         \* req[w]: w's request
    reply,       \* reply[w]: the answer to w's last request
    serving,     \* serving[w]: _forecast_serving_state
    prov,        \* prov[w]: the run _last_forecast_provenance names
    blips

storeVars == <<published, withdrawn, born, rulings>>
workerVars == <<warm, req, reply, serving, prov>>
vars == <<diskVars, storeVars, workerVars, blips>>

\* since is the insertion time in the TTLCache; the fields of a fresh entry
\* are None until a serve fills them.
WarmEntry(since, data, fileId, timestamp) ==
    [since |-> since, data |-> data, fileId |-> fileId, timestamp |-> timestamp]
Fresh(since) == WarmEntry(since, Absent, Absent, 0)

\* pc is where the request is, doc the manifest its lookup returned, force its
\* force_refresh; doc and force stay after the answer, for the properties.
Places == {"idle", "check", "disk", "ingest", "adopt", "readback", "grace"}
Request == [pc : Places, doc : Runs \cup {Absent, Unfetched}, force : BOOLEAN]
Idle == [pc |-> "idle", doc |-> Absent, force |-> FALSE]
Modes == {"none", "warm", "disk", "ingest", "grace"}
Answer == [status : {0, 200, 500, 503}, mode : Modes, data : Files \cup {Absent}]
NoAnswer == [status |-> 0, mode |-> "none", data |-> Absent]
ServingStates == {"none", "normal", "fallback", "dark"}

-------------------------------------------------------------------------------
Init ==
    /\ DiskInit
    /\ published \in 0..MaxRun
    /\ \A f \in {value} \cap Runs : f <= published
    /\ withdrawn = {} /\ rulings = 0
    /\ born = [r \in Runs |-> 0]
    /\ warm = [w \in Workers |-> Absent]
    /\ req = [w \in Workers |-> Idle]
    /\ reply = [w \in Workers |-> NoAnswer]
    /\ serving = [w \in Workers |-> "none"]
    /\ prov = [w \in Workers |-> Absent]
    /\ blips = 0

(* The store, as PredictionStoreManager.get_latest_manifest shows it. *)

Listed == (1..published) \ withdrawn
Newest ==
    IF Listed = {} THEN Absent ELSE CHOOSE r \in Listed : \A s \in Listed : s <= r

\* The lookup sees the newest listed manifest.  When it fails it either raises,
\* or get_predictions_by_metadata swallows the failed search into an empty list.
Lookup(doc) ==
    \/ doc = Newest /\ UNCHANGED blips
    \/ blips < MaxBlips /\ doc \in {Absent, Unfetched} /\ blips' = blips + 1

-------------------------------------------------------------------------------
(* Helpers of DatasetService *)

ForecastEntryServable(fileId) == SourceKind(fileId) = "wire"

\* wire_identity: the manifest's fileId when it has one.
WireIdentity(doc) == IF doc \in Runs \ Malformed THEN doc ELSE Absent

\* Mutant: any manifest will do (no S5 re-key).
IdentityUnkeyed(fileId, doc) ==
    \/ doc = Unfetched
    \/ WireIdentity(doc) # Absent
    \/ SourceKind(fileId) # "wire"

IdentityOk(fileId, doc) ==
    \/ doc = Unfetched
    \/ WireIdentity(doc) # Absent /\ fileId = WireIdentity(doc)
    \/ WireIdentity(doc) = Absent /\ doc # Unfetched /\ SourceKind(fileId) # "wire"

WithinSla(fileId) == fileId \notin Undated /\ now - born[fileId] <= Sla

Goto(w, place) == req' = [req EXCEPT ![w].pc = place]

\* get_latest_dataset takes the dataset of the warm entry e, whatever
\* get_latest_dataframe returned: an expired entry raises KeyError and an empty
\* one AttributeError, which the route turns into a 500.
Serve(w, mode, e) ==
    /\ reply' = [reply EXCEPT ![w] =
         IF e.data = Absent \/ now - e.since >= MemTtl
         THEN [status |-> 500, mode |-> mode, data |-> Absent]
         ELSE [status |-> 200, mode |-> mode, data |-> e.data]]
    /\ Goto(w, "idle")

\* A serve of the current run: the warm entry becomes e.
ServeNormally(w, mode, e) ==
    /\ warm' = [warm EXCEPT ![w] = e]
    /\ serving' = [serving EXCEPT ![w] = "normal"]
    /\ prov' = [prov EXCEPT ![w] = e.fileId]
    /\ Serve(w, mode, e)

\* The HTTPException(503): no last-good run within the SLA.
FailVisible(w) ==
    /\ serving' = [serving EXCEPT ![w] = "dark"]
    /\ reply' = [reply EXCEPT ![w] = [status |-> 503, mode |-> "grace", data |-> Absent]]
    /\ Goto(w, "idle")
    /\ UNCHANGED <<warm, prov>>

-------------------------------------------------------------------------------
(* The request *)

CurrentEntry(w) ==
    IF warm[w] = Absent \/ now - warm[w].since >= MemTtl THEN Fresh(now) ELSE warm[w]

\* Mutant: a warm entry is served on its age alone.
WarmHitByAge(e, doc) ==
    e.data # Absent /\ now - e.timestamp <= Ttl /\ ForecastEntryServable(e.fileId)

WarmHit(e, doc) ==
    /\ e.data # Absent /\ now - e.timestamp <= Ttl
    /\ ForecastEntryServable(e.fileId)
    /\ IdentityOk(e.fileId, doc)

\* A request arrives: the entry is created if it is missing, the manifest is
\* looked up, and a warm hit is answered on the spot.
Arrive(w, force, doc) ==
    LET e == CurrentEntry(w)
        hit == ~force /\ WarmHit(e, doc)
        next == IF force THEN "ingest"
                ELSE IF WireIdentity(doc) = Absent THEN "disk" ELSE "check"
    IN  /\ req[w].pc = "idle"
        /\ Lookup(doc)
        /\ \/ /\ hit
              /\ warm' = [warm EXCEPT ![w] = e]
              /\ serving' = [serving EXCEPT ![w] = "normal"]
              /\ prov' = [prov EXCEPT ![w] = e.fileId]
              /\ reply' = [reply EXCEPT ![w] =
                             [status |-> 200, mode |-> "warm", data |-> e.data]]
              /\ req' = [req EXCEPT ![w] = [pc |-> "idle", doc |-> doc, force |-> force]]
              /\ UNCHANGED diskVars
           \/ /\ ~hit
              /\ warm' = [warm EXCEPT ![w] = e]
              /\ req' = [req EXCEPT ![w] = [pc |-> next, doc |-> doc, force |-> force]]
              /\ reply' = [reply EXCEPT ![w] = NoAnswer]
              /\ UNCHANGED <<serving, prov>>
              /\ IF next = "disk" THEN Read(w) ELSE UNCHANGED diskVars
        /\ UNCHANGED storeVars

\* The cheap probe of the sidecar that decides whether the disk is read.
CheckDisk(w) ==
    /\ req[w].pc = "check"
    /\ \/ CheckFileId(WireIdentity(req[w].doc)) /\ Read(w) /\ Goto(w, "disk")
       \/ /\ ~CheckFileId(WireIdentity(req[w].doc))
          /\ Goto(w, "ingest") /\ UNCHANGED diskVars
    /\ UNCHANGED <<storeVars, warm, reply, serving, prov, blips>>

\* Mutant: the probe of CheckDisk is trusted, the label that was read is not.
DiskHitProbed(w) == ret[w].hit /\ ForecastEntryServable(ret[w].label.fileId)

\* The disk entry as read; its own label decides again whether it is servable.
DiskHit(w) ==
    /\ ret[w].hit
    /\ ForecastEntryServable(ret[w].label.fileId)
    /\ IdentityOk(ret[w].label.fileId, req[w].doc)

DiskGate(w) ==
    /\ req[w].pc = "disk" /\ phase[w] = "ready"
    /\ \/ /\ DiskHit(w)
          /\ ServeNormally(w, "disk", WarmEntry(warm[w].since, ret[w].data,
                                ret[w].label.fileId, ret[w].label.timestamp))
       \/ ~DiskHit(w) /\ Goto(w, "ingest") /\ UNCHANGED <<warm, reply, serving, prov>>
    /\ Forget(w)
    /\ UNCHANGED <<storeVars, blips>>

-------------------------------------------------------------------------------
(* _load_wire_run *)

\* Only a lookup that raised is retried; one that raises again is a refusal.
Refetch(w) ==
    /\ req[w].pc = "ingest" /\ req[w].doc = Unfetched
    /\ \E doc \in Runs \cup {Absent, Unfetched} :
        /\ Lookup(doc)
        /\ \/ /\ doc = Unfetched /\ Goto(w, "grace") /\ Read(w)
           \/ /\ doc # Unfetched
              /\ req' = [req EXCEPT ![w].doc = doc]
              /\ UNCHANGED diskVars
    /\ UNCHANGED <<storeVars, warm, reply, serving, prov>>

\* NoRun, or a run one of the gates or integrity checks refuses before anything
\* is committed; the staging directory is discarded.
Refuse(w) ==
    /\ req[w].pc = "ingest" /\ req[w].doc \in {Absent} \cup Unservable
    /\ Goto(w, "grace") /\ Read(w)
    /\ UNCHANGED <<storeVars, warm, reply, serving, prov, blips>>

\* A download fails, or an artifact is not in the bucket (yet).
IngestFails(w) ==
    /\ req[w].pc = "ingest" /\ req[w].doc \in Runs \ Malformed
    /\ blips < MaxBlips /\ blips' = blips + 1
    /\ Goto(w, "grace") /\ Read(w)
    /\ UNCHANGED <<storeVars, warm, reply, serving, prov>>

\* Mutant (#70): the identifiability gate runs on the way out, after the commit.
AdoptUnidentified(w) ==
    /\ req[w].pc = "ingest"
    /\ req[w].doc \in Runs \ (Malformed \cup Unrenderable \cup Defective)
    /\ WriteValueDir(w, req[w].doc) /\ Goto(w, "adopt")
    /\ UNCHANGED <<storeVars, warm, reply, serving, prov, blips>>

\* The run passed every gate and is assembled in staging: adopt it.
Adopt(w) ==
    /\ req[w].pc = "ingest" /\ req[w].doc \in Servable
    /\ WriteValueDir(w, req[w].doc) /\ Goto(w, "adopt")
    /\ UNCHANGED <<storeVars, warm, reply, serving, prov, blips>>

\* Mutants: the result of write_value_dir is ignored; a failed one is never handled.
AdoptedUnchecked(w) ==
    /\ req[w].pc = "adopt" /\ phase[w] = "ready"
    /\ Read(w) /\ Goto(w, "readback")
    /\ UNCHANGED <<storeVars, warm, reply, serving, prov, blips>>
AdoptedOnly(w) ==
    /\ req[w].pc = "adopt" /\ phase[w] = "ready" /\ ret[w].hit
    /\ Read(w) /\ Goto(w, "readback")
    /\ UNCHANGED <<storeVars, warm, reply, serving, prov, blips>>

\* Adopted: read it back.  Not adopted: refused.
Adopted(w) ==
    /\ req[w].pc = "adopt" /\ phase[w] = "ready"
    /\ Read(w) /\ Goto(w, IF ret[w].hit THEN "readback" ELSE "grace")
    /\ UNCHANGED <<storeVars, warm, reply, serving, prov, blips>>

\* What was read back is committed to the warm cache under the manifest's id.
ReadBack(w) ==
    /\ req[w].pc = "readback" /\ phase[w] = "ready"
    /\ \/ /\ ret[w].hit
          /\ ServeNormally(w, "ingest", WarmEntry(warm[w].since, ret[w].data,
                                req[w].doc, ret[w].label.timestamp))
          /\ Forget(w)
       \/ /\ ~ret[w].hit /\ Goto(w, "grace") /\ Read(w)
          /\ UNCHANGED <<warm, reply, serving, prov>>
    /\ UNCHANGED <<storeVars, blips>>

\* _serve_last_good_within_sla: the warm entry is not repopulated.
LastGood(w) == ret[w].hit /\ SourceKind(ret[w].label.fileId) = "wire"
                          /\ WithinSla(ret[w].label.fileId)

\* Mutant: the fallback fills the warm cache under the identity looked up.
GraceSticky(w) ==
    /\ req[w].pc = "grace" /\ phase[w] = "ready"
    /\ \/ /\ LastGood(w) /\ req[w].doc \in Runs
          /\ ServeNormally(w, "grace", WarmEntry(warm[w].since, ret[w].data,
                                req[w].doc, ret[w].label.timestamp))
       \/ ~(LastGood(w) /\ req[w].doc \in Runs) /\ FailVisible(w)
    /\ Forget(w)
    /\ UNCHANGED <<storeVars, blips>>

Grace(w) ==
    /\ req[w].pc = "grace" /\ phase[w] = "ready"
    /\ \/ /\ LastGood(w)
          /\ serving' = [serving EXCEPT ![w] = "fallback"]
          /\ prov' = [prov EXCEPT ![w] = ret[w].label.fileId]
          /\ Serve(w, "grace", warm[w])
          /\ UNCHANGED warm
       \/ ~LastGood(w) /\ FailVisible(w)
    /\ Forget(w)
    /\ UNCHANGED <<storeVars, blips>>

-------------------------------------------------------------------------------
(* Steps of the disk cache, the producer, the operator and the clock *)

DiskStep(w) == (CallStep(w) \/ Fail(w)) /\ UNCHANGED <<storeVars, workerVars, blips>>

\* systemd restarts a dead worker: its memory is gone.
Restart(w) ==
    /\ Die(w)
    /\ warm' = [warm EXCEPT ![w] = Absent]
    /\ req' = [req EXCEPT ![w] = Idle]
    /\ reply' = [reply EXCEPT ![w] = NoAnswer]
    /\ serving' = [serving EXCEPT ![w] = "none"]
    /\ prov' = [prov EXCEPT ![w] = Absent]
    /\ UNCHANGED <<storeVars, blips>>

Publish ==
    /\ published < MaxRun
    /\ published' = published + 1
    /\ born' = [born EXCEPT ![published + 1] = now]
    /\ UNCHANGED <<diskVars, withdrawn, rulings, workerVars, blips>>

Withdraw(r) ==
    /\ r \in Listed
    /\ rulings < MaxRulings /\ rulings' = rulings + 1
    /\ withdrawn' = withdrawn \cup {r}
    /\ UNCHANGED <<diskVars, published, born, workerVars, blips>>

Reinstate(r) ==
    /\ r \in withdrawn
    /\ rulings < MaxRulings /\ rulings' = rulings + 1
    /\ withdrawn' = withdrawn \ {r}
    /\ UNCHANGED <<diskVars, published, born, workerVars, blips>>

Tick == DiskTick /\ UNCHANGED <<storeVars, workerVars, blips>>

RequestStep(w) ==
    \/ CheckDisk(w) \/ DiskGate(w) \/ Refetch(w) \/ Refuse(w) \/ IngestFails(w)
    \/ Adopt(w) \/ Adopted(w) \/ ReadBack(w) \/ Grace(w)

Next ==
    \/ \E w \in Workers :
        \/ \E force \in BOOLEAN, doc \in Runs \cup {Absent, Unfetched} : Arrive(w, force, doc)
        \/ RequestStep(w) \/ DiskStep(w) \/ Restart(w)
    \/ Publish \/ \E r \in Runs : Withdraw(r) \/ Reinstate(r)
    \/ Tick

Spec == Init /\ [][Next]_vars

\* The event loop runs a request it has accepted to its end; nobody has to ask.
FairSpec ==
    Spec /\ \A w \in Workers : WF_vars(RequestStep(w) \/ DiskStep(w))
\* The clients of a live service keep asking, not always for a forced refresh.
LiveSpec ==
    FairSpec /\ \A w \in Workers :
        WF_vars(\E doc \in Runs \cup {Absent, Unfetched} : Arrive(w, FALSE, doc))

-------------------------------------------------------------------------------
(* Properties *)

\* The variables hold values of their types.
TypeOK ==
    /\ DiskTypeOK
    /\ published \in 0..MaxRun /\ withdrawn \subseteq Runs /\ born \in [Runs -> Nat]
    /\ warm \in [Workers -> Warm \cup {Absent}]
    /\ req \in [Workers -> Request]
    /\ reply \in [Workers -> Answer]
    /\ serving \in [Workers -> ServingStates]
    /\ prov \in [Workers -> Files \cup {Absent}]
    /\ {blips, rulings} \subseteq Nat

\* A forecast that is served is a manifested run that passed every gate of
\* ADR-033: never a legacy artifact (S1/#264), an unidentifiable source (S2/#70),
\* an unrenderable contract (S5) or a run that failed an integrity check, on
\* whichever tier it was found and whatever failed, died or raced before.
OnlyGatedRunsServed ==
    \A w \in Workers : reply[w].status = 200 => reply[w].data \in Servable

\* A worker that calls its state normal has served under the identity its
\* lookup returned (the S5 re-key, dataset_service.py:191-200).
LabelledAsLookedUp ==
    \A w \in Workers :
        reply[w].status = 200 /\ serving[w] = "normal" /\ req[w].doc \in Runs =>
            prov[w] = req[w].doc

\* ... and the numbers in that answer are those of that run: what /provenance
\* names is what the client got, and no run the operator has withdrawn.
AnswersTheManifest ==
    \A w \in Workers :
        reply[w].status = 200 /\ serving[w] = "normal" /\ req[w].doc \in Runs =>
            /\ reply[w].data = req[w].doc
            /\ prov[w] = req[w].doc

\* With several workers that much holds of an answer read from the shared disk:
\* whoever stores meanwhile, bytes and label are of one run, the manifest's.
DiskAnswersTheManifest ==
    \A w \in Workers :
        reply[w].status = 200 /\ reply[w].mode = "disk" /\ req[w].doc \in Runs =>
            reply[w].data = req[w].doc /\ prov[w] = req[w].doc

\* The last-good entry leaves the slot in two ways only: a read found it outdated, or
\* the adoption of a run that passed every gate has begun.  So nothing that is refused
\* before it is adopted costs it: no run, a gate, an integrity check, a download (#70,
\* S6b-2).  An adoption that fails once it has removed the entry does, and ends in a
\* refusal all the same: FailedIngestKeepsLastGood, below.
LastGoodGivenUpInAdoption ==
    [][value' # value /\ value \in Files =>
        \/ Outdated /\ \E w \in Workers : phase[w] = "load"
        \/ \E w \in Workers :
            req[w].pc = "adopt" /\ arg[w] = req[w].doc /\ req[w].doc \in Servable]_vars

\* A request that is accepted is answered, with data or with an error.
EveryRequestAnswered == \A w \in Workers : req[w].pc # "idle" ~> req[w].pc = "idle"

\* The fallback is never sticky (decision (i), ADR-033 section 2): once a servable
\* run stays the newest, from some request on it is the only one served, and it
\* is served again and again.
ServesRun(w, r) == reply[w].status = 200 /\ reply[w].data = r
Recovers ==
    \A r \in Servable, w \in Workers :
        <>[](Newest = r) =>
            /\ []<>ServesRun(w, r)
            /\ <>[](reply[w].status = 200 => ServesRun(w, r))

-------------------------------------------------------------------------------
(* What the documentation says and the code does not do *)

\* "If a previously-served manifested run is still on disk AND still within the
\* freshness SLA (S3), serve it" (dataset_service.py:665-667): a fallback answer
\* is a 200 with the run it names.
FallbackServesLastGood ==
    \A w \in Workers :
        reply[w].mode = "grace" /\ serving[w] = "fallback" =>
            reply[w].status = 200 /\ reply[w].data = prov[w]

\* "A failed ingest of the newest run discards only its staging dir, leaving the
\* last-good disk entry intact" (dataset_service.py:349-350): when the newest run is
\* refused, another that this worker served, of this very tick, has not left the disk
\* empty.
FailedIngestKeepsLastGood ==
    \A w \in Workers :
        /\ reply[w].status = 503 /\ warm[w] # Absent /\ warm[w].data # Absent
        /\ warm[w].fileId # req[w].doc /\ now = warm[w].timestamp
        => value \in Files

\* "a lookup blip must NOT 500 the warm path - it degrades to serving the existing
\* cache" (dataset_service.py:195): while the warm entry is usable and its run
\* still listed, an ordinary request is never told that there is no run.
WarmUsable(w) ==
    /\ warm[w] # Absent /\ CurrentEntry(w) = warm[w]
    /\ warm[w].data # Absent /\ now - warm[w].timestamp <= Ttl
BlipServesCache ==
    \A w \in Workers :
        reply[w].status = 503 /\ ~req[w].force /\ WarmUsable(w) =>
            warm[w].fileId \notin Listed
===============================================================================
