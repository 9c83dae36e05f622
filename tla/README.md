# A TLA+ verification of views-crafdapi

`views-crafdapi` is a read-only API over conflict forecasts. A producer
(views-postprocessing) uploads *runs* to an Appwrite bucket: shards, a sidecar and,
last, a *run manifest*. Each worker process of the API looks the newest manifest up on
every request, serves the run it names from a warm in-memory entry, from an on-disk cache
that all workers of the box share, or by ingesting it, and when the newest run cannot be
served falls back for a bounded time on the last good one. What makes the code hard to test is
everything in that sentence that happens between two steps of one request.

This project models the serving core (the disk cache as a sequence of file
system steps under a file lock, and the forecast and historical services above it), the ingests
that feed it, the client of the artifact store with its file cache, and what the API makes of a
request: its dependencies, the size and content of its answer and its report on what is live.
TLC checks small instances, including liveness; TLAPS proves the central safety properties for
every number of workers, runs, clients, failures and deaths.

Paths below are relative to `src/views_crafdapi/` of the repository unless they
start with `docs/`, `tests/` or `deployment/`.

## 1. Inventory

| Component | State | Operations | Interacts with | Hard behaviour | What makes it correct |
|---|---|---|---|---|---|
| Disk cache `managers/disk_cache.py` | per partition a value directory, a JSON sidecar, a file lock; a salt | `read`, `write`, `write_value_dir`, `check_file_id`, `staging_dir`, `discard_staging` | other workers through the file system | several steps per call, unlocked probes, lock timeouts, I/O failures, a death between two steps, expiry | a hit is one whole entry; a reported store is whole; reads destroy nothing fresh; calls return |
| Forecast serving `managers/dataset_service.py` (category `forecast`), `managers/selection.py`, `managers/freshness.py` | warm entry per key, serving state, last provenance | `get_latest_dataset`, `get_latest_dataframe`, `_load_wire_run`, `_serve_last_good_within_sla` | disk cache, manifest lookup, downloads, wire assembly | stale warm/disk entries, a run published or withdrawn mid-request, refusals, adoption races, fallback, restart | only gated runs are served; answer, label and manifest agree; a run refused at a gate does not cost the last-good one; recovery |
| Historical serving `managers/dataset_service.py:377-656`, `forecast/ingestion/historical_stream.py` | the same caches, category `historical` | legacy path, streamed ingest with in-memory fallback | disk cache, file cache, handlers | superseded artifacts, two ingest paths in one request, failure after adoption | the newest plausible artifact is served; a refused one is never cached |
| Manifest selection `managers/prediction/manager.py`, `quarantine.py` | none of its own; environment allow- and blocklist | `get_predictions_by_metadata`, `get_latest_manifest`, `resolve_artifact_file_ids`, provenance queries, upload, delete | metadata store | a failed search and an empty one look alike; operator rulings take effect between requests | newest eligible document; a withdrawn run is not selected |
| Artifact store `managers/appwrite/manager.py`, `metadata.py` | remote files and metadata documents | upload with de-duplication and orphan gate, download, delete, paged search | Appwrite | calls that fail halfway, overlapping uploads, paging under change, a process-wide timeout patch | no valid metadata deleted; no document lost by paging |
| Appwrite file cache `managers/appwrite/file_cache.py` | files by name, an index saved as one JSON file | `validate_cache`, `add_to_cache`, `remove_from_cache`, `clear_cache` | downloads | two file ids with one path, lost index updates, naive times | bytes returned for a file id are that file's |
| Wire assembly `forecast/ingestion/wire_reader.py`, `dense_grid.py`, `plausibility.py`, `forecast/contract.py` | the staging directory of one ingest | parse, verify hashes, append months, finalize | downloads, disk cache | months out of order, missing or ragged cells, refusals midway | the assembled arrays equal the whole-run ones |
| API `managers/api.py` | manager LRU cache, TTL dataset cache, file LRU cache | routes, health, maintenance, startup, shutdown | all of the above | dependencies run in a thread pool, TTL expiry mid-request, eviction between check and use | a request gets data or an honest error |
| Live provenance `forecast/provenance.py` | none | `forecast_record`, `freshness_input` | service, store | three sources, overlay order | the record describes the run that is served |
| Dataset handlers `data/handlers/`, summaries `forecast/summarize`, `forecast/aggregate`, serialisation `forecast/serialize`, `managers/serialization.py`, geography `forecast/geography` | arrays and frames of one dataset | construction, subset, HDI/MAP, size estimate, export | service, routes | two implementations of one selection (frames and arrays; the estimate and the frame), filters that name a thing twice or something unknown, cells without a code | the guard and the frame agree; a unit is summed over all of its cells; the estimators are out of scope (floating point) |
| `managers/model.py`, `managers/log.py`, `preflight.py`, `smoke.py`, `client.py`, `plotting.py` | configuration, paths, logs | tools | – | none of the above | not modelled |

`PROJECT.json` lists each component with its status and every hazard at its line.

**Scheduling facts the models rest on.** Routes are `async def` functions that never await inside the
service, so a worker runs one request at a time, to its end. Their synchronous
dependencies are not part of that: FastAPI runs them in a thread pool, where those of several requests interleave. `deployment/views-crafdapi.service` starts one
worker and restarts it (`Restart=always`); `docs/CICs/CrafdApiManager.md:137` documents
`--workers 4`, where "Only the disk cache is shared across workers" (`:202`). Both
shapes are checked.

## 2. Modules

```
CacheSlot            what one partition promises (abstract)
   ^ implemented by (checked by TLC, proved by TLAPS)
DiskCache            the partition: two paths, a lock, the steps of each call
   ^ extended by     DiskCache_proofs
   +- ForecastServing     forecasts: the tiers, the store, the operator
   |     ^ ForecastServing_proofs    MCForecastServing
   +- HistoricalServing   /historical over the same cache
         ^ HistoricalServing_proofs
GridOrder            the order of the rows, used by
   +- HistoricalStream    the streamed ingest against the constructor it stands in for
   +- WireRunAssembly     the month-by-month ingest against the whole-run one
         ^ Ingestion_proofs          MCIngestion: these two and HistoricalServing
ArtifactStore        files and metadata documents, one remote call at a time
   ^ ArtifactStore_proofs
FileCache            downloaded files, one file system call at a time
   ^ FileCache_proofs                MCAppwrite: these two
ApiDependencies      requests in the thread pool, their managers, the timeout patch
   ^ ApiDependencies_proofs
ServedPayload        the size and the content of an answer
Lineage              what is reported of the live forecast
                     MCApi: these three
         ^ Api_proofs (Lineage, ServedPayload and the three together)
```

**CacheSlot.** A slot holds nothing or one whole entry. A read returns a miss or the
entry then held; a store replaces it; it may vanish at any time.

**DiskCache.** `value` and `meta` are what is at the two paths: an artifact, `Absent`, or `Broken` (a
directory some files of which are gone); a label, `Absent`, or `Garbled` (truncated JSON). `lock` is the owner
of the file lock, `phase[w]` the step worker `w` is at in its call, `arg[w]` what it stores, `ret[w]` what its last call
returned. One action per file system step: the unlocked probe and entry into the call (`Read`, `Write`,
`WriteValueDir`), `Acquire` or `LockTimeout`, `Load` (the whole locked part of a read, including
the removal of an outdated entry), `Fill`, `Clear` (`rmtree`), `Swap` (`os.replace`), `Open` (truncates the
sidecar), `Dump` (writes it, returns and releases). `Fail` is an exception at any of them: the except clause
makes it a miss or `False`, and nothing done so far is undone. `Die` is the death of the
process; the kernel drops its lock. A `rmtree` that is interrupted may have removed nothing or part (`Remains`), and the removal of an outdated
entry goes on to the sidecar when that of the directory failed (`RemainsOfMeta`).
`check_file_id` is one unlocked read of the sidecar, a state predicate.

**ForecastServing** extends DiskCache with the store (`published` runs, the `withdrawn` ones, their
creation time `born`) and, for each worker, the warm entry, the request in progress (`req[w].pc`), the last answer, the
serving state and the provenance named. The actions follow a request through
`get_latest_dataframe`: `Arrive` (warm entry, lookup, warm hit), `CheckDisk` and `DiskGate` (disk tier),
`Refetch`, `Refuse`, `IngestFails`, `Adopt`, `Adopted`, `ReadBack` (`_load_wire_run`), `Grace`
(`_serve_last_good_within_sla`). Each disk call of a request begins in the action
that makes it and then proceeds by the DiskCache steps (`DiskStep`), so other workers run in between. `Serve` is
`get_latest_dataset`: it takes the dataset of the warm entry by key, whatever the call before it
returned. `Restart` is a death with the loss of the worker's memory. Outside the service: `Publish`
(the producer), `Withdraw` and `Reinstate` (quarantine, allowlist, deletion), `Tick`.
The verdicts of parsing, hashing, capability, capacity and identification depend on a run's bytes, which never change, so they
are constant sets: `Malformed`, `Unrenderable`, `Defective`, `Unidentifiable`; the rest are `Servable`. Whether an artifact can be
downloaded now depends on the moment: `IngestFails`.

**HistoricalServing** extends DiskCache with the bucket and, for each worker, the in-memory `entry`, the request
`ask[w]` and its `outcome`. A request looks the newest artifact up for its caches (`latest`), and on a miss of both looks it up
again for the ingest (`file`), so the two can differ. The ingest streams into the disk cache and reads the slot back (`adopt`, `readback`), or
decodes in memory and writes (`write`); nothing that goes wrong on the first way may fail the request. Which
artifacts can be streamed, and which are refused, are constant sets, and `HistoricalStream` is what decides them.

**HistoricalStream** is `stream_to_value`, row group by row group (`OpenArtifact`, `ReadGroup`, `Finish`), and, as definitions on whole
artifacts, what `ForecastDataset.__init__` would have made of it: sort, dense grid, backfill, refusals (`InMemory`,
`InMemoryAccepts`). **WireRunAssembly** does the same for forecasts: `ReadShard`, `AppendMonth`, `Finalize` against
`BuildAccepts`/`Built`, which is `build_dataset` on any set of shards; the assembler applies it to one month at a time and the
property compares the result with one call on the whole run. A draw is known by the shard it comes from.
**GridOrder** says what sorting does without saying how: at place *k* of a sorted sequence stands the element that *k* elements,
itself included, do not come after.

**ArtifactStore.** `files` and `docs` are the bucket and its metadata collection, `pc[c]` the remote call client `c` makes next, `job[c]`
its operation. `Upload` from a path goes through `FindByHash`, `Verify` (the orphan gate), `DropOrphan`, `Update`/`Amend`,
`Ensure`, `Put`, `Describe`, `Record`; the upload from bytes through `Dedup` instead of the gate,
which looks for the hash and then, in a listing of the bucket, for a file of the same name (`DedupByName`) whatever that holds. The caller
chooses the name, so it may be any file's; `mistaken` remembers the files so taken for what they do not hold. `DeletePrediction`
removes the file, pages for its documents and purges them; `SearchFiles` is the paged search. `Provision` and
`ProvisionBucket` create what is missing when that is allowed. An answer of `get_file` is one of the ways it can fail,
because the gate tells them apart by type and message (`Answers`, `GenuinelyGone`); with `StrayMessages` one of them says
"could not be found" of something that is neither file nor bucket. An upload whose answer is lost has been acted on.
A duplicate found by hash hands the `$id` of its document on where a file id is expected (`managers/appwrite/manager.py:703`); `AsFile` keeps that id
apart from the ids of files.

**FileCache.** `contents[p]` says whose bytes are at a path, `index` is the index file, `mine[h]` the copy of it manager `h` holds.
`download_file` is `Info`, `Stat`, `Validate`, `Read` or `Get`, `Fill` (truncate, then write: two writers of one
path meet there), `Save`, `Saved`; `Clear`, `Delete` and `SendCached` are the routes.

**ApiDependencies.** `managers` is the LRU cache of one entry per API key, least recently used first; an entry holds an
Appwrite manager and perhaps a prediction manager, each known by the key it was built with. A thread solves a route's dependencies in turn (`Check`, `Insert`,
`Probe`, `Store`, `Fetch`), each step one cache operation, and then hands the request to the event loop (`Route`). Its
SDK calls read the module-level request function (`Save`), replace it (`Wrap`), and put back what they read (`Send`, `Unwrap`).

**ServedPayload.** One request from `Receive` (the parsing of each filter) over `Judge` (`served_payload_shape` and the byte budget) to
`Render` (the frame of the route, or the exception it raises). A frame is its rows, its columns, its array elements
and, when summed, which cells each group was summed from: enough to compare the estimate with the frame, and the two implementations of
an aggregation with each other, without a number in them.

**Lineage.** The served run of this worker, the manifests and the legacy record of the store, and the two reports: `/provenance/forecast` looks
up both sources and overlays the served run (`ForecastRecord`), `/health` stops at the first source it needs. A value of a
record is known by the artifact it describes. The store changes, and lookups fail, between any two steps. A search that fails finds nothing;
a manifest lookup that raises is caught, a legacy lookup that raises is a 500. `present`, which no action reads, keeps what has been in the store
since the request began.

*Abstractions common to all.* One partition (one API key and category). Downloads give DatasetService the file asked for, although the
file cache can violate that for files of one name (`FileCache`). Staging directories have unique names and no other
reader, so they have no state. `_check_staleness` and logging have no effect.

The MC modules compose. **MCIngestion**, **MCAppwrite** and **MCApi** hold several models in one run, one `part` per behaviour, with the variables of the
others at rest: the parts share no state in the code either (the streamer runs inside one request on one artifact; a payload is
computed from a private copy of the dataset; the file cache knows the bucket only by what a download answers), and one run of three small models is one instance to keep.

## 3. Properties

| Property | Kind | What it says |
|---|---|---|
| `DiskTypeOK`, `TypeOK`, `HistoricalTypeOK`, `AppwriteTypeOK`, `ApiTypeOK` | invariant | types, one per run |
| `LockOwnership` | invariant | inside a locked section exactly while owning the lock, whatever times out, fails or dies |
| `HitsAreWhole` | invariant | bytes returned by a read are those its label names |
| `StoreIsWhole` | action | a store that reports success has its artifact under its own label |
| `ReadsKeepFreshEntries` | action | a read changes the slot only if it found it outdated |
| `CallsReturn` | liveness | every call on the cache returns |
| `ImplementsSlot` | refinement | DiskCache implements CacheSlot |
| `OnlyGatedRunsServed` | invariant | a 200 carries a manifested run that passed every gate, on every tier |
| `AnswersTheManifest` | invariant | a normal answer has the bytes and the label of the run the lookup named (one worker) |
| `LabelledAsLookedUp` | invariant | a normal answer is labelled with that run |
| `DiskAnswersTheManifest` | invariant | an answer from the shared disk has bytes and label of that run, even with several workers |
| `LastGoodGivenUpInAdoption` | action | the last-good entry leaves the slot only when a read found it outdated or while a run that passed every gate is being adopted, so nothing that is refused before it is adopted costs it; an adoption that fails halfway does, and is a refusal too (finding 5) |
| `EveryRequestAnswered` | liveness | an accepted request is answered |
| `Recovers` | liveness | once a servable run stays the newest, the service comes to serve it, and only it, again and again |
| `OnlySoundServed` | invariant | no refused or implausible historical artifact is served, on any tier, whatever failed before |
| `DiskNeverFailsRequest` | invariant | a 500 has a cause in the bucket, in the artifact or in the TTL: "never the reason a request fails" (`dataset_service.py:574`) |
| `AnswersALookup` | invariant | a historical answer is the artifact of one of the request's lookups, unless another worker stored while it was read back |
| `StreamedAsSorted` | invariant | a streamed artifact is one the in-memory path accepts, with the same rows in the same order |
| `RefusedUnlessBackfilled` | invariant | an artifact refused outright is one the in-memory path refuses too, unless the bad row would have been backfilled |
| `AssembledAsWhole` | invariant | month by month gives what one `build_dataset` on the whole run gives, for a run whose shards hold the month they are listed under and the same draws (section 5) |
| `NothingFilled` | invariant | every draw of an assembled run is from a shard: no cell filled with zeros |
| `MonthsWithinCapacity` | invariant | no month exceeds the bound guarded once, on the first shard |
| `UploadReportsTruth` | invariant | an upload that reports success left its content in the bucket under a document of it, unless the file was deleted since or an upload from bytes took it, by its name, for another content (section 5) |
| `SearchIsComplete` | invariant | a paged search during which no document was deleted finds all that was there |
| `ValidMetadataKept` | action | a document is deleted only when its file is gone (C-231), provided a "could not be found" is about the file or the bucket (section 5) |
| `WrongBytesHaveCause` | invariant | a file id is answered with its own bytes, those of a file of the same name, or a torn copy that was cut short |
| `CopiesWithinTtl` | invariant | a cached download is no older than its TTL, counted from when the bytes were written |
| `FailsOnlyForCause` | invariant | a lost, stale or unreadable index costs a download and nothing else |
| `TenantOwnManager` | invariant | a request is handed only managers of its own API key |
| `EvictedOnlyByCapacity` | invariant | an entry just used is gone only after as many other keys as the cache holds were used |
| `UnbuiltOnlyIfRaced` | invariant | a route gets `None` for a manager only by a race of first requests of one key |
| `UntimedOnlyIfMixed` | invariant | an SDK call lacks its timeout only if another call wrapped or unwrapped meanwhile |
| `GuardBoundsPayload` | invariant | the estimate never lets an oversized subset through and refuses one that fits only if it names a target twice; an hdi-map has no more rows than were judged unless it names a month or cell twice, its columns are not compared (section 5) |
| `UnitsWhole` | invariant | the sum of a unit is over all of its cells in that month, in both implementations, and no unit is missing |
| `ReportsWhatIsServed` | invariant | the reports describe the run this worker serves: nothing of another artifact in the record save the `created_at` of a run cached without one (section 5), its age alone judged; a source that was there all the while is passed over only if its lookup failed (section 5) |

Violated, because each states what a comment or docstring of the repository says and the code does not do:
`FallbackServesLastGood`, `BlipServesCache`, `FailedIngestKeepsLastGood`, and, without the hypothesis under which they hold,
`OnlyGatedRunsServed` and `AnswersTheManifest`. A property with an "unless" in the table names the exact condition it exempts; section 5 says how the
exempted case comes about and which line of the repository it contradicts.

**Refinement mapping.** The abstract slot is what a locked read would find: the
value and the sidecar when both are whole, and nothing from `Clear` to `Dump`, during which the lock keeps every reader
out (`AbstractSlot`). So a store is one abstract step at `Dump`, preceded by a `Drop` at `Clear`.

## 4. Runs

| Run | Instance | Shows |
|---|---|---|
| `disk_cache` | 2 workers, 3 files (one legacy), leftovers, 1 tick, 1 failure, 1 death | the seven DiskCache properties (59 thousand states) |
| `serving_one_worker` | 1 worker, 3 runs (one unidentifiable), a leftover run or legacy artifact, 2 rulings, 1 blip, 1 tick, 1 failure, 1 death | the deployed shape (1.3 million states) |
| `serving_two_workers` | 2 symmetric workers, 2 runs, failures at `dump`, deaths at `clear` and `dump`, one of each | what survives concurrency (1.9 million states) |
| `serving_liveness` | 1 worker, 2 runs, 2 rulings, 1 blip, 1 tick, 1 failure, 1 death | answers and recovery (0.4 million states) |
| `ingestion` | 3 historical artifacts (one not streamable, one implausible); artifacts of up to 3 rows; runs of up to 4 shards | the ingests (1.7 million states) |
| `appwrite` | 2 clients, 2 contents, 2 files, 2 documents, pages of 1, 1 fault; uploads from bytes; 2 managers, 2 files of 1 or 2 names, 1 hour, failure, death or deletion | metadata against files, paging, what one upload does to another, the file cache and its index (2.3 million states) |
| `api` | 2 threads, 3 keys, capacity 2; 2 months x 2 cells x 2 units; 2 manifests and a legacy record | dependencies, payload, lineage (1.3 million states) |

Each of these runs checks one property and finds it violated; the finding of the number says what happens:

| Run | Instance | Finding |
|---|---|---|
| `fallback_unused`, `blip_swallowed`, `leftover_unidentifiable` | 1 worker | 1, 2, 3 |
| `read_back_race` | 2 workers | 4 |
| `last_good_lost` | 1 worker, 2 runs, 1 failure while the slot is replaced | 5 |

**Bounds, and why they suffice.** *Serving.* `Files`, `MaxRun`: an entry can be the run looked up, an older one, or a refused one, and
a third run makes the last two differ from each other. Two workers: every hazard of the shared slot
is between one worker's two steps and another's whole call; the lock admits one at a time. `MaxTime = 1` with
`Ttl = 0`, `Sla = 0` and `MemTtl = 1`: one tick takes an entry from fresh to expired, from within to
past the SLA, and a warm entry out of the TTL cache, so each happens before, during and after a request.
`MaxFaults`, `MaxCrashes`, `MaxBlips` bound failures in one behaviour; they may hit at any enabled step, and
the properties do not depend on how often. `MaxRulings = 2` lets a run be withdrawn and reinstated, or two be withdrawn.
The proofs have none of these bounds. `CHECK_DEADLOCK` is on wherever a run completes.

*Ingestion.* In the part of one worker everything can go wrong; in that of two workers only the disk can (no tick, quarantine or
death), because what they share is the disk. The streamer is run on every artifact of up to 3 rows over 3 months and
2 cells, with every division into row groups and five kinds of geography, one per row: a month split between two
groups, a duplicate, a gap and a disorder all fit. The assembler is run on every run of up to 4 shards over 2 targets, 2 months and
2 cells; lists of exactly 4 name no target and month twice (`Listings`), shorter ones may. `Leftover` is empty: what an earlier
build left is the subject of the forecast runs. Deadlock is off because the streamer and the assembler end.

*Artifact store.* With two documents and pages of one, a search has a document before, on and after a page boundary. Two
clients and two contents give an upload racing an upload, a delete or a search of the same or another file; a fault hits at any call. Uploads from bytes are
a part of their own, because nothing in `src` calls them: the part `predictions` is the store as the service and the producer use it. In `bytes` the collection is there, nothing is
deleted or searched, and what fails is the search for a duplicate, the one step the other upload does not have. `StrayMessages` is false, which is an assumption about the service.
*File cache.* Two managers stand for two processes, two files may share a name or not, and `MaxEvents = 1` is one of: an hour, which
expires everything (`CacheTtl = 0`), a failed call, a death, a deletion.
*API.* Three keys over a capacity of two evict; two threads race. Filters name nothing, everything, one thing, the same thing twice, or
something unknown (`Few` in MCApi); the budget of 4000 bytes separates the answers of these datasets; targets and draws are not filtered in the same query;
the level is `country`; `alpha` lies in (0, 1); an empty list of samples is not asked for. A query that was answered stutters
(`Answered`), so that a deadlock of the other parts is still seen.

**The assumption about `open`.** `FaultPhases` and `CrashPhases` leave out `"open"`: between
`os.replace` of the directory and the truncation of the sidecar (`managers/disk_cache.py:283-294`) a death, or an
`open` that fails, leaves new bytes under the old label, and the next read would serve them as the old file.
The code has this window, two instructions wide; with `"open"` admitted `HitsAreWhole` and `ImplementsSlot` fail. Everything that
needs the assumption says so; the other properties are checked and proved without it where they can be.

**Fairness.** `DiskFairSpec`: a running worker keeps taking the steps of its call, since file system calls
return and the lock wait has a timeout; nothing else is fair. `FairSpec`: the event loop runs an accepted request to its end.
`LiveSpec` adds that clients keep asking, not always with `force_refresh`: a service nobody asks
recovers from nothing. Failures, deaths, rulings, publications and the clock are never forced. Strong fairness is
nowhere assumed: the waits for the lock are weakly fair because `LockTimeout` is enabled whenever `Acquire` is not.
The other modules state no liveness: their operations are finite sequences of calls that each return or time out, without a loop that
depends on another actor.

## 5. Findings

1. **`fallback_unused`** (code). The grace fallback returns the last-good *frame* and leaves the
   warm entry alone; `get_latest_dataset` (`managers/dataset_service.py:1043`) then takes the dataset from that
   entry: `None` on a cold worker (a 500), another run's on a warm one. `tests/test_dataset_service_fallback.py`
   tests `get_latest_dataframe` only; the routes use `get_latest_dataset`.
2. **`blip_swallowed`**. A metadata search that fails comes back as an empty list (`managers/prediction/manager.py:157-161`) and is
   taken for a confirmed absence of manifests, against "a lookup blip must NOT 500 the warm path".
3. **`leftover_unidentifiable`**. The identifiability gate runs on fresh ingests only, against the docstring of
   `_identifiable_gate`, which says it catches runs an earlier build left on disk.
4. **`read_back_race`** (several workers). The read-back after an adoption is not compared with the manifest.
5. **`last_good_lost`**. A store removes what the slot holds before it moves the new directory in (`managers/disk_cache.py:280-283`), so an adoption that
   fails in between costs the last-good entry and is then refused, and the fallback finds nothing; against "A failed ingest of the newest run discards only its
   staging dir, leaving the last-good disk entry intact" (`managers/dataset_service.py:349-350`, and 673-674).

Seen while modelling, without a run of their own; the properties exempt these cases by name or do not speak of them.

*Serving.* The torn pair at `open` (section 4; the comment at
`managers/disk_cache.py:222-223` claims it only for the directory). A run that was withdrawn can be served by the fallback while an older one
is listed but refused. A warm entry that reaches the TTL between the serve and the lookup by key is a `KeyError`
(a 500, part of `Serve`). `_forecast_serving_state` is one per process, shared by all API keys.

*Historical.* A selection that is confirmed empty (all quarantined) is taken for a lookup blip: the cached artifact is served until
its TTL. The streamed read-back is not compared with the file id: with two workers an entry can hold an older artifact than its
id says, until the TTL, against "only while it is still the newest" (`managers/dataset_service.py:761`); it is `raced` in `AnswersALookup`.
`_legacy_identity_ok` is not applied to what the disk returned.

*Ingest.* The streamer refuses a row with an impossible coordinate that the in-memory path would have overwritten by
its backfill, against "the in-memory path would reach the same verdict" (`forecast/ingestion/historical_stream.py:77`); `RefusedUnlessBackfilled` exempts it.
`append_month` never compares the draws of a month with those of the first: a later month of one draw is repeated by numpy, where
`build_dataset` refuses (`forecast/ingestion/wire_reader.py:258-263`), against "holds iff the run is **rectangular**" (326-327). The `time` of a shard's rows is not
compared with the month it is listed under, and the number of months is checked only through the number of rows. `AsDeclared` names both in `AssembledAsWhole`.

*Artifact store.* An upload from bytes (no caller in `src`) takes a file of its name for its duplicate whatever that holds
(`managers/appwrite/manager.py:144-155`) and writes the new hash on that file's document (703-720); an upload of that content from a path then reports
`METADATA_UPDATED`, and the bucket holds other bytes. `UploadReportsTruth` exempts the files so taken (`mistaken`) and no others. A duplicate it finds by hash yields the
`$id` of the document as file id, and `_store_metadata_document` swallows the exception its rollback waits for, so that a file without a document is
reported as stored, against `docs/CICs/AppWriteFileManager.md:135`. The orphan gate takes every "could not be found" that does not say "bucket" for
the file's, against "Scope the message strictly to a *file* not-found" (`managers/appwrite/manager.py:405`); under `StrayMessages` it deletes
metadata of a file that exists. In the upload from a path, a hash search that fails is taken for not found and
the file uploaded again, as it is after an update that failed; `PARTIAL_SUCCESS` leaves a file without document, and the retry of
`upload_predictions` ignores what `create_bucket` returned. Paging by offset misses a document when an earlier one is
deleted between two pages, against "so EVERY matching document is enumerated" (`managers/appwrite/metadata.py:457`), so `SearchIsComplete` is about searches without a
deletion; `delete_prediction` with a failed search leaves documents behind.

*File cache.* Files are stored by name and looked up by id, against "keyed by file id" (`managers/appwrite/file_cache.py:1`). Index updates of another process are lost, and files without an
entry are never cleared. `/cached` serves any age. A file deleted from the bucket can be served while its metadata
lookup fails. `validate_cache` compares a local time with the remote's zone, which costs a download and no more, since the
bytes of an id never change.

*API.* Two SDK calls that overlap can leave the timeout wrapper in place for good, one layer more each time, or send a request without it
(`UntimedOnlyIfMixed`), against "scoped to each call invocation" (`managers/appwrite/manager.py:64`; the docstring's "single-threaded" does not hold for dependencies,
which FastAPI runs in a thread pool). Of two first requests of one key the later replaces the entry into which the other has put its manager, and the other's
route is handed `None` (`managers/api.py:461`), against "get or create" (`UnbuiltOnlyIfRaced`). `parse_list_param(",")` is "none" and
`parse_string_list_param(",")` is "all". The guard judges an hdi-map as a subset, one value and its draws for a target, where the map has 12 columns for it, against
"The same reasoning makes this correct for the hdi-map routes" in the docstring of `served_payload_shape`; the cell level repeats a row for a
cell or month named twice; so `GuardBoundsPayload` bounds only a map's rows. `with_metadata=false` with `aggregate=true` is a 500 (no level
column to index by), the historical hdi-map is a 500 at cell level and for an aggregate without rows; an unknown month is dropped by the subset
and a 500 in the hdi-map. An aggregate of chosen units also returns partial sums of units not asked for when a cell changes unit between
months (`Moves` in `UnitsWhole`).

*Lineage.* Without a legacy record, a manifest lookup that fails gives a 404 although a run is published; `forecast/provenance.py:35-36` says only when all
sources are absent. A run cached by an older build without `created_at` keeps the one of the base record, which can be
another artifact's, against `forecast/provenance.py:122-124`. `ReportsWhatIsServed` allows these two and nothing else of the kind.

## 6. Proofs

TLAPS checks every leaf of the eight `*_proofs` modules. Constants are constrained by the named assumptions of their modules
(`DiskAssumption`, `ServingAssumption`, `HistoricalAssumption`, `AbsentIsNoEntry`, `StoreAssumption`, `FileCacheAssumption`, `DependenciesAssumption`, `LineageAssumption`,
`NoneIsNoRecord`, `StreamAssumption`, `AssemblyAssumption`, `PayloadAssumption`), which TLC evaluates in the runs. The only further hypotheses are `OpenIsSafe` (the assumption of section 4), `LeftoverGated` and
`Leftover \subseteq Sound` (no earlier build left an ungated artifact on disk), `~StrayMessages` for `ValidMetadataIsKept` and `UploadsReportTruth` (the service says "could not be
found" of files and buckets only), and, for `AnswersTheManifest`, one worker. Each theorem that
needs one says so in its statement. There are no bounds on workers, runs, clients, threads, keys, failures or deaths, nor on the rows
of an artifact, the shards of a run, the cells, months, units and targets of a dataset, or the length of a filter.

*DiskCache.* `DiskTypesHold` from the inductive `DiskInv` (types, and that every store in progress has a file).
`LockOwnershipHolds` from `DiskInv /\ LockOwnership`: it is inductive because `Return`, `Die` and
`Acquire` change the phase and the owner together. `StoreInv` says what the two paths hold at each point of a store (the value is gone at
`swap`, is the argument at `open` and `dump`, the sidecar is garbled at `dump`); with lock ownership it gives
`StoreIsWholeHolds`: the hypothesis that the holder is alone is what keeps another worker from breaking it. `ReadsKeepFreshEntriesHolds` needs only that
a worker that is reading or waiting is at no step of a store. `PairInv` adds that outside a store a parseable
label names the bytes beside it; it is inductive only under `OpenIsSafe` and gives
`HitsAreWholeHolds` and `SlotImplemented`, the latter by mapping each action to a step of CacheSlot or a stutter.

*ForecastServing.* `ServingUsesDiskCache`: every step of the service is a step of the cache or leaves it alone, so all of the
above holds of the cache in use. `ServingTypesHold` needs more than types: a request takes apart
what a call returned, so `RequestInv` relates the place of the request to the phase of its call (a worker in a store is
at `adopt` with the argument its manifest; a read's result is not a store's).
`OnlyGatedRunsServedHolds`: nothing on the serving path looks at a run again once it is on disk, so the invariant follows the artifacts: `DiskGated` (what the slot and results may
hold, and that a legacy artifact is labelled as one) and `GateInv` (the same for warm entries and answers, and that
a run just adopted has displaced a legacy artifact for good, which is why the read-back needs no
source check). It assumes `LeftoverGated`; finding 3
shows the assumption is needed. It does not assume `OpenIsSafe`. `LastGoodGivenUpInAdoptionHolds` combines `RequestInv` with the
steps that can change the slot. `LabelledAsLookedUpHolds` and `DiskAnswersTheManifestHolds` rest on one lemma, `WaysToAnswer`: a step that
answers with data is a warm hit, a disk hit, a read-back or the grace fallback, and each says where its label comes from; that a disk hit has the bytes of its
label is `HitsAreWhole`. `AnswersTheManifestHolds` adds `AloneInv`: a worker without another finds in the slot
what it stored, from the adoption to the read-back.

*HistoricalServing.* `HistoricalUsesDiskCache` as above. `HistInv` is `DiskInv`, what the slot and the results may hold, and one
predicate per worker (`RequestOK`: the place of the request against the phase of its call; the file is sound once it is being
stored; everything held is sound or was left over; a 500 has its cause). Each action moves one worker; `OneWorkerMoves` carries the others, to whom all that can happen is
that they are overtaken. `AnswersALookupHolds` adds `PlaceInv`: as long as a request is not overtaken, the label it reads is the id
it looked up, and after its own store the value is its file or gone. `OthersBehind` is the heart of it: a worker that changes the slot overtakes the others
by the same step, and one that dies only destroys.

*ArtifactStore.* `ValidMetadataIsKept` is an action property about two collections nothing ties together. Its invariant says why the
order of a client's calls suffices: ids are never given out twice, a document that exists never changes its file, and a file that is gone does not
come back. So when a client has seen that the file of a document is gone (`drop`) or has deleted it itself (`page`, `purge`), that stays true
however long it takes to delete the document and whatever others do.
`UploadsReportTruth` adds to these links (`TruthInv`) that a document names a file with its hash or one that is gone (`DocsTrue`), and for each upload that the
file it works on is there with its content, was deleted since it was seen, or was taken by its name (`Upholds`): the files in `mistaken` are the only
ones whose document may carry a hash that is not theirs.
`SearchesAreComplete` (`SearchInv`, `Paged`): as long as nothing is deleted the rank of a document among those present never changes, because ids
only grow; so every document of a rank below the offset has been collected, and a page that is not full is the last (`ShortPage`).

*Ingestion.* The references are whole-artifact definitions (`InMemory`, `Built`), so the invariants say what has been read so far and the final step is a theorem about
sequences. What sorts is defined by rank, and `RankOnto`, `RanksFix` and `GridInOrder` show that a sequence that ascends is
the sorted one: no recursion is needed. `StreamInv` for the streamer: the rows read ascend strictly and are plausible (`Clean`); at the end there are as many as
months times cells, so `DenseIsWhole` (an ascending sequence inside a product, of the size of the product, is the product in order)
makes the constructor's sort, fill and backfill the identity. `RefusedUnlessBackfilledHolds` follows an implausible row into the constructor.
`AssemblyInv` for the assembler: what is read belongs to a month appended or to the next one, and the guard held for the month whose draws gave the width
(`ReadInv`); the appended shards list each target once a month, over the same cells (`AppendedInv`); each stored row has its draws from shards with its
key, and there are cells times months of them, ascending (`StoreInv`). `AssembledAsWholeHolds` then compares a store that is complete (`AssembledInv`)
with `Built`; `BlockIs` is the heart of it: one month appended is `build_dataset` of its shards.

*ServedPayload.* `PayloadInv` ties the verdict to the question: what was judged affordable is what is still asked, and what is served is one of the
frames the route can build of it. The rest is about the operators. `CellFrameJudged` and `SumJudged`: no frame is larger than the shape that was judged, since
a sum has no more groups than rows (`SummedIs`) and a selection no more columns than were named (`MembersCounted`). `FlattenHas` says which cells the
codes are resolved to; the community module flattens recursively, and the lemma is proved by the least prefix that would contradict it.
`GuardHolds` and `UnitsHold` put these together for each of the three implementations. Filters may name anything, as often as they like; only an empty
list of draws is excluded.

*FileCache.* `CacheInv` says of each path that the bytes at it belong there and that a torn copy was cut short or has a writer that
still owns the file (`ContentsOK`); of each manager that the path it works on is its file's name or id, that writers who share a file are
on record, that what it is about to enter in the index was written this hour, and that what it is about to read is there or was removed
meanwhile (`OpOK`); of every index, on disk or in memory, that no entry makes a copy out to be younger than it is (`IndexOK`, the heart of it: that survives
the loss and the return of any index update, because a path is never written without its time advancing). `Quiet` carries all of it through a
step that writes no path, `Others` a manager that looks on while another writes or removes.

*ApiDependencies.* `DepInv` holds the types, that keys in the cache are distinct and within capacity (`CacheInv`), that every entry has its own
key's managers (`AllOwn`), and for each thread what it carries at its place. The key lemma is `TouchKeeps`: a look-up or
store moves its key to the end, keeps the order of the rest and drops at most the oldest; so the keys newer than an entry are among
those used since its owner touched it, and only a full cache of such keys evicts it. The timeout follows from who wrapped last.

*Lineage.* `Answers` states what is reported against what was served and what was `present`; it is inductive because a report takes its final
form in one step, and `UnderWay` says for the time before that what was there from the start and not found is a lookup that failed. `present` only loses members while a report is in progress, which
weakens both (`FewerPresent`). `AppliedFields` is the case analysis of the overlay, and `MaxOfBounded` (the newest manifest is one of those there are) is proved by the
well-foundedness of the naturals, the library's induction theorem being out of reach.

*The API.* `ApiTyped` is about the composition that TLC runs (`MCSpec`): each step is a step of one part and leaves the others alone, so the three
inductive invariants hold together.

*Model-checked only.* The liveness properties (`CallsReturn`, `EveryRequestAnswered`, `Recovers`): the provers have no rules for fairness, nor for
ENABLED, which fairness is made of. Every other property that a passing run checks is a theorem
(`AppwriteTypeOK`, which is by part, is `StoreTypesHold` and `FileCacheTypesHold` together). Of the violated ones, `OnlyGatedRunsServed` and
`AnswersTheManifest` are theorems under the hypotheses (`LeftoverGated`, one worker) that their runs drop.

The theorems say no more than their properties: `AssembledAsWholeHolds` is about runs whose shards are `AsDeclared`; `GuardBoundsPayloadHolds` about the subset route,
targets named once for the refusals, and about the rows alone of an hdi-map; `ReportsWhatIsServedHolds` leaves the `created_at` of an undated run open;
`LastGoodGivenUpInAdoptionHolds` allows the loss in an adoption that fails.

## 7. Not modelled

- The bulk route and its identity table (`forecast/serialize/bulk_parquet.py`): one pass over one dataset into a file, no state two steps could disagree about.
- `/provenance/historical`: one lookup, one record.
- The estimators (`forecast/summarize`): floating point over samples; the models know a sum by the cells summed and a draw by its shard.
- `managers/model.py`, `managers/log.py`, `version.py`, `methodology.py`, `seam_contract.py`: path arithmetic, configuration, text.
- `preflight.py`, `smoke.py`, `client.py`, `plotting.py`, the notebooks: tools beside the service.
- Status pages, middleware, start-up and shutdown of `managers/api.py`; `_maintenance` has no caller. The library `cachetools` is not thread-safe: its
  operations are modelled as atomic, and what it does under a race inside one of them is not described.
- The conversion of a metadata document's fields, the batch resolution of file ids, listing of files, permissions, SDK shims.
- `managers/disk_cache.py:294` (the truncation of the sidecar) as a fault: the assumption about `open`, above.
