----------------------------- MODULE ArtifactStore -----------------------------
(***************************************************************************)
(* The forecast artifact store: a bucket of files and, beside it, a         *)
(* collection of metadata documents (managers/appwrite/manager.py and       *)
(* metadata.py under managers/prediction/manager.py).                       *)
(*                                                                          *)
(* Nothing ties the two together but the order of a client's calls.  Every  *)
(* remote call is a step; other clients run between two of them, and a call *)
(* may fail; an upload whose answer is lost has still been acted on.        *)
(***************************************************************************)
EXTENDS Naturals, FiniteSets

CONSTANTS
    Clients,      \* processes that upload, delete and search
    Contents,     \* what a file can hold; the hash of a file is its content
    PageLimit,    \* DEFAULT_PAGE_LIMIT
    MaxFiles,     \* bound: files ever stored
    MaxDocs,      \* bound: documents ever created
    MaxFaults,    \* bound: failed calls in a behaviour
    StrayMessages, \* may a failed call answer that neither file nor bucket could be found?
    None          \* no file, no document

FileIds == 1..MaxFiles
DocIds == 1..MaxDocs
\* What stands where a file id is expected: one, or the id of document d, AsFile(d).
FileRefs == 1..MaxFiles + MaxDocs
AsFile(d) == MaxFiles + d
\* What provisioning creates, in the order it is looked for.
Shelf == {"bucket", "database", "collection", "schema"}

ASSUME StoreAssumption ==
    /\ PageLimit \in Nat \ {0} /\ {MaxFiles, MaxDocs, MaxFaults} \subseteq Nat
    /\ StrayMessages \in BOOLEAN
    /\ None \notin Contents \cup Nat \cup [file : FileRefs, hash : Contents]

VARIABLES
    files,         \* files[f]: the content of file f, or None
    docs,          \* docs[d]: the file and hash document d names, or None
    nfiles, ndocs, \* ids handed out so far: ID.unique() never repeats one
    shelf,         \* the resources that exist
    provisioning,  \* CRAFDAPI_ALLOW_PROVISIONING
    allowUpdate,   \* allow_metadata_only_updates
    pc,            \* pc[c]: the remote call client c makes next
    job,           \* job[c]: the operation c is in, or was in last
    faults,
    mistaken       \* the files an upload took, by their name, for what they do not
                   \* hold; recorded for the properties, read by no action

vars == <<files, docs, nfiles, ndocs, shelf, provisioning, allowUpdate, pc, job, faults, mistaken>>
\* What most steps leave alone.
aside == <<shelf, provisioning, allowUpdate, mistaken>>

Document == [file : FileRefs, hash : Contents]
Kinds == {"path", "bytes", "delete", "search"}
Replies == {"none", "stored", "updated", "partial", "failed", "refused", "deleted", "found"}

\* An operation: its kind, content and file; the document a lookup found; the
\* attempt of upload_predictions; the paging offset and what it collected.  `since`,
\* `calm` and `gone` only serve the properties: the documents that matched when the
\* operation began, whether none was deleted since, the files deleted since.
Job == [kind : Kinds, content : Contents \cup {None}, file : FileRefs \cup {None},
        doc : DocIds \cup {None}, try : {1, 2}, offset : Nat, got : SUBSET DocIds,
        since : SUBSET DocIds, calm : BOOLEAN, gone : SUBSET FileIds, reply : Replies]

Places == {"idle", "find", "verify", "drop", "update", "amend", "ensure", "dedup", "named", "put",
           "describe", "record", "provision", "remove", "page", "purge"}

Alive(f) == f \in FileIds /\ files[f] # None
DocsOf(f) == {d \in DocIds : docs[d] # None /\ docs[d].file = f}
\* The documents of a search: those of one file, or all.
Matching(f) == IF f = None THEN {d \in DocIds : docs[d] # None} ELSE DocsOf(f)
WithHash(h) == {d \in DocIds : docs[d] # None /\ docs[d].hash = h}
\* The document a query returns first; nothing depends on the order.
First(S) == CHOOSE d \in S : TRUE

-------------------------------------------------------------------------------
Idle == [kind |-> "search", content |-> None, file |-> None, doc |-> None, try |-> 1,
         offset |-> 0, got |-> {}, since |-> {}, calm |-> TRUE, gone |-> {}, reply |-> "none"]

Init ==
    /\ files = [f \in FileIds |-> None] /\ docs = [d \in DocIds |-> None]
    /\ nfiles = 0 /\ ndocs = 0 /\ faults = 0 /\ mistaken = {}
    /\ shelf \in {Shelf, Shelf \ {"schema"}, Shelf \ {"collection", "schema"}, {}}
    /\ provisioning \in BOOLEAN /\ allowUpdate \in BOOLEAN
    /\ pc = [c \in Clients |-> "idle"]
    /\ job = [c \in Clients |-> Idle]

Goto(c, p) == pc' = [pc EXCEPT ![c] = p]
\* The operation moves on and changes nothing of the store.
Step(c, from, to, j) ==
    /\ pc[c] = from /\ Goto(c, to)
    /\ job' = [job EXCEPT ![c] = j]
    /\ UNCHANGED <<files, docs, nfiles, ndocs, aside, faults>>
\* The caller gets r; of an upload that succeeded the properties look at the rest too.
Reply(c, r) ==
    /\ Goto(c, "idle")
    /\ job' = [job EXCEPT ![c] = IF r \in {"stored", "updated"} /\ job[c].kind = "path"
                                 THEN [job[c] EXCEPT !.doc = None, !.try = 1, !.reply = r]
                                 ELSE [Idle EXCEPT !.kind = job[c].kind, !.reply = r]]

-------------------------------------------------------------------------------
(* Operations begin. *)

Begin(c, p, j) == Step(c, "idle", p, j)
\* PredictionStoreManager.upload_predictions, and the upload from bytes.
Upload(c, kind, h) ==
    Begin(c, "find", [Idle EXCEPT !.kind = kind, !.content = h])
DeletePrediction(c, f) ==
    /\ f <= nfiles
    /\ Begin(c, "remove", [Idle EXCEPT !.kind = "delete", !.file = f])
SearchFiles(c) ==
    Begin(c, "page", [Idle EXCEPT !.since = Matching(None)])

-------------------------------------------------------------------------------
(* Provisioning: the collection and its schema are looked for before each search by
   hash and each upload, and created only when that is allowed. *)

Missing == {"database", "collection", "schema"} \ shelf
NextMissing == IF "database" \in Missing THEN "database"
               ELSE IF "collection" \in Missing THEN "collection" ELSE "schema"

Provision(c) ==
    /\ pc[c] \in {"find", "ensure"} /\ Missing # {}
    /\ \/ /\ provisioning /\ shelf' = shelf \cup {NextMissing}
          /\ UNCHANGED <<pc, job>>
       \/ ~provisioning /\ Reply(c, "failed") /\ UNCHANGED shelf
    /\ UNCHANGED <<files, docs, nfiles, ndocs, provisioning, allowUpdate, faults, mistaken>>

\* upload_predictions uploads again after create_bucket, whatever that returned.
Again(c) ==
    /\ Goto(c, "find")
    /\ job' = [job EXCEPT ![c] = [job[c] EXCEPT !.try = 2, !.doc = None, !.file = None]]

\* create_bucket, after the first attempt found no bucket.  A bucket whose database
\* could not be created raises.
ProvisionBucket(c) ==
    /\ pc[c] = "provision"
    /\ \/ provisioning /\ shelf' = shelf \cup {"bucket"} /\ Again(c) /\ UNCHANGED faults
       \/ /\ provisioning /\ shelf' = shelf \cup {"bucket"} /\ Reply(c, "refused")
          /\ faults < MaxFaults /\ faults' = faults + 1
       \/ ~provisioning /\ Reply(c, "refused") /\ UNCHANGED <<shelf, faults>>
    /\ UNCHANGED <<files, docs, nfiles, ndocs, provisioning, allowUpdate, mistaken>>

-------------------------------------------------------------------------------
(* Upload: which of the stored files, if any, holds this content already? *)

\* check_file_exists_by_hash
FindByHash(c) ==
    LET hits == WithHash(job[c].content) IN
    /\ Missing = {}
    /\ \/ hits = {} /\ Step(c, "find", "ensure", job[c])
       \/ /\ hits # {}
          /\ Step(c, "find", IF job[c].kind = "path" THEN "verify" ELSE "ensure",
                  [job[c] EXCEPT !.doc = First(hits), !.file = docs[First(hits)].file])

\* What get_file can say of a file; what a fault brings is not about the file.  A stray
\* message says "could not be found" of neither file nor bucket (a project, a page).
Faulty == {"denied", "bucket_not_found", "bucket_message"}
          \cup (IF StrayMessages THEN {"stray_message"} ELSE {})
Answers(f) ==
    (IF "bucket" \notin shelf THEN {"bucket_not_found"}
     ELSE IF Alive(f) THEN {"found"} ELSE {"file_not_found", "file_message"})
    \cup (IF faults < MaxFaults THEN Faulty ELSE {})

\* Mutant: any message that something could not be found makes the document an orphan.
GenuinelyGoneLoose(a) == a \in {"file_not_found", "file_message", "bucket_message", "stray_message"}

\* The orphan gate: the code of a missing file, or a message that something other
\* than a bucket could not be found.
GenuinelyGone(a) == a \in {"file_not_found", "file_message", "stray_message"}

\* Mutant: it counts the attempts, and does so every time.
NoBucketRetried(c) ==
    IF job[c].kind = "path"
    THEN Goto(c, "provision") /\ job' = [job EXCEPT ![c].try = @ + 1] ELSE Reply(c, "failed")

\* An operation that found no bucket: upload_predictions provisions it once.
NoBucket(c) ==
    IF job[c].kind = "path" /\ job[c].try = 1
    THEN Goto(c, "provision") /\ UNCHANGED job ELSE Reply(c, "failed")

\* get_file on the file the document names: update it, drop the orphaned document
\* or refuse.
Verify(c) ==
    /\ pc[c] = "verify"
    /\ \E a \in Answers(job[c].file) :
        /\ \/ /\ a = "found"
              /\ Goto(c, IF allowUpdate THEN "update" ELSE "ensure")
              /\ UNCHANGED job
           \/ GenuinelyGone(a) /\ Goto(c, "drop") /\ UNCHANGED job
           \/ a = "bucket_not_found" /\ NoBucket(c)
           \/ a \in {"denied", "bucket_message"} /\ ~GenuinelyGone(a) /\ Reply(c, "refused")
        /\ faults' = IF a \in Faulty \ {"bucket_not_found"} \/ (a = "bucket_not_found" /\ "bucket" \in shelf)
                     THEN faults + 1 ELSE faults
    /\ UNCHANGED <<files, docs, nfiles, ndocs, aside>>

\* A document is deleted; searches in progress are no longer calm.
Erase(d) == docs' = [docs EXCEPT ![d] = None]
Disturbed(d) == [x \in Clients |-> IF docs[d] = None THEN job[x] ELSE [job[x] EXCEPT !.calm = FALSE]]

\* delete_document of the orphan; one that is gone already is a failure, and ignored.
DropOrphan(c) ==
    /\ pc[c] = "drop" /\ Goto(c, "ensure")
    /\ Erase(job[c].doc) /\ job' = Disturbed(job[c].doc)
    /\ UNCHANGED <<files, nfiles, ndocs, aside, faults>>

\* An upload that could not update: from a path it uploads, from bytes it gives up.
UpdateFailed(c) ==
    IF job[c].kind = "path" THEN Goto(c, "ensure") /\ UNCHANGED job ELSE Reply(c, "failed")

\* update_file_metadata: find a document of the file ...
Update(c) ==
    LET found == DocsOf(job[c].file) IN
    /\ pc[c] = "update"
    /\ \/ found = {} /\ UpdateFailed(c)
       \/ /\ found # {} /\ Goto(c, "amend")
          /\ job' = [job EXCEPT ![c].doc = First(found)]
    /\ UNCHANGED <<files, docs, nfiles, ndocs, aside, faults>>

\* ... and update it, if it is still there.
Amend(c) ==
    LET d == job[c].doc IN
    /\ pc[c] = "amend"
    /\ \/ docs[d] = None /\ UpdateFailed(c) /\ UNCHANGED docs
       \/ /\ docs[d] # None /\ Reply(c, "updated")
          /\ docs' = [docs EXCEPT ![d].hash = job[c].content]
    /\ UNCHANGED <<files, nfiles, ndocs, aside, faults>>

-------------------------------------------------------------------------------
(* Upload: store the file, then its document. *)

\* create_metadata_collection_if_not_exists found everything in place.
Ensure(c) ==
    /\ Missing = {}
    /\ Step(c, "ensure",
            CASE job[c].kind = "path" -> "put"
              [] job[c].kind = "bytes" /\ job[c].doc # None /\ allowUpdate -> "update"
              [] OTHER -> "dedup", job[c])

\* upload_file_from_bytes looks for a duplicate: by hash, which yields the id of a
\* document ...
Dedup(c) ==
    LET hits == WithHash(job[c].content) IN
    \/ /\ hits # {}
       /\ Step(c, "dedup", "describe", [job[c] EXCEPT !.file = AsFile(First(hits))])
    \/ hits = {} /\ Step(c, "dedup", "named", job[c])

\* ... then by name.  The caller chose the name, so it may be that of any file, or of
\* none; a file of that name is the duplicate, whatever it holds.
DedupByName(c) ==
    /\ pc[c] = "named"
    /\ \/ Goto(c, "put") /\ UNCHANGED <<job, mistaken>>
       \/ \E f \in FileIds :
            /\ Alive(f) /\ Goto(c, "describe")
            /\ job' = [job EXCEPT ![c].file = f]
            /\ mistaken' = IF files[f] = job[c].content THEN mistaken ELSE mistaken \cup {f}
    /\ UNCHANGED <<files, docs, nfiles, ndocs, shelf, provisioning, allowUpdate, faults>>

\* storage.create_file
Put(c) ==
    /\ pc[c] = "put"
    /\ \/ /\ "bucket" \in shelf /\ nfiles < MaxFiles
          /\ nfiles' = nfiles + 1
          /\ files' = [files EXCEPT ![nfiles + 1] = job[c].content]
          /\ Goto(c, "describe") /\ job' = [job EXCEPT ![c].file = nfiles + 1]
       \/ "bucket" \notin shelf /\ NoBucket(c) /\ UNCHANGED <<files, nfiles>>
       \/ nfiles = MaxFiles /\ "bucket" \in shelf /\ Reply(c, "failed") /\ UNCHANGED <<files, nfiles>>
    /\ UNCHANGED <<docs, ndocs, aside, faults>>

\* _store_metadata_document: is there a document of this file?  It is updated ...
Describe(c) ==
    LET found == DocsOf(job[c].file) IN
    Step(c, "describe", "record",
         [job[c] EXCEPT !.doc = IF found = {} THEN None ELSE First(found)])

\* Mutant: a document that could not be written is reported as stored, as the upload
\* from bytes does.
RecordUnchecked(c) ==
    /\ pc[c] = "record" /\ Reply(c, "stored")
    /\ \/ /\ job[c].doc = None /\ ndocs < MaxDocs
          /\ ndocs' = ndocs + 1
          /\ docs' = [docs EXCEPT ![ndocs + 1] = [file |-> job[c].file, hash |-> job[c].content]]
       \/ faults < MaxFaults /\ UNCHANGED <<docs, ndocs>>
    /\ UNCHANGED <<files, nfiles, aside, faults>>

\* ... or else created.
Record(c) ==
    LET new == [file |-> job[c].file, hash |-> job[c].content] IN
    /\ pc[c] = "record"
    /\ \/ /\ job[c].doc = None /\ ndocs < MaxDocs
          /\ ndocs' = ndocs + 1
          /\ docs' = [docs EXCEPT ![ndocs + 1] = new]
          /\ Reply(c, "stored")
       \/ /\ job[c].doc # None /\ docs[job[c].doc] # None
          /\ docs' = [docs EXCEPT ![job[c].doc] = new]
          /\ UNCHANGED ndocs
          /\ Reply(c, "stored")
       \/ /\ IF job[c].doc = None THEN ndocs = MaxDocs ELSE docs[job[c].doc] = None
          /\ UNCHANGED <<docs, ndocs>>
          /\ Reply(c, IF job[c].kind = "path" THEN "partial" ELSE "stored")
    /\ UNCHANGED <<files, nfiles, aside, faults>>

-------------------------------------------------------------------------------
(* Delete and search. *)

\* storage.delete_file, the first step of delete_prediction.
Remove(c) ==
    LET f == job[c].file IN
    /\ pc[c] = "remove"
    /\ \/ /\ Alive(f)
          /\ files' = [files EXCEPT ![f] = None]
          /\ Goto(c, "page")
          /\ job' = [x \in Clients |-> [job[x] EXCEPT !.gone = @ \cup {f}]]
       \/ ~Alive(f) /\ Reply(c, "failed") /\ UNCHANGED files
    /\ UNCHANGED <<docs, nfiles, ndocs, aside, faults>>

\* The documents a page holds: those of rank offset to offset + PageLimit - 1.
PageAt(S, offset) ==
    {d \in S : LET rank == Cardinality({e \in S : e < d})
               IN  offset <= rank /\ rank < offset + PageLimit}

\* Mutant: the page after next is asked for.
PageSkipping(c) ==
    LET page == PageAt(Matching(job[c].file), job[c].offset)
        more == [job[c] EXCEPT !.got = @ \cup page, !.offset = @ + PageLimit + 1] IN
    \/ Cardinality(page) = PageLimit /\ Step(c, "page", "page", more)
    \/ /\ Cardinality(page) < PageLimit
       /\ Step(c, "page", "idle", [more EXCEPT !.reply = "found"])

\* search_files_by_metadata: one page; a short one is the last.
Page(c) ==
    LET page == PageAt(Matching(job[c].file), job[c].offset)
        more == [job[c] EXCEPT !.got = @ \cup page, !.offset = @ + PageLimit] IN
    \/ Cardinality(page) = PageLimit /\ Step(c, "page", "page", more)
    \/ /\ Cardinality(page) < PageLimit
       /\ \/ job[c].kind = "delete" /\ Step(c, "page", "purge", more)
          \/ job[c].kind = "search" /\ Step(c, "page", "idle", [more EXCEPT !.reply = "found"])

\* delete_prediction deletes the documents found, one by one.
Purge(c) ==
    /\ pc[c] = "purge"
    /\ \/ /\ job[c].got # {}
          /\ LET d == First(job[c].got) IN
             /\ Erase(d)
             /\ job' = [Disturbed(d) EXCEPT ![c].got = @ \ {d}]
          /\ UNCHANGED pc
       \/ job[c].got = {} /\ Reply(c, "deleted") /\ UNCHANGED docs
    /\ UNCHANGED <<files, nfiles, ndocs, aside, faults>>

-------------------------------------------------------------------------------
(* A remote call fails. *)

\* What the client does about it.  A search by hash or by name that failed is taken for
\* an absence; a document that cannot be dropped or deleted is left; a page that
\* cannot be read ends the search, and a deletion, without the rest.
Cope(c) ==
    CASE pc[c] = "find" \/ (pc[c] = "ensure" /\ NextMissing = "schema" /\ Missing # {})
            -> Goto(c, IF pc[c] = "find" THEN "ensure"
                       ELSE IF job[c].kind = "path" THEN "put" ELSE "dedup") /\ UNCHANGED job
      [] pc[c] = "dedup" -> Goto(c, "named") /\ UNCHANGED job
      [] pc[c] = "named" -> Goto(c, "put") /\ UNCHANGED job
      [] pc[c] = "drop" -> Goto(c, "ensure") /\ UNCHANGED job
      [] pc[c] \in {"update", "amend"} -> UpdateFailed(c)
      [] pc[c] \in {"describe", "record"}
            -> Reply(c, IF job[c].kind = "path" THEN "partial" ELSE "stored")
      [] pc[c] = "page" -> Reply(c, IF job[c].kind = "delete" THEN "deleted" ELSE "failed")
      [] pc[c] = "purge" /\ job[c].got # {}
            -> UNCHANGED pc /\ job' = [job EXCEPT ![c].got = @ \ {First(@)}]
      [] pc[c] = "provision" -> Again(c)
      [] OTHER -> Reply(c, "failed")

\* The call was not acted on.
Fail(c) ==
    /\ pc[c] \notin {"idle", "verify"} /\ faults < MaxFaults
    /\ faults' = faults + 1
    /\ Cope(c)
    /\ UNCHANGED <<files, docs, nfiles, ndocs, aside>>

\* The upload was acted on and its answer was lost (a timeout).
PutUnanswered(c) ==
    /\ pc[c] = "put" /\ "bucket" \in shelf /\ nfiles < MaxFiles /\ faults < MaxFaults
    /\ nfiles' = nfiles + 1 /\ faults' = faults + 1
    /\ files' = [files EXCEPT ![nfiles + 1] = job[c].content]
    /\ Reply(c, "failed")
    /\ UNCHANGED <<docs, ndocs, aside>>

-------------------------------------------------------------------------------
Next ==
    \E c \in Clients :
        \/ \E h \in Contents, kind \in {"path", "bytes"} : Upload(c, kind, h)
        \/ \E f \in FileIds : DeletePrediction(c, f)
        \/ SearchFiles(c)
        \/ Provision(c) \/ ProvisionBucket(c)
        \/ FindByHash(c) \/ Verify(c) \/ DropOrphan(c) \/ Update(c) \/ Amend(c)
        \/ Ensure(c) \/ Dedup(c) \/ DedupByName(c) \/ Put(c) \/ Describe(c) \/ Record(c)
        \/ Remove(c) \/ Page(c) \/ Purge(c)
        \/ Fail(c) \/ PutUnanswered(c)

Spec == Init /\ [][Next]_vars

-------------------------------------------------------------------------------
(* Properties *)

\* The variables hold values of their types.
TypeOK ==
    /\ files \in [FileIds -> Contents \cup {None}]
    /\ docs \in [DocIds -> Document \cup {None}]
    /\ nfiles \in 0..MaxFiles /\ ndocs \in 0..MaxDocs /\ faults \in Nat
    /\ shelf \subseteq Shelf /\ provisioning \in BOOLEAN /\ allowUpdate \in BOOLEAN
    /\ pc \in [Clients -> Places]
    /\ job \in [Clients -> Job]
    /\ mistaken \subseteq FileIds

\* A metadata document is only ever deleted when the file it names is gone: the orphan
\* gate (manager.py:396-436, C-231) never takes a failed read for an absence, and
\* delete_prediction removes the file first, whatever other clients do in between.
\* With StrayMessages it does not hold: the gate excludes the word "bucket" and takes
\* every other "could not be found" for the file.
ValidMetadataKept ==
    [][\A d \in DocIds : docs[d] # None /\ docs'[d] = None => ~Alive(docs[d].file)]_vars

\* An upload that reports UPLOAD_SUCCESS or METADATA_UPDATED leaves the content in the
\* bucket under a document with its hash: not a file without document, nor one of other
\* content, nor an orphan.  Two things undo it: someone deleted the file meanwhile, or
\* an upload from bytes took the file, by its name, for one of another content and put
\* that content's hash on its document (manager.py:144-155, 703-720).
UploadReportsTruth ==
    \A c \in Clients :
        job[c].kind = "path" /\ job[c].reply \in {"stored", "updated"} =>
            \/ job[c].file \in job[c].gone \cup mistaken
            \/ /\ files[job[c].file] = job[c].content
               /\ \E d \in DocIds : docs[d] = [file |-> job[c].file, hash |-> job[c].content]

\* Paging enumerates every document that matched when the search began
\* (metadata.py:461-480), whatever is created or updated between two pages, as long as none is deleted.
SearchIsComplete ==
    \A c \in Clients :
        job[c].kind = "search" /\ job[c].reply = "found" /\ job[c].calm
            => job[c].since \subseteq job[c].got

===============================================================================
