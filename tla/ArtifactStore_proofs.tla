------------------------- MODULE ArtifactStore_proofs -------------------------
(***************************************************************************)
(* Proofs about ArtifactStore, for every set of clients and contents and    *)
(* every bound.                                                             *)
(***************************************************************************)
EXTENDS ArtifactStore, FiniteSetTheorems, WellFoundedInduction, TLAPS

\* The types of the store, and of the clients.
StoreTyped ==
    /\ files \in [FileIds -> Contents \cup {None}]
    /\ docs \in [DocIds -> Document \cup {None}]
    /\ nfiles \in 0..MaxFiles /\ ndocs \in 0..MaxDocs /\ faults \in Nat
    /\ shelf \subseteq Shelf /\ provisioning \in BOOLEAN /\ allowUpdate \in BOOLEAN
    /\ mistaken \subseteq FileIds
ClientsTyped == pc \in [Clients -> Places] /\ job \in [Clients -> Job]

\* What a client at place p carries in its job j.
CarriedAt(p, j) ==
    /\ p = "provision" => j.try = 1
    /\ p \in {"verify", "drop", "amend"} => j.doc # None
    /\ p \in {"page", "purge"} => j.kind \in {"delete", "search"}
    /\ p = "remove" => j.kind = "delete" /\ j.file \in FileIds
    /\ p = "purge" => j.kind = "delete"
    /\ p \in {"page", "purge"} /\ j.kind = "delete" => j.file \in FileIds
    /\ p \in {"describe", "record"} => j.file # None
    /\ j.doc # None => j.file # None
    /\ p \notin {"idle", "page", "purge", "remove"}
           => j.content # None /\ j.kind \in {"path", "bytes"}

Carried == \A c \in Clients : CarriedAt(pc[c], job[c])

StoreInv == StoreTyped /\ ClientsTyped /\ Carried

\* None is no id, no content and no document.
LEMMA NoneApart ==
  /\ MaxFiles \in Nat /\ MaxDocs \in Nat /\ MaxFaults \in Nat
  /\ None \notin FileIds /\ None \notin DocIds /\ None \notin Contents /\ None \notin Document
  /\ None \notin FileRefs /\ FileIds \subseteq FileRefs /\ \A d \in DocIds : AsFile(d) \in FileRefs
<1>1. /\ MaxFiles \in Nat /\ MaxDocs \in Nat /\ MaxFaults \in Nat
      /\ None \notin Nat /\ None \notin Contents /\ None \notin Document
  BY StoreAssumption DEF Document
<1>2. FileIds \subseteq Nat /\ DocIds \subseteq Nat /\ FileRefs \subseteq Nat
  BY <1>1 DEF FileIds, DocIds, FileRefs
<1>3. FileIds \subseteq FileRefs /\ \A d \in DocIds : AsFile(d) \in FileRefs
  BY <1>1 DEF FileIds, DocIds, FileRefs, AsFile
<1> QED BY <1>1, <1>2, <1>3

LEMMA FirstIn == ASSUME NEW S, S # {} PROVE First(S) \in S
  BY DEF First

\* Changing a field of a job within its type gives a job.
LEMMA JobFields ==
  ASSUME NEW j \in Job
  PROVE  /\ \A k \in Kinds : [j EXCEPT !.kind = k] \in Job
         /\ \A f \in FileRefs \cup {None} : [j EXCEPT !.file = f] \in Job
         /\ \A d \in DocIds \cup {None} : [j EXCEPT !.doc = d] \in Job
         /\ \A t \in {1, 2} : [j EXCEPT !.try = t] \in Job
         /\ \A n \in Nat : [j EXCEPT !.offset = n] \in Job
         /\ \A S \in SUBSET DocIds : [j EXCEPT !.got = S] \in Job
         /\ \A b \in BOOLEAN : [j EXCEPT !.calm = b] \in Job
         /\ \A F \in SUBSET FileIds : [j EXCEPT !.gone = F] \in Job
         /\ \A r \in Replies : [j EXCEPT !.reply = r] \in Job
  BY DEF Job

\* One client moves to q with job j, and the store stays in its type.
LEMMA Moved ==
  ASSUME StoreInv, NEW c \in Clients, NEW q \in Places, NEW j \in Job, CarriedAt(q, j),
         pc' = [pc EXCEPT ![c] = q], job' = [job EXCEPT ![c] = j], StoreTyped'
  PROVE  StoreInv'
<1>1. ClientsTyped'
  BY DEF StoreInv, ClientsTyped
<1>2. ASSUME NEW x \in Clients PROVE CarriedAt(pc'[x], job'[x])
  <2>1. CASE x = c
    <3>1. pc'[x] = q /\ job'[x] = j
      BY <2>1 DEF StoreInv, ClientsTyped
    <3> QED BY <3>1
  <2>2. CASE x # c
    <3>1. pc'[x] = pc[x] /\ job'[x] = job[x]
      BY <2>2 DEF StoreInv, ClientsTyped
    <3> QED BY <3>1 DEF StoreInv, Carried
  <2> QED BY <2>1, <2>2
<1> QED BY <1>1, <1>2 DEF StoreInv, Carried

\* ... in a step that changes nothing of the store,
LEMMA Stepped ==
  ASSUME StoreInv, NEW c \in Clients, NEW p, NEW q \in Places, NEW j \in Job,
         CarriedAt(q, j), Step(c, p, q, j)
  PROVE  StoreInv'
<1>1. StoreTyped'
  BY DEF Step, StoreInv, StoreTyped, aside
<1> QED BY <1>1, Moved DEF Step, Goto

\* ... or to a place where it carries the job it has,
LEMMA Gone ==
  ASSUME StoreInv, NEW c \in Clients, NEW q \in Places, CarriedAt(q, job[c]),
         Goto(c, q), UNCHANGED job, StoreTyped'
  PROVE  StoreInv'
<1>1. job' = [job EXCEPT ![c] = job[c]] /\ job[c] \in Job
  BY DEF StoreInv, ClientsTyped
<1> QED BY <1>1, Moved DEF Goto

\* ... or with a reply.
LEMMA Replied ==
  ASSUME StoreInv, NEW c \in Clients, NEW r \in Replies, Reply(c, r), StoreTyped'
  PROVE  StoreInv'
<1>1. Idle \in Job /\ job[c] \in Job
  BY DEF Idle, Job, Kinds, Replies, StoreInv, ClientsTyped
<1> DEFINE a == [job[c] EXCEPT !.doc = None, !.try = 1, !.reply = r]
           b == [Idle EXCEPT !.kind = job[c].kind, !.reply = r]
<1>2. a \in Job /\ b \in Job /\ a.doc = None /\ b.doc = None
  BY <1>1 DEF Job, Replies, Kinds, Idle
<1>3. PICK j \in {a, b} : job' = [job EXCEPT ![c] = j]
  BY DEF Reply
<1>4. j \in Job /\ CarriedAt("idle", j) /\ "idle" \in Places
  BY <1>2 DEF CarriedAt, Places
<1> HIDE DEF a, b
<1> QED BY <1>3, <1>4, Moved DEF Reply, Goto
-------------------------------------------------------------------------------
(* Each action keeps the invariant. *)

LEMMA BeginKeeps ==
  ASSUME StoreInv, NEW c \in Clients,
         \/ \E h \in Contents, kind \in {"path", "bytes"} : Upload(c, kind, h)
         \/ \E f \in FileIds : DeletePrediction(c, f)
         \/ SearchFiles(c)
  PROVE  StoreInv'
<1>0. Idle \in Job /\ Matching(None) \in SUBSET DocIds /\ {"find", "remove", "page"} \subseteq Places
  BY DEF Idle, Job, Kinds, Replies, Matching, Places
<1>1. ASSUME NEW h \in Contents, NEW kind \in {"path", "bytes"}, Upload(c, kind, h)
      PROVE  StoreInv'
  <2> DEFINE j == [Idle EXCEPT !.kind = kind, !.content = h]
  <2>1. j \in Job /\ j.content = h /\ j.kind = kind /\ h # None /\ j.doc = None
    BY <1>0, NoneApart DEF Idle, Job, Kinds, Replies
  <2>2. CarriedAt("find", j)
    BY <2>1 DEF CarriedAt
  <2>3. Step(c, "idle", "find", j)
    BY <1>1 DEF Upload, Begin
  <2> QED BY <1>0, <2>1, <2>2, <2>3, Stepped
<1>2. ASSUME NEW f \in FileIds, DeletePrediction(c, f) PROVE StoreInv'
  <2> DEFINE j == [Idle EXCEPT !.kind = "delete", !.file = f]
  <2>1. j \in Job /\ j.file = f /\ j.kind = "delete" /\ f \in FileIds /\ j.doc = None
    BY <1>0, NoneApart DEF Idle, Job, Kinds, Replies
  <2>2. CarriedAt("remove", j)
    BY <2>1 DEF CarriedAt
  <2>3. Step(c, "idle", "remove", j)
    BY <1>2 DEF DeletePrediction, Begin
  <2> QED BY <1>0, <2>1, <2>2, <2>3, Stepped
<1>3. CASE SearchFiles(c)
  <2> DEFINE j == [Idle EXCEPT !.since = Matching(None)]
  <2>1. j \in Job /\ j.kind = "search" /\ j.doc = None
    BY <1>0 DEF Idle, Job, Kinds, Replies
  <2>2. CarriedAt("page", j)
    BY <2>1 DEF CarriedAt
  <2>3. Step(c, "idle", "page", j)
    BY <1>3 DEF SearchFiles, Begin
  <2> QED BY <1>0, <2>1, <2>2, <2>3, Stepped
<1> QED BY <1>1, <1>2, <1>3

\* The second attempt of an upload starts without file and document.
LEMMA AgainMoves ==
  ASSUME StoreInv, NEW c \in Clients, pc[c] = "provision", Again(c)
  PROVE  \E j \in Job : /\ CarriedAt("find", j) /\ pc' = [pc EXCEPT ![c] = "find"]
                        /\ job' = [job EXCEPT ![c] = j]
<1> DEFINE j == [job[c] EXCEPT !.try = 2, !.doc = None, !.file = None]
<1>1. job[c] \in Job /\ CarriedAt("provision", job[c])
  BY DEF StoreInv, ClientsTyped, Carried
<1>2. job[c].try = 1 /\ job[c].content # None /\ job[c].kind \in {"path", "bytes"}
  BY <1>1 DEF CarriedAt
<1>3. j \in Job /\ j.content = job[c].content /\ j.kind = job[c].kind /\ j.doc = None
  BY <1>1, <1>2 DEF Job
<1>4. CarriedAt("find", j)
  BY <1>2, <1>3 DEF CarriedAt
<1> QED BY <1>3, <1>4 DEF Again, Goto

LEMMA ProvisionKeeps ==
  ASSUME StoreInv, NEW c \in Clients, Provision(c) \/ ProvisionBucket(c)
  PROVE  StoreInv'
<1>1. StoreTyped'
  <2>1. shelf' \subseteq Shelf
    BY DEF Provision, ProvisionBucket, StoreInv, StoreTyped, Missing, NextMissing, Shelf
  <2>2. faults' \in Nat
    BY DEF Provision, ProvisionBucket, StoreInv, StoreTyped
  <2> QED BY <2>1, <2>2 DEF Provision, ProvisionBucket, StoreInv, StoreTyped
<1>2. CASE Provision(c)
  <2>1. CASE UNCHANGED <<pc, job>>
    BY <1>1, <2>1 DEF StoreInv, ClientsTyped, Carried
  <2>2. CASE Reply(c, "failed")
    BY <1>1, <2>2, Replied DEF Replies
  <2> QED BY <1>2, <2>1, <2>2 DEF Provision
<1>3. CASE ProvisionBucket(c)
  <2>1. CASE Again(c)
    BY <1>1, <1>3, <2>1, AgainMoves, Moved DEF ProvisionBucket, Places
  <2>2. CASE Reply(c, "refused")
    BY <1>1, <2>2, Replied DEF Replies
  <2> QED BY <1>3, <2>1, <2>2 DEF ProvisionBucket
<1> QED BY <1>2, <1>3

\* An upload that found no bucket ends, or provisions it.
LEMMA NoBucketKeeps ==
  ASSUME StoreInv, NEW c \in Clients, pc[c] \in {"verify", "put"}, NoBucket(c), StoreTyped'
  PROVE  StoreInv'
<1>1. CarriedAt(pc[c], job[c])
  BY DEF StoreInv, Carried
<1>2. CASE job[c].kind = "path" /\ job[c].try = 1
  <2>1. CarriedAt("provision", job[c]) /\ "provision" \in Places
    BY <1>1, <1>2 DEF CarriedAt, Places
  <2> QED BY <1>2, <2>1, Gone DEF NoBucket
<1>3. CASE ~(job[c].kind = "path" /\ job[c].try = 1)
  BY <1>3, Replied DEF NoBucket, Replies
<1> QED BY <1>2, <1>3

LEMMA FindByHashKeeps ==
  ASSUME StoreInv, NEW c \in Clients, FindByHash(c)
  PROVE  StoreInv'
<1> DEFINE hits == WithHash(job[c].content)
<1>0. job[c] \in Job /\ {"verify", "ensure"} \subseteq Places
  BY DEF StoreInv, ClientsTyped, Places
<1>1. pc[c] = "find" /\ CarriedAt("find", job[c])
  BY DEF FindByHash, Step, StoreInv, Carried
<1>2. CASE Step(c, "find", "ensure", job[c])
  <2>1. CarriedAt("ensure", job[c])
    BY <1>1 DEF CarriedAt
  <2> QED BY <1>0, <1>2, <2>1, Stepped
<1>3. CASE hits # {}
  <2> DEFINE d == First(hits)
             j == [job[c] EXCEPT !.doc = d, !.file = docs[d].file]
  <2>1. d \in DocIds /\ docs[d] # None
    BY <1>3, FirstIn DEF WithHash
  <2>2. docs[d].file \in FileRefs /\ docs[d].file # None /\ d # None
    BY <2>1, NoneApart DEF StoreInv, StoreTyped, Document
  <2>3. j \in Job /\ j.doc = d /\ j.content = job[c].content /\ j.kind = job[c].kind
        /\ j.file = docs[d].file
    BY <1>0, <2>1, <2>2 DEF Job
  <2>4. CarriedAt("verify", j) /\ CarriedAt("ensure", j)
    BY <1>1, <2>2, <2>3 DEF CarriedAt
  <2>5. CASE Step(c, "find", IF job[c].kind = "path" THEN "verify" ELSE "ensure", j)
    <3> HIDE DEF j
    <3> QED BY <1>0, <2>3, <2>4, <2>5, Stepped
  <2> QED BY <1>2, <1>3, <2>5 DEF FindByHash
<1> QED BY <1>2, <1>3 DEF FindByHash

LEMMA VerifyKeeps ==
  ASSUME StoreInv, NEW c \in Clients, Verify(c)
  PROVE  StoreInv'
<1>1. pc[c] = "verify" /\ CarriedAt("verify", job[c]) /\ {"update", "ensure", "drop"} \subseteq Places
  BY DEF Verify, StoreInv, Carried, Places
<1>2. StoreTyped'
  BY DEF Verify, StoreInv, StoreTyped, aside
<1>3. CASE \E p \in {"update", "ensure", "drop"} : Goto(c, p) /\ UNCHANGED job
  <2>1. \A p \in {"update", "ensure", "drop"} : CarriedAt(p, job[c])
    BY <1>1 DEF CarriedAt
  <2> QED BY <1>1, <1>2, <1>3, <2>1, Gone
<1>4. CASE NoBucket(c)
  BY <1>1, <1>2, <1>4, NoBucketKeeps
<1>5. CASE Reply(c, "refused")
  BY <1>2, <1>5, Replied DEF Replies
<1> QED BY <1>3, <1>4, <1>5 DEF Verify
\* A deleted document leaves the store and every job in its type.
LEMMA EraseKeeps ==
  ASSUME StoreInv, NEW d \in DocIds, Erase(d), UNCHANGED <<files, nfiles, ndocs, aside>>, faults' \in Nat
  PROVE  /\ StoreTyped' /\ Disturbed(d) \in [Clients -> Job]
         /\ \A x \in Clients, p \in Places : CarriedAt(p, job[x]) => CarriedAt(p, Disturbed(d)[x])
<1>1. StoreTyped'
  BY DEF Erase, aside, StoreInv, StoreTyped
<1>2. ASSUME NEW x \in Clients
      PROVE  /\ Disturbed(d)[x] \in Job
             /\ \A p \in Places : CarriedAt(p, job[x]) => CarriedAt(p, Disturbed(d)[x])
  <2>1. job[x] \in Job
    BY DEF StoreInv, ClientsTyped
  <2> DEFINE j == [job[x] EXCEPT !.calm = FALSE]
  <2>2. /\ j \in Job /\ j.kind = job[x].kind /\ j.content = job[x].content /\ j.file = job[x].file
        /\ j.doc = job[x].doc /\ j.try = job[x].try
    BY <2>1 DEF Job
  <2>3. Disturbed(d)[x] \in {job[x], j}
    BY DEF Disturbed
  <2>4. \A p \in Places : CarriedAt(p, job[x]) => CarriedAt(p, j)
    BY <2>2 DEF CarriedAt
  <2> QED BY <2>1, <2>2, <2>3, <2>4
<1>3. Disturbed(d) = [x \in Clients |-> Disturbed(d)[x]]
  BY DEF Disturbed
<1> QED BY <1>1, <1>2, <1>3

LEMMA DropOrphanKeeps ==
  ASSUME StoreInv, NEW c \in Clients, DropOrphan(c)
  PROVE  StoreInv'
<1> DEFINE d == job[c].doc
<1>1. pc[c] = "drop" /\ d \in DocIds /\ CarriedAt("drop", job[c])
  BY DEF DropOrphan, StoreInv, ClientsTyped, Carried, CarriedAt, Job
<1>2. /\ StoreTyped' /\ job' \in [Clients -> Job]
      /\ \A x \in Clients, p \in Places : CarriedAt(p, job[x]) => CarriedAt(p, job'[x])
  BY <1>1, EraseKeeps DEF DropOrphan, aside, StoreInv, StoreTyped
<1>3. CarriedAt("ensure", job[c]) /\ "ensure" \in Places
  BY <1>1 DEF CarriedAt, Places
<1>4. pc' \in [Clients -> Places] /\ \A x \in Clients : CarriedAt(pc'[x], job[x])
  BY <1>3 DEF DropOrphan, Goto, StoreInv, ClientsTyped, Carried
<1> QED BY <1>2, <1>4 DEF StoreInv, ClientsTyped, Carried

LEMMA UpdateFailedKeeps ==
  ASSUME StoreInv, NEW c \in Clients, pc[c] \in {"update", "amend"}, UpdateFailed(c), StoreTyped'
  PROVE  StoreInv'
<1>1. CarriedAt("ensure", job[c]) /\ "ensure" \in Places
  BY DEF StoreInv, Carried, CarriedAt, Places
<1>2. CASE job[c].kind = "path"
  BY <1>1, <1>2, Gone DEF UpdateFailed
<1>3. CASE job[c].kind # "path"
  BY <1>3, Replied DEF UpdateFailed, Replies
<1> QED BY <1>2, <1>3

LEMMA UpdateKeeps ==
  ASSUME StoreInv, NEW c \in Clients, Update(c)
  PROVE  StoreInv'
<1> DEFINE found == DocsOf(job[c].file)
           j == [job[c] EXCEPT !.doc = First(found)]
<1>1. StoreTyped' /\ pc[c] = "update"
  BY DEF Update, StoreInv, StoreTyped, aside
<1>2. CASE UpdateFailed(c)
  BY <1>1, <1>2, UpdateFailedKeeps
<1>3. CASE found # {} /\ Goto(c, "amend") /\ job' = [job EXCEPT ![c].doc = First(found)]
  <2>1. /\ First(found) \in DocIds /\ First(found) # None
        /\ docs[First(found)] # None /\ docs[First(found)].file = job[c].file
    BY <1>3, FirstIn, NoneApart DEF DocsOf
  <2>2. job[c] \in Job /\ CarriedAt("update", job[c])
    BY <1>1 DEF StoreInv, ClientsTyped, Carried
  <2>3. job[c].file # None
    BY <2>1, NoneApart DEF StoreInv, StoreTyped, Document
  <2>6. j \in Job /\ j.doc = First(found) /\ j.content = job[c].content /\ j.kind = job[c].kind
        /\ j.file = job[c].file
    BY <2>1, <2>2 DEF Job
  <2>4. CarriedAt("amend", j) /\ "amend" \in Places
    BY <2>1, <2>2, <2>3, <2>6 DEF CarriedAt, Places
  <2>5. job' = [job EXCEPT ![c] = j]
    BY <1>3
  <2> QED BY <1>1, <1>3, <2>6, <2>4, <2>5, Moved DEF Goto
<1> QED BY <1>2, <1>3 DEF Update

LEMMA AmendKeeps ==
  ASSUME StoreInv, NEW c \in Clients, Amend(c)
  PROVE  StoreInv'
<1> DEFINE d == job[c].doc
<1>1. pc[c] = "amend" /\ d \in DocIds /\ job[c].content \in Contents
  BY DEF Amend, StoreInv, ClientsTyped, Carried, CarriedAt, Job
<1>2. CASE UpdateFailed(c) /\ UNCHANGED docs
  <2>1. StoreTyped'
    BY <1>2 DEF Amend, StoreInv, StoreTyped, aside
  <2> QED BY <1>1, <1>2, <2>1, UpdateFailedKeeps
<1>3. CASE docs[d] # None /\ Reply(c, "updated") /\ docs' = [docs EXCEPT ![d].hash = job[c].content]
  <2>1. docs[d] \in Document
    BY <1>1, <1>3 DEF StoreInv, StoreTyped
  <2>2. [docs[d] EXCEPT !.hash = job[c].content] \in Document
    BY <1>1, <2>1 DEF Document
  <2>3. docs' \in [DocIds -> Document \cup {None}]
    BY <1>3, <2>2 DEF StoreInv, StoreTyped
  <2>4. StoreTyped'
    BY <2>3 DEF Amend, StoreInv, StoreTyped, aside
  <2> QED BY <1>3, <2>4, Replied DEF Replies
<1> QED BY <1>2, <1>3 DEF Amend

LEMMA EnsureKeeps ==
  ASSUME StoreInv, NEW c \in Clients, Ensure(c)
  PROVE  StoreInv'
<1>1. PICK p \in {"put", "update", "dedup"} : Step(c, "ensure", p, job[c])
  BY DEF Ensure
<1>2. job[c] \in Job /\ CarriedAt("ensure", job[c])
  BY <1>1 DEF Step, StoreInv, ClientsTyped, Carried
<1>3. CarriedAt(p, job[c]) /\ p \in Places
  BY <1>2 DEF CarriedAt, Places
<1> QED BY <1>1, <1>2, <1>3, Stepped

\* A client that goes on with a file or document of its choice carries what it must.
LEMMA StoringKeeps ==
  ASSUME StoreInv, NEW c \in Clients, NEW p \in {"dedup", "named", "put", "describe"},
         NEW q \in {"describe", "record"}, CarriedAt(p, job[c])
  PROVE  /\ \A f \in FileRefs :
              [job[c] EXCEPT !.file = f] \in Job /\ CarriedAt(q, [job[c] EXCEPT !.file = f])
         /\ p = "describe" => \A d \in DocIds \cup {None} :
              [job[c] EXCEPT !.doc = d] \in Job /\ CarriedAt(q, [job[c] EXCEPT !.doc = d])
<1>1. job[c] \in Job
  BY DEF StoreInv, ClientsTyped
<1>2. ASSUME NEW f \in FileRefs
      PROVE  LET j == [job[c] EXCEPT !.file = f] IN j \in Job /\ CarriedAt(q, j)
  <2> DEFINE j == [job[c] EXCEPT !.file = f]
  <2>1. j \in Job /\ j.content = job[c].content /\ j.kind = job[c].kind /\ j.file # None
    BY <1>1, NoneApart DEF Job
  <2>2. CarriedAt(q, j)
    BY <2>1 DEF CarriedAt
  <2> QED BY <2>1, <2>2
<1>3. ASSUME p = "describe", NEW d \in DocIds \cup {None}
      PROVE  LET j == [job[c] EXCEPT !.doc = d] IN j \in Job /\ CarriedAt(q, j)
  <2> DEFINE j == [job[c] EXCEPT !.doc = d]
  <2>1. j \in Job /\ j.content = job[c].content /\ j.kind = job[c].kind /\ j.file = job[c].file
    BY <1>1 DEF Job
  <2>2. CarriedAt(q, j)
    BY <1>3, <2>1 DEF CarriedAt
  <2> QED BY <2>1, <2>2
<1> QED BY <1>2, <1>3

LEMMA DedupKeeps ==
  ASSUME StoreInv, NEW c \in Clients, Dedup(c)
  PROVE  StoreInv'
<1> DEFINE f == AsFile(First(WithHash(job[c].content)))
<1>1. job[c] \in Job /\ CarriedAt("dedup", job[c]) /\ {"describe", "named"} \subseteq Places
  BY DEF Dedup, Step, StoreInv, ClientsTyped, Carried, Places
<1>2. CASE Step(c, "dedup", "named", job[c])
  <2>1. CarriedAt("named", job[c])
    BY <1>1 DEF CarriedAt
  <2> QED BY <1>1, <1>2, <2>1, Stepped
<1>3. CASE WithHash(job[c].content) # {} /\ Step(c, "dedup", "describe", [job[c] EXCEPT !.file = f])
  <2>1. f \in FileRefs
    BY <1>3, FirstIn, NoneApart DEF WithHash
  <2> QED BY <1>1, <1>3, <2>1, StoringKeeps, Stepped
<1> QED BY <1>2, <1>3 DEF Dedup

LEMMA DedupByNameKeeps ==
  ASSUME StoreInv, NEW c \in Clients, DedupByName(c)
  PROVE  StoreInv'
<1>1. /\ pc[c] = "named" /\ job[c] \in Job /\ CarriedAt("named", job[c])
      /\ {"describe", "put"} \subseteq Places
  BY DEF DedupByName, StoreInv, ClientsTyped, Carried, Places
<1>2. CASE Goto(c, "put") /\ UNCHANGED <<job, mistaken>>
  <2>1. CarriedAt("put", job[c])
    BY <1>1 DEF CarriedAt
  <2>2. StoreTyped'
    BY <1>2 DEF DedupByName, StoreInv, StoreTyped
  <2> QED BY <1>1, <1>2, <2>1, <2>2, Gone
<1>3. ASSUME NEW f \in FileIds, Goto(c, "describe"), job' = [job EXCEPT ![c].file = f],
             mistaken' = IF files[f] = job[c].content THEN mistaken ELSE mistaken \cup {f}
      PROVE  StoreInv'
  <2>1. PICK j : j = [job[c] EXCEPT !.file = f]
    OBVIOUS
  <2>2. j \in Job /\ CarriedAt("describe", j)
    BY <1>1, <2>1, StoringKeeps, NoneApart
  <2>3. StoreTyped'
    BY <1>3 DEF DedupByName, StoreInv, StoreTyped
  <2> QED BY <1>1, <1>3, <2>1, <2>2, <2>3, Moved DEF Goto
<1> QED BY <1>2, <1>3 DEF DedupByName

LEMMA DescribeKeeps ==
  ASSUME StoreInv, NEW c \in Clients, Describe(c)
  PROVE  StoreInv'
<1> DEFINE found == DocsOf(job[c].file)
           d == IF found = {} THEN None ELSE First(found)
<1>1. CarriedAt("describe", job[c]) /\ "record" \in Places
  BY DEF Describe, Step, StoreInv, Carried, Places
<1>2. d \in DocIds \cup {None}
  BY FirstIn DEF DocsOf
<1>3. Step(c, "describe", "record", [job[c] EXCEPT !.doc = d])
  BY DEF Describe
<1> HIDE DEF d
<1> QED BY <1>1, <1>2, <1>3, StoringKeeps, Stepped

\* A file with the next id leaves the store in its type.
LEMMA StoredTyped ==
  ASSUME StoreInv, NEW c \in Clients, job[c].content \in Contents, nfiles < MaxFiles, nfiles' = nfiles + 1,
         files' = [files EXCEPT ![nfiles + 1] = job[c].content], faults' \in Nat,
         UNCHANGED <<docs, ndocs, aside>>
  PROVE  StoreTyped' /\ nfiles + 1 \in FileIds
BY NoneApart DEF aside, StoreInv, StoreTyped, FileIds

LEMMA PutKeeps ==
  ASSUME StoreInv, NEW c \in Clients, Put(c) \/ PutUnanswered(c)
  PROVE  StoreInv'
<1>1. pc[c] = "put" /\ job[c] \in Job /\ CarriedAt("put", job[c])
  BY DEF Put, PutUnanswered, StoreInv, ClientsTyped, Carried
<1>2. job[c].content \in Contents /\ "describe" \in Places
  BY <1>1 DEF CarriedAt, Job, Places
<1>3. CASE Put(c) /\ nfiles' = nfiles + 1
  <2> DEFINE j == [job[c] EXCEPT !.file = nfiles + 1]
  <2>0. nfiles + 1 # nfiles
    BY NoneApart DEF StoreInv, StoreTyped
  <2>1. /\ nfiles < MaxFiles /\ files' = [files EXCEPT ![nfiles + 1] = job[c].content]
        /\ Goto(c, "describe") /\ job' = [job EXCEPT ![c].file = nfiles + 1]
    BY <1>3, <2>0 DEF Put
  <2>2. StoreTyped' /\ nfiles + 1 \in FileIds /\ nfiles + 1 \in FileRefs
    BY NoneApart, <1>2, <1>3, <2>1, StoredTyped DEF Put, aside, StoreInv, StoreTyped
  <2>3. j \in Job /\ CarriedAt("describe", j)
    BY <1>1, <2>2, StoringKeeps
  <2>4. job' = [job EXCEPT ![c] = j]
    BY <2>1
  <2> QED BY <1>2, <2>1, <2>2, <2>3, <2>4, Moved DEF Goto
<1>4. CASE Put(c) /\ UNCHANGED <<files, nfiles>>
  <2>1. StoreTyped'
    BY <1>4 DEF Put, aside, StoreInv, StoreTyped
  <2>2. CASE NoBucket(c)
    BY <1>1, <2>1, <2>2, NoBucketKeeps
  <2>3. CASE Reply(c, "failed")
    BY <2>1, <2>3, Replied DEF Replies
  <2>4. nfiles + 1 # nfiles
    BY NoneApart DEF StoreInv, StoreTyped
  <2> QED BY <1>4, <2>2, <2>3, <2>4 DEF Put
<1>5. CASE PutUnanswered(c)
  <2>1. faults' \in Nat
    BY <1>5 DEF PutUnanswered, StoreInv, StoreTyped
  <2>2. StoreTyped'
    BY <1>2, <1>5, <2>1, StoredTyped DEF PutUnanswered, aside
  <2> QED BY <1>5, <2>2, Replied DEF PutUnanswered, Replies
<1> QED BY <1>3, <1>4, <1>5 DEF Put
LEMMA RecordKeeps ==
  ASSUME StoreInv, NEW c \in Clients, Record(c)
  PROVE  StoreInv'
<1> DEFINE new == [file |-> job[c].file, hash |-> job[c].content]
<1>1. job[c] \in Job /\ CarriedAt("record", job[c])
  BY DEF Record, StoreInv, ClientsTyped, Carried
<1>2. new \in Document
  BY <1>1 DEF CarriedAt, Job, Document
<1>3. /\ docs' \in [DocIds -> Document \cup {None}] /\ ndocs' \in 0..MaxDocs
      /\ UNCHANGED <<files, nfiles, aside, faults>>
  BY <1>2, NoneApart DEF Record, StoreInv, StoreTyped, DocIds
<1>4. StoreTyped'
  BY <1>3 DEF aside, StoreInv, StoreTyped
<1>5. PICK r \in Replies : Reply(c, r)
  BY DEF Record, Replies
<1> QED BY <1>4, <1>5, Replied

LEMMA RemoveKeeps ==
  ASSUME StoreInv, NEW c \in Clients, Remove(c)
  PROVE  StoreInv'
<1> DEFINE f == job[c].file
<1>1. pc[c] = "remove" /\ CarriedAt("remove", job[c]) /\ f \in FileIds
  BY DEF Remove, StoreInv, ClientsTyped, Carried, CarriedAt, Job
<1>2. CASE /\ files' = [files EXCEPT ![f] = None] /\ Goto(c, "page")
           /\ job' = [x \in Clients |-> [job[x] EXCEPT !.gone = @ \cup {f}]]
  <2>1. StoreTyped'
    BY <1>1, <1>2 DEF Remove, aside, StoreInv, StoreTyped
  <2>2. ASSUME NEW x \in Clients
        PROVE  /\ job'[x] \in Job /\ job'[x].file = job[x].file /\ job'[x].kind = job[x].kind
               /\ \A p \in Places : CarriedAt(p, job[x]) => CarriedAt(p, job'[x])
    <3> DEFINE j == [job[x] EXCEPT !.gone = job[x].gone \cup {f}]
    <3>1. job[x] \in Job
      BY DEF StoreInv, ClientsTyped
    <3>2. /\ j \in Job /\ j.kind = job[x].kind /\ j.content = job[x].content /\ j.file = job[x].file
          /\ j.doc = job[x].doc /\ j.try = job[x].try
      BY <1>1, <3>1 DEF Job
    <3>3. \A p \in Places : CarriedAt(p, job[x]) => CarriedAt(p, j)
      BY <3>2 DEF CarriedAt
    <3> QED BY <1>2, <3>2, <3>3
  <2>3. CarriedAt("page", job[c]) /\ "page" \in Places
    BY <1>1 DEF CarriedAt, Places
  <2>4. pc' \in [Clients -> Places] /\ \A x \in Clients : CarriedAt(pc'[x], job[x])
    BY <1>2, <2>3 DEF Goto, StoreInv, ClientsTyped, Carried
  <2>5. job' \in [Clients -> Job]
    BY <1>2, <2>2
  <2> QED BY <2>1, <2>2, <2>4, <2>5 DEF StoreInv, ClientsTyped, Carried
<1>3. CASE Reply(c, "failed") /\ UNCHANGED files
  <2>1. StoreTyped'
    BY <1>3 DEF Remove, aside, StoreInv, StoreTyped
  <2> QED BY <1>3, <2>1, Replied DEF Replies
<1> QED BY <1>2, <1>3 DEF Remove

LEMMA PageKeeps ==
  ASSUME StoreInv, NEW c \in Clients, Page(c)
  PROVE  StoreInv'
<1> DEFINE page == PageAt(Matching(job[c].file), job[c].offset)
           more == [job[c] EXCEPT !.got = @ \cup page, !.offset = @ + PageLimit]
           last == [more EXCEPT !.reply = "found"]
<1>1. pc[c] = "page" /\ job[c] \in Job /\ CarriedAt("page", job[c])
      /\ {"page", "purge", "idle"} \subseteq Places
  BY DEF Page, Step, StoreInv, ClientsTyped, Carried, Places
<1>2. page \subseteq DocIds /\ PageLimit \in Nat
  BY StoreAssumption DEF PageAt, Matching, DocsOf
<1>3. /\ more \in Job /\ more.kind = job[c].kind /\ more.file = job[c].file
  <2>1. job[c].got \cup page \in SUBSET DocIds /\ job[c].offset + PageLimit \in Nat
    BY <1>1, <1>2 DEF Job
  <2> DEFINE S == job[c].got \cup page
             n == job[c].offset + PageLimit
  <2>2. more = [job[c] EXCEPT !.got = S, !.offset = n]
    OBVIOUS
  <2> HIDE DEF S, n, page
  <2> QED BY <1>1, <2>1, <2>2 DEF Job
<1>4. last \in Job
  BY <1>3 DEF Job, Replies
<1>5. CarriedAt("page", more) /\ (job[c].kind = "delete" => CarriedAt("purge", more)) /\ CarriedAt("idle", last)
  BY <1>1, <1>3 DEF CarriedAt
<1>6. \/ Step(c, "page", "page", more)
      \/ job[c].kind = "delete" /\ Step(c, "page", "purge", more)
      \/ Step(c, "page", "idle", last)
  BY DEF Page
<1> HIDE DEF more, last
<1> QED BY <1>1, <1>3, <1>4, <1>5, <1>6, Stepped

\* One document fewer to delete.
LEMMA PurgedKeeps ==
  ASSUME NEW j \in Job, CarriedAt("purge", j), NEW d
  PROVE  [j EXCEPT !.got = @ \ {d}] \in Job /\ CarriedAt("purge", [j EXCEPT !.got = @ \ {d}])
<1> DEFINE k == [j EXCEPT !.got = @ \ {d}]
<1>1. k \in Job /\ k.kind = j.kind /\ k.file = j.file
  BY DEF Job
<1>2. CarriedAt("purge", k)
  BY <1>1 DEF CarriedAt
<1> QED BY <1>1, <1>2

LEMMA PurgeKeeps ==
  ASSUME StoreInv, NEW c \in Clients, Purge(c)
  PROVE  StoreInv'
<1>1. pc[c] = "purge" /\ job[c] \in Job /\ CarriedAt("purge", job[c]) /\ "purge" \in Places
  BY DEF Purge, StoreInv, ClientsTyped, Carried, Places
<1> DEFINE d == First(job[c].got)
<1>2. CASE job[c].got # {} /\ Erase(d) /\ job' = [Disturbed(d) EXCEPT ![c].got = @ \ {d}] /\ UNCHANGED pc
  <2>1. d \in DocIds
    BY <1>1, <1>2, FirstIn DEF Job
  <2>2. /\ StoreTyped' /\ Disturbed(d) \in [Clients -> Job]
        /\ \A x \in Clients, p \in Places : CarriedAt(p, job[x]) => CarriedAt(p, Disturbed(d)[x])
    BY <1>2, <2>1, EraseKeeps DEF Purge, aside, StoreInv, StoreTyped
  <2> DEFINE j == Disturbed(d)[c]
             k == [j EXCEPT !.got = @ \ {d}]
  <2>3. k \in Job /\ CarriedAt("purge", k)
    BY <1>1, <2>2, PurgedKeeps
  <2>4. job' = [Disturbed(d) EXCEPT ![c] = k]
    BY <1>2
  <2> HIDE DEF k
  <2>5. job' \in [Clients -> Job] /\ \A x \in Clients : CarriedAt(pc[x], job'[x])
    BY <1>1, <2>2, <2>3, <2>4 DEF StoreInv, ClientsTyped, Carried
  <2> QED BY <1>2, <2>2, <2>5 DEF StoreInv, ClientsTyped, Carried
<1>3. CASE Reply(c, "deleted") /\ UNCHANGED docs
  <2>1. StoreTyped'
    BY <1>3 DEF Purge, aside, StoreInv, StoreTyped
  <2> QED BY <1>3, <2>1, Replied DEF Replies
<1> QED BY <1>2, <1>3 DEF Purge

LEMMA FailKeeps ==
  ASSUME StoreInv, NEW c \in Clients, Fail(c)
  PROVE  StoreInv'
<1>1. StoreTyped'
  BY DEF Fail, aside, StoreInv, StoreTyped
<1>2. pc[c] \in Places /\ job[c] \in Job /\ CarriedAt(pc[c], job[c]) /\ Cope(c)
  BY DEF Fail, StoreInv, ClientsTyped, Carried
<1>3. CASE /\ pc[c] \in {"find", "ensure", "dedup", "named", "drop"}
           /\ \E q \in {"ensure", "put", "dedup", "named"} : Goto(c, q) /\ UNCHANGED job
  <2>1. \A q \in {"ensure", "put", "dedup", "named"} : q \in Places /\ CarriedAt(q, job[c])
    BY <1>2, <1>3 DEF CarriedAt, Places
  <2> QED BY <1>1, <1>3, <2>1, Gone
<1>4. CASE pc[c] \in {"update", "amend"} /\ UpdateFailed(c)
  BY <1>1, <1>4, UpdateFailedKeeps
<1>5. CASE pc[c] = "purge" /\ job' = [job EXCEPT ![c].got = @ \ {First(@)}] /\ UNCHANGED pc
  <2> DEFINE k == [job[c] EXCEPT !.got = @ \ {First(job[c].got)}]
  <2>1. k \in Job /\ CarriedAt("purge", k) /\ "purge" \in Places
    BY <1>2, <1>5, PurgedKeeps DEF Places
  <2>2. job' = [job EXCEPT ![c] = k] /\ pc' = [pc EXCEPT ![c] = "purge"]
    BY <1>5 DEF StoreInv, ClientsTyped
  <2> HIDE DEF k
  <2> QED BY <1>1, <2>1, <2>2, Moved
<1>6. CASE pc[c] = "provision" /\ Again(c)
  BY <1>1, <1>6, AgainMoves, Moved DEF Places
<1>7. CASE \E r \in Replies : Reply(c, r)
  BY <1>1, <1>7, Replied
<1> QED BY <1>2, <1>3, <1>4, <1>5, <1>6, <1>7 DEF Cope, Replies, Places

-------------------------------------------------------------------------------
(* The type theorem. *)

LEMMA StoreInvInit == Init => StoreInv
<1> SUFFICES ASSUME Init PROVE StoreInv
  OBVIOUS
<1>1. StoreTyped
  BY NoneApart DEF Init, StoreTyped, Shelf
<1>2. Idle \in Job /\ CarriedAt("idle", Idle) /\ "idle" \in Places
  BY DEF Idle, Job, Kinds, Replies, CarriedAt, Places
<1> QED BY <1>1, <1>2 DEF Init, StoreInv, ClientsTyped, Carried

LEMMA StoreInvStep == StoreInv /\ [Next]_vars => StoreInv'
<1> SUFFICES ASSUME StoreInv, [Next]_vars PROVE StoreInv'
  OBVIOUS
<1>1. CASE UNCHANGED vars
  BY <1>1 DEF vars, aside, StoreInv, StoreTyped, ClientsTyped, Carried
<1>2. ASSUME NEW c \in Clients,
             \/ \E h \in Contents, kind \in {"path", "bytes"} : Upload(c, kind, h)
             \/ \E f \in FileIds : DeletePrediction(c, f)
             \/ SearchFiles(c)
      PROVE  StoreInv'
  BY <1>2, BeginKeeps
<1>3. ASSUME NEW c \in Clients,
             \/ Provision(c) \/ ProvisionBucket(c) \/ FindByHash(c) \/ Verify(c) \/ DropOrphan(c)
             \/ Update(c) \/ Amend(c) \/ Ensure(c) \/ Dedup(c) \/ DedupByName(c) \/ Put(c)
      PROVE  StoreInv'
  BY <1>3, ProvisionKeeps, FindByHashKeeps, VerifyKeeps, DropOrphanKeeps, UpdateKeeps, AmendKeeps,
     EnsureKeeps, DedupKeeps, DedupByNameKeeps, PutKeeps
<1>4. ASSUME NEW c \in Clients,
             \/ Describe(c) \/ Record(c) \/ Remove(c) \/ Page(c) \/ Purge(c) \/ Fail(c) \/ PutUnanswered(c)
      PROVE  StoreInv'
  BY <1>4, DescribeKeeps, RecordKeeps, RemoveKeeps, PageKeeps, PurgeKeeps, FailKeeps, PutKeeps
<1> QED BY <1>1, <1>2, <1>3, <1>4 DEF Next

LEMMA StoreInvHolds == Spec => []StoreInv
  BY StoreInvInit, StoreInvStep, PTL DEF Spec

\* The store and the operations on it keep their types, for any number of clients.
THEOREM StoreTypesHold == Spec => []TypeOK
<1>1. StoreInv => TypeOK
  BY DEF StoreInv, StoreTyped, ClientsTyped, TypeOK
<1> QED BY <1>1, StoreInvHolds, PTL
-------------------------------------------------------------------------------
(* Why metadata of a file that exists is never deleted.  What a client has      *)
(* learnt of ids handed out stays true: an id is never used again, a document   *)
(* never changes its file, and a file that is gone does not come back.          *)

\* What client job j relies on at place p, in a store (fs, ds) with nf and nd ids used.
RestsOn(fs, ds, nf, nd, p, j) ==
    /\ j.file \in FileIds => j.file <= nf
    /\ j.doc # None => j.doc <= nd
    /\ \A d \in j.got : d <= nd
    /\ p = "remove" => j.got = {}
    /\ p \in {"verify", "drop", "amend", "record"} /\ j.doc # None
           => ds[j.doc] = None \/ ds[j.doc].file = j.file
    /\ p = "drop" /\ j.file \in FileIds /\ ~StrayMessages => fs[j.file] = None
    /\ p \in {"page", "purge"} /\ j.kind = "delete"
           => /\ fs[j.file] = None
              /\ \A d \in j.got : ds[d] = None \/ ds[d].file = j.file

Issued ==
    /\ \A f \in FileIds : files[f] # None => f <= nfiles
    /\ \A d \in DocIds : docs[d] # None =>
           d <= ndocs /\ (docs[d].file \in FileIds => docs[d].file <= nfiles)

Links ==
    Issued /\ \A c \in Clients : RestsOn(files, docs, nfiles, ndocs, pc[c], job[c])

\* How the store may change for that.
Ages ==
    /\ nfiles' \in Nat /\ nfiles <= nfiles' /\ ndocs' \in Nat /\ ndocs <= ndocs'
    /\ \A f \in FileIds : f <= nfiles /\ files[f] = None => files'[f] = None
    /\ \A d \in DocIds : d <= ndocs =>
           docs'[d] = None \/ (docs[d] # None /\ docs'[d].file = docs[d].file)

LinkInv == StoreInv /\ Links

\* What a client relied on stays true while the store ages.
LEMMA StillRests ==
  ASSUME StoreInv, Ages, NEW p \in Places, NEW j \in Job, CarriedAt(p, j),
         RestsOn(files, docs, nfiles, ndocs, p, j)
  PROVE  RestsOn(files', docs', nfiles', ndocs', p, j)
<1>0. /\ nfiles \in Nat /\ ndocs \in Nat /\ nfiles' \in Nat /\ ndocs' \in Nat
      /\ nfiles <= nfiles' /\ ndocs <= ndocs' /\ FileIds \subseteq Nat /\ DocIds \subseteq Nat
  BY NoneApart DEF Ages, StoreInv, StoreTyped, FileIds, DocIds
<1>1. j.doc \in DocIds \cup {None} /\ j.got \subseteq DocIds
  BY DEF Job
<1>2. /\ j.file \in FileIds => j.file <= nfiles /\ j.file <= nfiles'
      /\ j.doc # None => j.doc <= ndocs /\ j.doc <= ndocs'
      /\ \A d \in j.got : d <= ndocs /\ d <= ndocs'
  <2>1. /\ j.file \in FileIds => j.file <= nfiles
        /\ j.doc # None => j.doc <= ndocs
        /\ \A d \in j.got : d <= ndocs
    BY DEF RestsOn
  <2>2. j.file \in FileIds => j.file \in Nat
    BY <1>0
  <2>3. j.doc # None => j.doc \in Nat
    BY <1>0, <1>1
  <2>4. \A d \in j.got : d \in Nat
    BY <1>0, <1>1
  <2> QED BY <1>0, <2>1, <2>2, <2>3, <2>4
<1>3. /\ \A f \in FileIds : f <= nfiles /\ files[f] = None => files'[f] = None
      /\ \A d \in DocIds : d <= ndocs =>
             docs'[d] = None \/ (docs[d] # None /\ docs'[d].file = docs[d].file)
  BY DEF Ages
<1>4. p \in {"page", "purge"} /\ j.kind = "delete" => j.file \in FileIds
  BY DEF CarriedAt
<1> QED BY <1>1, <1>2, <1>3, <1>4 DEF RestsOn

\* One client moves; the others, at most, learn that a document or a file is gone.
LEMMA LinkedMove ==
  ASSUME LinkInv, StoreInv', Ages, Issued', NEW c \in Clients,
         RestsOn(files', docs', nfiles', ndocs', pc'[c], job'[c]),
         \A x \in Clients \ {c} :
             /\ pc'[x] = pc[x] /\ job'[x].file = job[x].file /\ job'[x].doc = job[x].doc
             /\ job'[x].got = job[x].got /\ job'[x].kind = job[x].kind
  PROVE  LinkInv'
<1>1. ASSUME NEW x \in Clients \ {c}
      PROVE  RestsOn(files', docs', nfiles', ndocs', pc'[x], job'[x])
  <2>1. pc[x] \in Places /\ job[x] \in Job /\ CarriedAt(pc[x], job[x])
        /\ RestsOn(files, docs, nfiles, ndocs, pc[x], job[x])
    BY <1>1 DEF LinkInv, StoreInv, ClientsTyped, Carried, Links
  <2>2. RestsOn(files', docs', nfiles', ndocs', pc[x], job[x])
    BY <2>1, StillRests DEF LinkInv
  <2> QED BY <1>1, <2>2 DEF RestsOn
<1> QED BY <1>1 DEF LinkInv, Links

\* A store that did not change has aged.
LEMMA SameAges ==
  ASSUME LinkInv, UNCHANGED <<files, docs, nfiles, ndocs>>
  PROVE  Ages /\ Issued'
<1>1. nfiles \in Nat /\ ndocs \in Nat
  BY NoneApart DEF LinkInv, StoreInv, StoreTyped
<1> QED BY <1>1 DEF Ages, Issued, LinkInv, Links
LEMMA LinkedReply ==
  ASSUME LinkInv, StoreInv', Ages, Issued', NEW c \in Clients, NEW r \in Replies, Reply(c, r)
  PROVE  LinkInv'
<1>1. pc[c] \in Places /\ job[c] \in Job /\ CarriedAt(pc[c], job[c])
      /\ RestsOn(files, docs, nfiles, ndocs, pc[c], job[c])
  BY DEF LinkInv, StoreInv, ClientsTyped, Carried, Links
<1>2. RestsOn(files', docs', nfiles', ndocs', pc[c], job[c])
  BY <1>1, StillRests DEF LinkInv
<1> DEFINE a == [job[c] EXCEPT !.doc = None, !.try = 1, !.reply = r]
           b == [Idle EXCEPT !.kind = job[c].kind, !.reply = r]
<1>3. a.file = job[c].file /\ a.doc = None /\ a.got = job[c].got
  BY <1>1 DEF Job
<1>4. b.file = None /\ b.doc = None /\ b.got = {}
  BY DEF Idle
<1>5. /\ RestsOn(files', docs', nfiles', ndocs', "idle", a)
      /\ RestsOn(files', docs', nfiles', ndocs', "idle", b)
  BY <1>2, <1>3, <1>4, NoneApart DEF RestsOn
<1>6. pc'[c] = "idle" /\ job'[c] \in {a, b} /\ \A x \in Clients \ {c} : pc'[x] = pc[x] /\ job'[x] = job[x]
  BY DEF Reply, Goto, LinkInv, StoreInv, ClientsTyped
<1> HIDE DEF a, b
<1>7. RestsOn(files', docs', nfiles', ndocs', pc'[c], job'[c])
  BY <1>5, <1>6
<1> QED BY <1>6, <1>7, LinkedMove

LEMMA LinkedStep ==
  ASSUME LinkInv, StoreInv', NEW c \in Clients, NEW p, NEW q \in Places, NEW j \in Job, Step(c, p, q, j),
         RestsOn(files, docs, nfiles, ndocs, q, j)
  PROVE  LinkInv'
<1>1. /\ pc'[c] = q /\ job'[c] = j /\ \A x \in Clients \ {c} : pc'[x] = pc[x] /\ job'[x] = job[x]
      /\ UNCHANGED <<files, docs, nfiles, ndocs>>
  BY DEF Step, Goto, LinkInv, StoreInv, ClientsTyped
<1>2. RestsOn(files', docs', nfiles', ndocs', pc'[c], job'[c])
  BY <1>1
<1> QED BY <1>1, <1>2, SameAges, LinkedMove

\* Places where a client relies on no more than the ids being used ones.
Resting == Places \ {"verify", "drop", "amend", "record", "remove", "page", "purge"}

LEMMA LinkedGoto ==
  ASSUME LinkInv, StoreInv', Ages, Issued', NEW c \in Clients, NEW q \in Resting,
         Goto(c, q), UNCHANGED job
  PROVE  LinkInv'
<1>1. pc[c] \in Places /\ job[c] \in Job /\ CarriedAt(pc[c], job[c])
      /\ RestsOn(files, docs, nfiles, ndocs, pc[c], job[c])
  BY DEF LinkInv, StoreInv, ClientsTyped, Carried, Links
<1>2. RestsOn(files', docs', nfiles', ndocs', pc[c], job[c])
  BY <1>1, StillRests DEF LinkInv
<1>3. pc'[c] = q /\ \A x \in Clients \ {c} : pc'[x] = pc[x]
  BY DEF Goto, LinkInv, StoreInv, ClientsTyped
<1>4. RestsOn(files', docs', nfiles', ndocs', pc'[c], job'[c])
  BY <1>2, <1>3 DEF RestsOn, Resting
<1> QED BY <1>3, <1>4, LinkedMove

LEMMA LinkedAgain ==
  ASSUME LinkInv, StoreInv', UNCHANGED <<files, docs, nfiles, ndocs>>, NEW c \in Clients, Again(c)
  PROVE  LinkInv'
<1> DEFINE j == [job[c] EXCEPT !.try = 2, !.doc = None, !.file = None]
<1>1. job[c] \in Job /\ RestsOn(files, docs, nfiles, ndocs, pc[c], job[c])
  BY DEF LinkInv, StoreInv, ClientsTyped, Links
<1>2. j.file = None /\ j.doc = None /\ j.got = job[c].got
  BY <1>1 DEF Job
<1>3. RestsOn(files, docs, nfiles, ndocs, "find", j)
  BY <1>1, <1>2, NoneApart DEF RestsOn
<1>4. pc'[c] = "find" /\ job'[c] = j /\ \A x \in Clients \ {c} : pc'[x] = pc[x] /\ job'[x] = job[x]
  BY DEF Again, Goto, LinkInv, StoreInv, ClientsTyped
<1> HIDE DEF j
<1>5. RestsOn(files', docs', nfiles', ndocs', pc'[c], job'[c])
  BY <1>3, <1>4
<1> QED BY <1>4, <1>5, SameAges, LinkedMove

LEMMA LinkedUpdateFailed ==
  ASSUME LinkInv, StoreInv', UNCHANGED <<files, docs, nfiles, ndocs>>, NEW c \in Clients,
         UpdateFailed(c) \/ NoBucket(c)
  PROVE  LinkInv'
<1>1. {"ensure", "provision"} \subseteq Resting
  BY DEF Resting, Places
<1>2. \/ \E r \in Replies : Reply(c, r)
      \/ \E q \in Resting : Goto(c, q) /\ UNCHANGED job
  BY <1>1 DEF UpdateFailed, NoBucket, Replies
<1> QED BY <1>2, SameAges, LinkedReply, LinkedGoto

LEMMA BeginLinked ==
  ASSUME LinkInv, StoreInv', NEW c \in Clients,
         \/ \E h \in Contents, kind \in {"path", "bytes"} : Upload(c, kind, h)
         \/ \E f \in FileIds : DeletePrediction(c, f)
         \/ SearchFiles(c)
  PROVE  LinkInv'
<1>0. Idle \in Job /\ {"find", "remove", "page"} \subseteq Places
  BY DEF Idle, Job, Kinds, Replies, Places
<1>1. ASSUME NEW h \in Contents, NEW kind \in {"path", "bytes"}, Upload(c, kind, h) PROVE LinkInv'
  <2> DEFINE j == [Idle EXCEPT !.kind = kind, !.content = h]
  <2>1. j \in Job /\ j.file = None /\ j.doc = None /\ j.got = {}
    BY <1>0 DEF Idle, Job, Kinds
  <2>2. RestsOn(files, docs, nfiles, ndocs, "find", j)
    BY <2>1, NoneApart DEF RestsOn
  <2>3. Step(c, "idle", "find", j)
    BY <1>1 DEF Upload, Begin
  <2> HIDE DEF j
  <2> QED BY <1>0, <2>1, <2>2, <2>3, LinkedStep
<1>2. ASSUME NEW f \in FileIds, DeletePrediction(c, f) PROVE LinkInv'
  <2> DEFINE j == [Idle EXCEPT !.kind = "delete", !.file = f]
  <2>1. j \in Job /\ j.file = f /\ j.doc = None /\ j.got = {}
    BY <1>0, NoneApart DEF Idle, Job, Kinds
  <2>2. RestsOn(files, docs, nfiles, ndocs, "remove", j)
    BY <1>2, <2>1 DEF RestsOn, DeletePrediction
  <2>3. Step(c, "idle", "remove", j)
    BY <1>2 DEF DeletePrediction, Begin
  <2> HIDE DEF j
  <2> QED BY <1>0, <2>1, <2>2, <2>3, LinkedStep
<1>3. CASE SearchFiles(c)
  <2> DEFINE j == [Idle EXCEPT !.since = Matching(None)]
  <2>1. Matching(None) \subseteq DocIds
    BY DEF Matching
  <2>2. j \in Job /\ j.file = None /\ j.doc = None /\ j.got = {} /\ j.kind = "search"
    BY <1>0, <2>1 DEF Idle, Job
  <2>3. RestsOn(files, docs, nfiles, ndocs, "page", j)
    BY <2>2, NoneApart DEF RestsOn
  <2>4. Step(c, "idle", "page", j)
    BY <1>3 DEF SearchFiles, Begin
  <2> HIDE DEF j
  <2> QED BY <1>0, <2>2, <2>3, <2>4, LinkedStep
<1> QED BY <1>1, <1>2, <1>3

LEMMA ProvisionLinked ==
  ASSUME LinkInv, StoreInv', NEW c \in Clients, Provision(c) \/ ProvisionBucket(c)
  PROVE  LinkInv'
<1>1. UNCHANGED <<files, docs, nfiles, ndocs>>
  BY DEF Provision, ProvisionBucket
<1>2. CASE UNCHANGED <<pc, job>>
  BY <1>1, <1>2 DEF LinkInv, Links, Issued
<1>3. CASE Again(c)
  BY <1>1, <1>3, LinkedAgain
<1>4. CASE \E r \in Replies : Reply(c, r)
  BY <1>1, <1>4, SameAges, LinkedReply
<1> QED BY <1>2, <1>3, <1>4 DEF Provision, ProvisionBucket, Replies

LEMMA FindByHashLinked ==
  ASSUME LinkInv, StoreInv', NEW c \in Clients, FindByHash(c)
  PROVE  LinkInv'
<1> DEFINE hits == WithHash(job[c].content)
<1>0. job[c] \in Job /\ {"verify", "ensure"} \subseteq Places
      /\ RestsOn(files, docs, nfiles, ndocs, pc[c], job[c])
  BY DEF LinkInv, StoreInv, ClientsTyped, Places, Links
<1>2. CASE Step(c, "find", "ensure", job[c])
  <2>1. RestsOn(files, docs, nfiles, ndocs, "ensure", job[c])
    BY <1>0 DEF RestsOn
  <2> QED BY <1>0, <1>2, <2>1, LinkedStep
<1>3. CASE hits # {}
  <2> DEFINE d == First(hits)
             j == [job[c] EXCEPT !.doc = d, !.file = docs[d].file]
  <2>1. d \in DocIds /\ docs[d] # None
    BY <1>3, FirstIn DEF WithHash
  <2>2. /\ docs[d].file \in FileRefs /\ d <= ndocs
        /\ docs[d].file \in FileIds => docs[d].file <= nfiles
    BY <2>1, NoneApart DEF LinkInv, Links, Issued, StoreInv, StoreTyped, Document
  <2>3. j \in Job /\ j.doc = d /\ j.file = docs[d].file /\ j.got = job[c].got
    BY <1>0, <2>1, <2>2 DEF Job
  <2>4. /\ RestsOn(files, docs, nfiles, ndocs, "verify", j)
        /\ RestsOn(files, docs, nfiles, ndocs, "ensure", j)
    BY <1>0, <2>2, <2>3 DEF RestsOn
  <2>5. CASE Step(c, "find", IF job[c].kind = "path" THEN "verify" ELSE "ensure", j)
    <3> HIDE DEF j
    <3> QED BY <1>0, <2>3, <2>4, <2>5, LinkedStep
  <2> QED BY <1>2, <1>3, <2>5 DEF FindByHash
<1> QED BY <1>2, <1>3 DEF FindByHash

\* The orphan gate learns that the file is gone.
LEMMA VerifyLinked ==
  ASSUME LinkInv, StoreInv', NEW c \in Clients, Verify(c)
  PROVE  LinkInv'
<1>0. /\ pc[c] = "verify" /\ UNCHANGED <<files, docs, nfiles, ndocs>>
      /\ {"update", "ensure"} \subseteq Resting
  BY DEF Verify, Resting, Places
<1>1. CASE \E a \in Answers(job[c].file) : GenuinelyGone(a) /\ Goto(c, "drop") /\ UNCHANGED job
  <2>1. job[c].file \in FileIds /\ ~StrayMessages => files[job[c].file] = None
    BY <1>1 DEF Answers, Faulty, GenuinelyGone, Alive
  <2>2. RestsOn(files, docs, nfiles, ndocs, "verify", job[c])
    BY <1>0 DEF LinkInv, Links
  <2>3. RestsOn(files', docs', nfiles', ndocs', "drop", job'[c])
    BY <1>0, <1>1, <2>1, <2>2 DEF RestsOn
  <2>4. pc'[c] = "drop" /\ \A x \in Clients \ {c} : pc'[x] = pc[x] /\ job'[x] = job[x]
    BY <1>1 DEF Goto, LinkInv, StoreInv, ClientsTyped
  <2> QED BY <1>0, <2>3, <2>4, SameAges, LinkedMove
<1>2. CASE \E q \in {"update", "ensure"} : Goto(c, q) /\ UNCHANGED job
  BY <1>0, <1>2, SameAges, LinkedGoto
<1>3. CASE NoBucket(c)
  BY <1>0, <1>3, LinkedUpdateFailed
<1>4. CASE Reply(c, "refused")
  BY <1>0, <1>4, SameAges, LinkedReply DEF Replies
<1> QED BY <1>1, <1>2, <1>3, <1>4 DEF Verify
\* A deleted document: the store has aged, and clients have learnt no more than that.
LEMMA EraseAges ==
  ASSUME LinkInv, NEW d \in DocIds, Erase(d), UNCHANGED <<files, nfiles, ndocs>>
  PROVE  /\ Ages /\ Issued'
         /\ \A x \in Clients : /\ Disturbed(d)[x].file = job[x].file /\ Disturbed(d)[x].doc = job[x].doc
                               /\ Disturbed(d)[x].got = job[x].got /\ Disturbed(d)[x].kind = job[x].kind
<1>1. nfiles \in Nat /\ ndocs \in Nat /\ docs \in [DocIds -> Document \cup {None}]
  BY NoneApart DEF LinkInv, StoreInv, StoreTyped
<1>2. \A e \in DocIds : docs'[e] \in {docs[e], None}
  BY <1>1 DEF Erase
<1>3. ASSUME NEW x \in Clients
      PROVE  /\ Disturbed(d)[x].file = job[x].file /\ Disturbed(d)[x].doc = job[x].doc
             /\ Disturbed(d)[x].got = job[x].got /\ Disturbed(d)[x].kind = job[x].kind
  <2>1. job[x] \in Job
    BY DEF LinkInv, StoreInv, ClientsTyped
  <2> QED BY <2>1 DEF Disturbed, Job
<1> QED BY <1>1, <1>2, <1>3 DEF Ages, Issued, LinkInv, Links

LEMMA DropOrphanLinked ==
  ASSUME LinkInv, StoreInv', NEW c \in Clients, DropOrphan(c)
  PROVE  LinkInv'
<1> DEFINE d == job[c].doc
<1>1. pc[c] = "drop" /\ d \in DocIds /\ job[c] \in Job /\ CarriedAt("drop", job[c]) /\ "drop" \in Places
      /\ RestsOn(files, docs, nfiles, ndocs, "drop", job[c])
  BY DEF DropOrphan, LinkInv, StoreInv, ClientsTyped, Carried, CarriedAt, Job, Links, Places
<1>2. /\ Ages /\ Issued'
      /\ \A x \in Clients : /\ job'[x].file = job[x].file /\ job'[x].doc = job[x].doc
                            /\ job'[x].got = job[x].got /\ job'[x].kind = job[x].kind
  BY <1>1, EraseAges DEF DropOrphan
<1>3. pc'[c] = "ensure" /\ \A x \in Clients \ {c} : pc'[x] = pc[x]
  BY DEF DropOrphan, Goto, LinkInv, StoreInv, ClientsTyped
<1>4. RestsOn(files', docs', nfiles', ndocs', "drop", job[c])
  BY <1>1, <1>2, StillRests DEF LinkInv
<1>5. RestsOn(files', docs', nfiles', ndocs', pc'[c], job'[c])
  BY <1>2, <1>3, <1>4 DEF RestsOn
<1> QED BY <1>2, <1>3, <1>5, LinkedMove

LEMMA UpdateLinked ==
  ASSUME LinkInv, StoreInv', NEW c \in Clients, Update(c)
  PROVE  LinkInv'
<1> DEFINE found == DocsOf(job[c].file)
           j == [job[c] EXCEPT !.doc = First(found)]
<1>1. UNCHANGED <<files, docs, nfiles, ndocs>>
  BY DEF Update
<1>2. CASE UpdateFailed(c)
  BY <1>1, <1>2, LinkedUpdateFailed
<1>3. CASE found # {} /\ Goto(c, "amend") /\ job' = [job EXCEPT ![c].doc = First(found)]
  <2>1. /\ First(found) \in DocIds /\ docs[First(found)] # None
        /\ docs[First(found)].file = job[c].file
    BY <1>3, FirstIn DEF DocsOf
  <2>2. First(found) <= ndocs
    BY <2>1 DEF LinkInv, Links, Issued
  <2>3. job[c] \in Job /\ RestsOn(files, docs, nfiles, ndocs, pc[c], job[c])
    BY DEF LinkInv, StoreInv, ClientsTyped, Links
  <2>4. j.doc = First(found) /\ j.file = job[c].file /\ j.got = job[c].got
    BY <2>3 DEF Job
  <2>5. RestsOn(files, docs, nfiles, ndocs, "amend", j)
    BY <2>1, <2>2, <2>3, <2>4 DEF RestsOn
  <2>6. pc'[c] = "amend" /\ job'[c] = j /\ \A x \in Clients \ {c} : pc'[x] = pc[x] /\ job'[x] = job[x]
    BY <1>3 DEF Goto, LinkInv, StoreInv, ClientsTyped
  <2> HIDE DEF j
  <2>7. RestsOn(files', docs', nfiles', ndocs', pc'[c], job'[c])
    BY <1>1, <2>5, <2>6
  <2> QED BY <1>1, <2>6, <2>7, SameAges, LinkedMove
<1> QED BY <1>2, <1>3 DEF Update

\* Rewriting a document without changing its file.
LEMMA RewriteAges ==
  ASSUME LinkInv, NEW d \in DocIds, NEW new \in Document, docs[d] # None, new.file = docs[d].file,
         docs' = [docs EXCEPT ![d] = new], UNCHANGED <<files, nfiles, ndocs>>
  PROVE  Ages /\ Issued'
<1>1. nfiles \in Nat /\ ndocs \in Nat /\ docs \in [DocIds -> Document \cup {None}]
  BY NoneApart DEF LinkInv, StoreInv, StoreTyped
<1>2. \A e \in DocIds : docs'[e] = IF e = d THEN new ELSE docs[e]
  BY <1>1
<1> QED BY <1>1, <1>2, NoneApart DEF Ages, Issued, LinkInv, Links

LEMMA AmendLinked ==
  ASSUME LinkInv, StoreInv', NEW c \in Clients, Amend(c)
  PROVE  LinkInv'
<1> DEFINE d == job[c].doc
<1>1. d \in DocIds /\ job[c].content \in Contents
  BY DEF Amend, LinkInv, StoreInv, ClientsTyped, Carried, CarriedAt, Job
<1>2. CASE UpdateFailed(c) /\ UNCHANGED docs
  BY <1>2, LinkedUpdateFailed DEF Amend
<1>3. CASE docs[d] # None /\ Reply(c, "updated") /\ docs' = [docs EXCEPT ![d].hash = job[c].content]
  <2> DEFINE new == [docs[d] EXCEPT !.hash = job[c].content]
  <2>1. docs[d] \in Document
    BY <1>1, <1>3 DEF LinkInv, StoreInv, StoreTyped
  <2>2. new \in Document /\ new.file = docs[d].file /\ docs' = [docs EXCEPT ![d] = new]
    BY <1>1, <1>3, <2>1 DEF Document
  <2> HIDE DEF new
  <2>3. Ages /\ Issued'
    BY <1>1, <1>3, <2>2, RewriteAges DEF Amend
  <2> QED BY <1>3, <2>3, LinkedReply DEF Replies
<1> QED BY <1>2, <1>3 DEF Amend

LEMMA EnsureLinked ==
  ASSUME LinkInv, StoreInv', NEW c \in Clients, Ensure(c)
  PROVE  LinkInv'
<1>1. PICK p \in {"put", "update", "dedup"} : Step(c, "ensure", p, job[c])
  BY DEF Ensure
<1>2. p \in Resting /\ Goto(c, p) /\ job' = job
  BY <1>1 DEF Step, Resting, Places, LinkInv, StoreInv, ClientsTyped
<1>3. UNCHANGED <<files, docs, nfiles, ndocs>>
  BY <1>1 DEF Step
<1> QED BY <1>2, <1>3, SameAges, LinkedGoto

LEMMA DedupLinked ==
  ASSUME LinkInv, StoreInv', NEW c \in Clients, Dedup(c)
  PROVE  LinkInv'
<1> DEFINE f == AsFile(First(WithHash(job[c].content)))
           j == [job[c] EXCEPT !.file = f]
<1>1. job[c] \in Job /\ {"describe", "named"} \subseteq Places
      /\ RestsOn(files, docs, nfiles, ndocs, pc[c], job[c])
  BY DEF Dedup, Step, LinkInv, StoreInv, ClientsTyped, Places, Links
<1>2. CASE Step(c, "dedup", "named", job[c])
  <2>1. RestsOn(files, docs, nfiles, ndocs, "named", job[c])
    BY <1>1 DEF RestsOn
  <2> QED BY <1>1, <1>2, <2>1, LinkedStep
<1>3. CASE WithHash(job[c].content) # {} /\ Step(c, "dedup", "describe", j)
  <2>1. f \in FileRefs /\ f \notin FileIds
    <3>1. \A d \in DocIds : AsFile(d) \notin FileIds
      BY NoneApart DEF AsFile, FileIds, DocIds
    <3> QED BY <1>3, <3>1, FirstIn, NoneApart DEF WithHash
  <2>2. j \in Job /\ j.file = f /\ j.doc = job[c].doc /\ j.got = job[c].got
    BY <1>1, <2>1 DEF Job
  <2>3. RestsOn(files, docs, nfiles, ndocs, "describe", j)
    BY <1>1, <2>1, <2>2 DEF RestsOn
  <2> HIDE DEF j
  <2> QED BY <1>1, <1>3, <2>2, <2>3, LinkedStep
<1> QED BY <1>2, <1>3 DEF Dedup

LEMMA DedupByNameLinked ==
  ASSUME LinkInv, StoreInv', NEW c \in Clients, DedupByName(c)
  PROVE  LinkInv'
<1>1. /\ UNCHANGED <<files, docs, nfiles, ndocs>> /\ "put" \in Resting /\ job[c] \in Job
      /\ RestsOn(files, docs, nfiles, ndocs, "named", job[c])
  BY DEF DedupByName, Resting, Places, LinkInv, StoreInv, ClientsTyped, Links
<1>2. CASE Goto(c, "put") /\ UNCHANGED job
  BY <1>1, <1>2, SameAges, LinkedGoto
<1>3. ASSUME NEW f \in FileIds, Alive(f), Goto(c, "describe"), job' = [job EXCEPT ![c].file = f]
      PROVE  LinkInv'
  <2>1. PICK j : j = [job[c] EXCEPT !.file = f]
    OBVIOUS
  <2>2. j.file = f /\ j.doc = job[c].doc /\ j.got = job[c].got
    BY <1>1, <2>1 DEF Job
  <2>3. f <= nfiles
    BY <1>3 DEF Alive, LinkInv, Links, Issued
  <2>4. RestsOn(files, docs, nfiles, ndocs, "describe", j)
    BY <1>1, <2>2, <2>3 DEF RestsOn
  <2>5. /\ pc'[c] = "describe" /\ job'[c] = j
        /\ \A x \in Clients \ {c} : pc'[x] = pc[x] /\ job'[x] = job[x]
    BY <1>3, <2>1 DEF Goto, LinkInv, StoreInv, ClientsTyped
  <2> QED BY <1>1, <2>4, <2>5, SameAges, LinkedMove
<1> QED BY <1>2, <1>3 DEF DedupByName

LEMMA PutAges ==
  ASSUME LinkInv, NEW h \in Contents, nfiles < MaxFiles, nfiles' = nfiles + 1,
         files' = [files EXCEPT ![nfiles + 1] = h], UNCHANGED <<docs, ndocs>>
  PROVE  Ages /\ Issued'
<1>1. nfiles \in Nat /\ ndocs \in Nat /\ files \in [FileIds -> Contents \cup {None}] /\ FileIds \subseteq Nat
      /\ docs \in [DocIds -> Document \cup {None}]
  BY NoneApart DEF LinkInv, StoreInv, StoreTyped, FileIds
<1>2. \A f \in FileIds : f # nfiles + 1 => files'[f] = files[f]
  BY <1>1
<1>4. Issued
  BY DEF LinkInv, Links
<1>5. Issued'
  <2>1. \A f \in FileIds : files'[f] # None => f <= nfiles + 1
    BY <1>1, <1>2, <1>4 DEF Issued
  <2>2. \A d \in DocIds : docs[d] # None /\ docs[d].file \in FileIds => docs[d].file <= nfiles + 1
    <3> SUFFICES ASSUME NEW d \in DocIds, docs[d] # None, docs[d].file \in FileIds
                 PROVE  docs[d].file <= nfiles + 1
      OBVIOUS
    <3>1. docs[d].file \in Nat /\ docs[d].file <= nfiles
      BY <1>1, <1>4 DEF Issued
    <3> QED BY <1>1, <3>1
  <2> QED BY <2>1, <2>2, <1>4 DEF Issued
<1> QED BY <1>1, <1>2, <1>5 DEF Ages

LEMMA PutLinked ==
  ASSUME LinkInv, StoreInv', NEW c \in Clients, Put(c) \/ PutUnanswered(c)
  PROVE  LinkInv'
<1>1. pc[c] = "put" /\ job[c] \in Job /\ CarriedAt("put", job[c]) /\ "put" \in Places
      /\ RestsOn(files, docs, nfiles, ndocs, "put", job[c]) /\ nfiles \in Nat
  BY NoneApart DEF Put, PutUnanswered, LinkInv, StoreInv, StoreTyped, ClientsTyped, Carried, Links, Places
<1>2. job[c].content \in Contents
  BY <1>1 DEF CarriedAt, Job
<1>3. CASE Put(c) /\ nfiles' = nfiles + 1
  <2> DEFINE j == [job[c] EXCEPT !.file = nfiles + 1]
  <2>0. nfiles + 1 # nfiles
    BY <1>1
  <2>1. /\ nfiles < MaxFiles /\ files' = [files EXCEPT ![nfiles + 1] = job[c].content]
        /\ Goto(c, "describe") /\ job' = [job EXCEPT ![c].file = nfiles + 1]
    BY <1>3, <2>0 DEF Put
  <2>2. Ages /\ Issued'
    BY <1>2, <1>3, <2>1, PutAges DEF Put
  <2>3. j.file = nfiles' /\ j.doc = job[c].doc /\ j.got = job[c].got
    BY <1>1, <1>3 DEF Job
  <2>4. RestsOn(files', docs', nfiles', ndocs', "put", job[c])
    BY <1>1, <2>2, StillRests DEF LinkInv
  <2>5. nfiles' <= nfiles'
    BY <1>1, <1>3
  <2>6. RestsOn(files', docs', nfiles', ndocs', "describe", j)
    BY <2>3, <2>4, <2>5 DEF RestsOn
  <2>7. pc'[c] = "describe" /\ job'[c] = j /\ \A x \in Clients \ {c} : pc'[x] = pc[x] /\ job'[x] = job[x]
    BY <2>1 DEF Goto, LinkInv, StoreInv, ClientsTyped
  <2> HIDE DEF j
  <2> QED BY <2>2, <2>6, <2>7, LinkedMove
<1>4. CASE Put(c) /\ UNCHANGED <<files, nfiles>>
  <2>1. NoBucket(c) \/ Reply(c, "failed")
    <3>1. nfiles + 1 # nfiles
      BY <1>1
    <3> QED BY <1>4, <3>1 DEF Put
  <2>2. UNCHANGED <<files, docs, nfiles, ndocs>>
    BY <1>4 DEF Put
  <2> QED BY <2>1, <2>2, SameAges, LinkedReply, LinkedUpdateFailed DEF Replies
<1>5. CASE PutUnanswered(c)
  <2>1. Ages /\ Issued'
    BY <1>2, <1>5, PutAges DEF PutUnanswered
  <2> QED BY <1>5, <2>1, LinkedReply DEF PutUnanswered, Replies
<1> QED BY <1>3, <1>4, <1>5 DEF Put

LEMMA DescribeLinked ==
  ASSUME LinkInv, StoreInv', NEW c \in Clients, Describe(c)
  PROVE  LinkInv'
<1> DEFINE found == DocsOf(job[c].file)
           d == IF found = {} THEN None ELSE First(found)
           j == [job[c] EXCEPT !.doc = d]
<1>1. job[c] \in Job /\ RestsOn(files, docs, nfiles, ndocs, pc[c], job[c]) /\ "record" \in Places
  BY DEF LinkInv, StoreInv, ClientsTyped, Links, Places
<1>2. d = None \/ (d \in DocIds /\ docs[d] # None /\ docs[d].file = job[c].file)
  BY FirstIn DEF DocsOf
<1>3. d # None => d <= ndocs
  BY <1>2 DEF LinkInv, Links, Issued
<1>4. Step(c, "describe", "record", j)
  BY DEF Describe
<1> HIDE DEF d
<1>5. j \in Job /\ j.doc = d /\ j.file = job[c].file /\ j.got = job[c].got
  BY <1>1, <1>2 DEF Job
<1>6. RestsOn(files, docs, nfiles, ndocs, "record", j)
  BY <1>1, <1>2, <1>3, <1>5 DEF RestsOn
<1> HIDE DEF j
<1> QED BY <1>1, <1>4, <1>5, <1>6, LinkedStep
LEMMA RecordLinked ==
  ASSUME LinkInv, StoreInv', NEW c \in Clients, Record(c)
  PROVE  LinkInv'
<1> DEFINE new == [file |-> job[c].file, hash |-> job[c].content]
<1>1. /\ job[c] \in Job /\ CarriedAt("record", job[c]) /\ pc[c] = "record"
      /\ RestsOn(files, docs, nfiles, ndocs, "record", job[c])
      /\ nfiles \in Nat /\ ndocs \in Nat /\ docs \in [DocIds -> Document \cup {None}]
  BY NoneApart DEF Record, LinkInv, StoreInv, StoreTyped, ClientsTyped, Carried, Links
<1>2. new \in Document /\ new.file = job[c].file
  BY <1>1 DEF CarriedAt, Job, Document
<1>3. PICK r \in Replies : Reply(c, r)
  BY DEF Record, Replies
<1> HIDE DEF new
<1>4. CASE ndocs < MaxDocs /\ ndocs' = ndocs + 1 /\ docs' = [docs EXCEPT ![ndocs + 1] = new]
  <2>1. ndocs + 1 \in DocIds /\ DocIds \subseteq Nat
    BY <1>1, <1>4, NoneApart DEF DocIds
  <2>2. \A e \in DocIds : docs'[e] = IF e = ndocs + 1 THEN new ELSE docs[e]
    BY <1>1, <1>4, <2>1
  <2>3. new.file \in FileIds => new.file <= nfiles
    BY <1>1, <1>2 DEF RestsOn
  <2>4. UNCHANGED <<files, nfiles>> /\ Issued
    BY DEF Record, LinkInv, Links
  <2>5. Ages
    BY <1>1, <1>4, <2>1, <2>2, <2>4 DEF Ages
  <2>6. ASSUME NEW e \in DocIds, docs'[e] # None
        PROVE  e <= ndocs' /\ (docs'[e].file \in FileIds => docs'[e].file <= nfiles')
    <3>1. CASE e = ndocs + 1
      BY <1>1, <1>4, <2>2, <2>3, <2>4, <3>1
    <3>2. CASE e # ndocs + 1
      BY <1>1, <1>4, <2>1, <2>2, <2>4, <2>6, <3>2 DEF Issued
    <3> QED BY <3>1, <3>2
  <2>7. Issued'
    BY <2>4, <2>6 DEF Issued
  <2> QED BY <1>3, <2>5, <2>7, LinkedReply
<1>5. CASE job[c].doc # None /\ docs[job[c].doc] # None /\ docs' = [docs EXCEPT ![job[c].doc] = new] /\ UNCHANGED ndocs
  <2>1. job[c].doc \in DocIds /\ new.file = docs[job[c].doc].file
    BY <1>1, <1>2, <1>5 DEF RestsOn, Job
  <2>2. Ages /\ Issued'
    BY <1>2, <1>5, <2>1, RewriteAges DEF Record
  <2> QED BY <1>3, <2>2, LinkedReply
<1>6. CASE UNCHANGED <<docs, ndocs>>
  BY <1>3, <1>6, SameAges, LinkedReply DEF Record
<1> QED BY <1>4, <1>5, <1>6 DEF Record, new

LEMMA RemoveLinked ==
  ASSUME LinkInv, StoreInv', NEW c \in Clients, Remove(c)
  PROVE  LinkInv'
<1> DEFINE f == job[c].file
<1>1. pc[c] = "remove" /\ f \in FileIds /\ RestsOn(files, docs, nfiles, ndocs, "remove", job[c])
      /\ UNCHANGED <<docs, nfiles, ndocs>>
      /\ nfiles \in Nat /\ ndocs \in Nat /\ files \in [FileIds -> Contents \cup {None}]
  BY NoneApart DEF Remove, LinkInv, StoreInv, StoreTyped, ClientsTyped, Carried, CarriedAt, Job, Links
<1>2. CASE /\ files' = [files EXCEPT ![f] = None] /\ Goto(c, "page")
           /\ job' = [x \in Clients |-> [job[x] EXCEPT !.gone = @ \cup {f}]]
  <2>1. \A e \in FileIds : files'[e] \in {files[e], None}
    BY <1>1, <1>2
  <2>2. Ages /\ Issued'
    BY <1>1, <2>1 DEF Ages, Issued, LinkInv, Links
  <2>3. ASSUME NEW x \in Clients
        PROVE  /\ job'[x].file = job[x].file /\ job'[x].doc = job[x].doc
               /\ job'[x].got = job[x].got /\ job'[x].kind = job[x].kind
    <3>1. job[x] \in Job
      BY DEF LinkInv, StoreInv, ClientsTyped
    <3> QED BY <1>2, <3>1 DEF Job
  <2>4. pc'[c] = "page" /\ \A x \in Clients \ {c} : pc'[x] = pc[x]
    BY <1>2 DEF Goto, LinkInv, StoreInv, ClientsTyped
  <2>5. files'[f] = None
    BY <1>1, <1>2
  <2>6. RestsOn(files', docs', nfiles', ndocs', pc'[c], job'[c])
    BY <1>1, <2>3, <2>4, <2>5 DEF RestsOn
  <2> QED BY <2>2, <2>3, <2>4, <2>6, LinkedMove
<1>3. CASE Reply(c, "failed") /\ UNCHANGED files
  BY <1>1, <1>3, SameAges, LinkedReply DEF Replies
<1> QED BY <1>2, <1>3 DEF Remove

\* The documents of a page are those of the file that is being deleted.
LEMMA PageLinked ==
  ASSUME LinkInv, StoreInv', NEW c \in Clients, Page(c)
  PROVE  LinkInv'
<1> DEFINE page == PageAt(Matching(job[c].file), job[c].offset)
           more == [job[c] EXCEPT !.got = @ \cup page, !.offset = @ + PageLimit]
           last == [more EXCEPT !.reply = "found"]
<1>1. pc[c] = "page" /\ job[c] \in Job /\ CarriedAt("page", job[c])
      /\ RestsOn(files, docs, nfiles, ndocs, "page", job[c])
      /\ {"page", "purge", "idle"} \subseteq Places
  BY DEF Page, Step, LinkInv, StoreInv, ClientsTyped, Carried, Links, Places
<1>2. page \subseteq DocIds /\ PageLimit \in Nat
  BY StoreAssumption DEF PageAt, Matching, DocsOf
<1>3. \A d \in page : d <= ndocs /\ (job[c].file # None => docs[d].file = job[c].file)
  <2>1. \A d \in page : docs[d] # None /\ (job[c].file = None \/ docs[d].file = job[c].file)
    BY DEF PageAt, Matching, DocsOf
  <2> QED BY <1>2, <2>1 DEF LinkInv, Links, Issued
<1>4. job[c].kind = "delete" => job[c].file # None
  BY <1>1, NoneApart DEF CarriedAt
<1> DEFINE S == job[c].got \cup page
           n == job[c].offset + PageLimit
<1>5. S \in SUBSET DocIds /\ n \in Nat /\ more = [job[c] EXCEPT !.got = S, !.offset = n]
  BY <1>1, <1>2 DEF Job
<1>6. \A d \in S : d <= ndocs
  BY <1>1, <1>3 DEF RestsOn
<1>7. job[c].kind = "delete" =>
        files[job[c].file] = None /\ \A d \in S : docs[d] = None \/ docs[d].file = job[c].file
  BY <1>1, <1>3, <1>4 DEF RestsOn
<1>8. \/ Step(c, "page", "page", more)
      \/ Step(c, "page", "purge", more)
      \/ Step(c, "page", "idle", last)
  BY DEF Page
<1> HIDE DEF page, S, n
<1>9. /\ more \in Job /\ more.kind = job[c].kind /\ more.file = job[c].file /\ more.doc = job[c].doc
      /\ more.got = S
  BY <1>1, <1>5 DEF Job
<1> HIDE DEF more
<1>10. last \in Job /\ last.file = job[c].file /\ last.doc = job[c].doc /\ last.got = S
  BY <1>9 DEF Job, Replies
<1>11. /\ RestsOn(files, docs, nfiles, ndocs, "page", more)
       /\ RestsOn(files, docs, nfiles, ndocs, "purge", more)
  BY <1>1, <1>6, <1>7, <1>9 DEF RestsOn
<1> HIDE DEF last
<1>12. RestsOn(files, docs, nfiles, ndocs, "idle", last)
  BY <1>1, <1>6, <1>10 DEF RestsOn
<1> QED BY <1>1, <1>8, <1>9, <1>10, <1>11, <1>12, LinkedStep

LEMMA PurgeLinked ==
  ASSUME LinkInv, StoreInv', NEW c \in Clients, Purge(c)
  PROVE  LinkInv'
<1> DEFINE d == First(job[c].got)
<1>1. pc[c] = "purge" /\ job[c] \in Job /\ CarriedAt("purge", job[c]) /\ "purge" \in Places
      /\ RestsOn(files, docs, nfiles, ndocs, "purge", job[c]) /\ UNCHANGED <<files, nfiles, ndocs>>
  BY DEF Purge, LinkInv, StoreInv, ClientsTyped, Carried, Links, Places
<1>2. CASE job[c].got # {} /\ Erase(d) /\ job' = [Disturbed(d) EXCEPT ![c].got = @ \ {d}] /\ UNCHANGED pc
  <2>1. d \in DocIds
    BY <1>1, <1>2, FirstIn DEF Job
  <2>2. /\ Ages /\ Issued'
        /\ \A x \in Clients : /\ Disturbed(d)[x].file = job[x].file /\ Disturbed(d)[x].doc = job[x].doc
                              /\ Disturbed(d)[x].got = job[x].got /\ Disturbed(d)[x].kind = job[x].kind
    BY <1>1, <1>2, <2>1, EraseAges
  <2>3. Disturbed(d) \in [Clients -> Job]
    BY <1>1, <1>2, <2>1, EraseKeeps DEF LinkInv, Purge, aside, StoreInv, StoreTyped
  <2> DEFINE k == [Disturbed(d)[c] EXCEPT !.got = @ \ {d}]
  <2>4. k.file = job[c].file /\ k.doc = job[c].doc /\ k.kind = job[c].kind /\ k.got = job[c].got \ {d}
    BY <2>2, <2>3 DEF Job
  <2>5. RestsOn(files', docs', nfiles', ndocs', "purge", job[c])
    BY <1>1, <2>2, StillRests DEF LinkInv
  <2>6. RestsOn(files', docs', nfiles', ndocs', "purge", k)
    BY <2>4, <2>5 DEF RestsOn
  <2> HIDE DEF k
  <2>7. job'[c] = k /\ \A x \in Clients \ {c} : job'[x] = Disturbed(d)[x]
    BY <1>2, <2>3 DEF k
  <2>8. RestsOn(files', docs', nfiles', ndocs', pc'[c], job'[c])
    BY <1>1, <1>2, <2>6, <2>7
  <2>9. \A x \in Clients \ {c} :
            /\ pc'[x] = pc[x] /\ job'[x].file = job[x].file /\ job'[x].doc = job[x].doc
            /\ job'[x].got = job[x].got /\ job'[x].kind = job[x].kind
    BY <1>2, <2>2, <2>7
  <2> QED BY <2>2, <2>8, <2>9, LinkedMove
<1>3. CASE Reply(c, "deleted") /\ UNCHANGED docs
  BY <1>1, <1>3, SameAges, LinkedReply DEF Replies
<1> QED BY <1>2, <1>3 DEF Purge

LEMMA FailLinked ==
  ASSUME LinkInv, StoreInv', NEW c \in Clients, Fail(c)
  PROVE  LinkInv'
<1>1. UNCHANGED <<files, docs, nfiles, ndocs>> /\ Cope(c)
      /\ {"ensure", "put", "dedup", "named"} \subseteq Resting
  BY DEF Fail, Resting, Places
<1>2. CASE \E q \in {"ensure", "put", "dedup", "named"} : Goto(c, q) /\ UNCHANGED job
  BY <1>1, <1>2, SameAges, LinkedGoto
<1>3. CASE UpdateFailed(c)
  BY <1>1, <1>3, LinkedUpdateFailed
<1>4. CASE pc[c] = "purge" /\ job' = [job EXCEPT ![c].got = @ \ {First(@)}] /\ UNCHANGED pc
  <2> DEFINE k == [job[c] EXCEPT !.got = @ \ {First(job[c].got)}]
  <2>1. job[c] \in Job /\ RestsOn(files, docs, nfiles, ndocs, "purge", job[c])
    BY <1>4 DEF LinkInv, StoreInv, ClientsTyped, Links
  <2>2. k.file = job[c].file /\ k.doc = job[c].doc /\ k.kind = job[c].kind /\ k.got \subseteq job[c].got
    BY <2>1 DEF Job
  <2>3. RestsOn(files, docs, nfiles, ndocs, "purge", k)
    BY <2>1, <2>2 DEF RestsOn
  <2>4. pc'[c] = "purge" /\ job'[c] = k /\ \A x \in Clients \ {c} : pc'[x] = pc[x] /\ job'[x] = job[x]
    BY <1>4 DEF LinkInv, StoreInv, ClientsTyped
  <2> HIDE DEF k
  <2>5. RestsOn(files', docs', nfiles', ndocs', pc'[c], job'[c])
    BY <1>1, <2>3, <2>4
  <2> QED BY <1>1, <2>4, <2>5, SameAges, LinkedMove
<1>5. CASE Again(c)
  BY <1>1, <1>5, LinkedAgain
<1>6. CASE \E r \in Replies : Reply(c, r)
  BY <1>1, <1>6, SameAges, LinkedReply
<1> QED BY <1>1, <1>2, <1>3, <1>4, <1>5, <1>6 DEF Cope, Replies

-------------------------------------------------------------------------------
(* The theorem about the orphan gate. *)

LEMMA LinkInvInit == Init => LinkInv
<1> SUFFICES ASSUME Init PROVE LinkInv
  OBVIOUS
<1>1. StoreInv
  BY StoreInvInit
<1>2. Issued
  BY DEF Init, Issued
<1>3. Idle.file = None /\ Idle.doc = None /\ Idle.got = {}
  BY DEF Idle
<1>4. \A c \in Clients : RestsOn(files, docs, nfiles, ndocs, pc[c], job[c])
  BY <1>3, NoneApart DEF Init, RestsOn
<1> QED BY <1>1, <1>2, <1>4 DEF LinkInv, Links

LEMMA LinkInvStep == LinkInv /\ [Next]_vars => LinkInv'
<1> SUFFICES ASSUME LinkInv, [Next]_vars PROVE LinkInv'
  OBVIOUS
<1>1. StoreInv'
  BY StoreInvStep DEF LinkInv
<1>2. CASE UNCHANGED vars
  BY <1>1, <1>2 DEF vars, LinkInv, Links, Issued
<1>3. ASSUME NEW c \in Clients,
             \/ \E h \in Contents, kind \in {"path", "bytes"} : Upload(c, kind, h)
             \/ \E f \in FileIds : DeletePrediction(c, f)
             \/ SearchFiles(c)
      PROVE  LinkInv'
  BY <1>1, <1>3, BeginLinked
<1>4. ASSUME NEW c \in Clients,
             \/ Provision(c) \/ ProvisionBucket(c) \/ FindByHash(c) \/ Verify(c) \/ DropOrphan(c)
             \/ Update(c) \/ Amend(c) \/ Ensure(c) \/ Dedup(c) \/ DedupByName(c) \/ Put(c)
      PROVE  LinkInv'
  BY <1>1, <1>4, ProvisionLinked, FindByHashLinked, VerifyLinked, DropOrphanLinked, UpdateLinked,
     AmendLinked, EnsureLinked, DedupLinked, DedupByNameLinked, PutLinked
<1>5. ASSUME NEW c \in Clients,
             \/ Describe(c) \/ Record(c) \/ Remove(c) \/ Page(c) \/ Purge(c) \/ Fail(c) \/ PutUnanswered(c)
      PROVE  LinkInv'
  BY <1>1, <1>5, DescribeLinked, RecordLinked, RemoveLinked, PageLinked, PurgeLinked, FailLinked, PutLinked
<1> QED BY <1>2, <1>3, <1>4, <1>5 DEF Next

\* Only two steps delete a document, and both rest on the file being gone.
LEMMA ErasesOrphansOnly ==
  ASSUME LinkInv, ~StrayMessages, [Next]_vars, NEW d \in DocIds, docs[d] # None, docs'[d] = None
  PROVE  ~Alive(docs[d].file)
<1>1. docs' # docs /\ docs \in [DocIds -> Document \cup {None}]
  BY DEF LinkInv, StoreInv, StoreTyped
<1>2. ASSUME NEW e \in DocIds, Erase(e) PROVE e = d
  BY <1>1, <1>2 DEF Erase
<1>3. ASSUME NEW c \in Clients, DropOrphan(c) PROVE ~Alive(docs[d].file)
  <2>1. pc[c] = "drop" /\ job[c].doc \in DocIds
    BY <1>3 DEF DropOrphan, LinkInv, StoreInv, ClientsTyped, Carried, CarriedAt, Job
  <2>2. RestsOn(files, docs, nfiles, ndocs, "drop", job[c]) /\ job[c].doc = d /\ d # None
    BY <1>2, <1>3, <2>1, NoneApart DEF DropOrphan, LinkInv, Links
  <2> QED BY <2>2 DEF RestsOn, Alive
<1>4. ASSUME NEW c \in Clients, Purge(c) PROVE ~Alive(docs[d].file)
  <2>1. /\ pc[c] = "purge" /\ job[c] \in Job /\ job[c].kind = "delete"
        /\ RestsOn(files, docs, nfiles, ndocs, "purge", job[c])
    BY <1>4 DEF Purge, LinkInv, StoreInv, ClientsTyped, Carried, CarriedAt, Links
  <2>2. job[c].got # {} /\ Erase(First(job[c].got))
    BY <1>1, <1>4 DEF Purge
  <2>3. First(job[c].got) \in job[c].got /\ First(job[c].got) \in DocIds
    BY <2>1, <2>2, FirstIn DEF Job
  <2>4. d \in job[c].got
    BY <1>2, <2>2, <2>3
  <2> QED BY <2>1, <2>4 DEF RestsOn, Alive
<1>5. ASSUME NEW c \in Clients, Amend(c) PROVE FALSE
  <2>1. job[c].doc \in DocIds /\ job[c].content \in Contents
    BY <1>5 DEF Amend, LinkInv, StoreInv, ClientsTyped, Carried, CarriedAt, Job
  <2> DEFINE new == [docs[job[c].doc] EXCEPT !.hash = job[c].content]
  <2>2. docs[job[c].doc] # None /\ docs' = [docs EXCEPT ![job[c].doc] = new]
    BY <1>1, <1>5 DEF Amend
  <2>3. new \in Document
    BY <1>1, <2>1, <2>2 DEF Document
  <2> HIDE DEF new
  <2> QED BY <1>1, <2>1, <2>2, <2>3, NoneApart
<1>6. ASSUME NEW c \in Clients, Record(c) PROVE FALSE
  <2> DEFINE new == [file |-> job[c].file, hash |-> job[c].content]
  <2>1. new \in Document
    BY <1>6 DEF Record, LinkInv, StoreInv, ClientsTyped, Carried, CarriedAt, Job, Document
  <2>2. PICK e \in Nat \cup DocIds : docs' = [docs EXCEPT ![e] = new]
    <3>1. ndocs + 1 \in Nat /\ job[c].doc \in DocIds \cup {None}
      BY <1>6, NoneApart DEF LinkInv, StoreInv, StoreTyped, ClientsTyped, Job
    <3> QED BY <1>1, <1>6, <3>1 DEF Record
  <2> HIDE DEF new
  <2> QED BY <1>1, <2>1, <2>2, NoneApart
<1>7. ASSUME NEW c \in Clients,
             \/ \E h \in Contents, kind \in {"path", "bytes"} : Upload(c, kind, h)
             \/ \E f \in FileIds : DeletePrediction(c, f)
             \/ SearchFiles(c) \/ Provision(c) \/ ProvisionBucket(c)
             \/ FindByHash(c) \/ Verify(c) \/ Update(c)
             \/ Ensure(c) \/ Dedup(c) \/ DedupByName(c) \/ Put(c) \/ Describe(c)
             \/ Remove(c) \/ Page(c) \/ Fail(c) \/ PutUnanswered(c)
      PROVE  FALSE
  <2>1. UNCHANGED docs
    BY <1>7 DEF Upload, DeletePrediction, SearchFiles, Begin, Step, Provision, ProvisionBucket,
         FindByHash, Verify, Update, Ensure, Dedup, DedupByName, Put, Describe, Remove, Page, Fail, PutUnanswered
  <2> QED BY <1>1, <2>1
<1>8. CASE UNCHANGED vars
  BY <1>1, <1>8 DEF vars
<1> QED BY <1>3, <1>4, <1>5, <1>6, <1>7, <1>8 DEF Next

\* Metadata of a file that exists is never deleted (C-231), for any number of clients
\* that upload, delete and search, whatever calls fail, as long as no failed call says
\* "could not be found" of something that is neither the file nor the bucket.
THEOREM ValidMetadataIsKept ==
  ASSUME ~StrayMessages
  PROVE  Spec => ValidMetadataKept
<1>1. LinkInv /\ [Next]_vars =>
        [\A d \in DocIds : docs[d] # None /\ docs'[d] = None => ~Alive(docs[d].file)]_vars
  BY ErasesOrphansOnly
<1> QED BY <1>1, LinkInvInit, LinkInvStep, PTL DEF Spec, ValidMetadataKept
-------------------------------------------------------------------------------
(* What a step of client c does to the files, the documents and the others.    *)

Acts(c) ==
    \/ \E h \in Contents, kind \in {"path", "bytes"} : Upload(c, kind, h)
    \/ \E f \in FileIds : DeletePrediction(c, f)
    \/ SearchFiles(c)
    \/ Provision(c) \/ ProvisionBucket(c)
    \/ FindByHash(c) \/ Verify(c) \/ DropOrphan(c) \/ Update(c) \/ Amend(c)
    \/ Ensure(c) \/ Dedup(c) \/ DedupByName(c) \/ Put(c) \/ Describe(c) \/ Record(c)
    \/ Remove(c) \/ Page(c) \/ Purge(c)
    \/ Fail(c) \/ PutUnanswered(c)

\* Another client x notices no more than that a file or a document is gone.
Bystander(x) ==
    LET j == job[x]
        k == job'[x] IN
    /\ pc'[x] = pc[x]
    /\ k.kind = j.kind /\ k.content = j.content /\ k.file = j.file /\ k.reply = j.reply
    /\ k.offset = j.offset /\ k.got = j.got /\ k.since = j.since
    /\ j.gone \subseteq k.gone
    /\ k.calm => j.calm

LEMMA OnlyOneMoves ==
  ASSUME LinkInv, NEW c \in Clients, NEW x \in Clients, x # c,
         \/ \E q : Goto(c, q)
         \/ UNCHANGED pc,
         \/ \E j : job' = [job EXCEPT ![c] = j]
         \/ UNCHANGED job
  PROVE  Bystander(x)
<1>1. pc'[x] = pc[x] /\ job'[x] = job[x]
  BY DEF Goto, LinkInv, StoreInv, ClientsTyped
<1> QED BY <1>1 DEF Bystander

\* A document that exists is deleted: no search is calm any more.
LEMMA DisturbedStands ==
  ASSUME LinkInv, NEW d \in DocIds, NEW x \in Clients, pc'[x] = pc[x], job'[x] = Disturbed(d)[x]
  PROVE  Bystander(x)
<1>1. job[x] \in Job
  BY DEF LinkInv, StoreInv, ClientsTyped
<1>2. \/ job'[x] = job[x]
      \/ job'[x] = [job[x] EXCEPT !.calm = FALSE]
  BY DEF Disturbed
<1>3. CASE job'[x] = job[x]
  BY <1>3 DEF Bystander
<1>4. CASE job'[x] = [job[x] EXCEPT !.calm = FALSE]
  <2>1. PICK k : k = [job[x] EXCEPT !.calm = FALSE]
    OBVIOUS
  <2>2. /\ k.kind = job[x].kind /\ k.content = job[x].content /\ k.file = job[x].file
        /\ k.reply = job[x].reply /\ k.offset = job[x].offset /\ k.got = job[x].got
        /\ k.since = job[x].since /\ k.gone = job[x].gone /\ ~k.calm
    BY <1>1, <2>1 DEF Job
  <2> QED BY <1>4, <2>1, <2>2 DEF Bystander
<1> QED BY <1>2, <1>3, <1>4

LEMMA OthersStand ==
  ASSUME LinkInv, NEW c \in Clients, Acts(c), NEW x \in Clients, x # c
  PROVE  Bystander(x)
<1>1. CASE \/ \E h \in Contents, kind \in {"path", "bytes"} : Upload(c, kind, h)
           \/ \E f \in FileIds : DeletePrediction(c, f)
           \/ SearchFiles(c) \/ FindByHash(c) \/ Ensure(c) \/ Dedup(c) \/ Describe(c) \/ Page(c)
  <2>1. \E p, q, j : Step(c, p, q, j)
    BY <1>1 DEF Upload, DeletePrediction, SearchFiles, Begin, FindByHash, Ensure, Dedup, Describe, Page
  <2> QED BY <2>1, OnlyOneMoves DEF Step
<1>2. CASE Provision(c) \/ ProvisionBucket(c)
  BY <1>2, OnlyOneMoves DEF Provision, ProvisionBucket, Again, Reply
<1>3. CASE Verify(c) \/ DedupByName(c) \/ Update(c) \/ Amend(c) \/ Put(c) \/ Record(c) \/ PutUnanswered(c)
  <2>1. \/ \E q : Goto(c, q)
        \/ UNCHANGED pc
    BY <1>3 DEF Verify, DedupByName, Update, Amend, Put, Record, PutUnanswered, NoBucket, UpdateFailed, Reply
  <2>2. \/ \E j : job' = [job EXCEPT ![c] = j]
        \/ UNCHANGED job
    BY <1>3 DEF Verify, DedupByName, Update, Amend, Put, Record, PutUnanswered, NoBucket, UpdateFailed, Reply
  <2> QED BY <2>1, <2>2, OnlyOneMoves
<1>4. CASE Fail(c)
  <2>1. Cope(c)
    BY <1>4 DEF Fail
  <2>2. \/ \E q : Goto(c, q)
        \/ UNCHANGED pc
    BY <2>1 DEF Cope, UpdateFailed, Reply, Again
  <2>3. \/ \E j : job' = [job EXCEPT ![c] = j]
        \/ UNCHANGED job
    BY <2>1 DEF Cope, UpdateFailed, Reply, Again
  <2> QED BY <2>2, <2>3, OnlyOneMoves
<1>5. CASE DropOrphan(c)
  <2>1. job[c].doc \in DocIds
    BY <1>5 DEF DropOrphan, LinkInv, StoreInv, ClientsTyped, Carried, CarriedAt, Job
  <2>2. pc'[x] = pc[x] /\ job'[x] = Disturbed(job[c].doc)[x]
    BY <1>5 DEF DropOrphan, Goto, LinkInv, StoreInv, ClientsTyped
  <2> QED BY <2>1, <2>2, DisturbedStands
<1>6. CASE Purge(c)
  <2> DEFINE d == First(job[c].got)
  <2>1. CASE job[c].got # {} /\ job' = [Disturbed(d) EXCEPT ![c].got = @ \ {d}] /\ UNCHANGED pc
    <3>1. d \in DocIds
      BY <2>1, FirstIn DEF LinkInv, StoreInv, ClientsTyped, Job
    <3>2. pc'[x] = pc[x] /\ job'[x] = Disturbed(d)[x]
      BY <2>1 DEF Disturbed
    <3> QED BY <3>1, <3>2, DisturbedStands
  <2>2. CASE Reply(c, "deleted")
    BY <2>2, OnlyOneMoves DEF Reply
  <2> QED BY <1>6, <2>1, <2>2 DEF Purge
<1>7. CASE Remove(c)
  <2> DEFINE f == job[c].file
  <2>1. CASE Goto(c, "page") /\ job' = [y \in Clients |-> [job[y] EXCEPT !.gone = @ \cup {f}]]
    <3>1. PICK k : k = [job[x] EXCEPT !.gone = job[x].gone \cup {f}]
      OBVIOUS
    <3>2. job[x] \in Job /\ job'[x] = k /\ pc'[x] = pc[x]
      BY <2>1, <3>1 DEF Goto, LinkInv, StoreInv, ClientsTyped
    <3>3. /\ k.kind = job[x].kind /\ k.content = job[x].content /\ k.file = job[x].file
          /\ k.reply = job[x].reply /\ k.offset = job[x].offset /\ k.got = job[x].got
          /\ k.since = job[x].since /\ k.gone = job[x].gone \cup {f} /\ k.calm = job[x].calm
      BY <3>1, <3>2 DEF Job
    <3> QED BY <3>2, <3>3 DEF Bystander
  <2>2. CASE Reply(c, "failed")
    BY <2>2, OnlyOneMoves DEF Reply
  <2> QED BY <1>7, <2>1, <2>2 DEF Remove
<1> QED BY <1>1, <1>2, <1>3, <1>4, <1>5, <1>6, <1>7 DEF Acts

\* A stored file only ever goes, and every operation in progress takes note.
LEMMA FilesOnlyGo ==
  ASSUME LinkInv, NEW c \in Clients, Acts(c), NEW f \in FileIds, f <= nfiles
  PROVE  \/ files'[f] = files[f]
         \/ files'[f] = None /\ \A x \in Clients : f \in job'[x].gone
<1>1. files \in [FileIds -> Contents \cup {None}] /\ nfiles \in Nat /\ f \in Nat
  BY NoneApart DEF LinkInv, StoreInv, StoreTyped, FileIds
<1>2. CASE Put(c) \/ PutUnanswered(c)
  <2>1. UNCHANGED files \/ files' = [files EXCEPT ![nfiles + 1] = job[c].content]
    BY <1>2 DEF Put, PutUnanswered
  <2> QED BY <1>1, <2>1
<1>3. CASE Remove(c)
  <2>1. CASE UNCHANGED files
    BY <2>1
  <2>2. CASE /\ files' = [files EXCEPT ![job[c].file] = None]
             /\ job' = [y \in Clients |-> [job[y] EXCEPT !.gone = @ \cup {job[c].file}]]
    <3>1. CASE f # job[c].file
      BY <1>1, <2>2, <3>1
    <3>2. CASE f = job[c].file
      <4>1. ASSUME NEW x \in Clients PROVE f \in job'[x].gone
        <5>1. job[x] \in Job /\ job'[x] = [job[x] EXCEPT !.gone = @ \cup {f}]
          BY <2>2, <3>2 DEF LinkInv, StoreInv, ClientsTyped
        <5> QED BY <5>1 DEF Job
      <4> QED BY <1>1, <2>2, <3>2, <4>1
    <3> QED BY <3>1, <3>2
  <2> QED BY <1>3, <2>1, <2>2 DEF Remove
<1>4. CASE ~(Put(c) \/ PutUnanswered(c) \/ Remove(c))
  <2>1. UNCHANGED files
    BY <1>4 DEF Acts, Upload, DeletePrediction, SearchFiles, Begin, Step, Provision, ProvisionBucket,
         FindByHash, Verify, DropOrphan, Update, Amend, Ensure, Dedup, DedupByName, Describe, Record,
         Page, Purge, Fail
  <2> QED BY <2>1
<1> QED BY <1>2, <1>3, <1>4

\* A document is deleted, and no search is calm, or it is written by an upload for the
\* file the upload names, which is the file it named already.
LEMMA DocsOnlyRewritten ==
  ASSUME LinkInv, NEW c \in Clients, Acts(c), NEW d \in DocIds
  PROVE  \/ docs'[d] = docs[d]
         \/ docs'[d] = None /\ \A x \in Clients : ~job'[x].calm
         \/ /\ docs'[d] = [file |-> job[c].file, hash |-> job[c].content]
            /\ pc[c] \in {"amend", "record"} /\ job[c].content \in Contents
            /\ d <= ndocs => docs[d] # None /\ docs[d].file = job[c].file
<1>1. docs \in [DocIds -> Document \cup {None}] /\ ndocs \in Nat /\ d \in Nat /\ DocIds \subseteq Nat
  BY NoneApart DEF LinkInv, StoreInv, StoreTyped, DocIds
<1>2. job[c] \in Job /\ CarriedAt(pc[c], job[c]) /\ RestsOn(files, docs, nfiles, ndocs, pc[c], job[c])
  BY DEF LinkInv, StoreInv, ClientsTyped, Carried, Links
<1>3. ASSUME NEW e \in DocIds, Erase(e), NEW x \in Clients,
             job'[x] = Disturbed(e)[x] \/ \E S : job'[x] = [Disturbed(e)[x] EXCEPT !.got = S],
             docs'[d] # docs[d]
      PROVE  docs'[d] = None /\ ~job'[x].calm
  <2>1. e = d /\ docs'[d] = None /\ docs[d] # None
    BY <1>1, <1>3 DEF Erase
  <2>2. PICK k : k = [job[x] EXCEPT !.calm = FALSE]
    OBVIOUS
  <2>3. Disturbed(e)[x] = k /\ job[x] \in Job
    BY <2>1, <2>2 DEF Disturbed, LinkInv, StoreInv, ClientsTyped
  <2>4. k \in Job /\ ~k.calm
    BY <2>2, <2>3 DEF Job
  <2>5. \A S : ~[k EXCEPT !.got = S].calm
    BY <2>4 DEF Job
  <2> QED BY <1>3, <2>1, <2>3, <2>4, <2>5
<1>4. CASE DropOrphan(c)
  <2>1. job[c].doc \in DocIds /\ Erase(job[c].doc) /\ \A x \in Clients : job'[x] = Disturbed(job[c].doc)[x]
    BY <1>2, <1>4 DEF DropOrphan, CarriedAt, Job
  <2> QED BY <1>3, <2>1
<1>5. CASE Purge(c)
  <2> DEFINE e == First(job[c].got)
  <2>1. CASE job[c].got # {} /\ Erase(e) /\ job' = [Disturbed(e) EXCEPT ![c].got = @ \ {e}]
    <3>1. e \in DocIds
      BY <1>2, <2>1, FirstIn DEF Job
    <3>2. \A x \in Clients : job'[x] = Disturbed(e)[x] \/ \E S : job'[x] = [Disturbed(e)[x] EXCEPT !.got = S]
      BY <2>1 DEF Disturbed
    <3> QED BY <1>3, <2>1, <3>1, <3>2
  <2> QED BY <1>5, <2>1 DEF Purge
<1>6. CASE Amend(c)
  <2> DEFINE e == job[c].doc
  <2>1. e \in DocIds /\ job[c].content \in Contents /\ pc[c] = "amend"
    BY <1>2, <1>6 DEF Amend, CarriedAt, Job
  <2>2. CASE docs[e] # None /\ docs' = [docs EXCEPT ![e].hash = job[c].content]
    <3>1. docs[e].file = job[c].file /\ docs[e] \in Document /\ e # None
      BY <1>1, <1>2, <2>1, <2>2, NoneApart DEF RestsOn
    <3>2. [docs[e] EXCEPT !.hash = job[c].content] = [file |-> job[c].file, hash |-> job[c].content]
      BY <3>1 DEF Document
    <3> QED BY <1>1, <2>1, <2>2, <3>1, <3>2
  <2> QED BY <1>6, <2>2 DEF Amend
<1>7. CASE Record(c)
  <2> DEFINE new == [file |-> job[c].file, hash |-> job[c].content]
  <2>1. job[c].content \in Contents /\ pc[c] = "record"
    BY <1>2, <1>7 DEF Record, CarriedAt, Job
  <2>2. CASE docs' = [docs EXCEPT ![ndocs + 1] = new]
    BY <1>1, <2>1, <2>2
  <2>3. CASE job[c].doc # None /\ docs[job[c].doc] # None /\ docs' = [docs EXCEPT ![job[c].doc] = new]
    <3>1. docs[job[c].doc].file = job[c].file
      BY <1>2, <2>1, <2>3 DEF RestsOn
    <3> QED BY <1>1, <2>1, <2>3, <3>1
  <2> QED BY <1>7, <2>2, <2>3 DEF Record
<1>8. CASE ~(DropOrphan(c) \/ Purge(c) \/ Amend(c) \/ Record(c))
  <2>1. UNCHANGED docs
    BY <1>8 DEF Acts, Upload, DeletePrediction, SearchFiles, Begin, Step, Provision, ProvisionBucket,
         FindByHash, Verify, Update, Ensure, Dedup, DedupByName, Put, Describe, Remove, Page, Fail, PutUnanswered
  <2> QED BY <2>1
<1> QED BY <1>4, <1>5, <1>6, <1>7, <1>8

-------------------------------------------------------------------------------
(* Why a reported upload is there.  A document of a stored file has the hash of *)
(* its content, and an upload goes by what it found or put there itself.        *)

DocsTrue ==
    \A d \in DocIds : docs[d] # None /\ docs[d].file \in FileIds =>
        files[docs[d].file] \in {docs[d].hash, None} \/ docs[d].file \in mistaken

\* The file of upload j is stored with the content of j, or was deleted or taken for
\* another content meanwhile.
Stands(fs, ms, j) ==
    /\ j.file \in FileIds /\ j.content \in Contents
    /\ j.file \in j.gone \/ j.file \in ms \/ fs[j.file] = j.content

\* What upload j may count on at place p.
Upholds(fs, ds, ms, p, j) ==
    /\ j.kind \in {"path", "bytes"} /\ j.file \in FileIds
           => fs[j.file] \in {j.content, None} \/ j.file \in ms
    /\ j.kind = "path" /\ p \in {"update", "amend", "describe", "record"} => Stands(fs, ms, j)
    /\ p \in {"dedup", "named"} => j.kind # "path"
    /\ p # "idle" => j.reply = "none"
    /\ j.kind = "path" /\ j.reply \in {"stored", "updated"} =>
           /\ Stands(fs, ms, j)
           /\ j.file \notin j.gone /\ j.file \notin ms /\ ~StrayMessages
                  => \E d \in DocIds : ds[d] = [file |-> j.file, hash |-> j.content]

TruthInv ==
    LinkInv /\ DocsTrue /\ \A c \in Clients : Upholds(files, docs, mistaken, pc[c], job[c])

\* A mistake about a file is not undone.
LEMMA MistakesStay ==
  ASSUME NEW c \in Clients, Acts(c)
  PROVE  mistaken \subseteq mistaken'
BY DEF Acts, Upload, DeletePrediction, SearchFiles, Begin, Step, Provision, ProvisionBucket, FindByHash, Verify,
   DropOrphan, Update, Amend, Ensure, Dedup, DedupByName, Put, Describe, Record, Remove, Page, Purge, Fail,
   PutUnanswered, aside

LEMMA DocsStayTrue ==
  ASSUME TruthInv, NEW c \in Clients, Acts(c)
  PROVE  DocsTrue'
<1> SUFFICES ASSUME NEW d \in DocIds, docs'[d] # None, docs'[d].file \in FileIds
             PROVE  files'[docs'[d].file] \in {docs'[d].hash, None} \/ docs'[d].file \in mistaken'
  BY DEF DocsTrue
<1>1. LinkInv /\ Issued /\ DocsTrue
  BY DEF TruthInv, LinkInv, Links
<1>2. CASE docs'[d] = docs[d]
  <2>1. /\ docs[d].file <= nfiles
        /\ files[docs[d].file] \in {docs[d].hash, None} \/ docs[d].file \in mistaken
    BY <1>1, <1>2 DEF Issued, DocsTrue
  <2> QED BY <1>1, <1>2, <2>1, FilesOnlyGo, MistakesStay
<1>3. CASE docs'[d] = [file |-> job[c].file, hash |-> job[c].content] /\ pc[c] \in {"amend", "record"}
  <2>1. /\ CarriedAt(pc[c], job[c]) /\ Upholds(files, docs, mistaken, pc[c], job[c])
        /\ RestsOn(files, docs, nfiles, ndocs, pc[c], job[c])
    BY <1>1 DEF TruthInv, LinkInv, StoreInv, Carried, Links
  <2>2. job[c].kind \in {"path", "bytes"} /\ job[c].file \in FileIds /\ job[c].file <= nfiles
    BY <1>3, <2>1 DEF CarriedAt, RestsOn
  <2>3. files[job[c].file] \in {job[c].content, None} \/ job[c].file \in mistaken
    BY <2>1, <2>2 DEF Upholds
  <2> QED BY <1>1, <1>3, <2>2, <2>3, FilesOnlyGo, MistakesStay
<1> QED BY <1>1, <1>2, <1>3, DocsOnlyRewritten

\* A document that is right about a file that is still there stays.
LEMMA TrueDocsStay ==
  ASSUME TruthInv, ~StrayMessages, NEW c \in Clients, Acts(c), NEW d \in DocIds, docs[d] # None,
         docs[d].file \in FileIds, docs[d].file \notin mistaken, files'[docs[d].file] = docs[d].hash
  PROVE  docs'[d] = docs[d]
<1>1. LinkInv /\ Issued /\ docs[d] \in Document /\ docs[d].hash # None
  <2>1. LinkInv /\ docs[d] \in Document
    BY DEF TruthInv, LinkInv, StoreInv, StoreTyped
  <2> QED BY <2>1, NoneApart DEF LinkInv, Links, Document
<1>2. docs[d].file <= nfiles /\ d <= ndocs
  BY <1>1 DEF Issued
<1>3. files[docs[d].file] = docs[d].hash
  BY <1>1, <1>2, FilesOnlyGo
<1>4. CASE docs'[d] = None
  <2>1. [Next]_vars
    BY DEF Next, Acts
  <2> QED BY <1>1, <1>3, <1>4, <2>1, ErasesOrphansOnly DEF Alive
<1>5. CASE /\ docs'[d] = [file |-> job[c].file, hash |-> job[c].content]
           /\ pc[c] \in {"amend", "record"} /\ docs[d].file = job[c].file
  <2>1. CarriedAt(pc[c], job[c]) /\ Upholds(files, docs, mistaken, pc[c], job[c])
    BY <1>1 DEF TruthInv, LinkInv, StoreInv, Carried
  <2>2. files[docs[d].file] \in {job[c].content, None}
    BY <1>5, <2>1 DEF CarriedAt, Upholds
  <2>3. job[c].content = docs[d].hash
    BY <1>1, <1>3, <2>2
  <2> QED BY <1>1, <1>5, <2>3 DEF Document
<1> QED BY <1>1, <1>2, <1>4, <1>5, DocsOnlyRewritten

\* What upload j counted on it counts on still, as k, which has noticed the files that went.
LEMMA StillUpholds ==
  ASSUME TruthInv, NEW c \in Clients, Acts(c), NEW p, NEW j, NEW k,
         Upholds(files, docs, mistaken, p, j), j.file \in FileIds => j.file <= nfiles,
         k.kind = j.kind, k.content = j.content, k.file = j.file, k.reply = j.reply, j.gone \subseteq k.gone,
         \A f \in FileIds : f <= nfiles /\ files'[f] # files[f] => f \in k.gone
  PROVE  Upholds(files', docs', mistaken', p, k)
<1>1. LinkInv
  BY DEF TruthInv
<1>2. /\ mistaken \subseteq mistaken'
      /\ j.kind \in {"path", "bytes"} /\ j.file \in FileIds
             => files'[j.file] \in {j.content, None} \/ j.file \in mistaken'
  BY <1>1, FilesOnlyGo, MistakesStay DEF Upholds
<1>3. Stands(files, mistaken, j) => Stands(files', mistaken', k)
  BY <1>2 DEF Stands
<1>4. ASSUME j.kind = "path", j.reply \in {"stored", "updated"}, k.file \notin k.gone, k.file \notin mistaken',
             ~StrayMessages
      PROVE  \E d \in DocIds : docs'[d] = [file |-> k.file, hash |-> k.content]
  <2>1. Stands(files, mistaken, j) /\ j.file \notin j.gone /\ j.file \notin mistaken
    BY <1>2, <1>4 DEF Upholds
  <2>2. j.file \in FileIds /\ files'[j.file] = j.content
    BY <1>4, <2>1 DEF Stands
  <2>3. PICK d \in DocIds : docs[d] = [file |-> j.file, hash |-> j.content]
    BY <1>4, <2>1 DEF Upholds
  <2>4. docs[d] # None
    <3>1. [file |-> j.file, hash |-> j.content] \in Document
      BY <2>1, NoneApart DEF Stands, Document
    <3> QED BY <2>3, <3>1, NoneApart
  <2>5. docs'[d] = docs[d]
    BY <1>4, <2>1, <2>2, <2>3, <2>4, TrueDocsStay
  <2> QED BY <2>3, <2>5
<1> QED BY <1>2, <1>3, <1>4 DEF Upholds

LEMMA OthersUphold ==
  ASSUME TruthInv, NEW c \in Clients, Acts(c), NEW x \in Clients, x # c
  PROVE  Upholds(files', docs', mistaken', pc'[x], job'[x])
<1>1. LinkInv /\ Upholds(files, docs, mistaken, pc[x], job[x]) /\ RestsOn(files, docs, nfiles, ndocs, pc[x], job[x])
  BY DEF TruthInv, LinkInv, Links
<1>2. Bystander(x)
  BY <1>1, OthersStand
<1>3. \A f \in FileIds : f <= nfiles /\ files'[f] # files[f] => f \in job'[x].gone
  BY <1>1, FilesOnlyGo
<1>4. job[x].file \in FileIds => job[x].file <= nfiles
  BY <1>1 DEF RestsOn
<1> QED BY <1>1, <1>2, <1>3, <1>4, StillUpholds DEF Bystander

\* A client goes on from p to q with its file, in a store that stays as it is.
LEMMA GoesOn ==
  ASSUME NEW p, NEW q, NEW j, NEW k, Upholds(files, docs, mistaken, p, j), UNCHANGED <<files, docs, mistaken>>,
         k.kind = j.kind, k.content = j.content, k.file = j.file, k.gone = j.gone, k.reply = j.reply,
         p # "idle", q \in {"dedup", "named"} => j.kind # "path",
         j.kind = "path" /\ q \in {"update", "amend", "describe", "record"} => Stands(files, mistaken, j)
  PROVE  Upholds(files', docs', mistaken', q, k)
BY DEF Upholds, Stands

\* A reply that promises nothing.
LEMMA ReplyUpholds ==
  ASSUME TruthInv, NEW c \in Clients, NEW r, Reply(c, r),
         ~(r \in {"stored", "updated"} /\ job[c].kind = "path")
  PROVE  Upholds(files', docs', mistaken', pc'[c], job'[c])
<1>1. pc'[c] = "idle" /\ job'[c] = [Idle EXCEPT !.kind = job[c].kind, !.reply = r]
  BY DEF Reply, Goto, TruthInv, LinkInv, StoreInv, ClientsTyped
<1>2. PICK k : k = [Idle EXCEPT !.kind = job[c].kind, !.reply = r]
  OBVIOUS
<1>3. k.file = None /\ k.kind = job[c].kind /\ k.reply = r
  BY <1>2 DEF Idle
<1> QED BY <1>1, <1>2, <1>3, NoneApart DEF Upholds

\* A reply that promises the file and its document.
LEMMA PromiseUpholds ==
  ASSUME TruthInv, NEW c \in Clients, NEW r, Reply(c, r), pc[c] # "idle", UNCHANGED <<files, mistaken>>,
         Upholds(files, docs, mistaken, pc[c], job[c]), Stands(files, mistaken, job[c]),
         \E d \in DocIds : docs'[d] = [file |-> job[c].file, hash |-> job[c].content]
  PROVE  Upholds(files', docs', mistaken', pc'[c], job'[c])
<1>1. CASE r \in {"stored", "updated"} /\ job[c].kind = "path"
  <2>1. PICK k : k = [job[c] EXCEPT !.doc = None, !.try = 1, !.reply = r]
    OBVIOUS
  <2>2. pc'[c] = "idle" /\ job'[c] = k /\ job[c] \in Job
    BY <1>1, <2>1 DEF Reply, Goto, TruthInv, LinkInv, StoreInv, ClientsTyped
  <2>3. k.kind = job[c].kind /\ k.content = job[c].content /\ k.file = job[c].file /\ k.gone = job[c].gone
    BY <2>1, <2>2 DEF Job
  <2> QED BY <2>2, <2>3 DEF Upholds, Stands
<1> QED BY <1>1, ReplyUpholds

\* A step of client c to place q with job j.
LEMMA StepUpholds ==
  ASSUME TruthInv, NEW c \in Clients, NEW p, NEW q, NEW j, Step(c, p, q, j), p # "idle",
         j.kind = job[c].kind, j.content = job[c].content, j.file = job[c].file, j.gone = job[c].gone,
         j.reply = job[c].reply, q \in {"dedup", "named"} => job[c].kind # "path",
         job[c].kind = "path" /\ q \in {"update", "amend", "describe", "record"} => Stands(files, mistaken, job[c])
  PROVE  Upholds(files', docs', mistaken', pc'[c], job'[c])
<1>1. pc[c] = p /\ pc'[c] = q /\ job'[c] = j /\ UNCHANGED <<files, docs, mistaken>>
  BY DEF Step, Goto, aside, TruthInv, LinkInv, StoreInv, ClientsTyped
<1>2. Upholds(files, docs, mistaken, p, job[c])
  BY <1>1 DEF TruthInv
<1> QED BY <1>1, <1>2, GoesOn

\* A step to place q with the job it has.
LEMMA GotoUpholds ==
  ASSUME TruthInv, NEW c \in Clients, NEW q, Goto(c, q), UNCHANGED <<files, docs, mistaken, job>>, pc[c] # "idle",
         q \in {"dedup", "named"} => job[c].kind # "path",
         job[c].kind = "path" /\ q \in {"update", "amend", "describe", "record"} => Stands(files, mistaken, job[c])
  PROVE  Upholds(files', docs', mistaken', pc'[c], job'[c])
<1>1. pc'[c] = q /\ Upholds(files, docs, mistaken, pc[c], job[c])
  BY DEF Goto, TruthInv, LinkInv, StoreInv, ClientsTyped
<1> QED BY <1>1, GoesOn

LEMMA AgainUpholds ==
  ASSUME TruthInv, NEW c \in Clients, Again(c), pc[c] # "idle"
  PROVE  Upholds(files', docs', mistaken', pc'[c], job'[c])
<1>1. PICK k : k = [job[c] EXCEPT !.try = 2, !.doc = None, !.file = None]
  OBVIOUS
<1>2. pc'[c] = "find" /\ job'[c] = k /\ job[c] \in Job /\ Upholds(files, docs, mistaken, pc[c], job[c])
  BY <1>1 DEF Again, Goto, TruthInv, LinkInv, StoreInv, ClientsTyped
<1>3. k.file = None /\ k.reply = job[c].reply
  BY <1>1, <1>2 DEF Job
<1> QED BY <1>2, <1>3, NoneApart DEF Upholds

\* An upload that could not go on.
LEMMA GivenUpUpholds ==
  ASSUME TruthInv, NEW c \in Clients, UpdateFailed(c) \/ NoBucket(c), UNCHANGED <<files, docs, mistaken>>, pc[c] # "idle"
  PROVE  Upholds(files', docs', mistaken', pc'[c], job'[c])
<1>1. CASE Reply(c, "failed")
  BY <1>1, ReplyUpholds
<1>2. CASE \E q \in {"ensure", "provision"} : Goto(c, q) /\ UNCHANGED job
  BY <1>2, GotoUpholds
<1> QED BY <1>1, <1>2 DEF UpdateFailed, NoBucket

LEMMA BeginUpholds ==
  ASSUME TruthInv, NEW c \in Clients,
         \/ \E h \in Contents, kind \in {"path", "bytes"} : Upload(c, kind, h)
         \/ \E f \in FileIds : DeletePrediction(c, f)
         \/ SearchFiles(c)
  PROVE  Upholds(files', docs', mistaken', pc'[c], job'[c])
<1>1. PICK q, j : Step(c, "idle", q, j) /\ q \notin {"dedup", "named"} /\ j.reply = "none"
                  /\ (j.file = None \/ j.kind \notin {"path", "bytes"})
  <2>1. ASSUME NEW h \in Contents, NEW kind \in {"path", "bytes"}, Upload(c, kind, h)
        PROVE  \E q, j : Step(c, "idle", q, j) /\ q \notin {"dedup", "named"} /\ j.reply = "none"
                  /\ (j.file = None \/ j.kind \notin {"path", "bytes"})
    <3>1. PICK j : j = [Idle EXCEPT !.kind = kind, !.content = h]
      OBVIOUS
    <3>2. j.file = None /\ j.reply = "none" /\ Step(c, "idle", "find", j)
      BY <2>1, <3>1 DEF Idle, Upload, Begin
    <3> QED BY <3>2
  <2>2. ASSUME NEW f \in FileIds, DeletePrediction(c, f)
        PROVE  \E q, j : Step(c, "idle", q, j) /\ q \notin {"dedup", "named"} /\ j.reply = "none"
                  /\ (j.file = None \/ j.kind \notin {"path", "bytes"})
    <3>1. PICK j : j = [Idle EXCEPT !.kind = "delete", !.file = f]
      OBVIOUS
    <3>2. j.kind = "delete" /\ j.reply = "none" /\ Step(c, "idle", "remove", j)
      BY <2>2, <3>1 DEF Idle, DeletePrediction, Begin
    <3> QED BY <3>2
  <2>3. ASSUME SearchFiles(c)
        PROVE  \E q, j : Step(c, "idle", q, j) /\ q \notin {"dedup", "named"} /\ j.reply = "none"
                  /\ (j.file = None \/ j.kind \notin {"path", "bytes"})
    <3>1. PICK j : j = [Idle EXCEPT !.since = Matching(None)]
      OBVIOUS
    <3>2. j.file = None /\ j.reply = "none" /\ Step(c, "idle", "page", j)
      BY <2>3, <3>1 DEF Idle, SearchFiles, Begin
    <3> QED BY <3>2
  <2> QED BY <2>1, <2>2, <2>3
<1>2. pc'[c] = q /\ job'[c] = j /\ pc[c] = "idle"
  BY <1>1 DEF Step, Goto, TruthInv, LinkInv, StoreInv, ClientsTyped
<1>3. q \in {"find", "remove", "page"}
  <2>1. pc'[c] \in {"find", "remove", "page"}
    BY DEF Upload, DeletePrediction, SearchFiles, Begin, Step, Goto, TruthInv, LinkInv, StoreInv, ClientsTyped
  <2> QED BY <1>2, <2>1
<1> QED BY <1>1, <1>2, <1>3, NoneApart DEF Upholds

LEMMA ProvisionUpholds ==
  ASSUME TruthInv, NEW c \in Clients, Provision(c) \/ ProvisionBucket(c)
  PROVE  Upholds(files', docs', mistaken', pc'[c], job'[c])
<1>1. UNCHANGED <<files, docs, mistaken>> /\ pc[c] # "idle"
  BY DEF Provision, ProvisionBucket
<1>2. CASE UNCHANGED <<pc, job>>
  BY <1>1, <1>2 DEF TruthInv
<1>3. CASE Again(c)
  BY <1>1, <1>3, AgainUpholds
<1>4. CASE Reply(c, "failed") \/ Reply(c, "refused")
  BY <1>4, ReplyUpholds
<1> QED BY <1>2, <1>3, <1>4 DEF Provision, ProvisionBucket

\* The document found has the hash of the content, and with it the file it names.
LEMMA FindByHashUpholds ==
  ASSUME TruthInv, NEW c \in Clients, FindByHash(c)
  PROVE  Upholds(files', docs', mistaken', pc'[c], job'[c])
<1> DEFINE hits == WithHash(job[c].content)
<1>0. job[c] \in Job /\ Upholds(files, docs, mistaken, pc[c], job[c])
  BY DEF TruthInv, LinkInv, StoreInv, ClientsTyped
<1>1. CASE Step(c, "find", "ensure", job[c])
  BY <1>1, StepUpholds
<1>2. CASE hits # {}
  <2>1. PICK d \in DocIds : d = First(hits) /\ docs[d] # None /\ docs[d].hash = job[c].content
    BY <1>2, FirstIn DEF WithHash
  <2>2. PICK k : k = [job[c] EXCEPT !.doc = d, !.file = docs[d].file]
    OBVIOUS
  <2>3. k.kind = job[c].kind /\ k.content = job[c].content /\ k.file = docs[d].file /\ k.reply = job[c].reply
    BY <1>0, <2>2 DEF Job
  <2>4. CASE Step(c, "find", IF job[c].kind = "path" THEN "verify" ELSE "ensure", k)
    <3>1. pc[c] = "find" /\ pc'[c] \in {"verify", "ensure"} /\ job'[c] = k /\ UNCHANGED <<files, docs, mistaken>>
      BY <2>4 DEF Step, Goto, aside, TruthInv, LinkInv, StoreInv, ClientsTyped
    <3>2. k.file \in FileIds => files[k.file] \in {k.content, None} \/ k.file \in mistaken
      BY <2>1, <2>3 DEF TruthInv, DocsTrue
    <3> QED BY <1>0, <2>3, <3>1, <3>2 DEF Upholds
  <2> QED BY <1>1, <1>2, <2>1, <2>2, <2>4 DEF FindByHash
<1> QED BY <1>1, <1>2 DEF FindByHash

LEMMA VerifyUpholds ==
  ASSUME TruthInv, NEW c \in Clients, Verify(c)
  PROVE  Upholds(files', docs', mistaken', pc'[c], job'[c])
<1>0. /\ pc[c] = "verify" /\ UNCHANGED <<files, docs, mistaken>> /\ Upholds(files, docs, mistaken, pc[c], job[c])
      /\ CarriedAt(pc[c], job[c]) /\ job[c] \in Job
  BY DEF Verify, aside, TruthInv, LinkInv, StoreInv, ClientsTyped, Carried
<1>1. CASE /\ "found" \in Answers(job[c].file)
           /\ Goto(c, IF allowUpdate THEN "update" ELSE "ensure") /\ UNCHANGED job
  <2>1. job[c].file \in FileIds /\ files[job[c].file] # None
    BY <1>1 DEF Answers, Faulty, Alive
  <2>2. job[c].kind \in {"path", "bytes"} /\ job[c].content \in Contents
    BY <1>0 DEF CarriedAt, Job
  <2>3. Stands(files, mistaken, job[c])
    BY <1>0, <2>1, <2>2 DEF Upholds, Stands
  <2> QED BY <1>0, <1>1, <2>3, GotoUpholds
<1>2. CASE Goto(c, "drop") /\ UNCHANGED job
  BY <1>0, <1>2, GotoUpholds
<1>3. CASE NoBucket(c)
  BY <1>0, <1>3, GivenUpUpholds
<1>4. CASE Reply(c, "refused")
  BY <1>4, ReplyUpholds
<1> QED BY <1>1, <1>2, <1>3, <1>4 DEF Verify

LEMMA DropOrphanUpholds ==
  ASSUME TruthInv, NEW c \in Clients, DropOrphan(c)
  PROVE  Upholds(files', docs', mistaken', pc'[c], job'[c])
<1>0. /\ LinkInv /\ pc[c] = "drop" /\ pc'[c] = "ensure" /\ Acts(c) /\ job[c] \in Job
      /\ Upholds(files, docs, mistaken, "drop", job[c]) /\ RestsOn(files, docs, nfiles, ndocs, pc[c], job[c])
  BY DEF DropOrphan, Goto, Acts, TruthInv, LinkInv, StoreInv, ClientsTyped, Links
<1>1. /\ job'[c].kind = job[c].kind /\ job'[c].content = job[c].content /\ job'[c].file = job[c].file
      /\ job'[c].reply = job[c].reply /\ job'[c].gone = job[c].gone
  <2>1. PICK k : k = [job[c] EXCEPT !.calm = FALSE]
    OBVIOUS
  <2>2. job'[c] \in {job[c], k}
    BY <2>1 DEF DropOrphan, Disturbed
  <2> QED BY <1>0, <2>1, <2>2 DEF Job
<1>2. \A f \in FileIds : f <= nfiles /\ files'[f] # files[f] => f \in job'[c].gone
  BY <1>0, FilesOnlyGo
<1>3. Upholds(files', docs', mistaken', "drop", job'[c])
  BY <1>0, <1>1, <1>2, StillUpholds DEF RestsOn
<1> QED BY <1>0, <1>3 DEF Upholds

LEMMA UpdateUpholds ==
  ASSUME TruthInv, NEW c \in Clients, Update(c)
  PROVE  Upholds(files', docs', mistaken', pc'[c], job'[c])
<1>0. pc[c] = "update" /\ UNCHANGED <<files, docs, mistaken>> /\ job[c] \in Job /\ Upholds(files, docs, mistaken, pc[c], job[c])
  BY DEF Update, aside, TruthInv, LinkInv, StoreInv, ClientsTyped
<1>1. CASE UpdateFailed(c)
  BY <1>0, <1>1, GivenUpUpholds
<1>2. CASE Goto(c, "amend") /\ job' = [job EXCEPT ![c].doc = First(DocsOf(job[c].file))]
  <2>1. PICK k : k = [job[c] EXCEPT !.doc = First(DocsOf(job[c].file))]
    OBVIOUS
  <2>2. pc'[c] = "amend" /\ job'[c] = k
    BY <1>2, <2>1 DEF Goto, TruthInv, LinkInv, StoreInv, ClientsTyped
  <2>3. /\ k.kind = job[c].kind /\ k.content = job[c].content /\ k.file = job[c].file /\ k.gone = job[c].gone
        /\ k.reply = job[c].reply
    BY <1>0, <2>1 DEF Job
  <2>4. job[c].kind = "path" => Stands(files, mistaken, job[c])
    BY <1>0 DEF Upholds
  <2> QED BY <1>0, <2>2, <2>3, <2>4, GoesOn
<1> QED BY <1>1, <1>2 DEF Update

LEMMA AmendUpholds ==
  ASSUME TruthInv, NEW c \in Clients, Amend(c)
  PROVE  Upholds(files', docs', mistaken', pc'[c], job'[c])
<1> DEFINE d == job[c].doc
<1>0. /\ pc[c] = "amend" /\ UNCHANGED <<files, mistaken>> /\ job[c] \in Job /\ Upholds(files, docs, mistaken, pc[c], job[c])
      /\ d \in DocIds /\ RestsOn(files, docs, nfiles, ndocs, "amend", job[c]) /\ docs \in [DocIds -> Document \cup {None}]
  BY DEF Amend, aside, TruthInv, LinkInv, StoreInv, StoreTyped, ClientsTyped, Carried, CarriedAt, Links, Job
<1>1. CASE UpdateFailed(c) /\ UNCHANGED docs
  BY <1>0, <1>1, GivenUpUpholds
<1>2. CASE docs[d] # None /\ Reply(c, "updated") /\ docs' = [docs EXCEPT ![d].hash = job[c].content]
  <2>1. docs[d] \in Document /\ docs[d].file = job[c].file
    BY <1>0, <1>2, NoneApart DEF RestsOn
  <2>2. docs'[d] = [file |-> job[c].file, hash |-> job[c].content]
    BY <1>0, <1>2, <2>1 DEF Document
  <2>3. CASE job[c].kind = "path"
    <3>1. Stands(files, mistaken, job[c])
      BY <1>0, <2>3 DEF Upholds
    <3> QED BY <1>0, <1>2, <2>2, <3>1, PromiseUpholds
  <2>4. CASE job[c].kind # "path"
    BY <1>2, <2>4, ReplyUpholds
  <2> QED BY <2>3, <2>4
<1> QED BY <1>1, <1>2 DEF Amend

LEMMA EnsureUpholds ==
  ASSUME TruthInv, NEW c \in Clients, Ensure(c)
  PROVE  Upholds(files', docs', mistaken', pc'[c], job'[c])
<1>1. PICK q \in {"put", "update", "dedup"} : Step(c, "ensure", q, job[c]) /\ (q # "put" => job[c].kind # "path")
  BY DEF Ensure
<1> QED BY <1>1, StepUpholds

LEMMA DedupUpholds ==
  ASSUME TruthInv, NEW c \in Clients, Dedup(c)
  PROVE  Upholds(files', docs', mistaken', pc'[c], job'[c])
<1> DEFINE f == AsFile(First(WithHash(job[c].content)))
<1>0. job[c] \in Job /\ Upholds(files, docs, mistaken, pc[c], job[c]) /\ pc[c] = "dedup"
  BY DEF Dedup, Step, TruthInv, LinkInv, StoreInv, ClientsTyped
<1>1. CASE Step(c, "dedup", "named", job[c])
  BY <1>0, <1>1, StepUpholds DEF Upholds
<1>2. CASE WithHash(job[c].content) # {} /\ Step(c, "dedup", "describe", [job[c] EXCEPT !.file = f])
  <2>1. PICK k : k = [job[c] EXCEPT !.file = f]
    OBVIOUS
  <2>2. pc'[c] = "describe" /\ job'[c] = k /\ UNCHANGED <<files, docs, mistaken>>
    BY <1>2, <2>1 DEF Step, Goto, aside, TruthInv, LinkInv, StoreInv, ClientsTyped
  <2>3. k.kind = job[c].kind /\ k.content = job[c].content /\ k.file = f /\ k.reply = job[c].reply
    BY <1>0, <2>1 DEF Job
  <2>4. k.kind # "path" /\ k.reply = "none"
    BY <1>0, <2>3 DEF Upholds
  <2>5. f \notin FileIds
    <3>1. \A d \in DocIds : AsFile(d) \notin FileIds
      BY NoneApart DEF AsFile, FileIds, DocIds
    <3> QED BY <1>2, <3>1, FirstIn DEF WithHash
  <2> HIDE DEF f
  <2> QED BY <2>2, <2>3, <2>4, <2>5 DEF Upholds
<1> QED BY <1>1, <1>2 DEF Dedup

LEMMA DedupByNameUpholds ==
  ASSUME TruthInv, NEW c \in Clients, DedupByName(c)
  PROVE  Upholds(files', docs', mistaken', pc'[c], job'[c])
<1>0. /\ job[c] \in Job /\ Upholds(files, docs, mistaken, pc[c], job[c]) /\ pc[c] = "named"
      /\ UNCHANGED <<files, docs>>
  BY DEF DedupByName, TruthInv, LinkInv, StoreInv, ClientsTyped
<1>1. CASE Goto(c, "put") /\ UNCHANGED <<job, mistaken>>
  BY <1>0, <1>1, GotoUpholds
<1>2. ASSUME NEW f \in FileIds, Goto(c, "describe"), job' = [job EXCEPT ![c].file = f],
             mistaken' = IF files[f] = job[c].content THEN mistaken ELSE mistaken \cup {f}
      PROVE  Upholds(files', docs', mistaken', pc'[c], job'[c])
  <2>1. PICK k : k = [job[c] EXCEPT !.file = f]
    OBVIOUS
  <2>2. pc'[c] = "describe" /\ job'[c] = k
    BY <1>2, <2>1 DEF Goto, TruthInv, LinkInv, StoreInv, ClientsTyped
  <2>3. k.kind = job[c].kind /\ k.content = job[c].content /\ k.file = f /\ k.reply = job[c].reply
    BY <1>0, <2>1 DEF Job
  <2>4. k.kind # "path" /\ k.reply = "none"
    BY <1>0, <2>3 DEF Upholds
  <2>5. files'[k.file] = k.content \/ k.file \in mistaken'
    BY <1>0, <1>2, <2>3
  <2> QED BY <2>2, <2>4, <2>5 DEF Upholds
<1> QED BY <1>1, <1>2 DEF DedupByName

LEMMA PutUpholds ==
  ASSUME TruthInv, NEW c \in Clients, Put(c) \/ PutUnanswered(c)
  PROVE  Upholds(files', docs', mistaken', pc'[c], job'[c])
<1>0. /\ pc[c] = "put" /\ job[c] \in Job /\ Upholds(files, docs, mistaken, pc[c], job[c]) /\ CarriedAt(pc[c], job[c])
      /\ nfiles \in Nat /\ files \in [FileIds -> Contents \cup {None}] /\ UNCHANGED <<docs, mistaken>>
  BY NoneApart DEF Put, PutUnanswered, aside, TruthInv, LinkInv, StoreInv, StoreTyped, ClientsTyped, Carried
<1>1. CASE /\ nfiles < MaxFiles /\ files' = [files EXCEPT ![nfiles + 1] = job[c].content]
           /\ Goto(c, "describe") /\ job' = [job EXCEPT ![c].file = nfiles + 1]
  <2>1. nfiles + 1 \in FileIds /\ job[c].content \in Contents
    BY <1>0, <1>1, NoneApart DEF FileIds, CarriedAt, Job
  <2>2. PICK k : k = [job[c] EXCEPT !.file = nfiles + 1]
    OBVIOUS
  <2>3. pc'[c] = "describe" /\ job'[c] = k
    BY <1>1, <2>2 DEF Goto, TruthInv, LinkInv, StoreInv, ClientsTyped
  <2>4. k.kind = job[c].kind /\ k.content = job[c].content /\ k.file = nfiles + 1 /\ k.reply = job[c].reply
    BY <1>0, <2>2 DEF Job
  <2>5. files'[nfiles + 1] = job[c].content
    BY <1>0, <1>1, <2>1
  <2>6. k.reply = "none"
    BY <1>0, <2>4 DEF Upholds
  <2> QED BY <2>1, <2>3, <2>4, <2>5, <2>6 DEF Upholds, Stands
<1>2. CASE NoBucket(c) /\ UNCHANGED files
  BY <1>0, <1>2, GivenUpUpholds
<1>3. CASE Reply(c, "failed")
  BY <1>3, ReplyUpholds
<1> QED BY <1>1, <1>2, <1>3 DEF Put, PutUnanswered

LEMMA DescribeUpholds ==
  ASSUME TruthInv, NEW c \in Clients, Describe(c)
  PROVE  Upholds(files', docs', mistaken', pc'[c], job'[c])
<1>1. PICK d : Step(c, "describe", "record", [job[c] EXCEPT !.doc = d])
  BY DEF Describe
<1>2. PICK k : k = [job[c] EXCEPT !.doc = d]
  OBVIOUS
<1>3. job[c] \in Job /\ Upholds(files, docs, mistaken, "describe", job[c])
  BY <1>1 DEF Step, TruthInv, LinkInv, StoreInv, ClientsTyped
<1>4. /\ k.kind = job[c].kind /\ k.content = job[c].content /\ k.file = job[c].file /\ k.gone = job[c].gone
      /\ k.reply = job[c].reply
  BY <1>2, <1>3 DEF Job
<1>5. job[c].kind = "path" => Stands(files, mistaken, job[c])
  BY <1>3 DEF Upholds
<1> QED BY <1>1, <1>2, <1>4, <1>5, StepUpholds

LEMMA RecordUpholds ==
  ASSUME TruthInv, NEW c \in Clients, Record(c)
  PROVE  Upholds(files', docs', mistaken', pc'[c], job'[c])
<1> DEFINE new == [file |-> job[c].file, hash |-> job[c].content]
<1>0. /\ pc[c] = "record" /\ UNCHANGED <<files, mistaken>> /\ job[c] \in Job /\ Upholds(files, docs, mistaken, pc[c], job[c])
      /\ docs \in [DocIds -> Document \cup {None}] /\ ndocs \in Nat
  BY NoneApart DEF Record, aside, TruthInv, LinkInv, StoreInv, StoreTyped, ClientsTyped
<1>1. CASE job[c].kind # "path"
  <2>1. \E r : Reply(c, r)
    BY DEF Record
  <2> QED BY <1>1, <2>1, ReplyUpholds
<1>2. CASE job[c].kind = "path"
  <2>1. Stands(files, mistaken, job[c])
    BY <1>0, <1>2 DEF Upholds
  <2>2. CASE Reply(c, "partial")
    BY <2>2, ReplyUpholds
  <2>3. CASE Reply(c, "stored") /\ ndocs < MaxDocs /\ docs' = [docs EXCEPT ![ndocs + 1] = new]
    <3>1. ndocs + 1 \in DocIds
      BY <1>0, <2>3, NoneApart DEF DocIds
    <3>2. docs'[ndocs + 1] = new
      BY <1>0, <2>3, <3>1
    <3> QED BY <1>0, <2>1, <2>3, <3>1, <3>2, PromiseUpholds
  <2>4. CASE Reply(c, "stored") /\ job[c].doc # None /\ docs' = [docs EXCEPT ![job[c].doc] = new]
    <3>1. job[c].doc \in DocIds
      BY <1>0, <2>4 DEF Job
    <3>2. docs'[job[c].doc] = new
      BY <1>0, <2>4, <3>1
    <3> QED BY <1>0, <2>1, <2>4, <3>1, <3>2, PromiseUpholds
  <2> QED BY <1>2, <2>2, <2>3, <2>4 DEF Record
<1> QED BY <1>1, <1>2

\* A client that deletes or searches promises nothing of a file.
LEMMA NoUploadUpholds ==
  ASSUME NEW fs, NEW ds, NEW ms, NEW p, NEW j, j.kind \in {"delete", "search"}, p \notin {"dedup", "named"},
         p # "idle" => j.reply = "none"
  PROVE  Upholds(fs, ds, ms, p, j)
BY DEF Upholds

LEMMA RemoveUpholds ==
  ASSUME TruthInv, NEW c \in Clients, Remove(c)
  PROVE  Upholds(files', docs', mistaken', pc'[c], job'[c])
<1>0. /\ pc[c] = "remove" /\ job[c] \in Job /\ Upholds(files, docs, mistaken, pc[c], job[c]) /\ job[c].kind = "delete"
  BY DEF Remove, TruthInv, LinkInv, StoreInv, ClientsTyped, Carried, CarriedAt
<1>1. CASE Goto(c, "page") /\ job' = [x \in Clients |-> [job[x] EXCEPT !.gone = @ \cup {job[c].file}]]
  <2>1. PICK k : k = [job[c] EXCEPT !.gone = @ \cup {job[c].file}]
    OBVIOUS
  <2>2. pc'[c] = "page" /\ job'[c] = k
    BY <1>1, <2>1 DEF Goto, TruthInv, LinkInv, StoreInv, ClientsTyped
  <2>3. k.kind = "delete" /\ k.reply = job[c].reply
    BY <1>0, <2>1 DEF Job
  <2>4. k.reply = "none"
    BY <1>0, <2>3 DEF Upholds
  <2> QED BY <2>2, <2>3, <2>4, NoUploadUpholds
<1>2. CASE Reply(c, "failed")
  BY <1>2, ReplyUpholds
<1> QED BY <1>1, <1>2 DEF Remove

LEMMA PageUpholds ==
  ASSUME TruthInv, NEW c \in Clients, Page(c)
  PROVE  Upholds(files', docs', mistaken', pc'[c], job'[c])
<1>0. /\ pc[c] = "page" /\ job[c] \in Job /\ Upholds(files, docs, mistaken, pc[c], job[c])
      /\ job[c].kind \in {"delete", "search"}
  BY DEF Page, Step, TruthInv, LinkInv, StoreInv, ClientsTyped, Carried, CarriedAt
<1>1. PICK S, n, more : /\ more = [job[c] EXCEPT !.got = S, !.offset = n]
                        /\ \/ Step(c, "page", "page", more)
                           \/ Step(c, "page", "purge", more)
                           \/ Step(c, "page", "idle", [more EXCEPT !.reply = "found"])
  BY DEF Page
<1>2. more.kind = job[c].kind /\ more.reply = "none"
  BY <1>0, <1>1 DEF Job, Upholds
<1>3. PICK last : last = [more EXCEPT !.reply = "found"]
  OBVIOUS
<1>4. last.kind = more.kind
  BY <1>0, <1>1, <1>3 DEF Job
<1>5. \/ pc'[c] \in {"page", "purge"} /\ job'[c] = more
      \/ pc'[c] = "idle" /\ job'[c] = last
  BY <1>1, <1>3 DEF Step, Goto, TruthInv, LinkInv, StoreInv, ClientsTyped
<1> QED BY <1>0, <1>2, <1>4, <1>5, NoUploadUpholds

LEMMA PurgeUpholds ==
  ASSUME TruthInv, NEW c \in Clients, Purge(c)
  PROVE  Upholds(files', docs', mistaken', pc'[c], job'[c])
<1>0. /\ pc[c] = "purge" /\ job[c] \in Job /\ Upholds(files, docs, mistaken, pc[c], job[c]) /\ job[c].kind = "delete"
  BY DEF Purge, TruthInv, LinkInv, StoreInv, ClientsTyped, Carried, CarriedAt
<1> DEFINE d == First(job[c].got)
<1>1. CASE job' = [Disturbed(d) EXCEPT ![c].got = @ \ {d}] /\ UNCHANGED pc
  <2>1. PICK k : k = [job[c] EXCEPT !.calm = FALSE]
    OBVIOUS
  <2>2. Disturbed(d)[c] \in {job[c], k} /\ k \in Job
    BY <1>0, <2>1 DEF Disturbed, Job
  <2>3. PICK S, i : i \in {job[c], k} /\ job'[c] = [i EXCEPT !.got = S]
    BY <1>1, <2>2 DEF Disturbed
  <2>4. k.kind = "delete" /\ k.reply = job[c].reply
    BY <1>0, <2>1 DEF Job
  <2>5. job'[c].kind = "delete" /\ job'[c].reply = job[c].reply
    BY <1>0, <2>2, <2>3, <2>4 DEF Job
  <2>6. job[c].reply = "none"
    BY <1>0 DEF Upholds
  <2>7. pc'[c] = "purge"
    BY <1>0, <1>1
  <2> QED BY <2>5, <2>6, <2>7, NoUploadUpholds
<1>2. CASE Reply(c, "deleted")
  BY <1>2, ReplyUpholds
<1> QED BY <1>1, <1>2 DEF Purge

LEMMA FailUpholds ==
  ASSUME TruthInv, NEW c \in Clients, Fail(c)
  PROVE  Upholds(files', docs', mistaken', pc'[c], job'[c])
<1>0. /\ UNCHANGED <<files, docs, mistaken>> /\ Cope(c) /\ pc[c] # "idle" /\ job[c] \in Job
      /\ Upholds(files, docs, mistaken, pc[c], job[c]) /\ CarriedAt(pc[c], job[c])
  BY DEF Fail, aside, TruthInv, LinkInv, StoreInv, ClientsTyped, Carried
<1>1. CASE \E q \in {"ensure", "put", "dedup", "named"} :
               Goto(c, q) /\ UNCHANGED job /\ (q \in {"dedup", "named"} => job[c].kind # "path")
  BY <1>0, <1>1, GotoUpholds
<1>2. CASE UpdateFailed(c)
  BY <1>0, <1>2, GivenUpUpholds
<1>3. CASE pc[c] = "purge" /\ job' = [job EXCEPT ![c].got = @ \ {First(@)}] /\ UNCHANGED pc
  <2>1. PICK k : k = [job[c] EXCEPT !.got = @ \ {First(@)}]
    OBVIOUS
  <2>2. job'[c] = k /\ pc'[c] = "purge"
    BY <1>3, <2>1 DEF TruthInv, LinkInv, StoreInv, ClientsTyped
  <2>3. k.kind = "delete" /\ k.reply = "none"
    BY <1>0, <1>3, <2>1 DEF Job, CarriedAt, Upholds
  <2> QED BY <2>2, <2>3, NoUploadUpholds
<1>4. CASE Again(c)
  BY <1>0, <1>4, AgainUpholds
<1>5. CASE \E r : Reply(c, r) /\ ~(r \in {"stored", "updated"} /\ job[c].kind = "path")
  BY <1>5, ReplyUpholds
<1>6. pc[c] \in {"dedup", "named"} => job[c].kind # "path"
  BY <1>0 DEF Upholds
<1> QED BY <1>0, <1>1, <1>2, <1>3, <1>4, <1>5, <1>6 DEF Cope

LEMMA ActorUpholds ==
  ASSUME TruthInv, NEW c \in Clients, Acts(c)
  PROVE  Upholds(files', docs', mistaken', pc'[c], job'[c])
BY BeginUpholds, ProvisionUpholds, FindByHashUpholds, VerifyUpholds, DropOrphanUpholds, UpdateUpholds,
   AmendUpholds, EnsureUpholds, DedupUpholds, DedupByNameUpholds, PutUpholds, DescribeUpholds, RecordUpholds, RemoveUpholds,
   PageUpholds, PurgeUpholds, FailUpholds DEF Acts

LEMMA TruthInvInit == Init => TruthInv
<1> SUFFICES ASSUME Init PROVE TruthInv
  OBVIOUS
<1>1. LinkInv /\ DocsTrue
  BY LinkInvInit DEF Init, DocsTrue
<1>2. Idle.file = None /\ Idle.kind = "search"
  BY DEF Idle
<1>3. \A c \in Clients : Upholds(files, docs, mistaken, pc[c], job[c])
  BY <1>2 DEF Init, Upholds
<1> QED BY <1>1, <1>3 DEF TruthInv

LEMMA TruthInvStep == TruthInv /\ [Next]_vars => TruthInv'
<1> SUFFICES ASSUME TruthInv, [Next]_vars PROVE TruthInv'
  OBVIOUS
<1>1. LinkInv'
  BY LinkInvStep DEF TruthInv
<1>2. CASE UNCHANGED vars
  BY <1>1, <1>2 DEF vars, TruthInv, DocsTrue
<1>3. ASSUME NEW c \in Clients, Acts(c) PROVE TruthInv'
  <2>1. \A x \in Clients : Upholds(files', docs', mistaken', pc'[x], job'[x])
    BY <1>3, ActorUpholds, OthersUphold
  <2> QED BY <1>1, <1>3, <2>1, DocsStayTrue DEF TruthInv
<1> QED BY <1>2, <1>3 DEF Next, Acts

\* An upload that is reported as stored or updated is there, with its document, unless
\* the file was deleted meanwhile, or an upload from bytes once took it, by its name, for
\* another content: for any number of clients, whatever calls fail, as long as no failed
\* call says "could not be found" of something that is neither the file nor the bucket.
THEOREM UploadsReportTruth ==
  ASSUME ~StrayMessages
  PROVE  Spec => []UploadReportsTruth
<1>1. TruthInv => UploadReportsTruth
  BY DEF TruthInv, Upholds, Stands, UploadReportsTruth
<1> QED BY <1>1, TruthInvInit, TruthInvStep, PTL DEF Spec
-------------------------------------------------------------------------------
(* Why a search is complete.  A document of rank r is on the page that starts   *)
(* at r or less than PageLimit before it; while none is deleted, ranks stay.     *)

Below(S, d) == {e \in S : e < d}

LEMMA LeastIn == ASSUME NEW S, S \subseteq Nat, S # {} PROVE \E m \in S : \A d \in S : m <= d
<1> DEFINE R == {ss \in Nat \X Nat : ss[1] < ss[2]}
<1>1. IsWellFoundedOn(R, Nat)
  BY NatLessThanWellFounded DEF OpToRel
<1>2. \E m \in S : \A d \in S : <<d, m>> \notin R
  <2> HIDE DEF R
  <2> QED BY <1>1, WFMin
<1>3. PICK m \in S : \A d \in S : <<d, m>> \notin R
  BY <1>2
<1>4. ASSUME NEW d \in S PROVE m <= d
  <2>1. ~(d < m) /\ m \in Nat /\ d \in Nat
    BY <1>3
  <2> QED BY <2>1
<1> QED BY <1>4

LEMMA RanksAscend ==
  ASSUME NEW S, IsFiniteSet(S), S \subseteq Nat, NEW e \in S, NEW d \in S, e < d
  PROVE  /\ Cardinality(Below(S, e)) \in Nat /\ Cardinality(Below(S, d)) \in Nat
         /\ Cardinality(Below(S, e)) < Cardinality(Below(S, d))
<1>1. Below(S, d) \in SUBSET S /\ Below(S, e) \in SUBSET Below(S, d)
  <2>1. \A x \in S : x \in Nat
    OBVIOUS
  <2>2. \A x \in S : x < e => x < d
    BY <2>1
  <2> QED BY <2>2 DEF Below
<1>2. IsFiniteSet(Below(S, d))
  BY <1>1, FS_Subset
<1>3. e \in Below(S, d) /\ e \notin Below(S, e)
  BY DEF Below
<1>4. IsFiniteSet(Below(S, e)) /\ Cardinality(Below(S, e)) <= Cardinality(Below(S, d))
      /\ Cardinality(Below(S, e)) # Cardinality(Below(S, d))
  BY <1>1, <1>2, <1>3, FS_Subset
<1>5. Cardinality(Below(S, e)) \in Nat /\ Cardinality(Below(S, d)) \in Nat
  BY <1>2, <1>4, FS_CardinalityType
<1> QED BY <1>4, <1>5

\* At most o elements have a rank below o.
LEMMA FewLowRanks ==
  ASSUME NEW S, IsFiniteSet(S), S \subseteq Nat, NEW o \in Nat
  PROVE  LET L == {d \in S : Cardinality(Below(S, d)) < o} IN IsFiniteSet(L) /\ Cardinality(L) <= o
<1> DEFINE L == {d \in S : Cardinality(Below(S, d)) < o}
           rank == [d \in L |-> Cardinality(Below(S, d))]
<1>1. ASSUME NEW d \in S PROVE Cardinality(Below(S, d)) \in Nat
  <2>1. Below(S, d) \in SUBSET S
    BY DEF Below
  <2>2. IsFiniteSet(Below(S, d))
    BY <2>1, FS_Subset
  <2> QED BY <2>2, FS_CardinalityType
<1>2. rank \in [L -> 0..o-1]
  <2>1. \A d \in L : Cardinality(Below(S, d)) \in 0..o-1
    BY <1>1
  <2> QED BY <2>1
<1>3. ASSUME NEW d \in L, NEW e \in L, rank[d] = rank[e] PROVE d = e
  <2>1. d \in Nat /\ e \in Nat /\ Cardinality(Below(S, d)) = Cardinality(Below(S, e))
    BY <1>3
  <2>2. ~(d < e) /\ ~(e < d)
    <3>1. d \in S /\ e \in S /\ Cardinality(Below(S, d)) \in Nat
      BY <1>1
    <3> HIDE DEF L, rank
    <3>2. ~(Cardinality(Below(S, d)) < Cardinality(Below(S, e))) /\ ~(Cardinality(Below(S, e)) < Cardinality(Below(S, d)))
      BY <2>1, <3>1
    <3> QED BY <3>1, <3>2, RanksAscend
  <2> QED BY <2>1, <2>2
<1>4. rank \in Injection(L, 0..o-1)
  <2> HIDE DEF rank, L
  <2> QED BY <1>2, <1>3 DEF Injection, IsInjective
<1>5. IsFiniteSet(0..o-1) /\ Cardinality(0..o-1) = o
  BY FS_Interval
<1> HIDE DEF rank, L
<1>6. IsFiniteSet(L) /\ Cardinality(L) <= o
  BY <1>4, <1>5, FS_Injection
<1> QED BY <1>6 DEF L

\* After a short page there is no more to come.
LEMMA ShortPage ==
  ASSUME NEW S, IsFiniteSet(S), S \subseteq Nat, NEW o \in Nat,
         Cardinality(PageAt(S, o)) < PageLimit
  PROVE  \A d \in S : Cardinality(Below(S, d)) < o + PageLimit
<1> DEFINE T == {d \in S : ~(Cardinality(Below(S, d)) < o + PageLimit)}
           L == {d \in S : Cardinality(Below(S, d)) < o}
<1>0. PageLimit \in Nat
  BY StoreAssumption
<1>1. SUFFICES ASSUME T # {} PROVE FALSE
  OBVIOUS
<1>2. PICK m \in T : \A d \in T : m <= d
  BY <1>1, LeastIn
<1>3. \A d \in S : Cardinality(Below(S, d)) \in Nat
  <2> SUFFICES ASSUME NEW d \in S PROVE Cardinality(Below(S, d)) \in Nat
    OBVIOUS
  <2>1. Below(S, d) \in SUBSET S
    BY DEF Below
  <2> QED BY <2>1, FS_Subset, FS_CardinalityType
<1>4. Below(S, m) \in SUBSET (L \cup PageAt(S, o))
  <2> SUFFICES ASSUME NEW d \in S, d < m PROVE d \in L \cup PageAt(S, o)
    BY DEF Below
  <2>1. d \in Nat /\ m \in Nat
    OBVIOUS
  <2>2. d \notin T
    BY <1>2, <2>1
  <2>3. Cardinality(Below(S, d)) < o + PageLimit
    BY <2>2
  <2>4. CASE Cardinality(Below(S, d)) < o
    BY <2>4
  <2>5. CASE o <= Cardinality(Below(S, d))
    BY <2>3, <2>5 DEF PageAt, Below
  <2> QED BY <1>3, <2>4, <2>5
<1>5. IsFiniteSet(L) /\ Cardinality(L) <= o
  BY FewLowRanks
<1>6. PageAt(S, o) \in SUBSET S
  BY DEF PageAt
<1>7. IsFiniteSet(PageAt(S, o)) /\ IsFiniteSet(L \cap PageAt(S, o))
  BY <1>5, <1>6, FS_Subset, FS_Intersection
<1>8. IsFiniteSet(L \cup PageAt(S, o))
      /\ Cardinality(L \cup PageAt(S, o)) = Cardinality(L) + Cardinality(PageAt(S, o)) - Cardinality(L \cap PageAt(S, o))
  BY <1>5, <1>7, FS_Union
<1>9. Cardinality(Below(S, m)) <= Cardinality(L \cup PageAt(S, o))
  BY <1>4, <1>8, FS_Subset
<1>10. /\ Cardinality(L) \in Nat /\ Cardinality(PageAt(S, o)) \in Nat /\ Cardinality(L \cap PageAt(S, o)) \in Nat
       /\ Cardinality(Below(S, m)) \in Nat /\ ~(Cardinality(Below(S, m)) < o + PageLimit)
  BY <1>3, <1>5, <1>7, FS_CardinalityType
<1> HIDE DEF L, T
<1> QED BY <1>0, <1>5, <1>8, <1>9, <1>10

Present(ds) == {d \in DocIds : ds[d] # None}

\* What a search j that nothing was deleted under may count on at place p: the documents
\* before its offset are collected.
Paged(ds, nd, p, j) ==
    j.kind = "search" /\ j.calm =>
        /\ p = "page" =>
               /\ j.file = None
               /\ \A d \in j.since :
                      /\ d <= nd /\ ds[d] # None
                      /\ Cardinality(Below(Present(ds), d)) < j.offset => d \in j.got
        /\ p # "page" /\ j.reply = "found" => j.since \subseteq j.got

SearchInv == LinkInv /\ \A c \in Clients : Paged(docs, ndocs, pc[c], job[c])

LEMMA PresentFinite ==
  IsFiniteSet(Present(docs)) /\ Present(docs) \subseteq Nat /\ Matching(None) = Present(docs)
<1>1. DocIds \subseteq Nat /\ \A d \in DocIds : d <= MaxDocs
  BY NoneApart DEF DocIds
<1>2. IsFiniteSet(DocIds)
  BY NoneApart, FS_Interval DEF DocIds
<1>3. Present(docs) \in SUBSET DocIds
  BY DEF Present
<1> QED BY <1>1, <1>2, <1>3, FS_Subset DEF Matching, Present

\* Under a calm search the same documents are there, among the ids used so far.
LEMMA CalmKeepsDocs ==
  ASSUME LinkInv, NEW c \in Clients, Acts(c), NEW x \in Clients, job'[x].calm, NEW d \in DocIds, d <= ndocs
  PROVE  docs'[d] # None <=> docs[d] # None
<1>1. CASE /\ docs'[d] = [file |-> job[c].file, hash |-> job[c].content]
           /\ pc[c] \in {"amend", "record"} /\ job[c].content \in Contents /\ docs[d] # None
  <2>1. job[c].file \in FileRefs
    BY <1>1 DEF LinkInv, StoreInv, ClientsTyped, Carried, CarriedAt, Job
  <2> QED BY <1>1, <2>1, NoneApart DEF Document
<1> QED BY <1>1, DocsOnlyRewritten

LEMMA DocIdsGrow ==
  ASSUME LinkInv, NEW c \in Clients, Acts(c)
  PROVE  ndocs \in Nat /\ ndocs' \in Nat /\ ndocs <= ndocs'
<1>1. ndocs \in Nat
  BY NoneApart DEF LinkInv, StoreInv, StoreTyped
<1>2. ndocs' = ndocs \/ ndocs' = ndocs + 1
  BY DEF Acts, Upload, DeletePrediction, SearchFiles, Begin, Step, Provision, ProvisionBucket, FindByHash,
     Verify, DropOrphan, Update, Amend, Ensure, Dedup, DedupByName, Put, Describe, Record, Remove, Page, Purge, Fail, PutUnanswered
<1> QED BY <1>1, <1>2

LEMMA SameRanks ==
  ASSUME LinkInv, NEW c \in Clients, Acts(c), NEW x \in Clients, job'[x].calm, NEW d \in DocIds, d <= ndocs
  PROVE  Below(Present(docs'), d) = Below(Present(docs), d)
<1>1. \A e \in DocIds : e < d => e <= ndocs
  BY NoneApart, DocIdsGrow DEF DocIds
<1>2. \A e \in DocIds : e < d => (docs'[e] # None <=> docs[e] # None)
  BY <1>1, CalmKeepsDocs
<1> QED BY <1>2 DEF Below, Present

\* What search j of client x counted on it counts on still.
LEMMA StillPaged ==
  ASSUME LinkInv, NEW c \in Clients, Acts(c), NEW x \in Clients, NEW p, NEW j \in Job, Paged(docs, ndocs, p, j),
         job'[x].kind = j.kind, job'[x].file = j.file, job'[x].offset = j.offset, job'[x].got = j.got,
         job'[x].since = j.since, job'[x].reply = j.reply, job'[x].calm => j.calm
  PROVE  Paged(docs', ndocs', p, job'[x])
<1>1. SUFFICES ASSUME j.kind = "search", job'[x].calm, j.calm PROVE Paged(docs', ndocs', p, job'[x])
  BY DEF Paged
<1>2. CASE p = "page"
  <2>1. ASSUME NEW d \in j.since
        PROVE  /\ d <= ndocs' /\ docs'[d] # None
               /\ Cardinality(Below(Present(docs'), d)) < j.offset => d \in j.got
    <3>1. d \in DocIds /\ d \in Nat
      BY NoneApart DEF Job, DocIds
    <3>2. /\ d <= ndocs /\ docs[d] # None
          /\ Cardinality(Below(Present(docs), d)) < j.offset => d \in j.got
      BY <1>1, <1>2 DEF Paged
    <3>3. d <= ndocs'
      BY <3>1, <3>2, DocIdsGrow
    <3> QED BY <1>1, <3>1, <3>2, <3>3, CalmKeepsDocs, SameRanks
  <2> QED BY <1>1, <1>2, <2>1 DEF Paged
<1>3. CASE p # "page"
  BY <1>1, <1>3 DEF Paged
<1> QED BY <1>2, <1>3

\* The kind of an operation stays.
LEMMA KindStays ==
  ASSUME LinkInv, NEW c \in Clients, Acts(c), pc[c] # "idle"
  PROVE  job'[c].kind = job[c].kind
<1>0. job[c] \in Job /\ job \in [Clients -> Job]
  BY DEF LinkInv, StoreInv, ClientsTyped
<1>1. ASSUME NEW r, Reply(c, r) PROVE job'[c].kind = job[c].kind
  <2>1. PICK a : a = [job[c] EXCEPT !.doc = None, !.try = 1, !.reply = r]
    OBVIOUS
  <2>2. PICK b : b = [Idle EXCEPT !.kind = job[c].kind, !.reply = r]
    OBVIOUS
  <2>3. a.kind = job[c].kind /\ b.kind = job[c].kind
    BY <1>0, <2>1, <2>2 DEF Job, Idle
  <2>4. job'[c] \in {a, b}
    BY <1>0, <1>1, <2>1, <2>2 DEF Reply
  <2> QED BY <2>3, <2>4
<1>2. ASSUME NEW d PROVE Disturbed(d)[c] \in Job /\ Disturbed(d)[c].kind = job[c].kind
  BY <1>0 DEF Disturbed, Job
<1>3. CASE UNCHANGED job
  BY <1>3
<1>4. ASSUME NEW p, NEW q, Step(c, p, q, job[c]) PROVE job'[c].kind = job[c].kind
  BY <1>0, <1>4 DEF Step
<1>5. CASE FindByHash(c)
  <2>1. ASSUME NEW d, NEW f, NEW q, Step(c, "find", q, [job[c] EXCEPT !.doc = d, !.file = f])
        PROVE  job'[c].kind = job[c].kind
    BY <1>0, <2>1 DEF Step, Job
  <2> QED BY <1>4, <1>5, <2>1 DEF FindByHash
<1>6. CASE Update(c) \/ Amend(c) \/ Describe(c)
  <2>1. ASSUME NEW d, job' = [job EXCEPT ![c].doc = d] PROVE job'[c].kind = job[c].kind
    BY <1>0, <2>1 DEF Job
  <2>2. ASSUME NEW d, job' = [job EXCEPT ![c] = [job[c] EXCEPT !.doc = d]] PROVE job'[c].kind = job[c].kind
    BY <1>0, <2>2 DEF Job
  <2> QED BY <1>1, <1>3, <1>6, <2>1, <2>2 DEF Update, Amend, UpdateFailed, Describe, Step
<1>7. CASE Dedup(c) \/ DedupByName(c) \/ Put(c)
  <2>1. ASSUME NEW f, job' = [job EXCEPT ![c].file = f] PROVE job'[c].kind = job[c].kind
    BY <1>0, <2>1 DEF Job
  <2>2. ASSUME NEW f, job' = [job EXCEPT ![c] = [job[c] EXCEPT !.file = f]] PROVE job'[c].kind = job[c].kind
    BY <1>0, <2>2 DEF Job
  <2>3. CASE Dedup(c)
    BY <1>4, <2>2, <2>3 DEF Dedup, Step
  <2>4. CASE DedupByName(c)
    BY <1>3, <2>1, <2>4 DEF DedupByName
  <2>5. CASE Put(c)
    BY <1>1, <1>3, <2>1, <2>5 DEF Put, NoBucket
  <2> QED BY <1>7, <2>3, <2>4, <2>5
<1>8. ASSUME Again(c) PROVE job'[c].kind = job[c].kind
  <2>1. PICK k : k = [job[c] EXCEPT !.try = 2, !.doc = None, !.file = None]
    OBVIOUS
  <2>2. k.kind = job[c].kind
    BY <1>0, <2>1 DEF Job
  <2> QED BY <1>0, <1>8, <2>1, <2>2 DEF Again
<1>9. CASE Remove(c)
  <2>1. ASSUME NEW f, job' = [x \in Clients |-> [job[x] EXCEPT !.gone = @ \cup {f}]]
        PROVE  job'[c].kind = job[c].kind
    BY <1>0, <2>1 DEF Job
  <2> QED BY <1>1, <1>9, <2>1 DEF Remove
<1>10. CASE Page(c)
  <2>1. PICK S, n, more : /\ more = [job[c] EXCEPT !.got = S, !.offset = n]
                          /\ \/ Step(c, "page", "page", more)
                             \/ Step(c, "page", "purge", more)
                             \/ Step(c, "page", "idle", [more EXCEPT !.reply = "found"])
    BY <1>10 DEF Page
  <2>2. PICK last : last = [more EXCEPT !.reply = "found"]
    OBVIOUS
  <2>3. more.kind = job[c].kind /\ last.kind = job[c].kind
    BY <1>0, <2>1, <2>2 DEF Job
  <2>4. job'[c] \in {more, last}
    BY <1>0, <2>1, <2>2 DEF Step
  <2> QED BY <2>3, <2>4
<1>11. CASE Purge(c)
  <2>1. ASSUME NEW d, job' = [Disturbed(d) EXCEPT ![c].got = @ \ {d}] PROVE job'[c].kind = job[c].kind
    <3>1. PICK S : job'[c] = [Disturbed(d)[c] EXCEPT !.got = S]
      BY <2>1 DEF Disturbed
    <3> QED BY <1>2, <3>1 DEF Job
  <2> QED BY <1>1, <1>11, <2>1 DEF Purge
<1>12. CASE Fail(c)
  <2>1. ASSUME job' = [job EXCEPT ![c].got = @ \ {First(@)}] PROVE job'[c].kind = job[c].kind
    BY <1>0, <2>1 DEF Job
  <2>2. Cope(c)
    BY <1>12 DEF Fail
  <2> QED BY <1>1, <1>3, <1>8, <2>1, <2>2 DEF Cope, UpdateFailed
<1>13. CASE Provision(c) \/ ProvisionBucket(c) \/ Verify(c) \/ DropOrphan(c) \/ Record(c) \/ PutUnanswered(c) \/ Ensure(c)
  BY <1>1, <1>2, <1>3, <1>4, <1>8, <1>13 DEF Provision, ProvisionBucket, Verify, NoBucket, DropOrphan, Record,
     PutUnanswered, Ensure
<1>14. CASE \/ \E h \in Contents, kind \in {"path", "bytes"} : Upload(c, kind, h)
            \/ \E f \in FileIds : DeletePrediction(c, f)
            \/ SearchFiles(c)
  BY <1>14 DEF Upload, DeletePrediction, SearchFiles, Begin, Step
<1> QED BY <1>5, <1>6, <1>7, <1>9, <1>10, <1>11, <1>12, <1>13, <1>14 DEF Acts

\* A search that begins has every document before it.
LEMMA BeginPaged ==
  ASSUME SearchInv, NEW c \in Clients, Acts(c), pc[c] = "idle"
  PROVE  Paged(docs', ndocs', pc'[c], job'[c])
<1>0. LinkInv /\ job \in [Clients -> Job] /\ pc \in [Clients -> Places]
  BY DEF SearchInv, LinkInv, StoreInv, ClientsTyped
<1>1. ASSUME NEW h \in Contents, NEW kind \in {"path", "bytes"}, Upload(c, kind, h)
      PROVE  Paged(docs', ndocs', pc'[c], job'[c])
  <2>1. PICK j : j = [Idle EXCEPT !.kind = kind, !.content = h]
    OBVIOUS
  <2>2. job'[c] = j /\ j.kind # "search"
    BY <1>0, <1>1, <2>1 DEF Upload, Begin, Step, Idle
  <2> QED BY <2>2 DEF Paged
<1>2. ASSUME NEW f \in FileIds, DeletePrediction(c, f)
      PROVE  Paged(docs', ndocs', pc'[c], job'[c])
  <2>1. PICK j : j = [Idle EXCEPT !.kind = "delete", !.file = f]
    OBVIOUS
  <2>2. job'[c] = j /\ j.kind # "search"
    BY <1>0, <1>2, <2>1 DEF DeletePrediction, Begin, Step, Idle
  <2> QED BY <2>2 DEF Paged
<1>3. CASE SearchFiles(c)
  <2>1. PICK j : j = [Idle EXCEPT !.since = Matching(None)]
    OBVIOUS
  <2>2. job'[c] = j /\ pc'[c] = "page" /\ UNCHANGED <<docs, ndocs>>
    BY <1>0, <1>3, <2>1 DEF SearchFiles, Begin, Step, Goto
  <2>3. j.since = Present(docs) /\ j.offset = 0 /\ j.file = None
    BY <2>1, PresentFinite DEF Idle
  <2>4. ASSUME NEW d \in Present(docs)
        PROVE  d <= ndocs /\ docs[d] # None /\ ~(Cardinality(Below(Present(docs), d)) < 0)
    <3>1. Below(Present(docs), d) \in SUBSET Present(docs)
      BY DEF Below
    <3>2. Cardinality(Below(Present(docs), d)) \in Nat
      BY <3>1, PresentFinite, FS_Subset, FS_CardinalityType
    <3>3. d <= ndocs /\ docs[d] # None
      BY <1>0 DEF Present, LinkInv, Links, Issued
    <3> QED BY <3>2, <3>3
  <2> QED BY <2>2, <2>3, <2>4 DEF Paged
<1>4. ASSUME Provision(c) \/ ProvisionBucket(c) \/ FindByHash(c) \/ Verify(c) \/ DropOrphan(c) \/ Update(c)
             \/ Amend(c) \/ Ensure(c) \/ Dedup(c) \/ DedupByName(c) \/ Put(c) \/ Describe(c) \/ Record(c) \/ Remove(c)
             \/ Page(c) \/ Purge(c) \/ Fail(c) \/ PutUnanswered(c)
      PROVE  FALSE
  BY <1>4 DEF Step, Provision, ProvisionBucket, FindByHash, Verify, DropOrphan, Update, Amend, Ensure, Dedup,
     DedupByName, Put, Describe, Record, Remove, Page, Purge, Fail, PutUnanswered
<1> QED BY <1>1, <1>2, <1>3, <1>4 DEF Acts

\* A page adds the documents up to the new offset, and a short one the last of them.
LEMMA PagePaged ==
  ASSUME SearchInv, NEW c \in Clients, Page(c), job[c].kind = "search"
  PROVE  Paged(docs', ndocs', pc'[c], job'[c])
<1> DEFINE page == PageAt(Matching(job[c].file), job[c].offset)
           S == job[c].got \cup page
           n == job[c].offset + PageLimit
<1>0. /\ LinkInv /\ job[c] \in Job /\ pc[c] = "page" /\ Paged(docs, ndocs, "page", job[c])
      /\ UNCHANGED <<docs, ndocs>> /\ PageLimit \in Nat
  BY StoreAssumption DEF Page, Step, SearchInv, LinkInv, StoreInv, ClientsTyped
<1>1. SUFFICES ASSUME job'[c].calm PROVE Paged(docs', ndocs', pc'[c], job'[c])
  BY DEF Paged
<1>2. PICK more : more = [job[c] EXCEPT !.got = S, !.offset = n]
  OBVIOUS
<1>3. /\ more.kind = "search" /\ more.got = S /\ more.offset = n /\ more.file = job[c].file
      /\ more.since = job[c].since /\ more.calm = job[c].calm
  BY <1>0, <1>2 DEF Job
<1>4. PICK last : last = [more EXCEPT !.reply = "found"]
  OBVIOUS
<1>5. last.kind = "search" /\ last.got = S /\ last.since = job[c].since /\ last.calm = job[c].calm
  BY <1>0, <1>2, <1>3, <1>4 DEF Job
<1>6. \/ job'[c] = more /\ pc'[c] = "page"
      \/ job'[c] = last /\ pc'[c] = "idle" /\ Cardinality(page) < PageLimit
  <2>1. [job[c] EXCEPT !.got = @ \cup page, !.offset = @ + PageLimit] = more
    BY <1>2
  <2>2. \/ Step(c, "page", "page", more)
        \/ Step(c, "page", "idle", last) /\ Cardinality(page) < PageLimit
    BY <1>4, <2>1 DEF Page
  <2> QED BY <2>2, <1>0 DEF Step, Goto, LinkInv, StoreInv, ClientsTyped
<1>7. job[c].calm /\ job[c].file = None /\ page = PageAt(Present(docs), job[c].offset)
  <2>1. job[c].calm
    BY <1>1, <1>3, <1>5, <1>6
  <2>2. job[c].file = None
    BY <1>0, <2>1 DEF Paged
  <2> QED BY <2>1, <2>2, PresentFinite
<1>8. ASSUME NEW d \in job[c].since, Cardinality(Below(Present(docs), d)) < n
      PROVE  d \in S
  <2>1. d \in DocIds /\ d \in Present(docs)
    BY <1>0, <1>7 DEF Paged, Present, Job
  <2>2. Below(Present(docs), d) \in SUBSET Present(docs)
    BY DEF Below
  <2>3. Cardinality(Below(Present(docs), d)) \in Nat
    BY <2>2, PresentFinite, FS_Subset, FS_CardinalityType
  <2>4. CASE Cardinality(Below(Present(docs), d)) < job[c].offset
    BY <1>0, <1>7, <2>4 DEF Paged
  <2>5. CASE job[c].offset <= Cardinality(Below(Present(docs), d))
    BY <1>7, <1>8, <2>1, <2>5 DEF PageAt, Below
  <2>6. job[c].offset \in Nat
    BY <1>0 DEF Job
  <2> QED BY <2>3, <2>4, <2>5, <2>6
<1>9. CASE job'[c] = more /\ pc'[c] = "page"
  <2>1. \A d \in job[c].since : d <= ndocs /\ docs[d] # None
    BY <1>0, <1>7 DEF Paged
  <2> HIDE DEF S, n
  <2> QED BY <1>0, <1>3, <1>7, <1>8, <1>9, <2>1 DEF Paged
<1>10. CASE job'[c] = last /\ pc'[c] = "idle" /\ Cardinality(page) < PageLimit
  <2>1. \A d \in Present(docs) : Cardinality(Below(Present(docs), d)) < n
    <3>1. job[c].offset \in Nat
      BY <1>0 DEF Job
    <3> QED BY <1>7, <1>10, <3>1, PresentFinite, ShortPage
  <2>2. \A d \in job[c].since : d \in Present(docs)
    BY <1>0, <1>7 DEF Paged, Present, Job
  <2>3. job[c].since \subseteq S
    BY <1>8, <2>1, <2>2
  <2> HIDE DEF S, n
  <2> QED BY <1>5, <1>10, <2>3 DEF Paged
<1> QED BY <1>6, <1>9, <1>10

LEMMA ActorPaged ==
  ASSUME SearchInv, NEW c \in Clients, Acts(c)
  PROVE  Paged(docs', ndocs', pc'[c], job'[c])
<1>0. LinkInv /\ CarriedAt(pc[c], job[c]) /\ job[c] \in Job /\ pc[c] \in Places
  BY DEF SearchInv, LinkInv, StoreInv, ClientsTyped, Carried
<1>1. CASE pc[c] = "idle"
  BY <1>1, BeginPaged
<1>2. CASE pc[c] # "idle" /\ job[c].kind # "search"
  BY <1>0, <1>2, KindStays DEF Paged
<1>3. CASE pc[c] # "idle" /\ job[c].kind = "search"
  <2>1. pc[c] = "page"
    BY <1>0, <1>3 DEF CarriedAt
  <2>2. Page(c) \/ Fail(c)
    BY <2>1 DEF Acts, Upload, DeletePrediction, SearchFiles, Begin, Step, Provision, ProvisionBucket, FindByHash,
       Verify, DropOrphan, Update, Amend, Ensure, Dedup, DedupByName, Put, Describe, Record, Remove, Purge, PutUnanswered
  <2>3. CASE Fail(c)
    <3>1. Reply(c, "failed")
      BY <1>3, <2>1, <2>3 DEF Fail, Cope
    <3>2. PICK b : b = [Idle EXCEPT !.kind = job[c].kind, !.reply = "failed"]
      OBVIOUS
    <3>3. job'[c] = b /\ b.reply = "failed" /\ pc'[c] = "idle"
      BY <1>0, <3>1, <3>2 DEF Reply, Goto, Idle, LinkInv, StoreInv, ClientsTyped
    <3> QED BY <3>3 DEF Paged
  <2> QED BY <1>3, <2>2, <2>3, PagePaged
<1> QED BY <1>1, <1>2, <1>3

LEMMA SearchInvStep == SearchInv /\ [Next]_vars => SearchInv'
<1> SUFFICES ASSUME SearchInv, [Next]_vars PROVE SearchInv'
  OBVIOUS
<1>1. LinkInv'
  BY LinkInvStep DEF SearchInv
<1>2. CASE UNCHANGED vars
  BY <1>1, <1>2 DEF vars, SearchInv
<1>3. ASSUME NEW c \in Clients, Acts(c) PROVE SearchInv'
  <2>1. ASSUME NEW x \in Clients, x # c PROVE Paged(docs', ndocs', pc'[x], job'[x])
    <3>1. Bystander(x) /\ job[x] \in Job /\ Paged(docs, ndocs, pc[x], job[x]) /\ LinkInv
      BY <1>3, <2>1, OthersStand DEF SearchInv, LinkInv, StoreInv, ClientsTyped
    <3> QED BY <1>3, <3>1, StillPaged DEF Bystander
  <2> QED BY <1>1, <1>3, <2>1, ActorPaged DEF SearchInv
<1> QED BY <1>2, <1>3 DEF Next, Acts

LEMMA SearchInvInit == Init => SearchInv
<1> SUFFICES ASSUME Init PROVE SearchInv
  OBVIOUS
<1>1. LinkInv
  BY LinkInvInit
<1>2. Idle.reply = "none"
  BY DEF Idle
<1>3. \A c \in Clients : Paged(docs, ndocs, pc[c], job[c])
  BY <1>2 DEF Init, Paged
<1> QED BY <1>1, <1>3 DEF SearchInv

\* A search that nothing was deleted under found every document that was there when it
\* began, however many pages it took and whatever was created or updated between them.
THEOREM SearchesAreComplete == Spec => []SearchIsComplete
<1>1. TruthInv /\ SearchInv => SearchIsComplete
  <2> SUFFICES ASSUME TruthInv, SearchInv, NEW c \in Clients,
                      job[c].kind = "search", job[c].reply = "found", job[c].calm
               PROVE  job[c].since \subseteq job[c].got
    BY DEF SearchIsComplete
  <2>1. pc[c] # "page"
    BY DEF TruthInv, Upholds
  <2> QED BY <2>1 DEF SearchInv, Paged
<1> QED BY <1>1, TruthInvInit, TruthInvStep, SearchInvInit, SearchInvStep, PTL DEF Spec
===============================================================================
