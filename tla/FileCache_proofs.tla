---------------------------- MODULE FileCache_proofs ----------------------------
(***************************************************************************)
(* Proofs about FileCache, for any number of managers, files and names,     *)
(* and of failures, deaths, deletions and hours.                            *)
(***************************************************************************)
EXTENDS FileCache, TLAPS

\* A file lies under its name or, when that was not to be had, under its id.
PathOf(f, names) == {names[f], f}

\* What is known of an operation o whose manager is at step s.
OpOK(o, s, c, wr, ct, now, names) ==
    /\ s \in {"info", "stat", "validate", "get", "fill"} => o.kind = "download"
    /\ s = "read" => o.kind \in {"download", "send"}
    /\ s \in {"remove", "forget"} => o.kind = "delete"
    /\ o.kind # "clear" => o.file \in Files
    /\ s \in {"validate", "read", "get", "fill"} \/ (s = "save" /\ o.kind = "download") =>
          o.path \in PathOf(o.file, names)
    /\ s = "fill" /\ o.hold = "shared" => o.path \in ct
    /\ s \in {"fill", "save"} /\ o.kind = "download" => now <= wr[o.path]
    /\ s = "read" => /\ c[o.path] # Nothing \/ o.excused
                     /\ o.kind = "download" => now <= wr[o.path] + CacheTtl

\* An entry never makes a copy out to be younger than it is.
IndexOK(x, now, wr, names) ==
    \A f \in Files : x[f] # Nothing =>
        x[f].path \in PathOf(f, names) /\ x[f].at <= now /\ x[f].at <= wr[x[f].path]

IndexesOK(own, ix, now, wr, names) ==
    /\ own \in [Holders -> Indexes] /\ \A h \in Holders : IndexOK(own[h], now, wr, names)
    /\ ix \in Indexes \cup {Torn} /\ (ix # Torn => IndexOK(ix, now, wr, names))

AnswerOK(a, st, names) ==
    /\ a.reply = "ok" /\ a.bytes \in Files => names[a.bytes] = names[a.file]
    /\ ~a.aged
    /\ a.reply = "failed" => a.excused \/ a.file \notin st

\* The bytes at a path belong there, and a torn copy was cut short or is being written by
\* somebody who still has the file.
ContentsOK ==
    \A p \in Paths :
        /\ contents[p] \in Files => p \in PathOf(contents[p], nameOf)
        /\ contents[p] = Torn => p \in cut \/ \E h \in Filling(p) : fetch[h].hold # "removed"

OperationsOK ==
    \A h \in Holders : OpOK(fetch[h], step[h], contents, written, cut, hour, nameOf)

WrittenOK == \A p \in Paths : written[p] <= hour

CacheInv ==
    /\ FileCacheTypeOK /\ ContentsOK /\ OperationsOK /\ WrittenOK
    /\ IndexesOK(mine, index, hour, written, nameOf)
    /\ AnswerOK(answer, stored, nameOf)

-------------------------------------------------------------------------------
(* Lemmas *)

LEMMA NothingYet ==
    /\ NoOperation \in Operation /\ NoAnswer \in Outcome
    /\ \A st, names : AnswerOK(NoAnswer, st, names)
    /\ \A s \in {"idle", "save", "saved"} : \A c, wr, ct, now, names :
          OpOK(NoOperation, s, c, wr, ct, now, names)
BY DEF NoOperation, NoAnswer, Operation, Outcome, AnswerOK, OpOK

LEMMA PathsTyped ==
    ASSUME NEW names \in [Files -> Names], NEW f \in Files PROVE PathOf(f, names) \subseteq Paths
BY DEF PathOf, Paths

\* Indexes stay sound while the paths are written anew.
LEMMA IndexesLater ==
    ASSUME NEW own, NEW ix, NEW now \in Hours, NEW now2 \in Hours, now <= now2,
           NEW wr \in [Paths -> Hours], NEW wr2 \in [Paths -> Hours],
           NEW names \in [Files -> Names],
           IndexesOK(own, ix, now, wr, names), \A p \in Paths : wr[p] <= wr2[p]
    PROVE  IndexesOK(own, ix, now2, wr2, names)
<1>1. ASSUME NEW x \in Indexes, IndexOK(x, now, wr, names) PROVE IndexOK(x, now2, wr2, names)
  <2> SUFFICES ASSUME NEW f \in Files, x[f] # Nothing
               PROVE  x[f].path \in PathOf(f, names) /\ x[f].at <= now2 /\ x[f].at <= wr2[x[f].path]
    BY DEF IndexOK
  <2>1. x[f].path \in PathOf(f, names) /\ x[f].at <= now /\ x[f].at <= wr[x[f].path]
    BY <1>1 DEF IndexOK
  <2>2. x[f].path \in Paths /\ x[f].at \in Nat
    <3>1. x[f] \in CacheMetadata
      BY DEF Indexes
    <3> QED BY <3>1, FileCacheAssumption DEF CacheMetadata, Hours
  <2>3. wr[x[f].path] \in Nat /\ wr2[x[f].path] \in Nat /\ now \in Nat /\ now2 \in Nat
    BY <2>2, FileCacheAssumption DEF Hours
  <2> QED BY <2>1, <2>2, <2>3
<1> QED BY <1>1 DEF IndexesOK

\* Manager h takes a step that writes no path.
LEMMA Quiet ==
    ASSUME CacheInv, NEW h \in Holders, NEW s \in Steps, NEW o \in Operation,
           step' = [step EXCEPT ![h] = s], fetch' = [fetch EXCEPT ![h] = o],
           UNCHANGED <<nameOf, hour, contents, written>>,
           cut \subseteq cut', cut' \subseteq Paths,
           step[h] = "fill" /\ fetch[h].hold # "removed" => fetch[h].path \in cut',
           stored' \subseteq Files, troubles' \in Nat,
           answer' \in Outcome, AnswerOK(answer', stored', nameOf),
           OpOK(o, s, contents, written, cut', hour, nameOf),
           IndexesOK(mine', index', hour, written, nameOf)
    PROVE  CacheInv'
<1>1. FileCacheTypeOK'
  BY DEF CacheInv, FileCacheTypeOK, IndexesOK
<1>2. ContentsOK'
  <2> SUFFICES ASSUME NEW p \in Paths, contents[p] = Torn, p \notin cut'
               PROVE  \E g \in Filling(p)' : fetch'[g].hold # "removed"
    BY DEF CacheInv, ContentsOK
  <2>1. PICK g \in Filling(p) : fetch[g].hold # "removed"
    BY DEF CacheInv, ContentsOK
  <2>2. g # h
    BY <2>1 DEF Filling
  <2> QED BY <2>1, <2>2 DEF Filling, CacheInv, FileCacheTypeOK
<1>3. OperationsOK'
  <2> SUFFICES ASSUME NEW g \in Holders
               PROVE  OpOK(fetch'[g], step'[g], contents, written, cut', hour, nameOf)
    BY DEF OperationsOK
  <2>1. CASE g = h
    BY <2>1 DEF CacheInv, FileCacheTypeOK
  <2>2. CASE g # h
    <3>1. fetch'[g] = fetch[g] /\ step'[g] = step[g]
      BY <2>2 DEF CacheInv, FileCacheTypeOK
    <3>2. OpOK(fetch[g], step[g], contents, written, cut, hour, nameOf)
      BY DEF CacheInv, OperationsOK
    <3> QED BY <3>1, <3>2 DEF OpOK
  <2> QED BY <2>1, <2>2
<1>4. WrittenOK'
  BY DEF CacheInv, WrittenOK
<1> QED BY <1>1, <1>2, <1>3, <1>4 DEF CacheInv

\* What a manager is about.
LEMMA HereIs ==
    ASSUME CacheInv, NEW h \in Holders
    PROVE  /\ fetch[h] \in Operation /\ step[h] \in Steps
           /\ OpOK(fetch[h], step[h], contents, written, cut, hour, nameOf)
           /\ mine[h] \in Indexes /\ IndexOK(mine[h], hour, written, nameOf)
           /\ stored \subseteq Files /\ nameOf \in [Files -> Names] /\ written \in [Paths -> Hours]
           /\ contents \in [Paths -> Files \cup {Torn, Nothing}] /\ cut \subseteq Paths
           /\ hour \in Hours /\ hour \in Nat /\ troubles \in Nat
<1>1. hour \in Hours
  BY DEF CacheInv, FileCacheTypeOK
<1>2. hour \in Nat
  BY <1>1, FileCacheAssumption DEF Hours
<1> QED BY <1>1, <1>2 DEF CacheInv, FileCacheTypeOK, OperationsOK, IndexesOK

LEMMA OverTyped ==
    ASSUME CacheInv, NEW h \in Holders, NEW r \in {"ok", "missing", "failed"},
           NEW b \in Files \cup {Torn, Nothing}, NEW a, a = Over(h, r, b)
    PROVE  /\ a \in Outcome /\ a.file = fetch[h].file
           /\ a.reply = r /\ a.bytes = b /\ ~a.aged /\ ~a.excused
<1> PICK f : f = fetch[h].file
  OBVIOUS
<1>1. f \in Files \cup {Nothing}
  BY HereIs DEF Operation
<1>2. a = [NoAnswer EXCEPT !.file = f, !.reply = r, !.bytes = b]
  BY DEF Over
<1> QED BY <1>1, <1>2 DEF NoAnswer, Outcome

\* An operation goes on.
LEMMA Went ==
    ASSUME CacheInv, NEW h \in Holders, NEW s \in Steps, NEW o \in Operation, Go(h, s, o),
           UNCHANGED <<nameOf, hour, Disk, mine>>, step[h] # "fill",
           stored' \subseteq Files, troubles' \in Nat,
           OpOK(o, s, contents, written, cut, hour, nameOf)
    PROVE  CacheInv'
<1>1. answer' \in Outcome /\ AnswerOK(answer', stored', nameOf)
  BY NothingYet DEF Go, To
<1>2. IndexesOK(mine', index', hour, written, nameOf)
  BY DEF CacheInv, Disk
<1>3. cut \subseteq cut' /\ cut' \subseteq Paths /\ UNCHANGED <<nameOf, hour, contents, written>>
  BY HereIs DEF Disk
<1>4. step' = [step EXCEPT ![h] = s] /\ fetch' = [fetch EXCEPT ![h] = o]
  BY DEF Go, To
<1>5. OpOK(o, s, contents, written, cut', hour, nameOf)
  BY DEF Disk
<1> QED BY <1>1, <1>2, <1>3, <1>4, <1>5, Quiet

\* An operation is answered.
LEMMA Ended ==
    ASSUME CacheInv, NEW h \in Holders, NEW a \in Outcome, Finish(h, a),
           UNCHANGED <<nameOf, hour, contents, written>>,
           cut \subseteq cut', cut' \subseteq Paths,
           step[h] = "fill" /\ fetch[h].hold # "removed" => fetch[h].path \in cut',
           stored' \subseteq Files, troubles' \in Nat, AnswerOK(a, stored', nameOf),
           IndexesOK(mine', index', hour, written, nameOf)
    PROVE  CacheInv'
<1>1. OpOK(NoOperation, "idle", contents, written, cut', hour, nameOf)
  BY NothingYet
<1>2. /\ step' = [step EXCEPT ![h] = "idle"] /\ fetch' = [fetch EXCEPT ![h] = NoOperation]
      /\ answer' = a
  BY DEF Finish
<1>3. "idle" \in Steps
  BY DEF Steps
<1> QED BY <1>1, <1>2, <1>3, NothingYet, Quiet

-------------------------------------------------------------------------------
(* The steps of an operation that write no path *)

LEMMA BlamedTyped ==
    ASSUME CacheInv, NEW f, NEW told, Blamed(f, told) PROVE troubles' \in Nat
<1>1. troubles \in Nat
  BY DEF CacheInv, FileCacheTypeOK
<1> QED BY <1>1 DEF Blamed

LEMMA DownloadKeeps ==
    ASSUME CacheInv, NEW h \in Holders, NEW f \in Files, NEW cached \in BOOLEAN,
           NEW route \in BOOLEAN, Download(h, f, cached, route)
    PROVE  CacheInv'
<1> PICK o : o = [NoOperation EXCEPT !.kind = "download", !.file = f, !.cached = cached]
  OBVIOUS
<1> PICK s : s = IF route THEN "info" ELSE "stat"
  OBVIOUS
<1>1. o \in Operation /\ o.kind = "download" /\ o.file = f
  BY DEF NoOperation, Operation
<1>2. OpOK(o, s, contents, written, cut, hour, nameOf)
  BY <1>1 DEF OpOK
<1>3. Go(h, s, o) /\ UNCHANGED <<World, Disk, mine>> /\ step[h] = "idle"
  BY DEF Download
<1> QED BY <1>1, <1>2, <1>3, HereIs, Went DEF World, Steps

LEMMA SendCachedKeeps ==
    ASSUME CacheInv, NEW h \in Holders, NEW f \in Files, SendCached(h, f)
    PROVE  CacheInv'
<1> PICK p : p = mine[h][f].path
  OBVIOUS
<1> PICK o : o = [NoOperation EXCEPT !.kind = "send", !.file = f, !.path = p]
  OBVIOUS
<1>1. p \in PathOf(f, nameOf) /\ p \in Paths /\ contents[p] # Nothing
  BY HereIs, PathsTyped DEF SendCached, OnDisk, IndexOK
<1>2. o \in Operation /\ o.kind = "send" /\ o.file = f /\ o.path = p
  BY <1>1 DEF NoOperation, Operation
<1>3. OpOK(o, "read", contents, written, cut, hour, nameOf)
  BY <1>1, <1>2 DEF OpOK
<1>4. Go(h, "read", o) /\ UNCHANGED <<World, Disk, mine>> /\ step[h] = "idle"
  BY DEF SendCached
<1> QED BY <1>2, <1>3, <1>4, HereIs, Went DEF World, Steps

LEMMA InfoKeeps ==
    ASSUME CacheInv, NEW h \in Holders, Info(h) PROVE CacheInv'
<1> PICK told \in BOOLEAN :
        /\ Blamed(fetch[h].file, told)
        /\ IF told THEN Go(h, "stat", fetch[h]) ELSE Done(h, "missing", Nothing)
  BY DEF Info, Told
<1>1. step[h] = "info" /\ UNCHANGED <<nameOf, stored, hour, Disk, mine>> /\ troubles' \in Nat
  BY BlamedTyped DEF Info
<1>2. CASE told
  <2>1. OpOK(fetch[h], "stat", contents, written, cut, hour, nameOf)
    BY <1>1, HereIs DEF OpOK
  <2> QED BY <1>1, <1>2, <2>1, HereIs, Went DEF Steps
<1>3. CASE ~told
  <2> PICK a : a = Over(h, "missing", Nothing)
    OBVIOUS
  <2>1. a \in Outcome /\ AnswerOK(a, stored', nameOf)
    BY HereIs, OverTyped DEF AnswerOK
  <2>2. Finish(h, a)
    BY <1>3 DEF Done
  <2> QED BY <1>1, <2>1, <2>2, HereIs, Ended DEF Disk, CacheInv
<1> QED BY <1>2, <1>3

LEMMA StatKeeps ==
    ASSUME CacheInv, NEW h \in Holders, Stat(h) PROVE CacheInv'
<1> PICK told \in BOOLEAN :
        /\ Blamed(fetch[h].file, told)
        /\ Go(h, IF fetch[h].cached THEN "validate" ELSE "get",
              [fetch[h] EXCEPT !.path = NameInCache(fetch[h].file, told), !.cached = FALSE])
  BY DEF Stat, Told
<1> PICK p : p = NameInCache(fetch[h].file, told)
  OBVIOUS
<1> PICK b : b = fetch[h]
  OBVIOUS
<1> PICK o : o = [b EXCEPT !.path = p, !.cached = FALSE]
  OBVIOUS
<1> PICK s : s = IF b.cached THEN "validate" ELSE "get"
  OBVIOUS
<1>1. /\ step[h] = "stat" /\ UNCHANGED <<nameOf, stored, hour, Disk, mine>> /\ troubles' \in Nat
      /\ Go(h, s, o)
  BY BlamedTyped DEF Stat
<1>2. b \in Operation /\ b.kind = "download" /\ b.file \in Files
  BY <1>1, HereIs DEF OpOK
<1>3. p \in PathOf(b.file, nameOf) /\ p \in Paths
  BY <1>2, HereIs, PathsTyped DEF NameInCache, PathOf
<1>4. o \in Operation /\ o.kind = "download" /\ o.file = b.file /\ o.path = p
  BY <1>2, <1>3 DEF Operation
<1>5. OpOK(o, s, contents, written, cut, hour, nameOf)
  BY <1>2, <1>3, <1>4 DEF OpOK
<1> QED BY <1>1, <1>4, <1>5, HereIs, Went DEF Steps

LEMMA ValidateKeeps ==
    ASSUME CacheInv, NEW h \in Holders, Validate(h) PROVE CacheInv'
<1> PICK b : b = fetch[h]
  OBVIOUS
<1> PICK entry : entry = mine[h][b.file]
  OBVIOUS
<1>0. /\ step[h] = "validate" /\ UNCHANGED <<World, Disk, mine>>
      /\ \/ Fresh(entry) /\ Go(h, "read", [b EXCEPT !.path = entry.path])
         \/ Go(h, "get", b)
  BY DEF Validate
<1>1. b \in Operation /\ b.kind = "download" /\ b.file \in Files /\ b.path \in PathOf(b.file, nameOf)
  BY <1>0, HereIs DEF OpOK
<1>2. CASE Go(h, "get", b)
  <2>1. OpOK(b, "get", contents, written, cut, hour, nameOf)
    BY <1>1 DEF OpOK
  <2> QED BY <1>0, <1>1, <1>2, <2>1, HereIs, Went DEF Steps, World
<1>3. CASE Fresh(entry) /\ Go(h, "read", [b EXCEPT !.path = entry.path])
  <2> PICK p : p = entry.path
    OBVIOUS
  <2> PICK o : o = [b EXCEPT !.path = p]
    OBVIOUS
  <2>1. /\ p \in PathOf(b.file, nameOf) /\ contents[p] # Nothing
        /\ entry.at <= written[p] /\ hour <= entry.at + CacheTtl /\ entry \in CacheMetadata
    BY <1>1, <1>3, HereIs DEF Fresh, OnDisk, IndexOK, Indexes
  <2>2. p \in Paths /\ written[p] \in Nat /\ entry.at \in Nat
    BY <1>1, <2>1, PathsTyped, HereIs, FileCacheAssumption DEF CacheMetadata, Hours
  <2>3. hour <= written[p] + CacheTtl
    BY <2>1, <2>2, HereIs, FileCacheAssumption
  <2>4. o \in Operation /\ o.kind = "download" /\ o.file = b.file /\ o.path = p
    BY <1>1, <2>2 DEF Operation
  <2>5. OpOK(o, "read", contents, written, cut, hour, nameOf)
    BY <1>1, <2>1, <2>3, <2>4 DEF OpOK
  <2> QED BY <1>0, <1>3, <2>4, <2>5, HereIs, Went DEF Steps, World
<1> QED BY <1>0, <1>2, <1>3

\* An operation fails with an excuse, or because the file is not in the bucket.
LEMMA FailedKeeps ==
    ASSUME CacheInv, NEW h \in Holders, NEW e \in BOOLEAN, Failed(h, e),
           UNCHANGED <<nameOf, hour, contents, written>>,
           cut \subseteq cut', cut' \subseteq Paths,
           step[h] = "fill" /\ fetch[h].hold # "removed" => fetch[h].path \in cut',
           stored' \subseteq Files, troubles' \in Nat, e \/ fetch[h].file \notin stored',
           IndexesOK(mine', index', hour, written, nameOf)
    PROVE  CacheInv'
<1> PICK b : b = Over(h, "failed", Nothing)
  OBVIOUS
<1> PICK a : a = [b EXCEPT !.excused = e]
  OBVIOUS
<1>1. b \in Outcome /\ b.file = fetch[h].file /\ b.reply = "failed" /\ ~b.aged
  <2>1. fetch[h] \in Operation
    BY HereIs
  <2> QED BY <2>1, OverTyped
<1>2. a \in Outcome /\ a.file = b.file /\ a.reply = "failed" /\ ~a.aged /\ a.excused = e
  BY <1>1 DEF Outcome
<1>3. AnswerOK(a, stored', nameOf)
  BY <1>1, <1>2 DEF AnswerOK
<1>4. Finish(h, a)
  BY DEF Failed
<1> QED BY <1>2, <1>3, <1>4, Ended

\* An operation that stored or removed something is answered.
LEMMA FinishedKeeps ==
    ASSUME CacheInv, NEW h \in Holders, Finished(h), step[h] # "fill",
           UNCHANGED <<nameOf, hour, contents, written>>,
           cut \subseteq cut', cut' \subseteq Paths, stored' \subseteq Files, troubles' \in Nat,
           IndexesOK(mine', index', hour, written, nameOf)
    PROVE  CacheInv'
<1> PICK b : b = IF fetch[h].kind = "download" THEN fetch[h].file ELSE Nothing
  OBVIOUS
<1> PICK a : a = Over(h, "ok", b)
  OBVIOUS
<1>1. b \in Files \cup {Nothing} /\ (b \in Files => b = fetch[h].file)
  BY HereIs, FileCacheAssumption DEF Operation
<1>2. a \in Outcome /\ a.file = fetch[h].file /\ a.reply = "ok" /\ ~a.aged /\ a.bytes = b
  <2>1. fetch[h] \in Operation /\ b \in Files \cup {Torn, Nothing}
    BY <1>1, HereIs
  <2> QED BY <2>1, OverTyped
<1>3. AnswerOK(a, stored', nameOf)
  BY <1>1, <1>2 DEF AnswerOK
<1>4. Finish(h, a)
  BY DEF Finished, Done
<1> QED BY <1>2, <1>3, <1>4, Ended

LEMMA ReadKeeps ==
    ASSUME CacheInv, NEW h \in Holders, Read(h) PROVE CacheInv'
<1> PICK p : p = fetch[h].path
  OBVIOUS
<1>0. step[h] = "read" /\ UNCHANGED <<World, Disk, mine>>
  BY DEF Read
<1>1. /\ fetch[h].file \in Files /\ p \in PathOf(fetch[h].file, nameOf) /\ p \in Paths
      /\ contents[p] # Nothing \/ fetch[h].excused
      /\ fetch[h].kind = "download" => hour <= written[p] + CacheTtl
  BY <1>0, HereIs, PathsTyped DEF OpOK
<1>2. IndexesOK(mine', index', hour, written, nameOf) /\ cut' = cut
  BY <1>0 DEF CacheInv, Disk
<1>3. CASE OnDisk(p)
  <2> PICK aged : aged = (fetch[h].kind = "download" /\ hour > written[p] + CacheTtl)
    OBVIOUS
  <2> PICK b : b = Over(h, "ok", contents[p])
    OBVIOUS
  <2> PICK a : a = [b EXCEPT !.aged = aged]
    OBVIOUS
  <2>1. Finish(h, a)
    BY <1>3 DEF Read
  <2>2. aged = FALSE
    <3>1. written[p] \in Nat /\ CacheTtl \in Nat /\ hour \in Nat
      BY <1>1, HereIs, FileCacheAssumption DEF Hours
    <3>2. hour <= written[p] + CacheTtl => ~(hour > written[p] + CacheTtl)
      BY <3>1
    <3>3. ~(fetch[h].kind = "download" /\ hour > written[p] + CacheTtl)
      BY <1>1, <3>2
    <3> QED BY <3>3, Zenon
  <2>3. b \in Outcome /\ b.file = fetch[h].file /\ b.reply = "ok" /\ b.bytes = contents[p]
    <3>1. fetch[h] \in Operation /\ contents[p] \in Files \cup {Torn, Nothing}
      BY <1>1, HereIs
    <3> QED BY <3>1, OverTyped
  <2>4. a \in Outcome /\ a.file = b.file /\ a.reply = "ok" /\ a.bytes = b.bytes /\ ~a.aged
    BY <2>2, <2>3 DEF Outcome
  <2>5. contents[p] \in Files => p \in PathOf(contents[p], nameOf)
    BY <1>1 DEF CacheInv, ContentsOK
  <2>6. a.bytes \in Files => nameOf[a.bytes] = nameOf[a.file]
    BY <1>1, <2>3, <2>4, <2>5, HereIs, FileCacheAssumption DEF PathOf
  <2>7. AnswerOK(a, stored', nameOf)
    BY <2>4, <2>6 DEF AnswerOK
  <2> QED BY <1>0, <1>2, <2>1, <2>4, <2>7, HereIs, Ended DEF World, Disk
<1>4. CASE ~OnDisk(p)
  <2>1. fetch[h].excused = TRUE
    BY <1>1, <1>4, HereIs, FileCacheAssumption DEF OnDisk, Operation
  <2>2. Failed(h, TRUE)
    BY <1>4, <2>1 DEF Read
  <2> QED BY <1>0, <1>2, <2>2, HereIs, FailedKeeps DEF World, Disk
<1> QED BY <1>3, <1>4

LEMMA GetNoneKeeps ==
    ASSUME CacheInv, NEW h \in Holders, GetNone(h) PROVE CacheInv'
<1>1. /\ step[h] = "get" /\ fetch[h].file \notin stored /\ UNCHANGED <<World, Disk, mine>>
      /\ Failed(h, fetch[h].excused)
  BY DEF GetNone
<1>2. fetch[h].excused \in BOOLEAN
  BY HereIs DEF Operation
<1>3. IndexesOK(mine', index', hour, written, nameOf) /\ cut' = cut
  BY <1>1 DEF CacheInv, Disk
<1> QED BY <1>1, <1>2, <1>3, HereIs, FailedKeeps DEF World, Disk

LEMMA DeleteKeeps ==
    ASSUME CacheInv, NEW h \in Holders, NEW f \in Files, Delete(h, f) PROVE CacheInv'
<1> PICK o : o = [NoOperation EXCEPT !.kind = "delete", !.file = f]
  OBVIOUS
<1>1. o \in Operation /\ o.kind = "delete" /\ o.file = f
  BY DEF NoOperation, Operation
<1>2. OpOK(o, "remove", contents, written, cut, hour, nameOf)
  BY <1>1 DEF OpOK
<1>3. /\ Go(h, "remove", o) /\ step[h] = "idle" /\ troubles' = troubles + 1
      /\ UNCHANGED <<nameOf, stored, hour, Disk, mine>>
  BY DEF Delete
<1> QED BY <1>1, <1>2, <1>3, HereIs, Went DEF Steps

LEMMA RemoveKeeps ==
    ASSUME CacheInv, NEW h \in Holders, Discard(h) PROVE CacheInv'
<1>1. /\ step[h] = "remove" /\ UNCHANGED <<nameOf, hour, troubles, Disk, mine>>
      /\ stored' = stored \ {fetch[h].file}
      /\ Go(h, "forget", fetch[h]) \/ Failed(h, FALSE)
  BY DEF Discard
<1>2. CASE Go(h, "forget", fetch[h])
  <2>1. OpOK(fetch[h], "forget", contents, written, cut, hour, nameOf)
    BY <1>1, HereIs DEF OpOK
  <2> QED BY <1>1, <1>2, <2>1, HereIs, Went DEF Steps
<1>3. CASE Failed(h, FALSE)
  <2>1. IndexesOK(mine', index', hour, written, nameOf) /\ cut' = cut
    BY <1>1 DEF CacheInv, Disk
  <2>2. fetch[h].file \notin stored'
    BY <1>1
  <2> QED BY <1>1, <1>3, <2>1, <2>2, HereIs, FailedKeeps DEF Disk
<1> QED BY <1>1, <1>2, <1>3

-------------------------------------------------------------------------------
(* The index *)

LEMMA EnteredOK ==
    ASSUME CacheInv, NEW h \in Holders, step[h] = "save",
           NEW ix \in Indexes \cup {Torn}, ix # Torn => IndexOK(ix, hour, written, nameOf)
    PROVE  IndexesOK(Entered(h), ix, hour, written, nameOf)
<1>1. IndexesOK(mine, ix, hour, written, nameOf)
  BY DEF CacheInv, IndexesOK
<1>2. CASE fetch[h].kind # "download"
  BY <1>1, <1>2 DEF Entered
<1>3. CASE fetch[h].kind = "download"
  <2> PICK f, p : f = fetch[h].file /\ p = fetch[h].path
    OBVIOUS
  <2> PICK e : e = [path |-> p, at |-> hour]
    OBVIOUS
  <2> PICK x : x = [mine[h] EXCEPT ![f] = e]
    OBVIOUS
  <2>1. f \in Files /\ p \in PathOf(f, nameOf) /\ p \in Paths /\ hour <= written[p]
    BY <1>3, HereIs, PathsTyped DEF OpOK
  <2>2. e \in CacheMetadata /\ e.path = p /\ e.at = hour
    BY <2>1, HereIs DEF CacheMetadata
  <2>3. x \in Indexes
    BY <2>1, <2>2, HereIs DEF Indexes
  <2>4. IndexOK(x, hour, written, nameOf)
    <3>1. hour <= hour
      BY HereIs
    <3>2. \A g \in Files : x[g] = IF g = f THEN e ELSE mine[h][g]
      BY <2>1, HereIs DEF Indexes
    <3> QED BY <2>1, <2>2, <3>1, <3>2, HereIs DEF IndexOK
  <2>5. Entered(h) = [mine EXCEPT ![h] = x]
    BY <1>3 DEF Entered
  <2> QED BY <1>1, <2>3, <2>4, <2>5 DEF IndexesOK
<1> QED BY <1>2, <1>3

LEMMA LoadedOK ==
    ASSUME CacheInv, NEW h
    PROVE  IndexesOK([mine EXCEPT ![h] = Loaded], index, hour, written, nameOf)
<1>1. Loaded \in Indexes /\ IndexOK(Loaded, hour, written, nameOf)
  <2>1. NoEntries \in Indexes /\ IndexOK(NoEntries, hour, written, nameOf)
    BY DEF NoEntries, Indexes, IndexOK
  <2> QED BY <2>1 DEF CacheInv, IndexesOK, Loaded
<1> QED BY <1>1 DEF CacheInv, IndexesOK

LEMMA SaveKeeps ==
    ASSUME CacheInv, NEW h \in Holders, Save(h) PROVE CacheInv'
<1> PICK b : b = fetch[h]
  OBVIOUS
<1> PICK o : o = [b EXCEPT !.path = Nothing]
  OBVIOUS
<1>1. /\ step[h] = "save" /\ mine' = Entered(h) /\ index' = Torn /\ Go(h, "saved", o)
      /\ UNCHANGED <<World, contents, written, cut>>
  BY DEF Save
<1>2. b \in Operation /\ (b.kind # "clear" => b.file \in Files)
  BY HereIs DEF OpOK
<1>3. o \in Operation /\ o.kind = b.kind /\ o.file = b.file
  BY <1>2 DEF Operation
<1>4. OpOK(o, "saved", contents, written, cut, hour, nameOf)
  BY <1>2, <1>3 DEF OpOK
<1>5. IndexesOK(mine', index', hour, written, nameOf)
  BY <1>1, EnteredOK
<1>6. answer' \in Outcome /\ AnswerOK(answer', stored', nameOf)
  BY <1>1, NothingYet DEF Go, To
<1>7. step' = [step EXCEPT ![h] = "saved"] /\ fetch' = [fetch EXCEPT ![h] = o]
  BY <1>1 DEF Go, To
<1>8. "saved" \in Steps /\ UNCHANGED <<nameOf, hour, contents, written, cut, stored, troubles>>
  BY <1>1 DEF Steps, World
<1> QED BY <1>1, <1>3, <1>4, <1>5, <1>6, <1>7, <1>8, HereIs, Quiet

LEMMA SavedKeeps ==
    ASSUME CacheInv, NEW h \in Holders, Saved(h) PROVE CacheInv'
<1>1. /\ step[h] = "saved" /\ index' \in {mine[h], Torn} /\ Finished(h)
      /\ UNCHANGED <<World, contents, written, cut, mine>>
  BY DEF Saved
<1>2. IndexesOK(mine', index', hour, written, nameOf)
  BY <1>1, HereIs DEF CacheInv, IndexesOK
<1> QED BY <1>1, <1>2, HereIs, FinishedKeeps DEF World

LEMMA ConstructKeeps ==
    ASSUME CacheInv, NEW h \in Holders, Construct(h) PROVE CacheInv'
<1>1. step' = [step EXCEPT ![h] = step[h]] /\ fetch' = [fetch EXCEPT ![h] = fetch[h]]
  BY DEF Construct, CacheInv, FileCacheTypeOK
<1>2. IndexesOK(mine', index', hour, written, nameOf)
  BY LoadedOK DEF Construct, Disk
<1>3. /\ UNCHANGED <<nameOf, hour, contents, written, cut, stored, troubles>> /\ step[h] = "idle"
      /\ answer' = NoAnswer
  BY DEF Construct, Disk, World
<1> QED BY <1>1, <1>2, <1>3, HereIs, NothingYet, Quiet

\* A call fails or the process dies: what it was writing is cut short.
LEMMA SpoiltTyped ==
    ASSUME CacheInv, NEW h \in Holders, cut' = cut \cup Spoilt(h)
    PROVE  /\ cut \subseteq cut' /\ cut' \subseteq Paths
           /\ step[h] = "fill" /\ fetch[h].hold # "removed" => fetch[h].path \in cut'
<1>1. step[h] = "fill" => fetch[h].path \in Paths
  BY HereIs, PathsTyped DEF OpOK
<1> QED BY <1>1, HereIs DEF Spoilt

LEMMA TroubleKeeps ==
    ASSUME CacheInv, NEW h \in Holders, Trouble(h) PROVE CacheInv'
<1>1. /\ troubles' = troubles + 1 /\ cut' = cut \cup Spoilt(h)
      /\ UNCHANGED <<nameOf, stored, hour, contents, index, written>>
      /\ IF step[h] \in {"save", "saved"} THEN Finished(h) ELSE Failed(h, TRUE)
  BY DEF Trouble
<1>2. IndexesOK(mine', index', hour, written, nameOf)
  <2>1. CASE step[h] = "save"
    <3>1. mine' = Entered(h) /\ index' = index
      BY <2>1 DEF Trouble
    <3>2. index \in Indexes \cup {Torn} /\ (index # Torn => IndexOK(index, hour, written, nameOf))
      BY DEF CacheInv, IndexesOK
    <3> QED BY <2>1, <3>1, <3>2, EnteredOK
  <2>2. CASE step[h] # "save"
    BY <2>2 DEF Trouble, CacheInv
  <2> QED BY <2>1, <2>2
<1>3. troubles' \in Nat
  BY <1>1, HereIs
<1>4. CASE step[h] \in {"save", "saved"}
  BY <1>1, <1>2, <1>3, <1>4, HereIs, SpoiltTyped, FinishedKeeps
<1>5. CASE step[h] \notin {"save", "saved"}
  BY <1>1, <1>2, <1>3, <1>5, HereIs, SpoiltTyped, FailedKeeps
<1> QED BY <1>4, <1>5

LEMMA PerishKeeps ==
    ASSUME CacheInv, NEW h \in Holders, Perish(h) PROVE CacheInv'
<1>1. /\ troubles' = troubles + 1 /\ cut' = cut \cup Spoilt(h) /\ Go(h, "idle", NoOperation)
      /\ UNCHANGED <<nameOf, stored, hour, contents, index, written>>
      /\ mine' = [mine EXCEPT ![h] = Loaded]
  BY DEF Perish
<1>2. IndexesOK(mine', index', hour, written, nameOf) /\ troubles' \in Nat
  <2>1. IndexesOK([mine EXCEPT ![h] = Loaded], index, hour, written, nameOf)
    BY LoadedOK
  <2>2. troubles' \in Nat
    BY <1>1, HereIs
  <2> QED BY <1>1, <2>1, <2>2
<1>3. /\ answer' = NoAnswer /\ step' = [step EXCEPT ![h] = "idle"]
      /\ fetch' = [fetch EXCEPT ![h] = NoOperation]
  BY <1>1 DEF Go, To
<1>4. OpOK(NoOperation, "idle", contents, written, cut', hour, nameOf) /\ "idle" \in Steps
  BY NothingYet DEF Steps
<1> QED BY <1>1, <1>2, <1>3, <1>4, HereIs, NothingYet, SpoiltTyped, Quiet

\* An hour passes when no operation is under way.
LEMMA PassKeeps ==
    ASSUME CacheInv, Pass PROVE CacheInv'
<1>1. /\ hour' = hour + 1 /\ answer' = NoAnswer /\ \A h \in Holders : step[h] = "idle"
      /\ UNCHANGED <<nameOf, stored, troubles, contents, index, written, cut, mine, step, fetch>>
      /\ hour + troubles < MaxEvents
  BY DEF Pass, Disk, MayHappen
<1>2. hour \in Hours /\ hour' \in Hours /\ hour <= hour'
  <2>1. hour \in Nat /\ troubles \in Nat /\ MaxEvents \in Nat /\ hour \in Hours
    BY FileCacheAssumption DEF CacheInv, FileCacheTypeOK, Hours
  <2> QED BY <1>1, <2>1 DEF Hours
<1>3. FileCacheTypeOK' /\ AnswerOK(answer', stored', nameOf')
  BY <1>1, <1>2, NothingYet DEF CacheInv, FileCacheTypeOK
<1>4. ContentsOK'
  BY <1>1 DEF CacheInv, ContentsOK, Filling
<1>5. OperationsOK'
  BY <1>1 DEF CacheInv, OperationsOK, OpOK
<1>6. IndexesOK(mine', index', hour', written', nameOf')
  <2>1. \A p \in Paths : written[p] <= written[p]
    BY FileCacheAssumption DEF CacheInv, FileCacheTypeOK, Hours
  <2>2. written \in [Paths -> Hours] /\ nameOf \in [Files -> Names]
    BY DEF CacheInv, FileCacheTypeOK
  <2>3. IndexesOK(mine, index, hour, written, nameOf)
    BY DEF CacheInv
  <2>4. IndexesOK(mine, index, hour', written, nameOf)
    BY <1>2, <2>1, <2>2, <2>3, IndexesLater
  <2> QED BY <1>1, <2>4
<1>7. WrittenOK'
  <2> SUFFICES ASSUME NEW p \in Paths PROVE written[p] <= hour'
    BY <1>1 DEF WrittenOK
  <2>1. written[p] <= hour /\ written[p] \in Nat /\ hour \in Nat /\ hour' \in Nat
    BY <1>2, FileCacheAssumption DEF CacheInv, WrittenOK, FileCacheTypeOK, Hours
  <2> QED BY <1>2, <2>1
<1> QED BY <1>3, <1>4, <1>5, <1>6, <1>7 DEF CacheInv

-------------------------------------------------------------------------------
(* The steps that write or remove what is at a path *)

\* The operation of a manager that takes no part in a step.
LEMMA Others ==
    ASSUME CacheInv, NEW g \in Holders, UNCHANGED <<nameOf, hour>>, step'[g] = step[g],
           fetch'[g] \in Operation, fetch'[g].kind = fetch[g].kind,
           fetch'[g].file = fetch[g].file, fetch'[g].path = fetch[g].path,
           fetch[g].excused => fetch'[g].excused,
           step[g] = "fill" /\ fetch'[g].hold = "shared" => fetch'[g].path \in cut',
           written' \in [Paths -> Hours], \A q \in Paths : written[q] <= written'[q],
           step[g] = "read" /\ contents[fetch[g].path] # Nothing =>
               contents'[fetch[g].path] # Nothing \/ fetch'[g].excused
    PROVE  OpOK(fetch'[g], step'[g], contents', written', cut', hour', nameOf')
<1> PICK o, n, s : o = fetch[g] /\ n = fetch'[g] /\ s = step[g]
  OBVIOUS
<1> PICK c2, w2, k2 : c2 = contents' /\ w2 = written' /\ k2 = cut'
  OBVIOUS
<1>1. o \in Operation /\ s \in Steps /\ OpOK(o, s, contents, written, cut, hour, nameOf)
  BY HereIs
<1>2. hour \in Hours /\ nameOf \in [Files -> Names] /\ written \in [Paths -> Hours]
  BY HereIs
<1>3. n \in Operation /\ w2 \in [Paths -> Hours]
  OBVIOUS
<1>4. n.kind = o.kind /\ n.file = o.file /\ n.path = o.path /\ (o.excused => n.excused)
  OBVIOUS
<1>5. s = "fill" /\ n.hold = "shared" => n.path \in k2
  OBVIOUS
<1>6. s = "read" /\ contents[o.path] # Nothing => c2[o.path] # Nothing \/ n.excused
  OBVIOUS
<1>7. \A q \in Paths : written[q] <= w2[q]
  OBVIOUS
<1>8. s \in {"validate", "read", "get", "fill"} \/ (s = "save" /\ o.kind = "download") =>
          o.path \in Paths /\ o.file \in Files
  BY <1>1, <1>2, PathsTyped DEF OpOK
<1>9. hour \in Nat /\ CacheTtl \in Nat
      /\ (o.path \in Paths => /\ written[o.path] \in Nat /\ w2[o.path] \in Nat
                              /\ written[o.path] <= w2[o.path])
  BY <1>2, <1>3, <1>7, FileCacheAssumption DEF Hours
<1>10. s \in {"fill", "save"} /\ n.kind = "download" => hour <= w2[n.path]
  BY <1>1, <1>4, <1>8, <1>9 DEF OpOK
<1>11. s = "read" /\ n.kind = "download" => hour <= w2[n.path] + CacheTtl
  BY <1>1, <1>4, <1>8, <1>9 DEF OpOK
<1>12. s = "read" => c2[n.path] # Nothing \/ n.excused
  BY <1>1, <1>4, <1>6 DEF OpOK
<1>13. OpOK(n, s, c2, w2, k2, hour, nameOf)
  BY <1>1, <1>4, <1>5, <1>10, <1>11, <1>12 DEF OpOK
<1> QED BY <1>13

\* A path is opened for writing.
LEMMA GetKeeps ==
    ASSUME CacheInv, NEW h \in Holders, Get(h) PROVE CacheInv'
<1> PICK p : p = fetch[h].path
  OBVIOUS
<1> PICK others : others = {g \in Filling(p) : fetch[g].hold # "removed"}
  OBVIOUS
<1>1. /\ step[h] = "get" /\ step' = [step EXCEPT ![h] = "fill"] /\ answer' = NoAnswer
      /\ fetch' = [g \in Holders |->
            IF g = h THEN [fetch[h] EXCEPT !.hold = IF others = {} THEN "sole" ELSE "shared"]
            ELSE IF g \in others THEN [fetch[g] EXCEPT !.hold = "shared"] ELSE fetch[g]]
      /\ contents' = [contents EXCEPT ![p] = Torn] /\ written' = [written EXCEPT ![p] = hour]
      /\ cut' = IF others = {} THEN cut \ {p} ELSE cut \cup {p}
      /\ UNCHANGED <<nameOf, stored, hour, troubles, index, mine>>
  BY DEF Get, To, World
<1>2. /\ fetch[h].file \in Files /\ p \in PathOf(fetch[h].file, nameOf) /\ p \in Paths
      /\ fetch[h].kind = "download"
  BY <1>1, HereIs, PathsTyped DEF OpOK
<1>3. h \notin others /\ others \subseteq Holders /\ \A g \in others : step[g] = "fill" /\ fetch[g].path = p
  BY <1>1 DEF Filling
<1>4. \A g \in Holders :
          /\ fetch'[g] \in Operation /\ fetch'[g].kind = fetch[g].kind
          /\ fetch'[g].file = fetch[g].file /\ fetch'[g].path = fetch[g].path
          /\ fetch'[g].excused = fetch[g].excused
          /\ g \in others => fetch'[g].hold = "shared"
          /\ g \notin others \cup {h} => fetch'[g] = fetch[g]
          /\ g = h => fetch'[g].hold = IF others = {} THEN "sole" ELSE "shared"
  <2> SUFFICES ASSUME NEW g \in Holders
               PROVE  /\ fetch'[g] \in Operation /\ fetch'[g].kind = fetch[g].kind
                      /\ fetch'[g].file = fetch[g].file /\ fetch'[g].path = fetch[g].path
                      /\ fetch'[g].excused = fetch[g].excused
                      /\ g \in others => fetch'[g].hold = "shared"
                      /\ g \notin others \cup {h} => fetch'[g] = fetch[g]
                      /\ g = h => fetch'[g].hold = IF others = {} THEN "sole" ELSE "shared"
    OBVIOUS
  <2> PICK o, n : o = fetch[g] /\ n = fetch'[g]
    OBVIOUS
  <2> PICK x : x = IF others = {} THEN "sole" ELSE "shared"
    OBVIOUS
  <2>1. o \in Operation
    BY HereIs
  <2>2. CASE g = h
    <3>1. n = [o EXCEPT !.hold = x] /\ x \in {"sole", "shared"}
      BY <1>1, <2>2
    <3>2. /\ n \in Operation /\ n.kind = o.kind /\ n.file = o.file /\ n.path = o.path
          /\ n.excused = o.excused /\ n.hold = x
      BY <2>1, <3>1 DEF Operation
    <3> QED BY <1>3, <2>2, <3>2
  <2>3. CASE g \in others
    <3>1. n = [o EXCEPT !.hold = "shared"] /\ g # h
      BY <1>1, <1>3, <2>3
    <3>2. /\ n \in Operation /\ n.kind = o.kind /\ n.file = o.file /\ n.path = o.path
          /\ n.excused = o.excused /\ n.hold = "shared"
      BY <2>1, <3>1 DEF Operation
    <3> QED BY <2>3, <3>1, <3>2
  <2>4. CASE g \notin others \cup {h}
    BY <1>1, <2>1, <2>4
  <2> QED BY <2>2, <2>3, <2>4
<1>5. /\ contents' \in [Paths -> Files \cup {Torn, Nothing}] /\ written' \in [Paths -> Hours]
      /\ cut' \subseteq Paths /\ contents'[p] = Torn /\ written'[p] = hour
      /\ \A q \in Paths \ {p} : contents'[q] = contents[q] /\ written'[q] = written[q]
  BY <1>1, <1>2, HereIs
<1>6. \A q \in Paths : written[q] <= written'[q] /\ written'[q] <= hour
  <2> SUFFICES ASSUME NEW q \in Paths PROVE written[q] <= written'[q] /\ written'[q] <= hour
    OBVIOUS
  <2>1. written[q] <= hour /\ written[q] \in Nat /\ hour \in Nat
    BY HereIs, FileCacheAssumption DEF CacheInv, WrittenOK, Hours
  <2> QED BY <1>5, <2>1
<1>12. /\ \A g \in Holders : step'[g] = IF g = h THEN "fill" ELSE step[g]
       /\ \A q : q # p => (q \in cut' <=> q \in cut)
       /\ others # {} => p \in cut'
  <2>1. \A g \in Holders : step'[g] = IF g = h THEN "fill" ELSE step[g]
    BY <1>1 DEF CacheInv, FileCacheTypeOK
  <2>2. (\A q : q # p => (q \in cut' <=> q \in cut)) /\ (others # {} => p \in cut')
    BY <1>1
  <2> QED BY <2>1, <2>2
<1>7. FileCacheTypeOK'
  <2>1. fetch' \in [Holders -> Operation]
    BY <1>1, <1>4
  <2>2. step' \in [Holders -> Steps] /\ answer' \in Outcome
    BY <1>1, NothingYet DEF CacheInv, FileCacheTypeOK, Steps
  <2> QED BY <1>1, <1>5, <2>1, <2>2 DEF CacheInv, FileCacheTypeOK
<1>8. ContentsOK'
  <2> SUFFICES ASSUME NEW q \in Paths
               PROVE  /\ contents'[q] \in Files => q \in PathOf(contents'[q], nameOf)
                      /\ contents'[q] = Torn =>
                            q \in cut' \/ \E g \in Filling(q)' : fetch'[g].hold # "removed"
    BY <1>1 DEF ContentsOK
  <2>1. CASE q = p
    <3>1. h \in Filling(p)' /\ fetch'[h].hold # "removed"
      <4>1. fetch'[h].path = p /\ fetch'[h].hold \in {"sole", "shared"}
        BY <1>4
      <4> QED BY <1>12, <4>1 DEF Filling
    <3> QED BY <1>5, <2>1, <3>1, FileCacheAssumption
  <2>2. CASE q # p
    <3>1. contents'[q] = contents[q] /\ (q \in cut => q \in cut')
      BY <1>1, <1>5, <2>2
    <3>2. ASSUME NEW g \in Filling(q), fetch[g].hold # "removed"
          PROVE  g \in Filling(q)' /\ fetch'[g].hold # "removed"
      <4>1. g \in Holders /\ step[g] = "fill" /\ fetch[g].path = q /\ g # h /\ g \notin others
        BY <1>1, <1>3, <2>2 DEF Filling
      <4> QED BY <1>1, <1>4, <3>2, <4>1 DEF Filling, CacheInv, FileCacheTypeOK
    <3> QED BY <3>1, <3>2 DEF CacheInv, ContentsOK
  <2> QED BY <2>1, <2>2
<1>9. OperationsOK'
  <2> SUFFICES ASSUME NEW g \in Holders
               PROVE  OpOK(fetch'[g], step'[g], contents', written', cut', hour, nameOf)
    BY <1>1 DEF OperationsOK
  <2>1. CASE g = h
    <3> PICK n : n = fetch'[h]
      OBVIOUS
    <3>1. step'[h] = "fill" /\ hour <= hour
      BY <1>12, HereIs
    <3>2. /\ n.kind = "download" /\ n.file \in Files /\ n.path = p
          /\ p \in PathOf(n.file, nameOf) /\ written'[p] = hour
      BY <1>2, <1>4, <1>5
    <3>3. n.hold = "shared" => p \in cut'
      <4>1. n.hold = IF others = {} THEN "sole" ELSE "shared"
        BY <1>4
      <4> QED BY <1>12, <4>1
    <3>4. OpOK(n, "fill", contents', written', cut', hour, nameOf)
      BY <3>1, <3>2, <3>3 DEF OpOK
    <3> QED BY <2>1, <3>1, <3>4
  <2>2. CASE g # h
    <3>1. step'[g] = step[g] /\ step[g] \in Steps /\ fetch[g] \in Operation
      BY <1>1, <2>2, HereIs DEF CacheInv, FileCacheTypeOK
    <3>2. OpOK(fetch[g], step[g], contents, written, cut, hour, nameOf)
      BY HereIs
    <3>3. step[g] = "fill" /\ fetch'[g].hold = "shared" => fetch'[g].path \in cut'
      <4>1. CASE g \in others
        BY <1>1, <1>3, <1>4, <4>1
      <4>2. CASE g \notin others /\ step[g] = "fill" /\ fetch'[g].hold = "shared"
        <5>1. fetch'[g] = fetch[g] /\ fetch[g].path \in cut
          BY <1>4, <2>2, <3>2, <4>2 DEF OpOK
        <5>2. fetch[g].path # p
          BY <4>2, <5>1 DEF Filling
        <5> QED BY <1>1, <5>1, <5>2
      <4> QED BY <4>1, <4>2
    <3>4. step[g] = "read" /\ contents[fetch[g].path] # Nothing => contents'[fetch[g].path] # Nothing
      <4>1. step[g] = "read" => fetch[g].path \in Paths
        BY <3>2, HereIs, PathsTyped DEF OpOK
      <4> QED BY <1>5, <4>1, FileCacheAssumption
    <3>5. \A q \in Paths : written[q] <= written'[q]
      BY <1>6
    <3>6. /\ fetch'[g] \in Operation /\ fetch'[g].kind = fetch[g].kind
          /\ fetch'[g].file = fetch[g].file /\ fetch'[g].path = fetch[g].path
          /\ fetch[g].excused => fetch'[g].excused
      BY <1>4
    <3>7. /\ written \in [Paths -> Hours] /\ written' \in [Paths -> Hours]
          /\ hour \in Hours /\ nameOf \in [Files -> Names]
      BY <1>5, HereIs
    <3> QED BY <1>1, <3>1, <3>3, <3>4, <3>5, <3>6, <3>7, Others
  <2> QED BY <2>1, <2>2
<1>10. IndexesOK(mine', index', hour', written', nameOf')
  <2>1. IndexesOK(mine, index, hour, written, nameOf) /\ hour <= hour
    BY HereIs DEF CacheInv
  <2>2. \A q \in Paths : written[q] <= written'[q]
    BY <1>6
  <2>3. IndexesOK(mine, index, hour, written', nameOf)
    BY <1>5, <2>1, <2>2, HereIs, IndexesLater
  <2> QED BY <1>1, <2>3
<1>11. AnswerOK(answer', stored', nameOf') /\ WrittenOK'
  BY <1>1, <1>6, NothingYet DEF WrittenOK
<1> QED BY <1>7, <1>8, <1>9, <1>10, <1>11 DEF CacheInv

\* A path is written and closed.
LEMMA FillKeeps ==
    ASSUME CacheInv, NEW h \in Holders, Fill(h) PROVE CacheInv'
<1> PICK b : b = fetch[h]
  OBVIOUS
<1> PICK p : p = b.path
  OBVIOUS
<1> PICK o : o = [b EXCEPT !.hold = "sole"]
  OBVIOUS
<1>1. /\ step[h] = "fill" /\ step' = [step EXCEPT ![h] = "save"]
      /\ fetch' = [fetch EXCEPT ![h] = o] /\ answer' = NoAnswer
      /\ UNCHANGED <<nameOf, stored, hour, troubles, index, written, cut, mine>>
  BY DEF Fill, Go, To, World
<1>2. \/ b.hold = "removed" /\ contents' = contents
      \/ contents' = [contents EXCEPT ![p] = b.file]
      \/ b.hold = "shared" /\ contents' = [contents EXCEPT ![p] = Torn]
  BY DEF Fill
<1>3. /\ b \in Operation /\ b.kind = "download" /\ b.file \in Files /\ p \in PathOf(b.file, nameOf)
      /\ p \in Paths /\ (b.hold = "shared" => p \in cut) /\ hour <= written[p]
  BY <1>1, HereIs, PathsTyped DEF OpOK
<1>4. o \in Operation /\ o.kind = "download" /\ o.file = b.file /\ o.path = p
  BY <1>3 DEF Operation
<1>5. /\ contents' \in [Paths -> Files \cup {Torn, Nothing}]
      /\ \A q \in Paths : q # p => contents'[q] = contents[q]
      /\ \A q \in Paths : contents[q] # Nothing => contents'[q] # Nothing
  BY <1>2, <1>3, HereIs, FileCacheAssumption
<1>6. \A g \in Holders :
          /\ step'[g] = IF g = h THEN "save" ELSE step[g]
          /\ fetch'[g] = IF g = h THEN o ELSE fetch[g]
  BY <1>1 DEF CacheInv, FileCacheTypeOK
<1>7. FileCacheTypeOK'
  BY <1>1, <1>4, <1>5, NothingYet DEF CacheInv, FileCacheTypeOK, Steps
<1>8. ContentsOK'
  <2> SUFFICES ASSUME NEW q \in Paths
               PROVE  /\ contents'[q] \in Files => q \in PathOf(contents'[q], nameOf)
                      /\ contents'[q] = Torn =>
                            q \in cut \/ \E g \in Filling(q)' : fetch'[g].hold # "removed"
    BY <1>1 DEF ContentsOK
  <2>1. CASE contents'[q] = contents[q] /\ (q = p => b.hold = "removed")
    <3>1. ASSUME NEW g \in Filling(q), fetch[g].hold # "removed"
          PROVE  g \in Filling(q)' /\ fetch'[g].hold # "removed"
      <4>1. g \in Holders /\ step[g] = "fill" /\ fetch[g].path = q /\ g # h
        BY <2>1, <3>1 DEF Filling
      <4> QED BY <1>6, <3>1, <4>1 DEF Filling
    <3> QED BY <2>1, <3>1 DEF CacheInv, ContentsOK
  <2>2. CASE q = p /\ contents'[q] = b.file
    BY <1>3, <2>2, FileCacheAssumption
  <2>3. CASE q = p /\ b.hold = "shared" /\ contents'[q] = Torn
    BY <1>3, <2>3, FileCacheAssumption
  <2> QED BY <1>2, <1>3, <1>5, <2>1, <2>2, <2>3, HereIs
<1>9. OperationsOK'
  <2> SUFFICES ASSUME NEW g \in Holders
               PROVE  OpOK(fetch'[g], step'[g], contents', written', cut', hour', nameOf')
    BY DEF OperationsOK
  <2>1. CASE g = h
    <3>1. OpOK(o, "save", contents', written, cut, hour, nameOf)
      BY <1>3, <1>4 DEF OpOK
    <3> QED BY <1>1, <1>6, <2>1, <3>1
  <2>2. CASE g # h
    <3>1. step'[g] = step[g] /\ fetch'[g] = fetch[g] /\ fetch[g] \in Operation
      BY <1>6, <2>2, HereIs
    <3>2. OpOK(fetch[g], step[g], contents, written, cut, hour, nameOf)
      BY HereIs
    <3>3. step[g] = "fill" /\ fetch[g].hold = "shared" => fetch[g].path \in cut'
      BY <1>1, <3>2 DEF OpOK
    <3>4. step[g] = "read" => fetch[g].path \in Paths
      BY <3>2, HereIs, PathsTyped DEF OpOK
    <3>5. written' \in [Paths -> Hours] /\ \A q \in Paths : written[q] <= written'[q]
      BY <1>1, HereIs, FileCacheAssumption DEF Hours
    <3> QED BY <1>1, <1>5, <3>1, <3>3, <3>4, <3>5, Others
  <2> QED BY <2>1, <2>2
<1>10. IndexesOK(mine', index', hour', written', nameOf') /\ WrittenOK'
  BY <1>1 DEF CacheInv, WrittenOK
<1>11. AnswerOK(answer', stored', nameOf')
  BY <1>1, NothingYet
<1> QED BY <1>7, <1>8, <1>9, <1>10, <1>11 DEF CacheInv

\* Entries are forgotten.
LEMMA WithoutOK ==
    ASSUME CacheInv, NEW h \in Holders, NEW gone, Without(h, gone)
    PROVE  IndexesOK(mine', index, hour, written, nameOf)
<1> PICK x : x = [f \in Files |-> IF f \in gone THEN Nothing ELSE mine[h][f]]
  OBVIOUS
<1>1. mine' = [mine EXCEPT ![h] = x]
  BY DEF Without
<1>2. x \in Indexes
  BY HereIs DEF Indexes
<1>3. IndexOK(x, hour, written, nameOf)
  BY HereIs DEF IndexOK
<1> QED BY <1>1, <1>2, <1>3 DEF CacheInv, IndexesOK

\* Files are removed by a manager that reads and writes none.
LEMMA UnlinkedKeeps ==
    ASSUME CacheInv, NEW h \in Holders, NEW o \in Operation, o.kind # "download",
           o.kind # "clear" => o.file \in Files, NEW paths, NEW gone,
           step[h] \in {"idle", "forget"}, To(h, "save"), Without(h, gone),
           Unlinked(paths, h, o), UNCHANGED World
    PROVE  CacheInv'
<1>1. /\ step' = [step EXCEPT ![h] = "save"] /\ answer' = NoAnswer
      /\ contents' = [p \in Paths |-> IF p \in paths THEN Nothing ELSE contents[p]]
      /\ cut' = cut \ paths
      /\ UNCHANGED <<nameOf, stored, hour, troubles, index, written>>
  BY DEF To, Unlinked, World
<1>2. \A g \in Holders : step'[g] = IF g = h THEN "save" ELSE step[g]
  BY <1>1 DEF CacheInv, FileCacheTypeOK
<1>3. ASSUME NEW g \in Holders, g # h
      PROVE  /\ fetch'[g] \in Operation /\ fetch'[g].kind = fetch[g].kind
             /\ fetch'[g].file = fetch[g].file /\ fetch'[g].path = fetch[g].path
             /\ fetch[g].excused => fetch'[g].excused
             /\ step[g] = "idle" \/ fetch[g].path \notin paths => fetch'[g] = fetch[g]
             /\ step[g] # "idle" /\ fetch[g].path \in paths => fetch'[g].excused
             /\ step[g] = "fill" /\ fetch[g].path \in paths => fetch'[g].hold = "removed"
  <2> PICK b, n : b = fetch[g] /\ n = fetch'[g]
    OBVIOUS
  <2>1. b \in Operation
    BY HereIs
  <2>2. CASE step[g] # "idle" /\ fetch[g].path \in paths
    <3> PICK x : x = IF step[g] = "fill" THEN "removed" ELSE b.hold
      OBVIOUS
    <3>1. n = [b EXCEPT !.excused = TRUE, !.hold = x]
      BY <1>3, <2>2 DEF Unlinked
    <3>2. x \in {"sole", "shared", "removed"}
      BY <2>1 DEF Operation
    <3>3. /\ n \in Operation /\ n.kind = b.kind /\ n.file = b.file /\ n.path = b.path
          /\ n.excused /\ n.hold = x
      BY <2>1, <3>1, <3>2 DEF Operation
    <3> QED BY <2>2, <3>3
  <2>3. CASE ~(step[g] # "idle" /\ fetch[g].path \in paths)
    <3>1. fetch'[g] = fetch[g]
      BY <1>3, <2>3 DEF Unlinked
    <3> QED BY <2>1, <2>3, <3>1
  <2> QED BY <2>2, <2>3
<1>4. fetch'[h] = o /\ fetch' = [g \in Holders |-> fetch'[g]]
  BY DEF Unlinked
<1>5. /\ contents' \in [Paths -> Files \cup {Torn, Nothing}]
      /\ \A q \in Paths : contents'[q] = IF q \in paths THEN Nothing ELSE contents[q]
  BY <1>1, HereIs
<1>6. IndexesOK(mine', index', hour', written', nameOf')
  BY <1>1, WithoutOK
<1>7. FileCacheTypeOK'
  <2>1. fetch' \in [Holders -> Operation]
    BY <1>3, <1>4
  <2>2. step' \in [Holders -> Steps]
    BY <1>1 DEF CacheInv, FileCacheTypeOK, Steps
  <2> QED BY <1>1, <1>5, <1>6, <2>1, <2>2, NothingYet DEF CacheInv, FileCacheTypeOK, IndexesOK
<1>8. ContentsOK'
  <2> SUFFICES ASSUME NEW q \in Paths
               PROVE  /\ contents'[q] \in Files => q \in PathOf(contents'[q], nameOf)
                      /\ contents'[q] = Torn =>
                            q \in cut' \/ \E g \in Filling(q)' : fetch'[g].hold # "removed"
    BY <1>1 DEF ContentsOK
  <2>1. CASE q \in paths
    BY <1>5, <2>1, FileCacheAssumption
  <2>2. CASE q \notin paths
    <3>1. contents'[q] = contents[q] /\ (q \in cut => q \in cut')
      BY <1>1, <1>5, <2>2
    <3>2. ASSUME NEW g \in Filling(q), fetch[g].hold # "removed"
          PROVE  g \in Filling(q)' /\ fetch'[g].hold # "removed"
      <4>1. g \in Holders /\ step[g] = "fill" /\ fetch[g].path = q /\ g # h
        BY DEF Filling
      <4>2. step'[g] = step[g] /\ fetch'[g] = fetch[g]
        BY <1>2, <1>3, <2>2, <4>1
      <4> QED BY <3>2, <4>1, <4>2 DEF Filling
    <3> QED BY <3>1, <3>2 DEF CacheInv, ContentsOK
  <2> QED BY <2>1, <2>2
<1>9. OperationsOK'
  <2> SUFFICES ASSUME NEW g \in Holders
               PROVE  OpOK(fetch'[g], step'[g], contents', written', cut', hour', nameOf')
    BY DEF OperationsOK
  <2>1. CASE g = h
    <3>1. \A c, wr, ct, now, names : OpOK(o, "save", c, wr, ct, now, names)
      BY DEF OpOK
    <3> QED BY <1>2, <1>4, <2>1, <3>1
  <2>2. CASE g # h
    <3>1. step'[g] = step[g] /\ OpOK(fetch[g], step[g], contents, written, cut, hour, nameOf)
      BY <1>2, <2>2, HereIs
    <3>2. step[g] = "fill" /\ fetch'[g].hold = "shared" => fetch'[g].path \in cut'
      <4>1. CASE step[g] = "fill" /\ fetch[g].path \notin paths
        <5>1. fetch'[g] = fetch[g] /\ (fetch[g].hold = "shared" => fetch[g].path \in cut)
          BY <1>3, <2>2, <3>1, <4>1 DEF OpOK
        <5> QED BY <1>1, <4>1, <5>1
      <4>2. CASE step[g] = "fill" /\ fetch[g].path \in paths
        BY <1>3, <2>2, <4>2
      <4> QED BY <4>1, <4>2
    <3>3. step[g] = "read" /\ contents[fetch[g].path] # Nothing =>
              contents'[fetch[g].path] # Nothing \/ fetch'[g].excused
      <4>1. step[g] = "read" => fetch[g].path \in Paths
        BY <3>1, HereIs, PathsTyped DEF OpOK
      <4>2. CASE step[g] = "read" /\ fetch[g].path \in paths
        BY <1>3, <2>2, <4>2
      <4>3. CASE step[g] = "read" /\ fetch[g].path \notin paths
        BY <1>5, <4>1, <4>3
      <4> QED BY <4>2, <4>3
    <3>4. written' \in [Paths -> Hours] /\ \A q \in Paths : written[q] <= written'[q]
      BY <1>1, HereIs, FileCacheAssumption DEF Hours
    <3> QED BY <1>1, <1>3, <2>2, <3>1, <3>2, <3>3, <3>4, Others
  <2> QED BY <2>1, <2>2
<1>10. AnswerOK(answer', stored', nameOf') /\ WrittenOK'
  BY <1>1, NothingYet DEF CacheInv, WrittenOK
<1> QED BY <1>6, <1>7, <1>8, <1>9, <1>10 DEF CacheInv

LEMMA ClearKeeps ==
    ASSUME CacheInv, NEW h \in Holders, NEW age, Clear(h, age) PROVE CacheInv'
<1> PICK gone : gone = {f \in Files : mine[h][f] # Nothing /\ hour >= mine[h][f].at + age}
  OBVIOUS
<1> PICK paths : paths = PathsOf(h, gone)
  OBVIOUS
<1>1. /\ step[h] = "idle" /\ To(h, "save") /\ Without(h, gone)
      /\ Unlinked(paths, h, NoOperation) /\ UNCHANGED World
  BY DEF Clear
<1>2. NoOperation \in Operation /\ NoOperation.kind = "clear"
  BY NothingYet DEF NoOperation
<1> QED BY <1>1, <1>2, UnlinkedKeeps

LEMMA ForgetKeeps ==
    ASSUME CacheInv, NEW h \in Holders, Forget(h) PROVE CacheInv'
<1> PICK b : b = fetch[h]
  OBVIOUS
<1> PICK gone : gone = {f \in {b.file} : mine[h][f] # Nothing}
  OBVIOUS
<1> PICK paths : paths = PathsOf(h, gone)
  OBVIOUS
<1>1. /\ step[h] = "forget" /\ UNCHANGED World
      /\ IF gone = {} THEN Done(h, "ok", Nothing) /\ UNCHANGED <<Disk, mine>>
         ELSE To(h, "save") /\ Without(h, gone) /\ Unlinked(paths, h, b)
  BY DEF Forget
<1>2. b \in Operation /\ b.kind = "delete" /\ b.file \in Files
  BY <1>1, HereIs DEF OpOK
<1>3. CASE gone = {}
  <2> PICK a : a = Over(h, "ok", Nothing)
    OBVIOUS
  <2>1. a \in Outcome /\ a.reply = "ok" /\ a.bytes = Nothing /\ ~a.aged
    BY OverTyped
  <2>2. AnswerOK(a, stored', nameOf)
    BY <2>1, FileCacheAssumption DEF AnswerOK
  <2>3. Finish(h, a) /\ UNCHANGED <<Disk, mine>>
    BY <1>1, <1>3 DEF Done
  <2>4. IndexesOK(mine', index', hour, written, nameOf)
    BY <2>3 DEF CacheInv, Disk
  <2> QED BY <1>1, <2>1, <2>2, <2>3, <2>4, HereIs, Ended DEF Disk, World
<1>4. CASE gone # {}
  BY <1>1, <1>2, <1>4, UnlinkedKeeps
<1> QED BY <1>3, <1>4

-------------------------------------------------------------------------------
(* The invariant *)

LEMMA CacheInvInit ==
    ASSUME FileCacheInit PROVE CacheInv
<1>1. 0 \in Hours /\ 0 <= 0
  BY FileCacheAssumption DEF Hours
<1>2. NoEntries \in Indexes /\ IndexOK(NoEntries, hour, written, nameOf)
  BY DEF NoEntries, Indexes, IndexOK
<1>3. FileCacheTypeOK
  BY <1>1, <1>2, NothingYet DEF FileCacheInit, FileCacheTypeOK, Steps
<1>4. ContentsOK
  BY FileCacheAssumption DEF FileCacheInit, ContentsOK
<1>5. OperationsOK
  BY NothingYet DEF FileCacheInit, OperationsOK
<1>6. WrittenOK
  BY <1>1 DEF FileCacheInit, WrittenOK
<1>7. IndexesOK(mine, index, hour, written, nameOf) /\ AnswerOK(answer, stored, nameOf)
  BY <1>2, NothingYet DEF FileCacheInit, IndexesOK
<1> QED BY <1>3, <1>4, <1>5, <1>6, <1>7 DEF CacheInv

LEMMA CacheInvStep ==
    ASSUME CacheInv, [FileCacheNext]_fileVars PROVE CacheInv'
<1>1. CASE UNCHANGED fileVars
  BY <1>1 DEF fileVars, CacheInv, FileCacheTypeOK, ContentsOK, OperationsOK, WrittenOK, Filling
<1>2. CASE FileCacheNext
  BY <1>2, PassKeeps, DownloadKeeps, SendCachedKeeps, DeleteKeeps, ClearKeeps, InfoKeeps,
     StatKeeps, ValidateKeeps, ReadKeeps, GetKeeps, GetNoneKeeps, FillKeeps, SaveKeeps,
     SavedKeeps, RemoveKeeps, ForgetKeeps, ConstructKeeps, TroubleKeeps, PerishKeeps
     DEF FileCacheNext
<1> QED BY <1>1, <1>2

LEMMA CacheInvHolds == FileCacheSpec => []CacheInv
BY CacheInvInit, CacheInvStep, PTL DEF FileCacheSpec

-------------------------------------------------------------------------------
(* Theorems *)

\* The directory, the index, each manager's copy of it and the operations under way keep
\* their types, through every interleaving of the file system calls.
THEOREM FileCacheTypesHold == FileCacheSpec => []FileCacheTypeOK
<1>1. CacheInv => FileCacheTypeOK
  BY DEF CacheInv
<1> QED BY <1>1, CacheInvHolds, PTL

\* file_cache.py:74-83 stores by name and looks up by id: an id is answered with its own
\* bytes or those of a file of the same name, and a torn copy lies only where a write was
\* cut short or ran into another.
THEOREM WrongBytesHaveCauseHolds == FileCacheSpec => []WrongBytesHaveCause
<1>1. CacheInv => WrongBytesHaveCause
  BY DEF CacheInv, AnswerOK, ContentsOK, WrongBytesHaveCause
<1> QED BY <1>1, CacheInvHolds, PTL

\* validate_cache judges a copy by what an index says of it; whatever index updates are
\* lost or resurrected, no entry makes a copy out to be younger than its bytes, so a cached
\* download is never older than the time to live.
THEOREM CopiesWithinTtlHolds == FileCacheSpec => []CopiesWithinTtl
<1>1. CacheInv => CopiesWithinTtl
  BY DEF CacheInv, AnswerOK, CopiesWithinTtl
<1> QED BY <1>1, CacheInvHolds, PTL

\* download_file, the deletion and the file routes fail only when a call failed, the file is
\* not in the bucket or its copy was removed meanwhile: never for what an index says.
THEOREM FailsOnlyForCauseHolds == FileCacheSpec => []FailsOnlyForCause
<1>1. CacheInv => FailsOnlyForCause
  BY DEF CacheInv, AnswerOK, FailsOnlyForCause
<1> QED BY <1>1, CacheInvHolds, PTL
=================================================================================
