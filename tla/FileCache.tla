------------------------------- MODULE FileCache -------------------------------
(***************************************************************************)
(* The on-disk cache of downloaded files (managers/appwrite/file_cache.py)  *)
(* and the operations above it: download_file and delete_file of            *)
(* managers/appwrite/manager.py and the file routes of managers/api.py.     *)
(*                                                                          *)
(* Files lie in one directory by NAME; an index says which file id is where *)
(* and since when.  Each manager holds a copy of the index, read once, and  *)
(* saves it whole.  Managers of several processes share the directory and   *)
(* run between each other's file system calls; those of one process do so   *)
(* only while a cached file is being sent.                                  *)
(***************************************************************************)
EXTENDS Naturals

CONSTANTS
    Holders,     \* the managers that share the cache directory
    Files,       \* file ids
    Names,       \* file names
    CacheTtl,    \* cache_ttl_hours
    MaxEvents,   \* bound: hours that pass, failed calls, deaths, deletions in a behaviour
    Nothing,     \* no file, no entry
    Torn         \* the contents of a file that is not all there

CacheIndex == "cache_metadata.json"
Paths == Names \cup Files
Hours == 0..MaxEvents
CacheMetadata == [path : Paths, at : Hours]
Indexes == [Files -> CacheMetadata \cup {Nothing}]

ASSUME FileCacheAssumption ==
    /\ Names \cap Files = {}
    /\ CacheIndex \notin Paths /\ {CacheTtl, MaxEvents} \subseteq Nat
    /\ {Nothing, Torn} \cap (Files \cup Paths) = {} /\ Nothing # Torn
    /\ {Nothing, Torn} \cap (CacheMetadata \cup Indexes) = {}

VARIABLES
    nameOf,   \* the name each file was uploaded under
    stored,   \* the files in the bucket
    contents, \* contents[p]: whose bytes are at path p, Torn, or Nothing
    index,    \* the index file: a map, or Torn
    mine,     \* mine[h]: cache_metadata of manager h
    step,     \* step[h]: the file system or remote call h makes next
    fetch,    \* fetch[h]: the operation h is in
    answer,   \* what the last step answered, if it answered something
    hour, troubles, \* what has happened so far
    written, cut  \* history: when a path was last written; the paths a write of which
                  \* was cut short or ran into another

fileVars == <<nameOf, stored, contents, index, mine, step, fetch, answer, hour, troubles, written, cut>>

Steps == {"idle", "info", "stat", "validate", "read", "get", "fill", "save", "saved",
          "remove", "forget"}
\* `hold` is what a writer has of the file it opened: alone, together with another, or
\* one that has since been removed.  `excused` serves the properties: a call failed or a
\* file was removed meanwhile.
Operation == [kind : {"download", "send", "clear", "delete"}, file : Files \cup {Nothing},
              cached : BOOLEAN, path : Paths \cup {Nothing},
              hold : {"sole", "shared", "removed"}, excused : BOOLEAN]
Outcome == [file : Files \cup {Nothing}, reply : {"none", "ok", "missing", "failed"},
           bytes : Files \cup {Torn, Nothing}, excused : BOOLEAN, aged : BOOLEAN]

NoEntries == [f \in Files |-> Nothing]
NoOperation == [kind |-> "clear", file |-> Nothing, cached |-> FALSE, path |-> Nothing,
                hold |-> "sole", excused |-> FALSE]
NoAnswer == [file |-> Nothing, reply |-> "none", bytes |-> Nothing, excused |-> FALSE,
             aged |-> FALSE]

FileCacheInit ==
    /\ nameOf \in [Files -> Names]
    /\ stored = Files /\ contents = [p \in Paths |-> Nothing] /\ index = NoEntries
    /\ mine = [h \in Holders |-> NoEntries]
    /\ step = [h \in Holders |-> "idle"] /\ fetch = [h \in Holders |-> NoOperation]
    /\ answer = NoAnswer
    /\ hour = 0 /\ troubles = 0
    /\ written = [p \in Paths |-> 0] /\ cut = {}

-------------------------------------------------------------------------------
OnDisk(p) == p # Nothing /\ contents[p] # Nothing
To(h, s) == step' = [step EXCEPT ![h] = s] /\ answer' = NoAnswer
Go(h, s, f) == To(h, s) /\ fetch' = [fetch EXCEPT ![h] = f]
\* The operation of h is over; b are the bytes it returns.
Over(h, r, b) == [NoAnswer EXCEPT !.file = fetch[h].file, !.reply = r, !.bytes = b]
Finish(h, a) == /\ step' = [step EXCEPT ![h] = "idle"] /\ answer' = a
                /\ fetch' = [fetch EXCEPT ![h] = NoOperation]
Done(h, r, b) == Finish(h, Over(h, r, b))
Failed(h, excused) == Finish(h, [Over(h, "failed", Nothing) EXCEPT !.excused = excused])
Disk == <<contents, index, written, cut>>
World == <<nameOf, stored, hour, troubles>>
MayHappen == hour + troubles < MaxEvents

\* Operations begin.  The download route reads the file's metadata first and is over when
\* it gets none; the data service goes straight to download_file.
Download(h, f, cached, route) ==
    /\ step[h] = "idle"
    /\ Go(h, IF route THEN "info" ELSE "stat",
          [NoOperation EXCEPT !.kind = "download", !.file = f, !.cached = cached])
    /\ UNCHANGED <<World, Disk, mine>>
\* /cached: an entry whose path exists is sent, whatever its age.
SendCached(h, f) ==
    /\ step[h] = "idle" /\ mine[h][f] # Nothing /\ OnDisk(mine[h][f].path)
    /\ Go(h, "read", [NoOperation EXCEPT !.kind = "send", !.file = f, !.path = mine[h][f].path])
    /\ UNCHANGED <<World, Disk, mine>>

\* get_file, which can fail for a file that is there.
Told(f) == (IF f \in stored THEN {TRUE} ELSE {FALSE}) \cup (IF MayHappen THEN {FALSE} ELSE {})
Blamed(f, told) == troubles' = IF f \in stored /\ ~told THEN troubles + 1 ELSE troubles
Info(h) ==
    LET f == fetch[h].file IN
    /\ step[h] = "info"
    /\ \E told \in Told(f) :
        Blamed(f, told) /\ IF told THEN Go(h, "stat", fetch[h]) ELSE Done(h, "missing", Nothing)
    /\ UNCHANGED <<nameOf, stored, hour, Disk, mine>>
\* Mutant: every download goes through a file of one name.
NameInCacheFixed(f, told) == IF told THEN CHOOSE n \in Names : TRUE ELSE f

\* _get_cache_path
NameInCache(f, told) == IF told THEN nameOf[f] ELSE f
\* Without metadata the cache is still used, and the file's id is its name.
Stat(h) ==
    LET f == fetch[h].file IN
    /\ step[h] = "stat"
    /\ \E told \in Told(f) :
        /\ Blamed(f, told)
        /\ Go(h, IF fetch[h].cached THEN "validate" ELSE "get",
              [fetch[h] EXCEPT !.path = NameInCache(f, told), !.cached = FALSE])
    /\ UNCHANGED <<nameOf, stored, hour, Disk, mine>>

-------------------------------------------------------------------------------
(* From the cache. *)

\* Mutant: an entry is trusted without a look at the file.
FreshUnseen(entry) == entry # Nothing /\ hour <= entry.at + CacheTtl

Fresh(entry) == entry # Nothing /\ OnDisk(entry.path) /\ hour <= entry.at + CacheTtl

\* validate_cache and get_cached_file_path, which looks for the copy again.  The
\* comparison of cached_at with the remote's $updatedAt, made when there is metadata,
\* mixes time zones and can find any copy outdated.
Validate(h) ==
    LET entry == mine[h][fetch[h].file] IN
    /\ step[h] = "validate"
    /\ \/ Fresh(entry) /\ Go(h, "read", [fetch[h] EXCEPT !.path = entry.path])
       \/ /\ Fresh(entry) => fetch[h].path # fetch[h].file
          /\ Go(h, "get", fetch[h])
    /\ UNCHANGED <<World, Disk, mine>>
Read(h) ==
    LET p == fetch[h].path IN
    /\ step[h] = "read"
    /\ IF OnDisk(p)
       THEN Finish(h, [Over(h, "ok", contents[p]) EXCEPT
                         !.aged = fetch[h].kind = "download" /\ hour > written[p] + CacheTtl])
       ELSE Failed(h, fetch[h].excused)
    /\ UNCHANGED <<World, Disk, mine>>

-------------------------------------------------------------------------------
(* From the bucket: the bytes go into the cache before they are returned. *)

Filling(p) == {h \in Holders : step[h] = "fill" /\ fetch[h].path = p}
\* get_file_download, and open(cache_path, "wb"), which truncates what is there, other
\* writers notwithstanding.
Get(h) ==
    LET p == fetch[h].path
        others == {g \in Filling(p) : fetch[g].hold # "removed"} IN
    /\ step[h] = "get" /\ fetch[h].file \in stored
    /\ To(h, "fill")
    /\ fetch' = [g \in Holders |->
                   IF g = h THEN [fetch[h] EXCEPT !.hold = IF others = {} THEN "sole" ELSE "shared"]
                   ELSE IF g \in others THEN [fetch[g] EXCEPT !.hold = "shared"] ELSE fetch[g]]
    /\ contents' = [contents EXCEPT ![p] = Torn]
    /\ written' = [written EXCEPT ![p] = hour]
    /\ cut' = IF others = {} THEN cut \ {p} ELSE cut \cup {p}
    /\ UNCHANGED <<World, index, mine>>
GetNone(h) ==
    /\ step[h] = "get" /\ fetch[h].file \notin stored
    /\ Failed(h, fetch[h].excused) /\ UNCHANGED <<World, Disk, mine>>
\* Two writers leave one's bytes, or one's over the other's.
Fill(h) ==
    LET p == fetch[h].path IN
    /\ step[h] = "fill" /\ Go(h, "save", [fetch[h] EXCEPT !.hold = "sole"])
    /\ \/ fetch[h].hold = "removed" /\ UNCHANGED contents
       \/ fetch[h].hold # "removed" /\ contents' = [contents EXCEPT ![p] = fetch[h].file]
       \/ fetch[h].hold = "shared" /\ contents' = [contents EXCEPT ![p] = Torn]
    /\ UNCHANGED <<World, index, written, cut, mine>>
\* add_to_cache, and _save_cache_metadata, which truncates the index, then writes it
\* whole; a failure of that is ignored.
Entered(h) ==
    IF fetch[h].kind = "download"
    THEN [mine EXCEPT ![h][fetch[h].file] = [path |-> fetch[h].path, at |-> hour]] ELSE mine
Save(h) ==
    /\ step[h] = "save" /\ mine' = Entered(h) /\ index' = Torn
    /\ Go(h, "saved", [fetch[h] EXCEPT !.path = Nothing])
    /\ UNCHANGED <<World, contents, written, cut>>
Finished(h) == Done(h, "ok", IF fetch[h].kind = "download" THEN fetch[h].file ELSE Nothing)
Saved(h) ==
    /\ step[h] = "saved"
    /\ \/ index' = mine[h]
       \/ \E g \in Holders \ {h} : step[g] = "saved" /\ index' = Torn
       \/ index # Torn /\ index' = Torn
    /\ Finished(h)
    /\ UNCHANGED <<World, contents, written, cut, mine>>

-------------------------------------------------------------------------------
(* Removal. *)

\* Files are unlinked; whoever reads or writes them meanwhile may fail.
Unlinked(paths, h, mineNow) ==
    /\ contents' = [p \in Paths |-> IF p \in paths THEN Nothing ELSE contents[p]]
    /\ cut' = cut \ paths
    /\ fetch' = [g \in Holders |->
         IF g = h THEN mineNow
         ELSE IF step[g] # "idle" /\ fetch[g].path \in paths
         THEN [fetch[g] EXCEPT !.excused = TRUE, !.hold = IF step[g] = "fill" THEN "removed" ELSE @]
         ELSE fetch[g]]
    /\ UNCHANGED <<index, written>>
Without(h, gone) == mine' = [mine EXCEPT ![h] = [f \in Files |-> IF f \in gone THEN Nothing ELSE @[f]]]
PathsOf(h, gone) == {mine[h][f].path : f \in gone}

\* DELETE /cache: the entries of this manager's own copy of the index, or the older ones.
Clear(h, age) ==
    LET gone == {f \in Files : mine[h][f] # Nothing /\ hour >= mine[h][f].at + age} IN
    /\ step[h] = "idle" /\ To(h, "save")
    /\ Without(h, gone) /\ Unlinked(PathsOf(h, gone), h, NoOperation)
    /\ UNCHANGED World
\* delete_file: from the bucket, then from this manager's cache.
Delete(h, f) ==
    /\ step[h] = "idle" /\ MayHappen
    /\ Go(h, "remove", [NoOperation EXCEPT !.kind = "delete", !.file = f])
    /\ troubles' = troubles + 1 /\ UNCHANGED <<nameOf, stored, hour, Disk, mine>>
Discard(h) ==
    /\ step[h] = "remove"
    /\ stored' = stored \ {fetch[h].file}
    /\ IF fetch[h].file \in stored THEN Go(h, "forget", fetch[h]) ELSE Failed(h, FALSE)
    /\ UNCHANGED <<nameOf, hour, troubles, Disk, mine>>
Forget(h) ==
    LET gone == {f \in {fetch[h].file} : mine[h][f] # Nothing} IN
    /\ step[h] = "forget"
    /\ IF gone = {} THEN Done(h, "ok", Nothing) /\ UNCHANGED <<Disk, mine>>
       ELSE /\ To(h, "save")
            /\ Without(h, gone) /\ Unlinked(PathsOf(h, gone), h, fetch[h])
    /\ UNCHANGED World

-------------------------------------------------------------------------------
(* A manager is built: the constructor reads the index, and an unreadable one is empty. *)
\* Mutant: what is loaded counts as cached now.
LoadedAnew == IF index = Torn THEN NoEntries
              ELSE [f \in Files |-> IF index[f] = Nothing THEN Nothing
                                   ELSE [path |-> index[f].path, at |-> hour]]

\* Mutant: an index that cannot be read is taken as it is.
LoadedAsIs == index

Loaded == IF index = Torn THEN NoEntries ELSE index
Construct(h) ==
    /\ step[h] = "idle" /\ mine' = [mine EXCEPT ![h] = Loaded] /\ answer' = NoAnswer
    /\ UNCHANGED <<World, Disk, step, fetch>>

\* What a writer that stops halfway leaves behind.
Spoilt(h) == IF step[h] = "fill" /\ fetch[h].hold # "removed" THEN {fetch[h].path} ELSE {}
\* A remote or file system call fails.  A failed save of the index is only logged.
Trouble(h) ==
    /\ step[h] \in {"get", "fill", "save", "saved", "remove"}
    /\ MayHappen /\ troubles' = troubles + 1
    /\ cut' = cut \cup Spoilt(h)
    /\ IF step[h] \in {"save", "saved"} THEN Finished(h) ELSE Failed(h, TRUE)
    /\ mine' = IF step[h] = "save" THEN Entered(h) ELSE mine
    /\ UNCHANGED <<nameOf, stored, hour, contents, index, written>>
\* The process dies; its successor builds its managers anew.
Perish(h) ==
    /\ step[h] # "idle" /\ MayHappen /\ troubles' = troubles + 1
    /\ cut' = cut \cup Spoilt(h)
    /\ Go(h, "idle", NoOperation) /\ mine' = [mine EXCEPT ![h] = Loaded]
    /\ UNCHANGED <<nameOf, stored, hour, contents, index, written>>

\* An hour is long against a call.
Pass ==
    /\ MayHappen /\ \A h \in Holders : step[h] = "idle"
    /\ hour' = hour + 1 /\ answer' = NoAnswer
    /\ UNCHANGED <<nameOf, stored, troubles, Disk, mine, step, fetch>>

FileCacheNext ==
    \/ Pass
    \/ \E h \in Holders :
        \/ \E f \in Files : \/ \E cached, route \in BOOLEAN : Download(h, f, cached, route)
                            \/ SendCached(h, f) \/ Delete(h, f)
        \/ \E age \in {0, 1} : Clear(h, age)
        \/ Info(h) \/ Stat(h) \/ Validate(h) \/ Read(h)
        \/ Get(h) \/ GetNone(h) \/ Fill(h) \/ Save(h) \/ Saved(h)
        \/ Discard(h) \/ Forget(h) \/ Construct(h) \/ Trouble(h) \/ Perish(h)

FileCacheSpec == FileCacheInit /\ [][FileCacheNext]_fileVars

-------------------------------------------------------------------------------
(* Types of the cache directory, the index and the operations under way. *)
FileCacheTypeOK ==
    /\ nameOf \in [Files -> Names] /\ stored \subseteq Files
    /\ contents \in [Paths -> Files \cup {Torn, Nothing}]
    /\ index \in Indexes \cup {Torn} /\ mine \in [Holders -> Indexes]
    /\ step \in [Holders -> Steps] /\ fetch \in [Holders -> Operation] /\ answer \in Outcome
    /\ hour \in Hours /\ troubles \in Nat
    /\ written \in [Paths -> Hours] /\ cut \subseteq Paths

(* The cache stores by name and looks up by id (file_cache.py:74-83), so an id can be
   answered with other bytes than its own: those of a file of the same name, or a torn
   copy where a write was cut short or ran into another; never those of any other file,
   whatever index updates are lost, resurrected or read half-written. *)
WrongBytesHaveCause ==
    /\ answer.reply = "ok" /\ answer.bytes \in Files => nameOf[answer.bytes] = nameOf[answer.file]
    /\ \A p \in Paths : contents[p] = Torn => p \in cut \/ Filling(p) # {}

(* A cached download is no older than the time to live, counted from when the bytes
   themselves were written and not from what an index, perhaps an old one saved over a
   newer one, says of them. *)
CopiesWithinTtl == ~answer.aged

(* An operation fails only for a reason outside the cache: a call failed, the file is not in
   the bucket, or its copy was removed under it.  A lost index update, a copy gone missing
   or an index that cannot be read costs a download and nothing else. *)
FailsOnlyForCause == answer.reply = "failed" => answer.excused \/ answer.file \notin stored

===============================================================================
