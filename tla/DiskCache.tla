------------------------------ MODULE DiskCache ------------------------------
(***************************************************************************)
(* CrafdDiskCacheManager (managers/disk_cache.py): one partition of the     *)
(* on-disk cache, shared by the worker processes of one box.                *)
(*                                                                          *)
(* A partition is two paths, the value directory and the JSON sidecar that  *)
(* labels it, guarded by one file lock.  Each call is the sequence of file  *)
(* system steps it makes; other workers run between any two of them, a step *)
(* may fail (the call's except clause) and a worker may die at one.         *)
(***************************************************************************)
EXTENDS Naturals, FiniteSets

CONSTANTS
    Workers,       \* processes that share the cache directory
    Files,         \* artifacts, named by their file id
    Legacy,        \* those stored with source_kind "legacy"; the others are "wire"
    Leftover,      \* entries an earlier process may have left on disk
    Ttl,           \* ttl_seconds: an older entry is expired
    FaultPhases,   \* phases of a call at which the file system may fail
    CrashPhases,   \* phases at which a worker may die
    MaxTime,       \* bound: the clock stops here
    MaxFaults,     \* bound: file system failures in a behaviour
    MaxCrashes,    \* bound: deaths in a behaviour
    Absent,        \* no path, no result, no lock owner
    Broken,        \* a value directory some of whose files are gone
    Garbled        \* a sidecar that does not parse

LockPhases == {"r_lock", "w_lock", "a_lock"}
\* Phases under the lock: load (read); fill (write only), clear, swap, open,
\* dump (write and write_value_dir).
HeldPhases == {"load", "fill", "clear", "swap", "open", "dump"}
Phases == {"ready"} \cup LockPhases \cup HeldPhases

\* The sidecar's fields that a decision reads; source_kind and provenance are
\* functions of the file they were written with.
Label == [fileId : Files, timestamp : Nat, schema : {"current", "old"}]

ASSUME DiskAssumption ==
    /\ Legacy \subseteq Files /\ Leftover \subseteq Files
    /\ {Ttl, MaxTime, MaxFaults, MaxCrashes} \subseteq Nat
    /\ FaultPhases \subseteq HeldPhases /\ CrashPhases \subseteq Phases
    /\ {Absent, Broken} \cap Files = {} /\ Absent \notin Workers
    /\ Absent # Broken /\ Absent # Garbled /\ {Absent, Garbled} \cap Label = {}

VARIABLES
    now,       \* the wall clock
    value,     \* the artifact in the value directory, Absent or Broken
    meta,      \* the sidecar: a label, Absent or Garbled
    lock,      \* the worker that holds the file lock, or Absent
    phase,     \* phase[w]: where w is in its call
    arg,       \* arg[w]: the file w's call stores
    ret,       \* ret[w]: what w's last call returned
    faults, crashes

diskVars == <<now, value, meta, lock, phase, arg, ret, faults, crashes>>

\* The source_kind a file is stored with.
SourceKind(f) == IF f \in Legacy THEN "legacy" ELSE "wire"

\* The sidecar parses.
Labelled == meta \notin {Absent, Garbled}

\* A call's result: a read's hit with the artifact loaded and the label it was
\* found under; a store's success flag.
Miss == [hit |-> FALSE, data |-> Absent, label |-> Absent]
Hit(data, label) == [hit |-> TRUE, data |-> data, label |-> label]
Stored == [hit |-> TRUE, data |-> Absent, label |-> Absent]
Result == {Miss, Stored} \cup [hit : {TRUE}, data : Files, label : Label]

-------------------------------------------------------------------------------
DiskInit ==
    /\ now = 0 /\ faults = 0 /\ crashes = 0
    /\ \/ value = Absent /\ meta = Absent
       \/ \E f \in Leftover, schema \in {"current", "old"} :
            /\ value = f
            /\ meta = [fileId |-> f, timestamp |-> 0, schema |-> schema]
    /\ lock = Absent
    /\ phase = [w \in Workers |-> "ready"]
    /\ arg = [w \in Workers |-> Absent]
    /\ ret = [w \in Workers |-> Miss]

Enter(w, p, f) ==
    /\ phase[w] = "ready"
    /\ phase' = [phase EXCEPT ![w] = p]
    /\ arg' = [arg EXCEPT ![w] = f]
    /\ ret' = [ret EXCEPT ![w] = Miss]
    /\ UNCHANGED <<now, value, meta, lock, faults, crashes>>

\* The call moves on; it returns nothing yet.
Advance(w, from, to) ==
    /\ phase[w] = from
    /\ phase' = [phase EXCEPT ![w] = to]
    /\ UNCHANGED <<now, arg, ret, faults, crashes>>

\* The call returns r and leaves the `with lock:` block if it is in one.
Return(w, r) ==
    /\ phase' = [phase EXCEPT ![w] = "ready"]
    /\ arg' = [arg EXCEPT ![w] = Absent]
    /\ ret' = [ret EXCEPT ![w] = r]
    /\ lock' = IF lock = w THEN Absent ELSE lock
    /\ UNCHANGED <<now, crashes>>

\* The caller is done with what its last call returned.
Forget(w) ==
    /\ phase[w] = "ready"
    /\ ret' = [ret EXCEPT ![w] = Miss]
    /\ UNCHANGED <<now, value, meta, lock, phase, arg, faults, crashes>>

-------------------------------------------------------------------------------
(* Calls.  read() first probes both paths without the lock. *)

\* Mutant: read() without the lock.
ReadUnlocked(w) ==
    \/ value # Absent /\ meta # Absent /\ Enter(w, "load", Absent)
    \/ /\ value = Absent \/ meta = Absent
       /\ phase[w] = "ready"
       /\ Return(w, Miss)
       /\ UNCHANGED <<value, meta, faults>>

Read(w) ==
    \/ value # Absent /\ meta # Absent /\ Enter(w, "r_lock", Absent)
    \/ /\ value = Absent \/ meta = Absent
       /\ phase[w] = "ready"
       /\ Return(w, Miss)
       /\ UNCHANGED <<value, meta, faults>>

Write(w, f) == Enter(w, "w_lock", f)
WriteValueDir(w, f) == Enter(w, "a_lock", f)

\* check_file_id(): one read of the sidecar, without the lock.
CheckFileId(f) == Labelled /\ meta.fileId = f

-------------------------------------------------------------------------------
(* Steps of a call in progress. *)

\* FileLock(timeout=30): the lock is taken when it is free; the wait for a
\* lock another worker keeps ends in Timeout, which fails the call.
Acquire(w) ==
    /\ phase[w] \in LockPhases /\ lock = Absent
    /\ lock' = w
    /\ Advance(w, phase[w], CASE phase[w] = "r_lock" -> "load"
                              [] phase[w] = "w_lock" -> "fill"
                              [] phase[w] = "a_lock" -> "clear")
    /\ UNCHANGED <<value, meta>>

\* Mutants: no bound on the wait; a Timeout that is swallowed inside the block;
\* a Timeout taken for a dead owner, whose entry is wiped.
LockWaitsForever(w) == FALSE /\ UNCHANGED diskVars
TimeoutSwallowed(w) ==
    /\ phase[w] = "r_lock" /\ lock # Absent
    /\ Advance(w, "r_lock", "load")
    /\ UNCHANGED <<value, meta, lock>>
TimeoutWipes(w) ==
    /\ phase[w] \in LockPhases /\ lock # Absent
    /\ value' = Absent /\ meta' = Absent
    /\ Return(w, Miss)
    /\ UNCHANGED faults

LockTimeout(w) ==
    /\ phase[w] \in LockPhases /\ lock # Absent
    /\ Return(w, Miss)
    /\ UNCHANGED <<value, meta, faults>>

Outdated == Labelled /\ (meta.schema # "current" \/ now - meta.timestamp > Ttl)

\* Mutant: from_value does not notice the files that are gone.
LoadUnchecked(w) ==
    /\ phase[w] = "load"
    /\ Return(w, IF Labelled /\ ~Outdated /\ value # Absent THEN Hit(value, meta) ELSE Miss)
    /\ UNCHANGED <<value, meta, faults>>

\* The locked part of read(): an outdated entry is removed; an entry that does
\* not load is a miss.
Load(w) ==
    /\ phase[w] = "load"
    /\ \/ /\ Outdated
          /\ value' = Absent /\ meta' = Absent
          /\ Return(w, Miss)
       \/ /\ Labelled /\ ~Outdated
          /\ Return(w, IF value \in Files THEN Hit(value, meta) ELSE Miss)
          /\ UNCHANGED <<value, meta>>
       \/ /\ ~Labelled
          /\ Return(w, Miss)
          /\ UNCHANGED <<value, meta>>
    /\ UNCHANGED faults

\* write(): to_value into the temporary directory, under the lock.
Fill(w) == Advance(w, "fill", "clear") /\ UNCHANGED <<value, meta, lock>>

\* shutil.rmtree(value_dir)
Clear(w) == Advance(w, "clear", "swap") /\ value' = Absent /\ UNCHANGED <<meta, lock>>

\* os.replace(staging, value_dir)
Swap(w) == Advance(w, "swap", "open") /\ value' = arg[w] /\ UNCHANGED <<meta, lock>>

\* Mutant: the sidecar is overwritten in place instead of truncated first.
OpenInPlace(w) == Advance(w, "open", "dump") /\ UNCHANGED <<value, meta, lock>>

\* open(meta_path, "w") truncates the sidecar.
Open(w) == Advance(w, "open", "dump") /\ meta' = Garbled /\ UNCHANGED <<value, lock>>

\* json.dump(meta, f), the close, and the release of the lock.
Dump(w) ==
    /\ phase[w] = "dump"
    /\ meta' = [fileId |-> arg[w], timestamp |-> now, schema |-> "current"]
    /\ Return(w, Stored)
    /\ UNCHANGED <<value, faults>>

\* What the value directory may hold when a call stops in the middle of removing
\* it: shutil.rmtree in a store, _cleanup of an outdated entry in a read (which
\* ignores its errors, and removes the sidecar last).
Remains(w) ==
    IF value = Absent THEN {Absent}
    ELSE CASE phase[w] = "clear" -> {value, Broken}
           [] phase[w] = "load" /\ Outdated -> {value, Broken, Absent}
           [] OTHER -> {value}

\* _cleanup goes on to the sidecar when it could not remove the directory.
RemainsOfMeta(w) == IF phase[w] = "load" /\ Outdated THEN {meta, Absent} ELSE {meta}

\* Mutant: the except clause falls through to `return True`.
FailReportsSuccess(w) ==
    /\ phase[w] \in FaultPhases /\ faults < MaxFaults
    /\ value' \in Remains(w) /\ meta' \in RemainsOfMeta(w)
    /\ faults' = faults + 1
    /\ Return(w, Stored)

\* A step raises: the except clause turns it into a miss or a FALSE, the lock
\* is released and nothing done so far is undone.
Fail(w) ==
    /\ phase[w] \in FaultPhases /\ faults < MaxFaults
    /\ value' \in Remains(w) /\ meta' \in RemainsOfMeta(w)
    /\ faults' = faults + 1
    /\ Return(w, Miss)

\* The worker dies; the kernel drops its file lock.
Die(w) ==
    /\ phase[w] \in CrashPhases /\ crashes < MaxCrashes
    /\ value' \in Remains(w)
    /\ crashes' = crashes + 1
    /\ phase' = [phase EXCEPT ![w] = "ready"]
    /\ arg' = [arg EXCEPT ![w] = Absent]
    /\ ret' = [ret EXCEPT ![w] = Miss]
    /\ lock' = IF lock = w THEN Absent ELSE lock
    /\ UNCHANGED <<now, meta, faults>>

CallStep(w) ==
    \/ Acquire(w) \/ LockTimeout(w) \/ Load(w)
    \/ Fill(w) \/ Clear(w) \/ Swap(w) \/ Open(w) \/ Dump(w)

DiskTick ==
    /\ now < MaxTime
    /\ now' = now + 1
    /\ UNCHANGED <<value, meta, lock, phase, arg, ret, faults, crashes>>

-------------------------------------------------------------------------------
(* The cache on its own: callers that make any call at any time. *)

DiskNext ==
    \/ \E w \in Workers :
        \/ Read(w)
        \/ \E f \in Files : Write(w, f) \/ WriteValueDir(w, f)
        \/ Forget(w) \/ CallStep(w) \/ Fail(w) \/ Die(w)
    \/ DiskTick

DiskSpec == DiskInit /\ [][DiskNext]_diskVars

\* A running worker keeps taking the steps of its call; calls, failures, deaths
\* and the clock owe nothing.
DiskFairSpec == DiskSpec /\ \A w \in Workers : WF_diskVars(CallStep(w))

-------------------------------------------------------------------------------
(* Properties *)

\* The variables hold values of their types.
DiskTypeOK ==
    /\ {now, faults, crashes} \subseteq Nat
    /\ value \in Files \cup {Absent, Broken}
    /\ meta \in Label \cup {Absent, Garbled}
    /\ lock \in Workers \cup {Absent}
    /\ phase \in [Workers -> Phases]
    /\ arg \in [Workers -> Files \cup {Absent}]
    /\ ret \in [Workers -> Result]

\* The lock serialises every locked section: a worker is inside one exactly
\* while it owns the lock (the `with lock:` blocks of read, write and
\* write_value_dir), whatever times out, fails or dies.
LockOwnership == \A w \in Workers : phase[w] \in HeldPhases <=> lock = w

\* A store that reports success has made the slot whole: its artifact under its
\* own id (write and write_value_dir return True only at the end of the block).
StoreIsWhole ==
    [][\A w \in Workers :
        ret'[w] = Stored /\ ret[w] # Stored =>
            value' = arg[w] /\ meta' \in Label /\ meta'.fileId = arg[w]]_diskVars

\* A read never destroys an entry it should have returned: outside a store, value
\* and label change only under an outdated label, whatever fails or dies.
ReadsKeepFreshEntries ==
    [][\A w \in Workers :
        phase[w] \in {"ready", "load", "r_lock"} /\ phase'[w] # phase[w] =>
            Outdated \/ UNCHANGED <<value, meta>>]_diskVars

\* What a read returns is a whole entry: the bytes found are those the label
\* names (disk_cache.py:222-223 builds and renames the directory so that no
\* reader meets a torn one).
HitsAreWhole == \A w \in Workers : ret[w].data # Absent => ret[w].data = ret[w].label.fileId

\* Every call returns: the wait for the lock is bounded.
CallsReturn == \A w \in Workers : phase[w] # "ready" ~> phase[w] = "ready"

\* The abstract slot: what a locked read would find.  A store in progress has
\* emptied it until the sidecar is written.
Storing == \E w \in Workers : phase[w] \in {"swap", "open", "dump"}
AbstractSlot ==
    IF value \in Files /\ meta \in Label /\ ~Storing
    THEN [data |-> value, fileId |-> meta.fileId] ELSE Absent
AbstractGot ==
    [w \in Workers |-> IF ret[w].data = Absent THEN Absent
                       ELSE [data |-> ret[w].data, fileId |-> ret[w].label.fileId]]

CS == INSTANCE CacheSlot WITH slot <- AbstractSlot, got <- AbstractGot
\* The files and the lock implement the abstract slot.
ImplementsSlot == CS!Spec
===============================================================================
