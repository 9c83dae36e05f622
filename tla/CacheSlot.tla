------------------------------ MODULE CacheSlot ------------------------------
(***************************************************************************)
(* What one partition of the on-disk cache promises its callers: it holds   *)
(* nothing or one whole entry, an artifact under its own label; a read      *)
(* returns a miss or the entry then held; a store replaces the entry.       *)
(* CrafdDiskCacheManager (module DiskCache) implements it with a value      *)
(* directory, a JSON sidecar and a file lock.                               *)
(***************************************************************************)
EXTENDS Naturals

CONSTANTS
    Workers,   \* the processes that share the cache directory
    Files,     \* artifacts, named by the file id they are cached under
    Absent     \* no entry

VARIABLES
    slot,      \* the entry held, or Absent
    got        \* got[w]: the entry w's last read returned, or Absent

slotVars == <<slot, got>>

\* A whole entry: the cached bytes and the id on their label.
Entry(data, fileId) == [data |-> data, fileId |-> fileId]
Miss == Absent

Init ==
    /\ slot \in {Absent} \cup {Entry(f, f) : f \in Files}
    /\ got = [w \in Workers |-> Miss]

Store == \E f \in Files : slot' = Entry(f, f) /\ UNCHANGED got

\* An entry may vanish at any time: it is a cache.
Drop == slot' = Absent /\ UNCHANGED got

Read(w) ==
    /\ \E result \in {Miss, slot} : got' = [got EXCEPT ![w] = result]
    /\ UNCHANGED slot

\* The caller starts its next call, or dies: the previous result is gone.
Forget(w) == got' = [got EXCEPT ![w] = Miss] /\ UNCHANGED slot

\* A read that finds the entry expired removes it and misses.
Expire(w) == got' = [got EXCEPT ![w] = Miss] /\ slot' = Absent

Next == Store \/ Drop \/ \E w \in Workers : Read(w) \/ Forget(w) \/ Expire(w)

Spec == Init /\ [][Next]_slotVars
===============================================================================
