--------------------------- MODULE DiskCache_proofs ---------------------------
(***************************************************************************)
(* Proofs about DiskCache, for every set of workers and artifacts, every    *)
(* bound and every set of phases at which a call may fail or a worker die.  *)
(***************************************************************************)
EXTENDS DiskCache, TLAPS

\* A store carries its artifact from its first step to its last.
StorePhases == {"w_lock", "a_lock", "fill", "clear", "swap", "open", "dump"}
StoresHaveFile == \A w \in Workers : phase[w] \in StorePhases => arg[w] \in Files

DiskInv == DiskTypeOK /\ StoresHaveFile

\* Whatever a call does, every variable stays in its type.
LEMMA DiskInvStep == DiskInv /\ [DiskNext]_diskVars => DiskInv'
<1> SUFFICES ASSUME DiskInv, [DiskNext]_diskVars PROVE DiskInv'
  OBVIOUS
<1> USE DiskAssumption DEF DiskInv, DiskTypeOK, StoresHaveFile, StorePhases
<1>0. Miss \in Result /\ Stored \in Result
  BY DEF Result
<1>1. ASSUME NEW w \in Workers, Read(w) PROVE DiskInv'
  <2>1. CASE Enter(w, "r_lock", Absent)
    BY <1>0, <2>1 DEF Enter, Phases, LockPhases
  <2>2. CASE Return(w, Miss) /\ UNCHANGED <<value, meta, faults>>
    BY <1>0, <2>2 DEF Return, Phases
  <2> QED BY <1>1, <2>1, <2>2 DEF Read
<1>2. ASSUME NEW w \in Workers, NEW f \in Files, Write(w, f) \/ WriteValueDir(w, f)
      PROVE  DiskInv'
  <2>1. PICK p \in {"w_lock", "a_lock"} : Enter(w, p, f)
    BY <1>2 DEF Write, WriteValueDir
  <2>2. phase' \in [Workers -> Phases] /\ arg' \in [Workers -> Files \cup {Absent}]
    BY <2>1 DEF Enter, Phases, LockPhases
  <2>3. ret' \in [Workers -> Result]
    BY <1>0, <2>1 DEF Enter
  <2>4. StoresHaveFile'
    BY <2>1 DEF Enter
  <2> QED BY <2>1, <2>2, <2>3, <2>4 DEF Enter
<1>3. ASSUME NEW w \in Workers, Forget(w) PROVE DiskInv'
  BY <1>0, <1>3 DEF Forget
<1>4. ASSUME NEW w \in Workers, CallStep(w) PROVE DiskInv'
  <2>1. CASE Acquire(w)
    <3>1. StoresHaveFile'
      BY <2>1 DEF Acquire, Advance, LockPhases
    <3> QED BY <2>1, <3>1 DEF Acquire, Advance, Phases, LockPhases, HeldPhases
  <2>2. CASE LockTimeout(w)
    BY <1>0, <2>2 DEF LockTimeout, Return, Phases
  <2>3. CASE Load(w)
    <3>1. Labelled => meta \in Label
      BY DEF Labelled
    <3>2. Labelled /\ value \in Files => Hit(value, meta) \in Result
      BY <3>1 DEF Hit, Result
    <3>3. PICK r \in Result : Return(w, r)
      BY <1>0, <2>3, <3>2 DEF Load
    <3>4. value' \in {value, Absent} /\ meta' \in {meta, Absent} /\ faults' = faults
      BY <2>3 DEF Load
    <3> QED BY <3>3, <3>4 DEF Return, Phases
  <2>4. CASE Fill(w) \/ Clear(w) \/ Swap(w) \/ Open(w)
    <3>1. StoresHaveFile'
      BY <2>4 DEF Fill, Clear, Swap, Open, Advance
    <3> QED BY <2>4, <3>1 DEF Fill, Clear, Swap, Open, Advance, Phases, HeldPhases
  <2>5. CASE Dump(w)
    BY <1>0, <2>5 DEF Dump, Return, Label, Phases
  <2> QED BY <1>4, <2>1, <2>2, <2>3, <2>4, <2>5 DEF CallStep
<1>5. ASSUME NEW w \in Workers, Fail(w) PROVE DiskInv'
  BY <1>0, <1>5 DEF Fail, Remains, RemainsOfMeta, Return, Phases
<1>6. ASSUME NEW w \in Workers, Die(w) PROVE DiskInv'
  BY <1>0, <1>6 DEF Die, Remains, RemainsOfMeta, Phases
<1>7. CASE DiskTick
  BY <1>7 DEF DiskTick
<1>8. CASE UNCHANGED diskVars
  BY <1>8 DEF diskVars
<1> QED BY <1>1, <1>2, <1>3, <1>4, <1>5, <1>6, <1>7, <1>8 DEF DiskNext

LEMMA DiskInvInit == DiskInit => DiskInv
<1> SUFFICES ASSUME DiskInit PROVE DiskInv
  OBVIOUS
<1> USE DiskAssumption DEF DiskInit
<1>1. value \in Files \cup {Absent, Broken} /\ meta \in Label \cup {Absent, Garbled}
  BY DEF Label
<1>2. Miss \in Result
  BY DEF Result
<1> QED BY <1>1, <1>2 DEF DiskInv, DiskTypeOK, StoresHaveFile, StorePhases, Phases

\* In every run of the cache the variables hold values of their types.
THEOREM DiskTypesHold == DiskSpec => []DiskTypeOK
<1>1. DiskSpec => []DiskInv
  BY DiskInvInit, DiskInvStep, PTL DEF DiskSpec
<1> QED BY <1>1, PTL DEF DiskInv

-------------------------------------------------------------------------------
(* The lock *)

LEMMA LockStep == DiskInv /\ LockOwnership /\ [DiskNext]_diskVars => LockOwnership'
<1> SUFFICES ASSUME DiskInv, LockOwnership, [DiskNext]_diskVars PROVE LockOwnership'
  OBVIOUS
<1> USE DiskAssumption DEF DiskInv, DiskTypeOK, LockOwnership, HeldPhases
<1>1. ASSUME NEW w \in Workers, Read(w) PROVE LockOwnership'
  BY <1>1 DEF Read, Enter, Return
<1>2. ASSUME NEW w \in Workers, NEW f \in Files, Write(w, f) \/ WriteValueDir(w, f)
      PROVE  LockOwnership'
  BY <1>2 DEF Write, WriteValueDir, Enter
<1>3. ASSUME NEW w \in Workers, Forget(w) PROVE LockOwnership'
  BY <1>3 DEF Forget
<1>4. ASSUME NEW w \in Workers, CallStep(w) PROVE LockOwnership'
  <2>1. CASE Acquire(w)
    BY <2>1 DEF Acquire, Advance, LockPhases
  <2>2. CASE LockTimeout(w)
    BY <2>2 DEF LockTimeout, LockPhases, Return
  <2>3. CASE Load(w)
    <3>1. PICK r : Return(w, r)
      BY <2>3 DEF Load
    <3> QED BY <3>1 DEF Return
  <2>4. CASE Fill(w) \/ Clear(w) \/ Swap(w) \/ Open(w)
    BY <2>4 DEF Fill, Clear, Swap, Open, Advance
  <2>5. CASE Dump(w)
    BY <2>5 DEF Dump, Return
  <2> QED BY <1>4, <2>1, <2>2, <2>3, <2>4, <2>5 DEF CallStep
<1>5. ASSUME NEW w \in Workers, Fail(w) PROVE LockOwnership'
  BY <1>5 DEF Fail, Return
<1>6. ASSUME NEW w \in Workers, Die(w) PROVE LockOwnership'
  BY <1>6 DEF Die
<1>7. CASE DiskTick
  BY <1>7 DEF DiskTick
<1>8. CASE UNCHANGED diskVars
  BY <1>8 DEF diskVars
<1> QED BY <1>1, <1>2, <1>3, <1>4, <1>5, <1>6, <1>7, <1>8 DEF DiskNext

\* The file lock serialises every locked section of read, write and
\* write_value_dir, whatever times out, fails or dies.
THEOREM LockOwnershipHolds == DiskSpec => []LockOwnership
<1>1. DiskInit => LockOwnership
  BY DiskAssumption DEF DiskInit, LockOwnership, HeldPhases
<1> QED BY <1>1, DiskInvInit, DiskInvStep, LockStep, PTL DEF DiskSpec

-------------------------------------------------------------------------------
(* A store in progress *)

\* Inside a locked section nobody else is storing.
LEMMA HolderIsAlone ==
    ASSUME LockOwnership, NEW w \in Workers, phase[w] \in HeldPhases
    PROVE  /\ \A v \in Workers : phase[v] \in HeldPhases => v = w
           /\ Storing <=> phase[w] \in {"swap", "open", "dump"}
BY DEF LockOwnership, Storing, HeldPhases

\* What is known of the two paths at every point of a store.
StoreInv ==
    \A w \in Workers :
        /\ phase[w] = "swap" => value = Absent
        /\ phase[w] \in {"open", "dump"} => value = arg[w]
        /\ phase[w] = "dump" => meta = Garbled
        /\ phase[w] # "ready" => ret[w].data = Absent

LEMMA StoreStep ==
    DiskInv /\ LockOwnership /\ StoreInv /\ [DiskNext]_diskVars => StoreInv'
<1> SUFFICES ASSUME DiskInv, LockOwnership, StoreInv, [DiskNext]_diskVars PROVE StoreInv'
  OBVIOUS
<1> USE DiskAssumption DEF DiskInv, DiskTypeOK, StoreInv
<1>0. Miss.data = Absent /\ Stored.data = Absent
  BY DEF Miss, Stored
<1>1. ASSUME NEW w \in Workers, Read(w) \/ Forget(w) PROVE StoreInv'
  BY <1>0, <1>1 DEF Read, Forget, Enter, Return
<1>2. ASSUME NEW w \in Workers, NEW f \in Files, Write(w, f) \/ WriteValueDir(w, f)
      PROVE  StoreInv'
  BY <1>0, <1>2 DEF Write, WriteValueDir, Enter
<1>3. ASSUME NEW w \in Workers, Acquire(w) \/ LockTimeout(w) PROVE StoreInv'
  BY <1>0, <1>3 DEF Acquire, LockTimeout, Advance, Return, LockPhases
<1>4. ASSUME NEW w \in Workers, phase[w] \in HeldPhases, CallStep(w) PROVE StoreInv'
  <2>1. \A v \in Workers : phase[v] \in HeldPhases => v = w
    BY <1>4, HolderIsAlone
  <2>2. CASE Load(w)
    BY <2>1, <2>2 DEF Load, Return, HeldPhases
  <2>3. CASE Fill(w) \/ Clear(w) \/ Swap(w) \/ Open(w)
    BY <2>1, <2>3 DEF Fill, Clear, Swap, Open, Advance, HeldPhases
  <2>4. CASE Dump(w)
    BY <2>1, <2>4 DEF Dump, Return, HeldPhases
  <2> QED BY <1>3, <1>4, <2>2, <2>3, <2>4 DEF CallStep
<1>5. ASSUME NEW w \in Workers, Fail(w) \/ Die(w) PROVE StoreInv'
  <2>1. phase[w] \notin HeldPhases => value' = value
    BY <1>5 DEF Fail, Die, Remains, RemainsOfMeta, HeldPhases
  <2>2. phase[w] \in HeldPhases => \A v \in Workers : phase[v] \in HeldPhases => v = w
    BY HolderIsAlone
  <2> QED BY <1>0, <1>5, <2>1, <2>2 DEF Fail, Die, Return, HeldPhases
<1>6. CASE DiskTick \/ UNCHANGED diskVars
  BY <1>6 DEF DiskTick, diskVars
<1>7. ASSUME NEW w \in Workers, CallStep(w), ~(Acquire(w) \/ LockTimeout(w))
      PROVE  phase[w] \in HeldPhases
  BY <1>7 DEF CallStep, Load, Fill, Clear, Swap, Open, Dump, Advance, HeldPhases
<1> QED BY <1>1, <1>2, <1>3, <1>4, <1>5, <1>6, <1>7 DEF DiskNext

LEMMA StoreInit == DiskInit => StoreInv
BY DEF DiskInit, StoreInv

-------------------------------------------------------------------------------
(* What a single step may never do *)

\* A step that changes where w is in its call is a step of w.
LEMMA OwnStep ==
    ASSUME DiskTypeOK, DiskNext, NEW w \in Workers, phase'[w] # phase[w] \/ ret'[w] # ret[w]
    PROVE  \/ Read(w) \/ Forget(w) \/ CallStep(w) \/ Fail(w) \/ Die(w)
           \/ \E f \in Files : Write(w, f) \/ WriteValueDir(w, f)
<1> USE DEF DiskTypeOK
<1>1. ASSUME NEW v \in Workers, v # w,
             \/ Read(v) \/ Forget(v) \/ CallStep(v) \/ Fail(v) \/ Die(v)
             \/ \E f \in Files : Write(v, f) \/ WriteValueDir(v, f)
      PROVE  FALSE
  <2>1. \E p, r : phase' = [phase EXCEPT ![v] = p] /\ (ret' = ret \/ ret' = [ret EXCEPT ![v] = r])
    <3>1. CASE Read(v) \/ \E f \in Files : Write(v, f) \/ WriteValueDir(v, f)
      BY <3>1 DEF Read, Write, WriteValueDir, Enter, Return
    <3>2. CASE Forget(v)
      BY <3>2 DEF Forget
    <3>3. CASE CallStep(v)
      BY <3>3 DEF CallStep, Acquire, LockTimeout, Load, Fill, Clear, Swap, Open, Dump,
                  Advance, Return
    <3>4. CASE Fail(v) \/ Die(v)
      BY <3>4 DEF Fail, Die, Return
    <3> QED BY <1>1, <3>1, <3>2, <3>3, <3>4
  <2> QED BY <1>1, <2>1
<1>2. ~DiskTick
  BY DEF DiskTick
<1> QED BY <1>1, <1>2 DEF DiskNext

\* A store that reports success has made the slot whole.
THEOREM StoreIsWholeHolds == DiskSpec => StoreIsWhole
<1>1. ASSUME DiskInv, StoreInv, DiskNext, NEW w \in Workers, ret'[w] = Stored, ret[w] # Stored
      PROVE  value' = arg[w] /\ meta' \in Label /\ meta'.fileId = arg[w]
  <2> USE DEF DiskInv, DiskTypeOK
  <2>1. Miss # Stored
    BY DEF Miss, Stored
  <2>2. \A v, l : v \in Files => Hit(v, l) # Stored
    BY DiskAssumption DEF Hit, Stored
  <2>3. ~Read(w) /\ ~Forget(w) /\ ~Fail(w) /\ ~Die(w)
        /\ ~\E f \in Files : Write(w, f) \/ WriteValueDir(w, f)
    BY <1>1, <2>1 DEF Read, Forget, Fail, Die, Write, WriteValueDir, Enter, Return
  <2>4. ~Acquire(w) /\ ~LockTimeout(w) /\ ~Fill(w) /\ ~Clear(w) /\ ~Swap(w) /\ ~Open(w)
    BY <1>1, <2>1 DEF Acquire, LockTimeout, Fill, Clear, Swap, Open, Advance, Return
  <2>5. ~Load(w)
    <3>1. Load(w) =>
            ret'[w] = Miss \/ (value \in Files /\ ret'[w] = Hit(value, meta))
      BY <1>1 DEF Load, Return
    <3> QED BY <1>1, <2>1, <2>2, <3>1
  <2>6. Dump(w)
    BY <1>1, <2>3, <2>4, <2>5, OwnStep DEF CallStep
  <2> QED BY <1>1, <2>6 DEF Dump, Label, StoresHaveFile, StorePhases, StoreInv
<1>2. DiskInv /\ StoreInv /\ [DiskNext]_diskVars =>
        [\A w \in Workers :
            ret'[w] = Stored /\ ret[w] # Stored =>
                value' = arg[w] /\ meta' \in Label /\ meta'.fileId = arg[w]]_diskVars
  BY <1>1
<1>3. DiskInit => LockOwnership
  BY DiskAssumption DEF DiskInit, LockOwnership, HeldPhases
<1> QED BY <1>2, <1>3, DiskInvInit, DiskInvStep, LockStep, StoreInit, StoreStep, PTL
        DEF DiskSpec, StoreIsWhole

\* A read never destroys an entry it should have returned.
THEOREM ReadsKeepFreshEntriesHolds == DiskSpec => ReadsKeepFreshEntries
<1>1. ASSUME DiskInv, DiskNext, NEW w \in Workers, phase[w] \in {"ready", "load", "r_lock"},
             phase'[w] # phase[w]
      PROVE  Outdated \/ UNCHANGED <<value, meta>>
  <2>1. CASE Read(w) \/ Forget(w) \/ \E f \in Files : Write(w, f) \/ WriteValueDir(w, f)
    BY <2>1 DEF Read, Forget, Write, WriteValueDir, Enter
  <2>2. CASE CallStep(w)
    BY <1>1, <2>2 DEF CallStep, Acquire, LockTimeout, Load, Fill, Clear, Swap, Open, Dump, Advance
  <2>3. CASE Fail(w) \/ Die(w)
    BY <1>1, <2>3 DEF Fail, Die, Remains, RemainsOfMeta
  <2> QED BY <1>1, <2>1, <2>2, <2>3, OwnStep DEF DiskInv
<1>2. DiskInv /\ [DiskNext]_diskVars =>
        [\A w \in Workers :
            phase[w] \in {"ready", "load", "r_lock"} /\ phase'[w] # phase[w] =>
                Outdated \/ UNCHANGED <<value, meta>>]_diskVars
  BY <1>1
<1> QED BY <1>2, DiskInvInit, DiskInvStep, PTL DEF DiskSpec, ReadsKeepFreshEntries

-------------------------------------------------------------------------------
(* The abstract slot.  os.replace and the write of the sidecar are two steps: *)
(* a store that stops between them leaves an artifact under the label of its  *)
(* predecessor.  Short of that, the files and the lock implement CacheSlot.   *)

OpenIsSafe == "open" \notin FaultPhases \cup CrashPhases

\* Outside a store a loadable entry is under its own label, and so is every result.
PairInv ==
    /\ value \in Files /\ Labelled /\ ~Storing => meta.fileId = value
    /\ HitsAreWhole

SlotInv == DiskInv /\ LockOwnership /\ StoreInv /\ PairInv

\* A step of w that leaves both paths and its own storing alone keeps the pair.
LEMMA PairStep == SlotInv /\ OpenIsSafe /\ [DiskNext]_diskVars => PairInv'
<1> SUFFICES ASSUME SlotInv, OpenIsSafe, [DiskNext]_diskVars PROVE PairInv'
  OBVIOUS
<1> USE DiskAssumption DEF SlotInv, DiskInv, DiskTypeOK, StoreInv, PairInv, HitsAreWhole
<1>0. Miss.data = Absent /\ Stored.data = Absent
  BY DEF Miss, Stored
<1>1. ASSUME NEW w \in Workers, Read(w) PROVE PairInv'
  BY <1>0, <1>1 DEF Read, Enter, Return, Storing, Labelled
<1>2. ASSUME NEW w \in Workers, NEW f \in Files, Write(w, f) \/ WriteValueDir(w, f)
      PROVE  PairInv'
  BY <1>0, <1>2 DEF Write, WriteValueDir, Enter, Storing, Labelled
<1>3. ASSUME NEW w \in Workers, Forget(w) PROVE PairInv'
  BY <1>0, <1>3 DEF Forget, Storing, Labelled
<1>4. ASSUME NEW w \in Workers, CallStep(w) PROVE PairInv'
  <2>1. CASE Acquire(w)
    BY <2>1 DEF Acquire, Advance, LockPhases, Storing, Labelled
  <2>2. CASE LockTimeout(w)
    BY <1>0, <2>2 DEF LockTimeout, LockPhases, Return, Storing, Labelled
  <2>3. CASE Load(w)
    <3>1. ~Storing /\ \A v \in Workers : phase[v] \in HeldPhases => v = w
      BY <2>3, HolderIsAlone DEF Load, HeldPhases
    <3>2. CASE value' = Absent /\ meta' = Absent /\ Return(w, Miss)
      BY <1>0, <3>1, <3>2 DEF Return, HeldPhases, Storing, Labelled
    <3>3. CASE value \in Files /\ Labelled /\ Return(w, Hit(value, meta))
               /\ UNCHANGED <<value, meta>>
      BY <3>1, <3>3 DEF Return, HeldPhases, Hit, Storing, Labelled
    <3>4. CASE Return(w, Miss) /\ UNCHANGED <<value, meta>>
      BY <1>0, <3>1, <3>4 DEF Return, HeldPhases, Storing, Labelled
    <3> QED BY <2>3, <3>2, <3>3, <3>4 DEF Load
  <2>4. CASE Fill(w)
    BY <2>4 DEF Fill, Advance, Storing, Labelled
  <2>5. CASE Clear(w)
    <3>1. \A v \in Workers : phase[v] \in HeldPhases => v = w
      BY <2>5, HolderIsAlone DEF Clear, Advance, HeldPhases
    <3> QED BY <2>5, <3>1 DEF Clear, Advance, HeldPhases, Storing, Labelled
  <2>6. CASE Swap(w)
    <3>1. \A v \in Workers : phase[v] \in HeldPhases => v = w
      BY <2>6, HolderIsAlone DEF Swap, Advance, HeldPhases
    <3>2. Storing'
      BY <2>6 DEF Swap, Advance, Storing
    <3> QED BY <2>6, <3>1, <3>2 DEF Swap, Advance, HeldPhases
  <2>7. CASE Open(w)
    <3>1. \A v \in Workers : phase[v] \in HeldPhases => v = w
      BY <2>7, HolderIsAlone DEF Open, Advance, HeldPhases
    <3>2. Storing'
      BY <2>7 DEF Open, Advance, Storing
    <3> QED BY <2>7, <3>1, <3>2 DEF Open, Advance, HeldPhases
  <2>8. CASE Dump(w)
    <3>1. \A v \in Workers : phase[v] \in HeldPhases => v = w
      BY <2>8, HolderIsAlone DEF Dump, HeldPhases
    <3>2. value' = arg[w] /\ meta'.fileId = arg[w]
      BY <2>8 DEF Dump
    <3> QED BY <1>0, <2>8, <3>1, <3>2 DEF Dump, Return, HeldPhases
  <2> QED BY <1>4, <2>1, <2>2, <2>3, <2>4, <2>5, <2>6, <2>7, <2>8 DEF CallStep
<1>5. ASSUME NEW w \in Workers, Fail(w) \/ Die(w) PROVE PairInv'
  <2>1. /\ phase[w] # "open"
        /\ value' \in {value, Broken, Absent} /\ meta' \in {meta, Absent}
        /\ phase[w] \notin HeldPhases => value' = value
        /\ phase[w] # "load" => meta' = meta
        /\ phase' = [phase EXCEPT ![w] = "ready"]
        /\ arg' = [arg EXCEPT ![w] = Absent]
        /\ ret' = [ret EXCEPT ![w] = Miss]
    BY <1>5 DEF OpenIsSafe, Fail, Die, Remains, RemainsOfMeta, Return, HeldPhases
  <2>2. CASE phase[w] \in HeldPhases
    <3>1. \A v \in Workers : phase[v] \in HeldPhases => v = w
      BY <2>2, HolderIsAlone
    <3>2. Storing => phase[w] \in {"swap", "dump"}
      BY <2>1, <2>2, HolderIsAlone
    <3>3. value' \in Files => value' = value
      BY <2>1
    <3> QED BY <1>0, <2>1, <2>2, <3>1, <3>2, <3>3 DEF HeldPhases, Labelled
  <2>3. CASE phase[w] \notin HeldPhases
    BY <1>0, <2>1, <2>3 DEF HeldPhases, Storing, Labelled
  <2> QED BY <2>2, <2>3
<1>6. CASE DiskTick
  BY <1>6 DEF DiskTick, Storing, Labelled
<1>7. CASE UNCHANGED diskVars
  BY <1>7 DEF diskVars, Storing, Labelled
<1> QED BY <1>1, <1>2, <1>3, <1>4, <1>5, <1>6, <1>7 DEF DiskNext

LEMMA SlotInit == DiskInit => PairInv /\ CS!Init
<1> SUFFICES ASSUME DiskInit PROVE PairInv /\ CS!Init
  OBVIOUS
<1> USE DiskAssumption DEF DiskInit
<1>1. PairInv
  BY DEF PairInv, HitsAreWhole, Miss, Labelled
<1>2. ~Storing /\ AbstractGot = [w \in Workers |-> Absent]
  BY DEF Storing, AbstractGot, Miss
<1>3. AbstractSlot \in {Absent} \cup {CS!Entry(f, f) : f \in Files}
  BY <1>2 DEF AbstractSlot, CS!Entry
<1> QED BY <1>1, <1>2, <1>3 DEF CS!Init, CS!Miss

\* One worker's result is all that changes in what the callers have got.
LEMMA GotOne ==
    ASSUME DiskTypeOK, NEW w \in Workers, NEW r, ret' = [ret EXCEPT ![w] = r]
    PROVE  AbstractGot' =
             [AbstractGot EXCEPT ![w] =
                IF r.data = Absent THEN Absent
                ELSE [data |-> r.data, fileId |-> r.label.fileId]]
BY DEF AbstractGot, DiskTypeOK

\* Each step of a call is a step of the abstract slot or changes nothing there.
LEMMA SlotStep == SlotInv /\ OpenIsSafe /\ [DiskNext]_diskVars => [CS!Next]_(CS!slotVars)
<1> SUFFICES ASSUME SlotInv, OpenIsSafe, [DiskNext]_diskVars
             PROVE  CS!Next \/ UNCHANGED <<AbstractSlot, AbstractGot>>
  BY DEF CS!slotVars
<1> USE DiskAssumption DEF SlotInv, DiskInv
<1>0. Miss.data = Absent /\ Stored.data = Absent
  BY DEF Miss, Stored
<1>1. ASSUME NEW w \in Workers, ret' = [ret EXCEPT ![w] = Miss], AbstractSlot' = AbstractSlot
      PROVE  CS!Next
  <2>1. AbstractGot' = [AbstractGot EXCEPT ![w] = Absent]
    BY <1>0, <1>1, GotOne
  <2> QED BY <1>1, <2>1 DEF CS!Next, CS!Forget, CS!Miss
<1>2. ASSUME NEW w \in Workers, ret' = [ret EXCEPT ![w] = Miss], AbstractSlot' = Absent
      PROVE  CS!Next
  <2>1. AbstractGot' = [AbstractGot EXCEPT ![w] = Absent]
    BY <1>0, <1>2, GotOne
  <2> QED BY <1>2, <2>1 DEF CS!Next, CS!Expire, CS!Miss
<1>3. ASSUME NEW w \in Workers, Read(w) \/ Forget(w) PROVE CS!Next
  <2>1. /\ ret' = [ret EXCEPT ![w] = Miss]
        /\ phase' = [phase EXCEPT ![w] = phase'[w]] /\ {phase[w], phase'[w]} \subseteq {"ready", "r_lock"}
        /\ UNCHANGED <<value, meta>>
    BY <1>3 DEF Read, Forget, Enter, Return, DiskTypeOK
  <2>2. AbstractSlot' = AbstractSlot
    BY <2>1 DEF AbstractSlot, Storing, DiskTypeOK
  <2> QED BY <1>1, <2>1, <2>2
<1>4. ASSUME NEW w \in Workers, NEW f \in Files, Write(w, f) \/ WriteValueDir(w, f)
      PROVE  CS!Next
  <2>1. /\ ret' = [ret EXCEPT ![w] = Miss]
        /\ phase' = [phase EXCEPT ![w] = phase'[w]] /\ {phase[w], phase'[w]} \subseteq {"ready", "w_lock", "a_lock"}
        /\ UNCHANGED <<value, meta>>
    BY <1>4 DEF Write, WriteValueDir, Enter, DiskTypeOK
  <2>2. AbstractSlot' = AbstractSlot
    BY <2>1 DEF AbstractSlot, Storing, DiskTypeOK
  <2> QED BY <1>1, <2>1, <2>2
<1>5. ASSUME NEW w \in Workers, Acquire(w) \/ Fill(w) \/ Clear(w) \/ Swap(w) \/ Open(w)
      PROVE  CS!Next \/ UNCHANGED <<AbstractSlot, AbstractGot>>
  <2>1. UNCHANGED AbstractGot
    BY <1>5 DEF Acquire, Fill, Clear, Swap, Open, Advance, AbstractGot
  <2>2. CASE Acquire(w) \/ Fill(w)
    <3>1. UNCHANGED AbstractSlot
      BY <2>2 DEF Acquire, Fill, Advance, LockPhases, AbstractSlot, Storing, DiskTypeOK
    <3> QED BY <2>1, <3>1
  <2>3. CASE Clear(w)
    <3>1. AbstractSlot' = Absent
      BY <2>3 DEF Clear, AbstractSlot
    <3> QED BY <2>1, <3>1 DEF CS!Next, CS!Drop
  <2>4. CASE Swap(w) \/ Open(w)
    <3>1. Storing /\ Storing'
      BY <2>4 DEF Swap, Open, Advance, Storing, DiskTypeOK
    <3> QED BY <2>1, <3>1 DEF AbstractSlot
  <2> QED BY <1>5, <2>2, <2>3, <2>4
<1>6. ASSUME NEW w \in Workers, LockTimeout(w) PROVE CS!Next
  <2>1. AbstractSlot' = AbstractSlot
    BY <1>6 DEF LockTimeout, Return, LockPhases, AbstractSlot, Storing, DiskTypeOK
  <2> QED BY <1>1, <1>6, <2>1 DEF LockTimeout, Return
<1>7. ASSUME NEW w \in Workers, Load(w) PROVE CS!Next
  <2>1. ~Storing /\ ~Storing'
    BY <1>7, HolderIsAlone DEF Load, Return, Storing, HeldPhases, DiskTypeOK
  <2>2. CASE value' = Absent /\ Return(w, Miss)
    BY <1>2, <2>2 DEF Return, AbstractSlot
  <2>3. CASE value \in Files /\ Labelled /\ Return(w, Hit(value, meta))
             /\ UNCHANGED <<value, meta>>
    <3>1. AbstractSlot = [data |-> value, fileId |-> meta.fileId]
      BY <2>1, <2>3 DEF AbstractSlot, Labelled, DiskTypeOK
    <3>2. AbstractGot' = [AbstractGot EXCEPT ![w] = AbstractSlot]
      <4> DEFINE r == Hit(value, meta)
      <4>1. r.data = value /\ r.data # Absent /\ r.label = meta
        BY <2>3 DEF Hit
      <4>2. ret' = [ret EXCEPT ![w] = r]
        BY <2>3 DEF Return
      <4> HIDE DEF r
      <4> QED BY <3>1, <4>1, <4>2, GotOne
    <3>3. AbstractSlot' = AbstractSlot
      BY <2>1, <2>3 DEF AbstractSlot
    <3> QED BY <3>2, <3>3 DEF CS!Next, CS!Read
  <2>4. CASE Return(w, Miss) /\ UNCHANGED <<value, meta>>
    <3>1. AbstractSlot' = AbstractSlot
      BY <2>1, <2>4 DEF AbstractSlot
    <3> QED BY <1>1, <2>4, <3>1 DEF Return
  <2> QED BY <1>7, <2>2, <2>3, <2>4 DEF Load
<1>8. ASSUME NEW w \in Workers, Dump(w) PROVE CS!Next
  <2>1. arg[w] \in Files /\ value' = arg[w]
    BY <1>8 DEF Dump, StoreInv, StoresHaveFile, StorePhases
  <2>2. meta' \in Label /\ meta'.fileId = arg[w]
    BY <1>8, <2>1 DEF Dump, Label, DiskTypeOK
  <2>3. ~Storing'
    BY <1>8, HolderIsAlone DEF Dump, Return, Storing, HeldPhases, DiskTypeOK
  <2>4. AbstractSlot' = CS!Entry(arg[w], arg[w])
    BY <2>1, <2>2, <2>3 DEF AbstractSlot, CS!Entry
  <2>5. AbstractGot[w] = Absent
    BY <1>8 DEF Dump, StoreInv, AbstractGot
  <2>6. AbstractGot' = AbstractGot
    BY <1>0, <1>8, <2>5, GotOne DEF Dump, Return, AbstractGot
  <2> QED BY <2>1, <2>4, <2>6 DEF CS!Next, CS!Store
<1>9. ASSUME NEW w \in Workers, Fail(w) \/ Die(w) PROVE CS!Next
  <2>1. /\ phase[w] # "open"
        /\ value' \in {value, Broken, Absent} /\ meta' \in {meta, Absent}
        /\ phase[w] \notin HeldPhases => value' = value
        /\ phase[w] # "load" => meta' = meta
        /\ phase' = [phase EXCEPT ![w] = "ready"]
        /\ ret' = [ret EXCEPT ![w] = Miss]
    BY <1>9 DEF OpenIsSafe, Fail, Die, Remains, RemainsOfMeta, Return, HeldPhases
  <2>2. CASE value' \notin Files \/ meta' \notin Label
    BY <1>2, <2>1, <2>2 DEF AbstractSlot
  <2>3. CASE value' \in Files /\ meta' \in Label
    <3>1. value' = value /\ meta' = meta
      BY <2>1, <2>3, DiskAssumption DEF Label
    <3>2. CASE phase[w] \in HeldPhases
      <4>1. phase[w] \notin {"swap", "open"} /\ (phase[w] = "dump" => meta = Garbled)
        BY <2>1, <2>3, <3>1 DEF StoreInv
      <4>2. CASE phase[w] = "dump"
        BY <1>2, <2>1, <4>1, <4>2 DEF AbstractSlot, Label
      <4>3. CASE phase[w] # "dump"
        <5>1. ~Storing /\ ~Storing'
          BY <2>1, <3>2, <4>1, <4>3, HolderIsAlone DEF Storing, HeldPhases, DiskTypeOK
        <5> QED BY <1>1, <2>1, <3>1, <5>1 DEF AbstractSlot
      <4> QED BY <4>2, <4>3
    <3>3. CASE phase[w] \notin HeldPhases
      <4>1. Storing' = Storing
        BY <2>1, <3>3 DEF Storing, HeldPhases, DiskTypeOK
      <4> QED BY <1>1, <2>1, <3>1, <4>1 DEF AbstractSlot
    <3> QED BY <3>2, <3>3
  <2> QED BY <2>2, <2>3
<1>10. CASE DiskTick \/ UNCHANGED diskVars
  BY <1>10 DEF DiskTick, diskVars, AbstractSlot, AbstractGot, Storing
<1> QED BY <1>3, <1>4, <1>5, <1>6, <1>7, <1>8, <1>9, <1>10 DEF DiskNext, CallStep

\* What a read returns is a whole entry, the bytes its label names, for a
\* store that never stops between the rename and the sidecar.
THEOREM HitsAreWholeHolds == OpenIsSafe => (DiskSpec => []HitsAreWhole)
<1>1. SUFFICES ASSUME OpenIsSafe PROVE DiskSpec => []HitsAreWhole
  OBVIOUS
<1>2. SlotInv /\ [DiskNext]_diskVars => SlotInv'
  BY <1>1, DiskInvStep, LockStep, StoreStep, PairStep DEF SlotInv
<1>3. DiskInit => SlotInv
  BY DiskInvInit, StoreInit, SlotInit, DiskAssumption
     DEF SlotInv, DiskInit, LockOwnership, HeldPhases
<1>4. SlotInv => HitsAreWhole
  BY DEF SlotInv, PairInv
<1> QED BY <1>2, <1>3, <1>4, PTL DEF DiskSpec

\* The value directory, the sidecar and the lock implement the abstract slot.
THEOREM SlotImplemented == OpenIsSafe => (DiskSpec => ImplementsSlot)
<1>1. SUFFICES ASSUME OpenIsSafe PROVE DiskSpec => ImplementsSlot
  OBVIOUS
<1>2. SlotInv /\ [DiskNext]_diskVars => SlotInv'
  BY <1>1, DiskInvStep, LockStep, StoreStep, PairStep DEF SlotInv
<1>3. DiskInit => SlotInv /\ CS!Init
  BY DiskInvInit, StoreInit, SlotInit, DiskAssumption
     DEF SlotInv, DiskInit, LockOwnership, HeldPhases
<1>4. SlotInv /\ [DiskNext]_diskVars => [CS!Next]_(CS!slotVars)
  BY <1>1, SlotStep
<1> QED BY <1>2, <1>3, <1>4, PTL DEF DiskSpec, ImplementsSlot, CS!Spec

-------------------------------------------------------------------------------
(* What its callers need to know                                              *)

\* What a call does to the caller's own view of it.
LEMMA ReadView ==
    ASSUME DiskInv, NEW w \in Workers, Read(w)
    PROVE  /\ phase[w] = "ready" /\ phase' = [phase EXCEPT ![w] = phase'[w]]
           /\ phase'[w] \in {"ready", "r_lock"}
           /\ ret' = [ret EXCEPT ![w] = Miss] /\ arg' = [arg EXCEPT ![w] = Absent]
           /\ UNCHANGED <<now, value, meta>>
BY DEF Read, Enter, Return, DiskInv, DiskTypeOK

LEMMA CallStepView ==
    ASSUME DiskInv, NEW w \in Workers, CallStep(w) \/ Fail(w)
    PROVE  /\ phase' = [phase EXCEPT ![w] = phase'[w]] /\ phase[w] # "ready"
           /\ phase'[w] \in {"r_lock", "load"} => phase[w] \in {"r_lock", "load"}
           /\ phase'[w] \in StorePhases => phase[w] \in StorePhases /\ arg'[w] = arg[w]
           /\ arg' = [arg EXCEPT ![w] = arg'[w]] /\ ret' = [ret EXCEPT ![w] = ret'[w]]
           /\ ret'[w] = Stored => phase[w] = "dump" \/ ret[w] = Stored
           /\ now' = now
<1> USE DEF DiskInv, DiskTypeOK, StorePhases
<1>0. Miss # Stored
  BY DEF Miss, Stored
<1>1. CASE Acquire(w) \/ LockTimeout(w) \/ Fill(w) \/ Clear(w) \/ Swap(w) \/ Open(w) \/ Dump(w)
  BY <1>0, <1>1 DEF Acquire, LockTimeout, Fill, Clear, Swap, Open, Dump, Advance, Return,
                    LockPhases
<1>2. CASE Load(w)
  <2>1. \A l : value \in Files => Hit(value, l) # Stored
    BY DiskAssumption DEF Hit, Stored
  <2>2. PICK r : Return(w, r) /\ r # Stored /\ phase[w] = "load"
    BY <1>0, <1>2, <2>1 DEF Load
  <2> QED BY <2>2 DEF Return
<1>3. CASE Fail(w)
  BY <1>0, <1>3, DiskAssumption DEF Fail, Return, HeldPhases
<1> QED BY <1>1, <1>2, <1>3 DEF CallStep

\* A hit that is not a store's carries a loaded artifact and its label.
LEMMA HitTyped ==
    ASSUME DiskInv, NEW w \in Workers, ret[w].hit, ret[w] # Stored
    PROVE  ret[w].data \in Files /\ ret[w].label \in Label
<1>1. ret[w] # Miss
  BY DEF Miss
<1>2. ret[w] \in [hit : {TRUE}, data : Files, label : Label]
  BY <1>1 DEF DiskInv, DiskTypeOK, Result
<1> QED BY <1>2
===============================================================================
