------------------------ MODULE ForecastServing_proofs ------------------------
(***************************************************************************)
(* Proofs about ForecastServing, for every number of workers, runs, failures*)
(* and deaths.  The service reaches the disk only through the calls of      *)
(* DiskCache, so what is proved of the cache holds of the cache in use.     *)
(***************************************************************************)
EXTENDS ForecastServing, DiskCache_proofs

\* A step of the service is a step of the disk cache, or leaves it alone.
LEMMA DiskStepOfServing == [Next]_vars => [DiskNext]_diskVars
<1> SUFFICES ASSUME Next PROVE DiskNext \/ UNCHANGED diskVars
  BY DEF vars, diskVars
<1>1. ASSUME NEW w \in Workers, NEW force \in BOOLEAN,
             NEW doc \in Runs \cup {Absent, Unfetched}, Arrive(w, force, doc)
      PROVE  DiskNext \/ UNCHANGED diskVars
  BY <1>1 DEF Arrive, DiskNext
<1>2. ASSUME NEW w \in Workers, RequestStep(w) PROVE DiskNext \/ UNCHANGED diskVars
  <2>1. CASE CheckDisk(w) \/ DiskGate(w) \/ Refetch(w) \/ Refuse(w) \/ IngestFails(w)
    BY <2>1 DEF CheckDisk, DiskGate, Refetch, Refuse, IngestFails, DiskNext
  <2>2. CASE Adopt(w)
    <3>1. req[w].doc \in Files
      BY <2>2, ServingAssumption DEF Adopt, Servable
    <3> QED BY <2>2, <3>1 DEF Adopt, DiskNext
  <2>3. CASE Adopted(w) \/ ReadBack(w) \/ Grace(w)
    BY <2>3 DEF Adopted, ReadBack, Grace, DiskNext
  <2> QED BY <1>2, <2>1, <2>2, <2>3 DEF RequestStep
<1>3. ASSUME NEW w \in Workers, DiskStep(w) \/ Restart(w)
      PROVE  DiskNext \/ UNCHANGED diskVars
  BY <1>3 DEF DiskStep, Restart, DiskNext
<1>4. CASE Publish \/ \E r \in Runs : Withdraw(r) \/ Reinstate(r)
  BY <1>4 DEF Publish, Withdraw, Reinstate
<1>5. CASE Tick
  BY <1>5 DEF Tick, DiskNext
<1> QED BY <1>1, <1>2, <1>3, <1>4, <1>5 DEF Next

\* The service uses the cache as its callers may.
THEOREM ServingUsesDiskCache == Spec => DiskSpec
<1>1. Init => DiskInit
  BY DEF Init
<1> QED BY <1>1, DiskStepOfServing, PTL DEF Spec, DiskSpec

-------------------------------------------------------------------------------
(* Types.  A record a caller takes apart is one it may have: a request in      *)
(* progress has a warm entry, no answer yet, and at its three reads no result  *)
(* of a store.                                                                 *)

RequestOK(w) ==
    /\ req[w].pc # "idle" => warm[w] \in Warm /\ reply[w].status = 0
    /\ phase[w] \in {"r_lock", "load"} => req[w].pc \in {"disk", "readback", "grace"}
    /\ phase[w] \in StorePhases => req[w].pc = "adopt" /\ arg[w] = req[w].doc
    /\ req[w].pc \in {"adopt", "readback"} => req[w].doc \in Servable
    /\ req[w].pc \in {"disk", "readback", "grace"} => ret[w] # Stored
RequestInv == \A w \in Workers : RequestOK(w)

TypeInv == DiskInv /\ TypeOK /\ RequestInv

LEMMA TypeInvInit == Init => TypeInv
<1> SUFFICES ASSUME Init PROVE TypeInv
  OBVIOUS
<1> USE DiskAssumption, ServingAssumption DEF Init
<1>1. DiskInv
  BY DiskInvInit
<1>2. RequestInv
  BY DEF RequestInv, RequestOK, DiskInit, Idle, StorePhases
<1>3. /\ req \in [Workers -> Request] /\ reply \in [Workers -> Answer]
      /\ serving \in [Workers -> ServingStates]
  BY DEF Request, Idle, Places, Answer, NoAnswer, Modes, ServingStates
<1>4. published \in 0..MaxRun /\ withdrawn \subseteq Runs /\ born \in [Runs -> Nat]
  OBVIOUS
<1> QED BY <1>1, <1>2, <1>3, <1>4 DEF TypeInv, TypeOK, DiskInv

\* A step of w leaves the other requests alone.
Others(w) ==
    \A v \in Workers \ {w} :
        /\ req'[v] = req[v] /\ warm'[v] = warm[v] /\ reply'[v] = reply[v]
        /\ phase'[v] = phase[v] /\ arg'[v] = arg[v] /\ ret'[v] = ret[v]

LEMMA RequestInvStep == TypeInv /\ [Next]_vars => RequestInv'
<1> SUFFICES ASSUME TypeInv, [Next]_vars PROVE RequestInv'
  OBVIOUS
<1> USE DEF TypeInv, TypeOK, DiskInv, DiskTypeOK
<1>0. /\ Miss # Stored /\ "r_lock" \notin StorePhases
      /\ "ready" \notin StorePhases \cup {"r_lock", "load"}
  BY DEF Miss, Stored, StorePhases
<1>a. ASSUME NEW w \in Workers, Others(w), RequestOK(w)' PROVE RequestInv'
  BY <1>a DEF RequestInv, RequestOK, Others
<1>1. ASSUME NEW w \in Workers, NEW force \in BOOLEAN,
             NEW doc \in Runs \cup {Absent, Unfetched}, Arrive(w, force, doc)
      PROVE  RequestInv'
  <2>1. CurrentEntry(w) \in Warm
    BY DiskAssumption DEF CurrentEntry, Fresh, WarmEntry, Warm
  <2>2. Others(w)
    BY <1>1, ReadView DEF Arrive, Others, diskVars
  <2>3. RequestOK(w)'
    BY <1>0, <1>1, <2>1, ReadView DEF Arrive, RequestInv, RequestOK, NoAnswer, diskVars
  <2> QED BY <1>a, <2>2, <2>3
<1>2. ASSUME NEW w \in Workers, CheckDisk(w) PROVE RequestInv'
  <2>1. Others(w)
    BY <1>2, ReadView DEF CheckDisk, Others, Goto, diskVars
  <2>2. RequestOK(w)'
    BY <1>0, <1>2, ReadView DEF CheckDisk, RequestInv, RequestOK, Request, Goto, diskVars
  <2> QED BY <1>a, <2>1, <2>2
<1>3. ASSUME NEW w \in Workers, DiskGate(w) PROVE RequestInv'
  <2>1. Others(w)
    BY <1>3 DEF DiskGate, Forget, ServeNormally, Serve, Others, Goto
  <2>2. RequestOK(w)'
    BY <1>0, <1>3 DEF DiskGate, Forget, ServeNormally, Serve, RequestInv, RequestOK, Request, Goto
  <2> QED BY <1>a, <2>1, <2>2
<1>4. ASSUME NEW w \in Workers, Refetch(w) PROVE RequestInv'
  <2>1. Others(w)
    BY <1>4, ReadView DEF Refetch, Others, Goto, diskVars
  <2>2. RequestOK(w)'
    BY <1>0, <1>4, ReadView DEF Refetch, RequestInv, RequestOK, Request, Goto, diskVars
  <2> QED BY <1>a, <2>1, <2>2
<1>5. ASSUME NEW w \in Workers, Refuse(w) \/ IngestFails(w) PROVE RequestInv'
  <2>1. Others(w)
    BY <1>5, ReadView DEF Refuse, IngestFails, Others, Goto
  <2>2. RequestOK(w)'
    BY <1>0, <1>5, ReadView DEF Refuse, IngestFails, RequestInv, RequestOK, Request, Goto
  <2> QED BY <1>a, <2>1, <2>2
<1>6. ASSUME NEW w \in Workers, Adopt(w) PROVE RequestInv'
  <2>1. Others(w)
    BY <1>6 DEF Adopt, WriteValueDir, Enter, Others, Goto
  <2>2. RequestOK(w)'
    BY <1>0, <1>6 DEF Adopt, WriteValueDir, Enter, RequestInv, RequestOK, Request, Goto
  <2> QED BY <1>a, <2>1, <2>2
<1>7. ASSUME NEW w \in Workers, Adopted(w) PROVE RequestInv'
  <2>1. Others(w)
    BY <1>7, ReadView DEF Adopted, Others, Goto
  <2>2. RequestOK(w)'
    BY <1>0, <1>7, ReadView DEF Adopted, RequestInv, RequestOK, Request, Goto
  <2> QED BY <1>a, <2>1, <2>2
<1>8. ASSUME NEW w \in Workers, ReadBack(w) PROVE RequestInv'
  <2>1. Others(w)
    BY <1>8, ReadView DEF ReadBack, Forget, ServeNormally, Serve, Others, Goto
  <2>2. RequestOK(w)'
    BY <1>0, <1>8, ReadView
       DEF ReadBack, Forget, ServeNormally, Serve, RequestInv, RequestOK, Request, Goto
  <2> QED BY <1>a, <2>1, <2>2
<1>9. ASSUME NEW w \in Workers, Grace(w) PROVE RequestInv'
  <2>1. Others(w)
    BY <1>9 DEF Grace, Forget, Serve, FailVisible, Others, Goto
  <2>2. RequestOK(w)'
    BY <1>0, <1>9 DEF Grace, Forget, Serve, FailVisible, RequestInv, RequestOK, Request, Goto
  <2> QED BY <1>a, <2>1, <2>2
<1>10. ASSUME NEW w \in Workers, DiskStep(w) PROVE RequestInv'
  <2>1. Others(w)
    BY <1>10, CallStepView DEF DiskStep, workerVars, Others
  <2>2. RequestOK(w)'
    BY <1>0, <1>10, CallStepView
       DEF DiskStep, workerVars, RequestInv, RequestOK, StorePhases
  <2> QED BY <1>a, <2>1, <2>2
<1>11. ASSUME NEW w \in Workers, Restart(w) PROVE RequestInv'
  <2>1. Others(w)
    BY <1>11 DEF Restart, Die, Others
  <2>2. RequestOK(w)'
    BY <1>0, <1>11 DEF Restart, Die, Idle, RequestOK
  <2> QED BY <1>a, <2>1, <2>2
<1>12. CASE Publish \/ (\E r \in Runs : Withdraw(r) \/ Reinstate(r)) \/ Tick \/ UNCHANGED vars
  BY <1>12 DEF Publish, Withdraw, Reinstate, Tick, DiskTick, vars, diskVars, workerVars,
               RequestInv, RequestOK
<1> QED BY <1>1, <1>2, <1>3, <1>4, <1>5, <1>6, <1>7, <1>8, <1>9, <1>10, <1>11, <1>12
        DEF Next, RequestStep

\* The conjuncts of TypeOK that are not the disk's.
RequestTyped == req \in [Workers -> Request]
ReplyTyped == reply \in [Workers -> Answer]
WorkerTyped ==
    /\ warm \in [Workers -> Warm \cup {Absent}]
    /\ serving \in [Workers -> ServingStates]
    /\ prov \in [Workers -> Files \cup {Absent}]
StoreTyped ==
    /\ published \in 0..MaxRun /\ withdrawn \subseteq Runs /\ born \in [Runs -> Nat]
    /\ {blips, rulings} \subseteq Nat

LEMMA LookupTyped == ASSUME TypeInv, NEW doc, Lookup(doc) PROVE blips' \in Nat
BY DEF Lookup, TypeInv, TypeOK

\* Serving e leaves the worker's view in its types.
LEMMA ServeTyped ==
    ASSUME TypeInv, NEW w \in Workers, NEW mode \in Modes, NEW e \in Warm, Serve(w, mode, e)
    PROVE  RequestTyped' /\ ReplyTyped'
<1> DEFINE answer == IF e.data = Absent \/ now - e.since >= MemTtl
                       THEN [status |-> 500, mode |-> mode, data |-> Absent]
                       ELSE [status |-> 200, mode |-> mode, data |-> e.data]
<1>1. answer \in Answer
  BY DEF Answer, Warm
<1>2. reply' = [reply EXCEPT ![w] = answer] /\ Goto(w, "idle")
  BY DEF Serve
<1> HIDE DEF answer
<1>3. ReplyTyped'
  BY <1>1, <1>2 DEF TypeInv, TypeOK, ReplyTyped
<1>4. RequestTyped'
  <2>1. req \in [Workers -> Request] /\ "idle" \in Places
    BY DEF TypeInv, TypeOK, Places
  <2> QED BY <1>2, <2>1 DEF Goto, RequestTyped, Request
<1> QED BY <1>3, <1>4

LEMMA TypeInvStep == TypeInv /\ [Next]_vars => TypeInv'
<1> SUFFICES ASSUME TypeInv, [Next]_vars PROVE TypeInv'
  OBVIOUS
<1> USE DiskAssumption, ServingAssumption
<1>d. DiskInv' /\ RequestInv'
  BY DiskStepOfServing, DiskInvStep, RequestInvStep DEF TypeInv
<1>t. SUFFICES RequestTyped' /\ ReplyTyped' /\ WorkerTyped' /\ StoreTyped'
  BY <1>d DEF TypeInv, TypeOK, DiskInv, RequestTyped, ReplyTyped, WorkerTyped, StoreTyped
<1>u. RequestTyped /\ ReplyTyped /\ WorkerTyped /\ StoreTyped
  BY DEF TypeInv, TypeOK, RequestTyped, ReplyTyped, WorkerTyped, StoreTyped
<1>p. ASSUME NEW w \in Workers, NEW place \in Places, Goto(w, place) PROVE RequestTyped'
  BY <1>p, <1>u DEF Goto, RequestTyped, Request
<1>1. ASSUME NEW w \in Workers, NEW force \in BOOLEAN,
             NEW doc \in Runs \cup {Absent, Unfetched}, Arrive(w, force, doc)
      PROVE  RequestTyped' /\ ReplyTyped' /\ WorkerTyped' /\ StoreTyped'
  <2>1. CurrentEntry(w) \in Warm
    BY <1>u DEF CurrentEntry, Fresh, WarmEntry, Warm, TypeInv, DiskInv, DiskTypeOK, WorkerTyped
  <2>2. RequestTyped'
    BY <1>1, <1>u DEF Arrive, RequestTyped, Request, Places
  <2>3. ReplyTyped'
    BY <1>1, <1>u, <2>1 DEF Arrive, ReplyTyped, Answer, Modes, NoAnswer, Warm
  <2>4. WorkerTyped'
    BY <1>1, <1>u, <2>1 DEF Arrive, WorkerTyped, ServingStates, Warm
  <2>5. StoreTyped'
    BY <1>1, <1>u, LookupTyped DEF Arrive, StoreTyped, storeVars
  <2> QED BY <2>2, <2>3, <2>4, <2>5
<1>2. ASSUME NEW w \in Workers, CheckDisk(w) \/ Refuse(w) \/ IngestFails(w) \/ Adopt(w) \/ Adopted(w)
      PROVE  RequestTyped' /\ ReplyTyped' /\ WorkerTyped' /\ StoreTyped'
  <2>1. RequestTyped'
    BY <1>2, <1>p DEF CheckDisk, Refuse, IngestFails, Adopt, Adopted, Places
  <2>2. ReplyTyped' /\ WorkerTyped' /\ StoreTyped'
    BY <1>2, <1>u DEF CheckDisk, Refuse, IngestFails, Adopt, Adopted, ReplyTyped, WorkerTyped,
                      StoreTyped, storeVars
  <2> QED BY <2>1, <2>2
<1>3. ASSUME NEW w \in Workers, Refetch(w)
      PROVE  RequestTyped' /\ ReplyTyped' /\ WorkerTyped' /\ StoreTyped'
  <2>1. RequestTyped'
    BY <1>3, <1>p, <1>u DEF Refetch, Places, RequestTyped, Request
  <2>2. blips' \in Nat
    BY <1>3, LookupTyped DEF Refetch
  <2>3. ReplyTyped' /\ WorkerTyped' /\ StoreTyped'
    BY <1>3, <1>u, <2>2 DEF Refetch, ReplyTyped, WorkerTyped, StoreTyped, storeVars
  <2> QED BY <2>1, <2>3
<1>4. ASSUME NEW w \in Workers, NEW e, NEW mode \in Modes, ServeNormally(w, mode, e),
             e \in Warm, UNCHANGED <<storeVars, blips>>
      PROVE  RequestTyped' /\ ReplyTyped' /\ WorkerTyped' /\ StoreTyped'
  <2>1. RequestTyped' /\ ReplyTyped'
    BY <1>4, ServeTyped DEF ServeNormally
  <2>2. WorkerTyped' /\ StoreTyped'
    BY <1>4, <1>u DEF ServeNormally, WorkerTyped, StoreTyped, storeVars, ServingStates, Warm
  <2> QED BY <2>1, <2>2
<1>5. ASSUME NEW w \in Workers, DiskGate(w)
      PROVE  RequestTyped' /\ ReplyTyped' /\ WorkerTyped' /\ StoreTyped'
  <2>1. CASE DiskHit(w)
    <3>1. ret[w].data \in Files /\ ret[w].label \in Label /\ warm[w] \in Warm
      BY <1>5, <2>1, HitTyped DEF DiskGate, DiskHit, TypeInv, RequestInv, RequestOK
    <3>2. WarmEntry(warm[w].since, ret[w].data, ret[w].label.fileId, ret[w].label.timestamp) \in Warm
      BY <3>1 DEF WarmEntry, Warm, Label
    <3> QED BY <1>4, <1>5, <2>1, <3>2 DEF DiskGate, Modes
  <2>2. CASE ~DiskHit(w)
    <3>1. RequestTyped'
      BY <1>5, <1>p, <2>2 DEF DiskGate, Places
    <3> QED BY <1>5, <1>u, <2>2, <3>1 DEF DiskGate, ReplyTyped, WorkerTyped, StoreTyped, storeVars
  <2> QED BY <2>1, <2>2
<1>6. ASSUME NEW w \in Workers, ReadBack(w)
      PROVE  RequestTyped' /\ ReplyTyped' /\ WorkerTyped' /\ StoreTyped'
  <2>1. CASE ret[w].hit
    <3>1. ret[w].data \in Files /\ ret[w].label \in Label /\ warm[w] \in Warm /\ req[w].doc \in Files
      BY <1>6, <2>1, HitTyped DEF ReadBack, TypeInv, RequestInv, RequestOK, Servable
    <3>2. WarmEntry(warm[w].since, ret[w].data, req[w].doc, ret[w].label.timestamp) \in Warm
      BY <3>1 DEF WarmEntry, Warm, Label
    <3> QED BY <1>4, <1>6, <2>1, <3>2 DEF ReadBack, Modes
  <2>2. CASE ~ret[w].hit
    <3>1. RequestTyped'
      BY <1>6, <1>p, <2>2 DEF ReadBack, Places
    <3> QED BY <1>6, <1>u, <2>2, <3>1 DEF ReadBack, ReplyTyped, WorkerTyped, StoreTyped, storeVars
  <2> QED BY <2>1, <2>2
<1>7. ASSUME NEW w \in Workers, Grace(w)
      PROVE  RequestTyped' /\ ReplyTyped' /\ WorkerTyped' /\ StoreTyped'
  <2>1. CASE LastGood(w)
    <3>1. ret[w].label \in Label /\ warm[w] \in Warm
      BY <1>7, <2>1, HitTyped DEF Grace, LastGood, TypeInv, RequestInv, RequestOK
    <3>2. RequestTyped' /\ ReplyTyped'
      BY <1>7, <2>1, <3>1, ServeTyped DEF Grace, Modes
    <3> QED BY <1>7, <1>u, <2>1, <3>1, <3>2
            DEF Grace, WorkerTyped, StoreTyped, storeVars, ServingStates, Label
  <2>2. CASE ~LastGood(w)
    <3>1. RequestTyped'
      BY <1>7, <1>p, <2>2 DEF Grace, FailVisible, Places
    <3> QED BY <1>7, <1>u, <2>2, <3>1 DEF Grace, FailVisible, ReplyTyped, WorkerTyped, StoreTyped,
                                          storeVars, ServingStates, Answer, Modes
  <2> QED BY <2>1, <2>2
<1>8. ASSUME NEW w \in Workers, DiskStep(w)
      PROVE  RequestTyped' /\ ReplyTyped' /\ WorkerTyped' /\ StoreTyped'
  BY <1>8, <1>u DEF DiskStep, workerVars, storeVars, RequestTyped, ReplyTyped, WorkerTyped, StoreTyped
<1>9. ASSUME NEW w \in Workers, Restart(w)
      PROVE  RequestTyped' /\ ReplyTyped' /\ WorkerTyped' /\ StoreTyped'
  BY <1>9, <1>u DEF Restart, storeVars, RequestTyped, ReplyTyped, WorkerTyped, StoreTyped, Idle,
                    NoAnswer, Request, Places, Answer, Modes, ServingStates
<1>10. CASE Publish \/ (\E r \in Runs : Withdraw(r) \/ Reinstate(r)) \/ Tick \/ UNCHANGED vars
  <2>1. RequestTyped' /\ ReplyTyped' /\ WorkerTyped'
    BY <1>10, <1>u DEF Publish, Withdraw, Reinstate, Tick, vars, workerVars,
                       RequestTyped, ReplyTyped, WorkerTyped
  <2>2. StoreTyped'
    <3>1. now \in Nat /\ MaxRun \in Nat
      BY DEF TypeInv, DiskInv, DiskTypeOK
    <3>2. CASE Publish
      <4>1. published' \in 0..MaxRun
        BY <1>u, <3>1, <3>2 DEF Publish, StoreTyped
      <4>2. born' \in [Runs -> Nat]
        BY <1>u, <3>1, <3>2 DEF Publish, StoreTyped
      <4> QED BY <1>u, <3>2, <4>1, <4>2 DEF Publish, StoreTyped
    <3>3. CASE \E r \in Runs : Withdraw(r) \/ Reinstate(r)
      BY <1>u, <3>3 DEF Withdraw, Reinstate, StoreTyped
    <3>4. CASE Tick \/ UNCHANGED vars
      BY <1>u, <3>4 DEF Tick, vars, storeVars, StoreTyped
    <3> QED BY <1>10, <3>2, <3>3, <3>4
  <2> QED BY <2>1, <2>2
<1> QED BY <1>1, <1>2, <1>3, <1>5, <1>6, <1>7, <1>8, <1>9, <1>10 DEF Next, RequestStep

\* In every run of the service the variables hold values of their types.
THEOREM ServingTypesHold == Spec => []TypeOK
<1>1. TypeInv => TypeOK
  BY DEF TypeInv
<1> QED BY <1>1, TypeInvInit, TypeInvStep, PTL DEF Spec

-------------------------------------------------------------------------------
(* Only gated runs are served.  Nothing on the serving path looks at a run     *)
(* again once it is on disk, so the invariant follows the artifacts: what the  *)
(* slot, a result, a warm entry and an answer may hold, that a legacy artifact *)
(* is labelled as one, and that a run just adopted has displaced it for good.  *)

\* No earlier build has left an ungated run in the cache.
LeftoverGated == Leftover \subseteq Servable \cup Legacy

LegacyLabelled(data, label) == data \in Legacy => label.fileId \in Legacy

DiskGated ==
    /\ value \in Servable \cup Legacy \cup {Absent, Broken}
    /\ Labelled => LegacyLabelled(value, meta)
    /\ \A w \in Workers :
        /\ ret[w].data \in Servable \cup Legacy \cup {Absent}
        /\ LegacyLabelled(ret[w].data, ret[w].label)

GateOK(w) ==
    /\ warm[w] \in Warm => warm[w].data \in Servable \cup {Absent}
    /\ reply[w].status = 200 => reply[w].data \in Servable
    /\ req[w].pc = "adopt" /\ phase[w] = "ready" /\ ret[w].hit => value \notin Legacy
    /\ req[w].pc = "readback" => value \notin Legacy /\ ret[w].data \notin Legacy
GateInv == \A w \in Workers : GateOK(w)

\* Every store in progress carries a run that passed every gate.
StoresGated == \A w \in Workers : phase[w] \in StorePhases => arg[w] \in Servable

LEMMA ServableFacts ==
    Servable \cap Legacy = {} /\ Absent \notin Servable \cup Legacy /\ Broken \notin Servable \cup Legacy
BY DiskAssumption, ServingAssumption DEF Servable, Runs

LEMMA DiskGatedStep ==
    ASSUME DiskInv, StoreInv, DiskGated, StoresGated, [DiskNext]_diskVars
    PROVE  /\ DiskGated'
           /\ value' \in Legacy => value \in Legacy
           /\ \A w \in Workers :
                ret'[w].data \in Legacy => ret[w].data \in Legacy \/ value \in Legacy
<1> USE ServableFacts DEF DiskInv, DiskTypeOK, DiskGated, LegacyLabelled
<1>0. Miss.data = Absent /\ Stored.data = Absent
  BY DEF Miss, Stored
<1>1. ASSUME NEW w \in Workers, Read(w) \/ Forget(w) \/
             \E f \in Files : Write(w, f) \/ WriteValueDir(w, f)
      PROVE  UNCHANGED <<value, meta>> /\ ret' = [ret EXCEPT ![w] = Miss]
  BY <1>1 DEF Read, Forget, Write, WriteValueDir, Enter, Return
<1>2. ASSUME NEW w \in Workers, UNCHANGED <<value, meta>>, ret' = [ret EXCEPT ![w] = Miss]
      PROVE  DiskGated' /\ \A v \in Workers : ret'[v].data \in Legacy => ret[v].data \in Legacy
  BY <1>0, <1>2 DEF Labelled
<1>3. ASSUME NEW w \in Workers, Acquire(w) \/ Fill(w) \/ Open(w)
      PROVE  DiskGated' /\ UNCHANGED <<value, ret>>
  BY <1>3 DEF Acquire, Fill, Open, Advance, Labelled
<1>4. ASSUME NEW w \in Workers, LockTimeout(w)
      PROVE  UNCHANGED <<value, meta>> /\ ret' = [ret EXCEPT ![w] = Miss]
  BY <1>4 DEF LockTimeout, Return
<1>5. ASSUME NEW w \in Workers, Clear(w) \/ Swap(w)
      PROVE  DiskGated' /\ value' \notin Legacy /\ UNCHANGED ret
  <2>1. value' \in Servable \cup {Absent} /\ UNCHANGED <<meta, ret>>
    BY <1>5 DEF Clear, Swap, Advance, StoresGated, StorePhases
  <2> QED BY <2>1 DEF Labelled
<1>6. ASSUME NEW w \in Workers, Load(w)
      PROVE  /\ DiskGated' /\ (value' \in Legacy => value \in Legacy)
             /\ \A v \in Workers :
                  ret'[v].data \in Legacy => ret[v].data \in Legacy \/ value \in Legacy
  <2>1. CASE value' = Absent /\ meta' = Absent /\ ret' = [ret EXCEPT ![w] = Miss]
    BY <1>0, <2>1 DEF Labelled
  <2>2. CASE value \in Files /\ Labelled /\ ret' = [ret EXCEPT ![w] = Hit(value, meta)]
             /\ UNCHANGED <<value, meta>>
    BY <2>2, DiskAssumption DEF Labelled, Hit
  <2>3. CASE ret' = [ret EXCEPT ![w] = Miss] /\ UNCHANGED <<value, meta>>
    BY <1>2, <2>3
  <2> QED BY <1>6, <2>1, <2>2, <2>3 DEF Load, Return
<1>7. ASSUME NEW w \in Workers, Dump(w)
      PROVE  DiskGated' /\ UNCHANGED value /\ \A v \in Workers : ret'[v].data \in Legacy => ret[v].data \in Legacy
  <2>1. value \in Servable /\ UNCHANGED value /\ ret' = [ret EXCEPT ![w] = Stored]
    BY <1>7 DEF Dump, Return, StoreInv, StoresGated, StorePhases
  <2> QED BY <1>0, <2>1
<1>8. ASSUME NEW w \in Workers, Fail(w) \/ Die(w)
      PROVE  /\ DiskGated' /\ (value' \in Legacy => value \in Legacy)
             /\ \A v \in Workers : ret'[v].data \in Legacy => ret[v].data \in Legacy
  <2>1. value' \in {value, Broken, Absent} /\ meta' \in {meta, Absent} /\ ret' = [ret EXCEPT ![w] = Miss]
    BY <1>8 DEF Fail, Die, Remains, RemainsOfMeta, Return
  <2> QED BY <1>0, <2>1 DEF Labelled
<1>9. CASE DiskTick \/ UNCHANGED diskVars
  BY <1>9 DEF DiskTick, diskVars, Labelled
<1> QED BY <1>1, <1>2, <1>3, <1>4, <1>5, <1>6, <1>7, <1>8, <1>9 DEF DiskNext, CallStep

ServingInv == TypeInv /\ LockOwnership /\ StoreInv /\ DiskGated /\ GateInv

LEMMA StoresAreGated == TypeInv => StoresGated
BY DEF TypeInv, RequestInv, RequestOK, StoresGated

\* A call that ends in a success flag has put a gated run in the slot.
LEMMA StoredMeansGated ==
    ASSUME ServingInv, NEW w \in Workers, CallStep(w) \/ Fail(w), req[w].pc = "adopt",
           phase'[w] = "ready", ret'[w].hit
    PROVE  value' \notin Legacy
<1> USE DEF ServingInv, TypeInv, DiskInv, DiskTypeOK
<1>0. ~Miss.hit
  BY DEF Miss
<1>1. ~Fail(w) /\ ~LockTimeout(w)
  BY <1>0 DEF Fail, LockTimeout, Return
<1>2. ~Load(w)
  BY DEF Load, RequestInv, RequestOK
<1>3. ~(Acquire(w) \/ Fill(w) \/ Clear(w) \/ Swap(w) \/ Open(w))
  BY DEF Acquire, Fill, Clear, Swap, Open, Advance, LockPhases
<1>4. Dump(w)
  BY <1>1, <1>2, <1>3 DEF CallStep
<1> QED BY <1>4, StoresAreGated, ServableFacts DEF Dump, StoreInv, StoresGated, StorePhases

LEMMA GateInvStep == ServingInv /\ [Next]_vars => GateInv'
<1> SUFFICES ASSUME ServingInv, [Next]_vars PROVE GateInv'
  OBVIOUS
<1> USE ServableFacts
<1>t. TypeInv /\ TypeInv' /\ DiskInv /\ StoresGated
  BY TypeInvStep, StoresAreGated DEF ServingInv, TypeInv
<1>d. /\ value' \in Legacy => value \in Legacy
      /\ \A w \in Workers :
            ret'[w].data \in Legacy => ret[w].data \in Legacy \/ value \in Legacy
  BY <1>t, DiskStepOfServing, DiskGatedStep DEF ServingInv
<1>a. ASSUME NEW w \in Workers, Others(w), GateOK(w)' PROVE GateInv'
  BY <1>a, <1>d DEF ServingInv, GateInv, GateOK, Others
<1> USE DEF TypeInv, TypeOK, DiskInv, DiskTypeOK, Request, Goto, GateInv, GateOK, ServingInv
<1>1. ASSUME NEW w \in Workers, NEW force \in BOOLEAN,
             NEW doc \in Runs \cup {Absent, Unfetched}, Arrive(w, force, doc)
      PROVE  GateInv'
  <2>1. CurrentEntry(w) \in Warm /\ CurrentEntry(w).data \in Servable \cup {Absent}
    BY <1>t DEF CurrentEntry, Fresh, WarmEntry, Warm
  <2>2. Others(w)
    BY <1>1, <1>t, ReadView DEF Arrive, Others, diskVars
  <2>3. GateOK(w)'
    BY <1>1, <2>1 DEF Arrive, NoAnswer, WarmHit
  <2> QED BY <1>a, <2>2, <2>3
<1>2. ASSUME NEW w \in Workers, CheckDisk(w) \/ Refuse(w) \/ IngestFails(w) PROVE GateInv'
  <2>1. Others(w)
    BY <1>2, <1>t, ReadView DEF CheckDisk, Refuse, IngestFails, Others, diskVars
  <2>2. GateOK(w)'
    BY <1>2 DEF CheckDisk, Refuse, IngestFails
  <2> QED BY <1>a, <2>1, <2>2
<1>3. ASSUME NEW w \in Workers, Refetch(w) PROVE GateInv'
  <2>1. Others(w)
    BY <1>3, <1>t, ReadView DEF Refetch, Others, diskVars
  <2>2. GateOK(w)'
    BY <1>3 DEF Refetch
  <2> QED BY <1>a, <2>1, <2>2
<1>4. ASSUME NEW w \in Workers, NEW mode, NEW e \in Warm, e.data \in Servable \cup {Absent},
             Serve(w, mode, e), warm'[w] \in {warm[w], e}
      PROVE  GateOK(w)'
  BY <1>4 DEF Serve
<1>5. ASSUME NEW w \in Workers, DiskGate(w) PROVE GateInv'
  <2>1. Others(w)
    BY <1>5 DEF DiskGate, Forget, ServeNormally, Serve, Others
  <2>2. CASE DiskHit(w)
    <3>1. /\ ret[w].data \in Files /\ ret[w].label \in Label /\ warm[w] \in Warm
      BY <1>5, <2>2, HitTyped DEF DiskGate, DiskHit, RequestInv, RequestOK
    <3>2. ret[w].data \in Servable
      BY <2>2, <3>1, DiskAssumption DEF DiskHit, ForecastEntryServable, SourceKind, DiskGated, LegacyLabelled
    <3> DEFINE e == WarmEntry(warm[w].since, ret[w].data, ret[w].label.fileId, ret[w].label.timestamp)
    <3>3. e \in Warm /\ e.data = ret[w].data
      BY <3>1 DEF WarmEntry, Warm, Label
    <3>4. Serve(w, "disk", e) /\ warm' = [warm EXCEPT ![w] = e]
      BY <1>5, <2>2 DEF DiskGate, ServeNormally
    <3> HIDE DEF e
    <3>5. warm'[w] \in {warm[w], e}
      BY <3>4
    <3>6. GateOK(w)'
      BY <1>4, <3>2, <3>3, <3>4, <3>5
    <3> QED BY <1>a, <2>1, <3>6
  <2>3. CASE ~DiskHit(w)
    <3>1. GateOK(w)'
      BY <1>5, <2>3 DEF DiskGate
    <3> QED BY <1>a, <2>1, <3>1
  <2> QED BY <2>2, <2>3
<1>6. ASSUME NEW w \in Workers, Adopt(w) PROVE GateInv'
  <2>1. Others(w)
    BY <1>6 DEF Adopt, WriteValueDir, Enter, Others
  <2>2. GateOK(w)'
    BY <1>6 DEF Adopt, WriteValueDir, Enter
  <2> QED BY <1>a, <2>1, <2>2
<1>7. ASSUME NEW w \in Workers, Adopted(w) PROVE GateInv'
  <2>1. Others(w)
    BY <1>7, <1>t, ReadView DEF Adopted, Others
  <2>2. ret'[w] = Miss /\ UNCHANGED value
    BY <1>7, <1>t, ReadView DEF Adopted
  <2>3. GateOK(w)'
    BY <1>7, <2>2 DEF Adopted, Miss
  <2> QED BY <1>a, <2>1, <2>3
<1>8. ASSUME NEW w \in Workers, ReadBack(w) PROVE GateInv'
  <2>1. Others(w)
    BY <1>8, <1>t, ReadView DEF ReadBack, Forget, ServeNormally, Serve, Others
  <2>2. CASE ret[w].hit
    <3>1. ret[w].data \in Files /\ ret[w].label \in Label /\ warm[w] \in Warm /\ req[w].doc \in Files
      BY <1>8, <2>2, HitTyped, ServingAssumption DEF ReadBack, RequestInv, RequestOK, Servable
    <3>2. ret[w].data \in Servable
      BY <1>8, <3>1, DiskAssumption DEF ReadBack, DiskGated
    <3> DEFINE e == WarmEntry(warm[w].since, ret[w].data, req[w].doc, ret[w].label.timestamp)
    <3>3. e \in Warm /\ e.data = ret[w].data
      BY <3>1 DEF WarmEntry, Warm, Label
    <3>4. Serve(w, "ingest", e) /\ warm' = [warm EXCEPT ![w] = e]
      BY <1>8, <2>2 DEF ReadBack, ServeNormally
    <3> HIDE DEF e
    <3>5. warm'[w] \in {warm[w], e}
      BY <3>4
    <3>6. GateOK(w)'
      BY <1>4, <3>2, <3>3, <3>4, <3>5
    <3> QED BY <1>a, <2>1, <3>6
  <2>3. CASE ~ret[w].hit
    <3>1. GateOK(w)'
      BY <1>8, <2>3 DEF ReadBack
    <3> QED BY <1>a, <2>1, <3>1
  <2> QED BY <2>2, <2>3
<1>9. ASSUME NEW w \in Workers, Grace(w) PROVE GateInv'
  <2>1. Others(w)
    BY <1>9 DEF Grace, Forget, Serve, FailVisible, Others
  <2>2. CASE LastGood(w)
    <3>1. warm[w] \in Warm
      BY <1>9 DEF Grace, RequestInv, RequestOK
    <3>2. Serve(w, "grace", warm[w]) /\ warm' = warm
      BY <1>9, <2>2 DEF Grace
    <3>3. GateOK(w)'
      BY <1>4, <3>1, <3>2
    <3> QED BY <1>a, <2>1, <3>3
  <2>3. CASE ~LastGood(w)
    <3>1. GateOK(w)'
      BY <1>9, <2>3 DEF Grace, FailVisible
    <3> QED BY <1>a, <2>1, <3>1
  <2> QED BY <2>2, <2>3
<1>10. ASSUME NEW w \in Workers, DiskStep(w) PROVE GateInv'
  <2>1. Others(w)
    BY <1>10, <1>t, CallStepView DEF DiskStep, workerVars, Others
  <2>2. phase[w] # "ready" /\ UNCHANGED <<warm, req, reply>>
    BY <1>10, <1>t, CallStepView DEF DiskStep, workerVars
  <2>3. req[w].pc = "adopt" /\ phase'[w] = "ready" /\ ret'[w].hit => value' \notin Legacy
    BY <1>10, StoredMeansGated DEF DiskStep
  <2>4. GateOK(w)'
    BY <1>d, <2>2, <2>3
  <2> QED BY <1>a, <2>1, <2>4
<1>11. ASSUME NEW w \in Workers, Restart(w) PROVE GateInv'
  <2>1. Others(w)
    BY <1>11 DEF Restart, Die, Others
  <2>2. GateOK(w)'
    BY <1>11, ServingAssumption DEF Restart, Idle, NoAnswer
  <2> QED BY <1>a, <2>1, <2>2
<1>12. CASE Publish \/ (\E r \in Runs : Withdraw(r) \/ Reinstate(r)) \/ Tick \/ UNCHANGED vars
  BY <1>12 DEF Publish, Withdraw, Reinstate, Tick, DiskTick, vars, diskVars, workerVars
<1> QED BY <1>1, <1>2, <1>3, <1>5, <1>6, <1>7, <1>8, <1>9, <1>10, <1>11, <1>12
        DEF Next, RequestStep

LEMMA ServingInvInit == Init /\ LeftoverGated => ServingInv
<1> SUFFICES ASSUME Init, LeftoverGated PROVE ServingInv
  OBVIOUS
<1>1. TypeInv /\ DiskInit
  BY TypeInvInit DEF Init
<1>2. LockOwnership
  BY <1>1, DiskAssumption DEF DiskInit, LockOwnership, HeldPhases
<1>3. StoreInv
  BY <1>1, StoreInit
<1>4. value \in Servable \cup Legacy \cup {Absent} /\ Miss.data = Absent
  BY <1>1, DiskAssumption DEF DiskInit, LeftoverGated, Miss
<1>5. Labelled => LegacyLabelled(value, meta)
  BY <1>1 DEF DiskInit, Labelled, LegacyLabelled
<1>6. \A w \in Workers : ret[w].data = Absent
  BY <1>1, <1>4 DEF DiskInit
<1>7. GateInv
  BY ServingAssumption DEF Init, GateInv, GateOK, Idle, NoAnswer
<1> QED BY <1>1, <1>2, <1>3, <1>4, <1>5, <1>6, <1>7, ServableFacts
        DEF ServingInv, DiskGated, LegacyLabelled

LEMMA ServingInvStep == ServingInv /\ [Next]_vars => ServingInv'
<1> SUFFICES ASSUME ServingInv, [Next]_vars PROVE ServingInv'
  OBVIOUS
<1>1. DiskInv /\ [DiskNext]_diskVars
  BY DiskStepOfServing DEF ServingInv, TypeInv
<1>2. LockOwnership'
  BY <1>1, LockStep DEF ServingInv
<1>3. StoreInv'
  BY <1>1, StoreStep DEF ServingInv
<1>4. DiskGated'
  BY <1>1, DiskGatedStep, StoresAreGated DEF ServingInv
<1> QED BY <1>2, <1>3, <1>4, TypeInvStep, GateInvStep DEF ServingInv

\* Whatever fails, dies or races, with any number of workers: if no earlier build
\* left an ungated run on disk, every forecast served passed every gate.
THEOREM OnlyGatedRunsServedHolds == LeftoverGated => (Spec => []OnlyGatedRunsServed)
<1> SUFFICES ASSUME LeftoverGated PROVE Spec => []OnlyGatedRunsServed
  OBVIOUS
<1>1. Init => ServingInv
  BY ServingInvInit
<1>2. ServingInv => OnlyGatedRunsServed
  BY DEF ServingInv, GateInv, GateOK, OnlyGatedRunsServed
<1> QED BY <1>1, <1>2, ServingInvStep, PTL DEF Spec

-------------------------------------------------------------------------------
(* The last-good entry.                                                        *)

\* Only a store that has begun, or a read of an outdated entry, takes an artifact
\* out of the slot.
LEMMA ValueGivenUp ==
    ASSUME DiskInv, StoreInv, LockOwnership, [DiskNext]_diskVars, value' # value, value \in Files
    PROVE  \/ Outdated /\ \E w \in Workers : phase[w] = "load"
           \/ \E w \in Workers : phase[w] \in StorePhases
<1> USE DEF DiskInv, DiskTypeOK
<1>1. ASSUME NEW w \in Workers,
             Read(w) \/ (\E f \in Files : Write(w, f) \/ WriteValueDir(w, f)) \/ Forget(w)
      PROVE  FALSE
  BY <1>1 DEF Read, Write, WriteValueDir, Enter, Forget
<1>2. ASSUME NEW w \in Workers,
             Acquire(w) \/ LockTimeout(w) \/ Fill(w) \/ Open(w) \/ Dump(w)
      PROVE  FALSE
  BY <1>2 DEF Acquire, LockTimeout, Fill, Open, Dump
<1>3. ASSUME NEW w \in Workers, Load(w)
      PROVE  Outdated /\ phase[w] = "load"
  BY <1>3 DEF Load
<1>4. ASSUME NEW w \in Workers, Clear(w) \/ Swap(w)
      PROVE  phase[w] \in StorePhases
  BY <1>4 DEF Clear, Swap, Advance, StorePhases
<1>5. ASSUME NEW w \in Workers, Fail(w) \/ Die(w)
      PROVE  phase[w] \in StorePhases \/ (Outdated /\ phase[w] = "load")
  BY <1>5 DEF Fail, Die, Remains, RemainsOfMeta, StorePhases
<1>6. DiskNext
  BY DEF diskVars
<1>7. ~DiskTick
  BY DEF DiskTick
<1> QED BY <1>1, <1>2, <1>3, <1>4, <1>5, <1>6, <1>7 DEF DiskNext, CallStep

\* What is refused before it is adopted never costs the last-good entry: it leaves the slot
\* because a read found it outdated, or while a run that passed every gate is being
\* adopted, whether that adoption succeeds or not.
THEOREM LastGoodGivenUpInAdoptionHolds == Spec => LastGoodGivenUpInAdoption
<1> DEFINE Inv == TypeInv /\ LockOwnership /\ StoreInv
<1>1. Init => Inv
  <2>1. Init => DiskInit
    BY DEF Init
  <2>2. DiskInit => LockOwnership
    BY DiskAssumption DEF DiskInit, LockOwnership, HeldPhases
  <2> QED BY <2>1, <2>2, TypeInvInit, StoreInit
<1>2. Inv /\ [Next]_vars => Inv'
  <2> SUFFICES ASSUME Inv, [Next]_vars PROVE Inv'
    OBVIOUS
  <2>1. DiskInv /\ [DiskNext]_diskVars
    BY DiskStepOfServing DEF TypeInv
  <2> QED BY <2>1, TypeInvStep, LockStep, StoreStep
<1>3. Inv /\ [Next]_vars =>
        [value' # value /\ value \in Files =>
          \/ Outdated /\ \E w \in Workers : phase[w] = "load"
          \/ \E w \in Workers :
              req[w].pc = "adopt" /\ arg[w] = req[w].doc /\ req[w].doc \in Servable]_vars
  <2> SUFFICES ASSUME Inv, [Next]_vars, value' # value, value \in Files
               PROVE  \/ Outdated /\ \E w \in Workers : phase[w] = "load"
                      \/ \E w \in Workers :
                          req[w].pc = "adopt" /\ arg[w] = req[w].doc /\ req[w].doc \in Servable
    OBVIOUS
  <2>1. \/ Outdated /\ \E w \in Workers : phase[w] = "load"
        \/ \E w \in Workers : phase[w] \in StorePhases
    BY DiskStepOfServing, ValueGivenUp DEF TypeInv
  <2> QED BY <2>1 DEF TypeInv, RequestInv, RequestOK
<1> QED BY <1>1, <1>2, <1>3, PTL DEF Spec, LastGoodGivenUpInAdoption

-------------------------------------------------------------------------------
(* What is answered is what was looked up.                                     *)

\* A wire entry that passes the identity check carries the id of the run looked up.
LEMMA IdentityOfRun ==
    ASSUME NEW f, NEW doc \in Runs, ForecastEntryServable(f), IdentityOk(f, doc)
    PROVE  f = doc
<1>1. doc # Unfetched /\ doc # Absent
  BY DiskAssumption, ServingAssumption
<1> QED BY <1>1 DEF ForecastEntryServable, IdentityOk, WireIdentity

\* The four ways a request is answered with data.
FromWarm(w) ==
    /\ serving'[w] = "normal" /\ reply'[w].mode = "warm" /\ reply'[w].data = warm'[w].data
    /\ warm'[w] = warm[w] /\ warm[w] # Absent /\ warm[w].data # Absent
    /\ prov'[w] = warm[w].fileId
    /\ ForecastEntryServable(warm[w].fileId) /\ IdentityOk(warm[w].fileId, req'[w].doc)
FromDisk(w) ==
    /\ req[w].pc = "disk" /\ req'[w].doc = req[w].doc /\ DiskHit(w)
    /\ reply'[w].data = ret[w].data /\ prov'[w] = ret[w].label.fileId
FromIngest(w) ==
    /\ req[w].pc = "readback" /\ req'[w].doc = req[w].doc /\ reply'[w].mode = "ingest"
    /\ ret[w].hit /\ reply'[w].data = ret[w].data /\ prov'[w] = req[w].doc
FromGrace(w) == serving'[w] = "fallback" /\ reply'[w].mode = "grace"

Unanswered(w) ==
    reply'[w] = reply[w] /\ serving'[w] = serving[w] /\ prov'[w] = prov[w]
    /\ req'[w].doc = req[w].doc

\* A step of another worker changes no answer of w.
LEMMA AnswersOfOthers ==
    ASSUME TypeInv, [Next]_vars, NEW w \in Workers
    PROVE  \/ Unanswered(w)
           \/ \E force \in BOOLEAN, doc \in Runs \cup {Absent, Unfetched} : Arrive(w, force, doc)
           \/ RequestStep(w) \/ Restart(w)
<1> USE DEF TypeInv, TypeOK, Unanswered
<1>1. ASSUME NEW v \in Workers, v # w, NEW force \in BOOLEAN,
             NEW doc \in Runs \cup {Absent, Unfetched}, Arrive(v, force, doc)
      PROVE  Unanswered(w)
  BY <1>1 DEF Arrive
<1>2. ASSUME NEW v \in Workers, v # w, RequestStep(v) PROVE Unanswered(w)
  <2> USE <1>2
  <2>1. CASE CheckDisk(v) \/ Refuse(v) \/ IngestFails(v) \/ Adopt(v) \/ Adopted(v)
    BY <2>1 DEF CheckDisk, Refuse, IngestFails, Adopt, Adopted, Goto
  <2>2. CASE Refetch(v)
    BY <2>2 DEF Refetch, Goto
  <2>3. CASE DiskGate(v) \/ ReadBack(v)
    BY <2>3 DEF DiskGate, ReadBack, ServeNormally, Serve, Goto
  <2>4. CASE Grace(v)
    BY <2>4 DEF Grace, FailVisible, Serve, Goto
  <2> QED BY <2>1, <2>2, <2>3, <2>4 DEF RequestStep
<1>3. ASSUME NEW v \in Workers, DiskStep(v) PROVE Unanswered(w)
  BY <1>3 DEF DiskStep, workerVars
<1>4. ASSUME NEW v \in Workers, v # w, Restart(v) PROVE Unanswered(w)
  BY <1>4 DEF Restart
<1>5. CASE Publish \/ (\E r \in Runs : Withdraw(r) \/ Reinstate(r)) \/ Tick \/ UNCHANGED vars
  BY <1>5 DEF Publish, Withdraw, Reinstate, Tick, vars, workerVars
<1> QED BY <1>1, <1>2, <1>3, <1>4, <1>5 DEF Next

LEMMA WaysToAnswer ==
    ASSUME TypeInv, [Next]_vars, NEW w \in Workers, reply'[w].status = 200
    PROVE  Unanswered(w) \/ FromWarm(w) \/ FromDisk(w) \/ FromIngest(w) \/ FromGrace(w)
<1> USE DEF TypeInv, TypeOK
<1>0. \A v \in Workers : reply[v] \in Answer /\ req[v] \in Request
  OBVIOUS
<1>1. ASSUME NEW force \in BOOLEAN, NEW doc \in Runs \cup {Absent, Unfetched}, Arrive(w, force, doc)
      PROVE  FromWarm(w)
  <2>1. CASE reply' = [reply EXCEPT ![w] = NoAnswer]
    BY <2>1 DEF NoAnswer
  <2>2. CASE ~force /\ WarmHit(CurrentEntry(w), doc)
    <3>1. CurrentEntry(w) = warm[w] /\ warm[w] # Absent
      BY <2>2 DEF CurrentEntry, WarmHit, Fresh, WarmEntry
    <3>2. /\ warm' = [warm EXCEPT ![w] = CurrentEntry(w)]
          /\ serving' = [serving EXCEPT ![w] = "normal"]
          /\ prov' = [prov EXCEPT ![w] = CurrentEntry(w).fileId]
          /\ reply' = [reply EXCEPT ![w] =
                         [status |-> 200, mode |-> "warm", data |-> CurrentEntry(w).data]]
          /\ req' = [req EXCEPT ![w] = [pc |-> "idle", doc |-> doc, force |-> force]]
      BY <1>1, <2>1, <2>2 DEF Arrive
    <3> QED BY <2>2, <3>1, <3>2 DEF WarmHit, FromWarm
  <2> QED BY <1>1, <2>1, <2>2 DEF Arrive
<1>2. ASSUME CheckDisk(w) \/ Refuse(w) \/ IngestFails(w) \/ Adopt(w) \/ Adopted(w) \/ Refetch(w)
      PROVE  FALSE
  BY <1>2 DEF CheckDisk, Refuse, IngestFails, Adopt, Adopted, Refetch, RequestInv, RequestOK
<1>3. CASE DiskGate(w)
  <2>1. CASE DiskHit(w)
    <3> DEFINE e == WarmEntry(warm[w].since, ret[w].data, ret[w].label.fileId, ret[w].label.timestamp)
    <3>1. ServeNormally(w, "disk", e) /\ req[w].pc = "disk"
      BY <1>3, <2>1 DEF DiskGate
    <3>2. e.data = ret[w].data /\ e.fileId = ret[w].label.fileId
      BY DEF WarmEntry
    <3> HIDE DEF e
    <3>3. reply'[w].data = e.data /\ prov'[w] = e.fileId /\ req'[w].doc = req[w].doc
      BY <1>0, <3>1 DEF ServeNormally, Serve, Goto, Request
    <3> QED BY <2>1, <3>1, <3>2, <3>3 DEF FromDisk
  <2>2. CASE ~DiskHit(w)
    BY <1>3, <2>2 DEF DiskGate, RequestInv, RequestOK
  <2> QED BY <2>1, <2>2
<1>4. CASE ReadBack(w)
  <2>1. CASE ret[w].hit
    <3> DEFINE e == WarmEntry(warm[w].since, ret[w].data, req[w].doc, ret[w].label.timestamp)
    <3>1. ServeNormally(w, "ingest", e) /\ req[w].pc = "readback"
      BY <1>4, <2>1 DEF ReadBack
    <3>2. e.data = ret[w].data /\ e.fileId = req[w].doc
      BY DEF WarmEntry
    <3> HIDE DEF e
    <3>3. /\ reply'[w].data = e.data /\ prov'[w] = e.fileId /\ req'[w].doc = req[w].doc
          /\ reply'[w].mode = "ingest"
      BY <1>0, <3>1 DEF ServeNormally, Serve, Goto, Request
    <3> QED BY <2>1, <3>1, <3>2, <3>3 DEF FromIngest
  <2>2. CASE ~ret[w].hit
    BY <1>4, <2>2 DEF ReadBack, RequestInv, RequestOK
  <2> QED BY <2>1, <2>2
<1>5. CASE Grace(w)
  <2>1. CASE LastGood(w)
    BY <1>5, <2>1 DEF Grace, Serve, FromGrace
  <2>2. CASE ~LastGood(w)
    BY <1>5, <2>2 DEF Grace, FailVisible
  <2> QED BY <2>1, <2>2
<1>6. ASSUME Restart(w) PROVE FALSE
  BY <1>6 DEF Restart, NoAnswer
<1> QED BY <1>1, <1>2, <1>3, <1>4, <1>5, <1>6, AnswersOfOthers DEF RequestStep

\* A serve that calls its state normal names the run its lookup returned.
THEOREM LabelledAsLookedUpHolds == Spec => []LabelledAsLookedUp
<1>1. Init => LabelledAsLookedUp
  BY DEF Init, NoAnswer, LabelledAsLookedUp
<1>2. TypeInv /\ LabelledAsLookedUp /\ [Next]_vars => LabelledAsLookedUp'
  <2> SUFFICES ASSUME TypeInv, LabelledAsLookedUp, [Next]_vars, NEW w \in Workers,
                      reply'[w].status = 200, serving'[w] = "normal", req'[w].doc \in Runs
               PROVE  prov'[w] = req'[w].doc
    BY DEF LabelledAsLookedUp
  <2>1. CASE Unanswered(w)
    BY <2>1 DEF Unanswered, LabelledAsLookedUp
  <2>2. CASE FromWarm(w)
    BY <2>2, IdentityOfRun DEF FromWarm
  <2>3. CASE FromDisk(w)
    BY <2>3, IdentityOfRun DEF FromDisk, DiskHit
  <2>4. CASE FromIngest(w) \/ FromGrace(w)
    BY <2>4 DEF FromIngest, FromGrace
  <2> QED BY <2>1, <2>2, <2>3, <2>4, WaysToAnswer
<1> QED BY <1>1, <1>2, TypeInvInit, TypeInvStep, PTL DEF Spec

\* An answer read from the shared disk has the bytes and the name of the run looked up,
\* whatever other workers store meanwhile.
THEOREM DiskAnswersTheManifestHolds == OpenIsSafe => (Spec => []DiskAnswersTheManifest)
<1> SUFFICES ASSUME OpenIsSafe PROVE Spec => []DiskAnswersTheManifest
  OBVIOUS
<1>1. Init => DiskAnswersTheManifest
  BY DEF Init, NoAnswer, DiskAnswersTheManifest
<1>2. TypeInv /\ HitsAreWhole /\ DiskAnswersTheManifest /\ [Next]_vars => DiskAnswersTheManifest'
  <2> SUFFICES ASSUME TypeInv, HitsAreWhole, DiskAnswersTheManifest, [Next]_vars,
                      NEW w \in Workers, reply'[w].status = 200, reply'[w].mode = "disk",
                      req'[w].doc \in Runs
               PROVE  reply'[w].data = req'[w].doc /\ prov'[w] = req'[w].doc
    BY DEF DiskAnswersTheManifest
  <2>1. CASE Unanswered(w)
    BY <2>1 DEF Unanswered, DiskAnswersTheManifest
  <2>2. CASE FromDisk(w)
    <3>1. ret[w].label.fileId = req'[w].doc
      BY <2>2, IdentityOfRun DEF FromDisk, DiskHit
    <3>2. ret[w].data # Absent
      BY <2>2, HitTyped, DiskAssumption DEF FromDisk, DiskHit, TypeInv, RequestInv, RequestOK
    <3> QED BY <2>2, <3>1, <3>2 DEF FromDisk, HitsAreWhole
  <2>3. CASE FromWarm(w) \/ FromIngest(w) \/ FromGrace(w)
    BY <2>3 DEF FromWarm, FromIngest, FromGrace
  <2> QED BY <2>1, <2>2, <2>3, WaysToAnswer
<1>3. Spec => []HitsAreWhole
  BY ServingUsesDiskCache, HitsAreWholeHolds
<1>4. Spec => []TypeInv
  BY TypeInvInit, TypeInvStep, PTL DEF Spec
<1> QED BY <1>1, <1>2, <1>3, <1>4, PTL DEF Spec

-------------------------------------------------------------------------------
(* With one worker the read-back finds what it stored, so a warm entry is what *)
(* its label says, and so is every answer.                                     *)

WarmIsLabelled(w) == warm[w] # Absent /\ warm[w].data # Absent => warm[w].data = warm[w].fileId
ReadsItsStore(w) ==
    /\ req[w].pc = "adopt" /\ phase[w] = "ready" /\ ret[w].hit => value = req[w].doc
    /\ req[w].pc = "readback" =>
          value \in {req[w].doc, Broken, Absent} /\ ret[w].data \in {req[w].doc, Absent}
AloneInv == SlotInv /\ TypeInv /\ \A w \in Workers : WarmIsLabelled(w) /\ ReadsItsStore(w)

\* What a step of a call makes of the slot and of its result.
LEMMA CallLeaves ==
    ASSUME DiskInv, NEW w \in Workers, CallStep(w) \/ Fail(w), phase[w] \in {"r_lock", "load"}
    PROVE  /\ value' \in {value, Broken, Absent}
           /\ ret'[w].data \in {ret[w].data, Absent} \/ (value \in Files /\ ret'[w].data = value)
<1> USE DEF DiskInv, DiskTypeOK
<1>0. Miss.data = Absent
  BY DEF Miss
<1>1. CASE Load(w)
  <2>1. CASE ret' = [ret EXCEPT ![w] = Miss] /\ value' \in {value, Absent}
    BY <1>0, <2>1
  <2>2. CASE value \in Files /\ ret' = [ret EXCEPT ![w] = Hit(value, meta)]
             /\ value' = value
    BY <2>2 DEF Hit
  <2> QED BY <1>1, <2>1, <2>2 DEF Load, Return
<1>2. CASE Acquire(w) \/ LockTimeout(w)
  BY <1>0, <1>2 DEF Acquire, LockTimeout, Advance, Return
<1>3. CASE Fail(w)
  BY <1>0, <1>3 DEF Fail, Remains, RemainsOfMeta, Return
<1>4. ~(Fill(w) \/ Clear(w) \/ Swap(w) \/ Open(w) \/ Dump(w))
  BY DEF Fill, Clear, Swap, Open, Dump, Advance
<1> QED BY <1>1, <1>2, <1>3, <1>4 DEF CallStep

\* A store that reports success has left its artifact in the slot.
LEMMA StoredIsThere ==
    ASSUME DiskInv, StoreInv, RequestInv, NEW w \in Workers, CallStep(w) \/ Fail(w),
           req[w].pc = "adopt", phase'[w] = "ready", ret'[w].hit
    PROVE  value' = arg[w]
<1> USE DEF DiskInv, DiskTypeOK
<1>0. ~Miss.hit
  BY DEF Miss
<1>1. ~Fail(w) /\ ~LockTimeout(w)
  BY <1>0 DEF Fail, LockTimeout, Return
<1>2. ~Load(w)
  BY DEF Load, RequestInv, RequestOK
<1>3. ~(Acquire(w) \/ Fill(w) \/ Clear(w) \/ Swap(w) \/ Open(w))
  BY DEF Acquire, Fill, Clear, Swap, Open, Advance, LockPhases
<1>4. Dump(w)
  BY <1>1, <1>2, <1>3 DEF CallStep
<1> QED BY <1>4 DEF Dump, StoreInv

LEMMA WarmStep ==
    ASSUME AloneInv, [Next]_vars, NEW w \in Workers
    PROVE  WarmIsLabelled(w)'
<1> USE DEF AloneInv, TypeInv, TypeOK, WarmIsLabelled
<1>1. CASE warm'[w] = warm[w]
  BY <1>1
<1>2. ASSUME NEW v \in Workers, NEW e, warm' = [warm EXCEPT ![v] = e],
             e.data # Absent => e.data = e.fileId
      PROVE  WarmIsLabelled(w)'
  BY <1>2
<1>3. ASSUME NEW v \in Workers, NEW force \in BOOLEAN,
             NEW doc \in Runs \cup {Absent, Unfetched}, Arrive(v, force, doc)
      PROVE  WarmIsLabelled(w)'
  <2>1. warm' = [warm EXCEPT ![v] = CurrentEntry(v)]
    BY <1>3 DEF Arrive
  <2>2. CurrentEntry(v).data # Absent => CurrentEntry(v).data = CurrentEntry(v).fileId
    BY DEF CurrentEntry, Fresh, WarmEntry
  <2> HIDE DEF WarmIsLabelled
  <2> QED BY <1>2, <2>1, <2>2
<1>4. ASSUME NEW v \in Workers, DiskGate(v) PROVE WarmIsLabelled(w)'
  <2>1. CASE DiskHit(v)
    <3> DEFINE e == WarmEntry(warm[v].since, ret[v].data, ret[v].label.fileId, ret[v].label.timestamp)
    <3>1. warm' = [warm EXCEPT ![v] = e]
      BY <1>4, <2>1 DEF DiskGate, ServeNormally
    <3>2. e.data = ret[v].data /\ e.fileId = ret[v].label.fileId
      BY DEF WarmEntry
    <3>3. ret[v].data # Absent => ret[v].data = ret[v].label.fileId
      BY DEF SlotInv, PairInv, HitsAreWhole
    <3> HIDE DEF e, WarmIsLabelled
    <3> QED BY <1>2, <3>1, <3>2, <3>3
  <2>2. CASE ~DiskHit(v)
    BY <1>1, <1>4, <2>2 DEF DiskGate
  <2> QED BY <2>1, <2>2
<1>5. ASSUME NEW v \in Workers, ReadBack(v) PROVE WarmIsLabelled(w)'
  <2>1. CASE ret[v].hit
    <3> DEFINE e == WarmEntry(warm[v].since, ret[v].data, req[v].doc, ret[v].label.timestamp)
    <3>1. warm' = [warm EXCEPT ![v] = e] /\ req[v].pc = "readback"
      BY <1>5, <2>1 DEF ReadBack, ServeNormally
    <3>2. e.data = ret[v].data /\ e.fileId = req[v].doc
      BY DEF WarmEntry
    <3>3. ret[v].data \in {req[v].doc, Absent}
      BY <3>1 DEF ReadsItsStore
    <3> HIDE DEF e, WarmIsLabelled
    <3> QED BY <1>2, <3>1, <3>2, <3>3
  <2>2. CASE ~ret[v].hit
    BY <1>1, <1>5, <2>2 DEF ReadBack
  <2> QED BY <2>1, <2>2
<1>6. ASSUME NEW v \in Workers, CheckDisk(v) \/ Refetch(v) \/ Refuse(v) \/ IngestFails(v) \/
                                Adopt(v) \/ Adopted(v) \/ DiskStep(v)
      PROVE  warm' = warm
  BY <1>6 DEF CheckDisk, Refetch, Refuse, IngestFails, Adopt, Adopted, DiskStep, workerVars
<1>7. ASSUME NEW v \in Workers, Grace(v) PROVE warm' = warm
  BY <1>7 DEF Grace, FailVisible
<1>8. ASSUME NEW v \in Workers, Restart(v) PROVE WarmIsLabelled(w)'
  BY <1>8 DEF Restart
<1>9. CASE Publish \/ (\E r \in Runs : Withdraw(r) \/ Reinstate(r)) \/ Tick \/ UNCHANGED vars
  BY <1>1, <1>9 DEF Publish, Withdraw, Reinstate, Tick, vars, workerVars
<1> HIDE DEF WarmIsLabelled
<1> QED BY <1>1, <1>3, <1>4, <1>5, <1>6, <1>7, <1>8, <1>9 DEF Next, RequestStep

LEMMA ReadsStep ==
    ASSUME AloneInv, [Next]_vars, NEW w \in Workers, Workers = {w}
    PROVE  ReadsItsStore(w)'
<1> USE DiskAssumption DEF AloneInv, TypeInv, TypeOK, DiskInv, DiskTypeOK, ReadsItsStore, Request
<1>0. /\ ~Miss.hit /\ Miss.data = Absent
      /\ DiskInv /\ RequestOK(w) /\ StoreInv
  BY DEF Miss, RequestInv, SlotInv
<1>1. ASSUME NEW force \in BOOLEAN, NEW doc \in Runs \cup {Absent, Unfetched}, Arrive(w, force, doc)
      PROVE  ReadsItsStore(w)'
  BY <1>1 DEF Arrive
<1>2. CASE CheckDisk(w) \/ Refuse(w) \/ IngestFails(w) \/ Refetch(w)
  BY <1>2 DEF CheckDisk, Refuse, IngestFails, Refetch, Goto
<1>3. CASE DiskGate(w)
  BY <1>3 DEF DiskGate, ServeNormally, Serve, Goto
<1>4. CASE Adopt(w)
  BY <1>0, <1>4 DEF Adopt, WriteValueDir, Enter, Goto
<1>5. CASE Adopted(w)
  <2>1. ret'[w] = Miss /\ value' = value /\ req'[w].doc = req[w].doc
        /\ req'[w].pc \in {"readback", "grace"}
        /\ (req'[w].pc = "readback" => ret[w].hit) /\ req[w].pc = "adopt" /\ phase[w] = "ready"
    BY <1>0, <1>5, ReadView DEF Adopted, Goto
  <2> QED BY <1>0, <2>1
<1>6. CASE ReadBack(w)
  BY <1>6 DEF ReadBack, ServeNormally, Serve, Goto
<1>7. CASE Grace(w)
  BY <1>7 DEF Grace, FailVisible, Serve, Goto
<1>8. CASE DiskStep(w)
  <2>1. (CallStep(w) \/ Fail(w)) /\ req' = req /\ phase[w] # "ready"
    BY <1>0, <1>8, CallStepView DEF DiskStep, workerVars
  <2>2. CASE req[w].pc = "adopt"
    <3>1. phase'[w] = "ready" /\ ret'[w].hit => value' = arg[w]
      BY <2>1, <2>2, StoredIsThere, <1>0
    <3>2. phase[w] \in StorePhases
      BY <1>0, <2>1, <2>2 DEF RequestOK, StorePhases, Phases, LockPhases, HeldPhases
    <3> QED BY <1>0, <2>1, <2>2, <3>1, <3>2 DEF RequestOK
  <2>3. CASE req[w].pc = "readback"
    <3>1. phase[w] \in {"r_lock", "load"}
      BY <1>0, <2>1, <2>3 DEF RequestOK, StorePhases, Phases, LockPhases, HeldPhases
    <3>2. /\ value' \in {value, Broken, Absent}
          /\ ret'[w].data \in {ret[w].data, Absent} \/ (value \in Files /\ ret'[w].data = value)
      BY <1>0, <2>1, <3>1, CallLeaves
    <3> QED BY <2>1, <2>3, <3>2
  <2> QED BY <2>1, <2>2, <2>3
<1>9. CASE Restart(w)
  BY <1>9 DEF Restart, Idle
<1>10. CASE Publish \/ (\E r \in Runs : Withdraw(r) \/ Reinstate(r)) \/ Tick \/ UNCHANGED vars
  BY <1>10 DEF Publish, Withdraw, Reinstate, Tick, DiskTick, vars, diskVars, workerVars
<1> HIDE DEF ReadsItsStore
<1> QED BY <1>1, <1>2, <1>3, <1>4, <1>5, <1>6, <1>7, <1>8, <1>9, <1>10 DEF Next, RequestStep

LEMMA AloneStep ==
    ASSUME OpenIsSafe, NEW w, Workers = {w}, AloneInv, [Next]_vars
    PROVE  AloneInv'
<1>1. SlotInv'
  BY DiskStepOfServing, DiskInvStep, LockStep, StoreStep, PairStep DEF AloneInv, SlotInv
<1>2. TypeInv'
  BY TypeInvStep DEF AloneInv
<1>3. w \in Workers
  OBVIOUS
<1>4. WarmIsLabelled(w)' /\ ReadsItsStore(w)'
  BY <1>3, WarmStep, ReadsStep
<1> QED BY <1>1, <1>2, <1>4 DEF AloneInv

\* A single worker that calls its state normal answers with the bytes and the name of the
\* run its lookup returned, whatever fails, dies, is withdrawn or is published meanwhile.
THEOREM AnswersTheManifestHolds ==
    OpenIsSafe /\ (\E w : Workers = {w}) => (Spec => []AnswersTheManifest)
<1> SUFFICES ASSUME OpenIsSafe, NEW w, Workers = {w} PROVE Spec => []AnswersTheManifest
  OBVIOUS
<1>1. Init => AloneInv /\ AnswersTheManifest
  <2> SUFFICES ASSUME Init PROVE AloneInv /\ AnswersTheManifest
    OBVIOUS
  <2>1. SlotInv
    BY DiskInvInit, StoreInit, SlotInit, DiskAssumption
       DEF SlotInv, Init, DiskInit, LockOwnership, HeldPhases
  <2>2. \A v \in Workers : WarmIsLabelled(v) /\ ReadsItsStore(v)
    BY DEF Init, Idle, WarmIsLabelled, ReadsItsStore
  <2>3. AnswersTheManifest
    BY DEF Init, NoAnswer, AnswersTheManifest
  <2> QED BY <2>1, <2>2, <2>3, TypeInvInit DEF AloneInv
<1>2. AloneInv /\ AnswersTheManifest /\ [Next]_vars => AnswersTheManifest'
  <2> SUFFICES ASSUME AloneInv, AnswersTheManifest, [Next]_vars, NEW v \in Workers,
                      reply'[v].status = 200, serving'[v] = "normal", req'[v].doc \in Runs
               PROVE  reply'[v].data = req'[v].doc /\ prov'[v] = req'[v].doc
    BY DEF AnswersTheManifest
  <2>0. TypeInv /\ TypeInv' /\ req'[v].doc # Absent
    BY TypeInvStep, DiskAssumption, ServingAssumption DEF AloneInv
  <2>1. CASE Unanswered(v)
    BY <2>1 DEF Unanswered, AnswersTheManifest
  <2>2. CASE FromWarm(v)
    BY <2>2, IdentityOfRun DEF FromWarm, AloneInv, WarmIsLabelled
  <2>3. CASE FromDisk(v)
    <3>1. ret[v].label.fileId = req'[v].doc
      BY <2>3, IdentityOfRun DEF FromDisk, DiskHit
    <3>2. ret[v].data # Absent
      BY <2>0, <2>3, HitTyped, DiskAssumption DEF FromDisk, DiskHit, TypeInv, RequestInv, RequestOK
    <3> QED BY <2>3, <3>1, <3>2 DEF FromDisk, AloneInv, SlotInv, PairInv, HitsAreWhole
  <2>4. CASE FromIngest(v)
    <3>1. ret[v].data # Absent
      BY <2>0, <2>4, HitTyped, DiskAssumption DEF FromIngest, TypeInv, RequestInv, RequestOK
    <3> QED BY <2>4, <3>1 DEF FromIngest, AloneInv, ReadsItsStore
  <2>5. CASE FromGrace(v)
    BY <2>5 DEF FromGrace
  <2> QED BY <2>0, <2>1, <2>2, <2>3, <2>4, <2>5, WaysToAnswer
<1>3. AloneInv /\ [Next]_vars => AloneInv'
  BY AloneStep
<1> QED BY <1>1, <1>2, <1>3, PTL DEF Spec

===============================================================================
