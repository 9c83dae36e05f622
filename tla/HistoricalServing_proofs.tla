------------------------ MODULE HistoricalServing_proofs ------------------------
(***************************************************************************)
(* Proofs about HistoricalServing, for every number of workers, artifacts,  *)
(* failures and deaths.  As for forecasts, the service reaches the disk     *)
(* only through the calls of DiskCache.                                     *)
(***************************************************************************)
EXTENDS HistoricalServing, DiskCache_proofs

-------------------------------------------------------------------------------
(* The requests                                                                *)

\* What may be served: what passed the checks, or was on disk before the service started.
Good == Sound \cup Leftover

\* What holds of a worker with request a, entry e and answer o, whose call is at phase p
\* with argument g and whose last call returned r, at time t.
WorkerOK(a, e, o, p, g, r, t) ==
    /\ a \in Ask /\ e \in Entry \cup {Absent} /\ o \in Outcome
    /\ e # Absent => e \in Entry /\ e.data \in Good \cup {Absent}
    /\ r.data \in Good \cup {Absent}
    /\ o.status = 200 => o.data \in Good
    /\ a.at # "idle" => e # Absent /\ o.status = 0
    /\ p \in {"r_lock", "load"} => a.at \in {"disk", "readback"}
    /\ p \in StorePhases => a.at \in {"adopt", "write"} /\ g = a.file
    /\ a.at \in {"adopt", "readback", "write"} => a.file \in Sound
    /\ a.at = "ingest" => a.file \in Files
    /\ a.at \in {"disk", "readback"} => r # Stored
    /\ o.status = 500 =>
          a.excused \/ a.file \in Files \ Sound \/ (e # Absent /\ t - e.since >= KeyTtl)

RequestOK(w) == WorkerOK(ask[w], entry[w], outcome[w], phase[w], arg[w], ret[w], now)
Shaped == DOMAIN ask = Workers /\ DOMAIN entry = Workers /\ DOMAIN outcome = Workers
ValueOK == value \in Good \cup {Absent, Broken}
HistInv == DiskInv /\ Shaped /\ ValueOK /\ \A w \in Workers : RequestOK(w)

\* A step of w leaves the other workers alone, but for having overtaken them.
Aside(w) ==
    \A v \in Workers : v # w =>
        /\ ask'[v] = ask[v] \/ ask'[v] = [ask[v] EXCEPT !.overtaken = TRUE]
        /\ entry'[v] = entry[v] /\ outcome'[v] = outcome[v]
        /\ phase'[v] = phase[v] /\ arg'[v] = arg[v] /\ ret'[v] = ret[v]
Moves(w) == Aside(w) /\ RequestOK(w)' /\ Shaped' /\ ValueOK' /\ now' = now

Places == {"idle", "check", "disk", "lineage", "ingest", "adopt", "readback", "write"}

LEMMA Overtaken ==
    ASSUME NEW a \in Ask, NEW b, b = [a EXCEPT !.overtaken = TRUE]
    PROVE  b \in Ask /\ b.at = a.at /\ b.file = a.file /\ b.excused = a.excused
BY DEF Ask

LEMMA Moved ==
    ASSUME NEW a \in Ask, NEW p \in Places, NEW b, b = [a EXCEPT !.at = p]
    PROVE  b \in Ask /\ b.at = p /\ b.file = a.file /\ b.excused = a.excused
BY DEF Ask, Places

LEMMA OneWorkerMoves ==
    ASSUME HistInv, NEW w \in Workers, Moves(w), DiskInv' PROVE HistInv'
<1>1. ASSUME NEW v \in Workers, v # w PROVE RequestOK(v)'
  <2>1. /\ WorkerOK(ask[v], entry[v], outcome[v], phase[v], arg[v], ret[v], now)
        /\ ask[v] \in Ask
    BY DEF HistInv, RequestOK, WorkerOK
  <2>2. CASE ask'[v] = ask[v]
    BY <1>1, <2>1, <2>2 DEF Moves, Aside, RequestOK
  <2>3. CASE ask'[v] = [ask[v] EXCEPT !.overtaken = TRUE]
    <3> PICK b : b = ask'[v]
      OBVIOUS
    <3>1. b \in Ask /\ b.at = ask[v].at /\ b.file = ask[v].file /\ b.excused = ask[v].excused
      BY <2>1, <2>3, Overtaken
    <3>2. WorkerOK(b, entry[v], outcome[v], phase[v], arg[v], ret[v], now)
      BY <2>1, <3>1 DEF WorkerOK
    <3> QED BY <1>1, <3>2 DEF Moves, Aside, RequestOK
  <2> QED BY <1>1, <2>2, <2>3 DEF Moves, Aside
<1> QED BY <1>1 DEF HistInv, Moves

\* Where worker w is.
LEMMA HereIs ==
    ASSUME HistInv, NEW w \in Workers
    PROVE  /\ WorkerOK(ask[w], entry[w], outcome[w], phase[w], arg[w], ret[w], now)
           /\ DiskInv /\ Shaped /\ ValueOK /\ ask[w] \in Ask
           /\ DOMAIN phase = Workers /\ DOMAIN ret = Workers /\ DOMAIN arg = Workers
           /\ phase[w] \in Phases /\ now \in Nat
BY DEF HistInv, RequestOK, WorkerOK, DiskInv, DiskTypeOK

\* A step of a service request is a step of the disk cache, or leaves it alone.
LEMMA DiskStepOfHistorical ==
    ASSUME HistInv, [HistoricalNext]_historicalVars PROVE [DiskNext]_diskVars
<1>1. ASSUME NEW w \in Workers, NEW force \in BOOLEAN, NEW latest \in Files \cup {Absent},
             AskFor(w, force, latest)
      PROVE  DiskNext \/ UNCHANGED diskVars
  BY <1>1 DEF AskFor, DiskNext
<1>2. ASSUME NEW w \in Workers,
             ProbeDisk(w) \/ FromDisk(w) \/ Lineage(w) \/ DownloadFails(w) \/ Reject(w) \/ Decoded(w)
      PROVE  DiskNext \/ UNCHANGED diskVars
  BY <1>2 DEF ProbeDisk, FromDisk, Lineage, DownloadFails, Reject, Decoded, DiskNext
<1>3. ASSUME NEW w \in Workers, Stream(w) \/ Decode(w) \/ Streamed(w) \/ StreamReadBack(w)
      PROVE  DiskNext \/ UNCHANGED diskVars
  <2>1. ask[w].file \in Files
    BY <1>3, HereIs, HistoricalAssumption
       DEF Stream, Decode, Streamed, StreamReadBack, Sound, WorkerOK
  <2> QED BY <1>3, <2>1 DEF Stream, Decode, Streamed, StreamReadBack, DiskNext
<1>4. ASSUME NEW w \in Workers, HistoricalDiskStep(w) \/ HistoricalRestart(w)
      PROVE  DiskNext \/ UNCHANGED diskVars
  BY <1>4 DEF HistoricalDiskStep, HistoricalRestart, DiskNext
<1>5. CASE Supply \/ (\E f \in Files : Quarantine(f)) \/ HistoricalTick \/ UNCHANGED historicalVars
  BY <1>5 DEF Supply, Quarantine, HistoricalTick, historicalVars, DiskNext
<1> QED BY <1>1, <1>2, <1>3, <1>4, <1>5 DEF HistoricalNext, HistoricalStep

LEMMA HistInvInit == HistoricalInit => HistInv
<1> SUFFICES ASSUME HistoricalInit PROVE HistInv
  OBVIOUS
<1>1. DiskInv /\ ValueOK
  BY DiskInvInit DEF HistoricalInit, DiskInit, ValueOK, Good
<1>2. Unasked \in Ask /\ Unanswered \in Outcome /\ Miss.data = Absent
  BY DEF Ask, Unasked, Outcome, Unanswered, Miss
<1>3. ASSUME NEW w \in Workers PROVE RequestOK(w)
  BY <1>2 DEF HistoricalInit, DiskInit, RequestOK, WorkerOK, Unasked, Unanswered, StorePhases
<1> QED BY <1>1, <1>3 DEF HistInv, Shaped, HistoricalInit
-------------------------------------------------------------------------------
(* Each step                                                                   *)

LEMMA AnswerFields ==
    ASSUME NEW s \in {0, 200, 404, 500}, NEW d \in Files \cup {Absent},
           NEW o, o = [status |-> s, data |-> d]
    PROVE  o \in Outcome /\ o.status = s /\ o.data = d
BY DEF Outcome

LEMMA EmptyEntry ==
    ASSUME NEW t \in Nat
    PROVE  Empty(t) \in Entry /\ Empty(t).data = Absent /\ Empty(t) # Absent
<1>1. Empty(t) \in Entry
  BY DEF Entry, Empty
<1> QED BY <1>1, AbsentIsNoEntry DEF Empty

LEMMA AskExcused ==
    ASSUME NEW a \in Ask, NEW b, b = [a EXCEPT !.at = "idle", !.excused = TRUE]
    PROVE  b \in Ask /\ b.at = "idle" /\ b.excused
BY DEF Ask

\* f is g but at w.
Only(f, g, w) == DOMAIN f = Workers /\ \A v \in Workers : v # w => f[v] = g[v]

\* A step of w that changes no variable of another worker.
LEMMA Changed ==
    ASSUME HistInv, NEW w \in Workers,
           Only(ask', ask, w), Only(entry', entry, w), Only(outcome', outcome, w),
           Only(phase', phase, w), Only(arg', arg, w), Only(ret', ret, w),
           ValueOK', now' = now,
           NEW a, NEW e, NEW o, NEW p, NEW g, NEW r,
           a = ask'[w], e = entry'[w], o = outcome'[w], p = phase'[w], g = arg'[w], r = ret'[w],
           WorkerOK(a, e, o, p, g, r, now)
    PROVE  Moves(w)
BY DEF Only, Moves, Aside, RequestOK, Shaped

LEMMA SameFields ==
    ASSUME HistInv, NEW w \in Workers
    PROVE  /\ Only(ask, ask, w) /\ Only(entry, entry, w) /\ Only(outcome, outcome, w)
           /\ Only(phase, phase, w) /\ Only(arg, arg, w) /\ Only(ret, ret, w)
BY HereIs DEF Only, Shaped

LEMMA AskForStep ==
    ASSUME HistInv, NEW w \in Workers, NEW force \in BOOLEAN, NEW latest \in Files \cup {Absent},
           AskFor(w, force, latest)
    PROVE  Moves(w)
<1>0. /\ WorkerOK(ask[w], entry[w], outcome[w], phase[w], arg[w], ret[w], now)
      /\ DiskInv /\ Shaped /\ ValueOK
      /\ DOMAIN phase = Workers /\ DOMAIN ret = Workers /\ DOMAIN arg = Workers
      /\ now \in Nat /\ Absent \notin Good /\ Good \subseteq Files /\ Miss.data = Absent
      /\ Miss # Stored
  BY HereIs, DiskAssumption, HistoricalAssumption DEF Good, Sound, Miss, Stored
<1> DEFINE e == PresentEntry(w)
           next == IF force THEN "lineage" ELSE IF latest = Absent THEN "disk" ELSE "check"
           asked == [Unasked EXCEPT !.latest = latest, !.began = now]
<1>1. ask[w].at = "idle" /\ entry' = [entry EXCEPT ![w] = e]
  BY DEF AskFor
<1>2. e \in Entry /\ e # Absent /\ e.data \in Good \cup {Absent}
  BY <1>0, EmptyEntry DEF PresentEntry, WorkerOK
<1>3. CASE /\ outcome' = [outcome EXCEPT ![w] = [status |-> 200, data |-> e.data]]
           /\ ask' = [ask EXCEPT ![w] = asked]
           /\ e.data # Absent /\ UNCHANGED diskVars
  <2> PICK a : a = ask'[w]
    OBVIOUS
  <2> PICK o : o = outcome'[w]
    OBVIOUS
  <2>1. a \in Ask /\ a.at = "idle"
    BY <1>0, <1>3 DEF Ask, Unasked, Shaped
  <2>2. o \in Outcome /\ o.status = 200 /\ o.data \in Good
    <3>1. e.data \in Good
      BY <1>2, <1>3
    <3>2. o = [status |-> 200, data |-> e.data]
      BY <1>0, <1>3 DEF Shaped
    <3> HIDE DEF e
    <3> QED BY <1>0, <3>1, <3>2, AnswerFields
  <2>3. phase' = phase /\ arg' = arg /\ ret' = ret /\ value' = value /\ now' = now
    BY <1>3 DEF diskVars
  <2>4. entry'[w] = e
    BY <1>0, <1>1 DEF Shaped
  <2>5. WorkerOK(a, entry'[w], o, phase[w], arg[w], ret[w], now)
    <3> HIDE DEF e
    <3> QED BY <1>0, <1>1, <1>2, <2>1, <2>2, <2>4 DEF WorkerOK
  <2>6. Only(ask', ask, w) /\ Only(entry', entry, w) /\ Only(outcome', outcome, w)
    BY <1>0, <1>1, <1>3 DEF Only, Shaped
  <2> QED BY <1>0, <2>3, <2>5, <2>6, SameFields, Changed DEF ValueOK
<1>4. CASE /\ outcome' = [outcome EXCEPT ![w] = Unanswered]
           /\ ask' = [ask EXCEPT ![w] = [asked EXCEPT !.at = next]]
           /\ IF next = "disk" THEN Read(w) ELSE UNCHANGED diskVars
  <2> PICK a : a = ask'[w]
    OBVIOUS
  <2>1. a \in Ask /\ a.at = next /\ next \in {"lineage", "check", "disk"}
    BY <1>0, <1>4 DEF Ask, Unasked, Shaped
  <2>2. outcome'[w] \in Outcome /\ outcome'[w].status = 0
    BY <1>0, <1>4 DEF Outcome, Unanswered, Shaped
  <2>3. entry'[w] = e
    BY <1>0, <1>1 DEF Shaped
  <2>4. Only(ask', ask, w) /\ Only(entry', entry, w) /\ Only(outcome', outcome, w)
    BY <1>0, <1>1, <1>4 DEF Only, Shaped
  <2>5. CASE next = "disk"
    <3>1. Read(w)
      BY <1>4, <2>5
    <3>2. /\ phase'[w] \in {"ready", "r_lock"} /\ ret'[w] = Miss
          /\ value' = value /\ now' = now
          /\ Only(phase', phase, w) /\ Only(arg', arg, w) /\ Only(ret', ret, w)
      BY <1>0, <3>1, ReadView DEF Only
    <3>3. WorkerOK(a, entry'[w], outcome'[w], phase'[w], arg'[w], ret'[w], now)
      <4> HIDE DEF e, next
      <4> QED BY <1>0, <1>2, <2>1, <2>2, <2>3, <2>5, <3>2 DEF WorkerOK, StorePhases
    <3> QED BY <1>0, <2>4, <3>2, <3>3, Changed DEF ValueOK
  <2>6. CASE next # "disk"
    <3>1. phase' = phase /\ arg' = arg /\ ret' = ret /\ value' = value /\ now' = now
      BY <1>4, <2>6 DEF diskVars
    <3>2. WorkerOK(a, entry'[w], outcome'[w], phase[w], arg[w], ret[w], now)
      <4> HIDE DEF e, next
      <4> QED BY <1>0, <1>1, <1>2, <2>1, <2>2, <2>3, <2>6 DEF WorkerOK
    <3> QED BY <1>0, <2>4, <3>1, <3>2, SameFields, Changed DEF ValueOK
  <2> QED BY <2>5, <2>6
<1> QED BY <1>3, <1>4 DEF AskFor
\* What every step of w starts from.
Ready(w) ==
    /\ DiskInv /\ ask[w] \in Ask /\ ValueOK
    /\ DOMAIN ask = Workers /\ DOMAIN entry = Workers /\ DOMAIN outcome = Workers
    /\ DOMAIN phase = Workers /\ DOMAIN ret = Workers /\ DOMAIN arg = Workers
    /\ now \in Nat /\ Absent \notin Good /\ Good \subseteq Files /\ Sound \subseteq Good
    /\ Miss.data = Absent /\ Miss # Stored
LEMMA FromHere ==
    ASSUME HistInv, NEW w \in Workers PROVE Ready(w)
BY HereIs, DiskAssumption, HistoricalAssumption DEF Good, Sound, Miss, Stored, Ready, Shaped

\* w moves on to place p without a call to the disk.
LEMMA Moving ==
    ASSUME HistInv, NEW w \in Workers, NEW p \in Places, Move(w, p), UNCHANGED diskVars,
           UNCHANGED <<entry, outcome>>, ask[w].at \notin {"idle", "adopt", "readback", "write"},
           phase[w] = "ready", p \in {"check", "lineage"}
    PROVE  Moves(w)
<1>0. /\ WorkerOK(ask[w], entry[w], outcome[w], phase[w], arg[w], ret[w], now)
      /\ Ready(w)
  BY HereIs, FromHere
<1> PICK a : a = ask'[w]
  OBVIOUS
<1>1. a \in Ask /\ a.at = p /\ a.file = ask[w].file
  BY <1>0, Moved DEF Move, Ready
<1>2. /\ phase' = phase /\ arg' = arg /\ ret' = ret /\ value' = value /\ now' = now
  BY DEF diskVars
<1>3. WorkerOK(a, entry[w], outcome[w], phase[w], arg[w], ret[w], now)
  BY <1>0, <1>1 DEF WorkerOK, StorePhases
<1>4. Only(ask', ask, w)
  BY <1>0 DEF Only, Move, Ready
<1> QED BY <1>0, <1>2, <1>3, <1>4, SameFields, Changed DEF ValueOK, Ready

\* w reads the disk cache, from place p on.
LEMMA Reading ==
    ASSUME HistInv, NEW w \in Workers, NEW p \in {"disk", "readback"}, Move(w, p), Read(w),
           UNCHANGED <<entry, outcome>>, ask[w].at # "idle",
           p = "readback" => ask[w].file \in Sound
    PROVE  Moves(w)
<1>0. /\ WorkerOK(ask[w], entry[w], outcome[w], phase[w], arg[w], ret[w], now)
      /\ Ready(w)
  BY HereIs, FromHere
<1> PICK a : a = ask'[w]
  OBVIOUS
<1>1. a \in Ask /\ a.at = p /\ a.file = ask[w].file
  BY <1>0, Moved DEF Move, Ready, Places
<1>2. /\ phase'[w] \in {"ready", "r_lock"} /\ ret'[w] = Miss
      /\ value' = value /\ now' = now
      /\ Only(phase', phase, w) /\ Only(arg', arg, w) /\ Only(ret', ret, w)
  BY <1>0, ReadView DEF Only, Ready
<1>3. WorkerOK(a, entry[w], outcome[w], phase'[w], arg'[w], ret'[w], now)
  BY <1>0, <1>1, <1>2 DEF WorkerOK, StorePhases, Ready
<1>4. Only(ask', ask, w)
  BY <1>0 DEF Only, Move, Ready
<1> QED BY <1>0, <1>2, <1>3, <1>4, SameFields, Changed DEF ValueOK, Ready

\* w stores the artifact it ingests.
LEMMA Writing ==
    ASSUME HistInv, NEW w \in Workers, NEW p \in {"adopt", "write"}, Move(w, p),
           Write(w, ask[w].file) \/ WriteValueDir(w, ask[w].file),
           UNCHANGED <<entry, outcome>>, ask[w].at # "idle", ask[w].file \in Sound
    PROVE  Moves(w)
<1>0. /\ WorkerOK(ask[w], entry[w], outcome[w], phase[w], arg[w], ret[w], now)
      /\ Ready(w)
  BY HereIs, FromHere
<1> PICK a : a = ask'[w]
  OBVIOUS
<1>1. a \in Ask /\ a.at = p /\ a.file = ask[w].file
  BY <1>0, Moved DEF Move, Ready, Places
<1>2. PICK q \in {"w_lock", "a_lock"} : Enter(w, q, ask[w].file)
  BY DEF Write, WriteValueDir
<1>3. /\ phase'[w] = q /\ ret'[w] = Miss /\ arg'[w] = a.file
      /\ value' = value /\ now' = now
      /\ Only(phase', phase, w) /\ Only(arg', arg, w) /\ Only(ret', ret, w)
  BY <1>0, <1>1, <1>2 DEF Enter, Only, Ready
<1>4. WorkerOK(a, entry[w], outcome[w], phase'[w], arg'[w], ret'[w], now)
  BY <1>0, <1>1, <1>3 DEF WorkerOK, Ready
<1>5. Only(ask', ask, w)
  BY <1>0 DEF Only, Move, Ready
<1> QED BY <1>0, <1>3, <1>4, <1>5, SameFields, Changed DEF ValueOK, Ready

\* w commits entry e and is done with the disk.
LEMMA Committing ==
    ASSUME HistInv, NEW w \in Workers, NEW e \in Entry, e # Absent, e.data \in Good,
           Commit(w, e), Forget(w)
    PROVE  Moves(w)
<1>0. /\ WorkerOK(ask[w], entry[w], outcome[w], phase[w], arg[w], ret[w], now)
      /\ Ready(w)
  BY HereIs, FromHere
<1> PICK a : a = ask'[w]
  OBVIOUS
<1> PICK o : o = outcome'[w]
  OBVIOUS
<1>1. a \in Ask /\ a.at = "idle" /\ Only(ask', ask, w)
  BY <1>0, Moved DEF Commit, Reply, Move, Ready, Places, Only
<1>2. o \in Outcome /\ Only(outcome', outcome, w)
      /\ o.status \in {200, 500} /\ (o.status = 200 => o.data \in Good)
      /\ (o.status = 500 => now - e.since >= KeyTtl)
  BY <1>0, AnswerFields DEF Commit, Reply, Ready, Only
<1>3. entry'[w] = e /\ Only(entry', entry, w)
  BY <1>0 DEF Commit, Ready, Only
<1>4. /\ phase'[w] = "ready" /\ ret'[w] = Miss /\ value' = value /\ now' = now
      /\ phase' = phase /\ arg' = arg /\ Only(ret', ret, w)
  BY <1>0 DEF Forget, Ready, Only
<1>5. WorkerOK(a, e, o, phase'[w], arg'[w], ret'[w], now)
  BY <1>0, <1>1, <1>2, <1>4 DEF WorkerOK, Ready, StorePhases
<1> QED BY <1>0, <1>1, <1>2, <1>3, <1>4, <1>5, SameFields, Changed DEF ValueOK, Ready

\* w's request fails with answer o.
LEMMA Failing ==
    ASSUME HistInv, NEW w \in Workers, ask[w].at # "idle",
           NEW o \in Outcome, o.status = 500, outcome' = [outcome EXCEPT ![w] = o],
           phase' = phase, arg' = arg, ret' = ret, value' = value, now' = now, entry' = entry,
           phase[w] = "ready",
           NEW a \in Ask, a.at = "idle", ask' = [ask EXCEPT ![w] = a],
           a.excused \/ a.file \in Files \ Sound
    PROVE  Moves(w)
<1>0. /\ WorkerOK(ask[w], entry[w], outcome[w], phase[w], arg[w], ret[w], now)
      /\ Ready(w)
  BY HereIs, FromHere
<1>1. /\ ask'[w] = a /\ outcome'[w] = o
      /\ Only(ask', ask, w) /\ Only(outcome', outcome, w)
  BY <1>0 DEF Ready, Only
<1>2. WorkerOK(a, entry[w], o, phase[w], arg[w], ret[w], now)
  BY <1>0, <1>1 DEF WorkerOK, StorePhases
<1>3. /\ Only(entry', entry, w) /\ Only(phase', phase, w) /\ Only(arg', arg, w)
      /\ Only(ret', ret, w) /\ ValueOK'
  BY <1>0, SameFields DEF ValueOK, Ready
<1> QED BY <1>1, <1>2, <1>3, Changed
\* Between two calls the disk is out of the request's hands.
LEMMA AtRest ==
    ASSUME HistInv, NEW w \in Workers, ask[w].at \in {"idle", "check", "lineage", "ingest"}
    PROVE  phase[w] = "ready"
BY HereIs DEF WorkerOK, Phases, LockPhases, HeldPhases, StorePhases

LEMMA RequestStep ==
    ASSUME HistInv, NEW w \in Workers, HistoricalStep(w)
    PROVE  Moves(w)
<1>0. /\ WorkerOK(ask[w], entry[w], outcome[w], phase[w], arg[w], ret[w], now)
      /\ Ready(w)
  BY HereIs, FromHere
<1>1. CASE ProbeDisk(w)
  <2>1. CASE CheckFileId(ask[w].latest)
    BY <1>1, <2>1, Reading DEF ProbeDisk, Rest
  <2>2. CASE ~CheckFileId(ask[w].latest)
    BY <1>1, <2>2, AtRest, Moving DEF ProbeDisk, Rest, Places
  <2> QED BY <2>1, <2>2
<1>2. CASE FromDisk(w)
  <2>1. CASE ret[w].hit
    <3>1. ask[w].at = "disk" /\ ret[w] # Stored
      BY <1>0, <1>2 DEF FromDisk, WorkerOK
    <3>2. ret[w].data \in Files /\ ret[w].label \in Label /\ ret[w].data \in Good
      BY <1>0, <2>1, <3>1, HitTyped, DiskAssumption DEF WorkerOK, Ready
    <3>3. entry[w] \in Entry /\ ask[w].overtaken \in BOOLEAN
      BY <1>0, <3>1 DEF WorkerOK, Ask
    <3> PICK e : e = [entry[w] EXCEPT !.data = ret[w].data, !.fileId = ret[w].label.fileId,
                        !.timestamp = ret[w].label.timestamp, !.raced = ask[w].overtaken]
      OBVIOUS
    <3>4. ret[w].label.fileId \in Files /\ ret[w].label.timestamp \in Nat
      BY <3>2 DEF Label
    <3>8. e \in Entry /\ e.data = ret[w].data
      BY <3>2, <3>3, <3>4 DEF Entry
    <3>5. e \in Entry /\ e # Absent /\ e.data = ret[w].data
      BY <3>8, AbsentIsNoEntry
    <3>6. Commit(w, e) /\ Forget(w)
      BY <1>2, <2>1 DEF FromDisk
    <3>7. e.data \in Good
      BY <3>2, <3>5
    <3> QED BY <3>5, <3>6, <3>7, Committing
  <2>2. CASE ~ret[w].hit
    <3> PICK a : a = ask'[w]
      OBVIOUS
    <3>1. /\ a \in Ask /\ a.at = "lineage" /\ a.file = ask[w].file
          /\ Only(ask', ask, w) /\ entry' = entry /\ outcome' = outcome
      BY <1>0, <1>2, <2>2, Moved DEF FromDisk, Move, Ready, Places, Only
    <3>2. /\ phase'[w] = "ready" /\ ret'[w] = Miss /\ value' = value /\ now' = now
          /\ phase' = phase /\ arg' = arg /\ Only(ret', ret, w) /\ ask[w].at = "disk"
      BY <1>0, <1>2 DEF FromDisk, Forget, Ready, Only
    <3>3. WorkerOK(a, entry[w], outcome[w], phase'[w], arg'[w], ret'[w], now)
      BY <1>0, <3>1, <3>2 DEF WorkerOK, Ready, StorePhases
    <3> QED BY <1>0, <3>1, <3>2, <3>3, SameFields, Changed DEF ValueOK, Ready
  <2> QED BY <2>1, <2>2
<1>3. CASE Lineage(w)
  <2>1. PICK f \in Files \cup {Absent} :
          IF f = Absent
          THEN Reply(w, 404, Absent)
          ELSE /\ ask' = [ask EXCEPT ![w].at = "ingest", ![w].file = f]
               /\ UNCHANGED outcome
    BY <1>3 DEF Lineage
  <2>2. ask[w].at = "lineage" /\ UNCHANGED <<diskVars, entry>> /\ phase[w] = "ready"
    BY <1>3, AtRest DEF Lineage
  <2>3. CASE f = Absent
    <3> PICK a : a = ask'[w]
      OBVIOUS
    <3> PICK o : o = outcome'[w]
      OBVIOUS
    <3>1. a \in Ask /\ a.at = "idle" /\ Only(ask', ask, w)
      BY <1>0, <2>1, <2>3, Moved DEF Reply, Move, Ready, Places, Only
    <3>2. o \in Outcome /\ o.status = 404 /\ Only(outcome', outcome, w)
      BY <1>0, <2>1, <2>3 DEF Reply, Ready, Only, Outcome
    <3>3. /\ phase' = phase /\ arg' = arg /\ ret' = ret /\ value' = value /\ now' = now
          /\ entry' = entry
      BY <2>2 DEF diskVars
    <3>4. WorkerOK(a, entry[w], o, phase[w], arg[w], ret[w], now)
      BY <1>0, <2>2, <3>1, <3>2 DEF WorkerOK, StorePhases
    <3> QED BY <1>0, <3>1, <3>2, <3>3, <3>4, SameFields, Changed DEF ValueOK, Ready
  <2>4. CASE f # Absent
    <3> PICK a : a = [ask[w] EXCEPT !.at = "ingest", !.file = f]
      OBVIOUS
    <3>0. a \in Ask /\ a.at = "ingest" /\ a.file = f /\ f \in Files
      BY <1>0, <2>4 DEF Ask, Ready
    <3>4. ask' = [ask EXCEPT ![w] = a] /\ outcome' = outcome
      BY <2>1, <2>4
    <3>1. /\ a \in Ask /\ a.at = "ingest" /\ a.file = f /\ f \in Files
          /\ a = ask'[w] /\ Only(ask', ask, w) /\ outcome' = outcome
      BY <1>0, <3>0, <3>4 DEF Ready, Only
    <3>2. /\ phase' = phase /\ arg' = arg /\ ret' = ret /\ value' = value /\ now' = now
      BY <2>2 DEF diskVars
    <3>3. WorkerOK(a, entry[w], outcome[w], phase[w], arg[w], ret[w], now)
      BY <1>0, <2>2, <3>1 DEF WorkerOK, StorePhases
    <3> QED BY <1>0, <2>2, <3>1, <3>2, <3>3, SameFields, Changed DEF ValueOK, Ready
  <2> QED BY <2>3, <2>4
<1>4. CASE DownloadFails(w)
  <2> PICK a : a = [ask[w] EXCEPT !.at = "idle", !.excused = TRUE]
    OBVIOUS
  <2>1. a \in Ask /\ a.at = "idle" /\ a.excused
    BY <1>0, AskExcused DEF Ready
  <2> PICK o : o = [status |-> 500, data |-> Absent]
    OBVIOUS
  <2>2. /\ ask' = [ask EXCEPT ![w] = a] /\ ask[w].at = "ingest" /\ phase[w] = "ready"
        /\ outcome' = [outcome EXCEPT ![w] = o]
        /\ UNCHANGED diskVars /\ UNCHANGED entry
    BY <1>4, AtRest DEF DownloadFails
  <2>3. o \in Outcome /\ o.status = 500
    BY DEF Outcome
  <2>4. /\ phase' = phase /\ arg' = arg /\ ret' = ret /\ value' = value /\ now' = now
        /\ entry' = entry
    BY <2>2 DEF diskVars
  <2> QED BY <2>1, <2>2, <2>3, <2>4, Failing
<1>5. CASE Reject(w)
  <2> PICK a : a = [ask[w] EXCEPT !.at = "idle"]
    OBVIOUS
  <2>1. a \in Ask /\ a.at = "idle" /\ a.file = ask[w].file
    BY <1>0, Moved DEF Ready, Places
  <2> PICK o : o = [status |-> 500, data |-> Absent]
    OBVIOUS
  <2>2. /\ ask' = [ask EXCEPT ![w] = a] /\ ask[w].at = "ingest" /\ phase[w] = "ready"
        /\ outcome' = [outcome EXCEPT ![w] = o]
        /\ UNCHANGED diskVars /\ UNCHANGED entry
    BY <1>5, AtRest DEF Reject, Reply, Move
  <2>3. a.file \in Files \ Sound
    BY <1>0, <1>5, <2>1, <2>2 DEF Reject, WorkerOK
  <2>4. o \in Outcome /\ o.status = 500
    BY DEF Outcome
  <2>5. /\ phase' = phase /\ arg' = arg /\ ret' = ret /\ value' = value /\ now' = now
        /\ entry' = entry
    BY <2>2 DEF diskVars
  <2> QED BY <2>1, <2>2, <2>3, <2>4, <2>5, Failing
<1>6. CASE Stream(w)
  BY <1>6, Writing DEF Stream, Rest
<1>7. CASE Decode(w)
  BY <1>7, Writing DEF Decode
<1>8. CASE Streamed(w)
  <2>1. ask[w].at = "adopt" /\ ask[w].file \in Sound /\ UNCHANGED <<entry, outcome>>
    BY <1>0, <1>8 DEF Streamed, WorkerOK, Rest
  <2>2. CASE ret[w].hit
    BY <1>8, <2>1, <2>2, Reading DEF Streamed
  <2>3. CASE ~ret[w].hit
    BY <1>8, <2>1, <2>3, Writing DEF Streamed
  <2> QED BY <2>2, <2>3
<1>9. CASE StreamReadBack(w)
  <2>1. ask[w].at = "readback" /\ ask[w].file \in Sound /\ ret[w] # Stored
    BY <1>0, <1>9 DEF StreamReadBack, WorkerOK
  <2>2. CASE ret[w].hit
    <3>1. ret[w].data \in Files /\ ret[w].label \in Label /\ ret[w].data \in Good
      BY <1>0, <2>1, <2>2, HitTyped, DiskAssumption DEF WorkerOK, Ready
    <3>2. entry[w] \in Entry /\ ask[w].overtaken \in BOOLEAN /\ ask[w].file \in Files
      BY <1>0, <2>1 DEF WorkerOK, Ask, Ready
    <3> PICK e : e = [entry[w] EXCEPT !.data = ret[w].data, !.fileId = ask[w].file,
                        !.timestamp = ret[w].label.timestamp, !.raced = ask[w].overtaken]
      OBVIOUS
    <3>3. ret[w].label.timestamp \in Nat
      BY <3>1 DEF Label
    <3>7. e \in Entry /\ e.data = ret[w].data
      BY <3>1, <3>2, <3>3 DEF Entry
    <3>4. e \in Entry /\ e # Absent /\ e.data = ret[w].data
      BY <3>7, AbsentIsNoEntry
    <3>5. Commit(w, e) /\ Forget(w)
      BY <1>9, <2>2 DEF StreamReadBack
    <3>6. e.data \in Good
      BY <3>1, <3>4
    <3> QED BY <3>4, <3>5, <3>6, Committing
  <2>3. CASE ~ret[w].hit
    BY <1>9, <2>1, <2>3, Writing DEF StreamReadBack
  <2> QED BY <2>2, <2>3
<1>10. CASE Decoded(w)
  <2>1. entry[w] \in Entry /\ ask[w].file \in Sound /\ ask[w].began \in Nat
    BY <1>0, <1>10 DEF Decoded, WorkerOK, Ask
  <2> PICK e : e = [entry[w] EXCEPT !.data = ask[w].file, !.fileId = ask[w].file,
                      !.timestamp = ask[w].began, !.raced = FALSE]
    OBVIOUS
  <2>2. ask[w].file \in Files /\ ask[w].file \in Good
    BY <1>0, <2>1 DEF Ready
  <2>6. e \in Entry /\ e.data = ask[w].file
    BY <2>1, <2>2 DEF Entry
  <2>3. e \in Entry /\ e # Absent /\ e.data = ask[w].file
    BY <2>6, AbsentIsNoEntry
  <2>4. Commit(w, e) /\ Forget(w)
    BY <1>10 DEF Decoded
  <2>5. e.data \in Good
    BY <2>2, <2>3
  <2> QED BY <2>3, <2>4, <2>5, Committing
<1> QED BY <1>1, <1>2, <1>3, <1>4, <1>5, <1>6, <1>7, <1>8, <1>9, <1>10 DEF HistoricalStep
\* What a step of a call returns is what was in the slot, and what it stores is its own.
LEMMA CallStepData ==
    ASSUME DiskInv, NEW w \in Workers, CallStep(w) \/ Fail(w), ValueOK,
           ret[w].data \in Good \cup {Absent}, phase[w] \in StorePhases => arg[w] \in Good
    PROVE  ret'[w].data \in Good \cup {Absent} /\ ValueOK'
<1> USE DiskAssumption DEF DiskInv, DiskTypeOK, ValueOK
<1>0. Miss.data = Absent /\ Stored.data = Absent
  BY DEF Miss, Stored
<1>1. CASE Acquire(w) \/ Fill(w) \/ Clear(w) \/ Swap(w) \/ Open(w)
  BY <1>1 DEF Acquire, Fill, Clear, Swap, Open, Advance, StorePhases
<1>2. CASE LockTimeout(w)
  BY <1>0, <1>2 DEF LockTimeout, Return
<1>3. CASE Dump(w)
  BY <1>0, <1>3 DEF Dump, Return
<1>4. CASE Load(w)
  <2>1. \A l : Hit(value, l).data = value
    BY DEF Hit
  <2>2. PICK r : Return(w, r) /\ r.data \in Good \cup {Absent}
    BY <1>0, <1>4, <2>1 DEF Load
  <2> QED BY <1>4, <2>2 DEF Load, Return
<1>5. CASE Fail(w)
  BY <1>0, <1>5 DEF Fail, Return, Remains, RemainsOfMeta
<1> QED BY <1>1, <1>2, <1>3, <1>4, <1>5 DEF CallStep

LEMMA DiskCallStep ==
    ASSUME HistInv, NEW w \in Workers, HistoricalDiskStep(w)
    PROVE  Moves(w)
<1>0. /\ WorkerOK(ask[w], entry[w], outcome[w], phase[w], arg[w], ret[w], now)
      /\ Ready(w)
  BY HereIs, FromHere
<1>1. (CallStep(w) \/ Fail(w)) /\ (ask' = ask \/ Overtake(w)) /\ UNCHANGED <<entry, outcome>>
  BY DEF HistoricalDiskStep, Rest
<1>2. phase[w] \in StorePhases => arg[w] \in Good
  BY <1>0 DEF WorkerOK, Ready
<1>3. ret'[w].data \in Good \cup {Absent} /\ ValueOK'
  BY <1>0, <1>1, <1>2, CallStepData DEF Ready, WorkerOK
<1>4. /\ phase' = [phase EXCEPT ![w] = phase'[w]]
      /\ phase'[w] \in {"r_lock", "load"} => phase[w] \in {"r_lock", "load"}
      /\ phase'[w] \in StorePhases => phase[w] \in StorePhases /\ arg'[w] = arg[w]
      /\ arg' = [arg EXCEPT ![w] = arg'[w]] /\ ret' = [ret EXCEPT ![w] = ret'[w]]
      /\ ret'[w] = Stored => phase[w] = "dump" \/ ret[w] = Stored
      /\ now' = now
  BY <1>0, <1>1, CallStepView DEF Ready
<1>5. ask'[w] = ask[w] /\ DOMAIN ask' = Workers
  BY <1>0, <1>1 DEF Overtake, Ready
<1>6. WorkerOK(ask[w], entry[w], outcome[w], phase'[w], arg'[w], ret'[w], now)
  <2>1. phase[w] = "dump" => ask[w].at \notin {"disk", "readback"}
    BY <1>0 DEF WorkerOK, StorePhases
  <2> QED BY <1>0, <1>3, <1>4, <2>1 DEF WorkerOK
<1>7. \A v \in Workers : v # w =>
        ask'[v] = ask[v] \/ ask'[v] = [ask[v] EXCEPT !.overtaken = TRUE]
  BY <1>1 DEF Overtake
<1>8. \A v \in Workers : v # w => phase'[v] = phase[v] /\ arg'[v] = arg[v] /\ ret'[v] = ret[v]
  BY <1>0, <1>4 DEF Ready
<1>9. Aside(w)
  BY <1>1, <1>7, <1>8 DEF Aside
<1>10. RequestOK(w)'
  BY <1>1, <1>4, <1>5, <1>6 DEF RequestOK
<1> QED BY <1>0, <1>1, <1>3, <1>4, <1>5, <1>9, <1>10 DEF Moves, Shaped, Ready

LEMMA RestartStep ==
    ASSUME HistInv, NEW w \in Workers, HistoricalRestart(w)
    PROVE  Moves(w)
<1>0. Ready(w)
  BY FromHere
<1>1. /\ ask'[w] = Unasked /\ entry'[w] = Absent /\ outcome'[w] = Unanswered
      /\ phase'[w] = "ready" /\ arg'[w] = Absent /\ ret'[w] = Miss
      /\ Only(ask', ask, w) /\ Only(entry', entry, w) /\ Only(outcome', outcome, w)
      /\ Only(phase', phase, w) /\ Only(arg', arg, w) /\ Only(ret', ret, w) /\ now' = now
  BY <1>0 DEF HistoricalRestart, Die, Only, Ready
<1>2. ValueOK'
  BY <1>0 DEF HistoricalRestart, Die, Remains, RemainsOfMeta, ValueOK, Ready
<1>3. /\ Unasked \in Ask /\ Unasked.at = "idle"
      /\ Unanswered \in Outcome /\ Unanswered.status = 0
  BY DEF Ask, Unasked, Outcome, Unanswered
<1>4. WorkerOK(Unasked, Absent, Unanswered, "ready", Absent, Miss, now)
  BY <1>0, <1>3 DEF WorkerOK, StorePhases, Ready
<1> QED BY <1>1, <1>2, <1>4, Changed

\* The bucket and the clock leave the workers as they are: an expired entry stays expired.
LEMMA AsideStep ==
    ASSUME HistInv, Supply \/ (\E f \in Files : Quarantine(f)) \/ HistoricalTick
                    \/ UNCHANGED historicalVars
    PROVE  HistInv'
<1>1. /\ ask' = ask /\ entry' = entry /\ outcome' = outcome
      /\ phase' = phase /\ arg' = arg /\ ret' = ret /\ value' = value
  BY DEF Supply, Quarantine, HistoricalTick, DiskTick, historicalVars, diskVars, serviceVars
<1>2. now \in Nat /\ now' \in Nat /\ now' >= now
  BY DEF HistInv, DiskInv, DiskTypeOK,
         Supply, Quarantine, HistoricalTick, DiskTick, historicalVars, diskVars
<1>3. [HistoricalNext]_historicalVars
  BY DEF HistoricalNext
<1>4. DiskInv'
  BY <1>3, DiskStepOfHistorical, DiskInvStep DEF HistInv
<1>5. ASSUME NEW w \in Workers PROVE RequestOK(w)'
  <2>1. WorkerOK(ask[w], entry[w], outcome[w], phase[w], arg[w], ret[w], now)
    BY DEF HistInv, RequestOK
  <2>2. entry[w] # Absent => entry[w].since \in Nat
    BY <2>1 DEF WorkerOK, Entry
  <2>3. entry[w] # Absent /\ now - entry[w].since >= KeyTtl => now' - entry[w].since >= KeyTtl
    BY <1>2, <2>2, HistoricalAssumption
  <2>4. WorkerOK(ask[w], entry[w], outcome[w], phase[w], arg[w], ret[w], now')
    BY <2>1, <2>3 DEF WorkerOK
  <2> QED BY <1>1, <2>4 DEF RequestOK
<1> QED BY <1>1, <1>4, <1>5 DEF HistInv, Shaped, ValueOK

LEMMA HistInvStep == HistInv /\ [HistoricalNext]_historicalVars => HistInv'
<1> SUFFICES ASSUME HistInv, [HistoricalNext]_historicalVars PROVE HistInv'
  OBVIOUS
<1>1. DiskInv'
  BY DiskStepOfHistorical, DiskInvStep DEF HistInv
<1>2. ASSUME NEW w \in Workers,
             \/ \E force \in BOOLEAN, latest \in Files \cup {Absent} : AskFor(w, force, latest)
             \/ HistoricalStep(w) \/ HistoricalDiskStep(w) \/ HistoricalRestart(w)
      PROVE  HistInv'
  <2>1. Moves(w)
    BY <1>2, AskForStep, RequestStep, DiskCallStep, RestartStep
  <2> QED BY <1>1, <2>1, OneWorkerMoves
<1> QED BY <1>2, AsideStep DEF HistoricalNext

-------------------------------------------------------------------------------
(* Types                                                                       *)

\* The variables of the workers stay functions into their types.
Functions ==
    /\ ask' \in [Workers -> Ask] /\ entry' \in [Workers -> Entry \cup {Absent}]
    /\ outcome' \in [Workers -> Outcome]

LEMMA HistoricalTypesStep ==
    ASSUME HistInv, HistInv', HistoricalTypeOK, [HistoricalNext]_historicalVars
    PROVE  HistoricalTypeOK'
<1>a. /\ ask \in [Workers -> Ask] /\ entry \in [Workers -> Entry \cup {Absent}]
       /\ outcome \in [Workers -> Outcome]
       /\ uploaded \in 0..MaxArtifact /\ quarantined \subseteq Files /\ mishaps \in Nat
  BY DEF HistoricalTypeOK
<1>0. \A v \in Workers :
        /\ ask'[v] \in Ask /\ entry'[v] \in Entry \cup {Absent} /\ outcome'[v] \in Outcome
  BY DEF HistInv, RequestOK, WorkerOK
<1>1. ASSUME NEW w \in Workers, NEW force \in BOOLEAN, NEW latest \in Files \cup {Absent},
             AskFor(w, force, latest)
      PROVE  Functions
  BY <1>0, <1>a, <1>1 DEF AskFor, Functions
<1>2. ASSUME NEW w \in Workers, ProbeDisk(w) \/ Stream(w) \/ Decode(w) \/ Streamed(w)
                                \/ DownloadFails(w) \/ Reject(w)
      PROVE  Functions
  BY <1>0, <1>a, <1>2 DEF ProbeDisk, Stream, Decode, Streamed, DownloadFails, Reject, Reply, Move, Rest,
                    Functions
<1>3. ASSUME NEW w \in Workers, FromDisk(w) PROVE Functions
  BY <1>0, <1>a, <1>3 DEF FromDisk, Commit, Reply, Move, Functions
<1>4. ASSUME NEW w \in Workers, Lineage(w) PROVE Functions
  <2>1. PICK f \in Files \cup {Absent} :
          /\ entry' = entry
          /\ IF f = Absent
             THEN Reply(w, 404, Absent)
             ELSE /\ ask' = [ask EXCEPT ![w].at = "ingest", ![w].file = f]
                  /\ UNCHANGED outcome
    BY <1>4 DEF Lineage
  <2>2. CASE f = Absent
    BY <1>0, <1>a, <2>1, <2>2 DEF Reply, Move, Functions
  <2>3. CASE f # Absent
    BY <1>0, <1>a, <2>1, <2>3 DEF Functions
  <2> QED BY <2>2, <2>3
<1>5. ASSUME NEW w \in Workers, StreamReadBack(w) \/ Decoded(w) PROVE Functions
  <2>1. CASE \E e : Commit(w, e)
    <3>1. PICK e : Commit(w, e)
      BY <2>1
    <3> QED BY <1>0, <1>a, <3>1 DEF Commit, Reply, Move, Functions
  <2>2. CASE Move(w, "write") /\ UNCHANGED <<entry, outcome>>
    BY <1>0, <1>a, <2>2 DEF Move, Functions
  <2> QED BY <1>5, <2>1, <2>2 DEF StreamReadBack, Decoded
<1>6. ASSUME NEW w \in Workers, HistoricalDiskStep(w) PROVE Functions
  <2>1. entry' = entry /\ outcome' = outcome /\ (ask' = ask \/ Overtake(w))
    BY <1>6 DEF HistoricalDiskStep, Rest
  <2>2. ASSUME Overtake(w) PROVE ask' \in [Workers -> Ask]
    BY <1>0, <1>a, <2>2 DEF Overtake
  <2> QED BY <1>a, <2>1, <2>2 DEF Functions
<1>7. ASSUME NEW w \in Workers, HistoricalRestart(w) PROVE Functions
  BY <1>0, <1>a, <1>7 DEF HistoricalRestart, Functions
<1>8. ASSUME Supply \/ (\E f \in Files : Quarantine(f)) \/ HistoricalTick \/ UNCHANGED historicalVars
      PROVE  Functions
  <2>1. ask' = ask /\ entry' = entry /\ outcome' = outcome
    BY <1>8 DEF Supply, Quarantine, HistoricalTick, historicalVars, serviceVars
  <2> QED BY <1>a, <2>1 DEF Functions
<1>9. Functions
  BY <1>1, <1>2, <1>3, <1>4, <1>5, <1>6, <1>7, <1>8 DEF HistoricalNext, HistoricalStep
<1>10. ASSUME NEW w \in Workers, HistoricalStep(w) \/ HistoricalDiskStep(w) \/ HistoricalRestart(w)
       PROVE  UNCHANGED bucketVars /\ mishaps' \in Nat
  BY <1>a, <1>10 DEF HistoricalStep, ProbeDisk, FromDisk, Lineage, DownloadFails, Reject, Stream, Decode,
               Streamed, StreamReadBack, Decoded, HistoricalDiskStep, HistoricalRestart, Rest,
               bucketVars, LooksUp
<1>11. ASSUME NEW w \in Workers, NEW force \in BOOLEAN, NEW latest \in Files \cup {Absent},
              AskFor(w, force, latest)
       PROVE  UNCHANGED bucketVars /\ mishaps' \in Nat
  BY <1>a, <1>11 DEF AskFor, bucketVars, LooksUp
<1>12. ASSUME Supply \/ (\E f \in Files : Quarantine(f)) \/ HistoricalTick \/ UNCHANGED historicalVars
       PROVE  uploaded' \in 0..MaxArtifact /\ quarantined' \subseteq Files /\ mishaps' \in Nat
  BY <1>a, <1>12, HistoricalAssumption
     DEF Supply, Quarantine, HistoricalTick, historicalVars, bucketVars
<1>13. uploaded' \in 0..MaxArtifact /\ quarantined' \subseteq Files /\ mishaps' \in Nat
  BY <1>a, <1>10, <1>11, <1>12 DEF HistoricalNext, bucketVars
<1> QED BY <1>9, <1>13 DEF Functions, HistoricalTypeOK

-------------------------------------------------------------------------------
(* The theorems                                                                *)

\* Serving /historical uses the disk cache as its callers may: every property of DiskSpec
\* holds of it.
THEOREM HistoricalUsesDiskCache == HistoricalSpec => DiskSpec
<1>1. HistoricalInit => DiskInit
  BY DEF HistoricalInit
<1> QED BY <1>1, HistInvInit, HistInvStep, DiskStepOfHistorical, PTL DEF HistoricalSpec, DiskSpec

\* In every run the variables of the service and of the bucket keep their types.
THEOREM HistoricalTypesHold == HistoricalSpec => []HistoricalTypeOK
<1>1. HistoricalInit => HistoricalTypeOK
  BY HistoricalAssumption
     DEF HistoricalInit, HistoricalTypeOK, Artifacts, Ask, Unasked, Outcome, Unanswered
<1> QED BY <1>1, HistInvInit, HistInvStep, HistoricalTypesStep, PTL DEF HistoricalSpec

\* No failure of the streamer, of the disk cache or of another worker ends a request for
\* /historical in a 500 (dataset_service.py:574).
THEOREM DiskNeverFailsRequestHolds == HistoricalSpec => []DiskNeverFailsRequest
<1>1. HistInv => DiskNeverFailsRequest
  BY DEF HistInv, RequestOK, WorkerOK, DiskNeverFailsRequest
<1> QED BY <1>1, HistInvInit, HistInvStep, PTL DEF HistoricalSpec

\* Every artifact served for /historical has passed the plausibility checks, when those an
\* earlier process left in the disk cache had.
THEOREM OnlySoundServedHolds ==
    Leftover \subseteq Sound => (HistoricalSpec => []OnlySoundServed)
<1>1. SUFFICES ASSUME Leftover \subseteq Sound PROVE HistoricalSpec => []OnlySoundServed
  OBVIOUS
<1>2. HistInv => OnlySoundServed
  BY <1>1 DEF HistInv, RequestOK, WorkerOK, OnlySoundServed, Good
<1> QED BY <1>2, HistInvInit, HistInvStep, PTL DEF HistoricalSpec
-------------------------------------------------------------------------------
(* Which artifact is served                                                    *)

\* What ties a worker's request a, entry e, answer o, phase p and last result r to value v and
\* sidecar m, as long as nobody else has stored since its request began.
Placed(a, e, o, p, r, v, m) ==
    /\ e # Absent /\ e.data # Absent => e.data = e.fileId \/ e.raced
    /\ o.status = 200 /\ a.latest # Absent => o.data \in {a.latest, a.file} \/ e.raced
    /\ a.at = "disk" /\ a.latest # Absent /\ ~a.overtaken =>
          /\ p \in {"r_lock", "load"} => m \in {Absent, Garbled} \/ m.fileId = a.latest
          /\ p = "ready" /\ r.hit => r.label.fileId = a.latest
    /\ a.at = "adopt" /\ ~a.overtaken /\ p = "ready" /\ r.hit => v \in {a.file, Broken, Absent}
    /\ a.at = "readback" /\ ~a.overtaken =>
          /\ p # "ready" => v \in {a.file, Broken, Absent}
          /\ p = "ready" /\ r.hit => r.data = a.file

PlacedOK(w) == Placed(ask[w], entry[w], outcome[w], phase[w], ret[w], value, meta)
PlaceInv == \A w \in Workers : PlacedOK(w)

\* A worker that changes the slot overtakes the others; one that dies destroys at most.
OthersBehind(w) ==
    \/ UNCHANGED <<value, meta>>
    \/ value' \in {value, Broken, Absent} /\ meta' = meta
    \/ \A v \in Workers : v # w => ask[v].at = "idle" \/ ask'[v].overtaken

LEMMA OvertakenPlaced ==
    ASSUME NEW a \in Ask, NEW b, b = [a EXCEPT !.overtaken = TRUE]
    PROVE  /\ b.at = a.at /\ b.file = a.file /\ b.latest = a.latest /\ b.overtaken
BY DEF Ask

LEMMA OthersPlaced ==
    ASSUME HistInv, PlaceInv, NEW w \in Workers, Aside(w), OthersBehind(w),
           NEW v \in Workers, v # w
    PROVE  PlacedOK(v)'
<1>1. Placed(ask[v], entry[v], outcome[v], phase[v], ret[v], value, meta) /\ ask[v] \in Ask
  BY HereIs DEF PlaceInv, PlacedOK
<1> PICK b : b = ask'[v]
  OBVIOUS
<1>2. /\ b.at = ask[v].at /\ b.file = ask[v].file /\ b.latest = ask[v].latest
      /\ b.overtaken \/ b.overtaken = ask[v].overtaken
  <2>1. CASE ask'[v] = ask[v]
    BY <2>1
  <2>2. CASE ask'[v] = [ask[v] EXCEPT !.overtaken = TRUE]
    BY <1>1, <2>2, OvertakenPlaced
  <2> QED BY <2>1, <2>2 DEF Aside
<1>3. Placed(b, entry[v], outcome[v], phase[v], ret[v], value', meta')
  <2>1. CASE value' \in {value, Broken, Absent} /\ meta' = meta
    BY <1>1, <1>2, <2>1 DEF Placed
  <2>2. CASE ask[v].at = "idle" \/ b.overtaken
    BY <1>1, <1>2, <2>2 DEF Placed
  <2> QED BY <2>1, <2>2 DEF OthersBehind
<1> QED BY <1>3 DEF Aside, PlacedOK

\* What a step of a call finds.
LEMMA CallStepFinds ==
    ASSUME DiskInv, StoreInv, NEW w \in Workers, CallStep(w) \/ Fail(w)
    PROVE  /\ phase'[w] # "ready" /\ phase[w] \in {"r_lock", "load"} =>
                 UNCHANGED <<value, meta>>
           /\ phase'[w] = "ready" /\ ret'[w].hit =>
                 \/ /\ phase[w] = "load" /\ value \in Files /\ Labelled
                    /\ ret'[w].data = value /\ ret'[w].label = meta
                 \/ phase[w] = "dump" /\ value' = arg[w]
<1> USE DEF DiskInv, DiskTypeOK, StoreInv
<1>0. ~Miss.hit
  BY DEF Miss
<1>1. CASE Acquire(w)
  BY <1>1 DEF Acquire, Advance, LockPhases
<1>2. CASE LockTimeout(w) \/ Fail(w)
  BY <1>0, <1>2 DEF LockTimeout, Fail, Return, LockPhases
<1>3. CASE Fill(w) \/ Clear(w) \/ Swap(w) \/ Open(w)
  BY <1>3 DEF Fill, Clear, Swap, Open, Advance
<1>4. CASE Dump(w)
  BY <1>4 DEF Dump, Return
<1>5. CASE Load(w)
  <2>1. Hit(value, meta).data = value /\ Hit(value, meta).label = meta
    BY DEF Hit
  <2>2. phase'[w] = "ready" /\ phase[w] = "load"
    BY <1>5 DEF Load, Return
  <2>3. CASE ret'[w] = Miss
    BY <1>0, <2>2, <2>3
  <2>4. CASE ret'[w] # Miss
    <3>1. ret'[w] = Hit(value, meta) /\ value \in Files /\ Labelled
      BY <1>5, <2>4 DEF Load, Return
    <3> QED BY <2>1, <2>2, <3>1
  <2> QED BY <2>3, <2>4
<1> QED BY <1>1, <1>2, <1>3, <1>4, <1>5 DEF CallStep

LEMMA DiskCallPlaced ==
    ASSUME HistInv, PlaceInv, StoreInv, NEW w \in Workers, HistoricalDiskStep(w)
    PROVE  PlacedOK(w)' /\ OthersBehind(w)
<1>0. /\ WorkerOK(ask[w], entry[w], outcome[w], phase[w], arg[w], ret[w], now)
      /\ Placed(ask[w], entry[w], outcome[w], phase[w], ret[w], value, meta)
      /\ Ready(w)
  BY HereIs, FromHere DEF PlaceInv, PlacedOK
<1>1. /\ CallStep(w) \/ Fail(w)
      /\ (ask' = ask /\ UNCHANGED <<value, meta>>) \/ Overtake(w)
      /\ entry' = entry /\ outcome' = outcome
  BY DEF HistoricalDiskStep, Rest
<1>2. ask'[w] = ask[w]
  BY <1>0, <1>1 DEF Overtake, Ready
<1>3. /\ phase'[w] # "ready" /\ phase[w] \in {"r_lock", "load"} => UNCHANGED <<value, meta>>
      /\ phase'[w] = "ready" /\ ret'[w].hit =>
            \/ /\ phase[w] = "load" /\ value \in Files /\ Labelled
               /\ ret'[w].data = value /\ ret'[w].label = meta
            \/ phase[w] = "dump" /\ value' = arg[w]
  BY <1>0, <1>1, CallStepFinds DEF Ready
<1>4. /\ phase[w] # "ready"
      /\ phase'[w] \in {"r_lock", "load"} => phase[w] \in {"r_lock", "load"}
  BY <1>0, <1>1, CallStepView DEF Ready
<1>5. ask[w].at \in {"disk", "readback"} => phase[w] \in {"r_lock", "load"}
  BY <1>0, <1>4, HereIs DEF WorkerOK, Phases, LockPhases, HeldPhases, StorePhases
<1>6. Absent \notin Files /\ Broken \notin Files
  BY DiskAssumption
<1>7. Placed(ask[w], entry[w], outcome[w], phase'[w], ret'[w], value', meta')
  <2>1. CASE ask[w].at = "disk"
    BY <1>0, <1>3, <1>4, <1>5, <2>1 DEF Placed, Labelled
  <2>2. CASE ask[w].at = "readback"
    BY <1>0, <1>3, <1>4, <1>5, <1>6, <2>2 DEF Placed
  <2>3. CASE ask[w].at \notin {"disk", "readback"}
    <3>1. ask[w].at = "adopt" => phase[w] \notin {"r_lock", "load"}
                                 /\ (phase[w] = "dump" => arg[w] = ask[w].file)
      BY <1>0 DEF WorkerOK, StorePhases
    <3> QED BY <1>0, <1>3, <2>3, <3>1 DEF Placed
  <2> QED BY <2>1, <2>2, <2>3
<1>8. OthersBehind(w)
  <2>1. CASE UNCHANGED <<value, meta>>
    BY <2>1 DEF OthersBehind
  <2>2. CASE Overtake(w)
    <3>1. ASSUME NEW v \in Workers, v # w, ask[v].at # "idle" PROVE ask'[v].overtaken
      <4>1. ask'[v] = [ask[v] EXCEPT !.overtaken = TRUE] /\ ask[v] \in Ask
        BY <2>2, <3>1, HereIs DEF Overtake
      <4> QED BY <4>1, OvertakenPlaced
    <3> QED BY <3>1 DEF OthersBehind
  <2> QED BY <1>1, <2>1, <2>2
<1> QED BY <1>1, <1>2, <1>7, <1>8 DEF PlacedOK

LEMMA MovedPlaced ==
    ASSUME NEW a \in Ask, NEW p, NEW b, b = [a EXCEPT !.at = p]
    PROVE  b.at = p /\ b.file = a.file /\ b.latest = a.latest /\ b.overtaken = a.overtaken
BY DEF Ask

\* w moves on to a call of the disk cache, or to a place that owes nothing.
LEMMA MovePlaced ==
    ASSUME HistInv, PlaceInv, NEW w \in Workers, NEW p, Move(w, p),
           UNCHANGED <<value, meta, entry, outcome>>,
           \/ p \notin {"idle", "disk", "adopt", "readback"}
           \/ p = "disk" /\ Read(w) /\ CheckFileId(ask[w].latest)
           \/ p = "adopt" /\ WriteValueDir(w, ask[w].file)
           \/ p = "readback" /\ Read(w) /\ (~ask[w].overtaken => value \in {ask[w].file, Broken, Absent})
    PROVE  PlacedOK(w)'
<1>0. /\ Placed(ask[w], entry[w], outcome[w], phase[w], ret[w], value, meta)
      /\ Ready(w)
  BY FromHere DEF PlaceInv, PlacedOK
<1> PICK a : a = ask'[w]
  OBVIOUS
<1>1. /\ a.at = p /\ a.file = ask[w].file /\ a.latest = ask[w].latest
      /\ a.overtaken = ask[w].overtaken
  BY <1>0, MovedPlaced DEF Move, Ready
<1>2. ~Miss.hit
  BY DEF Miss
<1>3. Read(w) => /\ phase'[w] \in {"ready", "r_lock"} /\ ret'[w] = Miss
  BY <1>0, ReadView DEF Ready
<1>4. WriteValueDir(w, ask[w].file) => phase'[w] # "ready"
  BY <1>0 DEF WriteValueDir, Enter, Ready
<1>5. Placed(a, entry[w], outcome[w], phase'[w], ret'[w], value, meta)
  BY <1>0, <1>1, <1>2, <1>3, <1>4 DEF Placed, CheckFileId
<1> QED BY <1>5 DEF PlacedOK

\* w commits what the request's lookups named, or what it was overtaken on.
LEMMA CommitPlaced ==
    ASSUME HistInv, NEW w \in Workers, NEW e \in Entry, e # Absent,
           Commit(w, e), Forget(w), e.data = e.fileId \/ e.raced,
           ask[w].latest = Absent \/ e.data \in {ask[w].latest, ask[w].file} \/ e.raced
    PROVE  PlacedOK(w)'
<1>0. Ready(w)
  BY FromHere
<1> PICK a : a = ask'[w]
  OBVIOUS
<1> PICK o : o = outcome'[w]
  OBVIOUS
<1>1. a.at = "idle" /\ a.file = ask[w].file /\ a.latest = ask[w].latest
  <2>1. ask' = [ask EXCEPT ![w].at = "idle"]
    BY DEF Commit, Reply, Move
  <2> QED BY <1>0, <2>1, MovedPlaced DEF Ready
<1>2. o.status = 200 => o.data = e.data
  BY <1>0 DEF Commit, Reply, Ready
<1>3. entry'[w] = e
  BY <1>0 DEF Commit, Ready
<1>4. Placed(a, e, o, phase'[w], ret'[w], value', meta')
  BY <1>1, <1>2 DEF Placed
<1> QED BY <1>3, <1>4 DEF PlacedOK

LEMMA RequestPlaced ==
    ASSUME HistInv, PlaceInv, HitsAreWhole, NEW w \in Workers, HistoricalStep(w)
    PROVE  PlacedOK(w)' /\ UNCHANGED <<value, meta>>
<1>0. /\ WorkerOK(ask[w], entry[w], outcome[w], phase[w], arg[w], ret[w], now)
      /\ Placed(ask[w], entry[w], outcome[w], phase[w], ret[w], value, meta)
      /\ Ready(w)
  BY HereIs, FromHere DEF PlaceInv, PlacedOK
<1>1. CASE ProbeDisk(w)
  <2>1. CASE CheckFileId(ask[w].latest)
    <3>1. Read(w) /\ Move(w, "disk") /\ UNCHANGED <<entry, outcome>>
      BY <1>1, <2>1 DEF ProbeDisk, Rest
    <3>2. UNCHANGED <<value, meta>>
      BY <1>0, <3>1, ReadView DEF Ready
    <3> QED BY <2>1, <3>1, <3>2, MovePlaced
  <2>2. CASE ~CheckFileId(ask[w].latest)
    BY <1>1, <2>2, MovePlaced DEF ProbeDisk, Rest, diskVars
  <2> QED BY <2>1, <2>2
<1>2. CASE FromDisk(w)
  <2>0. ask[w].at = "disk" /\ phase[w] = "ready" /\ Forget(w) /\ UNCHANGED <<value, meta>>
    BY <1>2 DEF FromDisk, Forget
  <2>1. CASE ret[w].hit
    <3>1. ret[w] # Stored
      BY <1>0, <2>0 DEF WorkerOK
    <3>2. ret[w].data \in Files /\ ret[w].label \in Label /\ ret[w].data = ret[w].label.fileId
      BY <1>0, <2>1, <3>1, HitTyped, DiskAssumption DEF HitsAreWhole, Ready
    <3>3. entry[w] \in Entry /\ ask[w].overtaken \in BOOLEAN
      BY <1>0, <2>0 DEF WorkerOK, Ask
    <3> PICK e : e = [entry[w] EXCEPT !.data = ret[w].data, !.fileId = ret[w].label.fileId,
                        !.timestamp = ret[w].label.timestamp, !.raced = ask[w].overtaken]
      OBVIOUS
    <3>4. ret[w].label.fileId \in Files /\ ret[w].label.timestamp \in Nat
      BY <3>2 DEF Label
    <3>5. e \in Entry /\ e.data = ret[w].data /\ e.fileId = ret[w].label.fileId
          /\ e.raced = ask[w].overtaken
      BY <3>2, <3>3, <3>4 DEF Entry
    <3>6. Commit(w, e)
      BY <1>2, <2>1 DEF FromDisk
    <3>7. e # Absent
      BY <3>5, AbsentIsNoEntry
    <3>8. ask[w].latest = Absent \/ e.data = ask[w].latest \/ e.raced
      BY <1>0, <2>0, <2>1, <3>2, <3>3, <3>5 DEF Placed
    <3>9. e.data = e.fileId
      BY <3>2, <3>5
    <3> QED BY <2>0, <3>5, <3>6, <3>7, <3>8, <3>9, CommitPlaced
  <2>2. CASE ~ret[w].hit
    BY <1>2, <2>0, <2>2, MovePlaced DEF FromDisk
  <2> QED BY <2>1, <2>2
<1>3. CASE Lineage(w) \/ DownloadFails(w) \/ Reject(w)
  <2>1. /\ entry' = entry /\ UNCHANGED <<value, meta>>
        /\ (outcome' = outcome /\ outcome[w].status = 0) \/ outcome'[w].status \in {404, 500}
    BY <1>0, <1>3 DEF Lineage, DownloadFails, Reject, Reply, WorkerOK, diskVars, Ready
  <2>2. ask'[w].at \in {"idle", "ingest"}
    BY <1>0, <1>3 DEF Lineage, DownloadFails, Reject, Reply, Move, Ready, Ask
  <2> PICK a : a = ask'[w]
    OBVIOUS
  <2> PICK o : o = outcome'[w]
    OBVIOUS
  <2>3. Placed(a, entry[w], o, phase'[w], ret'[w], value, meta)
    BY <1>0, <2>1, <2>2 DEF Placed
  <2> QED BY <2>1, <2>3 DEF PlacedOK
<1>4. CASE Stream(w)
  BY <1>4, MovePlaced DEF Stream, Rest, WriteValueDir, Enter
<1>5. CASE Decode(w)
  BY <1>5, MovePlaced DEF Decode, Write, Enter
<1>6. CASE Streamed(w)
  <2>1. ask[w].at = "adopt" /\ phase[w] = "ready" /\ UNCHANGED <<entry, outcome>>
    BY <1>6 DEF Streamed, Rest
  <2>2. CASE ret[w].hit
    <3>1. Read(w) /\ Move(w, "readback")
      BY <1>6, <2>2 DEF Streamed
    <3>2. UNCHANGED <<value, meta>>
      BY <1>0, <3>1, ReadView DEF Ready
    <3>3. ~ask[w].overtaken => value \in {ask[w].file, Broken, Absent}
      BY <1>0, <2>1, <2>2 DEF Placed
    <3> QED BY <2>1, <3>1, <3>2, <3>3, MovePlaced
  <2>3. CASE ~ret[w].hit
    BY <1>6, <2>1, <2>3, MovePlaced DEF Streamed, Write, Enter
  <2> QED BY <2>2, <2>3
<1>7. CASE StreamReadBack(w)
  <2>0. ask[w].at = "readback" /\ phase[w] = "ready"
    BY <1>7 DEF StreamReadBack
  <2>1. CASE ret[w].hit
    <3>1. ret[w] # Stored
      BY <1>0, <2>0 DEF WorkerOK
    <3>2. ret[w].data \in Files /\ ret[w].label \in Label
      BY <1>0, <2>1, <3>1, HitTyped DEF Ready
    <3>3. entry[w] \in Entry /\ ask[w].overtaken \in BOOLEAN /\ ask[w].file \in Files
      BY <1>0, <2>0 DEF WorkerOK, Ask, Ready
    <3> PICK e : e = [entry[w] EXCEPT !.data = ret[w].data, !.fileId = ask[w].file,
                        !.timestamp = ret[w].label.timestamp, !.raced = ask[w].overtaken]
      OBVIOUS
    <3>4. ret[w].label.timestamp \in Nat
      BY <3>2 DEF Label
    <3>5. e \in Entry /\ e.data = ret[w].data /\ e.fileId = ask[w].file
          /\ e.raced = ask[w].overtaken
      BY <3>2, <3>3, <3>4 DEF Entry
    <3>6. Commit(w, e) /\ Forget(w)
      BY <1>7, <2>1 DEF StreamReadBack
    <3>7. e # Absent
      BY <3>5, AbsentIsNoEntry
    <3>8. e.data = ask[w].file \/ e.raced
      BY <1>0, <2>0, <2>1, <3>3, <3>5 DEF Placed
    <3>9. UNCHANGED <<value, meta>>
      BY <3>6 DEF Forget
    <3> QED BY <3>5, <3>6, <3>7, <3>8, <3>9, CommitPlaced
  <2>2. CASE ~ret[w].hit
    BY <1>7, <2>2, MovePlaced DEF StreamReadBack, Write, Enter
  <2> QED BY <2>1, <2>2
<1>8. CASE Decoded(w)
  <2>1. entry[w] \in Entry /\ ask[w].file \in Files /\ ask[w].began \in Nat
    BY <1>0, <1>8 DEF Decoded, WorkerOK, Ask, Ready
  <2> PICK e : e = [entry[w] EXCEPT !.data = ask[w].file, !.fileId = ask[w].file,
                      !.timestamp = ask[w].began, !.raced = FALSE]
    OBVIOUS
  <2>2. e \in Entry /\ e.data = ask[w].file /\ e.fileId = ask[w].file
    BY <2>1 DEF Entry
  <2>3. Commit(w, e) /\ Forget(w) /\ UNCHANGED <<value, meta>>
    BY <1>8 DEF Decoded, Forget
  <2>4. e # Absent
    BY <2>2, AbsentIsNoEntry
  <2> QED BY <2>2, <2>3, <2>4, CommitPlaced
<1> QED BY <1>1, <1>2, <1>3, <1>4, <1>5, <1>6, <1>7, <1>8 DEF HistoricalStep

LEMMA AskForPlaced ==
    ASSUME HistInv, PlaceInv, NEW w \in Workers, NEW force \in BOOLEAN,
           NEW latest \in Files \cup {Absent}, AskFor(w, force, latest)
    PROVE  PlacedOK(w)' /\ UNCHANGED <<value, meta>>
<1>0. /\ WorkerOK(ask[w], entry[w], outcome[w], phase[w], arg[w], ret[w], now)
      /\ Placed(ask[w], entry[w], outcome[w], phase[w], ret[w], value, meta)
      /\ Ready(w)
  BY HereIs, FromHere DEF PlaceInv, PlacedOK
<1> DEFINE e == PresentEntry(w)
           next == IF force THEN "lineage" ELSE IF latest = Absent THEN "disk" ELSE "check"
           asked == [Unasked EXCEPT !.latest = latest, !.began = now]
<1>1. entry'[w] = e
  BY <1>0 DEF AskFor, Ready
<1>2. e.data # Absent => e.data = e.fileId \/ e.raced
  BY <1>0, EmptyEntry DEF PresentEntry, Placed, Ready
<1>3. CASE /\ outcome' = [outcome EXCEPT ![w] = [status |-> 200, data |-> e.data]]
           /\ ask' = [ask EXCEPT ![w] = asked]
           /\ e.data # Absent /\ StillLatest(e.fileId, latest) /\ UNCHANGED diskVars
  <2> PICK a : a = ask'[w]
    OBVIOUS
  <2> PICK o : o = outcome'[w]
    OBVIOUS
  <2>1. a.at = "idle" /\ a.latest = latest
    BY <1>0, <1>3 DEF Unasked, Ready
  <2>2. o.data = e.data
    BY <1>0, <1>3 DEF Ready
  <2>3. latest = Absent \/ e.fileId = latest
    BY <1>3 DEF StillLatest
  <2>4. Placed(a, e, o, phase'[w], ret'[w], value', meta')
    <3> HIDE DEF e
    <3> QED BY <1>2, <1>3, <2>1, <2>2, <2>3 DEF Placed
  <2> QED BY <1>1, <1>3, <2>4 DEF PlacedOK, diskVars
<1>4. CASE /\ outcome' = [outcome EXCEPT ![w] = Unanswered]
           /\ ask' = [ask EXCEPT ![w] = [asked EXCEPT !.at = next]]
           /\ IF next = "disk" THEN Read(w) ELSE UNCHANGED diskVars
  <2> PICK a : a = ask'[w]
    OBVIOUS
  <2> PICK o : o = outcome'[w]
    OBVIOUS
  <2>1. a.at = next /\ a.latest = latest /\ next \notin {"idle", "adopt", "readback"}
    BY <1>0, <1>4 DEF Unasked, Ready
  <2>2. o.status = 0 /\ (next = "disk" => latest = Absent)
    BY <1>0, <1>4 DEF Unanswered, Ready
  <2>3. Placed(a, e, o, phase'[w], ret'[w], value', meta')
    <3> HIDE DEF e, next
    <3> QED BY <1>2, <2>1, <2>2 DEF Placed
  <2>4. UNCHANGED <<value, meta>>
    BY <1>0, <1>4, ReadView DEF diskVars, Ready
  <2> QED BY <1>1, <2>3, <2>4 DEF PlacedOK
<1> QED BY <1>3, <1>4 DEF AskFor

LEMMA RestartPlaced ==
    ASSUME HistInv, NEW w \in Workers, HistoricalRestart(w)
    PROVE  PlacedOK(w)' /\ OthersBehind(w)
<1>0. Ready(w)
  BY FromHere
<1>1. /\ ask'[w] = Unasked /\ entry'[w] = Absent /\ outcome'[w] = Unanswered
  BY <1>0 DEF HistoricalRestart, Ready
<1>2. value' \in {value, Broken, Absent} /\ meta' = meta
  BY DEF HistoricalRestart, Die, Remains, RemainsOfMeta
<1>3. Unasked.at = "idle" /\ Unanswered.status = 0
  BY DEF Unasked, Unanswered
<1>4. Placed(Unasked, Absent, Unanswered, phase'[w], ret'[w], value', meta')
  BY <1>3 DEF Placed
<1> QED BY <1>1, <1>2, <1>4 DEF PlacedOK, OthersBehind

LEMMA PlaceInvStep ==
    HistInv /\ StoreInv /\ HitsAreWhole /\ PlaceInv /\ [HistoricalNext]_historicalVars => PlaceInv'
<1> SUFFICES ASSUME HistInv, StoreInv, HitsAreWhole, PlaceInv, [HistoricalNext]_historicalVars
             PROVE  PlaceInv'
  OBVIOUS
<1>1. ASSUME NEW w \in Workers,
             \/ \E force \in BOOLEAN, latest \in Files \cup {Absent} : AskFor(w, force, latest)
             \/ HistoricalStep(w) \/ HistoricalDiskStep(w) \/ HistoricalRestart(w)
      PROVE  PlaceInv'
  <2>1. Aside(w)
    BY <1>1, AskForStep, RequestStep, DiskCallStep, RestartStep DEF Moves
  <2>2. PlacedOK(w)' /\ (OthersBehind(w) \/ UNCHANGED <<value, meta>>)
    BY <1>1, AskForPlaced, RequestPlaced, DiskCallPlaced, RestartPlaced
  <2>3. OthersBehind(w)
    BY <2>2 DEF OthersBehind
  <2>4. ASSUME NEW v \in Workers PROVE PlacedOK(v)'
    BY <2>1, <2>2, <2>3, OthersPlaced
  <2> QED BY <2>4 DEF PlaceInv
<1>2. CASE Supply \/ (\E f \in Files : Quarantine(f)) \/ HistoricalTick \/ UNCHANGED historicalVars
  BY <1>2 DEF Supply, Quarantine, HistoricalTick, DiskTick, historicalVars, diskVars, serviceVars,
              PlaceInv, PlacedOK
<1> QED BY <1>1, <1>2 DEF HistoricalNext

\* What is served is what a lookup of the request named, for a store that never stops between
\* the rename and the sidecar: however the workers overtake each other, and whichever tier
\* answers, only an entry another worker stored meanwhile may be a different one.
THEOREM AnswersALookupHolds == OpenIsSafe => (HistoricalSpec => []AnswersALookup)
<1>1. SUFFICES ASSUME OpenIsSafe PROVE HistoricalSpec => []AnswersALookup
  OBVIOUS
<1> DEFINE Inv == HistInv /\ LockOwnership /\ StoreInv /\ PairInv /\ PlaceInv
<1>2. HistoricalInit => Inv
  <2> SUFFICES ASSUME HistoricalInit PROVE Inv
    OBVIOUS
  <2>1. DiskInit
    BY DEF HistoricalInit
  <2>2. LockOwnership /\ StoreInv /\ PairInv
    BY <2>1, StoreInit, SlotInit, DiskAssumption DEF DiskInit, LockOwnership, HeldPhases
  <2>3. Unasked.at = "idle" /\ Unanswered.status = 0
    BY DEF Unasked, Unanswered
  <2>4. PlaceInv
    BY <2>3 DEF HistoricalInit, PlaceInv, PlacedOK, Placed
  <2> QED BY <2>2, <2>4, HistInvInit
<1>3. Inv /\ [HistoricalNext]_historicalVars => Inv'
  <2> SUFFICES ASSUME Inv, [HistoricalNext]_historicalVars PROVE Inv'
    OBVIOUS
  <2>1. SlotInv /\ [DiskNext]_diskVars
    BY DiskStepOfHistorical DEF SlotInv, HistInv
  <2>2. LockOwnership' /\ StoreInv' /\ PairInv'
    BY <1>1, <2>1, LockStep, StoreStep, PairStep DEF SlotInv
  <2>3. PlaceInv'
    BY PlaceInvStep DEF PairInv
  <2> QED BY <2>2, <2>3, HistInvStep
<1>4. Inv => AnswersALookup
  BY DEF PlaceInv, PlacedOK, Placed, AnswersALookup
<1> HIDE DEF Inv
<1> QED BY <1>2, <1>3, <1>4, PTL DEF HistoricalSpec
=================================================================================
