------------------------------- MODULE Api_proofs -------------------------------
(***************************************************************************)
(* Proofs about what the routes answer: of the live forecast (Lineage), for *)
(* every number of manifests and every history of uploads, rulings, failed  *)
(* lookups and restarts; and from a dataset (ServedPayload), for every      *)
(* dataset, geography, query and budget.  With ApiDependencies_proofs, the  *)
(* types of the whole API.                                                  *)
(***************************************************************************)
EXTENDS MCApi, ApiDependencies_proofs, FunctionTheorems, SequenceTheorems, WellFoundedInduction

-------------------------------------------------------------------------------
(* The live forecast *)

\* What a report that is given says, when the artifacts of p were in the store all the while.
Answers(r, p) ==
    /\ r.record # None /\ r.of # None =>
          \A f \in Fields :
             CASE f \in {"artifact_id", "file_id", "source", "name", "filename"} ->
                    r.record[f] = r.of.artifact
               [] f = "created_at" /\ ~Dated(r.of) -> TRUE
               [] OTHER -> r.record[f] \in {r.of.artifact, None}
    /\ Dated(r.of) =>
          /\ r.judged = r.of.artifact
          /\ r.of.artifact \in Stale => r.status # "healthy"
    /\ r.status = "not found" \/ (r.record # None /\ r.record["file_id"] = LegacyRecord) =>
          /\ r.of = None
          /\ p \cap Manifests # {} => "manifest" \in r.failed
    /\ r.status = "not found" /\ LegacyRecord \in p => "stored" \in r.failed

\* A report under way has no record yet; what was there all the while still is, and a
\* manifest among it was passed over only by a lookup that failed.
UnderWay(r, p) ==
    /\ r.record = None /\ r.of = None
    /\ r.at = "stored" /\ r.manifest = None /\ p \cap Manifests # {} => "manifest" \in r.failed

LineageInv ==
    /\ LineageTypeOK
    /\ IF report.at = "idle" THEN Answers(report, present)
       ELSE UnderWay(report, present) /\ present \subseteq InStore

-------------------------------------------------------------------------------
(* The record                                                                  *)

\* What is known of a served run.
LEMMA OfTyped ==
    ASSUME NEW s \in ServedRun \cup {None}, NEW f
    PROVE  Of(s, f) \in Artifacts \cup {None} /\ (Of(s, f) # None => Of(s, f) = s.artifact)
BY LineageAssumption DEF Of, ServedRun, Artifacts

LEMMA StoreRecordTyped ==
    ASSUME NEW a \in Artifacts PROVE StoreRecord(a) \in Record
BY DEF StoreRecord, Record

LEMMA BaseRecordTyped ==
    ASSUME NEW m \in Manifests \cup {None}, NEW s \in {LegacyRecord, None}
    PROVE  /\ BaseRecord(m, s) \in Record \cup {None}
           /\ BaseRecord(m, s) = None => m = None /\ s = None
           /\ BaseRecord(m, s) # None /\ BaseRecord(m, s)["file_id"] = LegacyRecord => m = None
<1>1. "file_id" \in Fields /\ "file_id" \in StoreFields
  BY DEF Fields, StoreFields
<1>2. LegacyRecord \notin Manifests
  BY LineageAssumption
<1> QED BY <1>1, <1>2, StoreRecordTyped, NoneIsNoRecord DEF BaseRecord, Artifacts, StoreRecord

\* The labels of a served run replace every value of the record but a created_at it lacks.
LEMMA AppliedFields ==
    ASSUME LineageTypeOK, live # None, NEW d \in Record
    PROVE  /\ Applied(d) \in Record
           /\ \A f \in Fields :
                CASE f \in {"artifact_id", "file_id", "source", "name", "filename"} ->
                       Applied(d)[f] = live.artifact
                  [] f = "created_at" /\ ~Dated(live) -> TRUE
                  [] OTHER -> Applied(d)[f] \in {live.artifact, None}
           /\ Dated(live) => Applied(d)["created_at"] = live.artifact
<1>1. live \in ServedRun /\ live.artifact \in Artifacts
  BY DEF LineageTypeOK, ServedRun, Artifacts
<1>2. \A f : Of(live, f) \in {live.artifact, None}
  BY DEF Of
<1>3. "created_at" \in Fields
  BY DEF Fields, StoreFields
<1>4. ASSUME NEW f \in Fields PROVE Applied(d)[f] \in Artifacts \cup {None}
  BY <1>1, <1>2 DEF Applied, Record
<1>5. Applied(d) \in Record
  BY <1>4 DEF Applied, Record
<1>6. ASSUME NEW f \in Fields
      PROVE  CASE f \in {"artifact_id", "file_id", "source", "name", "filename"} ->
                    Applied(d)[f] = live.artifact
               [] f = "created_at" /\ ~Dated(live) -> TRUE
               [] OTHER -> Applied(d)[f] \in {live.artifact, None}
  BY <1>2 DEF Applied, Dated
<1>7. Dated(live) => Applied(d)["created_at"] = live.artifact
  BY <1>2, <1>3 DEF Applied, Dated
<1> QED BY <1>5, <1>6, <1>7

\* The record of a report, and what its age is judged by.
LEMMA RecordOfServed ==
    ASSUME LineageTypeOK, NEW m \in Manifests \cup {None}, NEW s \in {LegacyRecord, None},
           NEW r, r = ForecastRecord(m, s)
    PROVE  /\ r \in Record \cup {None}
           /\ r = None => live = None /\ m = None /\ s = None
           /\ r # None /\ r["file_id"] = LegacyRecord => live = None /\ m = None
           /\ r # None => FreshnessInput(r) \in Artifacts \cup {None}
           /\ r # None /\ live # None =>
                 /\ \A f \in Fields :
                      CASE f \in {"artifact_id", "file_id", "source", "name", "filename"} ->
                             r[f] = live.artifact
                        [] f = "created_at" /\ ~Dated(live) -> TRUE
                        [] OTHER -> r[f] \in {live.artifact, None}
                 /\ Dated(live) => FreshnessInput(r) = live.artifact
<1>1. /\ BaseRecord(m, s) \in Record \cup {None}
      /\ BaseRecord(m, s) = None => m = None /\ s = None
      /\ BaseRecord(m, s) # None /\ BaseRecord(m, s)["file_id"] = LegacyRecord => m = None
  BY BaseRecordTyped
<1>2. [f \in Fields |-> None] \in Record
  BY DEF Record
<1>3. "created_at" \in Fields
  BY DEF Fields, StoreFields
<1>4. CASE live = None
  <2>1. BaseRecord(m, s) # None =>
          AppliedNothing(BaseRecord(m, s)) \in Record
    <3>1. "file_id" \in Fields
      BY DEF Fields, StoreFields
    <3> QED BY <1>1, <3>1 DEF AppliedNothing, Record
  <2>2. /\ r \in Record \cup {None}
        /\ r = None => m = None /\ s = None
    BY <1>1, <1>4, <2>1, NoneIsNoRecord DEF ForecastRecord
  <2>4. r # None /\ r["file_id"] = LegacyRecord => m = None
    <3> SUFFICES ASSUME r # None, r["file_id"] = LegacyRecord PROVE m = None
      OBVIOUS
    <3>1. PICK b : b = BaseRecord(m, s)
      OBVIOUS
    <3>2. b \in Record /\ b # None /\ r = AppliedNothing(b)
      BY <1>1, <1>4, <3>1 DEF ForecastRecord
    <3>3. r["file_id"] = b["file_id"]
      BY <3>2 DEF AppliedNothing
    <3> QED BY <1>1, <3>1, <3>2, <3>3
  <2>3. r # None => FreshnessInput(r) \in Artifacts \cup {None}
    BY <1>3, <1>4, <2>2 DEF FreshnessInput, Of, Record
  <2> QED BY <1>4, <2>2, <2>3, <2>4
<1>5. CASE live # None
  <2>1. PICK d \in Record : r = Applied(d)
    BY <1>1, <1>2, <1>5 DEF ForecastRecord
  <2>2. r \in Record /\ r # None
    BY <1>5, <2>1, AppliedFields, NoneIsNoRecord
  <2>3. \A f \in Fields :
          CASE f \in {"artifact_id", "file_id", "source", "name", "filename"} ->
                 r[f] = live.artifact
            [] f = "created_at" /\ ~Dated(live) -> TRUE
            [] OTHER -> r[f] \in {live.artifact, None}
    BY <1>5, <2>1, AppliedFields
  <2>4. Dated(live) => FreshnessInput(r) = live.artifact
    BY DEF FreshnessInput, Dated
  <2>5. FreshnessInput(r) \in Artifacts \cup {None}
    BY <1>3, <2>2, OfTyped DEF FreshnessInput, LineageTypeOK, Record
  <2>6. r["file_id"] # LegacyRecord
    <3>1. "file_id" \in Fields
      BY DEF Fields, StoreFields
    <3>2. r["file_id"] = live.artifact
      BY <2>3, <3>1
    <3> QED BY <1>5, <3>2, LineageAssumption DEF LineageTypeOK, ServedRun
  <2> QED BY <1>5, <2>2, <2>3, <2>4, <2>5, <2>6
<1> QED BY <1>4, <1>5

-------------------------------------------------------------------------------
(* Each step                                                                   *)

LEMMA LineageInvInit == LineageInit => LineageInv
<1> SUFFICES ASSUME LineageInit PROVE LineageInv
  OBVIOUS
<1>1. NoReport \in Reports
  BY DEF NoReport, Reports
<1>2. Answers(NoReport, {}) /\ NoReport.at = "idle"
  BY DEF Answers, NoReport, Dated
<1>3. 0 \in 0..MaxManifest
  BY LineageAssumption
<1> QED BY <1>1, <1>2, <1>3 DEF LineageInit, LineageInv, LineageTypeOK

\* The newest of the manifests there are is one of them.
LEMMA MaxOfBounded ==
    ASSUME NEW n \in Nat, NEW S, S \subseteq 1..n, S # {} PROVE Max(S) \in S
<1> DEFINE T == {n - x : x \in S}
           R == {ss \in Nat \X Nat : ss[1] < ss[2]}
<1>1. T \subseteq Nat /\ T # {}
  <2>1. \A x \in S : n - x \in Nat
    OBVIOUS
  <2> QED BY <2>1
<1>2. IsWellFoundedOn(R, Nat)
  BY NatLessThanWellFounded DEF OpToRel
<1>3. \E t \in T : \A u \in T : <<u, t>> \notin R
  <2> HIDE DEF T, R
  <2> QED BY <1>1, <1>2, WFMin
<1>4. \E x \in S : \A y \in S : x >= y
  <2>1. PICK t \in T : \A u \in T : <<u, t>> \notin R
    BY <1>3
  <2>2. PICK x \in S : t = n - x
    BY <2>1
  <2>3. ASSUME NEW y \in S PROVE x >= y
    <3>1. n - y \in Nat /\ t \in Nat /\ <<n - y, t>> \notin R
      BY <1>1, <2>1
    <3>2. ~(n - y < t)
      BY <3>1
    <3>3. x \in Nat /\ y \in Nat
      OBVIOUS
    <3> QED BY <2>2, <3>2, <3>3
  <2> QED BY <2>3
<1> QED BY <1>4 DEF Max

LEMMA LatestTyped ==
    ASSUME LineageTypeOK PROVE LatestManifest \in Manifests \cup {None}
<1>1. CASE Selectable = {}
  BY <1>1 DEF LatestManifest
<1>2. CASE Selectable # {}
  <2>1. newest \in Nat /\ Selectable \subseteq 1..newest /\ 1..newest \subseteq Manifests
    <3>1. newest \in 0..MaxManifest /\ MaxManifest \in Nat
      BY LineageAssumption DEF LineageTypeOK
    <3> QED BY <3>1 DEF Selectable, Manifests
  <2>2. Max(Selectable) \in Selectable
    BY <1>2, <2>1, MaxOfBounded
  <2> QED BY <1>2, <2>1, <2>2 DEF LatestManifest
<1> QED BY <1>1, <1>2

\* Nothing less is said when less has been there all the while.
LEMMA FewerPresent ==
    ASSUME NEW r, NEW p, NEW q, q \subseteq p
    PROVE  (Answers(r, p) => Answers(r, q)) /\ (UnderWay(r, p) => UnderWay(r, q))
<1>1. (p \cap Manifests = {} => q \cap Manifests = {}) /\ (LegacyRecord \in q => LegacyRecord \in p)
  OBVIOUS
<1> QED BY <1>1 DEF Answers, UnderWay

LEMMA LineageInvStep == LineageInv /\ [LineageNext]_lineageVars => LineageInv'
<1> SUFFICES ASSUME LineageInv, [LineageNext]_lineageVars PROVE LineageInv'
  OBVIOUS
<1>0. /\ LineageTypeOK /\ report \in Reports
      /\ newest \in 0..MaxManifest /\ excluded \subseteq Manifests /\ legacy \in BOOLEAN
      /\ live \in ServedRun \cup {None} /\ refused \in BOOLEAN
      /\ present \subseteq Artifacts
      /\ IF report.at = "idle" THEN Answers(report, present)
         ELSE UnderWay(report, present) /\ present \subseteq InStore
  BY DEF LineageInv, LineageTypeOK
<1>a. MaxManifest \in Nat /\ 1..newest \subseteq Manifests
  BY <1>0, LineageAssumption DEF Manifests
<1>b. InStore \subseteq Artifacts
  BY <1>a DEF InStore, Selectable, Artifacts
<1> HIDE DEF LineageInv
<1>1. CASE Upload
  <2>1. newest' \in 0..MaxManifest
    BY <1>0, <1>a, <1>1 DEF Upload
  <2>2. InStore \subseteq InStore'
    BY <1>0, <1>a, <1>1 DEF Upload, InStore, Selectable
  <2>3. present \subseteq InStore => present \subseteq InStore'
    BY <2>2
  <2> QED BY <1>0, <1>1, <2>1, <2>3 DEF Upload, LineageInv, LineageTypeOK
<1>2. CASE Rule
  <2>1. ASSUME NEW r \in 1..newest PROVE SymDiff(excluded, {r}) \subseteq Manifests
    BY <1>0, <1>a DEF SymDiff
  <2>2. excluded' \subseteq Manifests /\ legacy' \in BOOLEAN
    BY <1>0, <1>2, <2>1 DEF Rule
  <2>3. present' \subseteq present /\ present' \subseteq InStore'
    BY <1>2 DEF Rule
  <2>4. /\ Answers(report, present) => Answers(report, present')
        /\ UnderWay(report, present) => UnderWay(report, present')
    BY <2>3, FewerPresent
  <2>5. present' \subseteq Artifacts
    BY <1>0, <2>3
  <2>6. UNCHANGED <<newest, live, refused, report>>
    BY <1>2 DEF Rule
  <2> QED BY <1>0, <2>2, <2>3, <2>4, <2>5, <2>6 DEF LineageInv, LineageTypeOK
<1>3. CASE Serve
  <2>1. ASSUME NEW r \in 1..newest, NEW lacks \in Builds
        PROVE  [artifact |-> r, lacks |-> lacks] \in ServedRun
    BY <1>a DEF ServedRun
  <2>2. live' \in ServedRun \cup {None} /\ refused' \in BOOLEAN
    BY <1>0, <1>3, <2>1 DEF Serve
  <2> QED BY <1>0, <1>3, <2>2 DEF Serve, LineageInv, LineageTypeOK
<1>4. CASE Restart
  <2>1. NoReport \in Reports /\ Answers(NoReport, {}) /\ NoReport.at = "idle"
    BY DEF NoReport, Reports, Answers, Dated
  <2> QED BY <1>0, <1>4, <2>1 DEF Restart, LineageInv, LineageTypeOK
<1>5. ASSUME NEW route \in {"provenance", "health"}, Ask(route) PROVE LineageInv'
  <2>1. /\ report' \in Reports /\ report'.record = None /\ report'.of = None
        /\ report'.at # "idle" /\ report'.at # "stored"
    BY <1>5 DEF Ask, NoReport, Reports
  <2>2. present' = InStore /\ InStore' = InStore
    BY <1>5 DEF Ask, InStore, Selectable
  <2> QED BY <1>0, <1>5, <1>b, <2>1, <2>2 DEF Ask, LineageInv, LineageTypeOK, UnderWay
<1>6. CASE LookUpManifest
  <2>1. PICK lost \in BOOLEAN, m \in Manifests \cup {None}, place \in {"judge", "stored"} :
          /\ m = IF lost THEN None ELSE LatestManifest
          /\ report' = [report EXCEPT !.manifest = m,
                                      !.failed = IF lost THEN {"manifest"} ELSE {}, !.at = place]
    BY <1>0, <1>6, LatestTyped DEF LookUpManifest
  <2> PICK failed \in SUBSET Lookups :
        failed = IF lost THEN {"manifest"} ELSE {}
    BY DEF Lookups
  <2>2. /\ report' \in Reports /\ report'.record = None /\ report'.at # "idle"
        /\ report'.manifest = m /\ report'.failed = failed /\ report'.of = None
    <3>1. report' = [report EXCEPT !.manifest = m, !.failed = failed, !.at = place]
      BY <2>1
    <3>2. report.record = None /\ report.of = None
      BY <1>0, <1>6 DEF LookUpManifest, UnderWay
    <3> PICK a, new : a = report /\ new = report'
      OBVIOUS
    <3>3. a \in Reports /\ new = [a EXCEPT !.manifest = m, !.failed = failed, !.at = place]
      BY <1>0, <3>1
    <3>4. m \in Manifests \cup {None} /\ failed \in SUBSET Lookups
          /\ place \in {"idle", "manifest", "stored", "judge"}
      OBVIOUS
    <3>5. /\ new.route = a.route /\ new.record = a.record /\ new.at = place
          /\ new.manifest = m /\ new.failed = failed /\ new.of = a.of
          /\ new.judged = a.judged /\ new.status = a.status
      BY <3>3 DEF Reports
    <3>6. new \in Reports
      BY <3>3, <3>4 DEF Reports
    <3> QED BY <3>2, <3>3, <3>4, <3>5, <3>6
  <2>3. UNCHANGED <<newest, excluded, legacy, live, refused, present>> /\ present \subseteq InStore
    BY <1>0, <1>6 DEF LookUpManifest
  <2>4. m = None /\ ~lost => present \cap Manifests = {}
    <3> SUFFICES ASSUME m = None, ~lost PROVE present \cap Manifests = {}
      OBVIOUS
    <3>1. LatestManifest = None
      BY <2>1
    <3>2. Selectable = {}
      <4> SUFFICES ASSUME Selectable # {} PROVE FALSE
        OBVIOUS
      <4>1. newest \in Nat /\ Selectable \subseteq 1..newest
        BY <1>0, <1>a DEF Selectable
      <4>2. Max(Selectable) \in Manifests
        BY <1>a, <4>1, MaxOfBounded
      <4>3. None \notin Manifests
        BY LineageAssumption DEF Artifacts
      <4> QED BY <3>1, <4>2, <4>3 DEF LatestManifest
    <3>3. InStore \subseteq {LegacyRecord} /\ LegacyRecord \notin Manifests
      BY <3>2, LineageAssumption DEF InStore
    <3> QED BY <2>3, <3>3
  <2>5. UnderWay(report', present)
    BY <2>2, <2>4 DEF UnderWay
  <2>6. InStore' = InStore
    BY <2>3 DEF InStore, Selectable
  <2> QED BY <1>0, <2>2, <2>3, <2>5, <2>6 DEF LineageInv, LineageTypeOK
<1>7. CASE AnswerProvenance
  <2>1. /\ report.at = "stored" /\ UNCHANGED <<newest, excluded, legacy, live, refused, present>>
        /\ UnderWay(report, present) /\ present \subseteq InStore
    BY <1>0, <1>7 DEF AnswerProvenance
  <2>a. CASE report' = [report EXCEPT !.at = "idle", !.status = "error"]
    <3>1. report' \in Reports /\ report'.at = "idle" /\ report'.status = "error"
          /\ report'.record = None /\ report'.of = report.of /\ report'.judged = report.judged
      BY <1>0, <2>1, <2>a DEF Reports, UnderWay
    <3>2. report.of = None
      BY <1>0, <2>1 DEF UnderWay
    <3> QED BY <1>0, <2>1, <3>1, <3>2 DEF LineageInv, LineageTypeOK, Answers, Dated
  <2>b. ASSUME NEW lost \in BOOLEAN, NEW r,
               r = ForecastRecord(report.manifest, IF lost THEN None ELSE LatestLegacy),
               report' = [report EXCEPT
                 !.at = "idle", !.failed = IF lost THEN report.failed \cup {"stored"} ELSE report.failed,
                 !.of = live, !.record = r,
                 !.judged = IF r = None THEN None ELSE FreshnessInput(r),
                 !.status = IF r = None THEN "not found" ELSE "found"]
        PROVE  LineageInv'
    <3> PICK stored \in {LegacyRecord, None} : stored = IF lost THEN None ELSE LatestLegacy
      BY DEF LatestLegacy
    <3>1. report.manifest \in Manifests \cup {None} /\ report.failed \subseteq Lookups
      BY <1>0 DEF Reports
    <3>2. /\ r \in Record \cup {None}
          /\ r = None => live = None /\ report.manifest = None /\ stored = None
          /\ r # None /\ r["file_id"] = LegacyRecord => live = None /\ report.manifest = None
          /\ r # None => FreshnessInput(r) \in Artifacts \cup {None}
          /\ r # None /\ live # None =>
                /\ \A f \in Fields :
                     CASE f \in {"artifact_id", "file_id", "source", "name", "filename"} ->
                            r[f] = live.artifact
                       [] f = "created_at" /\ ~Dated(live) -> TRUE
                       [] OTHER -> r[f] \in {live.artifact, None}
                /\ Dated(live) => FreshnessInput(r) = live.artifact
      BY <1>0, <2>b, <3>1, RecordOfServed
    <3> PICK new : new = report'
      OBVIOUS
    <3> PICK failed \in SUBSET Lookups :
          failed = IF lost THEN report.failed \cup {"stored"} ELSE report.failed
      BY <3>1 DEF Lookups
    <3>3. /\ new \in Reports /\ new.at = "idle" /\ new.of = live /\ new.record = r
          /\ new.manifest = report.manifest /\ new.failed = failed
          /\ new.judged = IF r = None THEN None ELSE FreshnessInput(r)
          /\ new.status = IF r = None THEN "not found" ELSE "found"
      <4>1. PICK j \in Artifacts \cup {None}, st \in {"found", "not found"} :
              /\ j = IF r = None THEN None ELSE FreshnessInput(r)
              /\ st = IF r = None THEN "not found" ELSE "found"
              /\ new = [report EXCEPT !.at = "idle", !.failed = failed, !.of = live, !.record = r,
                                      !.judged = j, !.status = st]
        BY <2>b, <3>2
      <4>2. report \in Reports /\ live \in ServedRun \cup {None} /\ r \in Record \cup {None}
        BY <1>0, <3>2
      <4> PICK a, s : a = report /\ s = live
        OBVIOUS
      <4>3. a \in Reports /\ s \in ServedRun \cup {None}
        BY <4>2
      <4>4. new = [a EXCEPT !.at = "idle", !.failed = failed, !.of = s, !.record = r,
                            !.judged = j, !.status = st]
        BY <4>1
      <4>5. /\ new \in Reports /\ new.at = "idle" /\ new.of = s /\ new.record = r
            /\ new.manifest = a.manifest /\ new.failed = failed
            /\ new.judged = j /\ new.status = st
        BY <4>2, <4>3, <4>4 DEF Reports
      <4> QED BY <4>1, <4>5
    <3>4. Dated(live) => live # None
      BY DEF Dated
    <3>5. report.manifest = None /\ present \cap Manifests # {} => "manifest" \in failed
      BY <2>1 DEF UnderWay
    <3>6. stored = None /\ LegacyRecord \in present => "stored" \in failed
      <4> SUFFICES ASSUME stored = None, LegacyRecord \in present, ~lost PROVE FALSE
        OBVIOUS
      <4>1. LegacyRecord \in InStore /\ LatestLegacy = None
        BY <2>1
      <4>2. LegacyRecord \notin Manifests /\ LegacyRecord # None
        BY LineageAssumption DEF Artifacts
      <4>3. ~legacy
        BY <4>1, <4>2 DEF LatestLegacy
      <4>4. LegacyRecord \in 1..newest
        BY <4>1, <4>3 DEF InStore, Selectable
      <4> QED BY <1>a, <4>2, <4>4
    <3>7. Answers(new, present)
      BY <3>2, <3>3, <3>4, <3>5, <3>6 DEF Answers
    <3> QED BY <1>0, <2>1, <3>3, <3>7 DEF LineageInv, LineageTypeOK
  <2> QED BY <1>7, <2>a, <2>b DEF AnswerProvenance
<1>8. CASE AnswerHealth
  <2> PICK stored \in {LatestLegacy, None} :
        \E judged :
          /\ judged = IF Of(live, "created_at") # None THEN live.artifact
                      ELSE IF report.manifest # None THEN report.manifest ELSE stored
          /\ report' = [report EXCEPT !.at = "idle", !.of = live, !.judged = judged,
                                      !.status = Status(judged)]
    BY <1>8 DEF AnswerHealth
  <2>1. PICK judged :
          /\ judged = IF Of(live, "created_at") # None THEN live.artifact
                      ELSE IF report.manifest # None THEN report.manifest ELSE stored
          /\ report' = [report EXCEPT !.at = "idle", !.of = live, !.judged = judged,
                                      !.status = Status(judged)]
    OBVIOUS
  <2>2. /\ report.at # "idle" /\ UNCHANGED <<newest, excluded, legacy, live, refused, present>>
        /\ report.record = None
    BY <1>0, <1>8 DEF AnswerHealth, UnderWay
  <2>3. judged \in Artifacts \cup {None} /\ (Dated(live) => judged = live.artifact)
    <3>1. stored \in {LegacyRecord, None} /\ report.manifest \in Manifests \cup {None}
      BY <1>0 DEF LatestLegacy, Reports
    <3>2. judged = IF Of(live, "created_at") # None THEN live.artifact
                   ELSE IF report.manifest # None THEN report.manifest ELSE stored
      BY <2>1
    <3> QED BY <1>0, <3>1, <3>2, OfTyped DEF Artifacts, Dated
  <2> PICK new : new = report'
    OBVIOUS
  <2>4. /\ new \in Reports /\ new.at = "idle" /\ new.of = live /\ new.record = None
        /\ new.judged = judged /\ new.status = Status(judged)
    <3>1. Status(judged) \in {"degraded", "healthy"}
      BY DEF Status
    <3>2. /\ report \in Reports /\ live \in ServedRun \cup {None}
          /\ judged \in Artifacts \cup {None} /\ report.record = None
      BY <1>0, <2>2, <2>3
    <3> PICK a, s, st : a = report /\ s = live /\ st = Status(judged)
      OBVIOUS
    <3>3. a \in Reports /\ s \in ServedRun \cup {None} /\ st \in {"degraded", "healthy"}
      BY <3>1, <3>2
    <3>4. new = [a EXCEPT !.at = "idle", !.of = s, !.judged = judged, !.status = st]
      BY <2>1
    <3>5. /\ new \in Reports /\ new.at = "idle" /\ new.of = s /\ new.record = a.record
          /\ new.judged = judged /\ new.status = st
      BY <3>2, <3>3, <3>4 DEF Reports
    <3> QED BY <3>2, <3>5
  <2>5. Answers(new, present)
    BY <2>3, <2>4 DEF Answers, Status
  <2> QED BY <1>0, <2>2, <2>4, <2>5 DEF LineageInv, LineageTypeOK
<1>9. CASE UNCHANGED lineageVars
  <2>1. InStore' = InStore
    BY <1>9 DEF lineageVars, InStore, Selectable
  <2> QED BY <1>0, <1>9, <2>1 DEF lineageVars, LineageInv, LineageTypeOK
<1> QED BY <1>1, <1>2, <1>3, <1>4, <1>5, <1>6, <1>7, <1>8, <1>9 DEF LineageNext

-------------------------------------------------------------------------------
(* What is reported, of the live forecast                                       *)

LEMMA LineageInvariant == LineageSpec => []LineageInv
BY LineageInvInit, LineageInvStep, PTL DEF LineageSpec

\* In every run the variables keep their types.
THEOREM LineageTypesHold == LineageSpec => []LineageTypeOK
<1>1. LineageInv => LineageTypeOK
  BY DEF LineageInv
<1> QED BY <1>1, LineageInvariant, PTL

\* What /provenance/forecast and /health report is the run this worker serves, whatever the
\* store holds beside it, save for the created_at of a run cached without one; when nothing was
\* served, a source that was in the store all the while is passed over only if its own lookup failed.
THEOREM ReportsWhatIsServedHolds == LineageSpec => []ReportsWhatIsServed
<1>1. LineageInv => ReportsWhatIsServed
  BY DEF LineageInv, Answers, ReportsWhatIsServed
<1> QED BY <1>1, LineageInvariant, PTL

\* The least of a set of numbers, by the well-foundedness of Nat.
LEMMA LeastOf == ASSUME NEW S, S \subseteq Nat, S # {} PROVE \E m \in S : \A d \in S : m <= d
<1> DEFINE R == {ss \in Nat \X Nat : ss[1] < ss[2]}
<1>1. IsWellFoundedOn(R, Nat)
  BY NatLessThanWellFounded DEF OpToRel
<1>2. \E m \in S : \A d \in S : <<d, m>> \notin R
  <2> HIDE DEF R
  <2> QED BY <1>1, WFMin
<1>3. PICK m \in S : \A d \in S : <<d, m>> \notin R
  BY <1>2
<1>4. ASSUME NEW d \in S PROVE m <= d
  <2>1. ~(d < m) /\ m \in Nat /\ d \in Nat
    BY <1>3
  <2> QED BY <2>1
<1> QED BY <1>4

\* A concatenation has what both sequences have.
LEMMA ConcatHas ==
  ASSUME NEW S, NEW s \in Seq(S), NEW t \in Seq(S)
  PROVE  s \o t \in Seq(S) /\ ToSet(s \o t) = ToSet(s) \cup ToSet(t)
<1> DEFINE u == s \o t
<1>1. /\ u \in Seq(S) /\ Len(u) = Len(s) + Len(t) /\ Len(s) \in Nat /\ Len(t) \in Nat
      /\ \A i \in 1..Len(s) : u[i] = s[i]
      /\ \A i \in 1..Len(t) : u[Len(s) + i] = t[i]
  BY ConcatProperties, LenProperties
<1>2. DOMAIN u = 1..Len(u) /\ DOMAIN s = 1..Len(s) /\ DOMAIN t = 1..Len(t)
  BY <1>1
<1> HIDE DEF u
<1>3. ASSUME NEW i \in 1..Len(u), ~(i \in 1..Len(s)) PROVE \E j \in 1..Len(t) : u[i] = t[j]
  <2>1. i - Len(s) \in 1..Len(t) /\ Len(s) + (i - Len(s)) = i
    BY <1>1, <1>3
  <2>2. u[Len(s) + (i - Len(s))] = t[i - Len(s)]
    BY <1>1, <2>1
  <2> QED BY <2>1, <2>2
<1>4. \A i \in 1..Len(s) : i \in 1..Len(u)
  BY <1>1
<1>5. \A i \in 1..Len(t) : Len(s) + i \in 1..Len(u)
  BY <1>1
<1>6. ToSet(u) = ToSet(s) \cup ToSet(t)
  <2>1. ASSUME NEW i \in 1..Len(u) PROVE u[i] \in ToSet(s) \/ u[i] \in ToSet(t)
    <3>1. CASE i \in 1..Len(s)
      BY <1>1, <1>2, <3>1 DEF ToSet
    <3>2. CASE ~(i \in 1..Len(s))
      BY <1>2, <1>3, <3>2 DEF ToSet
    <3> QED BY <3>1, <3>2
  <2>2. \A x \in ToSet(s) : x \in ToSet(u)
    BY <1>1, <1>2, <1>4 DEF ToSet
  <2>3. \A x \in ToSet(t) : x \in ToSet(u)
    BY <1>1, <1>2, <1>5 DEF ToSet
  <2>4. \A x \in ToSet(u) : \E i \in 1..Len(u) : x = u[i]
    BY <1>2 DEF ToSet
  <2> QED BY <2>1, <2>2, <2>3, <2>4
<1> QED BY <1>1, <1>6 DEF u

\* The beginnings of a concatenation: the k-th appends the k-th sequence to the one before.
Beginnings(seqs, k, f) ==
    f = [i \in 1..k |-> IF i = 1 THEN seqs[i] ELSE f[i - 1] \o seqs[i]]

SeqsOf(S, n, seqs) == n \in Nat /\ seqs \in [1..n -> Seq(S)]

LEMMA BeginningsExist ==
  ASSUME NEW S, NEW n, NEW seqs, SeqsOf(S, n, seqs), NEW k \in 1..n
  PROVE  \E f \in [1..k -> Seq(S)] : Beginnings(seqs, k, f)
<1> USE DEF SeqsOf
<1> DEFINE Fails == {j \in 1..n : ~\E f \in [1..j -> Seq(S)] : Beginnings(seqs, j, f)}
<1>1. SUFFICES ASSUME Fails # {} PROVE FALSE
  OBVIOUS
<1>2. PICK j \in Fails : \A i \in Fails : j <= i
  <2>1. Fails \subseteq Nat
    OBVIOUS
  <2> HIDE DEF Fails
  <2> QED BY <1>1, <2>1, LeastOf
<1>3. j \in 1..n /\ ~\E f \in [1..j -> Seq(S)] : Beginnings(seqs, j, f)
  OBVIOUS
<1>4. CASE j = 1
  <2> DEFINE f == [i \in 1..1 |-> seqs[1]]
  <2>1. f \in [1..1 -> Seq(S)]
    BY <1>4
  <2>2. f = [i \in 1..1 |-> IF i = 1 THEN seqs[i] ELSE f[i - 1] \o seqs[i]]
    OBVIOUS
  <2> HIDE DEF f, Fails
  <2> QED BY <1>3, <1>4, <2>1, <2>2 DEF Beginnings
<1>5. CASE j # 1
  <2>1. j - 1 \in 1..n /\ j - 1 \notin Fails
    BY <1>2, <1>3, <1>5
  <2>2. PICK g \in [1..(j - 1) -> Seq(S)] : Beginnings(seqs, j - 1, g)
    BY <2>1
  <2> HIDE DEF Fails
  <2> DEFINE f == [i \in 1..j |-> IF i = j THEN g[j - 1] \o seqs[j] ELSE g[i]]
  <2>3. \A i \in 1..(j - 1) : f[i] = g[i] /\ g[i] = IF i = 1 THEN seqs[i] ELSE g[i - 1] \o seqs[i]
    <3>1. \A i \in 1..(j - 1) : g[i] = IF i = 1 THEN seqs[i] ELSE g[i - 1] \o seqs[i]
      <4>1. PICK D : D = 1..(j - 1)
        OBVIOUS
      <4>2. g = [i \in D |-> IF i = 1 THEN seqs[i] ELSE g[i - 1] \o seqs[i]]
        BY <2>2, <4>1 DEF Beginnings
      <4>3. \A i \in D : g[i] = IF i = 1 THEN seqs[i] ELSE g[i - 1] \o seqs[i]
        BY <4>2, Zenon
      <4> QED BY <4>1, <4>3
    <3>2. \A i \in 1..(j - 1) : i \in 1..j /\ i # j
      BY <1>3
    <3>3. \A i \in 1..(j - 1) : f[i] = g[i]
      BY <3>2
    <3> QED BY <3>1, <3>3
  <2>4. f[j] = g[j - 1] \o seqs[j] /\ j - 1 \in 1..(j - 1)
    BY <1>3, <1>5
  <2>5. f \in [1..j -> Seq(S)]
    <3>1. g[j - 1] \o seqs[j] \in Seq(S)
      BY <1>3, <2>4, ConcatProperties
    <3>2. \A i \in 1..j : i # j => i \in 1..(j - 1)
      BY <1>3
    <3> QED BY <3>1, <3>2
  <2>6. \A i \in 1..j : f[i] = IF i = 1 THEN seqs[i] ELSE f[i - 1] \o seqs[i]
    <3>1. SUFFICES ASSUME NEW i \in 1..j PROVE f[i] = IF i = 1 THEN seqs[i] ELSE f[i - 1] \o seqs[i]
      OBVIOUS
    <3>2. CASE i = j
      <4>1. f[j - 1] = g[j - 1]
        BY <2>3, <2>4
      <4> HIDE DEF f
      <4> QED BY <1>5, <2>4, <3>2, <4>1
    <3>3. CASE i # j /\ i # 1
      <4>1. i \in 1..(j - 1) /\ i - 1 \in 1..(j - 1)
        BY <1>3, <3>3
      <4> HIDE DEF f
      <4> QED BY <2>3, <3>3, <4>1
    <3>4. CASE i # j /\ i = 1
      <4>1. i \in 1..(j - 1)
        BY <1>3, <3>4
      <4> HIDE DEF f
      <4> QED BY <2>3, <3>4, <4>1
    <3> QED BY <3>2, <3>3, <3>4
  <2> HIDE DEF f
  <2>7. Beginnings(seqs, j, f)
    BY <2>5, <2>6 DEF Beginnings
  <2> QED BY <1>3, <2>5, <2>7
<1> QED BY <1>4, <1>5

\* So does every beginning, of the sequences up to it.
LEMMA BeginningHas ==
  ASSUME NEW S, NEW n, NEW seqs, SeqsOf(S, n, seqs), NEW f, Beginnings(seqs, n, f), NEW k \in 1..n
  PROVE  f[k] \in Seq(S) /\ ToSet(f[k]) = UNION {ToSet(seqs[i]) : i \in 1..k}
<1> USE DEF SeqsOf
<1> DEFINE P(j) == f[j] \in Seq(S) /\ ToSet(f[j]) = UNION {ToSet(seqs[i]) : i \in 1..j}
           Fails == {j \in 1..n : ~P(j)}
<1>1. SUFFICES ASSUME Fails # {} PROVE FALSE
  OBVIOUS
<1>2. PICK j \in Fails : \A i \in Fails : j <= i
  <2>1. Fails \subseteq Nat
    OBVIOUS
  <2> HIDE DEF Fails
  <2> QED BY <1>1, <2>1, LeastOf
<1>3. j \in 1..n /\ ~P(j)
  OBVIOUS
<1>4. f[j] = IF j = 1 THEN seqs[j] ELSE f[j - 1] \o seqs[j]
  <2> HIDE DEF Fails, P
  <2> QED BY <1>3 DEF Beginnings
<1>5. CASE j = 1
  <2>1. 1..j = {1}
    BY <1>5
  <2> HIDE DEF Fails
  <2> QED BY <1>3, <1>4, <1>5, <2>1
<1>6. CASE j # 1
  <2>1. j - 1 \in 1..n /\ j - 1 \notin Fails
    <3>1. j - 1 \in 1..n /\ ~(j <= j - 1)
      BY <1>3, <1>6
    <3> HIDE DEF Fails
    <3> QED BY <1>2, <3>1
  <2>2. P(j - 1)
    BY <2>1
  <2>3. 1..j = (1..(j - 1)) \cup {j}
    BY <1>3
  <2>4. f[j - 1] \in Seq(S) /\ seqs[j] \in Seq(S) /\ f[j] = f[j - 1] \o seqs[j]
    BY <1>3, <1>4, <1>6, <2>2
  <2>5. f[j] \in Seq(S) /\ ToSet(f[j]) = ToSet(f[j - 1]) \cup ToSet(seqs[j])
    BY <2>4, ConcatHas
  <2> HIDE DEF Fails
  <2> QED BY <1>3, <2>2, <2>3, <2>5
<1> QED BY <1>5, <1>6

LEMMA FlattenHas ==
  ASSUME NEW S, NEW n, NEW seqs, SeqsOf(S, n, seqs)
  PROVE  /\ FlattenSeq(seqs) \in Seq(S)
         /\ ToSet(FlattenSeq(seqs)) = UNION {ToSet(seqs[i]) : i \in 1..n}
         /\ n = 0 => FlattenSeq(seqs) = <<>>
<1>1. Len(seqs) = n /\ seqs \in Seq(Seq(S)) /\ n \in Nat
  BY DEF SeqsOf
<1>2. CASE n = 0
  <2>1. seqs = <<>>
    BY <1>1, <1>2
  <2>2. FlattenSeq(seqs) = <<>>
    BY <1>1, <1>2, <2>1 DEF FlattenSeq
  <2> QED BY <1>2, <2>2 DEF ToSet
<1>3. CASE n # 0
  <2> DEFINE flat == CHOOSE f : Beginnings(seqs, n, f)
  <2>1. n \in 1..n
    BY <1>1, <1>3
  <2>2. Beginnings(seqs, n, flat)
    BY <2>1, BeginningsExist
  <2>3. FlattenSeq(seqs) = flat[n]
    BY <1>1, <1>3 DEF FlattenSeq, Beginnings
  <2> HIDE DEF flat
  <2>4. flat[n] \in Seq(S) /\ ToSet(flat[n]) = UNION {ToSet(seqs[i]) : i \in 1..n}
    BY <2>1, <2>2, BeginningHas
  <2> QED BY <1>3, <2>3, <2>4
<1> QED BY <1>2, <1>3

\* A set as a sequence, and how many members a sequence has.
LEMMA SetInSequence ==
  ASSUME NEW S, IsFiniteSet(S)
  PROVE  SetToSeq(S) \in Seq(S) /\ ToSet(SetToSeq(S)) = S
<1> DEFINE n == Cardinality(S)
           s == SetToSeq(S)
<1>1. n \in Nat /\ Bijection(1..n, S) # {}
  BY FS_CardinalityType, Fun_ExistsBij
<1>2. \E f \in [1..n -> S] : IsInjective(f)
  BY <1>1 DEF Bijection, Injection, IsInjective
<1>3. s \in [1..n -> S] /\ IsInjective(s)
  BY <1>2 DEF SetToSeq
<1> HIDE DEF s
<1>4. s \in Surjection(1..n, S)
  <2>1. s \in Injection(1..n, S)
    BY <1>3, Fun_IsInj DEF IsInjective
  <2>2. IsFiniteSet(1..n) /\ Cardinality(1..n) = n
    BY <1>1, FS_Interval
  <2> QED BY <2>1, <2>2, FS_Injection
<1>5. ToSet(s) = S
  BY <1>3, <1>4 DEF ToSet, Surjection
<1> QED BY <1>1, <1>3, <1>5, SeqDef DEF s

LEMMA MembersCounted ==
  ASSUME NEW S, NEW s \in Seq(S)
  PROVE  /\ IsFiniteSet(ToSet(s)) /\ Cardinality(ToSet(s)) \in Nat /\ Len(s) \in Nat
         /\ Cardinality(ToSet(s)) <= Len(s)
         /\ IsInjective(s) => Cardinality(ToSet(s)) = Len(s)
<1> DEFINE n == Len(s)
<1>1. n \in Nat /\ s \in [1..n -> S] /\ DOMAIN s = 1..n
  BY LenProperties
<1>2. IsFiniteSet(1..n) /\ Cardinality(1..n) = n
  BY <1>1, FS_Interval
<1> HIDE DEF n
<1>3. s \in Surjection(1..n, ToSet(s))
  <2>1. s \in [1..n -> ToSet(s)] /\ \A x \in ToSet(s) : \E i \in 1..n : s[i] = x
    BY <1>1 DEF ToSet
  <2> QED BY <2>1, Fun_IsSurj
<1>4. IsFiniteSet(ToSet(s)) /\ Cardinality(ToSet(s)) <= n
  BY <1>2, <1>3, FS_Surjection
<1>5. ASSUME IsInjective(s) PROVE Cardinality(ToSet(s)) = n
  <2>1. s \in Bijection(1..n, ToSet(s))
    BY <1>1, <1>3, <1>5 DEF Bijection, Injection, Surjection, IsInjective
  <2> QED BY <1>2, <2>1, FS_Bijection, Fun_ExistsBij
<1> QED BY <1>1, <1>4, <1>5, FS_CardinalityType DEF n

-------------------------------------------------------------------------------
(* The query *)

Names == Months \cup Cells \cup Codes \cup {Other}

AskTyped ==
    query \in [route : {"subset", "hdi-map"}, level : {"pg", "country"},
               months : Filters(Months) \cup {Bad}, entities : Filters(Cells) \cup Filters(Codes),
               columns : ColumnFilters, metadata : BOOLEAN, aggregate : BOOLEAN]

LEMMA FiltersTyped == Filters(Months) \cup Filters(Cells) \cup Filters(Codes) \subseteq Seq(Names) \cup {All}
<1>1. ASSUME NEW S \in SUBSET Names, NEW s \in Seq(S) PROVE s \in Seq(Names)
  <2>1. Len(s) \in Nat /\ s \in [1..Len(s) -> S]
    BY LenProperties
  <2> PICK D : D = 1..Len(s)
    OBVIOUS
  <2>2. s \in [D -> S] /\ S \subseteq Names
    BY <2>1
  <2>3. s \in [D -> Names]
    BY <2>2
  <2> QED BY <2>1, <2>3, SeqDef
<1>2. /\ Months \cup {Other} \in SUBSET Names /\ Cells \cup {Other} \in SUBSET Names
      /\ Codes \cup {Other} \in SUBSET Names
  BY DEF Names
<1> QED BY <1>1, <1>2 DEF Filters

\* The columns asked for.
LEMMA ColumnsTyped ==
  ASSUME query.columns \in ColumnFilters
  PROVE  /\ IsFiniteSet(Selected) /\ Cardinality(Selected) \in Nat /\ ValueColumns \in Nat /\ Width \in Nat
         /\ Cardinality(Selected) <= ValueColumns
         /\ ~NamedTwice(query.columns.features) => Cardinality(Selected) = ValueColumns
<1> DEFINE f == query.columns.features
<1>1. /\ f \in Seq(Targets \cup {Other}) \cup {All}
      /\ query.columns.draws \in Seq(Int \cup {Other}) \cup {All}
  BY PayloadAssumption DEF Filters
<1>2. Width \in Nat
  <2>1. ASSUME NEW S, NEW s \in Seq(S) PROVE Len(s) \in Nat
    OBVIOUS
  <2> QED BY <1>1, <2>1, PayloadAssumption DEF Width
<1> HIDE DEF f
<1>3. CASE f = All
  <2>1. IsFiniteSet(Targets)
    BY PayloadAssumption
  <2>2. Selected = Targets /\ ValueColumns = Cardinality(Targets)
    BY <1>3 DEF Selected, ValueColumns, f
  <2> QED BY <1>2, <2>1, <2>2, FS_CardinalityType
<1>4. CASE f # All
  <2>1. f \in Seq(Targets \cup {Other})
    BY <1>1, <1>4
  <2>2. Selected = ToSet(f) /\ ValueColumns = Len(f) /\ (~NamedTwice(f) => IsInjective(f))
    BY <1>4 DEF Selected, ValueColumns, NamedTwice, f
  <2>3. /\ IsFiniteSet(ToSet(f)) /\ Cardinality(ToSet(f)) \in Nat /\ Len(f) \in Nat
        /\ Cardinality(ToSet(f)) <= Len(f)
        /\ IsInjective(f) => Cardinality(ToSet(f)) = Len(f)
    BY <2>1, MembersCounted
  <2> QED BY <1>2, <2>2, <2>3 DEF f
<1> QED BY <1>3, <1>4

\* The cells the entities are resolved to.
LEMMA ResolvedIs ==
  ASSUME AskTyped
  PROVE  /\ query.level = "pg" \/ query.entities = All => Resolved = query.entities
         /\ ~(query.level = "pg" \/ query.entities = All) =>
                /\ query.entities \in Seq(Names)
                /\ Resolved \in Seq(Cells) /\ Resolved # All
                /\ ToSet(Resolved) = UNION {CellsOf(u) : u \in ToSet(query.entities)}
         /\ Resolved \in Seq(Names) \cup {All}
<1>1. query.entities \in Seq(Names) \cup {All}
  BY FiltersTyped DEF AskTyped
<1>2. CASE query.level = "pg" \/ query.entities = All
  BY <1>1, <1>2 DEF Resolved
<1>3. CASE ~(query.level = "pg" \/ query.entities = All)
  <2> DEFINE e == query.entities
             n == Len(e)
             seqs == [i \in 1..n |-> SetToSeq(CellsOf(e[i]))]
  <2>1. e \in Seq(Names) /\ n \in Nat /\ e \in [1..n -> Names] /\ DOMAIN e = 1..n
    BY <1>1, <1>3, LenProperties
  <2>2. Resolved = FlattenSeq(seqs)
    BY <1>3, <2>1 DEF Resolved
  <2>3. ASSUME NEW u PROVE SetToSeq(CellsOf(u)) \in Seq(Cells) /\ ToSet(SetToSeq(CellsOf(u))) = CellsOf(u)
    <3>1. CellsOf(u) \in SUBSET Cells
      BY DEF CellsOf
    <3>2. IsFiniteSet(CellsOf(u))
      BY <3>1, PayloadAssumption, FS_Subset
    <3>3. SetToSeq(CellsOf(u)) \in Seq(CellsOf(u)) /\ ToSet(SetToSeq(CellsOf(u))) = CellsOf(u)
      BY <3>2, SetInSequence
    <3> QED BY <3>1, <3>3
  <2>4. SeqsOf(Cells, n, seqs)
    BY <2>1, <2>3 DEF SeqsOf
  <2>5. \A i \in 1..n : ToSet(seqs[i]) = CellsOf(e[i])
    BY <2>3
  <2> HIDE DEF seqs, e
  <2>6. /\ FlattenSeq(seqs) \in Seq(Cells)
        /\ ToSet(FlattenSeq(seqs)) = UNION {ToSet(seqs[i]) : i \in 1..n}
    BY <2>4, FlattenHas
  <2>7. UNION {ToSet(seqs[i]) : i \in 1..n} = UNION {CellsOf(u) : u \in ToSet(e)}
    <3>1. UNION {ToSet(seqs[i]) : i \in 1..n} = UNION {CellsOf(e[i]) : i \in 1..n}
      BY <2>5
    <3>2. ToSet(e) = {e[i] : i \in 1..n}
      BY <2>1 DEF ToSet
    <3> QED BY <3>1, <3>2
  <2>8. Resolved \in Seq(Cells) /\ Resolved # All
    BY <2>2, <2>6, PayloadAssumption
  <2>9. Resolved \in Seq(Names)
    <3>1. Len(Resolved) \in Nat /\ Resolved \in [1..Len(Resolved) -> Cells]
      BY <2>8, LenProperties
    <3>2. Resolved \in [1..Len(Resolved) -> Names]
      BY <3>1 DEF Names
    <3> QED BY <3>1, <3>2, SeqDef
  <2> QED BY <1>3, <2>1, <2>2, <2>6, <2>7, <2>8, <2>9 DEF e
<1> QED BY <1>2, <1>3

-------------------------------------------------------------------------------
(* Rows and groups *)

Groups == [month : Months, unit : Codes, cells : SUBSET Cells]

LEMMA WantedIn ==
  ASSUME NEW filter, NEW S, IsFiniteSet(S)
  PROVE  /\ Wanted(filter, S) \subseteq S /\ IsFiniteSet(Wanted(filter, S))
         /\ Cardinality(Wanted(filter, S)) \in Nat
<1>1. Wanted(filter, S) \in SUBSET S
  BY DEF Wanted
<1> QED BY <1>1, FS_Subset, FS_CardinalityType

LEMMA MaskIs ==
  /\ Mask \subseteq Rows /\ IsFiniteSet(Mask) /\ Cardinality(Mask) \in Nat
  /\ Cardinality(Mask) = Cardinality(Wanted(query.months, Months)) * Cardinality(Wanted(Resolved, Cells))
<1>1. /\ Wanted(query.months, Months) \subseteq Months /\ IsFiniteSet(Wanted(query.months, Months))
      /\ Wanted(Resolved, Cells) \subseteq Cells /\ IsFiniteSet(Wanted(Resolved, Cells))
  BY PayloadAssumption, WantedIn
<1>2. /\ IsFiniteSet(Mask)
      /\ Cardinality(Mask) = Cardinality(Wanted(query.months, Months)) * Cardinality(Wanted(Resolved, Cells))
  BY <1>1, FS_Product DEF Mask
<1>3. Mask \subseteq Rows
  BY <1>1 DEF Mask, Rows
<1> QED BY <1>2, <1>3, FS_CardinalityType

\* The cells of a unit in a month that are summed, and the groups with any.
CellsIn(rows, t, u) == {c \in Cells : <<t, c>> \in rows /\ dataset.code[t, c] = u}

LEMMA SummedIs ==
  ASSUME NEW rows, rows \subseteq Rows, IsFiniteSet(rows)
  PROVE  /\ Summed(rows) \subseteq Groups
         /\ Cardinality(Summed(rows)) \in Nat /\ Cardinality(Summed(rows)) <= Cardinality(rows)
         /\ \A g \in Summed(rows) : g.cells = CellsIn(rows, g.month, g.unit) /\ g.cells # {}
         /\ \A t \in Months, u \in Codes : CellsIn(rows, t, u) # {}
                => \E g \in Summed(rows) : g.month = t /\ g.unit = u
<1>0. \A r \in rows : r = <<r[1], r[2]>> /\ r[1] \in Months /\ r[2] \in Cells
  <2>1. \A r \in Months \X Cells : r = <<r[1], r[2]>> /\ r[1] \in Months /\ r[2] \in Cells
    OBVIOUS
  <2> QED BY <2>1 DEF Rows
<1> DEFINE group(t, u) == [month |-> t, unit |-> u, cells |-> CellsIn(rows, t, u)]
           of == {r \in rows : dataset.code[r[1], r[2]] \in Codes}
           f == [r \in of |-> group(r[1], dataset.code[r[1], r[2]])]
<1>1. Summed(rows) = {g \in {group(t, u) : t \in Months, u \in Codes} : g.cells # {}}
  BY DEF Summed, CellsIn
<1>2. \A t, u : CellsIn(rows, t, u) \subseteq Cells
  BY DEF CellsIn
<1>3. \A g \in Summed(rows) : \E t \in Months, u \in Codes : g = group(t, u) /\ CellsIn(rows, t, u) # {}
  BY <1>1
<1>4. \A t \in Months, u \in Codes : CellsIn(rows, t, u) # {} => group(t, u) \in Summed(rows)
  BY <1>1
<1>5. Summed(rows) \subseteq Groups
  BY <1>2, <1>3 DEF Groups
<1>6. ASSUME NEW r \in of
      PROVE  /\ r[1] \in Months /\ r[2] \in Cells /\ dataset.code[r[1], r[2]] \in Codes
             /\ r[2] \in CellsIn(rows, r[1], dataset.code[r[1], r[2]])
  <2>1. r \in rows /\ dataset.code[r[1], r[2]] \in Codes
    OBVIOUS
  <2>2. <<r[1], r[2]>> \in rows /\ r[1] \in Months /\ r[2] \in Cells
    BY <1>0, <2>1
  <2> QED BY <2>1, <2>2 DEF CellsIn
<1>7. ASSUME NEW g \in Summed(rows) PROVE \E r \in of : f[r] = g
  <2>1. PICK t \in Months, u \in Codes : g = group(t, u) /\ CellsIn(rows, t, u) # {}
    BY <1>3
  <2>2. PICK c \in CellsIn(rows, t, u) : TRUE
    BY <2>1
  <2>3. <<t, c>> \in of /\ dataset.code[t, c] = u
    BY <2>2 DEF CellsIn
  <2> QED BY <2>1, <2>3
<1>8. f \in Surjection(of, Summed(rows))
  <2>1. \A r \in of : f[r] \in Summed(rows)
    BY <1>4, <1>6
  <2> QED BY <1>7, <2>1 DEF Surjection
<1>9. IsFiniteSet(of) /\ Cardinality(of) <= Cardinality(rows) /\ of \in SUBSET rows
  <2>1. of \in SUBSET rows
    OBVIOUS
  <2> HIDE DEF of
  <2> QED BY <2>1, FS_Subset
<1> HIDE DEF of, f
<1>10. IsFiniteSet(Summed(rows)) /\ Cardinality(Summed(rows)) <= Cardinality(of)
  BY <1>8, <1>9, FS_Surjection
<1>11. /\ Cardinality(Summed(rows)) \in Nat /\ Cardinality(of) \in Nat /\ Cardinality(rows) \in Nat
  BY <1>9, <1>10, FS_CardinalityType
<1>12. Cardinality(Summed(rows)) <= Cardinality(rows)
  BY <1>9, <1>10, <1>11
<1>13. ASSUME NEW g \in Summed(rows) PROVE g.cells = CellsIn(rows, g.month, g.unit) /\ g.cells # {}
  <2>1. PICK t \in Months, u \in Codes : g = group(t, u) /\ CellsIn(rows, t, u) # {}
    BY <1>3
  <2> QED BY <2>1
<1>14. ASSUME NEW t \in Months, NEW u \in Codes, CellsIn(rows, t, u) # {}
       PROVE  \E g \in Summed(rows) : g.month = t /\ g.unit = u
  <2>1. group(t, u) \in Summed(rows)
    BY <1>4, <1>14
  <2> QED BY <2>1
<1> QED BY <1>5, <1>11, <1>12, <1>13, <1>14

-------------------------------------------------------------------------------
(* What an answer costs *)

FrameType == [rows : Nat, keyed : Nat, elements : Nat, groups : SUBSET Groups]
NoLarger(f, g) == f.rows <= g.rows /\ f.keyed <= g.keyed /\ f.elements <= g.elements

LEMMA CostMonotonic ==
  ASSUME NEW f \in FrameType, NEW g \in FrameType, NoLarger(f, g)
  PROVE  Cost(f) <= Cost(g) /\ Cost(f) \in Nat
<1>1. /\ f.rows \in Nat /\ f.keyed \in Nat /\ f.elements \in Nat
      /\ g.rows \in Nat /\ g.keyed \in Nat /\ g.elements \in Nat
  BY DEF FrameType
<1> DEFINE p == f.keyed * 120 + f.elements * 32
           q == g.keyed * 120 + g.elements * 32
<1>2. p \in Nat /\ q \in Nat /\ p <= q
  BY <1>1 DEF NoLarger
<1> HIDE DEF p, q
<1>3. f.rows * p <= g.rows * p /\ g.rows * p <= g.rows * q /\ f.rows * p \in Nat /\ g.rows * q \in Nat /\ g.rows * p \in Nat
  BY <1>1, <1>2 DEF NoLarger
<1>4. f.rows * p <= g.rows * q
  BY <1>3
<1> QED BY <1>3, <1>4 DEF Cost, p, q

PayloadTyped == dataset \in Datasets /\ AskTyped

LEMMA CellFramesTyped ==
  ASSUME PayloadTyped
  PROVE  /\ PayloadShape \in FrameType /\ CellFrame(GeoWidth) \in FrameType /\ NoFrame \in FrameType
         /\ GeoWidth \in Nat /\ Cardinality(Selected) * Width \in Nat
<1>1. /\ Cardinality(Selected) \in Nat /\ ValueColumns \in Nat /\ Width \in Nat
  BY ColumnsTyped DEF PayloadTyped, AskTyped
<1>2. GeoWidth \in Nat
  BY DEF GeoWidth, GeoColumns
<1>3. Cardinality(Mask) \in Nat
  BY MaskIs
<1>4. NoFrame \in FrameType
  BY DEF NoFrame, FrameType
<1>5. Cardinality(Selected) * Width \in Nat /\ ValueColumns * Width \in Nat
  BY <1>1
<1> DEFINE n == Cardinality(Selected)
           e == Cardinality(Selected) * Width
           v == ValueColumns * Width
<1>6. n \in Nat /\ e \in Nat /\ v \in Nat
  BY <1>1, <1>5
<1> HIDE DEF n, e, v
<1>7. IndexColumns + n + GeoWidth \in Nat /\ IndexColumns + ValueColumns + GeoWidth \in Nat /\ IndexColumns + GeoWidth \in Nat
  BY <1>1, <1>2, <1>6 DEF IndexColumns
<1>8. CellFrame(GeoWidth) \in FrameType
  <2>1. CASE NothingAsked
    <3>1. CellFrame(GeoWidth) = [NoFrame EXCEPT !.keyed = IndexColumns + GeoWidth]
      BY <2>1 DEF CellFrame
    <3> QED BY <1>4, <1>7, <3>1 DEF FrameType
  <2>2. CASE ~NothingAsked
    <3>1. CellFrame(GeoWidth) = [rows |-> Cardinality(Mask), keyed |-> IndexColumns + n + GeoWidth,
             elements |-> IF dataset.prediction THEN e ELSE 0, groups |-> {}]
      BY <2>2 DEF CellFrame, n, e
    <3> QED BY <1>3, <1>6, <1>7, <3>1 DEF FrameType
  <2> QED BY <2>1, <2>2
<1>9. PayloadShape \in FrameType
  <2>1. CASE NothingAsked
    BY <1>4, <2>1 DEF PayloadShape
  <2>2. CASE ~NothingAsked
    <3>1. PayloadShape = [rows |-> Cardinality(Mask), keyed |-> IndexColumns + ValueColumns + GeoWidth,
             elements |-> IF dataset.prediction THEN v ELSE 0, groups |-> {}]
      BY <2>2 DEF PayloadShape, v
    <3> QED BY <1>3, <1>6, <1>7, <3>1 DEF FrameType
  <2> QED BY <2>1, <2>2
<1> QED BY <1>2, <1>4, <1>5, <1>8, <1>9

LEMMA UnitFrameTyped ==
  ASSUME NEW values \in Nat, NEW elements \in Nat
  PROVE  UnitFrame(Summed(Mask), values, elements) \in FrameType
<1>1. Summed(Mask) \subseteq Groups /\ Cardinality(Summed(Mask)) \in Nat
  BY MaskIs, SummedIs
<1> QED BY <1>1 DEF UnitFrame, FrameType, IndexColumns

LEMMA CountTyped ==
  ASSUME NEW filter, NEW S, IsFiniteSet(S), filter \in Seq(Names) \cup {All}
  PROVE  Count(filter, S) \in Nat
<1>1. Cardinality(S) \in Nat
  BY FS_CardinalityType
<1> QED BY <1>1 DEF Count

LEMMA FramesTyped ==
  ASSUME PayloadTyped, query.months \in Filters(Months), NEW f \in Frames
  PROVE  f \in FrameType
<1>1. /\ PayloadShape \in FrameType /\ CellFrame(GeoWidth) \in FrameType /\ NoFrame \in FrameType
      /\ GeoWidth \in Nat /\ Cardinality(Selected) * Width \in Nat /\ Cardinality(Selected) \in Nat
  BY CellFramesTyped, ColumnsTyped DEF PayloadTyped, AskTyped
<1>2. Cardinality(Selected) * Statistics \in Nat
  BY <1>1 DEF Statistics
<1>3. ASSUME f \in SubsetFrame PROVE f \in FrameType
  <2>1. UnitFrame(Summed(Mask), Cardinality(Selected), IF dataset.prediction THEN Cardinality(Selected) * Width ELSE 0) \in FrameType
    BY <1>1, UnitFrameTyped
  <2> QED BY <1>1, <1>3, <2>1 DEF SubsetFrame, Distributions
<1>4. ASSUME f \in HdiCells PROVE f \in FrameType
  <2> DEFINE m == Count(query.months, Months)
             c == Count(Resolved, Cells)
             s == Cardinality(Selected) * Statistics
  <2>1. m \in Nat /\ c \in Nat /\ s \in Nat
    BY <1>2, PayloadAssumption, CountTyped, FiltersTyped, ResolvedIs DEF PayloadTyped
  <2>2. f = [rows |-> m * c, keyed |-> IndexColumns + s + GeoWidth, elements |-> 0, groups |-> {}]
    BY <1>4 DEF HdiCells
  <2> HIDE DEF m, c, s
  <2>3. m * c \in Nat /\ IndexColumns + s + GeoWidth \in Nat
    BY <1>1, <2>1 DEF IndexColumns
  <2> QED BY <2>2, <2>3 DEF FrameType
<1>5. ASSUME f \in HdiUnits \cup HdiJoined PROVE f \in FrameType
  <2>1. UnitFrame(Summed(Mask), Cardinality(Selected) * Statistics, 0) \in FrameType
    BY <1>2, UnitFrameTyped
  <2> QED BY <1>1, <1>5, <2>1 DEF HdiUnits, HdiJoined
<1>6. f \in SubsetFrame \/ f \in HdiCells \/ f \in HdiUnits \/ f \in HdiJoined
  BY DEF Frames, HdiFrame
<1> QED BY <1>3, <1>4, <1>5, <1>6

-------------------------------------------------------------------------------
(* The request *)

\* What was judged is still what is asked, and what is served is one of its frames.
PayloadInv ==
    /\ PayloadTyped /\ frame \in FrameType
    /\ stage \in {"received", "unprocessable", "parsed", "too large", "affordable", "failed", "served"}
    /\ stage \notin {"received", "unprocessable"} => query.months \in Filters(Months)
    /\ stage = "too large" => Cost(PayloadShape) > Budget
    /\ stage \in {"affordable", "failed", "served"} => ~(Cost(PayloadShape) > Budget)
    /\ stage = "served" => frame \in Frames

LEMMA PayloadInvInit == PayloadInit => PayloadInv
<1> SUFFICES ASSUME PayloadInit PROVE PayloadInv
  OBVIOUS
<1>1. PayloadTyped
  BY PayloadAssumption DEF PayloadInit, Queries, PayloadTyped, AskTyped
<1>2. frame \in FrameType
  BY DEF PayloadInit, NoFrame, FrameType
<1> QED BY <1>1, <1>2 DEF PayloadInit, PayloadInv

LEMMA AskStays ==
  ASSUME UNCHANGED <<dataset, query>>
  PROVE  /\ PayloadTyped' = PayloadTyped /\ Cost(PayloadShape)' = Cost(PayloadShape) /\ Frames' = Frames
<1>1. \A u : CellsOf(u)' = CellsOf(u)
  BY DEF CellsOf
<1>2. Resolved' = Resolved
  BY <1>1 DEF Resolved
<1>3. Mask' = Mask /\ NothingAsked' = NothingAsked /\ GeoWidth' = GeoWidth /\ Width' = Width
      /\ ValueColumns' = ValueColumns /\ Selected' = Selected /\ KnownTargets' = KnownTargets
      /\ KnownDraws' = KnownDraws
  BY <1>2 DEF Mask, NothingAsked, GeoWidth, Width, ValueColumns, Selected, KnownTargets, KnownDraws
<1>4. PayloadShape' = PayloadShape /\ SubsetRaises' = SubsetRaises /\ CellFrame(GeoWidth)' = CellFrame(GeoWidth)
  BY <1>3 DEF PayloadShape, SubsetRaises, CellFrame
<1>5. Summed(Mask)' = Summed(Mask)
  BY <1>3 DEF Summed
<1>6. SubsetFrame' = SubsetFrame
  BY <1>3, <1>4, <1>5 DEF SubsetFrame, DistributionsRaise, Distributions, UnitFrame
<1>7. HdiFrame' = HdiFrame
  BY <1>2, <1>3, <1>4, <1>5 DEF HdiFrame, HdiCells, HdiUnits, HdiJoined, UnitFrame, Count
<1>8. PayloadTyped' = PayloadTyped
  BY DEF PayloadTyped, AskTyped
<1> QED BY <1>4, <1>6, <1>7, <1>8 DEF Frames, Cost

LEMMA PayloadInvStep == PayloadInv /\ [PayloadNext]_payloadVars => PayloadInv'
<1> SUFFICES ASSUME PayloadInv, [PayloadNext]_payloadVars PROVE PayloadInv'
  OBVIOUS
<1>1. CASE Receive
  <2>1. query' = query \/ query' = [query EXCEPT !.entities = ParseStrings(@)]
    BY <1>1 DEF Receive
  <2>2. ParseStrings(query.entities) \in Filters(Cells) \cup Filters(Codes)
    BY DEF PayloadInv, PayloadTyped, AskTyped, ParseStrings, Filters
  <2>3. AskTyped'
    <3>1. CASE query' = query
      BY <3>1 DEF PayloadInv, PayloadTyped, AskTyped
    <3>2. CASE query' = [query EXCEPT !.entities = ParseStrings(@)]
      <4>1. PICK e : e = ParseStrings(query.entities)
        OBVIOUS
      <4>2. query' = [query EXCEPT !.entities = e] /\ e \in Filters(Cells) \cup Filters(Codes)
        BY <2>2, <3>2, <4>1
      <4> QED BY <4>2 DEF PayloadInv, PayloadTyped, AskTyped
    <3> QED BY <2>1, <3>1, <3>2
  <2>4. query'.months = query.months
    BY <2>1 DEF PayloadInv, PayloadTyped, AskTyped
  <2>5. stage' = "parsed" => query'.months \in Filters(Months)
    BY <1>1, <2>4 DEF Receive, PayloadInv, PayloadTyped, AskTyped
  <2> QED BY <1>1, <2>3, <2>5 DEF Receive, PayloadInv, PayloadTyped
<1>2. CASE Judge
  BY <1>2, AskStays DEF Judge, PayloadInv
<1>3. CASE Render
  <2>1. frame' \in FrameType
    BY <1>3, FramesTyped DEF Render, PayloadInv
  <2>2. stage' = "served" => frame' \in Frames
    BY <1>3 DEF Render
  <2> QED BY <1>3, <2>1, <2>2, AskStays DEF Render, PayloadInv
<1>4. CASE UNCHANGED payloadVars
  BY <1>4, AskStays DEF payloadVars, PayloadInv
<1> QED BY <1>1, <1>2, <1>3, <1>4 DEF PayloadNext

LEMMA PayloadTypes == PayloadInv => PayloadTypeOK
BY DEF PayloadInv, PayloadTyped, PayloadTypeOK, FrameType, Groups

\* The frame of cells has no more than was judged, and exactly that if no target is twice.
LEMMA CellFrameJudged ==
  ASSUME PayloadTyped
  PROVE  /\ ~NothingAsked => NoLarger(CellFrame(GeoWidth), PayloadShape)
         /\ ~NothingAsked /\ ~NamedTwice(query.columns.features) => CellFrame(GeoWidth) = PayloadShape
         /\ NothingAsked => Cost(PayloadShape) = 0 /\ Cost(CellFrame(GeoWidth)) = 0
         /\ Cost(CellFrame(GeoWidth)) <= Cost(PayloadShape)
<1> DEFINE n == Cardinality(Selected)
<1>1. /\ n \in Nat /\ ValueColumns \in Nat /\ Width \in Nat /\ n <= ValueColumns
      /\ ~NamedTwice(query.columns.features) => n = ValueColumns
  BY ColumnsTyped DEF PayloadTyped, AskTyped
<1>2. /\ PayloadShape \in FrameType /\ CellFrame(GeoWidth) \in FrameType /\ GeoWidth \in Nat
  BY CellFramesTyped
<1>3. Cardinality(Mask) \in Nat
  BY MaskIs
<1> HIDE DEF n
<1>4. ASSUME ~NothingAsked
      PROVE  /\ CellFrame(GeoWidth) = [rows |-> Cardinality(Mask), keyed |-> IndexColumns + n + GeoWidth,
                   elements |-> IF dataset.prediction THEN n * Width ELSE 0, groups |-> {}]
             /\ PayloadShape = [rows |-> Cardinality(Mask), keyed |-> IndexColumns + ValueColumns + GeoWidth,
                   elements |-> IF dataset.prediction THEN ValueColumns * Width ELSE 0, groups |-> {}]
  BY <1>4 DEF CellFrame, PayloadShape, n
<1>5. n * Width <= ValueColumns * Width /\ n * Width \in Nat /\ ValueColumns * Width \in Nat
  BY <1>1
<1>6. ASSUME ~NothingAsked PROVE NoLarger(CellFrame(GeoWidth), PayloadShape)
  BY <1>1, <1>2, <1>3, <1>4, <1>5, <1>6 DEF NoLarger, IndexColumns
<1>7. ASSUME NothingAsked PROVE Cost(PayloadShape) = 0 /\ Cost(CellFrame(GeoWidth)) = 0
  <2>1. PayloadShape = NoFrame /\ CellFrame(GeoWidth) = [NoFrame EXCEPT !.keyed = IndexColumns + GeoWidth]
    BY <1>7 DEF PayloadShape, CellFrame
  <2>2. IndexColumns + GeoWidth \in Nat
    BY <1>2 DEF IndexColumns
  <2>3. PICK k \in Nat : CellFrame(GeoWidth) = [rows |-> 0, keyed |-> k, elements |-> 0, groups |-> {}]
    BY <2>1, <2>2 DEF NoFrame
  <2> QED BY <2>1, <2>3 DEF Cost, NoFrame
<1>8. Cost(CellFrame(GeoWidth)) <= Cost(PayloadShape)
  <2>1. CASE NothingAsked
    BY <1>7, <2>1
  <2>2. CASE ~NothingAsked
    BY <1>2, <1>6, <2>2, CostMonotonic
  <2> QED BY <2>1, <2>2
<1> QED BY <1>1, <1>4, <1>6, <1>7, <1>8

\* Neither has the sum over the units of a level.
LEMMA SumJudged ==
  ASSUME PayloadTyped
  PROVE  Cost(Distributions) <= Cost(PayloadShape)
<1>1. Distributions \in FrameType /\ CellFrame(GeoWidth) \in FrameType /\ NoFrame \in FrameType
      /\ PayloadShape \in FrameType /\ GeoWidth \in Nat /\ Cardinality(Selected) \in Nat
      /\ Cardinality(Selected) * Width \in Nat
  <2>1. /\ CellFrame(GeoWidth) \in FrameType /\ NoFrame \in FrameType /\ PayloadShape \in FrameType
        /\ GeoWidth \in Nat /\ Cardinality(Selected) \in Nat /\ Cardinality(Selected) * Width \in Nat
    BY CellFramesTyped, ColumnsTyped DEF PayloadTyped, AskTyped
  <2>2. UnitFrame(Summed(Mask), Cardinality(Selected), IF dataset.prediction THEN Cardinality(Selected) * Width ELSE 0) \in FrameType
    BY <2>1, UnitFrameTyped
  <2> QED BY <2>1, <2>2 DEF Distributions
<1>2. CASE NothingAsked \/ Mask = {}
  <2>1. Distributions = NoFrame
    BY <1>2 DEF Distributions
  <2>2. NoLarger(NoFrame, PayloadShape)
    BY <1>1 DEF NoFrame, NoLarger, FrameType
  <2> QED BY <1>1, <2>1, <2>2, CostMonotonic
<1>3. CASE ~(NothingAsked \/ Mask = {})
  <2>1. Distributions = UnitFrame(Summed(Mask), Cardinality(Selected),
                                  IF dataset.prediction THEN Cardinality(Selected) * Width ELSE 0)
    BY <1>3 DEF Distributions
  <2>2. /\ Cardinality(Summed(Mask)) <= Cardinality(Mask)
        /\ Cardinality(Summed(Mask)) \in Nat /\ Cardinality(Mask) \in Nat
    BY MaskIs, SummedIs
  <2> DEFINE n == Cardinality(Selected)
             e == IF dataset.prediction THEN Cardinality(Selected) * Width ELSE 0
  <2>3. n \in Nat /\ e \in Nat
    BY <1>1
  <2>4. CellFrame(GeoWidth) = [rows |-> Cardinality(Mask), keyed |-> IndexColumns + n + GeoWidth,
                               elements |-> e, groups |-> {}]
    BY <1>3 DEF CellFrame
  <2>5. Distributions = [rows |-> Cardinality(Summed(Mask)), keyed |-> IndexColumns + n,
                         elements |-> e, groups |-> Summed(Mask)]
    BY <2>1 DEF UnitFrame
  <2> HIDE DEF n, e
  <2>6. NoLarger(Distributions, CellFrame(GeoWidth))
    BY <1>1, <2>2, <2>3, <2>4, <2>5 DEF NoLarger, IndexColumns
  <2>7. Cost(Distributions) <= Cost(CellFrame(GeoWidth)) /\ Cost(Distributions) \in Nat
    BY <1>1, <2>6, CostMonotonic
  <2>8. Cost(CellFrame(GeoWidth)) <= Cost(PayloadShape)
    BY CellFrameJudged
  <2>9. Cost(CellFrame(GeoWidth)) \in Nat /\ Cost(PayloadShape) \in Nat
    <3>1. \A f \in FrameType : NoLarger(f, f)
      BY DEF NoLarger, FrameType
    <3> QED BY <1>1, <3>1, CostMonotonic
  <2> QED BY <2>7, <2>8, <2>9
<1> QED BY <1>2, <1>3

LEMMA AllIsNoList == All # <<>> /\ ToSet(<<>>) = {}
<1>1. <<>> \in Seq(Cells) /\ DOMAIN <<>> = {}
  OBVIOUS
<1>2. ToSet(<<>>) = {}
  BY <1>1 DEF ToSet
<1> QED BY <1>1, <1>2, PayloadAssumption

\* A row of the hdi-map of cells for each month and cell named.
LEMMA HdiCellsJudged ==
  ASSUME PayloadTyped, query.months \in Filters(Months), NEW f \in HdiCells,
         ~NamedTwice(query.months), ~NamedTwice(Resolved)
  PROVE  f.rows <= PayloadShape.rows
<1>1. ASSUME NEW filter \in Seq(Names) \cup {All}, NEW S, IsFiniteSet(S),
             filter = All \/ ToSet(filter) \subseteq S, ~NamedTwice(filter)
      PROVE  Count(filter, S) = Cardinality(Wanted(filter, S)) /\ Count(filter, S) \in Nat
  <2>1. CASE filter = All
    BY <1>1, <2>1, FS_CardinalityType DEF Count, Wanted
  <2>2. CASE filter # All
    <3>1. IsInjective(filter) /\ Wanted(filter, S) = ToSet(filter) /\ filter \in Seq(Names)
      BY <1>1, <2>2 DEF NamedTwice, Wanted
    <3>2. Cardinality(ToSet(filter)) = Len(filter) /\ Len(filter) \in Nat
      BY <3>1, MembersCounted
    <3> QED BY <2>2, <3>1, <3>2 DEF Count
  <2> QED BY <2>1, <2>2
<1>2. query.months \in Seq(Names) \cup {All} /\ Resolved \in Seq(Names) \cup {All}
  BY FiltersTyped, ResolvedIs DEF PayloadTyped
<1>3. /\ query.months = All \/ ToSet(query.months) \subseteq Months
      /\ Resolved = All \/ ToSet(Resolved) \subseteq Cells
      /\ f.rows = Count(query.months, Months) * Count(Resolved, Cells)
  BY DEF HdiCells
<1>4. f.rows = Cardinality(Mask) /\ Count(query.months, Months) \in Nat /\ Count(Resolved, Cells) \in Nat
  BY <1>1, <1>2, <1>3, PayloadAssumption, MaskIs
<1>5. CASE NothingAsked
  <2>1. All # <<>>
    BY AllIsNoList
  <2>2. Count(query.months, Months) = 0 \/ Count(Resolved, Cells) = 0
    BY <1>5, <2>1 DEF NothingAsked, Count
  <2>3. f.rows = 0 /\ PayloadShape.rows = 0
    BY <1>3, <1>4, <1>5, <2>2 DEF PayloadShape, NoFrame
  <2> QED BY <2>3
<1>6. CASE ~NothingAsked
  <2>1. PayloadShape.rows = Cardinality(Mask)
    BY <1>6 DEF PayloadShape
  <2> QED BY <1>4, <2>1, MaskIs
<1> QED BY <1>5, <1>6

\* Nothing asked, nothing masked.
LEMMA EmptyMask == NothingAsked => Mask = {}
<1> SUFFICES ASSUME NothingAsked PROVE Mask = {}
  OBVIOUS
<1>1. All # <<>> /\ ToSet(<<>>) = {}
  BY AllIsNoList
<1>2. Wanted(query.months, Months) = {} \/ Wanted(Resolved, Cells) = {}
  BY <1>1 DEF NothingAsked, Wanted
<1> QED BY <1>2 DEF Mask

LEMMA GuardHolds == PayloadInv => GuardBoundsPayload
<1> SUFFICES ASSUME PayloadInv PROVE GuardBoundsPayload
  OBVIOUS
<1>0. PayloadTyped /\ Budget \in Nat
  BY PayloadAssumption DEF PayloadInv
<1>1. ASSUME stage = "too large"
      PROVE  Cost(CellFrame(GeoWidth)) > Budget \/ NamedTwice(query.columns.features)
  <2>1. Cost(PayloadShape) > Budget
    BY <1>1 DEF PayloadInv
  <2>2. ~NothingAsked
    BY <1>0, <2>1, CellFrameJudged
  <2> QED BY <1>0, <2>1, <2>2, CellFrameJudged
<1>2. Cost(CellFrame(GeoWidth)) \in Nat /\ Cost(PayloadShape) \in Nat /\ Cost(Distributions) \in Int
  <2>1. \A f \in FrameType : NoLarger(f, f)
    BY DEF NoLarger, FrameType
  <2>2. CellFrame(GeoWidth) \in FrameType /\ PayloadShape \in FrameType /\ NoFrame \in FrameType
        /\ Cardinality(Selected) \in Nat /\ Cardinality(Selected) * Width \in Nat
    BY <1>0, CellFramesTyped, ColumnsTyped DEF PayloadTyped, AskTyped
  <2>3. UnitFrame(Summed(Mask), Cardinality(Selected), IF dataset.prediction THEN Cardinality(Selected) * Width ELSE 0) \in FrameType
    BY <2>2, UnitFrameTyped
  <2>4. Distributions \in FrameType
    BY <2>2, <2>3 DEF Distributions
  <2>5. Cost(Distributions) \in Nat
    BY <2>1, <2>4, CostMonotonic
  <2> QED BY <2>1, <2>2, <2>5, CostMonotonic
<1>3. ASSUME stage = "served", query.route = "subset"
      PROVE  Cost(CellFrame(GeoWidth)) <= Budget /\ Cost(frame) <= Budget
  <2>1. ~(Cost(PayloadShape) > Budget) /\ frame \in SubsetFrame
    BY <1>3 DEF PayloadInv, Frames
  <2>2. frame = Distributions \/ frame = CellFrame(GeoWidth)
    BY <2>1 DEF SubsetFrame
  <2>3. Cost(CellFrame(GeoWidth)) <= Cost(PayloadShape) /\ Cost(Distributions) <= Cost(PayloadShape)
    BY <1>0, CellFrameJudged, SumJudged
  <2> QED BY <1>0, <1>2, <2>1, <2>2, <2>3
<1>4. ASSUME stage = "served", query.route = "hdi-map"
      PROVE  frame.rows <= PayloadShape.rows \/ NamedTwice(query.months) \/ NamedTwice(Resolved)
  <2>1. frame \in HdiFrame /\ query.months \in Filters(Months)
    BY <1>4 DEF PayloadInv, Frames
  <2>2. CASE frame \in HdiCells
    BY <1>0, <2>1, <2>2, HdiCellsJudged
  <2>3. CASE frame \in HdiUnits \cup HdiJoined
    <3>1. frame = NoFrame \/ frame.rows = Cardinality(Summed(Mask))
      BY <2>3 DEF HdiUnits, HdiJoined, UnitFrame
    <3>2. Cardinality(Summed(Mask)) <= Cardinality(Mask) /\ Cardinality(Mask) \in Nat
      BY MaskIs, SummedIs
    <3>3. CASE NothingAsked
      <4>1. Cardinality(Mask) = 0 /\ PayloadShape.rows = 0 /\ NoFrame.rows = 0
        BY <3>3, EmptyMask, FS_EmptySet DEF PayloadShape, NoFrame
      <4> QED BY <3>1, <3>2, <4>1
    <3>4. CASE ~NothingAsked
      <4>1. PayloadShape.rows = Cardinality(Mask) /\ NoFrame.rows = 0
        BY <3>4 DEF PayloadShape, NoFrame
      <4> QED BY <3>1, <3>2, <4>1
    <3> QED BY <3>3, <3>4
  <2> QED BY <2>1, <2>2, <2>3 DEF HdiFrame
<1> QED BY <1>1, <1>3, <1>4 DEF GuardBoundsPayload

\* For every dataset, query and budget: a subset that is served is within the budget, and one
\* that is refused would exceed it unless a target is named twice; an hdi-map has no more rows
\* than were judged, unless a month or a cell is named twice.
THEOREM GuardBoundsPayloadHolds == PayloadSpec => []GuardBoundsPayload
BY PayloadInvInit, PayloadInvStep, GuardHolds, PTL DEF PayloadSpec

\* The groups of an answer that is summed are those of the selection.
LEMMA GroupsServed ==
  ASSUME PayloadInv, stage = "served", query.aggregate, ~NothingAsked
  PROVE  frame.groups = Summed(Mask) /\ query.level # "pg"
<1>1. frame \in Frames
  BY DEF PayloadInv
<1>2. CASE frame \in SubsetFrame
  <2>1. frame = Distributions /\ query.level # "pg"
    BY <1>2 DEF SubsetFrame
  <2>2. CASE Mask = {}
    <3>1. Summed(Mask) = {}
      BY <2>2 DEF Summed
    <3> QED BY <2>1, <2>2, <3>1 DEF Distributions, NoFrame
  <2>3. CASE Mask # {}
    BY <2>1, <2>3 DEF Distributions, UnitFrame
  <2> QED BY <2>1, <2>2, <2>3
<1>3. CASE frame \in HdiFrame
  <2>1. query.level # "pg" /\ frame \in HdiUnits \cup HdiJoined
    BY <1>3 DEF HdiFrame
  <2> QED BY <2>1 DEF HdiUnits, HdiJoined, UnitFrame
<1> QED BY <1>1, <1>2, <1>3 DEF Frames

LEMMA UnitsHold == PayloadInv => UnitsWhole
<1> SUFFICES ASSUME PayloadInv, stage = "served", query.aggregate, ~NothingAsked
             PROVE  /\ \A g \in frame.groups :
                          IF Asked(g.unit) THEN g.cells = {c \in Cells : dataset.code[g.month, c] = g.unit}
                          ELSE \E c \in g.cells : Moves(c)
                    /\ \A t \in Wanted(query.months, Months), u \in Codes :
                          Asked(u) /\ (\E c \in Cells : dataset.code[t, c] = u)
                              => \E g \in frame.groups : g.month = t /\ g.unit = u
  BY DEF UnitsWhole
<1> DEFINE At(t, c) == dataset.code[t, c]
           W == Wanted(query.months, Months)
           V == Wanted(Resolved, Cells)
<1>1. frame.groups = Summed(Mask) /\ query.level # "pg" /\ AskTyped
  BY GroupsServed DEF PayloadInv, PayloadTyped
<1>2. /\ Summed(Mask) \subseteq Groups
      /\ \A g \in Summed(Mask) : g.cells = CellsIn(Mask, g.month, g.unit) /\ g.cells # {}
      /\ \A t \in Months, u \in Codes : CellsIn(Mask, t, u) # {}
             => \E g \in Summed(Mask) : g.month = t /\ g.unit = u
  BY MaskIs, SummedIs
<1>3. \A u : CellsOf(u) = {c \in Cells : \E t \in Months : At(t, c) = u}
  BY DEF CellsOf
<1>4. \A t, u : CellsIn(Mask, t, u) = {c \in Cells : t \in W /\ c \in V /\ At(t, c) = u}
  BY DEF CellsIn, Mask
<1>5. /\ query.entities = All => V = Cells
      /\ query.entities # All => \A c \in Cells : c \in V <=> \E u \in ToSet(query.entities) : c \in CellsOf(u)
  <2>1. CASE query.entities = All
    <3>1. Resolved = All
      BY <1>1, <2>1, ResolvedIs
    <3> QED BY <2>1, <3>1 DEF Wanted
  <2>2. CASE query.entities # All
    <3>1. Resolved # All /\ ToSet(Resolved) = UNION {CellsOf(u) : u \in ToSet(query.entities)}
      BY <1>1, <2>2, ResolvedIs
    <3>2. V = Cells \cap ToSet(Resolved)
      BY <3>1 DEF Wanted
    <3> QED BY <2>2, <3>1, <3>2
  <2> QED BY <2>1, <2>2
<1>6. W \subseteq Months
  BY PayloadAssumption, WantedIn
<1>7. \A c : Moves(c) <=> ~\E u \in Codes \cup {NoCode} : \A t \in Months : At(t, c) = u
  BY DEF Moves
<1>8. \A u : Asked(u) <=> query.entities = All \/ u \in ToSet(query.entities)
  BY DEF Asked
<1> HIDE DEF At, W, V
<1>9. ASSUME NEW t \in W, NEW u, Asked(u), NEW c \in Cells, At(t, c) = u PROVE c \in V
  <2>1. CASE query.entities = All
    BY <1>5, <2>1
  <2>2. CASE query.entities # All
    <3>1. u \in ToSet(query.entities)
      BY <1>8, <1>9, <2>2
    <3>2. c \in CellsOf(u)
      BY <1>3, <1>6, <1>9
    <3> QED BY <1>5, <2>2, <3>1, <3>2
  <2> QED BY <2>1, <2>2
<1>10. ASSUME NEW g \in Summed(Mask), Asked(g.unit)
       PROVE  g.cells = {c \in Cells : At(g.month, c) = g.unit}
  <2>1. g.cells = CellsIn(Mask, g.month, g.unit) /\ g.cells # {}
    BY <1>2
  <2>2. g.month \in W
    BY <1>4, <2>1
  <2> QED BY <1>4, <1>9, <1>10, <2>1, <2>2
<1>11. ASSUME NEW g \in Summed(Mask), ~Asked(g.unit)
       PROVE  \E c \in g.cells : Moves(c)
  <2>1. g.cells = CellsIn(Mask, g.month, g.unit) /\ g.cells # {}
    BY <1>2
  <2>2. PICK c \in Cells : c \in g.cells /\ g.month \in W /\ c \in V /\ At(g.month, c) = g.unit
    BY <1>4, <2>1
  <2>3. query.entities # All /\ g.unit \notin ToSet(query.entities)
    BY <1>8, <1>11
  <2>4. PICK u \in ToSet(query.entities) : c \in CellsOf(u)
    BY <1>5, <2>2, <2>3
  <2>5. PICK t \in Months : At(t, c) = u
    BY <1>3, <2>4
  <2>6. u # g.unit /\ g.month \in Months
    BY <1>6, <2>2, <2>3, <2>4
  <2>7. Moves(c)
    BY <1>7, <2>2, <2>5, <2>6
  <2> QED BY <2>2, <2>7
<1>12. ASSUME NEW t \in W, NEW u \in Codes, Asked(u), NEW c \in Cells, At(t, c) = u
       PROVE  \E g \in Summed(Mask) : g.month = t /\ g.unit = u
  <2>1. c \in CellsIn(Mask, t, u)
    BY <1>4, <1>9, <1>12
  <2> QED BY <1>2, <1>6, <2>1
<1>13. \A g \in frame.groups :
          IF Asked(g.unit) THEN g.cells = {c \in Cells : dataset.code[g.month, c] = g.unit}
          ELSE \E c \in g.cells : Moves(c)
  BY <1>1, <1>10, <1>11, Zenon DEF At
<1>14. \A t \in Wanted(query.months, Months), u \in Codes :
          Asked(u) /\ (\E c \in Cells : dataset.code[t, c] = u)
              => \E g \in frame.groups : g.month = t /\ g.unit = u
  <2> SUFFICES ASSUME NEW t \in Wanted(query.months, Months), NEW u \in Codes, Asked(u),
                      NEW c \in Cells, dataset.code[t, c] = u
               PROVE  \E g \in frame.groups : g.month = t /\ g.unit = u
    BY Zenon
  <2>1. At(t, c) = u
    BY Zenon DEF At
  <2>2. t \in W
    BY Zenon DEF W
  <2>3. \E g \in Summed(Mask) : g.month = t /\ g.unit = u
    BY <1>12, <2>1, <2>2
  <2> QED BY <1>1, <2>3
<1> QED BY <1>13, <1>14

\* Every sum that is served is over all cells of its unit, whichever of the three
\* implementations served it, for every geography.
THEOREM UnitsWholeHolds == PayloadSpec => []UnitsWhole
BY PayloadInvInit, PayloadInvStep, UnitsHold, PTL DEF PayloadSpec

-------------------------------------------------------------------------------
(* The parts together *)

ApiInv == DepInv /\ LineageInv /\ (part = "payload" => PayloadInv)

LEMMA ApiInvInit == MCInit => ApiInv
BY DepInvInit, LineageInvInit, PayloadInvInit DEF MCInit, ApiInv

LEMMA ApiInvStep == ApiInv /\ [MCNext]_vars => ApiInv'
<1> SUFFICES ASSUME ApiInv, [MCNext]_vars PROVE ApiInv'
  OBVIOUS
<1>1. /\ [DependenciesNext]_depVars /\ [LineageNext]_lineageVars /\ part' = part
      /\ part = "payload" => [PayloadNext]_payloadVars
  BY DEF MCNext, Answered, vars
<1> QED BY <1>1, DepInvStep, LineageInvStep, PayloadInvStep DEF ApiInv

\* Whatever the requests are, the variables of the API keep their types.
THEOREM ApiTyped == MCSpec => []ApiTypeOK
<1>1. ApiInv => ApiTypeOK
  BY PayloadTypes DEF ApiInv, ApiTypeOK, DepInv, CacheInv, Typed, DependenciesTypeOK, LineageInv
<1> QED BY <1>1, ApiInvInit, ApiInvStep, PTL DEF MCSpec
=================================================================================
