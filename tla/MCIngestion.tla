------------------------------ MODULE MCIngestion ------------------------------
(* The ingests for TLC, one part of a behaviour's model at a time: workers that  *)
(* serve /historical, the streamer on every small artifact, the assembler on     *)
(* every small run.  A part's variables keep their value in the other parts.     *)
EXTENDS HistoricalServing, HistoricalStream, WireRunAssembly

VARIABLE part

Parts == {"one worker", "two workers", "stream", "assembly"}
vars == <<part, historicalVars, streamVars, assemblyVars>>

NoArtifact == [rows |-> <<>>, cuts |-> {}, columns |-> "as asked"]
NoRun == [shards |-> <<>>, months |-> 0, cells |-> 1, targets |-> {}]

MCInit ==
    /\ part \in Parts
    /\ HistoricalInit /\ (part \in {"stream", "assembly"} => uploaded = 0)
    /\ IF part = "stream" THEN StreamInit
       ELSE artifact = NoArtifact /\ row = 0 /\ verdict = "opening"
    /\ IF part = "assembly" THEN AssemblyInit
       ELSE /\ run = NoRun /\ shards = <<>> /\ done = -1 /\ store = <<>> /\ width = 0
            /\ state = "opening"

\* Two workers race on the disk; one worker meets everything else that can happen.
Idle(w) == ask'[w].at = "idle" /\ entry'[w] = Absent /\ phase'[w] = "ready"
OneWorker == HistoricalNext /\ \E w \in Workers : \A u \in Workers \ {w} : Idle(u)
TwoWorkers ==
    /\ HistoricalNext
    /\ now' = now /\ quarantined' = quarantined /\ crashes' = crashes

MCNext ==
    /\ \/ part = "one worker" /\ OneWorker /\ UNCHANGED <<streamVars, assemblyVars>>
       \/ part = "two workers" /\ TwoWorkers /\ UNCHANGED <<streamVars, assemblyVars>>
       \/ part = "stream" /\ StreamNext /\ UNCHANGED <<historicalVars, assemblyVars>>
       \/ part = "assembly" /\ AssemblyNext /\ UNCHANGED <<historicalVars, streamVars>>
    /\ UNCHANGED part

MCSpec == MCInit /\ [][MCNext]_vars

Symmetry == Permutations(Workers)
===============================================================================
