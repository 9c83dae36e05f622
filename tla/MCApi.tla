--------------------------------- MODULE MCApi ---------------------------------
(* The API for TLC, one part of a behaviour's model at a time: the dependencies of *)
(* a request, what the subset and hdi-map routes answer, and what is reported of   *)
(* the live forecast.  A part's variables keep their value in the other parts.     *)
EXTENDS ApiDependencies, ServedPayload, Lineage

\* A filter names everything, nothing, one of the values alone, twice or beside an unknown
\* one, or all of them; which one it is the datasets make up for.
Few(S) == LET a == CHOOSE x \in S : TRUE
          IN  {All, <<>>, <<Other>>, <<a>>, <<a, a>>, <<a, Other>>, SetToSeq(S)}
FewMonths == Few(Months)
FewCells == Few(Cells)
FewCodes == Few(Codes)
\* Targets and draws are not both filtered.
FewColumns == {[features |-> f, draws |-> All] : f \in {All, <<"sb">>, <<"sb", "sb">>, <<Other>>}}
                 \cup {[features |-> All, draws |-> d] : d \in {<<0>>, <<Draws>>}}

VARIABLE part

Parts == {"dependencies", "payload", "lineage"}
vars == <<part, depVars, payloadVars, lineageVars>>

MCInit ==
    /\ part \in Parts
    /\ DependenciesInit
    /\ IF part = "payload" THEN PayloadInit
       ELSE dataset = None /\ query = None /\ stage = "none" /\ frame = NoFrame
    /\ LineageInit /\ (part # "lineage" => ~legacy)

\* A query that was answered ends its part, so that a deadlock is one of the others.
Answered ==
    /\ part = "payload" /\ stage \in {"unprocessable", "too large", "failed", "served"}
    /\ UNCHANGED vars

MCNext ==
    \/ part = "dependencies" /\ DependenciesNext /\ UNCHANGED <<part, payloadVars, lineageVars>>
    \/ part = "payload" /\ PayloadNext /\ UNCHANGED <<part, depVars, lineageVars>>
    \/ Answered
    \/ part = "lineage" /\ LineageNext /\ UNCHANGED <<part, depVars, payloadVars>>

MCSpec == MCInit /\ [][MCNext]_vars

\* The state of each part is what it should be.
ApiTypeOK ==
    /\ DependenciesTypeOK /\ LineageTypeOK
    /\ part = "payload" => PayloadTypeOK

\* The threads are interchangeable, and so are the keys.
Symmetry == Permutations(Threads) \cup Permutations(Keys)
===============================================================================
