------------------------------ MODULE MCAppwrite ------------------------------
(* The Appwrite layer for TLC, one part of a behaviour's model at a time: clients   *)
(* that upload from paths, delete and search; clients that upload from paths and    *)
(* from bytes, into a collection that is there; the cache of downloaded files.      *)
(* A part's variables keep their value in the other parts.                          *)
EXTENDS ArtifactStore, FileCache, TLC

VARIABLE part

Parts == {"predictions", "bytes", "cache"}
mcVars == <<part, vars, fileVars>>

MCInit ==
    /\ part \in Parts
    /\ Init /\ (part # "predictions" => shelf = Shelf /\ provisioning /\ allowUpdate)
    /\ FileCacheInit /\ (part # "cache" => \A f, g \in Files : nameOf[f] = nameOf[g])

Predictions == Next /\ \A c \in Clients : job'[c].kind # "bytes"
\* What is new in it is the search for a duplicate: no other call fails.
Bytes ==
    /\ Next
    /\ \A c \in Clients : pc'[c] \notin {"remove", "page"}
    /\ faults' # faults => \E c \in Clients : pc[c] \in {"dedup", "named"} /\ pc'[c] # pc[c]

MCNext ==
    \/ part = "predictions" /\ Predictions /\ UNCHANGED <<part, fileVars>>
    \/ part = "bytes" /\ Bytes /\ UNCHANGED <<part, fileVars>>
    \/ part = "cache" /\ FileCacheNext /\ UNCHANGED <<part, vars>>

MCSpec == MCInit /\ [][MCNext]_mcVars

\* The state of each part is what it should be.
AppwriteTypeOK == IF part = "cache" THEN FileCacheTypeOK ELSE TypeOK

\* Clients and managers are interchangeable, and so are contents, files and names; the
\* sets of one kind may be the same, as no part uses both.
Symmetry == Permutations(Clients) \cup Permutations(Holders) \cup Permutations(Contents)
              \cup Permutations(Files) \cup Permutations(Names)
===============================================================================
