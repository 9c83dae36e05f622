---------------------------- MODULE ApiDependencies ----------------------------
(***************************************************************************)
(* What a request goes through before and around its route (managers/api.py *)
(* and the timeout of managers/appwrite/manager.py).                        *)
(*                                                                          *)
(* The dependencies are plain functions, which FastAPI runs in a pool of    *)
(* threads; the routes are coroutines that never await, so they run one at  *)
(* a time on the event loop.  All threads share the cache of managers and   *)
(* the one function every SDK call is sent through, which each call wraps   *)
(* and puts back.                                                           *)
(***************************************************************************)
EXTENDS Naturals, Sequences, FiniteSets

CONSTANTS
    Threads,    \* requests being answered at the same time
    Keys,       \* API keys
    Capacity,   \* maxsize of _manager_cache, 100
    NoManager   \* None, as a manager or a key

ASSUME DependenciesAssumption ==
    NoManager \notin Keys /\ Capacity \in Nat \ {0}

VARIABLES
    managers,  \* _manager_cache, least recently used first
    wrapped,   \* whether requests.request, as the SDK sees it, is a _timed_request
    at,        \* at[t]: where thread t is
    request    \* request[t]: what it is doing

depVars == <<managers, wrapped, at, request>>

\* A manager is known by the key it was built with.
Entry == [key : Keys, appwrite : Keys, prediction : Keys \cup {NoManager}]
Needs == {"appwrite", "prediction"}

\* Of what a request carries, the last four only serve the properties: the other keys
\* used since it last looked its own up or stored it, whether it has done so yet (`in`
\* does not count), whether another request of its key stored a new entry meanwhile, and
\* whether another SDK call wrapped or put back the function since this one wrapped it.
Request == [key : Keys \cup {NoManager}, needs : SUBSET Needs, got : [Needs -> Keys \cup {NoManager}],
            why : {"validate", "route"}, saved : BOOLEAN, timed : BOOLEAN,
            reply : {"none", "ok", "refused", "failed"},
            used : SUBSET Keys, held : BOOLEAN, raced : BOOLEAN, mixed : BOOLEAN]
Places == {"idle", "check", "wrap", "patch", "send", "unwrap", "insert", "probe", "store", "fetch", "ready"}

NewRequest(k, needs) ==
    [key |-> k, needs |-> needs, got |-> [n \in Needs |-> NoManager], why |-> "validate",
     saved |-> FALSE, timed |-> TRUE, reply |-> "none",
     used |-> {}, held |-> FALSE, raced |-> FALSE, mixed |-> FALSE]

DependenciesInit ==
    /\ managers = <<>> /\ wrapped = FALSE
    /\ at = [t \in Threads |-> "idle"]
    /\ request = [t \in Threads |-> NewRequest(NoManager, {})]

-------------------------------------------------------------------------------
(* The LRU cache. *)

Cached(k) == \E i \in DOMAIN managers : managers[i].key = k
\* Mutant: what was used last is taken for what is asked for.
EntryOfNewest(k) == managers[Len(managers)]

Rank(k) == CHOOSE i \in DOMAIN managers : managers[i].key = k
EntryOf(k) == managers[Rank(k)]
Others(k) == IF ~Cached(k) THEN managers
             ELSE [i \in 1..Len(managers) - 1 |-> managers[IF i < Rank(k) THEN i ELSE i + 1]]
\* Mutant: the cache is not bounded.
TouchedUnbounded(e) == Append(Others(e.key), e)
\* Mutant: a lookup does not refresh an entry; the oldest one goes.
TouchedFifo(e) == IF Cached(e.key)
                  THEN [i \in DOMAIN managers |-> IF managers[i].key = e.key THEN e ELSE managers[i]]
                  ELSE Append(IF Len(managers) = Capacity THEN Tail(managers) ELSE managers, e)

\* An entry that is looked up or stored becomes the most recently used one; a new one
\* displaces the least recently used when the cache is full.
Touched(e) == LET others == Others(e.key)
              IN  Append(IF Len(others) = Capacity THEN Tail(others) ELSE others, e)

\* Thread t uses the entry of its key, and holds `mine` after it.
Use(t, mine) ==
    LET k == request[t].key
    IN  request' = [u \in Threads |->
                      IF u = t THEN [mine EXCEPT !.used = {}, !.held = TRUE]
                      ELSE IF request[u].key = k THEN request[u]
                      ELSE [request[u] EXCEPT !.used = @ \cup {k}]]

Goto(t, place) == at' = [at EXCEPT ![t] = place]
Answer(t, r) == /\ Goto(t, "idle")
                /\ request' = [request EXCEPT ![t] = [NewRequest(NoManager, {}) EXCEPT !.reply = r]]

-------------------------------------------------------------------------------
(* Dependencies, in the pool. *)

\* A request arrives; /health depends on both managers, the file routes on the first,
\* the data and provenance routes on the second.
Begin(t, k, needs) ==
    /\ at[t] = "idle" /\ Goto(t, "check")
    /\ request' = [request EXCEPT ![t] = NewRequest(k, needs)]
    /\ UNCHANGED <<managers, wrapped>>

\* The dependencies of a route are solved in turn, the Appwrite manager first.
Current(t) == IF "appwrite" \in request[t].needs THEN "appwrite" ELSE "prediction"
Looked(t) == IF Current(t) = "appwrite" THEN "fetch" ELSE "probe"

Check(t) ==
    /\ at[t] = "check"
    /\ Goto(t, IF Cached(request[t].key) THEN Looked(t) ELSE "wrap")
    /\ request' = [request EXCEPT ![t].why = "validate", ![t].used = {}, ![t].held = FALSE]
    /\ UNCHANGED <<managers, wrapped>>

\* The key is valid: a new entry, over any that another request stored meanwhile.
Insert(t) ==
    LET k == request[t].key
    IN  /\ at[t] = "insert" /\ Goto(t, Looked(t))
        /\ managers' = Touched([key |-> k, appwrite |-> k, prediction |-> NoManager])
        /\ request' = [u \in Threads |->
               IF u = t THEN [request[u] EXCEPT !.used = {}, !.held = TRUE]
               ELSE IF request[u].key = k THEN [request[u] EXCEPT !.raced = TRUE]
               ELSE [request[u] EXCEPT !.used = @ \cup {k}]]
        /\ UNCHANGED wrapped

\* self._manager_cache[api_key_hash]: a KeyError if the entry has gone since.
Lost(t, place) ==
    /\ at[t] = place /\ place \in {"probe", "store", "fetch"} /\ ~Cached(request[t].key)
    /\ Answer(t, "failed") /\ UNCHANGED <<managers, wrapped>>
Found(t, place, entry) ==
    /\ at[t] = place /\ Cached(request[t].key)
    /\ managers' = Touched(entry) /\ UNCHANGED wrapped

Probe(t) ==
    LET entry == EntryOf(request[t].key)
    IN  /\ Found(t, "probe", entry) /\ Use(t, request[t])
        /\ Goto(t, IF entry.prediction = NoManager THEN "store" ELSE "fetch")

\* The prediction manager is built and put into the entry; building it may fail.
Store(t) ==
    /\ Found(t, "store", [EntryOf(request[t].key) EXCEPT !.prediction = request[t].key])
    /\ Use(t, request[t]) /\ Goto(t, "fetch")
\* Mutant: a manager that could not be built is only logged.
UnbuiltIgnored(t) ==
    /\ at[t] = "store" /\ Goto(t, "fetch")
    /\ UNCHANGED <<managers, wrapped, request>>

Unbuilt(t) == at[t] = "store" /\ Answer(t, "failed") /\ UNCHANGED <<managers, wrapped>>

\* What the route is given is what the entry holds now.
Fetch(t) ==
    LET entry == EntryOf(request[t].key)
        need == Current(t)
        rest == request[t].needs \ {need}
    IN  /\ Found(t, "fetch", entry)
        /\ Use(t, [request[t] EXCEPT !.needs = rest, !.got[need] = entry[need]])
        /\ Goto(t, IF rest = {} THEN "ready" ELSE "check")

-------------------------------------------------------------------------------
(* An SDK call: client.call wraps the module's function, calls, and puts back what it
   found.  The pool makes one to check a key; a route makes its own on the event loop. *)

\* It saves the function it finds.
Save(t) ==
    /\ at[t] = "wrap" /\ Goto(t, "patch")
    /\ request' = [request EXCEPT ![t].saved = wrapped]
    /\ UNCHANGED <<managers, wrapped>>

\* Any other call under way sees the function change.
Patch(t, to, mine) ==
    /\ wrapped' = to /\ UNCHANGED managers
    /\ request' = [u \in Threads |-> IF u = t THEN mine ELSE [request[u] EXCEPT !.mixed = TRUE]]

\* Mutant: only the client that checks keys has its calls timed.
WrapValidation(t) ==
    /\ at[t] = "patch" /\ Goto(t, "send")
    /\ Patch(t, wrapped \/ request[t].why = "validate", [request[t] EXCEPT !.mixed = FALSE])

Wrap(t) ==
    /\ at[t] = "patch" /\ Goto(t, "send")
    /\ Patch(t, TRUE, [request[t] EXCEPT !.mixed = FALSE])

\* The function is looked up when the request is sent: without a wrapper, no timeout.
Send(t) ==
    /\ at[t] = "send" /\ Goto(t, "unwrap")
    /\ request' = [request EXCEPT ![t].timed = wrapped]
    /\ UNCHANGED <<managers, wrapped>>

\* The finally clause, and what follows: a key Appwrite rejects or does not answer for
\* is a 401; the answer of a route is its own.
Unwrap(t) ==
    LET mine == request[t]
        over(r) == /\ Goto(t, "idle")
                   /\ Patch(t, mine.saved, [NewRequest(NoManager, {}) EXCEPT !.reply = r])
    IN  /\ at[t] = "unwrap"
        /\ \/ /\ mine.why = "validate" /\ Goto(t, "insert")
              /\ Patch(t, mine.saved, [mine EXCEPT !.saved = FALSE, !.timed = TRUE])
           \/ mine.why = "validate" /\ over("refused")
           \/ mine.why = "route" /\ \E r \in {"ok", "failed"} : over(r)

\* The event loop takes up a request when it is between two routes.
OnLoop(t) == at[t] \in {"wrap", "patch", "send", "unwrap"} /\ request[t].why = "route"
Route(t) ==
    /\ at[t] = "ready" /\ \A u \in Threads : ~OnLoop(u)
    /\ IF \E n \in Needs : request[t].got[n] # NoManager
       THEN Goto(t, "wrap") /\ request' = [request EXCEPT ![t].why = "route"]
       ELSE Answer(t, "failed")
    /\ UNCHANGED <<managers, wrapped>>

-------------------------------------------------------------------------------
DependenciesNext ==
    \E t \in Threads :
        \/ \E k \in Keys, needs \in SUBSET Needs \ {{}} : Begin(t, k, needs)
        \/ Check(t) \/ Insert(t) \/ Probe(t) \/ Store(t) \/ Unbuilt(t) \/ Fetch(t)
        \/ \E place \in Places : Lost(t, place)
        \/ Route(t) \/ Save(t) \/ Wrap(t) \/ Send(t) \/ Unwrap(t)

DependenciesSpec == DependenciesInit /\ [][DependenciesNext]_depVars

-------------------------------------------------------------------------------
(* Types of the variables of api.py and of the requests under way. *)
DependenciesTypeOK ==
    /\ managers \in Seq(Entry) /\ Len(managers) <= Capacity
    /\ wrapped \in BOOLEAN
    /\ at \in [Threads -> Places]
    /\ request \in [Threads -> Request]

(* Whatever the pool interleaves and the cache evicts, a route is only ever handed
   managers built with the key of its own request (api.py:413-461). *)
TenantOwnManager ==
    \A t \in Threads, n \in Needs : request[t].got[n] \in {request[t].key, NoManager}

(* An entry a request has just used or stored is gone only after Capacity other keys were
   used, and one it has only seen after at least one was: a KeyError in a dependency
   (api.py:429, 446, 453, 461) needs that many callers between two statements. *)
EvictedOnlyByCapacity ==
    \A t \in Threads :
        at[t] \in {"probe", "store", "fetch"} /\ ~Cached(request[t].key) =>
            Cardinality(request[t].used) >= IF request[t].held THEN Capacity ELSE 1

(* A data or provenance route is handed None for a manager, and so fails, only if another
   first request of the same key stored its own new entry meanwhile (api.py:437-461). *)
UnbuiltOnlyIfRaced ==
    \A t \in Threads : at[t] = "ready" /\ request[t].got = [n \in Needs |-> NoManager]
                        => request[t].raced

(* A request is sent to Appwrite without a timeout only if another SDK call wrapped or
   put back the function in between: a call that runs alone always has its timeout,
   whatever was left behind by earlier ones (manager.py:58-88). *)
UntimedOnlyIfMixed == \A t \in Threads : request[t].timed \/ request[t].mixed

===============================================================================
