---------------------------- MODULE WireRunAssembly ----------------------------
(***************************************************************************)
(* The assembly of a forecast run (DatasetService._load_wire_run and        *)
(* forecast/ingestion/wire_reader.py): the run manifest lists one shard per *)
(* target and month; the shards are downloaded month by month, and          *)
(* WireRunAssembler appends each month to a value directory.                *)
(*                                                                          *)
(* build_dataset assembles any list of shards at once.  The assembler calls *)
(* it on one month at a time, and is to store what one call on the whole    *)
(* run would have returned: that call is stated below as the reference.     *)
(***************************************************************************)
EXTENDS Integers, FiniteSets, SequencesExt, GridOrder

CONSTANTS
    Targets, WireMonths, WireCells, \* targets, months and cells the producer forecasts
    SampleCounts,         \* draws per cell that occur
    MaxShards,            \* bound: shards of a run
    Capacity              \* largest working set of a month, in units of one draw

ASSUME AssemblyAssumption ==
    /\ WireMonths \cup WireCells \cup {MaxShards, Capacity} \subseteq Nat
    /\ SampleCounts \subseteq Nat \ {0}
    /\ IsFiniteSet(Targets) /\ IsFiniteSet(WireMonths) /\ IsFiniteSet(WireCells)

\* An unread shard has no rows.
Shard == [time : WireMonths, cells : BoundedSeq(WireCells, Cardinality(WireCells)), samples : SampleCounts]
Unread == [time |-> 0, cells |-> <<>>, samples |-> 0]

VARIABLES
    run,    \* the manifest: its shards, the months and the cells it expects, its targets
    shards, \* shards[i]: what the i-th shard holds, or Unread
    done,   \* the last month appended, -1 before the first
    store,  \* the rows appended to the value directory
    width,  \* the draws per row it is allocated for, 0 before the first month
    state   \* "opening", "reading", "assembled" or "refused"

assemblyVars == <<run, shards, done, store, width, state>>

Entries == DOMAIN run.shards
TargetOf(i) == run.shards[i].target
MonthOf(i) == run.shards[i].month

\* Of MaxShards shards, those that list no target and month twice; of fewer, all.
Listings(n) == {l \in [1..n -> [target : Targets, month : WireMonths]] : n = MaxShards => IsInjective(l)}

AssemblyInit ==
    /\ \E n \in 0..MaxShards :
        /\ run \in [shards : Listings(n), months : 0..Cardinality(WireMonths),
                    cells : 1..Cardinality(WireCells), targets : {{}, Targets}]
        /\ shards = [i \in 1..n |-> Unread]
    /\ done = -1 /\ store = <<>> /\ width = 0 /\ state = "opening"

Refuse == state' = "refused" /\ UNCHANGED <<run, shards, done, store, width>>

-------------------------------------------------------------------------------
(* build_dataset, of the shards I as read *)

Keys(read, i) == {<<read[i].time, c>> : c \in Range(read[i].cells)}

\* The checks of its loop over the shards.
LoopAccepts(read, I) ==
    /\ \A i \in I : Len(read[i].cells) = run.cells /\ IsInjective(read[i].cells)
    /\ \A i, j \in I :
        /\ read[i].samples = read[j].samples
        /\ i # j /\ TargetOf(i) = TargetOf(j) => Keys(read, i) \cap Keys(read, j) = {}

Rows(I) == UNION {Keys(shards, i) : i \in I}
CellsAt(I, t) == {r[2] : r \in {k \in Rows(I) : k[1] = t}}
CellsOf(I) == {r[2] : r \in Rows(I)}
TimesOf(I) == {r[1] : r \in Rows(I)}

\* Its constructor refuses a last month that lacks a cell (C-87).  The sidecar's coverage
\* and geography are those of the cells, whichever months they are in.
BuildAccepts(I) ==
    /\ I # {} /\ LoopAccepts(shards, I)
    /\ CellsAt(I, Max(TimesOf(I))) = CellsOf(I)

\* Targets in the order in which the shards I of the manifest first name them.
Columns(I) ==
    LET first == {i \in I : \A j \in I : TargetOf(j) = TargetOf(i) => i <= j}
    IN  [k \in 1..Cardinality(first) |-> TargetOf(Ascending(first)[k])]

\* The shard a row has its draws of target t from; 0 where they are filled with zeros.
Source(I, t, row) ==
    LET from == {i \in I : TargetOf(i) = t /\ row \in Keys(shards, i)}
    IN  IF from = {} THEN 0 ELSE CHOOSE i \in from : TRUE

\* The dense grid, sorted, with these columns.
Built(I, columns) ==
    LET grid == SortedIndex(TimesOf(I) \X CellsOf(I))
    IN  [k \in DOMAIN grid |->
            [key |-> grid[k], draws |-> [c \in DOMAIN columns |-> Source(I, columns[c], grid[k])]]]

-------------------------------------------------------------------------------
(* The assembler *)

Pending == {i \in Entries : MonthOf(i) > done}
Current == {i \in Pending : \A j \in Pending : MonthOf(i) <= MonthOf(j)}
NextShard == Min({i \in Current : shards[i] = Unread})

\* The column order of the whole run.
Vars == Columns(Entries)

OpenRun ==
    /\ state = "opening"
    /\ IF run.months = 0 THEN Refuse
       ELSE state' = "reading" /\ UNCHANGED <<run, shards, done, store, width>>

\* Mutant: the draws are not counted.
WithinCapacityByCell(samples) == Cardinality(run.targets) * run.cells <= Capacity

\* _guard_run_capacity, on the first shard read.
WithinCapacity(samples) ==
    run.targets = {} \/ Cardinality(run.targets) * run.cells * samples <= Capacity

\* The next shard of the month, in the order of the manifest.
ReadShard ==
    /\ state = "reading" /\ \E i \in Current : shards[i] = Unread
    /\ \E shard \in Shard :
        LET read == [shards EXCEPT ![NextShard] = shard]
            month == {i \in Current : read[i] # Unread}
        IN  IF /\ LoopAccepts(read, month)
               /\ (\A i \in Entries : shards[i] = Unread) => WithinCapacity(shard.samples)
            THEN shards' = read /\ UNCHANGED <<run, done, store, width, state>>
            ELSE Refuse

\* A download fails, a hash, header, sample order or value is wrong, or the sidecar does not
\* cover the month or has implausible geography.
RejectRun ==
    /\ state = "reading" /\ Current # {}
    /\ Refuse

\* numpy repeats a single draw over the allocated width.
Draws(I) == shards[Min(I)].samples
Fits(draws) == width = 0 \/ draws = width \/ draws = 1

\* Mutant: the rows of a month are not counted.
OneMonthUncounted(block) == TRUE

OneMonth(block) == Len(block) = run.cells

\* Mutant: a month need not have the cells of the months before it.
AnyCells == TRUE

\* Rectangular: the cells of every month are those of the first.
SameCells == store = <<>> \/ CellsOf(Current) = {store[k].key[2] : k \in DOMAIN store}

AppendMonth ==
    /\ state = "reading" /\ Current # {} /\ \A i \in Current : shards[i] # Unread
    /\ LET block == Built(Current, Vars)
       IN  IF /\ BuildAccepts(Current)
              /\ Range(Columns(Current)) = Range(Vars)
              /\ SameCells /\ OneMonth(block) /\ Fits(Draws(Current))
           THEN /\ store' = store \o block
                /\ width' = IF width = 0 THEN Draws(Current) ELSE width
                /\ done' = MonthOf(Min(Current))
                /\ UNCHANGED <<run, shards, state>>
           ELSE Refuse

Finalize ==
    /\ state = "reading" /\ Pending = {}
    /\ IF width > 0 /\ Len(store) = run.months * run.cells
       THEN state' = "assembled" /\ UNCHANGED <<run, shards, done, store, width>>
       ELSE Refuse

AssemblyNext == OpenRun \/ ReadShard \/ RejectRun \/ AppendMonth \/ Finalize
AssemblySpec == AssemblyInit /\ [][AssemblyNext]_assemblyVars

-------------------------------------------------------------------------------
(* Properties *)

\* The rows of a shard are those of the month the manifest lists it under, and all shards
\* have as many draws.  Neither is compared across months by the assembler.
AsDeclared == \A i \in Entries : shards[i].time = MonthOf(i) /\ shards[i].samples = width

\* Month by month gives what the whole-run build_dataset gives: an assembled run whose shards are
\* as declared is one it accepts, with the same rows, columns and draws in the same order
\* (wire_reader.py:323,
\* "the on-disk layout equals the whole-run to_value").
AssembledAsWhole ==
    state = "assembled" /\ AsDeclared =>
        BuildAccepts(Entries) /\ store = Built(Entries, Columns(Entries))

\* Of a run that is served no draw was made up: every cell of every month has its draws
\* of every target from a shard, and there are as many months as the manifest expects.
NothingFilled ==
    state = "assembled" =>
        /\ \A k \in DOMAIN store : 0 \notin Range(store[k].draws)
        /\ AsDeclared => Cardinality(TimesOf(Entries)) = run.months

\* No month is assembled beyond the capacity bound, which is guarded once, on the first
\* shard, if the manifest names the run's targets (dataset_service.py:785).
MonthsWithinCapacity ==
    width > 0 /\ Range(Vars) \subseteq run.targets => Len(Vars) * run.cells * width <= Capacity

===============================================================================
