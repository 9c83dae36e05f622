--------------------------- MODULE HistoricalStream ---------------------------
(***************************************************************************)
(* stream_to_value (forecast/ingestion/historical_stream.py): a historical  *)
(* artifact is copied into a value directory one row group at a time, and   *)
(* only if the result is what the in-memory path would have built of it:    *)
(* ForecastDataset, which sorts the rows, fills the grid and backfills the  *)
(* geography.  That path is stated below as the reference, on whole         *)
(* artifacts.                                                               *)
(***************************************************************************)
EXTENDS Naturals, FiniteSets, SequencesExt, GridOrder

CONSTANTS
    Months, Cells, \* the month and PRIO-GRID ids that occur
    MaxRows        \* bound: rows of an artifact

ASSUME StreamAssumption == Months \cup Cells \cup {MaxRows} \subseteq Nat

\* The geography of a row: sound, without a country ("-99"), null, with an impossible
\* coordinate or with a malformed country code.
Geography == {"sound", "nocountry", "null", "coord", "iso"}
Row == [month : Months, cell : Cells, geo : Geography]

VARIABLES
    artifact, \* [rows, cuts, columns]: a row group ends after each row of cuts
    row,      \* rows streamed
    verdict   \* "opening", "streaming" or what stream_to_value ended with

streamVars == <<artifact, row, verdict>>

rows == artifact.rows

\* Whether the columns are the index, the geography and the targets, and nothing else,
\* is told apart on artifacts of one row.
Inputs(n) ==
    [rows : [1..n -> Row], cuts : SUBSET (1..n - 1),
     columns : IF n = 1 THEN {"as asked", "no index", "missing", "extra"} ELSE {"as asked"}]

StreamInit ==
    /\ \E n \in 0..MaxRows : artifact \in Inputs(n)
    /\ row = 0 /\ verdict = "opening"

-------------------------------------------------------------------------------
(* The streamer *)

End(v) == verdict' = v /\ UNCHANGED <<artifact, row>>

\* The schema and the row count of the footer.
OpenArtifact ==
    /\ verdict = "opening"
    /\ IF artifact.columns = "as asked" /\ rows # <<>> THEN End("streaming")
       ELSE End("not streamable")

GroupEnd == CHOOSE k \in artifact.cuts \cup {Len(rows)} :
    /\ k > row
    /\ \A j \in artifact.cuts : j > row => k <= j
Chunk == row + 1 .. GroupEnd

\* Months ascend within the group and from the row before it.
MonthsAscend ==
    \A i \in Chunk : i > 1 => rows[i - 1].month <= rows[i].month

\* Mutant: cells are compared within a row group only (CR-2).
CellsAscendWithin ==
    \A i \in Chunk : i > row + 1 /\ rows[i - 1].month = rows[i].month
        => rows[i - 1].cell < rows[i].cell

\* Cells ascend strictly within a month, across the seam of two groups as well.
CellsAscend ==
    \A i \in Chunk : i > 1 /\ rows[i - 1].month = rows[i].month
        => rows[i - 1].cell < rows[i].cell

\* Mutant: the code of no country is taken for a malformed one.
PlausibleByShape(i) == rows[i].geo \notin {"coord", "iso", "nocountry"}

\* assert_plausible_chunk.
Plausible(i) == rows[i].geo \notin {"coord", "iso"}

ReadGroup ==
    /\ verdict = "streaming" /\ row < Len(rows)
    /\ \/ ~(MonthsAscend /\ CellsAscend) /\ End("not streamable")
       \/ /\ MonthsAscend /\ CellsAscend
          /\ \E i \in Chunk : rows[i].geo = "null"
          /\ End("not streamable")
       \/ /\ MonthsAscend /\ CellsAscend
          /\ \A i \in Chunk : rows[i].geo # "null"
          /\ IF \A i \in Chunk : Plausible(i)
             THEN row' = GroupEnd /\ UNCHANGED <<artifact, verdict>>
             ELSE End("implausible")

Times == {rows[i].month : i \in DOMAIN rows}
Entities == {rows[i].cell : i \in DOMAIN rows}
LastMonth == Max(Times)
LastCells == {rows[i].cell : i \in {j \in DOMAIN rows : rows[j].month = LastMonth}}

Dense == Cardinality(Times) * Cardinality(Entities) = Len(rows)

Finish ==
    /\ verdict = "streaming" /\ row = Len(rows)
    /\ IF Dense /\ LastCells = Entities THEN End("streamed") ELSE End("not streamable")

StreamNext == OpenArtifact \/ ReadGroup \/ Finish
StreamSpec == StreamInit /\ [][StreamNext]_streamVars

-------------------------------------------------------------------------------
(* The in-memory path *)

Pairs == {<<rows[i].month, rows[i].cell>> : i \in DOMAIN rows}
Precedes(r, s) == Before(<<r.month, r.cell>>, <<s.month, s.cell>>)
\* Rows of one month and cell keep the order of the file.
Sorted(s) ==
    LET UpTo(i, j) == Precedes(s[i], s[j]) \/ (i <= j /\ ~Precedes(s[j], s[i]))
    IN  [k \in DOMAIN s |-> s[InOrder(DOMAIN s, UpTo)[k]]]

\* fill_dense_grid: every entity in every month.
Missing == {[month |-> p[1], cell |-> p[2], geo |-> "null"] : p \in (Times \X Entities) \ Pairs}
Filled == Sorted(rows \o SetToSeq(Missing))

\* ForecastDataset.__init__: an entity with a null row gets its first geography, in file
\* order, on all of its rows.
FirstKnown(c) ==
    LET known == {i \in DOMAIN rows : rows[i].cell = c /\ rows[i].geo # "null"}
    IN  IF known = {} THEN "null"
        ELSE rows[CHOOSE i \in known : \A j \in known : i <= j].geo
Backfilled(c) == \E i \in DOMAIN Filled : Filled[i].cell = c /\ Filled[i].geo = "null"
InMemory ==
    [i \in DOMAIN Filled |-> IF Backfilled(Filled[i].cell)
                             THEN [Filled[i] EXCEPT !.geo = FirstKnown(Filled[i].cell)] ELSE Filled[i]]

\* It raises when the last month lacks an entity (C-87), when it would reindex duplicate
\* rows, and on implausible geography; a malformed code stays in the categories of the
\* column even when every row that had it was backfilled.
Reindexed == Missing # {} \/ \E i, j \in DOMAIN rows : i < j /\ Precedes(rows[j], rows[i])
InMemoryAccepts ==
    /\ rows # <<>> /\ LastCells = Entities
    /\ Cardinality(Pairs) = Len(rows) \/ ~Reindexed
    /\ \A i \in DOMAIN InMemory : InMemory[i].geo # "coord"
    /\ \A i \in DOMAIN rows : rows[i].geo # "iso"

-------------------------------------------------------------------------------
(* Properties *)

\* A value directory is written only of an artifact the in-memory path would have
\* accepted, with the very rows and geography, in the order, that it would have produced
\* ("otherwise the value-dir would encode a row order the current code never produces").
StreamedAsSorted == verdict = "streamed" => InMemoryAccepts /\ InMemory = rows

\* An artifact is refused outright only when "the in-memory path would reach the same
\* verdict" (historical_stream.py:77): it does so unless the implausible row belongs to an
\* entity whose rows it overwrites, because one of them is null or missing.
RefusedUnlessBackfilled ==
    verdict = "implausible" =>
        ~InMemoryAccepts \/ \E i \in DOMAIN rows : rows[i].geo = "coord" /\ Backfilled(rows[i].cell)

===============================================================================
