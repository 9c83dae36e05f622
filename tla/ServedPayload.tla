---------------------------- MODULE ServedPayload ----------------------------
(***************************************************************************)
(* What the subset and hdi-map routes answer from a dataset (managers/      *)
(* api.py, data/handlers/forecast_dataset.py and grid_dataset.py): the      *)
(* filters are parsed, the size of the answer is judged before anything is  *)
(* built, and the frame is built, cell by cell or summed over the units of  *)
(* a level.                                                                 *)
(*                                                                          *)
(* A dataset is dense, and of a row's geography only its code at the level  *)
(* asked for counts.  The sum of a group is known by the cells summed.  The *)
(* level stands for `country`; the others differ in their parser and carry  *)
(* names along.  alpha lies between 0 and 1.                                *)
(***************************************************************************)
EXTENDS Integers, FiniteSets, SequencesExt

CONSTANTS
    Months, Cells, Codes, Targets,
    NoCode,     \* a row without a code at the level
    Other,      \* a month, cell, code or target the dataset does not have
    All,        \* None: no filter
    Bad,        \* a parameter that cannot be parsed
    Draws,      \* sample_size of a prediction dataset
    Budget,     \* _max_response_bytes
    MonthFilters, CellFilters, CodeFilters, ColumnFilters  \* bound: the filters asked for

\* A filter names what it likes, as often as it likes.
Filters(S) == Seq(S \cup {Other}) \cup {All}

\* A list of targets is not empty (parse_string_list_param); nor, here, is one of draws.
ASSUME PayloadAssumption ==
    /\ Draws \in Nat \ {0} /\ Budget \in Nat
    /\ IsFiniteSet(Months) /\ IsFiniteSet(Cells) /\ IsFiniteSet(Codes) /\ IsFiniteSet(Targets)
    /\ NoCode \notin Codes /\ Other \notin Months \cup Cells \cup Codes
    /\ All \notin Seq(Cells)
    /\ MonthFilters \subseteq Filters(Months)
    /\ CellFilters \subseteq Filters(Cells) /\ CodeFilters \subseteq Filters(Codes)
    /\ ColumnFilters \subseteq [features : Filters(Targets) \ {<<>>}, draws : Filters(Int) \ {<<>>}]

VARIABLES
    dataset,  \* what get_latest_dataset returned
    query,    \* what is asked of it
    stage,    \* how far the request got
    frame     \* what it is answered with

payloadVars == <<dataset, query, stage, frame>>

Rows == Months \X Cells
IndexColumns == 2
GeoColumns == 9

\* A prediction takes the geography of a cell from the sidecar, for all months.  A
\* historical artifact has it on every row, and a cell with a row that lacks it gets one
\* geography on all of its rows.
Static(code) == \A c \in Cells : \A t, u \in Months : code[t, c] = code[u, c]
Mixed(code) == \E c \in Cells : /\ \E t \in Months : code[t, c] = NoCode
                                /\ \E t \in Months : code[t, c] # NoCode
Datasets == {d \in [prediction : BOOLEAN, code : [Rows -> Codes \cup {NoCode}]] :
                /\ ~Mixed(d.code) /\ (d.prediction => Static(d.code))}

Queries ==
    {q \in [route : {"subset", "hdi-map"}, level : {"pg", "country"},
            months : MonthFilters \cup {Bad}, entities : CellFilters \cup CodeFilters,
            columns : ColumnFilters, metadata : BOOLEAN, aggregate : BOOLEAN] :
        q.entities \in IF q.level = "pg" THEN CellFilters ELSE CodeFilters}

NoFrame == [rows |-> 0, keyed |-> 0, elements |-> 0, groups |-> {}]

PayloadInit ==
    /\ dataset \in Datasets /\ query \in Queries
    /\ stage = "received" /\ frame = NoFrame

-------------------------------------------------------------------------------
(* Parameters *)

\* parse_string_list_param: nothing but commas is taken for no filter, unlike in
\* parse_list_param.
ParseStrings(p) == IF p = <<>> THEN All ELSE p

Receive ==
    /\ stage = "received"
    /\ IF query.months = Bad
       THEN stage' = "unprocessable" /\ query' = query
       ELSE /\ stage' = "parsed"
            /\ query' = IF query.level = "country"
                        THEN [query EXCEPT !.entities = ParseStrings(@)] ELSE query
    /\ UNCHANGED <<dataset, frame>>

-------------------------------------------------------------------------------
(* Selection *)

\* Mutant: the geography of the first month stands for all.
CellsOfFirst(u) == {c \in Cells : dataset.code[Min(Months), c] = u}

\* resolve_level_cells: the cells with that code in any month.
CellsOf(u) == {c \in Cells : \E t \in Months : dataset.code[t, c] = u}

\* The entity codes of a level are resolved to cells, one code after the other.
Resolved ==
    IF query.level = "pg" \/ query.entities = All THEN query.entities
    ELSE FlattenSeq([i \in DOMAIN query.entities |-> SetToSeq(CellsOf(query.entities[i]))])

Wanted(filter, S) == IF filter = All THEN S ELSE S \cap ToSet(filter)

\* _subset_mask: what the dataset does not have selects nothing.
Mask == Wanted(query.months, Months) \X Wanted(Resolved, Cells)

NothingAsked == query.months = <<>> \/ Resolved = <<>>

ValueColumns ==
    IF query.columns.features = All THEN Cardinality(Targets) ELSE Len(query.columns.features)

Width == IF query.columns.draws = All THEN Draws ELSE Len(query.columns.draws)

-------------------------------------------------------------------------------
(* The guard *)

\* estimate_records_bytes.
Cost(f) == f.rows * (f.keyed * 120 + f.elements * 32)

GeoWidth == IF query.metadata THEN GeoColumns ELSE 0

\* Mutant: the codes of a level are not resolved, as in a selection of cells.
PayloadShapeUnresolved ==
    IF NothingAsked THEN NoFrame
    ELSE [rows |-> Cardinality(Wanted(query.months, Months) \X Wanted(query.entities, Cells)),
          keyed |-> IndexColumns + ValueColumns + GeoWidth,
          elements |-> IF dataset.prediction THEN ValueColumns * Width ELSE 0, groups |-> {}]

\* served_payload_shape: the frame of cells, whether or not it is summed afterwards.
PayloadShape ==
    IF NothingAsked THEN NoFrame
    ELSE [rows |-> Cardinality(Mask), keyed |-> IndexColumns + ValueColumns + GeoWidth,
          elements |-> IF dataset.prediction THEN ValueColumns * Width ELSE 0, groups |-> {}]

Judge ==
    /\ stage = "parsed"
    /\ stage' = IF Cost(PayloadShape) > Budget THEN "too large" ELSE "affordable"
    /\ UNCHANGED <<dataset, query, frame>>

-------------------------------------------------------------------------------
(* The frames *)

KnownTargets == query.columns.features = All \/ ToSet(query.columns.features) \subseteq Targets
Selected == IF query.columns.features = All THEN Targets ELSE ToSet(query.columns.features)

\* A historical dataset has no sample_size: it cannot be subset by sample.
KnownDraws ==
    \/ query.columns.draws = All
    \/ dataset.prediction /\ ToSet(query.columns.draws) \subseteq 0..(Draws - 1)

\* _GridDataset.get_subset_dataframe refuses what it does not know, but not before it has
\* answered an empty selection.
SubsetRaises == ~NothingAsked /\ ~(KnownTargets /\ KnownDraws)

\* What it returns otherwise, with the geography joined to it or not.
CellFrame(geo) ==
    IF NothingAsked THEN [NoFrame EXCEPT !.keyed = IndexColumns + geo]
    ELSE [rows |-> Cardinality(Mask), keyed |-> IndexColumns + Cardinality(Selected) + geo,
          elements |-> IF dataset.prediction THEN Cardinality(Selected) * Width ELSE 0, groups |-> {}]

\* The draws of the selected cells are summed by month and code, and cells without a code
\* are left out (C-70, C-146).
Summed(rows) ==
    {g \in {[month |-> t, unit |-> u,
             cells |-> {c \in Cells : <<t, c>> \in rows /\ dataset.code[t, c] = u}] :
                t \in Months, u \in Codes} : g.cells # {}}

\* A frame of the units, with this many columns beside the index.
UnitFrame(groups, values, elements) ==
    [rows |-> Cardinality(groups), keyed |-> IndexColumns + values, elements |-> elements,
     groups |-> groups]

\* _aggregate_distributions: the month and the code are the index, and the code is one of
\* the columns of the geography.
DistributionsRaise == ~query.metadata /\ ~NothingAsked /\ Mask # {}
Distributions ==
    IF NothingAsked \/ Mask = {} THEN NoFrame
    ELSE UnitFrame(Summed(Mask), Cardinality(Selected),
                   IF dataset.prediction THEN Cardinality(Selected) * Width ELSE 0)

\* get_subset_dataframe, or nothing when it raises.
SubsetFrame ==
    IF query.aggregate
    THEN IF query.level = "pg" \/ SubsetRaises \/ DistributionsRaise THEN {} ELSE {Distributions}
    ELSE IF SubsetRaises THEN {} ELSE {CellFrame(GeoWidth)}

\* The columns of a target: MAP, three intervals, severe, bimodality, three thresholds.
Statistics == 12

Count(filter, S) == IF filter = All THEN Cardinality(S) ELSE Len(filter)

\* _GridDataset.calculate_hdi_map: a row for each month and each cell named, in that order
\* and as often.
HdiCells ==
    IF /\ dataset.prediction /\ KnownTargets /\ KnownDraws
       /\ query.months = All \/ ToSet(query.months) \subseteq Months
       /\ Resolved = All \/ ToSet(Resolved) \subseteq Cells
    THEN {[rows |-> Count(query.months, Months) * Count(Resolved, Cells),
           keyed |-> IndexColumns + Cardinality(Selected) * Statistics + GeoWidth,
           elements |-> 0, groups |-> {}]}
    ELSE {}

\* _aggregate_hdi_map_pandas: the geography is joined whatever was asked; without a row it
\* has no column to index by, unless it has no target column either.
HdiJoined ==
    IF SubsetRaises THEN {}
    ELSE IF NothingAsked THEN {NoFrame}
    ELSE IF Summed(Mask) = {} THEN {}
    ELSE {UnitFrame(Summed(Mask), Cardinality(Selected) * Statistics, 0)}

\* calculate_hdi_map over the sample store: month by month.
HdiUnits ==
    IF /\ KnownTargets /\ KnownDraws
       /\ query.months = All \/ ToSet(query.months) \subseteq Months
    THEN {UnitFrame(Summed(Mask), Cardinality(Selected) * Statistics, 0)}
    ELSE {}

\* calculate_hdi_map, or nothing when it raises.
HdiFrame ==
    IF ~query.aggregate THEN HdiCells
    ELSE IF query.level = "pg" THEN {}
    ELSE IF dataset.prediction THEN HdiUnits ELSE HdiJoined

Frames == IF query.route = "subset" THEN SubsetFrame ELSE HdiFrame

Render ==
    /\ stage = "affordable"
    /\ IF Frames = {} THEN stage' = "failed" /\ frame' = frame
       ELSE stage' = "served" /\ frame' \in Frames
    /\ UNCHANGED <<dataset, query>>

PayloadNext == Receive \/ Judge \/ Render
PayloadSpec == PayloadInit /\ [][PayloadNext]_payloadVars

-------------------------------------------------------------------------------
(* Properties *)

PayloadTypeOK ==
    /\ dataset \in Datasets
    /\ stage \in {"received", "unprocessable", "parsed", "too large", "affordable", "failed", "served"}
    /\ frame \in [rows : Nat, keyed : Nat, elements : Nat,
                  groups : SUBSET [month : Months, unit : Codes, cells : SUBSET Cells]]

NamedTwice(filter) == filter # All /\ ~IsInjective(filter)

\* The guard sizes the frame the subset is made from without building it ("the two cannot
\* disagree about which rows are in the subset"): one that would not exceed the budget is
\* not refused, unless a target is named twice, and one that is served does not exceed it,
\* summed or not.  An hdi-map of cells has no more rows than were judged, unless a month or
\* a cell is named twice.
GuardBoundsPayload ==
    /\ stage = "too large" /\ ~SubsetRaises
          => Cost(CellFrame(GeoWidth)) > Budget \/ NamedTwice(query.columns.features)
    /\ stage = "served" /\ query.route = "subset"
          => Cost(CellFrame(GeoWidth)) <= Budget /\ Cost(frame) <= Budget
    /\ stage = "served" /\ query.route = "hdi-map"
          => \/ frame.rows <= PayloadShape.rows
             \/ NamedTwice(query.months) \/ NamedTwice(Resolved)

Asked(u) == query.entities = All \/ u \in ToSet(query.entities)
Moves(c) == ~\E u \in Codes \cup {NoCode} : \A t \in Months : dataset.code[t, c] = u

\* Whichever route and dataset the sum of a unit is served from, the unit was asked for and
\* all of its cells of that month are in it, and no unit with cells is missing: a unit that
\* was not asked for, which may then lack cells, shows up only if a cell changes unit.
UnitsWhole ==
    stage = "served" /\ query.aggregate /\ ~NothingAsked =>
        /\ \A g \in frame.groups :
              IF Asked(g.unit) THEN g.cells = {c \in Cells : dataset.code[g.month, c] = g.unit}
              ELSE \E c \in g.cells : Moves(c)
        /\ \A t \in Wanted(query.months, Months), u \in Codes :
              Asked(u) /\ (\E c \in Cells : dataset.code[t, c] = u)
                  => \E g \in frame.groups : g.month = t /\ g.unit = u

===============================================================================
