------------------------------ MODULE MCQueries ------------------------------
(***************************************************************************)
(* Joins of two and of three tables ("direct", "chain"), and queries on one *)
(* table: every plan for its first page ("plans"), and its pages while the  *)
(* table and the sidecar change ("pages").                                  *)
(***************************************************************************)
EXTENDS Integers, Sequences, FiniteSets

VARIABLES
  scenario,
  db, indexes, request, answers, cursor, stage_rows, output_rows, sent, pc,
  table, sidecar, built, client, writes

joinVars == <<db, indexes, request, answers, cursor, stage_rows, output_rows, sent, pc>>
queryVars == <<table, sidecar, built, client, writes>>
vars == <<scenario, joinVars, queryVars>>

-----------------------------------------------------------------------------
(* Joins.                                                                  *)
JoinNull == <<0, 0, "null">>
Int1 == <<2, 1, "1">>
Text1 == <<3, 1, "'1'">>

TwoTables == <<"a", "b">>
ThreeTables == <<"a", "b", "c">>

\* Composite keys: a null component, equal first fields, a number and a text.
CompositeKeys == {<<Int1, JoinNull>>, <<Int1, Int1>>, <<Int1, Text1>>}
OneKey == {<<JoinNull>>, <<Int1>>}
EmptyOrFull == {{}, {1, 2, 3}}
EmptyOrGapped == {{}, {1, 3}}

AllKinds == {"inner", "left", "right", "full", "semi", "anti", "cross"}

Both(k) == [t \in {"a", "b"} |-> k]
DirectIndexes == {Both("none"), Both("ordered"), Both("mixed")}
ChainIndexes == {[t \in {"a", "b", "c"} |-> IF t = "b" THEN "mixed" ELSE "ordered"]}

OneFilter == {0..2}
NoFilter == {0..3}

Direct ==
  INSTANCE Joins WITH
    Tables <- TwoTables, StageCounts <- {1}, Actives <- EmptyOrFull, Keys <- CompositeKeys,
    Kinds <- AllKinds, IndexChoices <- DirectIndexes, Filters <- OneFilter,
    MAX_JOIN_STAGES <- 8, MAX_JOIN_ROWS <- 4, NESTED_LOOP_PAIR_LIMIT <- 2,
    RANDOM_PAGE_COST <- 4, COST_PAGE_SIZE <- 4, header_length <- 2, record_length <- 3,
    Slots <- 18, IndexPages <- 1, RowBytes <- 2

Chain ==
  INSTANCE Joins WITH
    Tables <- ThreeTables, StageCounts <- {2}, Actives <- EmptyOrGapped, Keys <- OneKey,
    Kinds <- AllKinds, IndexChoices <- ChainIndexes, Filters <- NoFilter,
    MAX_JOIN_STAGES <- 8, MAX_JOIN_ROWS <- 4, NESTED_LOOP_PAIR_LIMIT <- 2,
    RANDOM_PAGE_COST <- 4, COST_PAGE_SIZE <- 4, header_length <- 2, record_length <- 3,
    Slots <- 18, IndexPages <- 1, RowBytes <- 2

NoJoin ==
  /\ db = << >> /\ indexes = << >> /\ request = << >> /\ answers = << >> /\ cursor = << >>
  /\ stage_rows = 0 /\ output_rows = 0 /\ sent = << >> /\ pc = "none"

-----------------------------------------------------------------------------
(* Queries on one table.                                                   *)
NUMBER == 3
TEXT == 4
Null == <<1, 0, 1>>
NoCollation == "none"

Key(n) == IF n = 1 THEN 2 ELSE n   \* A, a and b: the collation folds A to a

Two == <<"a", "b">>
One == <<NUMBER, 1, 1>>
OneDecimal == <<NUMBER, 1, 0>>
Number2 == <<NUMBER, 2, 1>>
UpperA == <<TEXT, 1, 1>>
LowerA == <<TEXT, 2, 1>>
Row(A, B) == [a : A, b : B]
Active(rows) == {[deleted |-> FALSE, values |-> [f \in {"a", "b"} |-> r[f]]] : r \in rows}
Deleted == {[deleted |-> TRUE, values |-> [f \in {"a", "b"} |-> IF f = "a" THEN One ELSE LowerA]]}

PlanRows == Row({One}, {UpperA, LowerA}) \union Row({Null}, {UpperA})
              \union Row({OneDecimal, Number2}, {LowerA})
PlanTables == [1..3 -> Active(PlanRows)] \union [1..2 -> Active(PlanRows) \union Deleted]

def(name, fields, directions, collation) ==
  [name |-> name, fields |-> fields, directions |-> directions, collation |-> collation]
ByA == def("a", <<"a">>, <<1>>, NoCollation)
ByB == def("b", <<"b">>, <<1>>, NoCollation)
ByAB == def("ab", <<"a", "b">>, <<1, 1>>, NoCollation)
ByABDown == def("ab", <<"a", "b">>, <<1, -1>>, NoCollation)
ByBFolded == def("bf", <<"b">>, <<1>>, "lower")
ByABFolded == def("abf", <<"a", "b">>, <<1, 1>>, "lower")

PlanDefinitions ==
  {<<ByA, ByB>>, <<ByA, ByAB>>, <<ByA, ByABDown>>, <<ByBFolded, ByABFolded>>}

eq(v) == [o \in {""} |-> v]
op(name, v) == [o \in {name} |-> v]
ops(m, v, n, w) == [o \in {m, n} |-> IF o = m THEN v ELSE w]
on(f, c) == [g \in {f} |-> c]
both(c, d) == [g \in {"a", "b"} |-> IF g = "a" THEN c ELSE d]
All == [f \in {} |-> 0]

PlanFilters ==
  {All, on("a", eq(One)), on("a", op("$eq", Null)), both(eq(OneDecimal), eq(LowerA)),
   both(eq(One), op("$gte", LowerA)), both(eq(One), op("$lt", LowerA)),
   on("a", ops("$gte", One, "$lt", Number2)), on("a", op("$lte", OneDecimal)),
   on("a", ops("$gt", OneDecimal, "$lte", Number2)), on("a", op("$gte", LowerA)),
   both(op("$gt", Null), op("$gt", UpperA)), both(op("$lte", One), op("$lte", UpperA)),
   on("a", op("$in", <<One, Null>>)), on("a", ops("$ne", One, "$nin", <<Number2>>)),
   on("c", op("$exists", FALSE)), on("a", op("$not", op("$gt", One))),
   [k \in {"$or"} |-> <<on("a", eq(One)), on("b", eq(UpperA))>>],
   [k \in {"$and", "$not"} |-> IF k = "$and" THEN <<on("a", op("$gte", One))>>
                                             ELSE on("b", eq(LowerA))]}

document(filter, sort, collation, limit, skip, page_size) ==
  [filter |-> filter, sort |-> sort, collation |-> collation, limit |-> limit, skip |-> skip,
   page_size |-> page_size]
plain(filter, sort, collation) == document(filter, sort, collation, << >>, << >>, << >>)

A == <<"a", 1>>
ADown == <<"a", -1>>
B == <<"b", 1>>
BDown == <<"b", -1>>

PlanRequests ==
  {plain(f, << >>, NoCollation) : f \in PlanFilters}
  \union {plain(f, <<s>>, NoCollation) :
            f \in {both(eq(One), op("$gte", LowerA)), on("a", ops("$gte", One, "$lt", Number2))},
            s \in {ADown, BDown}}
  \union {plain(f, s, NoCollation) : f \in {All, on("a", eq(One))},
            s \in {<<ADown>>, <<A, B>>, <<A, BDown>>, <<ADown, B>>, <<B>>, <<BDown, A>>}}
  \union {plain(All, s, "lower") : s \in {<<A, B>>, <<BDown>>, <<B, A>>}}
  \union {document(All, <<B>>, NoCollation, <<1>>, <<1>>, << >>)}

TieTables == [1..2 -> Active(Row({One}, {UpperA, LowerA}))]
TieDefinitions == {<<ByAB>>}
TiePages == {document(All, <<A>>, NoCollation, << >>, << >>, <<1>>)}

PageRows ==
  {[a |-> One, b |-> LowerA], [a |-> OneDecimal, b |-> UpperA], [a |-> Number2, b |-> UpperA]}
PageTables ==
  {t \in [1..3 -> Active(PageRows)] : t[1] # t[2] /\ t[2] # t[3] /\ t[3].values["a"] # Number2}
EditValues == {[a |-> OneDecimal, b |-> LowerA]}
PageDefinitions == {<<ByA>>, <<ByA, ByAB>>, <<ByBFolded>>}
PageRequests ==
  {document(All, << >>, NoCollation, <<2>>, << >>, <<1>>),
   document(on("a", op("$gt", One)), << >>, NoCollation, << >>, << >>, <<1>>),
   document(All, <<ADown>>, NoCollation, << >>, << >>, <<1>>),
   document(All, <<A, BDown>>, NoCollation, << >>, << >>, <<2>>),
   document(All, <<B>>, "lower", <<1>>, << >>, <<2>>),
   document(on("b", op("$gte", LowerA)), <<BDown>>, "lower", << >>, << >>, <<1>>)}

Plans ==
  INSTANCE TableQuery WITH
    Fields <- Two, CollationKey <- Key, HISTOGRAM_BUCKET_LIMIT <- 2, Tables <- PlanTables,
    Rows <- {}, Definitions <- PlanDefinitions, Requests <- PlanRequests,
    TablePages <- 2, IndexPages <- 1, MaxWrites <- 0, MaxRecords <- 3

Pages ==
  INSTANCE TableQuery WITH
    Fields <- Two, CollationKey <- Key, HISTOGRAM_BUCKET_LIMIT <- 1, Tables <- PageTables,
    Rows <- EditValues, Definitions <- PageDefinitions, Requests <- PageRequests,
    TablePages <- 2, IndexPages <- 1, MaxWrites <- 1, MaxRecords <- 3

Ties ==
  INSTANCE TableQuery WITH
    Fields <- Two, CollationKey <- Key, HISTOGRAM_BUCKET_LIMIT <- 2, Tables <- TieTables,
    Rows <- {}, Definitions <- TieDefinitions, Requests <- TiePages,
    TablePages <- 2, IndexPages <- 1, MaxWrites <- 0, MaxRecords <- 3

NoQuery == table = << >> /\ sidecar = << >> /\ built = << >> /\ client = << >> /\ writes = 0

-----------------------------------------------------------------------------
Init ==
  \/ scenario = "direct" /\ Direct!Init /\ NoQuery
  \/ scenario = "chain" /\ Chain!Init /\ NoQuery
  \/ scenario = "plans" /\ Plans!Init /\ NoJoin
  \/ scenario = "pages" /\ Pages!Init /\ NoJoin

Next ==
  /\ \/ scenario = "direct" /\ Direct!Next /\ UNCHANGED queryVars
     \/ scenario = "chain" /\ Chain!Next /\ UNCHANGED queryVars
     \/ scenario = "plans" /\ Plans!Next /\ UNCHANGED joinVars
     \/ scenario = "pages" /\ Pages!Next /\ UNCHANGED joinVars
  /\ UNCHANGED scenario

Spec == Init /\ [][Next]_vars

\* Two records with equal sort keys and an index on more fields than the sort.
TiesSpec ==
  /\ scenario = "ties" /\ Ties!Init /\ NoJoin
  /\ [][Ties!Next /\ UNCHANGED <<scenario, joinVars>>]_vars

In(s, P) == scenario = s => P

-----------------------------------------------------------------------------
(* The properties of Joins and TableQuery, each where it is at stake.      *)

(* Whatever strategy the costs select, and whether the request runs on the *)
(* catalog with its indexes or on a captured read transaction without,     *)
(* execute returns the matching rows in the documented order, or fails     *)
(* exactly when there are more than MAX_JOIN_ROWS.  The streamed join      *)
(* produces the same rows in order: a prefix while it runs, all of them    *)
(* when it ends, and it fails only when the materialised join fails.       *)
EveryStrategyIsTheJoin ==
  /\ In("direct", Direct!EveryStrategyIsTheJoin /\ Direct!StreamIsTheJoin)
  /\ In("chain", Chain!EveryStrategyIsTheJoin /\ Chain!StreamIsTheJoin)

(* Whatever access path the planner chose for each page, and whatever      *)
(* state the sidecar was in, the pages of a query on one table are, one    *)
(* after the other, exactly the records the scan would return, each once   *)
(* and in order; and a sidecar that a reader accepts holds, entry by       *)
(* entry, what an index built from the table would hold.                   *)
PagesAreTheResult ==
  /\ In("plans", Plans!PagesAreTheResult)
  /\ In("pages", Pages!PagesAreTheResult /\ Pages!AcceptedSidecarIsRebuilt)

(* The pages a client is served all belong to one order, and, unless it    *)
(* holds a cursor of an older release, to one state of the table.          *)
OneReadingPerCursor == In("pages", Pages!OneReadingPerCursor)

(* The pages of a query on one table hold every matching record.           *)
NoRecordIsLost == In("ties", Ties!NoRecordIsLost)
===============================================================================
