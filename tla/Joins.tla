-------------------------------- MODULE Joins --------------------------------
(***************************************************************************)
(* Equality joins over the tables of a catalog: the materialised join of   *)
(* query/join and query/join_pipeline, the strategies it chooses between   *)
(* (nested loop, hash map, index probes, merge of ordered indexes), the    *)
(* cost model that chooses, and the row cursors of the streamed join.      *)
(*                                                                         *)
(* A table maps its active record numbers to join keys; the fields of a    *)
(* key are values <<type rank, value, JSON text>>.  A row maps each table  *)
(* to the record whose fields it holds, 0 when it holds none.  A request   *)
(* joins Tables[1] with Tables[2], Tables[3], ... ; each stage compares    *)
(* the key of the new table with the key of one table already joined.      *)
(***************************************************************************)
EXTENDS Naturals, Sequences, FiniteSets, FiniteSetsExt, SequencesExt, Functions

CONSTANTS
  Tables,                  \* the tables, in the order a request names them
  StageCounts,             \* how many stages a request may have
  Actives,                 \* sets of active record numbers a table may have
  Keys,                    \* the join keys a record may hold
  Kinds,                   \* the join types requested
  IndexChoices,            \* which index sidecars exist: none, mixed, ordered
  Filters,                 \* record numbers of Tables[1] a filter lets through
  MAX_JOIN_STAGES, MAX_JOIN_ROWS, NESTED_LOOP_PAIR_LIMIT, RANDOM_PAGE_COST, COST_PAGE_SIZE,
  header_length, record_length,
  Slots,                   \* records in each DBF file, deleted ones included
  IndexPages,              \* pages of an index sidecar
  RowBytes                 \* JSON bytes of a materialised row

VARIABLES
  db,        \* table -> (active record number -> key)
  indexes,   \* table -> "none" | "mixed" | "ordered"
  request,   \* the stages and the filter
  answers,   \* what execute and execute_read_transaction returned
  cursor,    \* the JoinRows of the open stream
  stage_rows, output_rows,
  sent,      \* rows the stream has produced
  pc

vars == <<db, indexes, request, answers, cursor, stage_rows, output_rows, sent, pc>>

NoKey == << >>
Null == <<0, 0, "null">>
Ok(rows) == [ok |-> TRUE, rows |-> rows]
RowLimit == [ok |-> FALSE, rows |-> << >>]

NoRow == [t \in Range(Tables) |-> 0]

ForEach(seq, Op(_)) == FlattenSeq([i \in DOMAIN seq |-> Op(seq[i])])

Sorted(S, Less(_, _)) ==
  [i \in 1..Cardinality(S) |-> CHOOSE x \in S : Cardinality({y \in S : Less(y, x)}) = i - 1]

ceil_div(a, b) == (a + b - 1) \div b

ilog2(n) == CHOOSE k \in 0..n : 2^k <= n /\ n < 2^(k + 1)

-----------------------------------------------------------------------------
(* Values, keys and index lookups.                                         *)

compare_scalar_values(v, w) ==
  IF v[1] < w[1] \/ (v[1] = w[1] /\ v[2] < w[2]) THEN "Less"
  ELSE IF v[1] = w[1] /\ v[2] = w[2] THEN "Equal" ELSE "Greater"

compare_keys(k, m) ==
  LET differ == {i \in DOMAIN k : compare_scalar_values(k[i], m[i]) # "Equal"}
  IN IF differ = {} THEN "Equal"
     ELSE compare_scalar_values(k[Min(differ)], m[Min(differ)])

\* The same order on index keys, where a null sorts below every scalar.
compare_index_keys(k, m) == compare_keys(k, m)

(* The key of a row for a table: none when the row has no record of the    *)
(* table or one of the fields is null, else the JSON text of the values.   *)
encoded_key(row, table) ==
  IF row[table] = 0 THEN NoKey
  ELSE LET key == db[table][row[table]]
       IN IF \E i \in DOMAIN key : key[i] = Null THEN NoKey ELSE key

merge_key(row, table) == encoded_key(row, table)

keys_match(l, r, spec) ==
  /\ encoded_key(l, spec.local) # NoKey
  /\ encoded_key(l, spec.local) = encoded_key(r, spec.table)

\* The index entries in key order, each with its records in record order.
lookup_ordered(table) ==
  Sorted(DOMAIN db[table],
               LAMBDA m, n : \/ compare_index_keys(db[table][m], db[table][n]) = "Less"
                             \/ /\ compare_index_keys(db[table][m], db[table][n]) = "Equal"
                                /\ m < n)

lookup_eq_for_named_fields(table, key) ==
  Sorted({n \in DOMAIN db[table] : compare_index_keys(db[table][n], key) = "Equal"},
               LAMBDA m, n : m < n)

has_exact_fields(table) == indexes[table] # "none"

\* A compound index whose directions are mixed cannot be walked in key order.
ordered_records_of(table) ==
  IF indexes[table] = "ordered" THEN <<lookup_ordered(table)>> ELSE << >>

equality_fanout_estimate(table) ==
  LET joinable == {n \in DOMAIN db[table] : \A i \in DOMAIN db[table][n] :
                                              db[table][n][i] # Null}
      same(n) == {m \in joinable : compare_keys(db[table][m], db[table][n]) = "Equal"}
      distinct == Cardinality({same(n) : n \in joinable})
  IN IF distinct = 0 THEN 0 ELSE ceil_div(Cardinality(joinable), distinct)

-----------------------------------------------------------------------------
(* Loading the rows of a table.                                            *)

numbers(table) == Sorted(DOMAIN db[table], LAMBDA m, n : m < n)

load_rows(table) ==
  [i \in 1..Cardinality(DOMAIN db[table]) |-> [NoRow EXCEPT ![table] = numbers(table)[i]]]

\* BTreeMap::extend: the fields of the right row are added to the left row's.
combine(left, right) ==
  [t \in Range(Tables) |-> IF right[t] # 0 THEN right[t] ELSE left[t]]

-----------------------------------------------------------------------------
(* The cost model.                                                         *)

file_len == header_length + Slots * record_length

logical_page_reads == Max({1, ceil_div(file_len, COST_PAGE_SIZE)})

materialized_page_reads(rows) == Max({1, ceil_div(Len(rows) * RowBytes, COST_PAGE_SIZE)})

KeyCount(rows, table, key) ==
  Cardinality({i \in DOMAIN rows : encoded_key(rows[i], table) = key})

(* The number of rows a join emits before filtering, from how often each   *)
(* key occurs on either side.                                              *)
estimate_join_rows(left, right, spec) ==
  LET keys == {encoded_key(left[i], spec.local) : i \in DOMAIN left} \ {NoKey}
      both == {k \in keys : KeyCount(right, spec.table, k) > 0}
      matched_pairs ==
        MapThenSumSet(LAMBDA k : KeyCount(left, spec.local, k) * KeyCount(right, spec.table, k),
                      both)
      left_matched == MapThenSumSet(LAMBDA k : KeyCount(left, spec.local, k), both)
      right_matched == MapThenSumSet(LAMBDA k : KeyCount(right, spec.table, k), both)
      left_unmatched == Len(left) - left_matched
      right_unmatched == Len(right) - right_matched
  IN CASE spec.kind = "inner" -> matched_pairs
       [] spec.kind = "left" -> matched_pairs + left_unmatched
       [] spec.kind = "right" -> matched_pairs + right_unmatched
       [] spec.kind = "full" -> matched_pairs + left_unmatched + right_unmatched
       [] spec.kind = "semi" -> left_matched
       [] spec.kind = "anti" -> left_unmatched

stage_estimate_join_rows(left, right, spec) == estimate_join_rows(left, right, spec)

output_columns(left, right, kind) ==
  LET columns(rows) ==
        Max({0} \union {Cardinality({t \in Range(Tables) : rows[i][t] # 0}) : i \in DOMAIN rows})
  IN Max({1, columns(left) + (IF kind \in {"semi", "anti"} THEN 0 ELSE columns(right))})

page_io_work(sequential, random) == sequential + random * RANDOM_PAGE_COST

materialization_work(input) == input.output_rows * Max({1, input.output_columns})

hash_cost(left_count, right_count, input) ==
  left_count + 2 * right_count
    + page_io_work(input.outer_page_reads + input.inner_page_reads, 0)
    + materialization_work(input)

\* seen_pages: a page already read is not read again.
first_visits(visits) ==
  LET new(i) == \A j \in 1..(i - 1) : visits[j] # visits[i]
  IN FlattenSeq([i \in DOMAIN visits |-> IF new(i) THEN <<visits[i]>> ELSE << >>])

(* Walking records in index order: a page is read once, sequentially when  *)
(* it follows the page read last, else at random.                          *)
ordered_record_page_access(order) ==
  LET start(n) == (n - 1) * record_length + header_length
      pages(n) == [i \in 1..((start(n) + record_length - 1) \div COST_PAGE_SIZE
                               - start(n) \div COST_PAGE_SIZE + 1)
                     |-> start(n) \div COST_PAGE_SIZE + i - 1]
      reads == first_visits(ForEach(order, pages))
      sequential == Cardinality({i \in 2..Len(reads) : reads[i] = reads[i - 1] + 1})
  IN [sequential |-> sequential, random |-> Len(reads) - sequential]

merge_cost(left_count, right_count, index_page_reads, input) ==
  left_count + right_count + input.merge_sort_work
    + page_io_work(input.merge_input_page_access.sequential + index_page_reads,
                   input.merge_input_page_access.random)
    + materialization_work(input)

index_probe_cost(inner_count, average_fanout) ==
  IF inner_count <= 1 THEN 1 + average_fanout ELSE ilog2(inner_count) + 1 + average_fanout

equality_probe_cost(table, inner_count) ==
  LET fanout == equality_fanout_estimate(table)
  IN [per_probe |-> index_probe_cost(inner_count, fanout),
      index_page_reads |-> IndexPages,
      record_page_reads_per_probe |-> Min({fanout, logical_page_reads})]

estimated_cached_record_page_reads(outer_count, per_probe, inner_page_capacity) ==
  Min({outer_count * per_probe, inner_page_capacity})

index_nested_loop_cost(outer_count, probe, input) ==
  outer_count * probe.per_probe
    + page_io_work(input.outer_page_reads + probe.index_page_reads,
                   estimated_cached_record_page_reads(outer_count,
                     probe.record_page_reads_per_probe, input.inner_page_reads))
    + materialization_work(input)

ordered_merge_sort_work(row_count) ==
  IF row_count <= 1 THEN 0
  ELSE row_count * (ilog2(row_count) + 1) * Len(CHOOSE k \in Keys : TRUE)

\* offered is << >> when no index offers the strategy.
choose_better(current, offered) ==
  IF /\ offered # << >>
     /\ \/ offered[1].cost < current.cost
        \/ offered[1].cost = current.cost /\ offered[1].rank < current.rank
  THEN offered[1] ELSE current

choose_with_costs(left_count, right_count, probe, merge_page_reads, input) ==
  LET hash == [strategy |-> "Hash", rank |-> 2,
               cost |-> hash_cost(left_count, right_count, input)]
      indexed == [i \in DOMAIN probe |->
                    [strategy |-> "IndexNestedLoop", rank |-> 1,
                     cost |-> index_nested_loop_cost(left_count, probe[i], input)]]
      merged == [i \in DOMAIN merge_page_reads |->
                   [strategy |-> "Merge", rank |-> 0,
                    cost |-> merge_cost(left_count, right_count, merge_page_reads[i], input)]]
  IN IF left_count * right_count <= NESTED_LOOP_PAIR_LIMIT THEN "NestedLoop"
     ELSE choose_better(choose_better(hash, indexed), merged).strategy

-----------------------------------------------------------------------------
(* What one row of the outer side contributes, given its matches.          *)

LeftOutput(kind, left, matches) ==
  CASE kind = "inner" -> [i \in DOMAIN matches |-> combine(left, matches[i])]
    [] kind \in {"left", "full"} ->
         IF matches = << >> THEN <<left>>
         ELSE [i \in DOMAIN matches |-> combine(left, matches[i])]
    [] kind = "semi" -> IF matches = << >> THEN << >> ELSE <<left>>
    [] kind = "anti" -> IF matches = << >> THEN <<left>> ELSE << >>

RightOutput(right, matches) ==
  IF matches = << >> THEN <<right>>
  ELSE [i \in DOMAIN matches |-> combine(matches[i], right)]

(* emit: rows the filter drops are not counted against the limit.          *)
emit(rows) ==
  LET kept == SelectSeq(rows, LAMBDA row : row[Tables[1]] \in request.filter)
  IN IF Len(kept) > MAX_JOIN_ROWS THEN RowLimit ELSE Ok(kept)

(* push_combined: every row of a stage is counted.                         *)
push_combined(rows) == IF Len(rows) > MAX_JOIN_ROWS THEN RowLimit ELSE Ok(rows)

(* Nested loops: every pair is compared.                                   *)
execute_join(left, right, spec) ==
  ForEach(left, LAMBDA l :
    LeftOutput(spec.kind, l, SelectSeq(right, LAMBDA r : keys_match(l, r, spec))))

execute_right_join(left, right, spec) ==
  ForEach(right, LAMBDA r :
    RightOutput(r, SelectSeq(left, LAMBDA l : keys_match(l, r, spec))))

nested_execute_stage(left, right, spec) == push_combined(execute_join(left, right, spec))

nested_execute_right_stage(left, right, spec) ==
  push_combined(execute_right_join(left, right, spec))

(* Hash joins: an ordered map from the keys of one side to its rows.       *)
by_key(rows, table) ==
  [k \in {encoded_key(rows[i], table) : i \in DOMAIN rows} \ {NoKey} |->
     SelectSeq(rows, LAMBDA row : encoded_key(row, table) = k)]

MapGet(map, key) == IF key \in DOMAIN map THEN map[key] ELSE << >>

hash_left(left, right, spec) ==
  LET right_by_key == by_key(right, spec.table)
  IN ForEach(left, LAMBDA l :
       LeftOutput(spec.kind, l, MapGet(right_by_key, encoded_key(l, spec.local))))

hash_right(left, right, spec) ==
  LET left_by_key == by_key(left, spec.local)
  IN ForEach(right, LAMBDA r :
       RightOutput(r, MapGet(left_by_key, encoded_key(r, spec.table))))

execute_full_join(left, right, spec) ==
  LET right_by_key == by_key(right, spec.table)
      matched_right == UNION {ToSet(MapGet(right_by_key, encoded_key(left[i], spec.local)))
                                : i \in DOMAIN left}
  IN ForEach(left, LAMBDA l :
       LeftOutput("full", l, MapGet(right_by_key, encoded_key(l, spec.local))))
     \o SelectSeq(right, LAMBDA r : r \notin matched_right)

stage_hash_left(left, right, spec) == push_combined(hash_left(left, right, spec))

stage_hash_right(left, right, spec) == push_combined(hash_right(left, right, spec))

stage_full(left, right, spec) == push_combined(execute_full_join(left, right, spec))

(* Cross joins: the candidate pairs are limited before any is formed.      *)
CrossRows(left, right) == ForEach(left, LAMBDA l : [i \in DOMAIN right |-> combine(l, right[i])])

cross_execute(left, right) ==
  IF Len(left) * Len(right) > MAX_JOIN_ROWS THEN RowLimit ELSE emit(CrossRows(left, right))

stage_cross(left, right) ==
  IF Len(left) * Len(right) > MAX_JOIN_ROWS THEN RowLimit
  ELSE push_combined(CrossRows(left, right))

(* Index nested loops: the records of the inner table with the probed key. *)
probe_rows(row, table, indexed) ==
  LET key == merge_key(row, table)
      found == lookup_eq_for_named_fields(indexed, key)
  IN IF key = NoKey THEN << >>
     ELSE [i \in DOMAIN found |-> [NoRow EXCEPT ![indexed] = found[i]]]

index_join(left, spec) ==
  ForEach(left, LAMBDA l : LeftOutput(spec.kind, l, probe_rows(l, spec.local, spec.table)))

index_right_join(right, spec) ==
  ForEach(right, LAMBDA r : RightOutput(r, probe_rows(r, spec.table, spec.local)))

index_stage(left, spec) == push_combined(index_join(left, spec))

\* The left rows probe the right index; the matches are regrouped by right record.
index_right_stage(left, right, spec) ==
  push_combined(ForEach(right, LAMBDA r :
    RightOutput(r, SelectSeq(left, LAMBDA l :
                     r \in ToSet(probe_rows(l, spec.local, spec.table))))))

-----------------------------------------------------------------------------
(* Merge joins: both sides in key order, matched group by group, emitted   *)
(* in the order of the outer side.  An OrderedRecord is a position with    *)
(* its key; a range <<first, last>> of the other side is << >> for none.   *)

Ordered(rows, table, positions) ==
  SelectSeq([i \in DOMAIN positions |->
              [position |-> positions[i], key |-> merge_key(rows[positions[i]], table)]],
            LAMBDA entry : entry.key # NoKey)

\* Record numbers in index order become positions; rows without a key are skipped.
ordered_records(rows, table, order) ==
  Ordered(rows, table,
          [i \in DOMAIN order |-> CHOOSE p \in DOMAIN rows : rows[p][table] = order[i]])

ordered_right(rows, table, order) == ordered_records(rows, table, order)

\* Mutant: a key group is taken to be one record.
key_end_single(sorted, start) == start + 1

key_end(sorted, start) ==
  Min({e \in (start + 1)..(Len(sorted) + 1) :
         IF e > Len(sorted) THEN TRUE
         ELSE compare_keys(sorted[e].key, sorted[start].key) # "Equal"})

\* A stable sort by key.
ordered_left(rows, table) ==
  LET keyed == Ordered(rows, table, [i \in DOMAIN rows |-> i])
  IN SortSeq(keyed, LAMBDA a, b : \/ compare_keys(a.key, b.key) = "Less"
                                  \/ /\ compare_keys(a.key, b.key) = "Equal"
                                     /\ a.position < b.position)

RECURSIVE ranges_from(_, _, _, _, _)
ranges_from(outer, inner, o, i, matches) ==
  IF o > Len(outer) \/ i > Len(inner) THEN matches
  ELSE LET ordering == compare_keys(outer[o].key, inner[i].key)
           outer_end == key_end(outer, o)
           inner_end == key_end(inner, i)
       IN CASE ordering = "Less" -> ranges_from(outer, inner, o + 1, i, matches)
            [] ordering = "Greater" -> ranges_from(outer, inner, o, i + 1, matches)
            [] OTHER ->
                 ranges_from(outer, inner, outer_end, inner_end,
                   [p \in DOMAIN matches |->
                      IF \E x \in o..(outer_end - 1) : outer[x].position = p
                      THEN <<i, inner_end - 1>> ELSE matches[p]])

matching_ranges(outer, inner, outer_count) ==
  ranges_from(outer, inner, 1, 1, [p \in 1..outer_count |-> << >>])

\* The rows of a range of the sorted other side.
RangeRows(range, sorted, rows) ==
  IF range = << >> THEN << >>
  ELSE [x \in 1..(range[2] - range[1] + 1) |-> rows[sorted[range[1] + x - 1].position]]

MergeRows(left, right, left_sorted, right_sorted, kind) ==
  LET left_matches == matching_ranges(left_sorted, right_sorted, Len(left))
      right_matches == matching_ranges(right_sorted, left_sorted, Len(right))
      left_row(p) == LeftOutput(kind, left[p], RangeRows(left_matches[p], right_sorted, right))
      right_row(p) == RightOutput(right[p], RangeRows(right_matches[p], left_sorted, left))
  IN IF kind = "right" THEN FlattenSeq([p \in DOMAIN right |-> right_row(p)])
     ELSE FlattenSeq([p \in DOMAIN left |-> left_row(p)])
          \o (IF kind = "full"
              THEN FlattenSeq([p \in DOMAIN right |->
                     IF right_matches[p] = << >> THEN <<right[p]>> ELSE << >>])
              ELSE << >>)

merge_execute(left, right, left_order, right_order, spec) ==
  emit(MergeRows(left, right,
                 ordered_records(left, spec.local, left_order),
                 ordered_records(right, spec.table, right_order), spec.kind))

-----------------------------------------------------------------------------
(* A direct join: one stage, run on the records of the two tables.  live   *)
(* is false for a historical catalog or a read transaction, which have no  *)
(* index sidecars.                                                         *)

choose(left_count, right_count) ==
  IF left_count * right_count <= NESTED_LOOP_PAIR_LIMIT THEN "NestedLoop" ELSE "Hash"

direct_left(left, right, spec, large_join, input) ==
  LET probe == IF large_join /\ has_exact_fields(spec.table)
               THEN <<equality_probe_cost(spec.table, Len(right))>> ELSE << >>
  IN CASE choose_with_costs(Len(left), Len(right), probe, << >>, input) = "IndexNestedLoop" ->
            emit(index_join(left, spec))
       [] choose(Len(left), Len(right)) = "NestedLoop" -> emit(execute_join(left, right, spec))
       [] OTHER -> emit(hash_left(left, right, spec))

direct_right(left, right, spec, large_join, input) ==
  LET probe == IF large_join /\ has_exact_fields(spec.local)
               THEN <<equality_probe_cost(spec.local, Len(left))>> ELSE << >>
  IN CASE choose_with_costs(Len(right), Len(left), probe, << >>, input) = "IndexNestedLoop" ->
            emit(index_right_join(right, spec))
       [] choose(Len(left), Len(right)) = "NestedLoop" ->
            emit(execute_right_join(left, right, spec))
       [] OTHER -> emit(hash_right(left, right, spec))

AddAccess(a, b) ==
  [sequential |-> a.sequential + b.sequential, random |-> a.random + b.random]

\* orders: the records of the two sides in index order, << >> without both indexes.
direct_cost_input(left, right, orders, spec) ==
  [outer_page_reads |-> logical_page_reads,
   inner_page_reads |-> logical_page_reads,
   output_rows |-> estimate_join_rows(left, right, spec),
   output_columns |-> 1, merge_sort_work |-> 0,
   merge_input_page_access |->
     IF orders = << >> THEN [sequential |-> 0, random |-> 0]
     ELSE AddAccess(ordered_record_page_access(orders[1]), ordered_record_page_access(orders[2]))]

direct_dispatch(left, right, orders, spec, large_join, input) ==
  LET merge_page_reads == IF orders = << >> THEN << >> ELSE <<2 * IndexPages>>
      merge == (IF spec.kind = "right"
                THEN choose_with_costs(Len(right), Len(left), << >>, merge_page_reads, input)
                ELSE choose_with_costs(Len(left), Len(right), << >>, merge_page_reads, input))
               = "Merge"
  IN CASE merge -> merge_execute(left, right, orders[1], orders[2], spec)
       [] ~merge /\ spec.kind = "right" -> direct_right(left, right, spec, large_join, input)
       [] ~merge /\ spec.kind = "full" -> emit(execute_full_join(left, right, spec))
       [] OTHER -> direct_left(left, right, spec, large_join, input)

direct_ordered(left, right, orders, spec, large_join) ==
  direct_dispatch(left, right, orders, spec, large_join,
                  direct_cost_input(left, right, orders, spec))

direct_execute(left, right, spec, live) ==
  LET large_join == live /\ Len(left) * Len(right) > NESTED_LOOP_PAIR_LIMIT
      ordered == large_join /\ \A t \in {spec.local, spec.table} : indexes[t] = "ordered"
  IN IF spec.kind = "cross" THEN cross_execute(left, right)
     ELSE direct_ordered(left, right,
            IF ordered THEN <<lookup_ordered(spec.local), lookup_ordered(spec.table)>> ELSE << >>,
            spec, large_join)

-----------------------------------------------------------------------------
(* Chained stages: each joins the rows so far with one more table.         *)

\* load_rows takes the index only when there are enough candidate pairs.
load_index_for_fields(spec, left_count, right_count, live) ==
  /\ live
  /\ spec.kind \notin {"cross", "full"}
  /\ left_count * right_count > NESTED_LOOP_PAIR_LIMIT
  /\ has_exact_fields(spec.table)

stage_cost_input(left, right, row_page_reads, spec) ==
  [outer_page_reads |-> row_page_reads,
   inner_page_reads |-> logical_page_reads,
   output_rows |-> stage_estimate_join_rows(left, right, spec),
   output_columns |-> output_columns(left, right, spec.kind)]

plan(left, right, row_page_reads, spec, live) ==
  LET right_index == load_index_for_fields(spec, Len(left), Len(right), live)
      right_order == IF right_index THEN ordered_records_of(spec.table) ELSE << >>
      access == IF right_order = << >> THEN [sequential |-> 0, random |-> 0]
                ELSE ordered_record_page_access(right_order[1])
      input == stage_cost_input(left, right, row_page_reads, spec)
               @@ [merge_input_page_access |->
                     [access EXCEPT !.sequential = @ + row_page_reads],
                   merge_sort_work |->
                     IF right_order = << >> THEN 0 ELSE ordered_merge_sort_work(Len(left))]
      probe == IF right_index THEN <<equality_probe_cost(spec.table, Len(right))>> ELSE << >>
      merge_page_reads == IF right_order = << >> THEN << >> ELSE <<IndexPages>>
  IN CASE spec.kind = "cross" ->
            [strategy |-> "NestedLoop", fallback |-> "Hash", right_order |-> << >>]
       [] spec.kind = "full" ->
            [strategy |-> "Hash", fallback |-> "Hash", right_order |-> << >>]
       [] OTHER ->
            [strategy |-> choose_with_costs(Len(left), Len(right), probe, merge_page_reads, input),
             fallback |-> choose_with_costs(Len(left), Len(right), << >>, << >>, input),
             right_order |-> right_order]

stage_merge(left, right, right_order, spec) ==
  push_combined(MergeRows(left, right, ordered_left(left, spec.local),
                          ordered_right(right, spec.table, right_order), spec.kind))

apply(left, right, spec, p) ==
  LET right_kind == spec.kind = "right"
  IN CASE spec.kind = "cross" -> stage_cross(left, right)
       [] spec.kind = "full" -> stage_full(left, right, spec)
       [] spec.kind \notin {"cross", "full"} /\ p.strategy = "Merge" ->
            stage_merge(left, right, p.right_order[1], spec)
       [] spec.kind \notin {"cross", "full"} /\ p.strategy = "IndexNestedLoop" ->
            IF right_kind THEN index_right_stage(left, right, spec) ELSE index_stage(left, spec)
       [] OTHER ->
            IF p.fallback = "NestedLoop"
            THEN IF right_kind THEN nested_execute_right_stage(left, right, spec)
                 ELSE nested_execute_stage(left, right, spec)
            ELSE IF right_kind THEN stage_hash_right(left, right, spec)
                 ELSE stage_hash_left(left, right, spec)

\* so_far: the rows of the stages before, and the pages they are costed at.
Costed(result) == result @@ [pages |-> materialized_page_reads(result.rows)]

apply_stage(so_far, right, spec, live) ==
  IF ~so_far.ok THEN so_far
  ELSE Costed(apply(so_far.rows, right, spec,
                    plan(so_far.rows, right, so_far.pages, spec, live)))

stages_of(specs, live) ==
  FoldLeft(LAMBDA so_far, spec : apply_stage(so_far, load_rows(spec.table), spec, live),
           [ok |-> TRUE, rows |-> load_rows(Tables[1]), pages |-> logical_page_reads],
           specs)

Filtered(rows) == SelectSeq(rows, LAMBDA row : row[Tables[1]] \in request.filter)

FilteredResult(result) == IF result.ok THEN Ok(Filtered(result.rows)) ELSE RowLimit

pipeline_execute(live) == FilteredResult(stages_of(request.specs, live))

execute_with_source(live) ==
  IF Len(request.specs) > 1 THEN pipeline_execute(live)
  ELSE LET spec == request.specs[1]
       IN direct_execute(load_rows(spec.local), load_rows(spec.table), spec, live)

-----------------------------------------------------------------------------
(* The streamed join: the stages before the last are materialised, the     *)
(* last one is a cursor.  A step of a cursor is one pass of its loop: it   *)
(* moves on, and puts out at most one row.                                 *)

last == request.specs[Len(request.specs)]

Passed(c, out) == [cursor |-> c, out |-> out, end |-> FALSE]
Exhausted(c) == [cursor |-> c, out |-> << >>, end |-> TRUE]

\* The columns both the hash and the index cursor keep, positions from 1.
NewCursor(variant, left, right) ==
  [variant |-> variant, left |-> left, right |-> right, left_position |-> 1,
   right_position |-> 1, match_position |-> 1, match_found |-> FALSE,
   matched_right |-> {}, unmatched_right_position |-> 1, ranges |-> << >>, sorted |-> << >>]

advance_left(c) == [c EXCEPT !.left_position = @ + 1, !.match_position = 1]

advance_right(c) == [c EXCEPT !.right_position = @ + 1, !.match_position = 1]

nested_advance_left(c) ==
  [c EXCEPT !.left_position = @ + 1, !.right_position = 1, !.match_found = FALSE]

nested_next_left(c) ==
  IF c.left_position > Len(c.left) THEN Exhausted(c)
  ELSE LET l == c.left[c.left_position]
       IN IF c.right_position <= Len(c.right)
          THEN LET r == c.right[c.right_position]
                   moved == [c EXCEPT !.right_position = @ + 1]
               IN CASE ~keys_match(l, r, last) -> Passed(moved, << >>)
                    [] keys_match(l, r, last) /\ last.kind \in {"semi", "anti"} ->
                         Passed(nested_advance_left(c),
                                IF last.kind = "semi" THEN <<l>> ELSE << >>)
                    [] OTHER -> Passed([moved EXCEPT !.match_found = TRUE], <<combine(l, r)>>)
          ELSE Passed(nested_advance_left(c),
                      IF ~c.match_found /\ last.kind \in {"left", "anti"} THEN <<l>> ELSE << >>)

nested_next_right(c) ==
  IF c.right_position > Len(c.right) THEN Exhausted(c)
  ELSE LET r == c.right[c.right_position]
       IN IF c.left_position <= Len(c.left)
          THEN LET l == c.left[c.left_position]
                   moved == [c EXCEPT !.left_position = @ + 1]
               IN IF keys_match(l, r, last)
                  THEN Passed([moved EXCEPT !.match_found = TRUE], <<combine(l, r)>>)
                  ELSE Passed(moved, << >>)
          ELSE Passed([c EXCEPT !.right_position = @ + 1, !.left_position = 1,
                                !.match_found = FALSE],
                      IF c.match_found THEN << >> ELSE <<r>>)

nested_next_cross(c) ==
  IF c.left_position > Len(c.left) \/ c.right = << >> THEN Exhausted(c)
  ELSE Passed(IF c.right_position = Len(c.right)
              THEN [c EXCEPT !.right_position = 1, !.left_position = @ + 1]
              ELSE [c EXCEPT !.right_position = @ + 1],
              <<combine(c.left[c.left_position], c.right[c.right_position])>>)

hash_next_left(c) ==
  IF c.left_position <= Len(c.left)
  THEN LET l == c.left[c.left_position]
           matches == MapGet(by_key(c.right, last.table), encoded_key(l, last.local))
       IN CASE last.kind \in {"semi", "anti"} ->
                 Passed(advance_left(c),
                        IF (matches # << >>) = (last.kind = "semi") THEN <<l>> ELSE << >>)
            [] last.kind \notin {"semi", "anti"} /\ c.match_position <= Len(matches) ->
                 Passed([c EXCEPT !.match_position = @ + 1,
                                  !.matched_right =
                                    IF last.kind = "full"
                                    THEN @ \union {matches[c.match_position]} ELSE @],
                        <<combine(l, matches[c.match_position])>>)
            [] OTHER ->
                 Passed(advance_left(c),
                        IF matches = << >> /\ last.kind \in {"left", "full"}
                        THEN <<l>> ELSE << >>)
  ELSE IF last.kind = "full" /\ c.unmatched_right_position <= Len(c.right)
  THEN LET r == c.right[c.unmatched_right_position]
       IN Passed([c EXCEPT !.unmatched_right_position = @ + 1],
                 IF r \in c.matched_right THEN << >> ELSE <<r>>)
  ELSE Exhausted(c)

hash_next_right(c) ==
  IF c.right_position > Len(c.right) THEN Exhausted(c)
  ELSE LET r == c.right[c.right_position]
           matches == MapGet(by_key(c.left, last.local), encoded_key(r, last.table))
       IN IF c.match_position <= Len(matches)
          THEN Passed([c EXCEPT !.match_position = @ + 1],
                      <<combine(matches[c.match_position], r)>>)
          ELSE Passed(advance_right(c), IF matches = << >> THEN <<r>> ELSE << >>)

index_next_row(c) ==
  IF c.left_position > Len(c.left) THEN Exhausted(c)
  ELSE LET l == c.left[c.left_position]
           current_matches == probe_rows(l, last.local, last.table)
       IN CASE last.kind \in {"semi", "anti"} ->
                 Passed(advance_left(c),
                        IF (current_matches # << >>) = (last.kind = "semi")
                        THEN <<l>> ELSE << >>)
            [] last.kind \notin {"semi", "anti"}
               /\ c.match_position <= Len(current_matches) ->
                 Passed([c EXCEPT !.match_position = @ + 1],
                        <<combine(l, current_matches[c.match_position])>>)
            [] OTHER ->
                 Passed(advance_left(c),
                        IF current_matches = << >> /\ last.kind = "left"
                        THEN <<l>> ELSE << >>)

\* OrderedMergeRows::new: ranges of the inner side for each outer position.
ordered_merge_rows(left, right, right_order) ==
  LET left_sorted == ordered_left(left, last.local)
      right_sorted == ordered_right(right, last.table, right_order)
      cursor0 == NewCursor("Merge", left, right)
  IN IF last.kind = "right"
     THEN [cursor0 EXCEPT !.sorted = left_sorted,
                          !.ranges = matching_ranges(right_sorted, left_sorted, Len(right))]
     ELSE [cursor0 EXCEPT !.sorted = right_sorted,
                          !.ranges = matching_ranges(left_sorted, right_sorted, Len(left))]

next_left_pair(c) ==
  IF c.left_position > Len(c.left) THEN Exhausted(c)
  ELSE LET l == c.left[c.left_position]
           range == c.ranges[c.left_position]
           rows == RangeRows(range, c.sorted, c.right)
       IN CASE last.kind \in {"semi", "anti"} ->
                 Passed(advance_left(c),
                        IF (range # << >>) = (last.kind = "semi") THEN <<l>> ELSE << >>)
            [] last.kind \notin {"semi", "anti"} /\ c.match_position <= Len(rows) ->
                 Passed([c EXCEPT !.match_position = @ + 1],
                        <<combine(l, rows[c.match_position])>>)
            [] OTHER ->
                 Passed(advance_left(c),
                        IF range = << >> /\ last.kind = "left" THEN <<l>> ELSE << >>)

next_right_pair(c) ==
  IF c.right_position > Len(c.right) THEN Exhausted(c)
  ELSE LET r == c.right[c.right_position]
           range == c.ranges[c.right_position]
           rows == RangeRows(range, c.sorted, c.left)
       IN IF c.match_position <= Len(rows)
          THEN Passed([c EXCEPT !.match_position = @ + 1],
                      <<combine(rows[c.match_position], r)>>)
          ELSE Passed(advance_right(c), IF range = << >> THEN <<r>> ELSE << >>)

\* IndexJoinRows::can_use: right joins would need reordering, full and cross have no probe.
can_use(kind) == kind \notin {"right", "full", "cross"}

planned(left, right, p) ==
  CASE p.strategy = "Merge" -> ordered_merge_rows(left, right, p.right_order[1])
    [] p.strategy = "IndexNestedLoop" /\ can_use(last.kind) -> NewCursor("Index", left, right)
    [] p.strategy = "NestedLoop" \/ p.fallback = "NestedLoop" ->
         NewCursor("Nested", left, right)
    [] OTHER -> NewCursor("Hash", left, right)

next_row(c) ==
  CASE c.variant = "Nested" /\ last.kind = "right" -> nested_next_right(c)
    [] c.variant = "Nested" /\ last.kind = "cross" -> nested_next_cross(c)
    [] c.variant = "Nested" /\ last.kind \notin {"right", "cross"} -> nested_next_left(c)
    [] c.variant = "Hash" /\ last.kind = "right" -> hash_next_right(c)
    [] c.variant = "Hash" /\ last.kind # "right" -> hash_next_left(c)
    [] c.variant = "Index" -> index_next_row(c)
    [] c.variant = "Merge" /\ last.kind = "right" -> next_right_pair(c)
    [] c.variant = "Merge" /\ last.kind # "right" -> next_left_pair(c)

-----------------------------------------------------------------------------
NotRun == [ok |-> TRUE, rows |-> << >>]
NoCursor == NewCursor("None", << >>, << >>)

\* A stage adds a new table and compares it with a table already joined.
validate_spec(spec, available) ==
  /\ spec.table \notin available
  /\ spec.local \in available

validate(specs) ==
  /\ Len(specs) <= MAX_JOIN_STAGES
  /\ \A i \in DOMAIN specs :
       validate_spec(specs[i], {Tables[1]} \union {specs[j].table : j \in 1..(i - 1)})

Requests ==
  {[specs |-> specs, filter |-> filter] :
     specs \in {s \in UNION {[1..n -> [kind : Kinds, table : Range(Tables),
                                        local : Range(Tables)]] : n \in StageCounts} :
                  validate(s) /\ \A i \in DOMAIN s : s[i].table = Tables[i + 1]},
     filter \in Filters}

Init ==
  /\ db \in [Range(Tables) -> UNION {[active -> Keys] : active \in Actives}]
  /\ indexes \in IndexChoices
  /\ request \in Requests
  /\ answers = [catalog |-> NotRun, snapshot |-> NotRun]
  /\ cursor = NoCursor
  /\ stage_rows = 0
  /\ output_rows = 0
  /\ sent = << >>
  /\ pc = "execute"

\* join::execute under the catalog's read lock, with the index sidecars; then the same
\* request on a captured read transaction, which is always historical.
execute ==
  /\ \E live \in BOOLEAN :
       /\ pc = IF live THEN "execute" ELSE "read"
       /\ answers' = [answers EXCEPT ![IF live THEN "catalog" ELSE "snapshot"] =
                         execute_with_source(live)]
       /\ pc' = IF live THEN "read" ELSE "open"
  /\ UNCHANGED <<db, indexes, request, cursor, stage_rows, output_rows, sent>>

\* join_pipeline::stream on the captured tables and indexes.
stream_open ==
  /\ pc = "open"
  /\ \E preceding \in {stages_of(Front(request.specs), TRUE)}, right \in {load_rows(last.table)} :
       IF \/ ~preceding.ok
          \/ last.kind = "cross" /\ Len(preceding.rows) * Len(right) > MAX_JOIN_ROWS
       THEN pc' = "failed" /\ UNCHANGED cursor
       ELSE /\ pc' = "stream"
            /\ cursor' = planned(preceding.rows, right,
                                 plan(preceding.rows, right, preceding.pages, last, TRUE))
  /\ UNCHANGED <<db, indexes, request, answers, stage_rows, output_rows, sent>>

limit_stage_rows == Len(request.specs) > 1

\* JoinRowStream::next, one pass of its loop.
stream_next ==
  /\ pc = "stream"
  /\ \E step \in {next_row(cursor)} :
     LET row == step.out[1]
         passes == row[Tables[1]] \in request.filter
         full == IF limit_stage_rows THEN stage_rows >= MAX_JOIN_ROWS
                 ELSE passes /\ output_rows >= MAX_JOIN_ROWS
     IN /\ cursor' = step.cursor
        /\ IF step.end
           THEN pc' = "done" /\ UNCHANGED <<stage_rows, output_rows, sent>>
           ELSE IF step.out = << >>
           THEN UNCHANGED <<pc, stage_rows, output_rows, sent>>
           ELSE IF full
           THEN pc' = "failed" /\ UNCHANGED <<stage_rows, output_rows, sent>>
           ELSE /\ stage_rows' = IF limit_stage_rows THEN stage_rows + 1 ELSE stage_rows
                /\ output_rows' =
                     IF ~limit_stage_rows /\ passes THEN output_rows + 1 ELSE output_rows
                /\ sent' = IF passes THEN Append(sent, row) ELSE sent
                /\ UNCHANGED pc
  /\ UNCHANGED <<db, indexes, request, answers>>

Ended == pc \in {"done", "failed"} /\ UNCHANGED vars

Next == execute \/ stream_open \/ stream_next \/ Ended

Spec == Init /\ [][Next]_vars

-----------------------------------------------------------------------------
(* The join as documented: the matching pairs, ordered.                    *)

\* Null and missing keys match nothing; other keys match when their values are equal.
Match(l, r, spec) ==
  /\ encoded_key(l, spec.local) # NoKey
  /\ encoded_key(r, spec.table) # NoKey
  /\ compare_keys(encoded_key(l, spec.local), encoded_key(r, spec.table)) = "Equal"

Pairs(left, right, spec) ==
  LET all == (1..Len(left)) \X (1..Len(right))
      matched == {p \in all : Match(left[p[1]], right[p[2]], spec)}
      only_left == {<<i, 0>> : i \in {i \in 1..Len(left) : \A p \in matched : p[1] # i}}
      only_right == {<<0, j>> : j \in {j \in 1..Len(right) : \A p \in matched : p[2] # j}}
  IN CASE spec.kind = "inner" -> matched
       [] spec.kind = "left" -> matched \union only_left
       [] spec.kind = "right" -> matched \union only_right
       [] spec.kind = "full" -> matched \union only_left \union only_right
       [] spec.kind = "semi" -> {<<p[1], 0>> : p \in matched}
       [] spec.kind = "anti" -> only_left
       [] spec.kind = "cross" -> all

\* Left-major with the unmatched right rows at the end; right-major for a right join.
Before(p, q, kind) ==
  LET last_left(x) == IF x[1] = 0 THEN 1 + Cardinality(UNION Actives) ^ 2 ELSE x[1]
  IN IF kind = "right" THEN p[2] < q[2] \/ (p[2] = q[2] /\ p[1] < q[1])
     ELSE last_left(p) < last_left(q) \/ (p[1] = q[1] /\ p[2] < q[2])

ReferenceStage(left, right, spec) ==
  LET at(rows, i) == IF i = 0 THEN NoRow ELSE rows[i]
      pairs == Sorted(Pairs(left, right, spec), LAMBDA p, q : Before(p, q, spec.kind))
  IN [i \in DOMAIN pairs |-> combine(at(left, pairs[i][1]), at(right, pairs[i][2]))]

\* The rows of the stages so far; a stage above the limit fails the request.
ReferenceRows(specs) ==
  FoldLeft(LAMBDA so_far, spec :
             IF ~so_far.ok THEN RowLimit
             ELSE push_combined(ReferenceStage(so_far.rows, load_rows(spec.table), spec)),
           Ok(load_rows(Tables[1])), specs)

\* A single stage counts the rows the filter keeps, a cross join all pairs.
ReferenceDirect(rows) ==
  IF Len(IF last.kind = "cross" THEN rows ELSE Filtered(rows)) > MAX_JOIN_ROWS
  THEN RowLimit ELSE Ok(Filtered(rows))

Reference ==
  IF limit_stage_rows THEN FilteredResult(ReferenceRows(request.specs))
  ELSE ReferenceDirect(ReferenceStage(load_rows(Tables[1]), load_rows(Tables[2]), last))

-----------------------------------------------------------------------------
(* Whatever strategy the costs select, and whether the request runs on the *)
(* catalog with its indexes or on a captured read transaction without,     *)
(* execute returns the matching rows in the documented order, or fails     *)
(* exactly when there are more than MAX_JOIN_ROWS.                         *)
EveryStrategyIsTheJoin ==
  pc = "open" => {answers.catalog, answers.snapshot} = {Reference}

(* The streamed join produces the rows of the materialised one, in order:  *)
(* a prefix while it runs, all of them when it ends, and it fails only     *)
(* when the materialised join fails.                                       *)
StreamIsTheJoin ==
  LET result == answers.catalog
  IN /\ pc = "stream" /\ result.ok => IsPrefix(sent, result.rows)
     /\ pc = "done" => Ok(sent) = result
     /\ pc = "failed" => ~result.ok

=============================================================================
