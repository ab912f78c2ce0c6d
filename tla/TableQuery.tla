------------------------------ MODULE TableQuery ------------------------------
(***************************************************************************)
(* Queries on one table (src/query.rs, src/query): the filter, the choice  *)
(* between a scan and the access paths of the index sidecar, the sort, and *)
(* the pages a client asks for one after the other, while writers change   *)
(* the table and the sidecar is built, rebuilt, refreshed, left behind by  *)
(* other programs or edited.                                               *)
(*                                                                         *)
(* A condition maps operators to operands; a condition that is a plain     *)
(* value has the single operator "".  A sort is a sequence of fields with  *)
(* directions.  The tag that binds a cursor to a table is the content of   *)
(* the table.                                                              *)
(***************************************************************************)
EXTENDS TableIndex

CONSTANTS
  Tables,                  \* the tables a behaviour may start from
  Rows,                    \* the field values of a record that a writer stores
  Definitions,             \* the index definitions of a sidecar
  Requests,                \* the query documents of the client
  TablePages, IndexPages,  \* logical pages of the table and of the sidecar
  MaxWrites, MaxRecords

VARIABLES
  table,     \* the table on disk
  sidecar,   \* the index sidecar, at most one
  built,     \* an index that was built and is not saved yet
  client,    \* the client and the pages it has received
  writes     \* changes of the files so far

vars == <<table, sidecar, built, client, writes>>

-----------------------------------------------------------------------------
(* Predicates.                                                             *)

field_value(values, field) == IF field \in DOMAIN values THEN <<values[field]>> ELSE << >>

\* DBF values are scalars, and values of different types do not compare.
compare_any(actual, operand, orderings) ==
  \E v \in ToSet(actual) : \E o \in ToSet(compare_scalar_values(v, operand)) : o \in orderings

equality_matches(value, expected) == value = expected

RECURSIVE matches_condition(_, _)
matches_condition(actual, condition) ==
  \A operator \in DOMAIN condition :
    LET operand == condition[operator]
        equal(expected) == \E v \in ToSet(actual) : equality_matches(v, expected)
    IN CASE operator \in {"", "$eq"} -> equal(operand)
         [] operator = "$ne" -> ~equal(operand)
         [] operator = "$gt" -> compare_any(actual, operand, {1})
         [] operator = "$gte" -> compare_any(actual, operand, {0, 1})
         [] operator = "$lt" -> compare_any(actual, operand, {-1})
         [] operator = "$lte" -> compare_any(actual, operand, {-1, 0})
         [] operator = "$in" -> \E i \in DOMAIN operand : equal(operand[i])
         [] operator = "$nin" -> \A i \in DOMAIN operand : ~equal(operand[i])
         [] operator = "$exists" -> (actual # << >>) = operand
         [] operator = "$not" -> ~matches_condition(actual, operand)

RECURSIVE matches_filter(_, _)
matches_filter(values, filter) ==
  \A key \in DOMAIN filter :
    CASE key = "$and" -> \A i \in DOMAIN filter[key] : matches_filter(values, filter[key][i])
      [] key = "$or" -> \E i \in DOMAIN filter[key] : matches_filter(values, filter[key][i])
      [] key = "$not" -> ~matches_filter(values, filter[key])
      [] OTHER -> matches_condition(field_value(values, key), filter[key])

-----------------------------------------------------------------------------
(* Order.                                                                  *)

compare_for_sort_with_collation(left, right, collation) ==
  IF left = << >> \/ right = << >> THEN compare(Len(left), Len(right))
  ELSE compare_keys_with_collation(left[1], right[1], collation)

directed(direction, order) == IF direction = 1 THEN order ELSE -order

compare_records_from(t, m, n, sort, skip, collation) ==
  LET order == first_difference([i \in 1..(Len(sort) - skip) |->
        LET key == sort[skip + i]
        IN directed(key[2], compare_for_sort_with_collation(
             field_value(t[m].values, key[1]), field_value(t[n].values, key[1]), collation))])
  IN IF order # 0 THEN order ELSE compare(m, n)

sort_records(t, records, sort, skip, collation) ==
  Sorted(ToSet(records),
         LAMBDA m, n : compare_records_from(t, m, n, sort, skip, collation) = -1)

(* Records that arrive in the order of the first keys are sorted by the    *)
(* other keys within each run of equal keys.                               *)
sort_ordered_prefix(t, records, sort, prefix_len, collation) ==
  LET same(m, n) == compare_for_sort_with_collation(
        field_value(t[m].values, sort[prefix_len][1]),
        field_value(t[n].values, sort[prefix_len][1]), collation) = 0
      add(runs, n) == IF runs # << >> /\ same(Last(runs)[1], n)
                        THEN [runs EXCEPT ![Len(runs)] = Append(@, n)]
                        ELSE Append(runs, <<n>>)
      runs == FoldLeft(add, << >>, records)
  IN FlattenSeq([i \in DOMAIN runs |-> sort_records(t, runs[i], sort, prefix_len, collation)])

-----------------------------------------------------------------------------
(* The planner.                                                            *)

equality_value(condition) ==
  IF "" \in DOMAIN condition THEN <<condition[""]>>
  ELSE IF "$eq" \in DOMAIN condition THEN <<condition["$eq"]>>
  ELSE << >>

FilterFields(filter) == SelectSeq(Fields, LAMBDA f : f \in DOMAIN filter)

equalities(filter) ==
  [f \in {g \in ToSet(FilterFields(filter)) : equality_value(filter[g]) # << >>} |->
     equality_value(filter[f])[1]]

\* Two bounds of one side leave the condition to the filter.
range_bounds(condition) ==
  LET bounds(strict, inclusive) ==
        SelectSeq(<<[op |-> strict, incl |-> FALSE], [op |-> inclusive, incl |-> TRUE]>>,
                  LAMBDA b : b.op \in DOMAIN condition)
      side(bs) == [i \in DOMAIN bs |-> [value |-> condition[bs[i].op], inclusive |-> bs[i].incl]]
      lower == side(bounds("$gt", "$gte"))
      upper == side(bounds("$lt", "$lte"))
  IN IF Len(lower) > 1 \/ Len(upper) > 1 \/ lower \o upper = << >>
       THEN << >> ELSE <<[lower |-> lower, upper |-> upper]>>

table_scan == [kind |-> "TableScan", names |-> << >>, records |-> << >>, ordered_prefix |-> 0]

access(kind, names, records) ==
  [kind |-> kind, names |-> names, records |-> <<records>>, ordered_prefix |-> 0]

estimated_sort_cost(record_count, ordered_prefix) ==
  IF record_count < 2 THEN 0
  ELSE record_count * ilog2(record_count) - IF ordered_prefix = 0 THEN 0 ELSE record_count

estimated_record_page_reads(plan, active, candidate_rows) ==
  IF candidate_rows = 0 THEN 0
  ELSE IF plan.kind = "TableScan" \/ candidate_rows >= active THEN TablePages
  ELSE Min({candidate_rows, TablePages})

\* The reads and the total of the estimate are only reported.
estimated_cost(plan, file, active, sort) ==
  LET rows == IF plan.records = << >> THEN active ELSE Len(plan.records[1])
  IN [candidate_rows |-> rows,
      index_traversal |-> MapThenSumSet(
                            LAMBDA i : index_traversal_cost(file, plan.names[i]),
                            DOMAIN plan.names),
      index_page_reads |-> IF plan.kind = "TableScan" THEN 0 ELSE IndexPages,
      record_page_reads |-> estimated_record_page_reads(plan, active, rows),
      sort_work |-> IF Len(sort) > plan.ordered_prefix
                      THEN estimated_sort_cost(rows, plan.ordered_prefix) ELSE 0]

selection_cost(cost) ==
  <<cost.candidate_rows + cost.index_traversal + cost.sort_work,
    cost.index_page_reads + cost.record_page_reads>>

\* The first plan with the least key, if any.
min_by_key(plans, keys) ==
  LET order(i, j) == first_difference([k \in 1..3 |-> compare(keys[i][k], keys[j][k])])
      first(i) == \A j \in DOMAIN plans : order(i, j) < IF i <= j THEN 1 ELSE 0
  IN IF plans = << >> THEN << >> ELSE <<plans[CHOOSE i \in DOMAIN plans : first(i)]>>

\* Among plans of equal cost the kinds in last come last.
cheapest(plans, last, file, active, sort) ==
  min_by_key(plans, [i \in DOMAIN plans |->
    selection_cost(estimated_cost(plans[i], file, active, sort))
      \o <<IF plans[i].kind \in last THEN 1 ELSE 0>>])

\* The equality fields, those with the smallest estimate first.
equality_fields(file, filter) ==
  LET estimate(f) == equality_selectivity_estimate(file, f)
      fields == DOMAIN equalities(filter)
  IN Sorted({f \in fields : estimate(f) # << >>},
            LAMBDA f, g : \/ estimate(f)[1] < estimate(g)[1]
                          \/ /\ estimate(f)[1] = estimate(g)[1]
                             /\ position(Fields, f) < position(Fields, g))

compound_candidates(index, equal) ==
  LET fields == index.definition.fields
      prefixes == SelectSeq([n \in 1..(Len(fields) - 1) |-> SubSeq(fields, 1, n)],
                            LAMBDA p : equality_prefix(equal, p) # << >>)
      values == equality_prefix(equal, fields)
  IN [i \in DOMAIN prefixes |->
        access("CompoundEqualityPrefixIndex", <<index.definition.name>>,
          lookup_eq_prefix_for_named_fields(index, equality_prefix(equal, prefixes[i])[1]))]
     \o IF values = << >> THEN << >>
        ELSE <<access("CompoundEqualityIndex", <<index.definition.name>>,
                      lookup_eq_for_named_fields(index, values[1]))>>

intersection(lists) ==
  SelectSeq(lists[1], LAMBDA n : \A i \in 2..Len(lists) : n \in ToSet(lists[i]))

\* The records each equality finds in a single-field index.
equality_indexes(file, equal, fields) ==
  [i \in DOMAIN fields |-> lookup_eq_for_field(file, fields[i], equal[fields[i]])[1]]

equality_plans(single, compound, equal) ==
  (IF Len(single) <= 1 THEN << >>
   ELSE <<access("IndexIntersection", [i \in DOMAIN single |-> single[i].name],
                 intersection([i \in DOMAIN single |-> single[i].records]))>>)
  \o FlattenSeq([i \in DOMAIN compound |-> compound_candidates(compound[i], equal)])
  \o [i \in DOMAIN single |-> access("EqualityIndex", <<single[i].name>>, single[i].records)]

choose_equality(file, filter) ==
  LET equal == equalities(filter)
  IN equality_plans(equality_indexes(file, equal, equality_fields(file, filter)),
                    compound_indexes(file), equal)

\* A field without an estimate counts as the largest.
Smaller(estimate, other) ==
  estimate # << >> /\ (other = << >> \/ estimate[1] < other[1])

range_fields(file, filter) ==
  LET estimate(f, bounds) == range_selectivity_estimate(file, f, bounds.lower, bounds.upper)
      smaller(f, g) == Smaller(estimate(f, range_bounds(filter[f])[1]),
                               estimate(g, range_bounds(filter[g])[1]))
  IN Sorted({f \in ToSet(FilterFields(filter)) : range_bounds(filter[f]) # << >>},
            LAMBDA f, g : \/ smaller(f, g)
                          \/ ~smaller(g, f) /\ position(Fields, f) < position(Fields, g))

range_plans(file, f, bounds, equal) ==
  LET plans(found) ==
        [i \in DOMAIN found |-> access("RangeIndex", <<found[i].name>>, found[i].records)]
  IN plans(lookup_compound_range_for_field(file, f, bounds.lower, bounds.upper, equal)
             \o lookup_range_for_field(file, f, bounds.lower, bounds.upper))

choose_range(file, request, active) ==
  LET plans(f) == range_plans(file, f, range_bounds(request.filter[f])[1],
                              equalities(request.filter))
      of_each(fields) == FlattenSeq([i \in DOMAIN fields |-> plans(fields[i])])
  IN cheapest(of_each(range_fields(file, request.filter)), {}, file, active, request.sort)

choose_ordered(file, request) ==
  LET sort == request.sort
      fields == [i \in DOMAIN sort |-> sort[i][1]]
      directions == [i \in DOMAIN sort |-> sort[i][2]]
      whole == lookup_ordered_for_fields(file, fields, directions,
                                         equalities(request.filter), request.collation)
      first == lookup_ordered_for_field(file, sort[1][1], sort[1][2] = -1, request.collation)
      ordered(found, prefix) ==
        <<[access("OrderedIndex", <<found.name>>, found.records) EXCEPT !.ordered_prefix = prefix]>>
  IN IF sort = << >> THEN << >>
     ELSE IF whole # << >> THEN ordered(whole[1], Len(sort))
     ELSE IF first # << >> THEN ordered(first[1], 1)
     ELSE << >>

choose_from_index(file, request) ==
  LET active == active_record_count(file)
  IN cheapest(<<table_scan>> \o choose_equality(file, request.filter)
                \o choose_range(file, request, active) \o choose_ordered(file, request),
              {"CompoundEqualityPrefixIndex"}, file, active, request.sort)[1]

choose(file, request) ==
  IF file = << >> THEN table_scan ELSE choose_from_index(file[1], request)

choose_with_table(files, t, request) == choose(load_with_table(files, t), request)

-----------------------------------------------------------------------------
(* Pages.  A cursor is a physical position or the keys of a sorted record; *)
(* one without a snapshot tag was issued by an older release.              *)

is_page(request) == request.page_size # << >>
is_physical_page(request) == is_page(request) /\ request.sort = << >>
is_sorted_page(request) == is_page(request) /\ request.sort # << >>

Refused == [ok |-> FALSE, records |-> << >>, next_cursor |-> << >>]
Page(records, next_cursor) == [ok |-> TRUE, records |-> records, next_cursor |-> next_cursor]

\* Mutant: the snapshot tag is ignored.
validate_cursor_snapshot_never(cursor, t) == TRUE

validate_cursor_snapshot(cursor, t) == cursor.snapshot # << >> => cursor.snapshot[1] = t

physical_cursor(record, t) == [kind |-> "physical", record |-> record, snapshot |-> <<t>>]

validate_parsed_cursor(cursor, request) ==
  /\ cursor.kind = "sorted"
  /\ Len(cursor.keys) = Len(request.sort)
  /\ cursor.collation = request.collation
  /\ \A i \in DOMAIN request.sort :
       /\ cursor.keys[i].field = request.sort[i][1]
       /\ cursor.keys[i].direction = request.sort[i][2]

encode_cursor(t, n, request) ==
  [kind |-> "sorted", record |-> n, collation |-> request.collation, snapshot |-> <<t>>,
   keys |-> [i \in DOMAIN request.sort |->
               [field |-> request.sort[i][1], direction |-> request.sort[i][2],
                value |-> field_value(t[n].values, request.sort[i][1])]]]

\* Mutant: the direction of a key is forgotten.
compare_record_to_cursor_up(t, n, cursor, sort, collation) ==
  LET order == first_difference([i \in DOMAIN sort |->
        compare_for_sort_with_collation(
          field_value(t[n].values, sort[i][1]), cursor.keys[i].value, collation)])
  IN IF order # 0 THEN order ELSE compare(n, cursor.record)

compare_record_to_cursor(t, n, cursor, sort, collation) ==
  LET order == first_difference([i \in DOMAIN sort |->
        directed(sort[i][2], compare_for_sort_with_collation(
          field_value(t[n].values, sort[i][1]), cursor.keys[i].value, collation))])
  IN IF order # 0 THEN order ELSE compare(n, cursor.record)

truncate(seq, bound) == IF bound = << >> THEN seq ELSE SubSeq(seq, 1, Min({Len(seq), bound[1]}))

pagination_validate(request, cursor) ==
  /\ is_page(request) => request.page_size[1] >= 1 /\ request.skip = << >>
  /\ cursor # << >> => is_page(request)
  /\ cursor # << >> => IF request.sort = << >> THEN cursor[1].kind = "physical"
                       ELSE validate_parsed_cursor(cursor[1], request)

validate(request, cursor) ==
  /\ pagination_validate(request, cursor)
  /\ request.collation # NoCollation => request.sort # << >>
  /\ \A i \in DOMAIN request.sort : request.sort[i][2] \in {-1, 1}

(* Active records after the cursor, in record order, until the page is     *)
(* full and one more record shows that there is another page.              *)
execute_physical_page(t, request, cursor) ==
  LET position_of == IF cursor = << >> THEN 0 ELSE cursor[1].record
      matching == {n \in active_records(t) :
                     n > position_of /\ matches_filter(t[n].values, request.filter)}
      reached == truncate(Ascending(matching), request.limit)
      records == truncate(reached, request.page_size)
  IN IF cursor # << >> /\ ~validate_cursor_snapshot(cursor[1], t) THEN Refused
     ELSE Page(records, IF Len(reached) > Len(records)
                          THEN <<physical_cursor(Last(records), t)>> ELSE << >>)

apply_sorted(t, sorted, request, cursor) ==
  LET after == IF cursor = << >> THEN sorted
               ELSE SelectSeq(sorted, LAMBDA n :
                      compare_record_to_cursor(t, n, cursor[1], request.sort,
                                               request.collation) = 1)
      reached == truncate(after, request.limit)
      records == truncate(reached, request.page_size)
  IN IF cursor # << >> /\ ~validate_cursor_snapshot(cursor[1], t) THEN Refused
     ELSE Page(records, IF Len(reached) > Len(records)
                          THEN <<encode_cursor(t, Last(records), request)>> ELSE << >>)

skip_of(request) == IF request.skip = << >> THEN 0 ELSE request.skip[1]

apply(sorted, request) ==
  Page(truncate(SubSeq(sorted, skip_of(request) + 1, Len(sorted)), request.limit), << >>)

execute_query_with_records(t, request, cursor, plan) ==
  LET candidates == IF plan.records = << >> THEN Ascending(active_records(t))
                    ELSE SelectSeq(plan.records[1], LAMBDA n : n \in active_records(t))
      matching == SelectSeq(candidates, LAMBDA n : matches_filter(t[n].values, request.filter))
      sorted == IF plan.ordered_prefix = 0
                  THEN sort_records(t, matching, request.sort, 0, request.collation)
                ELSE IF plan.ordered_prefix < Len(request.sort)
                  THEN sort_ordered_prefix(t, matching, request.sort, plan.ordered_prefix,
                                           request.collation)
                ELSE matching
  IN IF is_sorted_page(request) THEN apply_sorted(t, sorted, request, cursor)
                                ELSE apply(sorted, request)

\* The shared table lock makes the table and the sidecar one state of the disk.
execute_query_consistent_at_page(t, files, request, cursor) ==
  IF ~validate(request, cursor) THEN Refused
  ELSE IF is_physical_page(request) THEN execute_physical_page(t, request, cursor)
  ELSE execute_query_with_records(t, request, cursor, choose_with_table(files, t, request))

-----------------------------------------------------------------------------
(* The processes.                                                          *)

Idle == [status |-> "idle", request |-> << >>, cursor |-> << >>, got |-> << >>, seen |-> {},
         legacy |-> FALSE]

Sort(request) == <<request.sort, request.collation>>

\* An older release leaves the tag out of its cursors.
Untagged(cursor) == [i \in DOMAIN cursor |-> [cursor[i] EXCEPT !.snapshot = << >>]]

Init ==
  /\ table \in Tables
  /\ sidecar \in {<<build(table, d)>> : d \in Definitions} \union {<< >>}
  /\ built = << >>
  /\ client = Idle
  /\ writes = 0

Receive(request, page, legacy) ==
  client' = [status |-> IF ~page.ok THEN "refused"
                        ELSE IF page.next_cursor = << >> THEN "done" ELSE "paging",
             request |-> <<request>>,
             cursor |-> IF legacy THEN Untagged(page.next_cursor) ELSE page.next_cursor,
             got |-> client.got \o page.records,
             seen |-> IF page.ok THEN client.seen \union {<<table, Sort(request)>>}
                                 ELSE client.seen,
             legacy |-> legacy \/ client.legacy]

(* What the client may ask for: a first page, the next page of its query,  *)
(* or, with the cursor it has, a page of a query of another order.         *)
Asked ==
  CASE client.status = "idle" ->
         {[request |-> r, cursor |-> << >>, legacy |-> legacy] :
            r \in Requests, legacy \in BOOLEAN}
    [] client.status = "paging" ->
         {[request |-> r, cursor |-> client.cursor, legacy |-> FALSE] :
            r \in {client.request[1]}
                  \union {r \in Requests : is_page(r) /\ Sort(r) # Sort(client.request[1])}}
    [] OTHER -> {}

AskPage ==
  /\ \E a \in Asked :
       /\ a.legacy => is_page(a.request)
       /\ Receive(a.request, execute_query_consistent_at_page(table, sidecar, a.request, a.cursor),
                  a.legacy)
  /\ UNCHANGED <<table, sidecar, built, writes>>

\* What writers and other programs make of a table.
Edited(t) ==
  LET records == [deleted : {FALSE}, values : Rows]
                   \union [deleted : {TRUE}, values : {t[n].values : n \in DOMAIN t}]
  IN ({[t EXCEPT ![n] = r] : n \in DOMAIN t, r \in records}
        \union {Append(t, r) : r \in {x \in records : ~x.deleted /\ Len(t) < MaxRecords}}) \ {t}

\* A commit of a writer refreshes the sidecar.
Commit ==
  /\ writes < MaxWrites
  /\ can_refresh(sidecar)
  /\ table' \in Edited(table)
  /\ sidecar' = refreshed_index(sidecar, table')
  /\ writes' = writes + 1
  /\ UNCHANGED <<built, client>>

\* A legacy program writes the table and leaves the sidecar behind.
DirectEdit ==
  /\ writes < MaxWrites
  /\ table' \in Edited(table)
  /\ writes' = writes + 1
  /\ UNCHANGED <<sidecar, built, client>>

Build ==
  /\ writes < MaxWrites
  /\ built = << >>
  /\ \E definitions \in Definitions :
       validate_definitions(definitions) /\ built' = <<build(table, definitions)>>
  /\ writes' = writes + 1
  /\ UNCHANGED <<table, sidecar, client>>

Rebuild ==
  /\ writes < MaxWrites
  /\ built = << >>
  /\ sidecar # << >>
  /\ validate_definitions(definitions_of(sidecar[1]))
  /\ built' = <<build(table, definitions_of(sidecar[1]))>>
  /\ writes' = writes + 1
  /\ UNCHANGED <<table, sidecar, client>>

\* An index of another table than the one on disk is stale and not written.
Save ==
  /\ built # << >>
  /\ sidecar' = IF validate_shape(built[1]) /\ built[1].source = table THEN built ELSE sidecar
  /\ built' = << >>
  /\ UNCHANGED <<table, client, writes>>

(* The sidecar is an ordinary file: records added to, taken from and moved *)
(* between its entries, entries exchanged, statistics missing or wrong.    *)
Tampered(file) ==
  LET entry == [i : DOMAIN file.indexes, e : 1..MaxRecords, n : 1..MaxRecords]
      hits == {c \in entry : c.e \in DOMAIN file.indexes[c.i].entries}
      set(f, c, S) == [f EXCEPT !.indexes[c.i].entries[c.e].records = Ascending(S)]
      held(c) == ToSet(file.indexes[c.i].entries[c.e].records)
  IN {set(file, c, held(c) \union {c.n}) : c \in hits}
     \union {set(file, c, held(c) \ {c.n}) : c \in hits}
     \union {set(set(file, c, held(c) \ {c.n}), d, held(d) \union {c.n}) :
                c \in hits, d \in {x \in hits : x.n = 1}}
     \union {[file EXCEPT !.indexes[i].entries = Reverse(@)] : i \in DOMAIN file.indexes}
     \union {[file EXCEPT !.statistics = << >>]}
     \union {[file EXCEPT !.statistics[1].active_record_count = @ + 1] :
                x \in {1 : y \in DOMAIN file.statistics}}

Tamper ==
  /\ writes < MaxWrites
  /\ sidecar # << >>
  /\ \E file \in Tampered(sidecar[1]) : sidecar' = <<file>>
  /\ writes' = writes + 1
  /\ UNCHANGED <<table, built, client>>

Next ==
  \/ AskPage
  \/ Commit \/ DirectEdit \/ Tamper
  \/ Build \/ Rebuild \/ Save

Spec == Init /\ [][Next]_vars

-----------------------------------------------------------------------------
(* What the documents promise of a query.                                  *)

Rank(value, collation) ==
  IF value = << >> THEN <<0, 0>>
  ELSE IF value[1][1] = TEXT /\ collation # NoCollation
    THEN <<TEXT, CollationKey(value[1][2])>> ELSE <<value[1][1], value[1][2]>>

Precedes(r, s, direction) ==
  IF direction = 1 THEN r[1] < s[1] \/ (r[1] = s[1] /\ r[2] < s[2])
                   ELSE s[1] < r[1] \/ (s[1] = r[1] /\ s[2] < r[2])

\* Keys k come before keys l, or are equal with m before n.
KeysBefore(k, m, l, n, sort) ==
  \/ \E i \in DOMAIN sort : /\ Precedes(k[i], l[i], sort[i][2])
                            /\ \A j \in 1..(i - 1) : k[j] = l[j]
  \/ k = l /\ m < n

Ranks(values, request) ==
  [i \in DOMAIN request.sort |->
     Rank(field_value(values, request.sort[i][1]), request.collation)]

(* The matching records in the order of the sort, ties in record order,    *)
(* after skip and limit.  A limit bounds each page, so that one above the  *)
(* page size bounds nothing.                                               *)
Result(t, request) ==
  LET sorted == Sorted({n \in active_records(t) : matches_filter(t[n].values, request.filter)},
                  LAMBDA m, n : KeysBefore(Ranks(t[m].values, request), m,
                                           Ranks(t[n].values, request), n, request.sort))
      limited == IF is_page(request) /\ request.limit # << >>
                   THEN request.limit[1] <= request.page_size[1] ELSE TRUE
  IN truncate(SubSeq(sorted, skip_of(request) + 1, Len(sorted)),
              IF limited THEN request.limit ELSE << >>)

Finished == client.status = "done" /\ Cardinality(client.seen) = 1

ReadTable == (CHOOSE s \in client.seen : TRUE)[1]

(* Whatever access path the planner chose for each page, and whatever      *)
(* state the sidecar was in, the pages of a query on one table are, one    *)
(* after the other, exactly the records the scan would return, each once   *)
(* and in order.                                                           *)
PagesAreTheResult == Finished => client.got = Result(ReadTable, client.request[1])

(* The pages of a query on one table hold every matching record.           *)
NoRecordIsLost == Finished => ToSet(client.got) = ToSet(Result(ReadTable, client.request[1]))

(* The pages a client is served all belong to one order, and, unless it    *)
(* holds a cursor of an older release, to one state of the table.          *)
OneReadingPerCursor ==
  /\ Cardinality({s[2] : s \in client.seen}) <= 1
  /\ ~client.legacy => Cardinality(client.seen) <= 1

(* A sidecar that a reader accepts holds, entry by entry, the records that *)
(* an index built from the table would hold.                               *)
AcceptedSidecarIsRebuilt ==
  load_with_table(sidecar, table) # << >> =>
    LET rebuilt == build_indexes(table, definitions_of(sidecar[1]))
    IN \A i \in DOMAIN rebuilt :
         /\ Len(sidecar[1].indexes[i].entries) = Len(rebuilt[i].entries)
         /\ \A e \in DOMAIN rebuilt[i].entries :
              sidecar[1].indexes[i].entries[e].records = rebuilt[i].entries[e].records

===============================================================================
