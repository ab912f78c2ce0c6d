------------------------------ MODULE TableIndex ------------------------------
(***************************************************************************)
(* The secondary indexes of a table (src/index): how a sidecar is built    *)
(* from the active records, what makes a sidecar acceptable, its           *)
(* histogram, and the lookups the query planner asks of it.                *)
(*                                                                         *)
(* A value is <<domain, position, form>>: the rank of its JSON type, its   *)
(* place in the order of that type, and whether a number is written as a   *)
(* decimal (0) or as an integer (1).  A key is the sequence of the values  *)
(* of the indexed fields.  A table is a sequence of records.  An ordering  *)
(* is -1, 0 or 1.                                                          *)
(***************************************************************************)
EXTENDS Integers, Sequences, FiniteSets, FiniteSetsExt, SequencesExt

CONSTANTS
  Fields,                  \* the user fields of the table, in name order
  CollationKey(_),         \* the collation key of a string's position
  HISTOGRAM_BUCKET_LIMIT

NULL_DOMAIN == 1
NUMBER == 3
TEXT == 4
Null == <<NULL_DOMAIN, 0, 1>>
NoCollation == "none"

Sorted(S, Less(_, _)) ==
  [i \in 1..Cardinality(S) |-> CHOOSE x \in S : Cardinality({y \in S : Less(y, x)}) = i - 1]

Ascending(S) == Sorted(S, LAMBDA m, n : m < n)

ceil_div(a, b) == (a + b - 1) \div b

ilog2(n) == CHOOSE k \in 0..n : 2^k <= n /\ n < 2^(k + 1)

\* Options are sequences of at most one element.
find(seq, Test(_)) ==
  LET found == SelectSeq(seq, Test) IN IF found = << >> THEN << >> ELSE <<found[1]>>

compare(m, n) == IF m < n THEN -1 ELSE IF m = n THEN 0 ELSE 1

first_difference(orderings) ==
  LET differ == {i \in DOMAIN orderings : orderings[i] # 0}
  IN IF differ = {} THEN 0 ELSE orderings[Min(differ)]

active_records(table) == {n \in DOMAIN table : ~table[n].deleted}

-----------------------------------------------------------------------------
(* Ordering.                                                               *)

compare_scalar_values(v, w) == IF v[1] # w[1] THEN << >> ELSE <<compare(v[2], w[2])>>

collation_compare(v, w) == compare(CollationKey(v[2]), CollationKey(w[2]))

compare_keys_with_collation(v, w, collation) ==
  IF v[1] # w[1] THEN compare(v[1], w[1])
  ELSE IF v[1] = TEXT /\ collation # NoCollation THEN collation_compare(v, w)
  ELSE compare(v[2], w[2])

compare_keys(v, w) == compare_keys_with_collation(v, w, NoCollation)

compare_index_keys(k, m, directions, collation) ==
  first_difference([i \in DOMAIN k |->
    IF Len(k) > 1 /\ directions[i] = -1
      THEN -compare_keys_with_collation(k[i], m[i], collation)
      ELSE compare_keys_with_collation(k[i], m[i], collation)])

compare_index_prefix(key, prefix, directions) ==
  first_difference([i \in DOMAIN prefix |->
    IF directions[i] = -1 THEN -compare_keys(key[i], prefix[i])
                          ELSE compare_keys(key[i], prefix[i])])

key_domain(key) == key[1][1]

compare_key_to_value(key, value) == compare_scalar_values(key[1], value)

from_value(value, collation) ==
  IF value[1] = TEXT /\ collation # NoCollation
    THEN <<TEXT, CollationKey(value[2]), value[3]>>
    ELSE value

from_values(values, collation) == [i \in DOMAIN values |-> from_value(values[i], collation)]

-----------------------------------------------------------------------------
(* Building and validating.                                                *)

validate_definition(d, names) ==
  /\ d.name \notin names
  /\ d.fields # << >>
  /\ Len(d.directions) = Len(d.fields)
  /\ \A i \in DOMAIN d.directions : d.directions[i] \in {-1, 1}
  /\ Len(d.fields) = 1 => d.directions[1] = 1
  /\ IsInjective(d.fields)
  /\ ToSet(d.fields) \subseteq ToSet(Fields)

validate_definitions(definitions) ==
  /\ definitions # << >>
  /\ \A i \in DOMAIN definitions :
       validate_definition(definitions[i], {definitions[j].name : j \in 1..(i - 1)})

record_key(record, d) ==
  from_values([i \in DOMAIN d.fields |-> record.values[d.fields[i]]], d.collation)

\* The JSON text of a key, as far as it orders keys that compare equal.
key_token(key) == [i \in DOMAIN key |-> key[i][3]]

TokenLess(k, m) ==
  first_difference([i \in DOMAIN k |-> compare(key_token(k)[i], key_token(m)[i])]) = -1

merge_entry(d, merged, entry) ==
  IF /\ merged # << >>
     /\ compare_index_keys(Last(merged).key, entry.key, d.directions, d.collation) = 0
    THEN [merged EXCEPT ![Len(merged)].records =
            Ascending(ToSet(@) \union ToSet(entry.records))]
    ELSE Append(merged, entry)

build_index(table, d) ==
  LET key(n) == record_key(table[n], d)
      keys == Sorted({key(n) : n \in active_records(table)},
                LAMBDA k, m :
                  LET order == compare_index_keys(k, m, d.directions, d.collation)
                  IN order = -1 \/ (order = 0 /\ TokenLess(k, m)))
      entries == [i \in DOMAIN keys |->
                    [key |-> keys[i],
                     records |-> Ascending({n \in active_records(table) : key(n) = keys[i]})]]
  IN [definition |-> d,
      entries |-> FoldLeft(LAMBDA merged, entry : merge_entry(d, merged, entry), << >>, entries)]

build_indexes(table, definitions) ==
  [i \in DOMAIN definitions |-> build_index(table, definitions[i])]

StrictlyIncreasing(records) ==
  \A i \in DOMAIN records : records[i] > IF i = 1 THEN 0 ELSE records[i - 1]

validate_key(key, field_count) == Len(key) = field_count

validate_entries(index) ==
  \A i \in DOMAIN index.entries :
    LET entry == index.entries[i] d == index.definition
    IN /\ entry.records # << >>
       /\ validate_key(entry.key, Len(d.fields))
       /\ i > 1 => compare_index_keys(index.entries[i - 1].key, entry.key,
                                      d.directions, d.collation) = -1
       /\ StrictlyIncreasing(entry.records)

definitions_of(file) == [i \in DOMAIN file.indexes |-> file.indexes[i].definition]

validate_shape(file) ==
  /\ validate_definitions(definitions_of(file))
  /\ \A i \in DOMAIN file.indexes : validate_entries(file.indexes[i])

indexed_records(index) == MapThenSumSet(LAMBDA i : Len(index.entries[i].records),
                                        DOMAIN index.entries)

-----------------------------------------------------------------------------
(* Statistics.                                                             *)

bucket_of(entry) ==
  [lower |-> entry.key, upper |-> entry.key, distinct_key_count |-> 1,
   record_count |-> Len(entry.records)]

extend_bucket(bucket, entry) ==
  [bucket EXCEPT !.upper = entry.key,
                 !.distinct_key_count = @ + 1,
                 !.record_count = @ + Len(entry.records)]

(* Buckets of one domain, each filled until it holds its share of the      *)
(* records.                                                                *)
append_domain_histogram(entries) ==
  LET total == MapThenSumSet(LAMBDA i : Len(entries[i].records), DOMAIN entries)
      target == Max({1, ceil_div(total, HISTOGRAM_BUCKET_LIMIT)})
      add(histogram, entry) ==
        IF histogram = << >> \/ Last(histogram).record_count >= target
          THEN Append(histogram, bucket_of(entry))
          ELSE [histogram EXCEPT ![Len(histogram)] = extend_bucket(@, entry)]
  IN FoldLeft(add, << >>, entries)

build_histogram(index) ==
  IF Len(index.definition.fields) # 1 THEN << >>
  ELSE FlattenSeq([domain \in NULL_DOMAIN..TEXT |->
         append_domain_histogram(
           SelectSeq(index.entries, LAMBDA entry : key_domain(entry.key) = domain))])

statistics_build(active_record_count, indexes) ==
  [active_record_count |-> active_record_count,
   indexes |-> [i \in DOMAIN indexes |->
                  [name |-> indexes[i].definition.name,
                   histogram |-> build_histogram(indexes[i])]]]

bucket_overlaps(bucket, lower, upper) ==
  /\ \A b \in ToSet(lower) :
       LET order == compare_key_to_value(bucket.upper, b.value)
       IN order = <<1>> \/ (order = <<0>> /\ b.inclusive)
  /\ \A b \in ToSet(upper) :
       LET order == compare_key_to_value(bucket.lower, b.value)
       IN order = <<-1>> \/ (order = <<0>> /\ b.inclusive)

range_domain(lower, upper) == (lower \o upper)[1].value[1]

domains_differ(lower, upper) ==
  lower # << >> /\ upper # << >> /\ lower[1].value[1] # upper[1].value[1]

range_estimate(statistics, name, lower, upper) ==
  LET histogram == find(statistics.indexes, LAMBDA s : s.name = name)[1].histogram
      hit == {i \in DOMAIN histogram :
                /\ key_domain(histogram[i].lower) = range_domain(lower, upper)
                /\ bucket_overlaps(histogram[i], lower, upper)}
  IN IF domains_differ(lower, upper) THEN 0
     ELSE MapThenSumSet(LAMBDA i : histogram[i].record_count, hit)

-----------------------------------------------------------------------------
(* The sidecar.  Its fingerprint is the content of the table it was built  *)
(* from; a sidecar of an older release has no statistics.                  *)

build(table, definitions) ==
  LET indexes == build_indexes(table, definitions)
  IN [source |-> table,
      statistics |-> <<statistics_build(Cardinality(active_records(table)), indexes)>>,
      indexes |-> indexes]

validate_index_for_table(index, table) ==
  /\ indexed_records(index) = Cardinality(active_records(table))
  /\ \A n \in active_records(table) :
       \E i \in DOMAIN index.entries :
         /\ compare_index_keys(index.entries[i].key, record_key(table[n], index.definition),
                               index.definition.directions, index.definition.collation) = 0
         /\ n \in ToSet(index.entries[i].records)

validate_for_table(file, table) ==
  /\ validate_shape(file)
  /\ \A i \in DOMAIN file.indexes : validate_index_for_table(file.indexes[i], table)
  /\ file.statistics # << >> =>
       file.statistics[1] = statistics_build(Cardinality(active_records(table)), file.indexes)

load_with_table(sidecar, table) ==
  IF /\ sidecar # << >>
     /\ validate_shape(sidecar[1])
     /\ sidecar[1].source = table
     /\ validate_for_table(sidecar[1], table)
    THEN sidecar ELSE << >>

\* What a commit writes next to the new table; a sidecar it cannot read stops it.
can_refresh(sidecar) == \A file \in ToSet(sidecar) : validate_shape(file)

\* A rebuilt index that says the same is not written again.
Refreshed(existing, file) ==
  IF existing.source = file.source /\ existing.indexes = file.indexes THEN existing ELSE file

refreshed_index(sidecar, table) ==
  [i \in DOMAIN sidecar |->
     Refreshed(sidecar[i], build(table, definitions_of(sidecar[i])))]

active_record_count(file) ==
  IF file.statistics # << >> THEN file.statistics[1].active_record_count
                             ELSE indexed_records(file.indexes[1])

-----------------------------------------------------------------------------
(* Lookups.                                                                *)

\* How many items come before the first one that satisfies a monotone predicate;
\* satisfies[i] says whether item i does.
lower_bound(satisfies) ==
  LET search[left \in 0..Len(satisfies), right \in 0..Len(satisfies)] ==
        LET middle == left + (right - left) \div 2
        IN IF left >= right THEN left
           ELSE IF satisfies[middle + 1] THEN search[left, middle]
           ELSE search[middle + 1, right]
  IN search[0, Len(satisfies)]

records_of(entries) == FlattenSeq([i \in DOMAIN entries |-> entries[i].records])

sort_unstable(records) == Ascending(ToSet(records))

field_index(file, field) ==
  find(file.indexes, LAMBDA x : /\ x.definition.collation = NoCollation
                                /\ x.definition.fields = <<field>>)

equality_selectivity_estimate(file, field) ==
  LET x == field_index(file, field)
  IN IF x = << >> THEN << >>
     ELSE <<IF x[1].entries = << >> THEN 0
            ELSE ceil_div(active_record_count(file), Len(x[1].entries))>>

index_traversal_cost(file, name) ==
  LET n == Len(find(file.indexes, LAMBDA x : x.definition.name = name)[1].entries)
  IN IF n <= 2 THEN 0 ELSE ilog2(n - 1)

lookup_eq_for_field(file, field, value) ==
  LET x == field_index(file, field)
      entry == find(x[1].entries, LAMBDA e : compare_keys(e.key[1], value) = 0)
  IN IF x = << >> THEN << >>
     ELSE <<[name |-> x[1].definition.name,
             records |-> IF entry = << >> THEN << >> ELSE entry[1].records]>>

compound_indexes(file) ==
  SelectSeq(file.indexes, LAMBDA x : /\ Len(x.definition.fields) > 1
                                     /\ x.definition.collation = NoCollation)

lookup_eq_for_named_fields(index, values) ==
  LET entry == find(index.entries, LAMBDA e :
                 compare_index_keys(e.key, values, index.definition.directions, NoCollation) = 0)
  IN IF entry = << >> THEN << >> ELSE entry[1].records

prefix_interval(index, prefix) ==
  LET order(e) == compare_index_prefix(e.key, prefix, index.definition.directions)
      start == lower_bound([i \in DOMAIN index.entries |-> order(index.entries[i]) # -1])
      rest == SubSeq(index.entries, start + 1, Len(index.entries))
  IN SubSeq(rest, 1, lower_bound([i \in DOMAIN rest |-> order(rest[i]) = 1]))

lookup_eq_prefix_for_named_fields(index, values) ==
  sort_unstable(records_of(prefix_interval(index, values)))

above(order, b) == order = 1 \/ (b.inclusive /\ order = 0)
below(order, b) == order = -1 \/ (b.inclusive /\ order = 0)

range_selectivity_estimate(file, field, lower, upper) ==
  LET x == field_index(file, field)
  IN IF x = << >> \/ file.statistics = << >> THEN << >>
     ELSE <<range_estimate(file.statistics[1], x[1].definition.name, lower, upper)>>

range_end(entries, b) ==
  lower_bound([i \in DOMAIN entries |-> ~below(compare_key_to_value(entries[i].key, b.value)[1], b)])

lookup_range_for_field(file, field, lower, upper) ==
  LET x == field_index(file, field)
      domain == range_domain(lower, upper)
      domains == [i \in DOMAIN x[1].entries |-> key_domain(x[1].entries[i].key)]
      from == lower_bound([i \in DOMAIN domains |-> domains[i] >= domain])
      to == lower_bound([i \in DOMAIN domains |-> domains[i] > domain])
      entries == SubSeq(x[1].entries, from + 1, to)
      start == IF lower = << >> THEN 0
               ELSE lower_bound([i \in DOMAIN entries |->
                      above(compare_key_to_value(entries[i].key, lower[1].value)[1], lower[1])])
      end == IF upper = << >> THEN Len(entries) ELSE range_end(entries, upper[1])
  IN IF x = << >> THEN << >>
     ELSE <<[name |-> x[1].definition.name,
             records |-> IF domains_differ(lower, upper) THEN << >>
                         ELSE sort_unstable(records_of(SubSeq(entries, start + 1, end)))]>>

\* The values an equality filter gives to fields; none when one has no equality.
equality_prefix(equalities, fields) ==
  IF ToSet(fields) \subseteq DOMAIN equalities
    THEN <<[i \in DOMAIN fields |-> equalities[fields[i]]]>> ELSE << >>

position(seq, x) == IF x \in ToSet(seq) THEN Min({i \in DOMAIN seq : seq[i] = x}) ELSE 0

lookup_compound_range_for_field(file, field, lower, upper, equalities) ==
  LET offset(x) == position(x.definition.fields, field) - 1
      leading(x) == SubSeq(x.definition.fields, 1, offset(x))
      usable == find(file.indexes, LAMBDA x :
                  /\ x.definition.collation = NoCollation
                  /\ offset(x) > 0
                  /\ equality_prefix(equalities, leading(x)) # << >>)
      x == usable[1]
      inside(e) ==
        /\ lower = << >> \/ above(compare_keys(e.key[offset(x) + 1], lower[1].value), lower[1])
        /\ upper = << >> \/ below(compare_keys(e.key[offset(x) + 1], upper[1].value), upper[1])
  IN IF usable = << >> THEN << >>
     ELSE <<[name |-> x.definition.name,
             records |-> sort_unstable(records_of(SelectSeq(
               prefix_interval(x, equality_prefix(equalities, leading(x))[1]), inside)))]>>

lookup_ordered_for_field(file, field, descending, collation) ==
  LET x == find(file.indexes, LAMBDA x : /\ x.definition.collation = collation
                                         /\ x.definition.fields = <<field>>)
  IN IF x = << >> THEN << >>
     ELSE <<[name |-> x[1].definition.name,
             records |-> records_of(IF descending THEN Reverse(x[1].entries) ELSE x[1].entries)]>>

\* Whether an index is walked backwards; none when its directions do not fit.
traversal_is_reverse(indexed, requested) ==
  IF indexed = requested THEN <<FALSE>>
  ELSE IF \A i \in DOMAIN indexed : indexed[i] = -requested[i] THEN <<TRUE>>
  ELSE << >>

key_has_prefix(key, prefix) == \A i \in DOMAIN prefix : compare_keys(key[i], prefix[i]) = 0

ordered_records(index, reverse, prefix) ==
  records_of(SelectSeq(IF reverse THEN Reverse(index.entries) ELSE index.entries,
                       LAMBDA e : key_has_prefix(e.key, prefix)))

(* The ways an index supplies an order: a run of its fields is the sort,   *)
(* and equalities fix the fields before the run.                           *)
ordered_candidates(file, fields, directions, equalities, collation) ==
  {c \in [index : DOMAIN file.indexes, offset : 0..Len(Fields)] :
     LET d == file.indexes[c.index].definition
         run(seq) == SubSeq(seq, c.offset + 1, c.offset + Len(fields))
     IN /\ d.collation = collation
        /\ c.offset + Len(fields) <= Len(d.fields)
        /\ run(d.fields) = fields
        /\ d.collation # NoCollation => Len(fields) = Len(d.fields)
        /\ traversal_is_reverse(run(d.directions), directions) # << >>
        /\ equality_prefix(equalities, SubSeq(d.fields, 1, c.offset)) # << >>}

\* Names are distinct and in the order of the indexes.
score_less(c, records, other, other_records, file) ==
  first_difference(<<compare(Len(records), Len(other_records)),
                     compare(Len(file.indexes[c.index].definition.fields),
                             Len(file.indexes[other.index].definition.fields)),
                     compare(c.offset, other.offset),
                     compare(c.index, other.index)>>) = -1

lookup_ordered_for_fields(file, fields, directions, equalities, collation) ==
  LET candidates == ordered_candidates(file, fields, directions, equalities, collation)
      definition(c) == file.indexes[c.index].definition
      records(c) ==
        ordered_records(file.indexes[c.index],
          traversal_is_reverse(SubSeq(definition(c).directions, c.offset + 1,
                                      c.offset + Len(fields)), directions)[1],
          equality_prefix(equalities, SubSeq(definition(c).fields, 1, c.offset))[1])
      best == CHOOSE c \in candidates :
                \A o \in candidates \ {c} : score_less(c, records(c), o, records(o), file)
  IN IF candidates = {} THEN << >>
     ELSE <<[name |-> definition(best).name, records |-> records(best)]>>

===============================================================================
