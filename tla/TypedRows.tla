------------------------------ MODULE TypedRows ------------------------------
(***************************************************************************)
(* What producer and connectors make of a table's description and of its   *)
(* values: Relation messages byte by byte (RelationData::parse and its     *)
(* vectorised search for terminators, src/cdc-wal-reader/src/decoder),     *)
(* binary values by kind, the Avro records between the processes           *)
(* (src/cdc-avro), the parameters of a Postgres statement and the JSON of  *)
(* a Feldera row.  Rows are inserted only: RowChange has the rest.         *)
(*                                                                         *)
(* A definition is [namespace, name, ident, cols], a column [name, key,    *)
(* type]; names are sequences of bytes, a value its binary form or Null.   *)
(* A result is a record with st "ok", "error" or "panic".                  *)
(***************************************************************************)
EXTENDS Integers, SequencesExt

CONSTANTS
  Definitions,  \* what the table may be at first
  Alters,       \* pairs of definitions: what ALTER TABLE may make of it
  Oid,          \* Oid[type]: the type's OID, four bytes
  Sample,       \* Sample[type]: values of it
  Reserved,     \* the key words that are no column's or table's name in SQL
  Builds,       \* "x86_64" scans with SSE2, "other" with words
  MaxAlters     \* bound: how often the table is altered

Types   == DOMAIN Oid
Byte    == 0..255
Null    == <<256>>  \* no value in binary form is
Defined == Definitions \cup {p[2] : p \in Alters}

\* The types that the decoder knows, as pg_type has them.
PgOid == [bool |-> <<0, 0, 0, 16>>, int8 |-> <<0, 0, 0, 20>>, int4 |-> <<0, 0, 0, 23>>,
          text |-> <<0, 0, 0, 25>>, timestamp |-> <<0, 0, 4, 90>>]

\* How many bytes of 128..191 follow a first byte.
Continuations(first) ==
  CASE first \in 194..223 -> 1
    [] first \in 224..239 -> 2
    [] first \in 240..244 -> 3
    [] OTHER              -> 0

IsUtf8(s) ==
  \A i \in DOMAIN s :
    IF s[i] \in 128..191 THEN \E k \in 1..3 : k < i /\ k <= Continuations(s[i - k])
    ELSE LET more == Continuations(s[i]) IN
         /\ s[i] < 128 \/ more > 0
         /\ i + more <= Len(s) /\ \A k \in 1..more : s[i + k] \in 128..191
         /\ s[i] = 224 => s[i + 1] >= 160
         /\ s[i] = 237 => s[i + 1] < 160
         /\ s[i] = 240 => s[i + 1] >= 144
         /\ s[i] = 244 => s[i + 1] < 144

\* NAMEDATALEN is 64.
IsName(s) == s \in Seq(1..255) /\ Len(s) \in 1..63 /\ IsUtf8(s)

\* What the types' send functions write.
PgWidth == [bool |-> 1, int8 |-> 8, int4 |-> 4, timestamp |-> 8]
IsSent(type, v) ==
  /\ type \in DOMAIN PgWidth => Len(v) = PgWidth[type]
  /\ type = "bool" => v[1] \in {0, 1}
  /\ type = "text" => IsUtf8(v)

\* Bound: numbers of columns and lengths of values are below 256.
ASSUME DefinitionsAssumption ==
  /\ MaxAlters \in Nat /\ Builds \subseteq {"x86_64", "other"}
  /\ \A t \in Types : /\ Oid[t] \in Seq(Byte) /\ Len(Oid[t]) = 4
                      /\ \A u \in DOMAIN PgOid : Oid[t] = PgOid[u] <=> t = u
                      /\ \A v \in Sample[t] : /\ v \in Seq(Byte) /\ Len(v) \in Byte
                                              /\ IsSent(t, v)
  /\ \A d \in Defined : /\ d.ident \in Byte
                        /\ IsName(d.namespace) /\ IsName(d.name)
                        /\ d.cols \in Seq([name : Seq(1..255), key : BOOLEAN, type : Types])
                        /\ Len(d.cols) \in Byte
                        /\ \A i \in DOMAIN d.cols : IsName(d.cols[i].name)
                        /\ \A i, j \in DOMAIN d.cols :
                             d.cols[i].name = d.cols[j].name => i = j
  /\ \A p \in Alters : p[1] \in Defined

\* A name with one of these bytes can make another statement of the one it is put
\* into, and one that can be prepared: " ( ) , . [ ] and the * and / of comments.
Misread == {34, 40, 41, 42, 44, 46, 47, 91, 93}
Space   == (9..13) \cup {32}

\* Bound: no name does, nor has white space that would be skipped; and no column
\* is of the ltree types, which have a syntax of their own for their texts.
ASSUME NamesAssumption ==
  /\ Reserved \subseteq Seq(Byte)
  /\ Types \cap {"ltree", "lquery", "ltxtquery"} = {}
  /\ \A d \in Defined :
       /\ ToSet(d.name) \cap (Misread \cup Space) = {}
       /\ \A i \in DOMAIN d.cols :
            LET name == d.cols[i].name IN
            /\ ToSet(name) \cap Misread = {}
            /\ {Head(name), Last(name)} \cap Space = {}

VARIABLES
  build,      \* how the producer was compiled
  target,     \* the definition of the table in the target database
  def,        \* the source's
  described,  \* the server has described def in this session
  known,      \* relation_map's entry, as a set of at most one relation
  cached,     \* the connectors' latest relation record, in the same way
  stmt,       \* the columns of the cached upsert statement, <<>> before
  sent,       \* the row inserted last
  event,      \* [st, val]: "none", "ok", "error" (dropped) or "panic"
  pg,         \* [st, val]: what PostgresSink did with it ("none": not yet)
  fel,        \* [st, val]: FelderaConnector
  alters

vars == <<build, target, def, described, known, cached, stmt, sent, event, pg,
          fel, alters>>

Ok(v)    == [st |-> "ok", val |-> v]
Error    == [st |-> "error", val |-> <<>>]
Panic    == [st |-> "panic", val |-> <<>>]
Names(cols) == [i \in DOMAIN cols |-> cols[i].name]

------------------------------------------------------------------------------
\* pgoutput: a description, and a row with START_REPLICATION's binary 'true'.

Ident == [Keys |-> 100, Row |-> 102]   \* 'd', 'f'; others are 'n' and 'i'
Cstring(s) == Append(s, 0)

RelationMessage(d) ==
  <<82, 0, 0, 0, 1>> \o Cstring(d.namespace) \o Cstring(d.name)
    \o <<d.ident, 0, Len(d.cols)>>
    \o FlattenSeq([i \in DOMAIN d.cols |->
         <<IF d.cols[i].key \/ d.ident = Ident.Row THEN 1 ELSE 0>>
           \o Cstring(d.cols[i].name) \o Oid[d.cols[i].type] \o <<255, 255, 255, 255>>])

InsertMessage(r) ==
  <<73, 0, 0, 0, 1, 78, 0, Len(r)>>
    \o FlattenSeq([i \in DOMAIN r |->
                     IF r[i] = Null THEN <<110>> ELSE <<98, 0, 0, 0, Len(r[i])>> \o r[i]])

------------------------------------------------------------------------------
\* find_null_word: positions count from 0, Len(data) says there is no null.

\* The bytes of an 8-byte word that (w - 0x01..01) & ~w & 0x80..80 marks: the
\* subtraction borrows from byte to byte.
Marked(word) ==
  LET borrow[j \in 1..8] ==
        IF j = 1 THEN 0 ELSE IF word[j - 1] < 1 + borrow[j - 1] THEN 1 ELSE 0
  IN {j \in 1..8 : word[j] < 128 /\ (word[j] + 255 - borrow[j]) % 256 >= 128}

Word(data, from) == SubSeq(data, from + 1, from + 8)

\* The first byte marked in the words that begin at these positions.
FirstMarked(data, starts) ==
  Min({Len(data)} \cup UNION {{i + j - 1 : j \in Marked(Word(data, i))} : i \in starts})

NullsIn(data, from, to) == {n \in from..to : data[n + 1] = 0}

\* Mutant: the loop ends before the word that overlaps.
FindNullWordNoOverlap(data, arch) ==
  Min(NullsIn(data, 0, Min({16, Len(data)}) - 1)
        \cup {FirstMarked(data, {i \in 16..(Len(data) - 8) : i % 8 = 0})})

\* With SSE2 16 bytes are looked at at once, then words, of which the last ends
\* where data ends; elsewhere words and then what is left byte by byte.
FindNullWord(data, arch) ==
  LET len == Len(data) IN
  IF arch = "x86_64"
  THEN Min(NullsIn(data, 0, Min({16, len}) - 1)
             \cup {FirstMarked(data, {Min({i, len}) - 8 :
                                        i \in {k \in 24..(len + 7) : k % 8 = 0}})})
  ELSE Min(NullsIn(data, len - (len % 8), len - 1)
             \cup {FirstMarked(data, {i \in 0..(len - 8) : i % 8 = 0})})

------------------------------------------------------------------------------
\* RelationData::parse.  data[n + 1] is the code's data[n].

From(data, n) == SubSeq(data, n + 1, Len(data))
U32(data, n) ==
  256 * (256 * (256 * data[n + 1] + data[n + 2]) + data[n + 3]) + data[n + 4]

Utf8Before(data, nul) ==
  IF nul = Len(data) \/ ~IsUtf8(SubSeq(data, 1, nul)) THEN Error
  ELSE Ok(SubSeq(data, 1, nul))

ExtractString(data) == Utf8Before(data, FindNullWord(data, build))

KindFromOid(oid) ==
  CASE oid = 16   -> "Bool"
    [] oid = 20   -> "Int8"
    [] oid = 23   -> "Int4"
    [] oid = 25   -> "Text"
    [] oid = 1114 -> "Timestamp"
    [] OTHER      -> "none"

ByteSizeLen(len) == 10 + len

\* A field with the bytes it takes.  One with flag 2 or 3 is skipped.
FieldNamed(data, name) ==
  LET after == 1 + Len(name.val) + 1
      kind  == KindFromOid(U32(data, after))
      Field(fields) == Ok([fields |-> fields, bytes |-> ByteSizeLen(Len(name.val))])
  IN IF Len(data) < 10 \/ name.st # "ok" THEN Error
     ELSE IF data[1] \in {2, 3} THEN Field(<<>>)
     ELSE IF data[1] \notin {0, 1} THEN Error
     ELSE IF Len(data) < after + 8 THEN Panic
     ELSE IF kind = "none" THEN Error
     ELSE Field(<<[is_key |-> data[1] = 1, name |-> name.val, kind |-> kind]>>)

ParseField(data) == FieldNamed(data, ExtractString(From(data, 1)))

ParseFields(data, start, cols) ==
  LET Add(acc, f) ==
        IF f.st # "ok" THEN f
        ELSE Ok([fields |-> acc.val.fields \o f.val.fields,
                 pos |-> acc.val.pos + f.val.bytes])
      Step(acc, i) ==
        IF acc.st # "ok" THEN acc
        ELSE IF acc.val.pos > Len(data) THEN Panic
        ELSE Add(acc, ParseField(From(data, acc.val.pos)))
  IN FoldLeft(Step, Ok([fields |-> <<>>, pos |-> start]), [i \in 1..cols |-> i])

RelationOf(namespace, name, id, fields) ==
  IF fields.st # "ok" THEN fields
  ELSE Ok([namespace |-> namespace, name |-> name, fields |-> fields.val.fields,
           replica_id |-> IF id = Ident.Keys THEN "Keys" ELSE "Row"])

\* What follows the two names: the identity at id, the columns after it.
ParseAfterNames(data, namespace, name) ==
  LET id == 5 + Len(namespace) + 1 + Len(name) + 1 IN
  IF Len(data) < id + 2 THEN Error
  ELSE IF data[id + 1] \notin {Ident.Keys, Ident.Row} THEN Error
  ELSE IF Len(data) < id + 3 THEN Panic
  ELSE RelationOf(namespace, name, data[id + 1],
                  ParseFields(data, id + 3, 256 * data[id + 2] + data[id + 3]))

ParseRelation(data) ==
  LET AfterName(namespace, r) ==
        IF r.st # "ok" THEN Error ELSE ParseAfterNames(data, namespace, r.val)
      AfterNamespace(r) ==
        IF r.st # "ok" THEN Error
        ELSE AfterName(r.val, ExtractString(From(data, 5 + Len(r.val) + 1)))
  IN IF Len(data) < 10 THEN Error ELSE AfterNamespace(ExtractString(From(data, 5)))

------------------------------------------------------------------------------
\* insert::parse and parse_value.  A value is [kind, bytes]: the conversions
\* from_be_bytes lose nothing.

Nothing == [kind |-> "Null", bytes |-> <<>>]
Width   == [Int4 |-> 4, Int8 |-> 8, Bool |-> 1, Timestamp |-> 8]

\* A value with the bytes it takes.
Took(kind, bytes, len) ==
  Ok([value |-> [kind |-> kind, bytes |-> bytes], len |-> len])

\* The arm b'b'.  Only a text is cut out of data without looking at its length.
ParseBinary(data, kind, l) ==
  LET bytes == SubSeq(data, 6, 5 + l) IN
  IF kind = "Text"
  THEN IF Len(data) < 5 + l THEN Panic
       ELSE IF ~IsUtf8(bytes) THEN Error ELSE Took(kind, bytes, 5 + l)
  ELSE IF l # Width[kind] \/ Len(data) < 5 + l THEN Error
  ELSE Took(kind, IF kind = "Bool" THEN <<IF bytes[1] # 0 THEN 1 ELSE 0>> ELSE bytes,
            5 + l)

ParseValue(data, kind) ==
  IF data = <<>> THEN Error
  ELSE IF data[1] = 110 THEN Took("Null", <<>>, 1)
  ELSE IF data[1] # 98 \/ Len(data) < 5 THEN Error
  ELSE ParseBinary(data, kind, U32(data, 1))

ParseRow(data, fields) ==
  LET Add(acc, v) ==
        IF v.st # "ok" THEN v
        ELSE Ok([vals |-> Append(acc.val.vals, v.val.value),
                 pos |-> acc.val.pos + v.val.len])
      Step(acc, i) ==
        IF acc.st # "ok" THEN acc
        ELSE Add(acc, ParseValue(From(data, acc.val.pos), fields[i].kind))
  IN IF Len(data) < 2 \/ 256 * data[1] + data[2] > Len(fields) THEN Error
     ELSE FoldLeft(Step, Ok([vals |-> <<>>, pos |-> 2]), [i \in 1..data[2] |-> i])

ParseInsert(data) ==
  IF Len(data) < 6 \/ known = {} \/ data[6] # 78 THEN Error
  ELSE LET r == ParseRow(From(data, 6), (CHOOSE k \in known : TRUE).fields) IN
       IF r.st = "ok" THEN Ok(r.val.vals) ELSE r

------------------------------------------------------------------------------
\* Avro: kinds travel as numbers, values as branches of a union.

Kinds       == <<"Int4", "Text", "Int8", "Bool", "Timestamp">>
ReplicaIds  == <<"Keys", "Row">>
InsertItems == <<"Text", "Int4", "Toasted", "Null", "Int8", "Bool", "Timestamp">>
OtherItems  == <<"Text", "Int4", "Null", "Toasted", "Int8", "Bool", "Timestamp">>

IndexOf(s, x) == CHOOSE i \in DOMAIN s : s[i] = x

FieldIntoAvro(f) == [f EXCEPT !.kind = IndexOf(Kinds, @) - 1]
FieldFromAvro(f) == [f EXCEPT !.kind = Kinds[@ + 1]]

RelationIntoAvro(r) ==
  [namespace |-> r.namespace, name |-> r.name,
   fields |-> [i \in DOMAIN r.fields |-> FieldIntoAvro(r.fields[i])],
   replica_id |-> IndexOf(ReplicaIds, r.replica_id) - 1]

RelationFromAvro(a) ==
  [namespace |-> a.namespace, name |-> a.name,
   fields |-> [i \in DOMAIN a.fields |-> FieldFromAvro(a.fields[i])],
   replica_id |-> ReplicaIds[a.replica_id + 1]]

IntoAvro(v) == [branch |-> IndexOf(InsertItems, v.kind), value |-> v.bytes]

\* Mutant: an inserted row is read with the union of the other events.
FromAvroOther(a) == [kind |-> OtherItems[a.branch], bytes |-> a.value]

FromAvro(a) == [kind |-> InsertItems[a.branch], bytes |-> a.value]

\* on_event of both sinks gets what from_avro makes of what into_avro wrote.
Received == [i \in DOMAIN event.val |-> FromAvro(IntoAvro(event.val[i]))]

------------------------------------------------------------------------------
\* The sinks' values.

\* A timestamp in microseconds that chrono has no date for; infinity is the
\* largest number.  Which of those that begin with 113 or 140 depends on more
\* bytes: bound, Sample has none.
Far(bytes) == bytes[1] \in 114..139

TextTypes == {"text", "varchar", "bpchar", "name", "unknown", "citext"}
Accepts == [Text |-> TextTypes, Int4 |-> {"int4"}, Int8 |-> {"int8"},
            Bool |-> {"bool"}, Timestamp |-> {"timestamp"}]

\* ToSqlWrapper: adding to PG_EPOCH panics before the type is looked at.
ToSql(v, type) ==
  IF v.kind = "Null" THEN Ok(v)
  ELSE IF v.kind = "Timestamp" /\ Far(v.bytes) THEN Panic
  ELSE IF v.kind = "Toasted" \/ type \notin Accepts[v.kind] THEN Error
  ELSE Ok(v)

JsonNull == [json |-> "null", of |-> <<>>]

\* Mutant: a timestamp is written as its number of microseconds.
ToJsonValueRaw(v) ==
  IF v.kind \in {"Null", "Toasted"} THEN JsonNull
  ELSE [json |-> IF v.kind = "Timestamp" THEN "Int8" ELSE v.kind, of |-> v.bytes]

\* A string, number or Boolean, named by the kind that it is written as.
ToJsonValue(v) ==
  IF v.kind \in {"Null", "Toasted"} \/ (v.kind = "Timestamp" /\ Far(v.bytes))
  THEN JsonNull ELSE [json |-> v.kind, of |-> v.bytes]

\* Names go into statements without quotes: Postgres folds them.
Fold(name) ==
  [i \in DOMAIN name |-> IF name[i] \in 65..90 THEN name[i] + 32 ELSE name[i]]

\* What the lexer takes for an identifier, and the grammar for a name.
Letter == (65..90) \cup (97..122) \cup {95} \cup (128..255)
IsIdentifier(name) ==
  /\ name[1] \in Letter
  /\ \A i \in DOMAIN name : name[i] \in Letter \cup (48..57) \cup {36}
  /\ Fold(name) \notin Reserved

TargetType(name) ==
  {target.cols[i].type : i \in {j \in DOMAIN target.cols : target.cols[j].name = name}}
TargetKeys ==
  {target.cols[i].name : i \in {j \in DOMAIN target.cols : target.cols[j].key}}

\* prepare can read the names; it finds the table, its namespace left to the
\* search path, the columns, none of them twice, and a unique index of those in
\* ON CONFLICT; the SET list does not end in a comma.
Prepares(rel) ==
  LET keys == {i \in DOMAIN rel.fields : rel.fields[i].is_key} IN
  /\ IsIdentifier(rel.name)
  /\ \A i \in DOMAIN rel.fields : IsIdentifier(rel.fields[i].name)
  /\ Fold(rel.name) = target.name
  /\ \A i \in DOMAIN rel.fields : TargetType(Fold(rel.fields[i].name)) # {}
  /\ \A i, j \in DOMAIN rel.fields :
       Fold(rel.fields[i].name) = Fold(rel.fields[j].name) => i = j
  /\ keys # {} /\ (keys = DOMAIN rel.fields \/ Len(rel.fields) \notin keys)
  /\ {Fold(rel.fields[i].name) : i \in keys} = TargetKeys

\* execute: as many values as parameters, converted in order, and no null for a
\* key.  Bound: nothing else in the target refuses a value.
Execute(names, vals) ==
  LET Param(i) == ToSql(vals[i], CHOOSE t \in TargetType(Fold(names[i])) : TRUE)
      bad == {i \in DOMAIN vals : Param(i).st # "ok"}
  IN IF Len(vals) # Len(names) THEN Error
     ELSE IF bad # {} THEN Param(Min(bad))
     ELSE IF \E i \in DOMAIN vals : vals[i] = Nothing /\ Fold(names[i]) \in TargetKeys
     THEN Error
     ELSE Ok([n \in {Fold(names[i]) : i \in DOMAIN names} |->
                vals[CHOOSE i \in DOMAIN names : Fold(names[i]) = n]])

\* convert_row: values and names side by side, as far as both go.
ConvertRow(vals, names) ==
  LET last == Min({Len(vals), Len(names)}) IN
  [n \in {names[i] : i \in 1..last} |->
     ToJsonValue(vals[CHOOSE i \in 1..last : names[i] = n])]

------------------------------------------------------------------------------
NotYet == [st |-> "none", val |-> <<>>]

Init ==
  /\ build \in Builds
  /\ def \in Definitions
  /\ target \in {def} \cup {p[2] : p \in {q \in Alters : q[1] = def}}
  /\ described = FALSE /\ known = {} /\ cached = {} /\ stmt = <<>>
  /\ sent = <<>> /\ event = NotYet /\ pg = NotYet /\ fel = NotYet
  /\ alters = 0

\* The last row is done with; a panic of the producer leaves nothing to do.
Settled ==
  \/ event.st \in {"none", "error"}
  \/ event.st = "ok" /\ pg.st # "none" /\ fel.st # "none"

Alter ==
  /\ Settled /\ alters < MaxAlters /\ alters' = alters + 1
  /\ \E p \in Alters : p[1] = def /\ def' = p[2]
  /\ described' = FALSE
  /\ sent' = <<>> /\ event' = NotYet /\ pg' = NotYet /\ fel' = NotYet
  /\ UNCHANGED <<build, target, known, cached, stmt>>

\* Mutant: relations are kept in a list.
LearnToo(r) == known \cup {r}

\* Mutant: an entry of the map is not replaced.
LearnOnce(r) == IF known = {} THEN {r} ELSE known

\* relation_map.insert
Learn(r) == {r}

\* The b'R' arm of start_wal_input, and on_relation of the connectors: what
\* cannot be parsed leaves the last description in place.
Describe ==
  /\ Settled /\ ~described
  /\ described' = TRUE
  /\ LET r == ParseRelation(RelationMessage(def)) IN
     IF r.st = "ok"
     THEN /\ known' = Learn(r.val)
          /\ cached' = {RelationFromAvro(RelationIntoAvro(r.val))}
          /\ UNCHANGED event
     ELSE /\ UNCHANGED <<known, cached>>
          /\ event' = IF r.st = "panic" THEN Panic ELSE event
  /\ UNCHANGED <<build, target, def, stmt, sent, pg, fel, alters>>

Rows(d) ==
  {r \in [DOMAIN d.cols -> UNION {Sample[t] : t \in Types} \cup {Null}] :
     \A i \in DOMAIN d.cols :
       \/ r[i] \in Sample[d.cols[i].type]
       \/ r[i] = Null /\ ~d.cols[i].key}

Insert ==
  /\ Settled /\ described
  /\ \E r \in Rows(def) :
       /\ sent' = r
       /\ event' = ParseInsert(InsertMessage(r))
  /\ pg' = NotYet /\ fel' = NotYet
  /\ UNCHANGED <<build, target, def, described, known, cached, stmt, alters>>

\* UpsertStatementCache::get and execute; the statement stays.
OnEventPostgres ==
  /\ event.st = "ok" /\ pg.st = "none"
  /\ \E rel \in cached :
       LET names == IF stmt # <<>> THEN stmt ELSE Names(rel.fields) IN
       IF stmt # <<>> \/ Prepares(rel)
       THEN pg' = Execute(names, Received) /\ stmt' = names
       ELSE pg' = Error /\ UNCHANGED stmt
  /\ UNCHANGED <<build, target, def, described, known, cached, sent, event, fel,
                 alters>>

OnEventFeldera ==
  /\ event.st = "ok" /\ fel.st = "none"
  /\ \E rel \in cached : fel' = Ok(ConvertRow(Received, Names(rel.fields)))
  /\ UNCHANGED <<build, target, def, described, known, cached, stmt, sent, event,
                 pg, alters>>

Next == Alter \/ Describe \/ Insert \/ OnEventPostgres \/ OnEventFeldera

Spec == Init /\ [][Next]_vars

------------------------------------------------------------------------------
KindOf == [bool |-> "Bool", int8 |-> "Int8", int4 |-> "Int4", text |-> "Text",
           timestamp |-> "Timestamp"]

Supported(d) ==
  /\ d.ident \in {Ident.Keys, Ident.Row}
  /\ \A i \in DOMAIN d.cols : d.cols[i].type \in DOMAIN KindOf

\* What a supported definition says.
Meaning(d) ==
  [namespace |-> d.namespace, name |-> d.name,
   replica_id |-> IF d.ident = Ident.Row THEN "Row" ELSE "Keys",
   fields |-> [i \in DOMAIN d.cols |->
                 [is_key |-> d.cols[i].key \/ d.ident = Ident.Row,
                  name |-> d.cols[i].name, kind |-> KindOf[d.cols[i].type]]]]

\* The table has a definition that could not be parsed since another one could.
Stale == ~Supported(def) /\ known # {}

\* What column i of the row sent last is.
SentValue(i) ==
  IF sent[i] = Null THEN Nothing
  ELSE [kind |-> KindOf[def.cols[i].type], bytes |-> sent[i]]

Outcomes == {"none", "ok", "error", "panic"}

TypeOK ==
  /\ build \in Builds /\ def \in Defined /\ target \in Defined
  /\ described \in BOOLEAN /\ alters \in 0..MaxAlters
  /\ Cardinality(known) <= 1 /\ Cardinality(cached) = Cardinality(known)
  /\ {event.st, pg.st, fel.st} \subseteq Outcomes
  /\ event.st = "ok" => \A i \in DOMAIN event.val : event.val[i].kind \in ToSet(InsertItems)

\* A description is read as the server wrote it, whatever the length of its
\* names and wherever they lie in the message, and reaches the connectors so;
\* the two searches for terminators agree (find_null_word, RelationData::parse,
\* Relation::into_avro and from_avro).
Understood ==
  described /\ Supported(def) => known = {Meaning(def)} /\ cached = {Meaning(def)}

\* A row of a table with a supported definition is never dropped and every value
\* of it is the one sent.  When ALTER TABLE has made the definition one that
\* RelationData::parse rejects, rows go on being read with the last that it
\* took: only then may a value be another, or be missing (parse_value).
ValuesKept ==
  event.st # "none" =>
    /\ Supported(def) => event = Ok([i \in DOMAIN sent |-> SentValue(i)])
    /\ ~Supported(def) => event.st = "error" \/ (event.st = "ok" /\ Stale)

\* The target has a place for column i of the row.
HasPlace(i) ==
  LET c == def.cols[i] IN
  \E type \in TargetType(Fold(c.name)) :
    IF sent[i] = Null THEN Fold(c.name) \notin TargetKeys
    ELSE c.type = type \/ (c.type = "text" /\ type \in TextTypes)

\* A row of a supported definition is written into the Postgres target exactly
\* if the upsert can be prepared there or once could, the target's columns take
\* its values, and no timestamp is too far for chrono, and then with the values
\* sent; as long as the statement in the cache names its columns.  It can be
\* prepared only if every name is an identifier where it stands without quotes
\* (PostgresSink::on_event, gen_str, ToSqlWrapper, PgValue's Avro).
PostgresArrives ==
  pg.st # "none" /\ Supported(def) /\ stmt \in {<<>>, Names(def.cols)} =>
    IF /\ Prepares(Meaning(def)) \/ stmt # <<>>
       /\ \A i \in DOMAIN sent :
            /\ HasPlace(i)
            /\ def.cols[i].type = "timestamp" /\ sent[i] # Null => ~Far(sent[i])
    THEN /\ pg.st = "ok"
         /\ \A i \in DOMAIN sent : pg.val[Fold(def.cols[i].name)] = SentValue(i)
    ELSE pg.st # "ok"

\* A Feldera row has every column under its name with the value sent, but for
\* timestamps too far for chrono, which become null without an error
\* (convert_row, to_json_value).
FelderaArrives ==
  fel.st = "ok" /\ ~Stale =>
    /\ DOMAIN fel.val = ToSet(Names(def.cols))
    /\ \A i \in DOMAIN sent :
         LET v == fel.val[def.cols[i].name] IN
         IF sent[i] = Null \/ (def.cols[i].type = "timestamp" /\ Far(sent[i]))
         THEN v = JsonNull
         ELSE v = [json |-> KindOf[def.cols[i].type], of |-> sent[i]]
==============================================================================
