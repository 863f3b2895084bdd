------------------------------ MODULE RowChange ------------------------------
(***************************************************************************)
(* One row change on its way from pgoutput's bytes, through the decoder    *)
(* (src/cdc-wal-reader/src/decoder), to the rows of the two sinks          *)
(* (postgres-connector, feldera-connector).  Columns are numbered from 1,  *)
(* where the code counts from 0; every column is a text, a value is one    *)
(* byte, a row a sequence of values.  A shape is what a relation record    *)
(* says of a table: [cols, pk, full], pk the primary key's columns in      *)
(* order, full its replica identity (configure_replica_identity).          *)
(***************************************************************************)
EXTENDS Naturals, SequencesExt

CONSTANTS
  Shapes,        \* the relations tried
  Values,        \* values of a column
  Unrolled       \* up to here num_cols::<N> parses a tuple; 6 in the code

Null    == 256   \* values that are no byte
Toasted == 257

ASSUME ShapesAssumption ==
  /\ Values \subseteq 0..255 /\ Null \notin Values
  /\ Unrolled \in 0..6
  /\ \A s \in Shapes : /\ s \in [cols : Nat \ {0}, pk : Seq(Nat), full : BOOLEAN]
                       /\ s.pk \in Seq(1..s.cols) /\ s.pk # <<>>
                       /\ \A i, j \in DOMAIN s.pk : i < j => s.pk[i] < s.pk[j]

Columns(s) == [c \in 1..s.cols |-> c]

\* The columns the relation record flags as keys: with REPLICA IDENTITY FULL,
\* every one (key_indexes, and is_key of the fields).
KeyIndexes(s) == IF s.full THEN Columns(s) ELSE s.pk
Keys(s) == ToSet(KeyIndexes(s))

RowsOf(s) ==
  {r \in [1..s.cols -> Values \cup {Null}] : \A c \in ToSet(s.pk) : r[c] # Null}
SameKey(s, r, q) == \A c \in ToSet(s.pk) : r[c] = q[c]

VARIABLES
  shape,      \* the relation
  rows,       \* the source's rows before the change; the sinks hold them too
  change,     \* [op, before, after, toast], or NoChange
  known,      \* the identities postgres-connector goes by, TRUE for FULL: ident
              \* in its relation cache, stmt when it prepared its statements
  decoded,    \* "no", "event", "dropped" (an error) or "panicked"
  event,      \* [op, old, row], the ChangeEvent published
  pg, target, \* postgres-connector: what on_event returned last, and its rows
  fel, mirror \* the same of feldera-connector

vars == <<shape, rows, change, known, decoded, event, pg, target, fel, mirror>>

NoChange == [op |-> "none", before |-> <<>>, after |-> <<>>, toast |-> {}]
NoEvent  == [op |-> "none", old |-> <<>>, row |-> <<>>]

------------------------------------------------------------------------------
\* What pgoutput sends.

TagK == 75   TagN == 78   TagO == 79
Tagb == 98   Tagn == 110  Tagt == 116  Tagu == 117

Cell(v) == CASE v = Null    -> <<Tagn>>
             [] v = Toasted -> <<Tagu>>
             [] OTHER       -> <<Tagb, 0, 0, 0, 1, v>>
TupleData(r) == <<0, Len(r)>> \o FlattenSeq([c \in DOMAIN r |-> Cell(r[c])])

\* The old tuple of a DELETE, and of an UPDATE when it has one.  A K tuple
\* holds every column, those that are no key as null.
OldTuple(s, r) ==
  IF s.full THEN <<TagO>> \o TupleData(r)
  ELSE <<TagK>> \o TupleData([c \in DOMAIN r |->
                                IF c \in Keys(s) THEN r[c] ELSE Null])
NewTuple(r, toast) ==
  <<TagN>> \o TupleData([c \in DOMAIN r |-> IF c \in toast THEN Toasted ELSE r[c]])

Moves(s, ch) == ch.op = "update" /\ ~SameKey(s, ch.before, ch.after)

Wire(s, ch) ==
  CASE ch.op = "insert" -> NewTuple(ch.after, {})
    [] ch.op = "delete" -> OldTuple(s, ch.before)
    [] ch.op = "update" ->
         (IF s.full \/ Moves(s, ch) THEN OldTuple(s, ch.before) ELSE <<>>)
           \o NewTuple(ch.after, ch.toast)

------------------------------------------------------------------------------
\* The decoder.  A result is [st, vals, pos]: "ok" and what was read up to
\* byte pos, or "error" or "panic".

Failed == [st |-> "error", vals |-> <<>>, pos |-> 0]

\* parse_value at the bytes after pos, as an accumulator with the value.  A
\* binary text is cut out of the bytes without looking at their number.
ReadValue(acc, data, isUpdate) ==
  LET tag == data[acc.pos + 1]
      Read(v, len) == [acc EXCEPT !.vals = Append(@, v), !.pos = @ + len]
  IN IF acc.pos >= Len(data) THEN [acc EXCEPT !.st = "error"]
     ELSE CASE tag = Tagn             -> Read(Null, 1)
            [] tag = Tagu /\ isUpdate -> Read(Toasted, 1)
            [] tag \in {Tagb, Tagt} /\ acc.pos + 6 <= Len(data) ->
                 Read(data[acc.pos + 6], 6)
            [] tag = Tagb /\ acc.pos + 5 = Len(data) -> [acc EXCEPT !.st = "panic"]
            [] OTHER                  -> [acc EXCEPT !.st = "error"]

\* Mutant: the loop over the columns stops one short.
ParseShort(data, s, isUpdate) ==
  LET Step(acc, c) == IF acc.st = "ok" THEN ReadValue(acc, data, isUpdate) ELSE acc
  IN IF Len(data) < 2 \/ data[2] > s.cols THEN Failed
     ELSE FoldLeft(Step, [st |-> "ok", vals |-> <<>>, pos |-> 2],
                   [c \in 1..(data[2] - 1) |-> c])

\* tuple_data::parse
Parse(data, s, isUpdate) ==
  LET Step(acc, c) == IF acc.st = "ok" THEN ReadValue(acc, data, isUpdate) ELSE acc
  IN IF Len(data) < 2 \/ data[2] > s.cols THEN Failed
     ELSE FoldLeft(Step, [st |-> "ok", vals |-> <<>>, pos |-> 2],
                   [c \in 1..data[2] |-> c])

\* Mutant: the last key is taken to be one column earlier.
MoreKeysOneLess(c, n) == c + 1 < n

\* parse_keys compares the column it is at with the number of keys.
MoreKeys(c, n) == c < n

\* A column of a tuple of at most Unrolled columns: values are read where the
\* next key is, a byte is skipped elsewhere.  The last key ends the loop.
NarrowStep(acc, c, data, s) ==
  LET read == ReadValue(acc, data, FALSE) IN
  IF acc.st # "ok" THEN acc
  ELSE IF c # KeyIndexes(s)[acc.key] THEN [acc EXCEPT !.pos = @ + 1]
  ELSE IF read.st # "ok" THEN read
  ELSE IF MoreKeys(c, Len(KeyIndexes(s))) THEN [read EXCEPT !.key = @ + 1]
  ELSE [read EXCEPT !.st = "done", !.pos = @ + s.cols - (c - 1)]

\* A column of a wider one: column c is taken for the c-th key, and there may be
\* none.
WideStep(acc, c, data, s) ==
  IF acc.st # "ok" THEN acc
  ELSE IF c > Len(KeyIndexes(s)) THEN [acc EXCEPT !.st = "panic"]
  ELSE ReadValue(acc, data, FALSE)

KeyStep(acc, c, data, s) ==
  IF data[2] <= Unrolled THEN NarrowStep(acc, c, data, s) ELSE WideStep(acc, c, data, s)

\* tuple_data::parse_keys, where the tuple holds every column.
ParseKeys(data, s) ==
  LET Start == [st |-> "ok", vals |-> <<>>, pos |-> 2, key |-> 1]
      Step(acc, c) == KeyStep(acc, c, data, s)
      End(r) == [st |-> IF r.st = "done" THEN "ok" ELSE r.st,
                 vals |-> r.vals, pos |-> r.pos]
  IN IF Len(data) < 2 \/ data[2] > s.cols THEN Failed
     ELSE End(FoldLeft(Step, Start, [c \in 1..data[2] |-> c]))

\* get_old_tuple_data
OldData(data, s) ==
  LET OneMore(r) == [r EXCEPT !.pos = @ + 1] IN
  IF data = <<>> THEN Failed
  ELSE CASE data[1] = TagK /\ ~s.full -> OneMore(ParseKeys(Tail(data), s))
         [] data[1] = TagO /\ s.full  -> OneMore(Parse(Tail(data), s, FALSE))
         [] OTHER -> Failed

\* get_new_tuple_data
NewData(data, s, isUpdate) ==
  IF data = <<>> \/ data[1] # TagN THEN Failed ELSE Parse(Tail(data), s, isUpdate)

\* insert::parse, delete::parse and update::parse, after the relation's oid.
ParseInsert(data, s) ==
  LET new == NewData(data, s, FALSE) IN [st |-> new.st, old |-> <<>>, row |-> new.vals]

ParseDelete(data, s) ==
  LET old == OldData(data, s) IN [st |-> old.st, old |-> old.vals, row |-> <<>>]

\* An update without an old tuple starts with its new one.
ParseUpdate(data, s) ==
  LET old == IF data # <<>> /\ data[1] = TagN
             THEN [st |-> "ok", vals |-> <<>>, pos |-> 0] ELSE OldData(data, s)
      new == IF old.pos > Len(data) THEN Failed
             ELSE NewData(SubSeq(data, old.pos + 1, Len(data)), s, TRUE)
  IN [st |-> IF old.st # "ok" THEN old.st ELSE new.st,
      old |-> old.vals, row |-> new.vals]

DecodeChange(op, data, s) ==
  CASE op = "insert" -> ParseInsert(data, s)
    [] op = "delete" -> ParseDelete(data, s)
    [] op = "update" -> ParseUpdate(data, s)

------------------------------------------------------------------------------
\* What both sinks do first.

\* Mutant: a toasted value that old does not have becomes null.
MergeToNull(e) ==
  [ok |-> TRUE,
   row |-> [c \in DOMAIN e.row |->
              IF e.row[c] # Toasted THEN e.row[c]
              ELSE IF c <= Len(e.old) THEN e.old[c] ELSE Null]]

\* Op::merge_toasted: toasted values are taken from old, by position; an error
\* if old does not reach that far.
MergeToasted(e) ==
  LET toasted == {c \in DOMAIN e.row : e.row[c] = Toasted} IN
  [ok |-> \A c \in toasted : c <= Len(e.old),
   row |-> [c \in DOMAIN e.row |->
              IF c \in toasted /\ c <= Len(e.old) THEN e.old[c] ELSE e.row[c]]]

------------------------------------------------------------------------------
\* postgres-connector

Comma == 0

\* The SET list of UpsertStatement::gen_str: columns and commas.
SetList(s) ==
  FlattenSeq([c \in 1..s.cols |-> IF c \in Keys(s) THEN <<>>
                                  ELSE IF c < s.cols THEN <<c, Comma>> ELSE <<c>>])

DoNothing(s) == s.cols = Len(KeyIndexes(s))

\* The target accepts the statement: its text is SQL, and ON CONFLICT names the
\* columns of a unique index, of which the table has its primary key.
UpsertPrepares(s) ==
  /\ DoNothing(s) \/ Last(SetList(s)) # Comma
  /\ Keys(s) = ToSet(s.pk)

Upserted(s, t, r) ==
  IF \A q \in t : ~SameKey(s, q, r) THEN t \cup {r}
  ELSE IF DoNothing(s) THEN t
  ELSE {q \in t : ~SameKey(s, q, r)} \cup {r}

\* The table as the connector takes it to be; on its way the identity may have
\* been switched, before the event or after it.
As(full) == [shape EXCEPT !.full = full]

\* UpsertStatementCache::get: a statement that could not be prepared then is not
\* in the cache, and is tried as the relation cache has the table now.
UpsertShape ==
  As(IF UpsertPrepares(As(known.stmt)) THEN known.stmt ELSE known.ident)

\* The values on_event keeps of a delete's old tuple: all, or those at the
\* positions that are keys.
DeleteParams(s, old) ==
  IF s.full THEN old
  ELSE FlattenSeq([i \in DOMAIN old |-> IF i \in Keys(s) THEN <<old[i]>> ELSE <<>>])

\* DeleteStatement: each key column = its parameter, which null never is.
Deleted(s, t, params) ==
  {r \in t : \E j \in DOMAIN params :
               params[j] = Null \/ r[KeyIndexes(s)[j]] # params[j]}

------------------------------------------------------------------------------
\* feldera-connector

\* Mutant: an update is only inserted.
ConvertOpsNoDelete(e, row) ==
  CASE e.op = "delete" -> << [op |-> "delete", val |-> e.old] >>
    [] OTHER           -> << [op |-> "insert", val |-> row] >>

\* convert_op_batches; convert_row names the values by position.
ConvertOps(e, row) ==
  CASE e.op = "insert" -> << [op |-> "insert", val |-> row] >>
    [] e.op = "delete" -> << [op |-> "delete", val |-> e.old] >>
    [] e.op = "update" -> << [op |-> "delete", val |-> e.old],
                             [op |-> "insert", val |-> row] >>

\* A Feldera table with a primary key takes rows by key.
Ingest(s, t, o) ==
  LET others == {q \in t : ~SameKey(s, q, o.val)} IN
  IF o.op = "insert" THEN others \cup {o.val} ELSE others

IngestAll(s, t, ops) ==
  LET Take(u, o) == Ingest(s, u, o) IN FoldLeft(Take, t, ops)

------------------------------------------------------------------------------
\* Bound: at most two rows, of which one is this: values are told apart only by
\* being equal or not.
Other == [c \in 1..shape.cols |-> CHOOSE v \in Values : TRUE]

Init ==
  /\ shape \in Shapes
  /\ rows \in {{}} \cup {{r, Other} : r \in RowsOf(shape)}
  /\ \A r, q \in rows : r # q => ~SameKey(shape, r, q)
  /\ target = rows /\ mirror = rows
  /\ known \in [ident : BOOLEAN, stmt : BOOLEAN]
  /\ change = NoChange /\ decoded = "no" /\ event = NoEvent
  /\ pg = "none" /\ fel = "none"

Fresh(r, t) == \A q \in t : ~SameKey(shape, r, q)

\* A row of the source changes.
Insert(r) ==
  /\ Fresh(r, rows)
  /\ change' = [op |-> "insert", before |-> <<>>, after |-> r, toast |-> {}]
Delete(r) ==
  /\ r \in rows
  /\ change' = [op |-> "delete", before |-> r, after |-> <<>>, toast |-> {}]

\* Large values that did not change are not sent.
Update(r, q) ==
  /\ r \in rows /\ Fresh(q, rows \ {r})
  /\ \E toast \in SUBSET {c \in 1..shape.cols \ ToSet(shape.pk) :
                            r[c] = q[c] /\ r[c] # Null} :
       change' = [op |-> "update", before |-> r, after |-> q, toast |-> toast]

Change ==
  /\ change = NoChange
  /\ \/ \E r \in RowsOf(shape) : Insert(r)
     \/ \E r \in rows : Delete(r)
     \/ \E r \in rows, q \in RowsOf(shape) : Update(r, q)
  /\ UNCHANGED <<shape, rows, known, decoded, event, pg, target, fel, mirror>>

\* send_to_producer, when the producer takes the event.
Decode ==
  /\ change # NoChange /\ decoded = "no"
  /\ LET d == DecodeChange(change.op, Wire(shape, change), shape) IN
       /\ decoded' = CASE d.st = "ok" -> "event"
                       [] d.st = "panic" -> "panicked"
                       [] OTHER -> "dropped"
       /\ event' = IF d.st = "ok" THEN [op |-> change.op, old |-> d.old, row |-> d.row]
                   ELSE NoEvent
  /\ UNCHANGED <<shape, rows, change, known, pg, target, fel, mirror>>

\* A sink is handed the event, once or again and again.
Delivered == decoded = "event"

\* PostgresSink::on_event
OnEventPostgres ==
  /\ Delivered
  /\ LET merged == MergeToasted(event)
         params == DeleteParams(As(known.ident), event.old)
         executes == IF event.op = "delete"
                     THEN Len(params) = Len(KeyIndexes(As(known.stmt)))
                     ELSE merged.ok /\ UpsertPrepares(UpsertShape)
     IN /\ pg' = IF executes THEN "ok" ELSE "error"
        /\ target' =
             IF ~executes THEN target
             ELSE IF event.op = "delete" THEN Deleted(As(known.stmt), target, params)
             ELSE Upserted(UpsertShape, target, merged.row)
  /\ UNCHANGED <<shape, rows, change, known, decoded, event, fel, mirror>>

\* FelderaConnector::on_event, for which the producer sets the identity FULL.
OnEventFeldera ==
  /\ Delivered /\ shape.full
  /\ LET merged == MergeToasted(event) IN
       /\ fel' = IF merged.ok THEN "ok" ELSE "error"
       /\ mirror' = IF merged.ok
                    THEN IngestAll(shape, mirror, ConvertOps(event, merged.row))
                    ELSE mirror
  /\ UNCHANGED <<shape, rows, change, known, decoded, event, pg, target>>

Next == Change \/ Decode \/ OnEventPostgres \/ OnEventFeldera

Spec == Init /\ [][Next]_vars

------------------------------------------------------------------------------
\* The source's rows after the change.
After ==
  LET kept == rows \ (IF change.op \in {"update", "delete"} THEN {change.before} ELSE {})
  IN IF change.op \in {"insert", "update"} THEN kept \cup {change.after} ELSE kept

TypeOK ==
  /\ shape \in Shapes
  /\ rows \subseteq RowsOf(shape)
  /\ change.op \in {"none", "insert", "update", "delete"}
  /\ known \in [ident : BOOLEAN, stmt : BOOLEAN]
  /\ decoded \in {"no", "event", "dropped", "panicked"}
  /\ event.op = (IF decoded = "event" THEN change.op ELSE "none")
  /\ event.op \in {"insert", "update"} => Len(event.row) = shape.cols
  /\ pg \in {"none", "ok", "error"} /\ fel \in {"none", "ok", "error"}
  /\ target \subseteq RowsOf(shape) /\ mirror \subseteq RowsOf(shape)

\* Whatever the shape of the table, with columns toasted or not, delivered any
\* number of times, and under whichever identities the connector takes it, a
\* change leaves the Postgres target as it was or as the source is: keys that
\* parse_keys misses, that on_event filters by position or that a statement of
\* another identity has more or fewer of fail the statement, they never make it
\* touch another row or write a wrong value (parse_keys, merge_toasted,
\* PostgresSink::on_event).  An update that moves a row may leave it where it was
\* as well.
AppliedOrUntouched ==
  \/ target \in {rows, After}
  \/ Moves(shape, change) /\ target = rows \cup {change.after}

AllKeys == Len(shape.pk) = shape.cols
InFront(n) == \A i \in 1..n : shape.pk[i] = i

\* The deletes that the code handles.  Of a whole row: when statement and
\* relation are of one identity, and without nulls if that is FULL.  Of a key:
\* when the statement goes by keys, from a tuple of at most Unrolled columns,
\* the key columns in front, but for the last if the relation says FULL: then
\* nothing is filtered.  A table of key columns only is always handled.
DeleteHandled ==
  IF shape.full
  THEN /\ known.ident = known.stmt \/ AllKeys
       /\ known.stmt => \A c \in 1..shape.cols : change.before[c] # Null
  ELSE /\ AllKeys \/ (shape.cols <= Unrolled /\ ~known.stmt)
       /\ InFront(Len(shape.pk) - (IF known.ident THEN 1 ELSE 0))

\* Upserts: if all columns are keys, or the last is none and the connector has
\* known the table by its keys.  Updates must not move the row, nor leave out a
\* value that the old row does not give.
UpsertHandled ==
  /\ AllKeys \/ (~(known.ident /\ known.stmt) /\ shape.cols \notin ToSet(shape.pk))
  /\ ~Moves(shape, change)
  /\ change.toast = {} \/ shape.full
Handled == IF change.op = "delete" THEN DeleteHandled ELSE UpsertHandled

\* Done with: lost to the decoder, or delivered once or more.
DealtWith == decoded \in {"dropped", "panicked"} \/ pg # "none"

\* The kinds of change above are in the Postgres target after delivery, and
\* after redelivery, and no other is (decoder, gen_str, PostgresSink::on_event).
ArrivesIffHandled ==
  DealtWith => (target = After <=> (Handled \/ After = rows))

\* Under FULL, every change reaches Feldera as it is, moved rows and toasted
\* values included, however often it is delivered (FelderaEvent::
\* convert_op_batches, merge_toasted).
FelderaMirrors ==
  fel # "none" => (fel = "ok" /\ mirror = After)

------------------------------------------------------------------------------
\* "INSERT, UPDATE, DELETE" are supported (README.MD:38): what the decoder has
\* dealt with reaches the Postgres target, or will once it is delivered.
EveryChangeArrives ==
  DealtWith => target = After
==============================================================================
