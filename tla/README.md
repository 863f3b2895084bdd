# A TLA+ model of cdc-connector

cdc-connector reads PostgreSQL's logical replication stream, writes it to Kafka
in transactions, and applies it to a second database or to Feldera.  This
directory models the parts of it where order, failure and restarts matter,
checks them with TLC, and proves the central invariants with TLAPS.

Source paths below are relative to the repository; `lib.rs` without a
directory is `cdc-wal-reader/src/lib.rs`.

## 1. The system

```
 source database --replication--> start_wal_input --Producer--> KafkaProducer
   slot: confirmed_flush_lsn  <--status updates--'                   | one Kafka transaction
                                                                     v per source transaction
        <topic>.events.<schema>.<table>    <topic>.relations    <topic>.lsn
                     |                            |                  '--> read_lsn, at a restart
                     '----------- KafkaClient (cdc-sink) -----------'
                               |                       |
                        PostgresSink             FelderaConnector
```

| Component | State | Operations | Hard because | Right when |
|---|---|---|---|---|
| receive loop, `lib.rs:74-229` | `currently_in_transaction`, `relation_map`, the client's applied LSN | one arm per replication event, `send_to_producer` | every Kafka call may fail; errors are logged and the loop goes on | transactions reach Kafka whole; nothing durable is missing below the acknowledged LSN |
| decoder, `cdc-wal-reader/src/decoder` | none | `insert/update/delete/relation::parse` | two replica identities, TOAST, compact key tuples, special cases by width | an event means what the source changed, or is an error |
| KafkaProducer, `cdc-producer/src/main.rs:24-127` | librdkafka's transactional client | begin, send, relation, commit, abort | timeouts: a commit may be decided after its caller gave up | a transaction is committed once, or aborted |
| main and read_lsn, `main.rs:172-218,286-356` | the offset of group `producer-lsn-read` | read the last LSN, then connect | read before the last session is fenced, by silence, with auto-commit | a restart neither skips nor repeats |
| consumer loop, `cdc-sink/src/lib.rs` | the group's offsets | `load_relations`, `consume_from_kafka` | several topics without order; offsets committed explicitly and by timer | every event is applied |
| postgres-connector | connection, relation cache, two statement caches | `on_event`, `on_relation` | caches outlive schemas; the connection is never made again; idempotence | the target equals the source |
| feldera-connector | table and field names | `on_event`, `on_relation` | positions against names of the latest relation record | the view's input equals the source |
| cdc-avro | none | `merge_toasted`, Avro, JSON | positions in `old`; two unions in different orders; dates that chrono cannot hold | a value that was not sent is found or is an error; one that was is the same on the other side |

Components interact through Kafka topics only; inside a process, calls are
sequential (one `async` loop each, no shared state between tasks but the
database connection's).  So the interleavings that matter are those of the
producer process, the transaction coordinator, the replication slot, the
offset commits of librdkafka's timer, and crashes between any two of them.

The hazards this makes are listed one by one, at their lines, in
`PROJECT.json`, each with the properties that look at it.

## 2. The modules

| Module | Models |
|---|---|
| `KafkaTxn` | the client behind `KafkaProducer` and its five methods, each as the set of its outcomes |
| `CdcProducer` | receive loop, slot, coordinator, `read_lsn`, start and stop of cdc-producer |
| `AtomicPublication` | the abstract specification `CdcProducer` implements |
| `CdcProducerProofs` | theorems about `CdcProducer`: types, the slot and whole transactions; the log's order, the refinement, what is lost, and schemas |
| `CdcSink` | the consumer loop over `PostgresSink` or `FelderaConnector`: caches, offsets, crashes |
| `CdcSinkProofs` | theorems about `CdcSink` |
| `Pipeline` | `CdcProducer` and `CdcSink` over the topics between them |
| `PipelineProofs` | theorems about `Pipeline` |
| `RowChange` | one change: pgoutput's bytes, decoder, merge, statements, both sinks |
| `RowChangeProofs`, `RowChangeKeyProofs`, `RowChangeTargetProofs` | theorems about `RowChange`: the decoder and Feldera; K tuples; statements and the Postgres target |
| `DataLemmas` | facts about folds, flattened sequences and extreme elements, for the proofs |
| `TypedRows` | Relation messages byte by byte, values by kind, Avro, parameters, JSON |
| `TypedRowsProofs` | theorems about `TypedRows`: the search, the parsers, Avro, both sinks' rows |
| `MCCdcProducer`, `MCCdcSink`, `MCPipeline`, `MCRowChange`, `MCTypedRows` | the instances TLC checks |

### KafkaTxn and CdcProducer

A client is a record `[st, open, decided]`: librdkafka's state, what the open
transaction has produced, and a transaction the coordinator has decided to
commit but whose markers no consumer has seen.  A method is an operator that
gives the set of its outcomes `[ok, k]`: `Send` can succeed, be refused without
effect, or leave the transaction only abortable; `CommitTransaction` produces
the LSN record first, and can then be decided, fail, or time out, in which case
`DecideLate` may decide it long after; `AbortTransaction` drops the batch, and
may time out.

`CdcProducer` has an action per arm of `start_wal_input`: `RecvBegin`,
`RecvRelation`, the four ends of a change (`SkipChange`, `DropUndecodable`,
`PublishChange`, `AbortOnSendError`), the three of a commit (`SkipCommit`,
`CommitOk`, `CommitFailed`).  Around them `StatusUpdate` moves the slot,
`WriteMarkers` makes a decided batch visible in `log`, `ConnectionClosed` and
`Crash` end the process, `ReadLsn` and `StartWalInput` are `main`.  An action is
a whole iteration of the loop: a crash between two awaits of one loses the same
memory as a crash before or after it, and what an unanswered Kafka call may
have done is an outcome in `KafkaTxn`.

The source is a fixed history of transactions 1..N; `srcTxn` and `srcPos` say
what comes next on the stream.  `failedIn`, `relLost`, `floor` and `stale` are
history: they record which logged failures and which early starts happened, and
no action reads them.

### CdcSink

`Poll` takes a record (librdkafka stores its offset), a `Handle...` action does
what the loop does with it, so that `AutoCommit` and `Crash` can come between.
Events and relation records are in topics of their own, read in any order.
`platform` says which sink the loop drives.  A schema is a number with an arity;
to Postgres an event goes through a statement, which is the schema it was
prepared from, to Feldera under the names of the latest relation record.  An
event has a form: one that Avro or `merge_toasted` rejects, one with a timestamp
chrono has no date for, on which `PostgresSink` panics (`HandlePanics`: the
process stops, and its next start meets the event again), or neither.  `missed`
is history: the events whose last handling did not write them as they were sent.

### Pipeline

`Pipeline` extends `CdcProducer` and instantiates `CdcSink` with the topics'
contents as its `feed`: `FeedOf(log)`, the events of the committed batches per
table and the relation records in theirs.  A step is one of the producer, after
which the feed follows the log, or one of the connector, which only reads it.
`Effects` says what each change of the source does to which row.  `ahead` is
history: a session began past a transaction that the log has gone back behind.

### RowChange

A table has up to two rows; one of them is inserted, updated or deleted.
`Wire` is what pgoutput sends for it under the table's replica identity, byte
by byte where the decoder's offsets depend on it; `ParseInsert`, `ParseDelete`
and `ParseUpdate` have `Parse` and `ParseKeys` under them, loop counters and
special cases included; `OnEventPostgres` and `OnEventFeldera` apply the event
to rows, any number of times.  `UpsertPrepares` models the text of the upsert
only as far as its comma list and its `ON CONFLICT` columns.  `known` is what
postgres-connector takes the table's replica identity to be, in its relation
cache and in its cached statements: `configure_replica_identity` switches
identities at every start of the producer, and neither cache need be at the
event's.

### TypedRows

One table is described (`RelationMessage`, the bytes pgoutput sends), altered,
and rows are inserted into it.  `ParseRelation` is `RelationData::parse` over
those bytes, with `FindNullWord` under it: the words' subtraction with its
borrow, the first 16 bytes, the overlapping last word, and the other
architecture's loop.  `ParseValue` reads a binary value by kind.  `IntoAvro` and
`FromAvro` go through the position of a branch in the schema's union,
`RelationIntoAvro` and `RelationFromAvro` through the numbers of kinds and
identities.  `Prepares` is what PostgreSQL makes of the upsert's text: whether
every name is an identifier where `gen_str` puts it without quotes, and whether
the table, its columns and a unique index are found.  `Execute` gives a statement
its parameters, in order, `ConvertRow` a Feldera row its JSON.  The target's definition is a variable that never changes: it may
be the source's first or the one it is altered to.

### What is outside src/

Modelled from how the code uses it, and marked external in the map: librdkafka
and the coordinator (a decided transaction completes; `init_transactions` waits
for it and drops any other; one producer with the transactional id runs at a
time), the slot (its position never moves back; a stream starts with the first
transaction whose commit record is at or after the start point), pgoutput (a
Relation message before the first change of a session; a K tuple holds every
column, those that are no key as null, and comes with an update only if the key
changed; O under FULL), PostgreSQL (`ON CONFLICT` needs a unique index of those
columns; `=` is never true of null), Feldera (a table with a primary key takes
rows by key, as in `docker/feldera/feldera-pipeline.json`).  For `TypedRows`:
the flag of a column is 1 if it is of the replica identity; names are UTF-8;
with `binary 'true'` every value of a type the decoder knows is sent binary;
`postgres_types` takes a Rust type for the SQL types in `Accepts` only (a string
for `text`, `varchar`, `bpchar`, `name` and `citext`); an identifier begins with a
letter, `_` or a byte above 127, goes on with those, digits and `$`, and is none
of the grammar's key words, which `Reserved` stands for; chrono's
dates span about 262000 years to either side.

## 3. What is checked

Runs in which TLC finds no error:

| Run | Instance | Shows |
|---|---|---|
| `producer_safety` | 3 transactions, 3 tables, 1 stop | `WholeTransactions`: consumers see whole transactions only, whatever fails.  `SchemaUnlessLost`: an event without its relation's record before it had that record refused or aborted.  `Settled`: a transaction being received becomes visible unless a failure is logged or the process stops |
| `producer_restarts` | 2 transactions, 2 stops | `AckedIsDurable`, `NoSilentLoss`, `OnceUnlessStale`, and `PublishesAtomically`, the refinement of `AtomicPublication` |
| `sink_safety` | either sink; 2 tables with 5 events, 4 relation records, 1 crash, 1 failing call | `ConvergesUnlessMissed`: at the end a row is the source's unless its last event was missed or, for Postgres, moved the row; redelivery does no harm |
| `sink_live` | either sink; 1 table whose first event has a far timestamp, 2 crashes, 1 failing call | `Drains`: no error stops the loop; what stops it stops the process |
| `pipeline` | 2 transactions, 2 stops of the producer, `PostgresSink` | `EndToEnd`: when all is received and consumed, a target row is the source's.  `NoReturn`: it never goes back to an older value |
| `change_paths` | tables of 1-5 columns, every choice of keys up to 3, every identity the connector may go by | `AppliedOrUntouched`, `ArrivesIffHandled`, `FelderaMirrors` |
| `typed_rows` | names of 1-63 bytes, 23 kinds of table, 2 alterations, both builds | `Understood`: descriptions arrive as they are.  `ValuesKept`, `PostgresArrives`, `FelderaArrives`: so do values, or exactly the exceptions below |

Runs that refute a statement of the documentation or of a test, each a finding:

| Run | Statement | What TLC shows |
|---|---|---|
| `producer_lost` | exactly-once, README.MD:15 | a send fails, the transaction is aborted, the next commit's LSN passes it |
| `producer_zero` | `assert!(!is_zero)`, events.rs:189 | the first restart reads the last LSN record and its group commits the offset; the second begins behind it, reads nothing and returns 0 |
| `sink_failed` | idempotent sink writes, README.MD:110 | a request to Feldera fails and is logged; the next event is written, and its `commit_message` commits the offset behind both.  The property looks at that commit only: the timer's is another hazard |
| `sink_race` | exactly-once, README.MD:15 | without any fault, an event read before its relation record is lost |
| `change_move` | UPDATE is supported, README.MD:38 | an update of the key carries a K tuple, whose end `parse_keys` puts one byte too far |

`ArrivesIffHandled` is an equivalence: `Handled` says which changes reach the
Postgres target, and every change outside of it that has an effect is shown not
to.  Outside of it are: deletes from a table whose key columns do not come
first (`on_event` filters a compact tuple by position); deletes from a table
wider than six columns with fewer keys than columns (`parse_keys` indexes out of
bounds and the producer panics, again after each restart); upserts into a table
whose last column is a key (the SET list ends in a comma); updates that move a
row, or leave out a TOASTed value under DEFAULT; under FULL, upserts into any
table that has a column outside its key (`ON CONFLICT` lists all columns) and
deletes of rows with a null (`=`), the last without any error.  A connector that
goes by other identities than the event's rejects deletes whose statement wants
more or fewer values than `on_event` keeps; some it handles that one of the
right identity does not (an upsert under FULL with a statement prepared before).

`PostgresArrives` is an equivalence as well.  Outside of it are: names that SQL
wants quoted, for statements do not quote them (key words such as `order`, and
names with a space, a hyphen or a control character in them or a digit in front,
are syntax errors; capitals are folded, so that two columns may even become one,
which Postgres rejects); columns whose type in the target is none of those the
value's Rust type is taken for; tables without a key or whose key comes last; a
null for a column that is the target's key and no longer the source's; and
timestamps beyond chrono's dates, `infinity` among them, on which the connector
panics.  To Feldera the last go as null, without an error
(`FelderaArrives`).  `ValuesKept` allows one thing only: after an ALTER TABLE to
a definition that `RelationData::parse` rejects, rows are decoded with the last
it accepted, and may then lose columns or have values of other kinds.

`EndToEnd` has these exceptions, each a hazard listed by itself: the last change
of the row was in a transaction during which a begin, a send or a commit failed
(`failedIn`), or cannot be decoded; the connector missed it or, in Postgres, it
moved the row; or `ahead`: after two restarts the log may end in the past (a
session that began too early was stopped before it came to the newest
transactions again) while the slot leads the third session past them.  Without
the last exception TLC finds that.  `NoReturn` excepts logs that hold old changes
behind new ones (`stale`), and deletes.

### Bounds

- Transactions: two are enough for one to be lost, repeated or joined with the
  next; three put one between an abort and a commit.  Each has two changes, so
  that a failure can come between them.
- Stops: with one, the process resumes over each state the first session can
  leave; two are needed for what one restart leaves to the next (the LSN group's
  offset, a second stale start).
- LSNs: the records of transactions 1 and 2 are adjacent (the end of one is the
  start of the next), those of 2 and 3 are not: both sides of `<=`.
- Sink: one table changes its schema to one of equal and one of larger arity;
  of another one event is rejected and one deletes; one update moves its row and
  has a far timestamp.
- Pipeline: two transactions of one change each, to the same row; the
  connector is not stopped, which `sink_safety` does, and offsets it commits are
  left out of the states TLC tells apart (`VIEW`), for only its start reads them.
- Columns: `parse_keys` compares a column with the number of keys, which shows in
  three columns; `Unrolled` is 6 in the code and 4 in the model, so that tables
  of five columns are wide ones.  Two values and null; the second row, if there
  is one, has the first value in every column.
- Typed rows: the first 16 bytes, one word and the overlapping one are all passed
  by names of up to 34 bytes before columns of up to 63, at every alignment of
  the rest.  Names hold bytes above 127, whose high bit the search has to mask;
  behind a null come counts and flags of 1, which its borrow marks.  Timestamps are told apart by their first byte,
  and none begins with one that leaves open whether chrono has the date.
- Names (`NamesAssumption`): quotes, dots, commas, parentheses, brackets, `*` and
  `/` are left out of them, and so is white space in a table's name or at either
  end of a column's.  With those a name may read as more than a name (`t as x`,
  `a.b`), and the statement as another one that can be prepared.  `MCTypedRows`
  has a key word in lower and in mixed case, a space, a hyphen, a digit in front,
  a control character, and one name with a digit and `$` that is an identifier.
  One key word stands for all.
- Values: nothing in the target but types and its key refuses one (no lengths,
  checks or other constraints).

Runs are allowed to stop (`CHECK_DEADLOCK FALSE`): the history is finite, and a
process that stopped for the last time stays down.

### Fairness

`CdcProducer`: weak fairness of `Receive` (each await in the loop has a timeout,
and the server sends what it has) and of `WriteMarkers` (the coordinator
completes what it decided).  Nothing restarts the process, no client repeats a
call by itself and a commit in doubt may never be decided, so none of these is
fair.  `CdcSink`: weak fairness of `Poll` and of `Handle`, a plain loop.

## 4. What is proved

Each theorem holds for every value of the constants its assumptions allow, and
states a property that a run checks on a small instance; only `DecodesExactly`
states one of its own.  The inductive invariants below were checked with TLC
before they were proved.

### cdc-producer

For every N, every history of changes, every set of changes the decoder
rejects, every LSN assignment `LsnAssumption` allows, and any number of stops:

| Theorem | Property | Inductive invariant, and why it is needed |
|---|---|---|
| `TypeCorrect` | `TypeOK` | itself |
| `AcknowledgesDurable` | `AckedIsDurable` | `AckInv`: the slot takes over `applied`, which starts as what `read_lsn` returned, so both must be at most the LSN of a durable batch.  Durable batches stay so: a step moves `decided` to `log` or leaves both alone |
| `PublishesWholeTransactions` | `WholeTransactions` | `WholeInv`: the open transaction holds events in source order, every transaction before the current one complete, and of the current one all that was received or, once `currently_in_transaction` is false, nothing more to come.  It needs the client's state: after an abort that timed out, or a commit in doubt, nothing can be produced, so the batch cannot grow with a hole in it |
| `PublishesInOrder` | `OnceUnlessStale` | `BatchInv`: what is open or decided is of transactions beyond `floor`, up to the one received, and what can still be decided ends at a commit record in between.  `LogInv`: while no session began early, the last LSN record is `floor`'s and nothing is beyond it |
| `RefinesAtomicPublication` | `PublishesAtomically` | the same.  A step that writes markers is the abstraction's publication of the transactions in the batch, a start is its resumption, every other step a stutter |
| `LosesNothingSilently` | `NoSilentLoss` | `LossInv`: every transaction behind the stream, and behind every LSN a session may start from (`confirmed`, `applied`, `startLsn`, the log's records), is published, or a logged failure hit it; and so was one that the loop has given up.  Once covered, a transaction stays so |
| `SchemaComesFirst` | `SchemaUnlessLost` | `SchemaInv`: the relations the loop knows, and those of all that was sent, have their record in the log, in the decided batch, in the open one, or counted as lost.  A record can therefore never be in a later batch than the events that need it |

The assumptions are `SizesAssumption`, `ChangesAssumption` and `LsnAssumption`.
The outcomes of `KafkaTxn`'s operators are lemmas (`ProduceOutcome`,
`CommitOutcome`, ...), so that no proof of an action opens them again.

### cdc-sink

For any tables, keys, schemas, topic contents, and number of crashes and of
failing calls, on either platform:

| Theorem | Property | Inductive invariant |
|---|---|---|
| `SinkTypeCorrect` | `TypeOK` | itself |
| `SinkConverges` | `ConvergesUnlessMissed` | `SinkInv`: once the last event on a key has been polled, its row rests at the source's value, or that event is in hand, was missed, or moved the row.  A row no event is about is absent.  `PollsInOrder`: a committed offset is never beyond the polled one, and what is in hand was polled last |

Going back after a crash only takes keys out of the claim, and repeating older
events does not disturb it, for the last event is then not polled yet.
`TopicsAssumption` says what topics hold; in particular an event that deletes
bears on one key.

### The pipeline

For every history and every number of stops of the producer, every effect of the
changes on rows, and every number of crashes and failing calls of the connector:

| Theorem | Property | Inductive invariant, and why it is needed |
|---|---|---|
| `DeliversEndToEnd` | `EndToEnd` | `PipelineInv`.  `Genuine`: the log holds nothing but changes of the source.  `Pending`: what is open or decided is of transactions not behind any that the log ends with.  `InOrder`, unless `ahead`: the log comes forward again as far as it has ever been, so that the last place of a row's last change has nothing of that row behind it.  `feed = FeedOf(log)`.  `ConnectorInv`: `SinkInv` of the connector over the feed as it is |
| `NeverReturns` | `NoReturn` | the same, and `ValueInv`: until the connector is started again, a row holds nothing or the value of an event it has polled.  What is polled later is of a later change (`FeedOrdered`), while no session began early |

`SinkInv` was proved for topics that stay; here the producer writes to them.
What makes it keep is `TopicsGrow`: a topic only gets longer (`FeedExtends`, from
`FlattenAppend`), so that an event polled stays where it was, and one that has
become the last on its key is not polled yet.  `EndToEnd` follows from
`SinkConverges` as soon as the last event on a row is that of the row's last
change (`LastIsDelivered`): it is in the log since no failure hit its transaction
(`LossInv`), and last in its topic since the log's order is the topic's
(`FeedFrom`, `FeedBehind`).  `NeverReturns` is about histories whose later changes
of a row have larger values (`Ascending`), as those of `MCPipeline` do: in that
case a smaller value is an older one.  Besides the assumptions of both processes these are
`EffectsAssumption`, `RelationsAssumption` and `ConnectorAssumption`.

### One change

For every set of shapes (any number of columns, any key columns in increasing
order, either identity, any number of columns up to which the decoder unrolls,
at most its six), every set of byte values, and any number of deliveries:

| Theorem | Property | By |
|---|---|---|
| `RowTypeCorrect` | `TypeOK` | `EventInv`, `TargetInv` |
| `DecodesExactly` | `DecodedExactly` | `RowInv`: the change is one of the table's.  A loop over cells reads, after each, the columns up to it and stands where the next begins |
| `MirrorsUnderFull` | `FelderaMirrors` | `MirrorInv`, from `DecodedExactly`: whatever the event's other paths |
| `ArrivesExactly` | `ArrivesIffHandled` | `EventInv`: what the event of a K tuple holds.  `TargetInv`: after any delivery the target is where `Landed` says: as the source is if `Handled`, else as it was, or with a moved row in both places |
| `ChangesNothingElse` | `AppliedOrUntouched` | the same |

`DecodesExactly` has no exception but changes that come with a K tuple: what
`parse_keys` makes of those is `RowChangeKeyProofs`.  A narrow table's loop ends
at the first key column that is not below the number of keys (`FirstKeys`) and
skips as many bytes as columns are left, so that deletes keep the first keys,
and an update that moves a row always finds no N tag behind (`NarrowMoves`); a
wide table's `parse_keys` reads every column, or fails.
`RowChangeTargetProofs` then goes through the statements: the SET list that ends
in a comma iff the last column is a key, the parameters an upsert or delete is
given by the identities of event, cache and statement, and that delivering again
changes nothing more.  Handled and not handled are shown from the same facts,
which is what makes the equivalence provable: each leaves the target in one
place only.

The decoder's loops are folds, and the bytes a flattened sequence.  The provers
cannot use an induction theorem that takes a predicate, so `DataLemmas` states
induction for sets: a set of numbers that holds 0 and, with n, n + 1 is all of
Nat.  The steps of a fold (`IterExists`), the prefixes of a flattened sequence
(`FlattenPrefixes`) and the places of its parts (`FlattenPlaces`) follow, each
as a function whose values are related one by one.  The topics of `Pipeline` are
flattened sequences as well, of which the proofs need what comes before what
(`FlattenAppend`, `FlattenFrom`, `FlattenOrdered`).

### Descriptions and values

For every set of definitions with up to 255 columns and names of up to the 63
bytes PostgreSQL allows, every set of key words, every ALTER TABLE between them, any number of times, every row of values of up to
255 bytes, and either build of the producer:

| Theorem | Property | By |
|---|---|---|
| `AlwaysUnderstood` | `Understood` | `ReadsRelation`: the parser's result is the definition's meaning if it is supported, and an error if not; never a panic.  `RelationTravels`: Avro's numbers give the same description back |
| `ValuesAlwaysKept` | `ValuesKept` | `EventInv`: the event is what the producer makes of the last row by what it knows, and before the server has described the table there is none.  `ReadsInsert`: by the right description that is the row, by another an error or values of a row's kinds |
| `PostgresAlwaysArrives` | `PostgresArrives` | `StmtInv`: the cached statement's parameters are columns of the target, no two the same one.  `PgInv`: what was executed is that statement, with the values received, or nothing could be prepared |
| `FelderaAlwaysArrives` | `FelderaArrives` | `FelInv`: the row is of the names in the connector's cache, which for an event that was decoded are the table's |
| `TypedRowsTypeCorrect` | `TypeOK` | the same |

The description's bytes are where the search matters.  `FindsFirstNull` says of
both builds that the position found is that of the first null: within a word,
`Marked` may hold bytes behind a null that are none (the subtraction borrows),
never one before it; and the words looked at, the overlapping one included, leave
no byte out.  From it `ReadsString`, `ReadsField` and `ReadsFields` follow the
parser through the message with `Lies`: a part lies at a position, and a part of
a part at the sum of the two.  The fields and the values are folds again, and
each step's result is related to the bytes of one column or cell (`FieldsSteps`,
`RowSteps`).

`IInv` is the conjunction; `KnownInv` says that producer and connectors know one
description, the meaning of some supported definition, perhaps an older one.
Neither sink's property is inductive without `EventInv`: what a sink did is told
by the values received, and those by the row.  Planning this proof showed that
`Prepares` had accepted a statement with two columns of the same folded name;
`MCTypedRows` has had such a table since.

`DefinitionsAssumption` holds what is PostgreSQL's part: the OIDs of the types
the decoder knows, and of no other; that names are UTF-8 without a zero byte, and
columns of a table have different ones; the width of what the types' send
functions write.  `NamesAssumption` is used by no proof: it says of which names
`Prepares` is what PostgreSQL does.

### What stays with TLC

`Settled` and `Drains` are liveness, out of the prover's reach.  Every safety
property that a run checks is proved.  That the constants' assumptions describe
PostgreSQL, Kafka and the libraries is stated, not proved (section 2).

## 5. What is not modelled

- Topic creation (`ensure_topic`: the topics are there when anything is sent),
  metrics, logging, configuration: they do not touch the data.
- The integration tests, a harness around containers; what they assert is used
  as a claim.
- Avro's bytes: `serde_avro_fast` is taken to read what it wrote.
- The text of SQL beyond what `UpsertPrepares` and `Prepares` say of it, and
  schemas: a table's namespace is not in the statements, so that two tables of
  one name are one in the target.
- `find_null_word` on a big-endian machine, where `trailing_zeros` would count
  from the wrong end; `other` is a little-endian one.  `to_json_value` of a debug
  build, where adding the epoch to `infinity` panics; the Dockerfile builds a
  release.
- The feldera-connector without identity FULL, which its documentation excludes
  (`CDC_PROD_WILL_CONNECT_TO_FELDERA`); `docker-compose.yml:125` nevertheless
  runs it with the setting false.
- Two producers at once: the transactional id fences the older one.
- Compaction of the relations topic: a record that is compacted away has a later
  one of the same relation.
- A panic on an empty XLogData message (`lib.rs:104`): pgoutput sends none.

## 6. How the project was built

In this order: `KafkaTxn`, `CdcProducer` with its abstraction and first
theorems, `CdcSink`, `RowChange`, Feldera and panics in `CdcSink`, `Pipeline`,
`TypedRows`, identities in `RowChange`; then proofs of every safety property of
`CdcProducer`, its refinement, and every property of `CdcSink`, `RowChange`,
`Pipeline` and `TypedRows`.  What could come next:

1. Deletes and updates in `TypedRows`, so that the paths of `RowChange` are
   joined with the values' types.
2. Events under DEFAULT in the feldera-connector, if its documentation should
   come to allow them.
