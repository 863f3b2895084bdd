------------------------------- MODULE CdcSink -------------------------------
(***************************************************************************)
(* A connector: the consumer loop of KafkaClient (src/cdc-sink/src/lib.rs) *)
(* over one of its two sinks, PostgresSink with its statement caches       *)
(* (src/postgres-connector/src) or FelderaConnector (src/feldera-connector *)
(* /src).  One topic per table carries its change events, one more the     *)
(* relation records; each has one partition, nothing orders them with each *)
(* other, and what is not fetched yet may as well not be there.            *)
(*                                                                         *)
(* A message is taken in one step (Poll, which stores its offset) and      *)
(* handled in another, so that a crash or the offset auto-commit may come  *)
(* between.  Schemas are numbers from 1, 0 is none; those of a table       *)
(* differ in the columns behind the key, which give them their arity.      *)
(***************************************************************************)
EXTENDS Naturals, Sequences, FiniteSets

CONSTANTS
  Tables,      \* tables, each with its events topic
  Keys,        \* primary key values
  Feed,        \* what the topics hold at first: Feed[t] the events of t,
               \* Feed["relations"] the records [table, schema]
  Arity,       \* Arity[s]: columns of schema s
  Platforms,   \* the sinks tried
  MaxCrashes,  \* bound: how often the process may be stopped
  MaxDrops     \* bound: how often the platform may fail in a call

Schemas == DOMAIN Arity
Topics  == Tables \cup {"relations"}

\* op is "upsert" (insert or update) or "delete", old the key before the
\* change; a delete has no other.  form is "rejected" if from_avro or
\* merge_toasted rejects it, "far" if it has a timestamp that chrono cannot
\* represent, else "plain".
EventRecs == [op : {"upsert", "delete"}, key : Keys, old : Keys, val : Nat,
              schema : Schemas, form : {"plain", "rejected", "far"}]
RelationRecs == [table : Tables, schema : Schemas]

IsFeed(f) ==
  /\ DOMAIN f = Topics
  /\ \A t \in Tables : f[t] \in Seq(EventRecs)
  /\ f["relations"] \in Seq(RelationRecs)
  /\ \A t \in Tables : \A n \in DOMAIN f[t] :
       f[t][n].op = "delete" => f[t][n].old = f[t][n].key

ASSUME BoundsAssumption == MaxCrashes \in Nat /\ MaxDrops \in Nat

ASSUME TopicsAssumption ==
  /\ Arity \in [Schemas -> Nat] /\ Schemas \subseteq Nat \ {0}
  /\ Platforms \subseteq {"postgres", "feldera"}
  /\ "relations" \notin Tables /\ "none" \notin Tables
  /\ IsFeed(Feed)

NoRow == [val |-> 0, schema |-> 0]
Idle  == <<"none", 0>>

VARIABLES
  feed,       \* the topics: a connector reads them and never writes
  platform,   \* which connector this is
  phase,      \* "down" or "running"
  conn,       \* postgres: the connection works; it is never made again
  relCache,   \* relation_cache: the schema known of each table
  stmts,      \* stmts[op][t]: the schema op's cached statement was made from
  pos,        \* pos[topic]: records polled; their offset is stored
  hand,       \* <<topic, n>>: the record polled and not handled, or Idle
  committed,  \* the group's committed offsets
  table,      \* table[t][k]: the row in the target
  crashes, drops,
  missed      \* history: events whose last handling did not write them as sent

vars == <<feed, platform, phase, conn, relCache, stmts, pos, hand, committed,
          table, crashes, drops, missed>>

Is(p) == platform = p

------------------------------------------------------------------------------
Ops == {"upsert", "delete"}
NoStatements == [o \in Ops |-> [t \in Tables |-> 0]]

\* The schema the first n relation records leave for each table.
CacheOf(n) ==
  [t \in Tables |->
     LET about == {i \in 1..n : feed["relations"][i].table = t} IN
     IF about = {} THEN 0
     ELSE feed["relations"][CHOOSE i \in about : \A j \in about : j <= i].schema]

\* {Upsert,Delete}StatementCache::get: made once, and kept whatever relation
\* records follow.
Statement(t, e) == IF stmts[e.op][t] # 0 THEN stmts[e.op][t] ELSE relCache[t]

\* The schema whose columns the values of e are taken for, by position: the
\* statement's, or the one convert_row has the names of.
Layout(t, e) == IF Is("postgres") THEN Statement(t, e) ELSE relCache[t]

\* A statement takes the columns of the schema it was made from; one that
\* deletes takes the key columns.  convert_row drops what has no name.
Fits(s, e) == e.op = "delete" \/ Arity[s] = Arity[e.schema]

Executes(t, e) ==
  /\ e.form # "rejected" /\ Layout(t, e) # 0
  /\ Is("postgres") => conn /\ Fits(Layout(t, e), e)

\* ToSqlWrapper adds the timestamp to PG_EPOCH, out of chrono's range; with a
\* statement in the cache, before the connection is needed.
Panics(t, e) ==
  /\ Is("postgres") /\ e.form = "far"
  /\ Layout(t, e) # 0 /\ Fits(Layout(t, e), e)
  /\ conn \/ stmts[e.op][t] # 0

Row(t, e) ==
  [val |-> IF e.form = "far" THEN 0 ELSE e.val, schema |-> Layout(t, e)]

\* postgres: DELETE by the key, or INSERT .. ON CONFLICT DO UPDATE; Update's
\* old is not looked at.  feldera: an update also deletes the row it was, and
\* to_json_value makes a far timestamp null.
Write(t, e) ==
  LET gone == CASE e.op = "delete"  -> {e.key}
                [] Is("feldera")    -> {e.old}
                [] OTHER            -> {}
  IN [k \in Keys |-> IF e.op = "upsert" /\ k = e.key THEN Row(t, e)
                     ELSE IF k \in gone THEN NoRow ELSE table[t][k]]

\* What the caches hold once on_event has asked for the statement.  With the
\* connection lost a new one cannot be prepared.
Prepared(t, e) ==
  IF Is("postgres") /\ conn THEN [stmts EXCEPT ![e.op][t] = Statement(t, e)]
  ELSE stmts

------------------------------------------------------------------------------
Init ==
  /\ feed = Feed /\ platform \in Platforms
  /\ phase = "down" /\ conn = FALSE
  /\ relCache = [t \in Tables |-> 0] /\ stmts = NoStatements
  /\ pos = [p \in Topics |-> 0] /\ hand = Idle
  /\ committed = [p \in Topics |-> 0]
  /\ table = [t \in Tables |-> [k \in Keys |-> NoRow]]
  /\ crashes = 0 /\ drops = 0
  /\ missed = {}

\* load_relations reads the relations topic from its beginning for as long as
\* records keep coming within 500 ms, 5 s in all; the offset it stored may be
\* committed.  Then the connection is made and the topics are consumed from
\* the committed offsets.  The bound also ends what panics stop again and again.
Start ==
  /\ phase = "down" /\ crashes <= MaxCrashes
  /\ phase' = "running" /\ conn' = TRUE
  /\ \E n \in 0..Len(feed["relations"]) :
       /\ relCache' = CacheOf(n)
       /\ \E c \in {committed["relations"], n} :
            committed' = [committed EXCEPT !["relations"] = c]
  /\ pos' = committed' /\ hand' = Idle /\ stmts' = NoStatements
  /\ UNCHANGED <<feed, platform, table, crashes, drops, missed>>

\* The stream yields a record of some topic.
Poll ==
  /\ phase = "running" /\ hand = Idle
  /\ \E p \in Topics :
       /\ pos[p] < Len(feed[p])
       /\ pos' = [pos EXCEPT ![p] = @ + 1]
       /\ hand' = <<p, pos[p] + 1>>
  /\ UNCHANGED <<feed, platform, phase, conn, relCache, stmts, committed, table,
                 crashes, drops, missed>>

\* Event n of table t is in hand and done with.
HandEvent(t, n) ==
  /\ phase = "running" /\ hand = <<t, n>>
  /\ hand' = Idle
  /\ UNCHANGED <<feed, platform, phase, relCache, pos, crashes>>

\* Mutant: commit_message passes the following record too.
OffsetAfterNext(n) == n + 1

\* commit_message(m) commits the offset after m.
OffsetAfter(n) == n

\* Written with all its values in their own columns.
AsSent(t, e) ==
  e.op = "delete" \/ (Layout(t, e) = e.schema /\ e.form = "plain")

\* on_event returns Ok, and an asynchronous commit is sent: it arrives or not.
HandleWritten ==
  \E t \in Tables : \E n \in DOMAIN feed[t] :
    LET e == feed[t][n] IN
    /\ HandEvent(t, n) /\ Executes(t, e) /\ ~Panics(t, e)
    /\ table' = [table EXCEPT ![t] = Write(t, e)]
    /\ stmts' = Prepared(t, e)
    /\ \E c \in {committed[t], OffsetAfter(n)} :
         committed' = [committed EXCEPT ![t] = c]
    /\ missed' = IF AsSent(t, e) THEN missed \ {<<t, n>>}
                 ELSE missed \cup {<<t, n>>}
    /\ UNCHANGED <<conn, drops>>

\* The caches after an event that is not executed: on_event may have prepared
\* its statement before it failed.
CacheAfterFailure(t, e) ==
  IF e.form = "rejected" \/ Layout(t, e) = 0 THEN stmts ELSE Prepared(t, e)

\* The event fails before the platform is asked to change anything.
Fails(t, e) == ~Executes(t, e) /\ ~Panics(t, e)

\* Mutant: an event that fails is tried again.
HandleFailedAgain ==
  \E t \in Tables : \E n \in DOMAIN feed[t] :
    /\ phase = "running" /\ hand = <<t, n>> /\ Fails(t, feed[t][n])
    /\ stmts' = CacheAfterFailure(t, feed[t][n])
    /\ missed' = missed \cup {<<t, n>>}
    /\ UNCHANGED <<feed, platform, phase, conn, relCache, pos, hand, committed,
                   table, crashes, drops>>

\* on_event returns an error, which is logged: no commit, and the next record.
HandleFailed ==
  \E t \in Tables : \E n \in DOMAIN feed[t] :
    /\ HandEvent(t, n) /\ Fails(t, feed[t][n])
    /\ stmts' = CacheAfterFailure(t, feed[t][n])
    /\ missed' = missed \cup {<<t, n>>}
    /\ UNCHANGED <<conn, committed, table, drops>>

\* The platform fails in the call, the change made or not.  postgres does not
\* connect again; feldera's next request is its own.
HandleInterrupted ==
  \E t \in Tables : \E n \in DOMAIN feed[t] :
    LET e == feed[t][n] IN
    /\ HandEvent(t, n) /\ Executes(t, e) /\ ~Panics(t, e)
    /\ drops < MaxDrops /\ drops' = drops + 1
    /\ conn' = Is("feldera")
    /\ stmts' = Prepared(t, e)
    /\ table' \in {table, [table EXCEPT ![t] = Write(t, e)]}
    /\ missed' = missed \cup {<<t, n>>}
    /\ UNCHANGED committed

\* RelationCache::update, or FelderaConnector's names; the statement caches are
\* left alone, and nothing is committed explicitly.
HandleRelation ==
  /\ phase = "running" /\ hand[1] = "relations"
  /\ LET r == feed["relations"][hand[2]] IN
       relCache' = [relCache EXCEPT ![r.table] = r.schema]
  /\ hand' = Idle
  /\ UNCHANGED <<feed, platform, phase, conn, stmts, pos, committed, table,
                 crashes, drops, missed>>

\* enable.auto.commit is left at its default: a timer commits what was polled,
\* handled or not.
AutoCommit ==
  /\ phase = "running" /\ committed # pos
  /\ committed' = pos
  /\ UNCHANGED <<feed, platform, phase, conn, relCache, stmts, pos, hand, table,
                 crashes, drops, missed>>

\* The event in hand dies with the process.
Stop ==
  /\ phase' = "down" /\ crashes' = crashes + 1
  /\ missed' = IF hand[1] \in Tables THEN missed \cup {hand} ELSE missed
  /\ UNCHANGED <<feed, platform, conn, relCache, stmts, pos, hand, committed,
                 table, drops>>

Crash == phase = "running" /\ crashes < MaxCrashes /\ Stop

\* Converting the event in hand panics; nothing was committed for it, and the
\* next start meets it again unless the timer has passed it.
HandlePanics ==
  /\ phase = "running" /\ hand[1] \in Tables
  /\ Panics(hand[1], feed[hand[1]][hand[2]])
  /\ Stop

Handle == HandleWritten \/ HandleFailed \/ HandleInterrupted \/ HandleRelation
            \/ HandlePanics

Next == Start \/ Poll \/ Handle \/ AutoCommit \/ Crash

Spec == Init /\ [][Next]_vars

\* The loop goes on after every error; nothing restarts the process.
FairSpec == Spec /\ WF_vars(Poll) /\ WF_vars(Handle)

------------------------------------------------------------------------------
Rows == [val : Nat, schema : Schemas \cup {0}]

TypeOK ==
  /\ IsFeed(feed) /\ platform \in Platforms
  /\ phase \in {"down", "running"} /\ conn \in BOOLEAN
  /\ relCache \in [Tables -> Schemas \cup {0}]
  /\ stmts \in [Ops -> [Tables -> Schemas \cup {0}]]
  /\ pos \in [Topics -> Nat] /\ \A p \in Topics : pos[p] <= Len(feed[p])
  /\ hand = Idle \/ (hand \in Topics \X Nat /\ hand[2] \in DOMAIN feed[hand[1]])
  /\ committed \in [Topics -> Nat]
  /\ \A p \in Topics : committed[p] <= Len(feed[p])
  /\ table \in [Tables -> [Keys -> Rows]]
  /\ crashes \in 0..(MaxCrashes + 1) /\ drops \in 0..MaxDrops
  /\ missed \subseteq Tables \X Nat

\* The events of a table that bear on a key, and what they leave of it.
On(t, k) == {n \in DOMAIN feed[t] : k \in {feed[t][n].key, feed[t][n].old}}
LastOn(t, k) == CHOOSE n \in On(t, k) : \A m \in On(t, k) : m <= n
Source(t, k) ==
  LET e == feed[t][LastOn(t, k)] IN
  IF e.op = "upsert" /\ e.key = k
  THEN [val |-> e.val, schema |-> e.schema] ELSE NoRow

CaughtUp ==
  phase = "running" /\ hand = Idle /\ \A t \in Tables : pos[t] = Len(feed[t])

\* postgres upserts the new row of an update and leaves the old one.
MovedAway(t, k) == Is("postgres") /\ feed[t][LastOn(t, k)].key # k

\* Once the connector has consumed everything, a row differs from the source's
\* only if the last event on its key was not written as sent the last time it
\* was handled, or moved the row out of postgres's sight: redelivery after a
\* crash, out of step with the target though it is meanwhile, always ends where
\* one delivery would (consume_from_kafka over either on_event).
ConvergesUnlessMissed ==
  CaughtUp =>
    \A t \in Tables : \A k \in Keys :
      IF On(t, k) = {} THEN table[t][k] = NoRow
      ELSE \/ table[t][k] = Source(t, k)
           \/ <<t, LastOn(t, k)>> \in missed
           \/ MovedAway(t, k)

\* The loop never stays on a record, whatever errors it meets.
Drains ==
  phase = "running" ~> (CaughtUp \/ phase # "running")

------------------------------------------------------------------------------
\* "Exactly-once semantics via Kafka transactions + idempotent writes"
\* (README.MD:15): once everything is consumed the target equals the source.
NothingMissed ==
  CaughtUp => \A t \in Tables : \A k \in Keys :
                On(t, k) # {} => table[t][k] = Source(t, k)

\* "Consumer: read committed + idempotent sink writes" (README.MD:110, under
\* Exactly-once): commit_message, which follows an event that was written, moves
\* the group's offset past no event that was not.
CommittedIsWritten ==
  [][HandleWritten =>
       \A t \in Tables : \A n \in 1..committed'[t] :
         committed'[t] # committed[t] => <<t, n>> \notin missed']_vars
==============================================================================
