------------------------------ MODULE Pipeline ------------------------------
(***************************************************************************)
(* The whole way of a change: cdc-producer (module CdcProducer) and a      *)
(* connector (module CdcSink) over the topics that lie between them.  What *)
(* the connector meets is what the producer committed and no more: both    *)
(* KafkaClient's consumer and read_lsn read committed records only.        *)
(* Both processes run, stop and start by themselves; they share nothing    *)
(* but the topics, which only grow.                                        *)
(***************************************************************************)
EXTENDS CdcProducer

CONSTANTS
  Effects,         \* Effects[<<t, i>>]: [op, key, old, val] of that change
  Keys, Platforms, \* as in CdcSink
  MaxSinkCrashes, MaxDrops

ASSUME EffectsAssumption ==
  /\ \A t \in Txns : \A c \in ChangesOf(t) :
       /\ Effects[c].op \in {"upsert", "delete"}
       /\ {Effects[c].key, Effects[c].old} \subseteq Keys
       /\ Effects[c].val \in Nat
       /\ Effects[c].op = "delete" => Effects[c].old = Effects[c].key

ASSUME RelationsAssumption ==
  IsFiniteSet(Relations) /\ "relations" \notin Relations /\ "none" \notin Relations

ASSUME ConnectorAssumption ==
  /\ Platforms \subseteq {"postgres", "feldera"}
  /\ MaxSinkCrashes \in Nat /\ MaxDrops \in Nat

VARIABLES
  feed,   \* the topics of the connector, always FeedOf(log)
  platform, sinkPhase, conn, relCache, stmts, pos, hand, committed, table,
  sinkCrashes, drops, missed,
  ahead   \* history: some session began past a transaction that the log has
          \* gone back behind

sinkVars == <<platform, sinkPhase, conn, relCache, stmts, pos, hand, committed,
              table, sinkCrashes, drops, missed>>

------------------------------------------------------------------------------
\* send publishes a change to the topic of its table ...
EventOf(c) ==
  [op |-> Effects[c].op, key |-> Effects[c].key, old |-> Effects[c].old,
   val |-> Effects[c].val, schema |-> 1, form |-> "plain"]

EventsOf(b, r) ==
  FlattenSeq([n \in DOMAIN b.events |->
                IF Rel(b.events[n]) = r THEN <<EventOf(b.events[n])>> ELSE <<>>])

\* ... and on_relation a record to the topic of the relations.
RelationsOf(b) ==
  LET rels == SetToSeq(b.rels) IN
  [n \in DOMAIN rels |-> [table |-> rels[n], schema |-> 1]]

\* What read-committed consumers find in the topics.
FeedOf(batches) ==
  [p \in Relations \cup {"relations"} |->
     FlattenSeq([n \in DOMAIN batches |->
                   IF p = "relations" THEN RelationsOf(batches[n])
                   ELSE EventsOf(batches[n], p)])]

S == INSTANCE CdcSink WITH
       Tables <- Relations, Feed <- FeedOf(<<>>), Arity <- <<1>>,
       phase <- sinkPhase, crashes <- sinkCrashes, MaxCrashes <- MaxSinkCrashes

------------------------------------------------------------------------------
PipelineInit == Init /\ S!Init /\ ahead = FALSE

\* A session begins beyond a transaction that the log once reached, but of
\* which the last LSN record falls short: an earlier session repeated older
\* ones and stopped before it came to this one again.
BeginsAhead ==
  /\ phase = "resuming" /\ phase' = "running"
  /\ \E t \in Txns : \E n \in DOMAIN log :
       t < srcTxn' /\ EndLsn[t] > Checkpoint /\ EndLsn[t] <= log[n].lsn

ProducerStep ==
  /\ Next
  /\ feed' = IF log' = log THEN feed ELSE FeedOf(log')
  /\ ahead' = (ahead \/ BeginsAhead)
  /\ UNCHANGED sinkVars

ConnectorStep == UNCHANGED <<vars, ahead>> /\ S!Next

PipelineNext == ProducerStep \/ ConnectorStep

PipelineSpec == PipelineInit /\ [][PipelineNext]_<<vars, feed, sinkVars, ahead>>

------------------------------------------------------------------------------
\* The source's changes of a key, and the row they leave.
OnKey(r, k) ==
  {c \in UNION {ChangesOf(t) : t \in Txns} :
     Rel(c) = r /\ k \in {Effects[c].key, Effects[c].old}}
LastChange(r, k) ==
  CHOOSE c \in OnKey(r, k) : \A d \in OnKey(r, k) : d = c \/ Before(d, c)
SourceRow(r, k) ==
  LET e == Effects[LastChange(r, k)] IN
  IF e.op = "upsert" /\ e.key = k THEN [val |-> e.val, schema |-> 1] ELSE S!NoRow

\* The producer has received everything and the connector consumed it.
Finished ==
  /\ phase = "running" /\ srcTxn = N + 1
  /\ kafka.decided = EmptyBatch /\ ~CanDecide(kafka)
  /\ S!CaughtUp

\* From source row to target row: when all is received and consumed a row of
\* the target is the source's, whatever stopped and resumed where, and whether
\* or not some transactions went through Kafka twice.  A row that is not had
\* its last change hit by one of the failures either side logs, or a producer
\* session resumed past transactions that the topics no longer end with.
EndToEnd ==
  Finished =>
    \A r \in Relations : \A k \in Keys :
      OnKey(r, k) # {} =>
        \/ table[r][k] = SourceRow(r, k)
        \/ LastChange(r, k)[1] \in failedIn
        \/ LastChange(r, k) \notin Publishable(LastChange(r, k)[1])
        \/ S!On(r, k) # {} /\ (<<r, S!LastOn(r, k)>> \in missed
                                 \/ S!MovedAway(r, k))
        \/ ahead

Ascending ==
  \A r \in Relations : \A k \in Keys : \A c, d \in OnKey(r, k) :
    Before(c, d) => Effects[c].val <= Effects[d].val

\* While every session of the producer begins at the end of the log and the
\* connector is not started again, a target row never returns to an older
\* value: nothing in the path reorders or repeats (read_lsn, consume_from_kafka).
\* Here a larger value is a later one (Ascending).
NoReturn ==
  [][\A r \in Relations : \A k \in Keys :
       table'[r][k].val < table[r][k].val =>
         \/ stale \/ sinkCrashes > 0
         \/ \E c \in OnKey(r, k) : Effects[c].op = "delete" \/ Effects[c].key # k
    ]_table
=============================================================================
