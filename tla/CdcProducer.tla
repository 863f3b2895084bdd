----------------------------- MODULE CdcProducer -----------------------------
(***************************************************************************)
(* cdc-producer: the loop of start_wal_input (src/cdc-wal-reader/src/      *)
(* lib.rs) that turns a logical replication stream into Kafka transactions *)
(* through KafkaProducer (module KafkaTxn), and main (src/cdc-producer/src/*)
(* main.rs), which reads the last published LSN back before it resumes.    *)
(*                                                                         *)
(* The source database is a fixed history of transactions 1..N, each a     *)
(* sequence of changes named by the relation they touch.  What travels in  *)
(* a batch is the position <<txn, index>> of a change.                     *)
(*                                                                         *)
(* Each loop iteration is one step: a crash between two awaits of an       *)
(* iteration leaves what a crash just before or just after it would, since *)
(* everything the process holds is lost and an unanswered Kafka call has   *)
(* its own outcome in KafkaTxn.                                            *)
(***************************************************************************)
EXTENDS KafkaTxn, SequencesExt

CONSTANTS
  N,            \* source transactions
  Relations,    \* tables of the publication
  Changes,      \* Changes[t][i]: the relation of change i of transaction t
  Undecodable,  \* positions <<t, i>> of changes the decoder rejects
  Unparsable,   \* relations whose Relation message the decoder rejects
  CommitLsn,    \* LSN of the commit record of each transaction
  EndLsn,       \* LSN of the end of that record
  MaxCrashes    \* bound: how often the process may stop

Txns == 1..N

ASSUME SizesAssumption == N \in Nat /\ MaxCrashes \in Nat

ASSUME ChangesAssumption ==
  /\ Changes \in [Txns -> Seq(Relations)]
  /\ Unparsable \subseteq Relations

\* Commit records do not overlap; the next one may begin where the last ends.
ASSUME LsnAssumption ==
  /\ CommitLsn \in [Txns -> Nat] /\ EndLsn \in [Txns -> Nat]
  /\ \A t \in Txns : 0 < CommitLsn[t] /\ CommitLsn[t] < EndLsn[t]
  /\ \A s, t \in Txns : s < t => EndLsn[s] <= CommitLsn[t]

VARIABLES
  phase,      \* "down", "resuming" (LSN read, not connected), "running"
  inTxn,      \* currently_in_transaction
  relMap,     \* relation_map: the relations decoded in this session
  startLsn,   \* what read_lsn returned
  applied,    \* the client's applied LSN, not yet reported to the server
  srcTxn,     \* the stream: the transaction being received (N + 1: none left)
  srcPos,     \* 0 its Begin is next, i change i, Len + 1 its Commit
  announced,  \* relations the server has described in this session
  confirmed,  \* the slot's confirmed_flush_lsn
  kafka,      \* the transactional client and its coordinator
  log,        \* the committed batches, in order
  lsnOffset,  \* group producer-lsn-read's committed offset in the LSN topic
  crashes,
  \* History
  failedIn,   \* transactions during which a begin, a send or a commit failed
  relLost,    \* relations whose record was refused or dropped by an abort
  floor,      \* the stream is at or after this transaction in the log's order
  stale       \* some session began before the end of the log

procVars    == <<phase, inTxn, relMap, startLsn, applied>>
streamVars  == <<srcTxn, srcPos, announced>>
historyVars == <<failedIn, relLost, floor, stale>>
vars == <<procVars, streamVars, confirmed, kafka, log, lsnOffset, crashes,
          historyVars>>

------------------------------------------------------------------------------
(* What is received, and what of it the decoder can turn into an event.    *)

Positions == Txns \X Nat
Rel(c) == Changes[c[1]][c[2]]
ChangesOf(t) == {<<t, i>> : i \in DOMAIN Changes[t]}
Here == <<srcTxn, srcPos>>
AtBegin  == phase = "running" /\ srcTxn \in Txns /\ srcPos = 0
AtChange == phase = "running" /\ srcTxn \in Txns
              /\ srcPos \in DOMAIN Changes[srcTxn]
AtCommit == phase = "running" /\ srcTxn \in Txns
              /\ srcPos = Len(Changes[srcTxn]) + 1

\* decoder::{insert,update,delete}::parse look the relation up and decode.
Decodes(c) == Rel(c) \in relMap /\ c \notin Undecodable
Publishable(t) ==
  {c \in ChangesOf(t) : c \notin Undecodable /\ Rel(c) \notin Unparsable}

\* The relation records a step of the client drops.
Dropped(k, k2) == k.open.rels \ (k2.open.rels \cup k2.decided.rels)

Advance == srcPos' = srcPos + 1 /\ UNCHANGED srcTxn

\* Batches a consumer sees or will see whatever happens next.
Durable == ToSet(log) \cup ({kafka.decided} \ {EmptyBatch})
Published == UNION {ToSet(log[n].events) : n \in DOMAIN log}
Checkpoint == IF log = <<>> THEN 0 ELSE Last(log).lsn

------------------------------------------------------------------------------
Init ==
  /\ phase = "down" /\ inTxn = FALSE /\ relMap = {}
  /\ startLsn = 0 /\ applied = 0
  /\ srcTxn = 1 /\ srcPos = 0 /\ announced = {}
  /\ confirmed = 0
  /\ kafka = FreshClient
  /\ log = <<>> /\ lsnOffset = 0
  /\ crashes = 0
  /\ failedIn = {} /\ relLost = {} /\ floor = 0 /\ stale = FALSE

\* Begin: an open transaction is aborted first; start_transaction's error is
\* only logged, and the loop believes it is in a transaction either way.
RecvBegin ==
  /\ AtBegin
  /\ \E a \in (IF inTxn THEN AbortTransaction(kafka) ELSE {Err(kafka)}) :
       \E b \in StartTransaction(a.k) :
         /\ kafka' = b.k
         /\ relLost' = relLost \cup Dropped(kafka, b.k)
         /\ failedIn' = IF b.ok THEN failedIn ELSE failedIn \cup {srcTxn}
  /\ inTxn' = TRUE
  /\ Advance
  /\ UNCHANGED <<phase, relMap, startLsn, applied, announced, confirmed, log,
                 lsnOffset, crashes, floor, stale>>

\* Mutant: the error of on_relation keeps the relation out of relation_map.
RememberOnlySent(r, ok) == IF ok THEN relMap \cup {r} ELSE relMap

\* relation_map.insert happens whether or not the record was produced.
Remember(r, ok) == relMap \cup {r}

\* The server describes a relation before its first change of the session.
\* The record is produced whatever currently_in_transaction says.
RecvRelation ==
  /\ AtChange /\ Rel(Here) \notin announced
  /\ announced' = announced \cup {Rel(Here)}
  /\ IF Rel(Here) \in Unparsable
     THEN UNCHANGED <<relMap, kafka, relLost>>
     ELSE \E o \in OnRelation(kafka, Rel(Here)) :
            /\ kafka' = o.k
            /\ relMap' = Remember(Rel(Here), o.ok)
            /\ relLost' = IF o.ok THEN relLost ELSE relLost \cup {Rel(Here)}
  /\ UNCHANGED <<phase, inTxn, startLsn, applied, srcTxn, srcPos, confirmed,
                 log, lsnOffset, crashes, failedIn, floor, stale>>

\* Changes of a transaction that was aborted are skipped.
SkipChange ==
  /\ AtChange /\ Rel(Here) \in announced
  /\ ~inTxn
  /\ Advance
  /\ UNCHANGED <<procVars, announced, confirmed, kafka, log, lsnOffset,
                 crashes, historyVars>>

\* A change that does not decode is logged, and its transaction goes on.
DropUndecodable ==
  /\ AtChange /\ Rel(Here) \in announced
  /\ inTxn /\ ~Decodes(Here)
  /\ Advance
  /\ UNCHANGED <<procVars, announced, confirmed, kafka, log, lsnOffset,
                 crashes, historyVars>>

PublishChange ==
  /\ AtChange /\ Rel(Here) \in announced
  /\ inTxn /\ Decodes(Here)
  /\ \E o \in Send(kafka, Here) : o.ok /\ kafka' = o.k
  /\ Advance
  /\ UNCHANGED <<procVars, announced, confirmed, log, lsnOffset, crashes,
                 historyVars>>

\* Mutant: the failed change is dropped and the transaction left open.
OnSendErrorKeepsGoing(k) == {[ok |-> TRUE, k |-> k]}

\* What send_to_producer does about a failed send.
OnSendError(k) == AbortTransaction(k)

AbortOnSendError ==
  /\ AtChange /\ Rel(Here) \in announced
  /\ inTxn /\ Decodes(Here)
  /\ \E o \in Send(kafka, Here) :
       /\ ~o.ok
       /\ \E a \in OnSendError(o.k) :
            /\ kafka' = a.k
            /\ relLost' = relLost \cup Dropped(kafka, a.k)
  /\ inTxn' = FALSE
  /\ failedIn' = failedIn \cup {srcTxn}
  /\ Advance
  /\ UNCHANGED <<phase, relMap, startLsn, applied, announced, confirmed, log,
                 lsnOffset, crashes, floor, stale>>

------------------------------------------------------------------------------
NextTransaction ==
  /\ srcTxn' = srcTxn + 1 /\ srcPos' = 0
  /\ UNCHANGED announced

\* Nothing is committed for a transaction that was aborted.
SkipCommit ==
  /\ AtCommit /\ ~inTxn
  /\ NextTransaction
  /\ UNCHANGED <<procVars, confirmed, kafka, log, lsnOffset, crashes,
                 historyVars>>

\* Mutant: the checkpoint is the start of the commit record.
LsnToWriteStart(t) == CommitLsn[t]

\* Mutant: the checkpoint is where the stream was before the transaction.
LsnToWritePrevious(t) == IF t > 1 THEN CommitLsn[t - 1] ELSE 0

\* commit_transaction(end_lsn.0) ...
LsnToWrite(t) == EndLsn[t]

\* Mutant: the end of the next transaction's record is acknowledged.
LsnToApplyNext(t) == IF t < N THEN EndLsn[t + 1] ELSE EndLsn[t]

\* ... but update_applied_lsn(lsn).
LsnToApply(t) == CommitLsn[t]

CommitOk ==
  /\ AtCommit /\ inTxn
  /\ \E o \in CommitTransaction(kafka, LsnToWrite(srcTxn)) :
       o.ok /\ kafka' = o.k
  /\ inTxn' = FALSE
  /\ applied' = LsnToApply(srcTxn)
  /\ NextTransaction
  /\ UNCHANGED <<phase, relMap, startLsn, confirmed, log, lsnOffset, crashes,
                 historyVars>>

\* A failed commit is logged: nothing is aborted and nothing acknowledged.
CommitFailed ==
  /\ AtCommit /\ inTxn
  /\ \E o \in CommitTransaction(kafka, LsnToWrite(srcTxn)) :
       ~o.ok /\ kafka' = o.k
  /\ inTxn' = FALSE
  /\ NextTransaction
  /\ failedIn' = failedIn \cup {srcTxn}
  /\ UNCHANGED <<phase, relMap, startLsn, applied, confirmed, log, lsnOffset,
                 crashes, relLost, floor, stale>>

------------------------------------------------------------------------------
(* The slot, the coordinator and the process's life.                       *)

\* The replication client reports the applied LSN on its own schedule.
StatusUpdate ==
  /\ phase = "running" /\ applied > confirmed
  /\ confirmed' = applied
  /\ UNCHANGED <<procVars, streamVars, kafka, log, lsnOffset, crashes,
                 historyVars>>

DecideLateCommit ==
  /\ CanDecide(kafka)
  /\ kafka' = DecideLate(kafka)
  /\ UNCHANGED <<procVars, streamVars, confirmed, log, lsnOffset, crashes,
                 historyVars>>

\* lsn is past transaction t and no other.
EndsAt(t, lsn) ==
  /\ \A r \in 1..t : EndLsn[r] <= lsn
  /\ t < N => lsn < EndLsn[t + 1]

\* The coordinator completes a decided transaction: consumers see it whole.
WriteMarkers ==
  /\ kafka.decided # EmptyBatch
  /\ log' = Append(log, kafka.decided)
  /\ kafka' = [kafka EXCEPT !.decided = EmptyBatch]
  /\ \E t \in 0..N : EndsAt(t, kafka.decided.lsn) /\ floor' = t
  /\ UNCHANGED <<procVars, streamVars, confirmed, lsnOffset, crashes, failedIn,
                 relLost, stale>>

Stop ==
  /\ phase' = "down" /\ crashes' = crashes + 1
  /\ UNCHANGED <<inTxn, relMap, startLsn, applied, streamVars, confirmed, log,
                 lsnOffset, historyVars>>

\* The server closes the stream: a transaction in progress is aborted and
\* main returns.
ConnectionClosed ==
  /\ phase = "running" /\ crashes < MaxCrashes
  /\ \E a \in (IF inTxn THEN AbortTransaction(kafka) ELSE {Err(kafka)}) :
       kafka' = a.k
  /\ Stop

\* recv's error makes main panic; so does anything that kills the process.
Crash ==
  /\ phase # "down" /\ crashes < MaxCrashes
  /\ UNCHANGED kafka
  /\ Stop

\* Mutant: the offset kept is one past what was read.
GroupOffsetOnePast(n) == {lsnOffset, n + 1}

\* enable.auto.commit is left at its default: what was read is committed by a
\* timer and on close, or was not yet.
GroupOffset(n) == {lsnOffset, n}

\* read_lsn: from the group's offset, as far as it gets before 500 ms pass
\* without a record, 0 when there is none.
ReadLsn ==
  /\ phase = "down"
  /\ \E n \in lsnOffset..Len(log) :
       /\ startLsn' = IF n = lsnOffset THEN 0 ELSE log[n].lsn
       /\ lsnOffset' \in GroupOffset(n)
  /\ phase' = "resuming"
  /\ UNCHANGED <<inTxn, relMap, applied, streamVars, confirmed, kafka, log,
                 crashes, historyVars>>

\* The server sends the transactions whose commit record is at or after lsn.
ResumesAt(t, lsn) ==
  /\ \A r \in 1..(t - 1) : CommitLsn[r] < lsn
  /\ t \in Txns => lsn <= CommitLsn[t]

\* START_REPLICATION never goes back before the slot's position.
StartPoint == IF startLsn > confirmed THEN startLsn ELSE confirmed

\* KafkaProducer::new waits for a decided transaction to complete and drops
\* any other; then start_wal_input connects with empty maps.
StartWalInput ==
  /\ phase = "resuming"
  /\ kafka.decided = EmptyBatch
  /\ phase' = "running"
  /\ kafka' = FreshClient
  /\ inTxn' = FALSE /\ relMap' = {} /\ announced' = {}
  /\ applied' = startLsn
  /\ \E t \in 1..(N + 1) :
       /\ ResumesAt(t, StartPoint)
       /\ srcTxn' = t /\ floor' = t - 1
  /\ srcPos' = 0
  /\ stale' = (stale \/ StartPoint < Checkpoint)
  /\ UNCHANGED <<startLsn, confirmed, log, lsnOffset, crashes, failedIn,
                 relLost>>

------------------------------------------------------------------------------
Receive == \/ RecvBegin \/ RecvRelation
           \/ SkipChange \/ DropUndecodable \/ PublishChange \/ AbortOnSendError
           \/ SkipCommit \/ CommitOk \/ CommitFailed

Next == \/ Receive
        \/ StatusUpdate \/ DecideLateCommit \/ WriteMarkers
        \/ ConnectionClosed \/ Crash \/ ReadLsn \/ StartWalInput

Spec == Init /\ [][Next]_vars

\* The loop awaits with a timeout everywhere, and the coordinator completes
\* what it decided.  Nothing restarts the process: no fairness there.
Fairness == WF_vars(Receive) /\ WF_vars(WriteMarkers)

FairSpec == Spec /\ Fairness

------------------------------------------------------------------------------
Batch == [events : Seq(Positions), rels : SUBSET Relations, lsn : Nat]

TypeOK ==
  /\ phase \in {"down", "resuming", "running"}
  /\ inTxn \in BOOLEAN
  /\ relMap \subseteq Relations
  /\ startLsn \in Nat /\ applied \in Nat /\ confirmed \in Nat
  /\ srcTxn \in 1..(N + 1) /\ srcPos \in Nat
  /\ announced \subseteq Relations
  /\ kafka \in [st : States, open : Batch, decided : Batch]
  /\ log \in Seq(Batch)
  /\ lsnOffset \in 0..Len(log)
  /\ crashes \in 0..MaxCrashes
  /\ failedIn \subseteq Txns /\ relLost \subseteq Relations
  /\ floor \in 0..N /\ stale \in BOOLEAN

Before(c, d) == c[1] < d[1] \/ (c[1] = d[1] /\ c[2] < d[2])

\* A batch of whole transactions in source order: of a transaction it holds a
\* change of, it holds every change that can be published.
Ordered(b) ==
  \A m, n \in DOMAIN b.events : m < n => Before(b.events[m], b.events[n])
Complete(b) ==
  \A c \in ToSet(b.events) : Publishable(c[1]) \subseteq ToSet(b.events)
Whole(b) == Ordered(b) /\ Complete(b)

\* What reaches read-committed consumers is source transactions, each in one
\* batch, complete but for what the decoder rejects, in source order: whatever
\* fails between Begin and Commit, no part of a transaction is committed with
\* another one or alone (start_wal_input, send_to_producer).
WholeTransactions == \A b \in Durable : Whole(b)

\* The slot is never told more than what is durable: an LSN it holds is at
\* most the LSN record of a batch that is, or will be, in the log
\* (Commit arm of start_wal_input, update_applied_lsn).
AckedIsDurable ==
  confirmed > 0 => \E b \in Durable : confirmed <= b.lsn

\* A transaction some restart would not receive again, because the slot or an
\* LSN record in the log is past it, has been published, or a begin, a send or
\* a commit failed while it was received (start_wal_input logs the error
\* and goes on): nothing but a logged Kafka error loses a transaction, however
\* the process stops and whatever read_lsn returns.
NoSilentLoss ==
  \A t \in Txns :
    \/ t \in failedIn
    \/ Publishable(t) \subseteq Published \cup ToSet(kafka.decided.events)
    \/ CommitLsn[t] >= confirmed /\ \A b \in ToSet(log) : EndLsn[t] > b.lsn

\* A consumer sees no transaction twice and no LSN out of order, unless some
\* session began before the end of the log (read_lsn in main).
OnceUnlessStale ==
  stale \/ \A m, n \in DOMAIN log : m < n =>
             /\ log[m].lsn < log[n].lsn
             /\ \A c \in ToSet(log[m].events), d \in ToSet(log[n].events) :
                  c[1] < d[1]

\* Every change in the log follows or comes with its relation's record, unless
\* that record was refused or was dropped with an aborted transaction.
SchemaUnlessLost ==
  \A n \in DOMAIN log : \A c \in ToSet(log[n].events) :
    Rel(c) \in relLost \cup UNION {log[m].rels : m \in 1..n}

Abstract == INSTANCE AtomicPublication WITH
  Content <- [t \in Txns |-> Publishable(t)],
  log <- [n \in DOMAIN log |->
            [changes |-> ToSet(log[n].events), lsn |-> log[n].lsn]]

\* The producer implements AtomicPublication: every step either appends whole
\* transactions from beyond the floor to the visible log, under the LSN the
\* last transaction received ends at, or begins a session at a place the
\* abstraction allows, or changes nothing a consumer can tell.
PublishesAtomically == Abstract!Spec

\* While the process runs, a transaction being received is in the end visible
\* to consumers or hit by a failure the loop has logged.
Settled ==
  \A t \in Txns :
    (phase = "running" /\ srcTxn = t)
      ~> (t \in failedIn \/ Publishable(t) \subseteq Published
            \/ phase # "running")

------------------------------------------------------------------------------
(* What the documentation says, which some behaviours contradict.           *)

\* "Exactly-once semantics" (README.MD:15), no loss: a transaction the
\* checkpoint in the log is past has been published.
NothingLost ==
  \A t \in Txns : EndLsn[t] <= Checkpoint => ChangesOf(t) \subseteq Published

\* A restart after a transaction was published does not start from LSN 0
\* (events.rs:189 asserts it of the log line), not even once the LSN reader's
\* group has committed the offset behind the last record.
RestartsFromCheckpoint ==
  phase = "resuming" /\ log # <<>> /\ lsnOffset = Len(log) => startLsn # 0
==============================================================================
