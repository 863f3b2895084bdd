------------------------------ MODULE KafkaTxn ------------------------------
(***************************************************************************)
(* The transactional client behind KafkaProducer (src/cdc-producer/src/    *)
(* main.rs): start_transaction, send, on_relation, commit_transaction and  *)
(* abort_transaction, each over the librdkafka call it wraps.              *)
(*                                                                         *)
(* A client is a record                                                    *)
(*   st      "ready" no transaction, "open" begun, "abortable" only an     *)
(*           abort is possible, "aborting" an abort timed out and may be   *)
(*           called again, "committing" a commit timed out: from there     *)
(*           every call fails until the process restarts;                  *)
(*   open    what the current transaction has produced;                    *)
(*   decided the transaction the coordinator has decided to commit and     *)
(*           whose markers are not written yet: no consumer sees it.       *)
(* An operation is the set of its outcomes, records [ok, k]: whether the   *)
(* method returns Ok, and the client afterwards.                           *)
(***************************************************************************)
EXTENDS Naturals, Sequences

\* One LSN record per committed transaction; lsn = 0 says there is none yet.
EmptyBatch == [events |-> <<>>, rels |-> {}, lsn |-> 0]

States == {"ready", "open", "abortable", "aborting", "committing"}

FreshClient == [st |-> "ready", open |-> EmptyBatch, decided |-> EmptyBatch]

Ok(k)  == [ok |-> TRUE, k |-> k]
Err(k) == [ok |-> FALSE, k |-> k]

Failing(k, st) == Err([k EXCEPT !.st = st])

\* begin_transaction is a local call: it succeeds exactly when no
\* transaction is in progress.
StartTransaction(k) ==
  IF k.st = "ready" THEN {Ok([k EXCEPT !.st = "open"])} ELSE {Err(k)}

\* A produce call and its delivery report.  It can be refused locally (the
\* payload cannot be encoded, is too large, its topic is gone) and leave the
\* transaction as it was, or fail for good and make the transaction abortable.
\* It cannot succeed before the previous transaction is complete.
Produce(k, grown) ==
  {Err(k)}
    \cup (IF k.st = "open" THEN {Failing(k, "abortable")} ELSE {})
    \cup (IF k.st = "open" /\ k.decided = EmptyBatch
          THEN {Ok([k EXCEPT !.open = grown])} ELSE {})

Send(k, c) == Produce(k, [k.open EXCEPT !.events = Append(@, c)])

\* Mutant: the delivery of a relation record is not awaited.
OnRelationUnawaited(k, r) ==
  {Ok(o.k) : o \in Produce(k, [k.open EXCEPT !.rels = @ \cup {r}])}

OnRelation(k, r) == Produce(k, [k.open EXCEPT !.rels = @ \cup {r}])

\* Mutant: a commit that times out is taken for a commit that failed cleanly,
\* and the client goes on with the transaction it may already have committed.
EndTransactionReopens(k) ==
  { Ok([k EXCEPT !.st = "ready", !.open = EmptyBatch, !.decided = k.open]),
    Failing(k, "abortable"),
    Err([k EXCEPT !.decided = k.open]) }

\* commit_transaction of the client: decided, abortable, or unanswered.
EndTransaction(k) ==
  { Ok([k EXCEPT !.st = "ready", !.open = EmptyBatch, !.decided = k.open]),
    Failing(k, "abortable"),
    Failing(k, "committing") }

\* The LSN record is produced first; an error there returns before the commit.
CommitTransaction(k, lsn) ==
  LET written == Produce(k, [k.open EXCEPT !.lsn = lsn]) IN
  {o \in written : ~o.ok}
    \cup UNION {EndTransaction(o.k) : o \in {w \in written : w.ok}}

\* An abort drops what was produced.  It is refused in "ready" and in
\* "committing"; when it times out it may be called again.
AbortTransaction(k) ==
  IF k.st \in {"open", "abortable", "aborting"}
  THEN { Ok([k EXCEPT !.st = "ready", !.open = EmptyBatch]),
         Err([k EXCEPT !.st = "aborting", !.open = EmptyBatch]) }
  ELSE {Err(k)}

\* A commit nobody answered may still reach the coordinator, which decides it
\* and cares no more whether the process is alive.
CanDecide(k) == k.st = "committing" /\ k.open # EmptyBatch

DecideLate(k) == [k EXCEPT !.decided = k.open, !.open = EmptyBatch]
=============================================================================
