-------------------------- MODULE AtomicPublication --------------------------
(***************************************************************************)
(* What cdc-producer promises those who read its topics, without streams,  *)
(* clients or crashes: the log of committed batches grows by whole         *)
(* transactions, later than all before them, each batch carrying the LSN   *)
(* its last transaction ends at.  The one exception is a session that      *)
(* begins before the end of the log: it may repeat what was published.     *)
(***************************************************************************)
EXTENDS Naturals, Sequences

CONSTANTS
  N,        \* transactions of the source
  Content,  \* Content[t]: what there is to publish of transaction t
  EndLsn    \* EndLsn[t]: where its commit record ends

VARIABLES
  log,    \* the committed batches, [changes, lsn]
  floor,  \* transactions up to this one are behind the producer
  stale   \* some session began before the end of the log

Init == log = <<>> /\ floor = 0 /\ stale = FALSE

\* Transactions in floor + 1 .. m may have been lost; the rest go out whole.
Publish ==
  \E m \in (floor + 1)..N : \E S \in SUBSET ((floor + 1)..m) :
    /\ log' = Append(log, [changes |-> UNION {Content[t] : t \in S},
                           lsn |-> EndLsn[m]])
    /\ floor' = m
    /\ UNCHANGED stale

\* A session that begins before the end of the log, or follows one that did,
\* begins after some published transaction, or at the first.
Resume ==
  /\ stale' = TRUE
  /\ \E f \in 0..N :
       /\ f > 0 => \E n \in DOMAIN log : EndLsn[f] <= log[n].lsn
       /\ floor' = f
  /\ UNCHANGED log

Next == Publish \/ Resume

Spec == Init /\ [][Next]_<<log, floor, stale>>
=============================================================================
