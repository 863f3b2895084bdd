--------------------------- MODULE CdcProducerProofs ---------------------------
(* Theorems about CdcProducer, for every history of the source, every choice  *)
(* of what does not decode, and any number of crashes: first types, the slot  *)
(* and whole transactions, then what is left in the log (its order, its       *)
(* refinement of AtomicPublication, what is missing from it, and schemas).    *)
EXTENDS CdcProducer, SequenceTheorems, TLAPS

Clients == [st : States, open : Batch, decided : Batch]

------------------------------------------------------------------------------
(* The client: what each method of KafkaTxn may return.                     *)

LEMMA EmptyBatchType == EmptyBatch \in Batch /\ FreshClient \in Clients
  BY DEF EmptyBatch, Batch, FreshClient, Clients, States

LEMMA ProduceOutcome ==
  ASSUME NEW k \in Clients, NEW grown \in Batch, NEW o \in Produce(k, grown)
  PROVE  /\ o.ok \in BOOLEAN /\ o.k \in Clients
         /\ o.k.decided = k.decided
         /\ o.ok => /\ k.st = "open" /\ o.k.st = "open"
                    /\ k.decided = EmptyBatch /\ o.k.open = grown
         /\ ~o.ok => /\ o.k.open = k.open
                     /\ o.k.st = k.st \/ (k.st = "open" /\ o.k.st = "abortable")
<1>1. CASE o = Err(k)
  BY <1>1 DEF Err
<1>2. CASE k.st = "open" /\ o = Failing(k, "abortable")
  BY <1>2 DEF Err, Failing, Clients, States
<1>3. CASE k.st = "open" /\ k.decided = EmptyBatch /\ o = Ok([k EXCEPT !.open = grown])
  BY <1>3 DEF Ok, Clients, States
<1>4. QED
  BY <1>1, <1>2, <1>3 DEF Produce

LEMMA SendGrows ==
  ASSUME NEW k \in Clients, NEW c \in Positions
  PROVE  /\ [k.open EXCEPT !.events = Append(@, c)] \in Batch
         /\ [k.open EXCEPT !.events = Append(@, c)].events
              = Append(k.open.events, c)
         /\ [k.open EXCEPT !.events = Append(@, c)].rels = k.open.rels
<1>1. k.open \in Batch /\ k.open.events \in Seq(Positions)
  BY DEF Clients, Batch
<1>2. Append(k.open.events, c) \in Seq(Positions)
  BY <1>1
<1>3. QED
  BY <1>1, <1>2 DEF Batch

LEMMA OnRelationGrows ==
  ASSUME NEW k \in Clients, NEW r \in Relations
  PROVE  /\ [k.open EXCEPT !.rels = @ \cup {r}] \in Batch
         /\ [k.open EXCEPT !.rels = @ \cup {r}].events = k.open.events
         /\ [k.open EXCEPT !.rels = @ \cup {r}].rels = k.open.rels \cup {r}
  BY DEF Clients, Batch

LEMMA SendOutcome ==
  ASSUME NEW k \in Clients, NEW c \in Positions, NEW o \in Send(k, c)
  PROVE  /\ o.ok \in BOOLEAN /\ o.k \in Clients
         /\ o.k.decided = k.decided
         /\ o.ok => /\ k.st = "open" /\ o.k.st = "open"
                    /\ k.decided = EmptyBatch
                    /\ o.k.open.events = Append(k.open.events, c)
                    /\ o.k.open.rels = k.open.rels
         /\ ~o.ok => /\ o.k.open = k.open
                     /\ o.k.st = k.st \/ (k.st = "open" /\ o.k.st = "abortable")
<1> DEFINE grown == [k.open EXCEPT !.events = Append(@, c)]
<1>1. /\ grown \in Batch /\ grown.events = Append(k.open.events, c)
      /\ grown.rels = k.open.rels
  BY SendGrows
<1>2. o \in Produce(k, grown)
  BY DEF Send
<1> HIDE DEF grown
<1>3. QED
  BY <1>1, <1>2, ProduceOutcome

LEMMA OnRelationOutcome ==
  ASSUME NEW k \in Clients, NEW r \in Relations, NEW o \in OnRelation(k, r)
  PROVE  /\ o.k \in Clients /\ o.k.decided = k.decided
         /\ o.k.open.events = k.open.events
         /\ o.k.st = k.st \/ (k.st = "open" /\ o.k.st = "abortable")
         /\ o.k.st = "committing" => o.k.open = k.open
         /\ o.ok => /\ k.st = "open" /\ o.k.st = "open"
                    /\ k.decided = EmptyBatch
                    /\ o.k.open.rels = k.open.rels \cup {r}
         /\ ~o.ok => o.k.open = k.open
<1> DEFINE grown == [k.open EXCEPT !.rels = @ \cup {r}]
<1>1. /\ grown \in Batch /\ grown.events = k.open.events
      /\ grown.rels = k.open.rels \cup {r}
  BY OnRelationGrows
<1>2. o \in Produce(k, grown)
  BY DEF OnRelation
<1> HIDE DEF grown
<1>3. QED
  BY <1>1, <1>2, ProduceOutcome

LEMMA CommitGrows ==
  ASSUME NEW k \in Clients, NEW lsn \in Nat
  PROVE  /\ [k.open EXCEPT !.lsn = lsn] \in Batch
         /\ [k.open EXCEPT !.lsn = lsn].lsn = lsn
         /\ [k.open EXCEPT !.lsn = lsn].events = k.open.events
         /\ [k.open EXCEPT !.lsn = lsn].rels = k.open.rels
  BY DEF Clients, Batch

LEMMA StartOutcome ==
  ASSUME NEW k \in Clients, NEW o \in StartTransaction(k)
  PROVE  /\ o.ok \in BOOLEAN /\ o.k \in Clients
         /\ o.k.decided = k.decided /\ o.k.open = k.open
         /\ o.k.st = k.st \/ (k.st = "ready" /\ o.k.st = "open")
<1>1. CASE o = Err(k) /\ k.st # "ready"
  BY <1>1 DEF Err
<1>2. CASE o = Ok([k EXCEPT !.st = "open"]) /\ k.st = "ready"
  BY <1>2 DEF Ok, Clients, States
<1>3. QED
  BY <1>1, <1>2 DEF StartTransaction

LEMMA AbortOutcome ==
  ASSUME NEW k \in Clients, NEW o \in AbortTransaction(k)
  PROVE  /\ o.ok \in BOOLEAN /\ o.k \in Clients
         /\ o.k.decided = k.decided
         /\ \/ /\ k.st \in {"ready", "committing"} /\ o.k = k
            \/ /\ k.st \in {"open", "abortable", "aborting"}
               /\ o.k.st \in {"ready", "aborting"}
               /\ o.k.open = EmptyBatch
<1>1. CASE o = Err(k) /\ k.st \in {"ready", "committing"}
  BY <1>1 DEF Err
<1>2. CASE /\ o = Ok([k EXCEPT !.st = "ready", !.open = EmptyBatch])
           /\ k.st \in {"open", "abortable", "aborting"}
  BY <1>2, EmptyBatchType DEF Ok, Clients, States
<1>3. CASE /\ o = Err([k EXCEPT !.st = "aborting", !.open = EmptyBatch])
           /\ k.st \in {"open", "abortable", "aborting"}
  BY <1>3, EmptyBatchType DEF Err, Clients, States
<1>4. k.st \in States
  BY DEF Clients
<1>5. QED
  BY <1>1, <1>2, <1>3, <1>4 DEF AbortTransaction, States

LEMMA EndOutcome ==
  ASSUME NEW k \in Clients, NEW o \in EndTransaction(k)
  PROVE  /\ o.ok \in BOOLEAN /\ o.k \in Clients
         /\ o.ok => /\ o.k.st = "ready" /\ o.k.open = EmptyBatch
                    /\ o.k.decided = k.open
         /\ ~o.ok => /\ o.k.open = k.open /\ o.k.decided = k.decided
                     /\ o.k.st \in {"abortable", "committing"}
<1>1. CASE o = Ok([k EXCEPT !.st = "ready", !.open = EmptyBatch,
                            !.decided = k.open])
  BY <1>1, EmptyBatchType DEF Ok, Clients, States
<1>2. CASE o = Failing(k, "abortable")
  BY <1>2 DEF Failing, Err, Clients, States
<1>3. CASE o = Failing(k, "committing")
  BY <1>3 DEF Failing, Err, Clients, States
<1>4. QED
  BY <1>1, <1>2, <1>3 DEF EndTransaction

LEMMA CommitOutcome ==
  ASSUME NEW k \in Clients, NEW lsn \in Nat,
         NEW o \in CommitTransaction(k, lsn)
  PROVE  LET sent == [k.open EXCEPT !.lsn = lsn] IN
         /\ o.ok \in BOOLEAN /\ o.k \in Clients
         /\ o.ok => /\ k.st = "open" /\ k.decided = EmptyBatch
                    /\ o.k.st = "ready" /\ o.k.open = EmptyBatch
                    /\ o.k.decided = sent
         /\ ~o.ok => /\ o.k.decided = k.decided
                     /\ \/ o.k.open = k.open
                        \/ o.k.open = sent /\ k.decided = EmptyBatch
                     /\ \/ o.k.st = k.st /\ o.k.open = k.open
                        \/ k.st = "open" /\ o.k.st = "abortable"
                        \/ /\ k.st = "open" /\ o.k.st = "committing"
                           /\ k.decided = EmptyBatch /\ o.k.open = sent
<1> DEFINE sent == [k.open EXCEPT !.lsn = lsn]
<1>1. sent \in Batch
  BY CommitGrows
<1>2. CASE \E w \in Produce(k, sent) : ~w.ok /\ o = w
  BY <1>1, <1>2, ProduceOutcome DEF Clients, States
<1>3. CASE \E w \in Produce(k, sent) : w.ok /\ o \in EndTransaction(w.k)
  <2>1. PICK w \in Produce(k, sent) : w.ok /\ o \in EndTransaction(w.k)
    BY <1>3
  <2>2. /\ w.k \in Clients /\ w.k.decided = k.decided /\ k.st = "open"
        /\ k.decided = EmptyBatch /\ w.k.open = sent
    BY <1>1, <2>1, ProduceOutcome
  <2>3. QED
    BY <2>1, <2>2, EndOutcome
<1>4. QED
  BY <1>2, <1>3 DEF CommitTransaction

\* Lemma on a helper: what a log holds after an append.
LEMMA ToSetAppend ==
  ASSUME NEW S, NEW s \in Seq(S), NEW e \in S
  PROVE  ToSet(Append(s, e)) = ToSet(s) \cup {e}
<1>1. /\ DOMAIN Append(s, e) = 1..(Len(s) + 1) /\ DOMAIN s = 1..Len(s)
      /\ Len(s) \in Nat
  OBVIOUS
<1>2. \A i \in 1..(Len(s) + 1) :
        Append(s, e)[i] = IF i = Len(s) + 1 THEN e ELSE s[i]
  OBVIOUS
<1>3. QED
  BY <1>1, <1>2 DEF ToSet

------------------------------------------------------------------------------
(* Type correctness.                                                         *)

LEMMA ClientType == TypeOK => kafka \in Clients
  BY DEF TypeOK, Clients

LEMMA HereType ==
  ASSUME TypeOK, AtChange
  PROVE  Rel(Here) \in Relations /\ Here \in Positions
<1>1. Changes[srcTxn] \in Seq(Relations) /\ srcPos \in 1..Len(Changes[srcTxn])
  BY ChangesAssumption DEF AtChange
<1>2. Changes[srcTxn][srcPos] \in Relations
  BY <1>1
<1>3. QED
  BY <1>1, <1>2 DEF Rel, Here, AtChange, Positions

LEMMA TypeReceive ==
  ASSUME TypeOK, Receive
  PROVE  TypeOK'
<1>1. kafka \in Clients /\ kafka.open \in Batch /\ kafka.decided \in Batch
  BY ClientType DEF Clients
<1>2. srcTxn \in Txns => EndLsn[srcTxn] \in Nat /\ CommitLsn[srcTxn] \in Nat
                         /\ srcTxn + 1 \in 1..(N + 1)
  BY LsnAssumption, SizesAssumption DEF Txns
<1>3. \A k2 \in Clients : Dropped(kafka, k2) \subseteq Relations
  BY <1>1 DEF Dropped, Batch
<1>4. CASE RecvBegin
  <2>0. PICK a \in (IF inTxn THEN AbortTransaction(kafka) ELSE {Err(kafka)}) :
          \E b \in StartTransaction(a.k) :
            /\ kafka' = b.k
            /\ relLost' = relLost \cup Dropped(kafka, b.k)
            /\ failedIn' = IF b.ok THEN failedIn ELSE failedIn \cup {srcTxn}
    BY <1>4 DEF RecvBegin
  <2>1. PICK b \in StartTransaction(a.k) :
          /\ kafka' = b.k
          /\ relLost' = relLost \cup Dropped(kafka, b.k)
          /\ failedIn' = IF b.ok THEN failedIn ELSE failedIn \cup {srcTxn}
    BY <2>0
  <2>2. a.k \in Clients
    BY <1>1, <2>0, AbortOutcome DEF Err
  <2>3. kafka' \in Clients
    BY <2>1, <2>2, StartOutcome
  <2>4. QED
    BY <1>3, <1>4, <2>1, <2>3 DEF RecvBegin, AtBegin, Advance, TypeOK, Clients
<1>5. CASE RecvRelation
  <2>1. Rel(Here) \in Relations
    BY <1>5, HereType DEF RecvRelation
  <2>2. \A o \in OnRelation(kafka, Rel(Here)) : o.k \in Clients
    BY <1>1, <2>1, OnRelationOutcome
  <2>3. kafka' \in Clients
    BY <1>1, <1>5, <2>2 DEF RecvRelation
  <2>4. QED
    BY <1>5, <2>1, <2>3 DEF RecvRelation, Remember, TypeOK, Clients
<1>6. CASE SkipChange \/ DropUndecodable
  BY <1>6 DEF SkipChange, DropUndecodable, Advance, TypeOK, procVars,
              historyVars
<1>7. CASE PublishChange
  <2>1. kafka' \in Clients
    BY <1>1, <1>7, HereType, SendOutcome DEF PublishChange
  <2>2. QED
    BY <1>7, <2>1 DEF PublishChange, Advance, TypeOK, Clients, procVars,
                      historyVars
<1>8. CASE AbortOnSendError
  <2>0. PICK o \in Send(kafka, Here) :
          \E a \in AbortTransaction(o.k) :
            kafka' = a.k /\ relLost' = relLost \cup Dropped(kafka, a.k)
    BY <1>8 DEF AbortOnSendError, OnSendError
  <2>1. PICK a \in AbortTransaction(o.k) :
          kafka' = a.k /\ relLost' = relLost \cup Dropped(kafka, a.k)
    BY <2>0
  <2>2. o.k \in Clients
    BY <1>1, <1>8, <2>0, HereType, SendOutcome DEF AbortOnSendError
  <2>3. kafka' \in Clients
    BY <2>1, <2>2, AbortOutcome
  <2>4. relLost' \subseteq Relations /\ failedIn' \subseteq Txns
    <3>1. Dropped(kafka, a.k) \subseteq Relations
      BY <1>3, <2>1, <2>3
    <3>2. failedIn' = failedIn \cup {srcTxn} /\ srcTxn \in Txns
      BY <1>8 DEF AbortOnSendError, AtChange
    <3>3. QED
      BY <2>1, <3>1, <3>2 DEF TypeOK
  <2>5. /\ inTxn' \in BOOLEAN /\ srcTxn' = srcTxn /\ srcPos' = srcPos + 1
        /\ UNCHANGED <<phase, relMap, startLsn, applied, announced, confirmed,
                       log, lsnOffset, crashes, floor, stale>>
    BY <1>8 DEF AbortOnSendError, Advance
  <2>6. QED
    BY <2>3, <2>4, <2>5 DEF TypeOK, Clients
<1>9. CASE SkipCommit
  BY <1>2, <1>9 DEF SkipCommit, AtCommit, NextTransaction, TypeOK, procVars,
                    historyVars
<1>10. CASE CommitOk
  <2>1. EndLsn[srcTxn] \in Nat
    BY <1>2, <1>10 DEF CommitOk, AtCommit
  <2>2. PICK o \in CommitTransaction(kafka, EndLsn[srcTxn]) : kafka' = o.k
    BY <1>10 DEF CommitOk, LsnToWrite
  <2>3. kafka' \in Clients
    BY <1>1, <2>1, <2>2, CommitOutcome
  <2>4. QED
    BY <1>2, <1>10, <2>3 DEF CommitOk, AtCommit, NextTransaction, LsnToApply,
                             TypeOK, Clients, historyVars
<1>11. CASE CommitFailed
  <2>1. EndLsn[srcTxn] \in Nat
    BY <1>2, <1>11 DEF CommitFailed, AtCommit
  <2>2. PICK o \in CommitTransaction(kafka, EndLsn[srcTxn]) : kafka' = o.k
    BY <1>11 DEF CommitFailed, LsnToWrite
  <2>3. kafka' \in Clients
    BY <1>1, <2>1, <2>2, CommitOutcome
  <2>4. QED
    BY <1>2, <1>11, <2>3 DEF CommitFailed, AtCommit, NextTransaction, TypeOK,
                             Clients
<1>12. QED
  BY <1>4, <1>5, <1>6, <1>7, <1>8, <1>9, <1>10, <1>11 DEF Receive

LEMMA TypeStep ==
  ASSUME TypeOK, [Next]_vars
  PROVE  TypeOK'
<1>1. kafka \in Clients /\ kafka.open \in Batch /\ kafka.decided \in Batch
  BY ClientType DEF Clients
<1>2. CASE Receive
  BY <1>2, TypeReceive
<1>3. CASE StatusUpdate
  BY <1>3 DEF StatusUpdate, TypeOK, procVars, streamVars, historyVars
<1>4. CASE DecideLateCommit
  <2>1. kafka' \in Clients
    BY <1>1, <1>4, EmptyBatchType DEF DecideLateCommit, DecideLate, Clients
  <2>2. QED
    BY <1>4, <2>1 DEF DecideLateCommit, TypeOK, Clients, procVars, streamVars,
                      historyVars
<1>5. CASE WriteMarkers
  <2>1. kafka' \in Clients
    BY <1>1, <1>5, EmptyBatchType DEF WriteMarkers, Clients
  <2>2. log' \in Seq(Batch) /\ lsnOffset' \in 0..Len(log')
    BY <1>1, <1>5 DEF WriteMarkers, TypeOK
  <2>3. QED
    BY <1>5, <2>1, <2>2 DEF WriteMarkers, TypeOK, Clients, procVars, streamVars
<1>6. CASE ConnectionClosed
  <2>1. kafka' \in Clients
    BY <1>1, <1>6, AbortOutcome DEF ConnectionClosed, Err
  <2>2. QED
    BY <1>6, <2>1, SizesAssumption DEF ConnectionClosed, Stop, TypeOK, Clients,
                                       streamVars, historyVars
<1>7. CASE Crash
  BY <1>7, SizesAssumption DEF Crash, Stop, TypeOK, streamVars, historyVars
<1>8. CASE ReadLsn
  <2>1. PICK n \in lsnOffset..Len(log) :
          /\ startLsn' = IF n = lsnOffset THEN 0 ELSE log[n].lsn
          /\ lsnOffset' \in {lsnOffset, n}
    BY <1>8 DEF ReadLsn, GroupOffset
  <2>2. n # lsnOffset => log[n] \in Batch
    BY <2>1 DEF TypeOK
  <2>3. startLsn' \in Nat /\ lsnOffset' \in 0..Len(log)
    BY <2>1, <2>2, SMTT(30) DEF TypeOK, Batch
  <2>4. QED
    BY <1>8, <2>3 DEF ReadLsn, TypeOK, streamVars, historyVars
<1>9. CASE StartWalInput
  <2>1. kafka' \in Clients
    BY <1>9, EmptyBatchType DEF StartWalInput
  <2>2. srcTxn' \in 1..(N + 1) /\ floor' \in 0..N
    BY <1>9, SizesAssumption DEF StartWalInput
  <2>3. (stale \/ StartPoint < Checkpoint) \in BOOLEAN
    OBVIOUS
  <2>4. QED
    BY <1>9, <2>1, <2>2, <2>3 DEF StartWalInput, TypeOK, Clients
<1>10. CASE UNCHANGED vars
  BY <1>10 DEF vars, procVars, streamVars, historyVars, TypeOK
<1>11. QED
  BY <1>2, <1>3, <1>4, <1>5, <1>6, <1>7, <1>8, <1>9, <1>10 DEF Next

\* Every reachable state is well typed: the loop never leaves the stream's
\* transactions and the client never leaves its states.
THEOREM TypeCorrect == Spec => []TypeOK
<1>1. Init => TypeOK
  <2>1. kafka = FreshClient => kafka \in Clients
    BY EmptyBatchType
  <2>2. log = <<>> => log \in Seq(Batch) /\ Len(log) = 0
    OBVIOUS
  <2>3. 1 \in 1..(N + 1) /\ 0 \in 0..N /\ 0 \in 0..MaxCrashes
    BY SizesAssumption
  <2>4. Init => inTxn \in BOOLEAN /\ stale \in BOOLEAN
    BY DEF Init
  <2>5. Init => /\ startLsn \in Nat /\ applied \in Nat /\ confirmed \in Nat
                /\ srcPos \in Nat /\ crashes \in 0..MaxCrashes
                /\ floor \in 0..N /\ srcTxn \in 1..(N + 1)
                /\ lsnOffset \in 0..Len(log)
    BY <2>2, <2>3 DEF Init
  <2>6. QED
    BY <2>1, <2>2, <2>4, <2>5 DEF Init, TypeOK, Clients
<1>2. QED
  BY <1>1, TypeStep, PTL DEF Spec

------------------------------------------------------------------------------
(* Nothing is acknowledged before it is durable.  The inductive invariant     *)
(* says it of every LSN the process may come to report, and that a commit     *)
(* nobody answered cannot replace a decided batch.                            *)

Acked(x) == x > 0 => \E b \in Durable : x <= b.lsn

OneDecision ==
  kafka.st = "committing" =>
    kafka.decided = EmptyBatch \/ kafka.open = EmptyBatch

AckInv == Acked(confirmed) /\ Acked(applied) /\ Acked(startLsn) /\ OneDecision

\* What an iteration of the loop may do to what is decided and acknowledged.
KeepsDecision ==
  /\ kafka'.decided = kafka.decided /\ applied' = applied
  /\ kafka'.st = "committing" =>
       \/ kafka.st = "committing" /\ kafka'.open = kafka.open
       \/ kafka.decided = EmptyBatch

Decides ==
  /\ srcTxn \in Txns /\ kafka.decided = EmptyBatch
  /\ kafka'.st = "ready" /\ kafka'.decided.lsn = EndLsn[srcTxn]
  /\ applied' = CommitLsn[srcTxn]

LEMMA ReceiveDecision ==
  ASSUME TypeOK, Receive
  PROVE  /\ log' = log /\ startLsn' = startLsn /\ confirmed' = confirmed
         /\ KeepsDecision \/ Decides
<1>1. kafka \in Clients /\ kafka.open \in Batch
  BY ClientType DEF Clients
<1>2. CASE RecvBegin
  <2>1. PICK a \in (IF inTxn THEN AbortTransaction(kafka) ELSE {Err(kafka)}) :
          \E b \in StartTransaction(a.k) : kafka' = b.k
    BY <1>2 DEF RecvBegin
  <2>2. PICK b \in StartTransaction(a.k) : kafka' = b.k
    BY <2>1
  <2>3. /\ a.k \in Clients /\ a.k.decided = kafka.decided
        /\ a.k.st = "committing" => a.k = kafka
    BY <1>1, <2>1, AbortOutcome DEF Err
  <2>4. /\ kafka'.decided = kafka.decided
        /\ kafka'.st = "committing" => kafka.st = "committing"
                                       /\ kafka'.open = kafka.open
    BY <2>2, <2>3, StartOutcome
  <2>5. QED
    BY <1>2, <2>4 DEF RecvBegin, KeepsDecision
<1>3. CASE RecvRelation
  <2>1. \A o \in OnRelation(kafka, Rel(Here)) :
          /\ o.k.decided = kafka.decided
          /\ o.k.st = "committing" => kafka.st = "committing"
                                      /\ o.k.open = kafka.open
    BY <1>1, <1>3, HereType, OnRelationOutcome DEF RecvRelation
  <2>2. QED
    BY <1>3, <2>1 DEF RecvRelation, KeepsDecision
<1>4. CASE SkipChange \/ DropUndecodable \/ SkipCommit
  BY <1>4 DEF SkipChange, DropUndecodable, SkipCommit, KeepsDecision, procVars
<1>5. CASE PublishChange
  <2>1. \A o \in Send(kafka, Here) :
          /\ o.k.decided = kafka.decided
          /\ o.k.st = "committing" => kafka.st = "committing"
                                      /\ o.k.open = kafka.open
    BY <1>1, <1>5, HereType, SendOutcome DEF PublishChange
  <2>2. QED
    BY <1>5, <2>1 DEF PublishChange, KeepsDecision, procVars
<1>6. CASE AbortOnSendError
  <2>1. PICK o \in Send(kafka, Here) :
          ~o.ok /\ \E a \in AbortTransaction(o.k) : kafka' = a.k
    BY <1>6 DEF AbortOnSendError, OnSendError
  <2>2. PICK a \in AbortTransaction(o.k) : kafka' = a.k
    BY <2>1
  <2>3. /\ o.k \in Clients /\ o.k.decided = kafka.decided
        /\ o.k.open = kafka.open
        /\ o.k.st = "committing" => kafka.st = "committing"
    BY <1>1, <1>6, <2>1, HereType, SendOutcome DEF AbortOnSendError
  <2>4. /\ kafka'.decided = kafka.decided
        /\ kafka'.st = "committing" => kafka.st = "committing"
                                       /\ kafka'.open = kafka.open
    BY <2>2, <2>3, AbortOutcome
  <2>5. QED
    BY <1>6, <2>4 DEF AbortOnSendError, KeepsDecision
<1>7. CASE CommitOk
  <2>1. srcTxn \in Txns /\ EndLsn[srcTxn] \in Nat
    BY <1>7, LsnAssumption DEF CommitOk, AtCommit
  <2>2. PICK o \in CommitTransaction(kafka, EndLsn[srcTxn]) :
          o.ok /\ kafka' = o.k
    BY <1>7 DEF CommitOk, LsnToWrite
  <2>3. /\ kafka.decided = EmptyBatch /\ kafka'.st = "ready"
        /\ kafka'.decided = [kafka.open EXCEPT !.lsn = EndLsn[srcTxn]]
    BY <1>1, <2>1, <2>2, CommitOutcome
  <2>4. kafka'.decided.lsn = EndLsn[srcTxn]
    BY <1>1, <2>1, <2>3, CommitGrows
  <2>5. QED
    BY <1>7, <2>1, <2>3, <2>4 DEF CommitOk, LsnToApply, Decides
<1>8. CASE CommitFailed
  <2>1. EndLsn[srcTxn] \in Nat
    BY <1>8, LsnAssumption DEF CommitFailed, AtCommit
  <2>2. PICK o \in CommitTransaction(kafka, EndLsn[srcTxn]) :
          ~o.ok /\ kafka' = o.k
    BY <1>8 DEF CommitFailed, LsnToWrite
  <2>3. QED
    BY <1>1, <1>8, <2>1, <2>2, CommitOutcome DEF CommitFailed, KeepsDecision
<1>9. QED
  BY <1>2, <1>3, <1>4, <1>5, <1>6, <1>7, <1>8 DEF Receive

\* What is durable stays durable.
LEMMA DurableGrows ==
  ASSUME TypeOK, OneDecision, [Next]_vars
  PROVE  Durable \subseteq Durable'
<1>1. CASE log' = log /\ (kafka'.decided = kafka.decided
                          \/ kafka.decided = EmptyBatch)
  BY <1>1 DEF Durable
<1>2. CASE Receive
  BY <1>1, <1>2, ReceiveDecision DEF KeepsDecision, Decides
<1>3. CASE StatusUpdate \/ ReadLsn \/ Crash
  BY <1>1, <1>3 DEF StatusUpdate, ReadLsn, Crash, Stop
<1>4. CASE DecideLateCommit
  BY <1>1, <1>4 DEF DecideLateCommit, CanDecide, OneDecision
<1>5. CASE WriteMarkers
  <2>1. log \in Seq(Batch) /\ kafka.decided \in Batch
    BY DEF TypeOK
  <2>2. log' = Append(log, kafka.decided)
    BY <1>5 DEF WriteMarkers
  <2>3. ToSet(log') = ToSet(log) \cup {kafka.decided}
    BY <2>1, <2>2, ToSetAppend
  <2>4. QED
    BY <2>3 DEF Durable
<1>6. CASE ConnectionClosed
  <2>1. kafka'.decided = kafka.decided
    BY <1>6, ClientType, AbortOutcome DEF ConnectionClosed, Err
  <2>2. QED
    BY <1>1, <1>6, <2>1 DEF ConnectionClosed, Stop
<1>7. CASE StartWalInput
  BY <1>1, <1>7 DEF StartWalInput
<1>8. CASE UNCHANGED vars
  BY <1>1, <1>8 DEF vars
<1>9. QED
  BY <1>2, <1>3, <1>4, <1>5, <1>6, <1>7, <1>8 DEF Next

LEMMA AckStep ==
  ASSUME TypeOK, AckInv, [Next]_vars
  PROVE  AckInv'
<1>1. Durable \subseteq Durable'
  BY DurableGrows DEF AckInv
<1>2. \A x \in Nat : Acked(x) => (x > 0 => \E b \in Durable' : x <= b.lsn)
  BY <1>1 DEF Acked
<1>3. confirmed \in Nat /\ applied \in Nat /\ startLsn \in Nat
  BY DEF TypeOK
<1>4. CASE /\ confirmed' \in {confirmed, applied}
           /\ applied' \in {applied, startLsn} /\ startLsn' = startLsn
           /\ OneDecision'
  BY <1>2, <1>3, <1>4 DEF AckInv, Acked
<1>5. CASE Receive
  <2>1. CASE KeepsDecision
    <3>1. OneDecision'
      BY <2>1 DEF KeepsDecision, OneDecision, AckInv
    <3>2. QED
      BY <1>4, <1>5, <2>1, <3>1, ReceiveDecision DEF KeepsDecision
  <2>2. CASE Decides
    <3>1. /\ CommitLsn[srcTxn] \in Nat /\ EndLsn[srcTxn] \in Nat
          /\ CommitLsn[srcTxn] < EndLsn[srcTxn] /\ 0 < CommitLsn[srcTxn]
      BY <2>2, LsnAssumption DEF Decides
    <3>2. kafka'.decided.lsn = EndLsn[srcTxn] /\ EmptyBatch.lsn = 0
      BY <2>2 DEF Decides, EmptyBatch
    <3>3. kafka'.decided \in Durable'
      BY <3>1, <3>2 DEF Durable
    <3>4. Acked(applied)'
      BY <2>2, <3>1, <3>2, <3>3 DEF Decides, Acked
    <3>5. OneDecision'
      BY <2>2 DEF Decides, OneDecision
    <3>6. QED
      BY <1>2, <1>3, <1>5, <3>4, <3>5, ReceiveDecision DEF AckInv, Acked
  <2>3. QED
    BY <1>5, <2>1, <2>2, ReceiveDecision
<1>6. CASE StatusUpdate
  BY <1>4, <1>6 DEF StatusUpdate, procVars, AckInv, OneDecision
<1>7. CASE DecideLateCommit
  BY <1>4, <1>7, ClientType DEF DecideLateCommit, DecideLate, procVars,
                                OneDecision, Clients
<1>8. CASE WriteMarkers
  BY <1>4, <1>8, ClientType DEF WriteMarkers, procVars, OneDecision, Clients
<1>9. CASE ConnectionClosed
  <2>1. /\ kafka'.decided = kafka.decided
        /\ kafka'.st = "committing" => kafka' = kafka
    BY <1>9, ClientType, AbortOutcome DEF ConnectionClosed, Err
  <2>2. OneDecision'
    BY <2>1 DEF OneDecision, AckInv
  <2>3. QED
    BY <1>4, <1>9, <2>2 DEF ConnectionClosed, Stop
<1>10. CASE Crash
  BY <1>4, <1>10 DEF Crash, Stop, AckInv, OneDecision
<1>11. CASE ReadLsn
  <2>1. PICK n \in lsnOffset..Len(log) :
          startLsn' = IF n = lsnOffset THEN 0 ELSE log[n].lsn
    BY <1>11 DEF ReadLsn
  <2>2. n # lsnOffset => log[n] \in ToSet(log)
    BY <2>1 DEF TypeOK, ToSet
  <2>3. Acked(startLsn)'
    <3>1. CASE n = lsnOffset
      BY <2>1, <3>1 DEF Acked
    <3>2. CASE n # lsnOffset
      <4>1. log[n] \in Durable'
        BY <1>1, <2>2, <3>2 DEF Durable
      <4>2. log \in Seq(Batch) /\ n \in 1..Len(log)
        BY <2>1, <3>2 DEF TypeOK
      <4>3. log[n] \in Batch
        BY <4>2
      <4>4. startLsn' = log[n].lsn /\ log[n].lsn \in Nat
        BY <2>1, <3>2, <4>3 DEF Batch
      <4>5. QED
        BY <4>1, <4>4 DEF Acked
    <3>3. QED
      BY <3>1, <3>2
  <2>4. UNCHANGED <<confirmed, applied, kafka>>
    BY <1>11 DEF ReadLsn
  <2>5. QED
    BY <1>2, <1>3, <2>3, <2>4 DEF AckInv, Acked, OneDecision
<1>12. CASE StartWalInput
  BY <1>4, <1>12 DEF StartWalInput, FreshClient, OneDecision
<1>13. CASE UNCHANGED vars
  BY <1>4, <1>13 DEF vars, procVars, AckInv, OneDecision
<1>14. QED
  BY <1>5, <1>6, <1>7, <1>8, <1>9, <1>10, <1>11, <1>12, <1>13 DEF Next

LEMMA AckReachable == Spec => []AckInv
<1>1. Init => AckInv
  BY DEF Init, AckInv, Acked, OneDecision, FreshClient
<1>2. TypeOK /\ AckInv /\ [Next]_vars => AckInv'
  BY AckStep
<1>3. QED
  BY <1>1, <1>2, TypeCorrect, PTL DEF Spec

\* The slot is never told more than what is durable (AckedIsDurable), however
\* often the process stops and whatever LSN it resumes from.
THEOREM AcknowledgesDurable == Spec => []AckedIsDurable
<1>1. AckInv => AckedIsDurable
  BY DEF AckInv, Acked, AckedIsDurable
<1>2. QED
  BY <1>1, AckReachable, PTL

------------------------------------------------------------------------------
(* Only whole transactions are published.  The inductive invariant says of    *)
(* the open transaction what holds before it is whole: its changes are behind *)
(* the stream's position, and of a transaction it holds changes of, or that   *)
(* is being received, it holds all that can be published up to there.  It is  *)
(* never open in the middle of a transaction the loop has given up.           *)

Sent == ToSet(kafka.open.events)

HasSoFar(t) == \A d \in Publishable(t) : Before(d, Here) => d \in Sent

SoFar ==
  /\ Ordered(kafka.open)
  /\ \A c \in Sent : Before(c, Here) /\ HasSoFar(c[1])
  /\ inTxn => HasSoFar(srcTxn)
  /\ ~inTxn => srcPos = 0

ClientWhole ==
  /\ kafka.st = "open" => SoFar
  /\ kafka.st = "ready" => kafka.open.events = <<>>
  /\ kafka.st = "committing" => Whole(kafka.open)

LoopInv == (srcPos = 0 => ~inTxn) /\ relMap = announced \ Unparsable

WholeInv == WholeTransactions /\ ClientWhole /\ LoopInv

LEMMA PublishableType ==
  ASSUME NEW t \in Txns, NEW d \in Publishable(t)
  PROVE  d \in Positions /\ d[1] = t /\ d[2] \in DOMAIN Changes[t]
         /\ d[2] \in 1..Len(Changes[t])
<1>1. Changes[t] \in Seq(Relations)
  BY ChangesAssumption
<1>2. PICK i \in DOMAIN Changes[t] : d = <<t, i>>
  BY DEF Publishable, ChangesOf
<1>3. i \in 1..Len(Changes[t])
  BY <1>1, <1>2
<1>4. QED
  BY <1>1, <1>2, <1>3 DEF Positions

LEMMA SentType ==
  ASSUME TypeOK
  PROVE  \A c \in Sent : c \in Positions /\ c[1] \in Txns /\ c[2] \in Nat
<1>1. kafka.open.events \in Seq(Positions)
  BY ClientType DEF Clients, Batch
<1>2. QED
  BY <1>1 DEF Sent, ToSet, Positions

LEMMA EmptyWhole ==
  ASSUME NEW b, b.events = <<>>
  PROVE  Whole(b) /\ ToSet(b.events) = {}
<1>1. DOMAIN b.events = {}
  OBVIOUS
<1>2. QED
  BY <1>1 DEF Whole, Ordered, Complete, ToSet

LEMMA SameEventsWhole ==
  ASSUME NEW a, NEW b, a.events = b.events, Whole(a)
  PROVE  Whole(b)
  BY DEF Whole, Ordered, Complete

\* Which changes are behind the stream after it has moved on.
LEMMA BehindNext ==
  ASSUME srcTxn \in Txns, srcPos \in Nat, srcTxn' = srcTxn,
         srcPos' = srcPos + 1
  PROVE  \A d \in Positions : Before(d, Here') <=> Before(d, Here) \/ d = Here
  BY DEF Positions, Before, Here, Txns

LEMMA BehindNextTransaction ==
  ASSUME srcTxn \in Txns, srcPos \in Nat, srcTxn' = srcTxn + 1, srcPos' = 0
  PROVE  \A d \in Positions : Before(d, Here') <=> d[1] <= srcTxn
  BY DEF Positions, Before, Here, Txns

\* At the Commit message the open transaction is whole.
LEMMA WholeAtCommit ==
  ASSUME TypeOK, AtCommit, SoFar
  PROVE  Whole(kafka.open)
<1>1. SUFFICES ASSUME NEW c \in Sent, NEW d \in Publishable(c[1])
               PROVE  d \in Sent
  BY DEF SoFar, Whole, Complete, Sent
<1>2. c \in Positions /\ c[1] \in Txns /\ c[2] \in Nat
  BY SentType
<1>3. d \in Positions /\ d[1] = c[1] /\ d[2] \in 1..Len(Changes[c[1]])
  BY <1>2, PublishableType
<1>4. srcTxn \in Txns /\ srcPos = Len(Changes[srcTxn]) + 1
      /\ Len(Changes[srcTxn]) \in Nat
  BY ChangesAssumption DEF AtCommit
<1>5. c[1] < srcTxn \/ c[1] = srcTxn
  BY <1>1, <1>2, <1>4 DEF SoFar, Before, Here
<1>6. Before(d, Here)
  <2>1. CASE c[1] < srcTxn
    BY <1>3, <2>1 DEF Before, Here
  <2>2. CASE c[1] = srcTxn
    BY <1>3, <1>4, <2>2 DEF Before, Here
  <2>3. QED
    BY <1>5, <2>1, <2>2
<1>7. QED
  BY <1>1, <1>6 DEF SoFar, HasSoFar

LEMMA DurableStaysWhole ==
  ASSUME WholeTransactions, log' = log, kafka'.decided = kafka.decided
  PROVE  WholeTransactions'
  BY DEF WholeTransactions, Durable

LEMMA WholeBegin ==
  ASSUME TypeOK, WholeInv, RecvBegin
  PROVE  WholeInv'
<1>1. /\ srcTxn \in Txns /\ srcPos = 0 /\ ~inTxn /\ srcTxn' = srcTxn
      /\ srcPos' = 1 /\ log' = log
      /\ UNCHANGED <<relMap, announced>>
  BY DEF RecvBegin, AtBegin, Advance, WholeInv, LoopInv
<1>2. PICK b \in StartTransaction(kafka) : kafka' = b.k
  BY <1>1 DEF RecvBegin, Err
<1>3. /\ kafka'.decided = kafka.decided /\ kafka'.open = kafka.open
      /\ kafka'.st = kafka.st \/ (kafka.st = "ready" /\ kafka'.st = "open")
  BY <1>2, ClientType, StartOutcome
<1>4. ASSUME NEW t \in Txns, NEW d \in Publishable(t), Before(d, Here')
      PROVE  Before(d, Here) /\ d[1] # srcTxn
  <2>1. d \in Positions /\ d[2] \in Nat /\ d[2] >= 1
    BY PublishableType
  <2>2. d # Here
    BY <1>1, <2>1 DEF Here
  <2>3. Before(d, Here)
    BY <1>1, <1>4, <2>1, <2>2, BehindNext
  <2>4. QED
    BY <1>1, <2>1, <2>3 DEF Before, Here, Positions, Txns
<1>5. \A c \in Sent : c \in Positions /\ c[1] \in Txns
  BY SentType
<1>6. CASE kafka.st = "open"
  <2>1. Sent' = Sent /\ Ordered(kafka.open)'
    BY <1>3, <1>6 DEF Sent, WholeInv, ClientWhole, SoFar, Ordered
  <2>2. \A c \in Sent : Before(c, Here')
    BY <1>1, <1>5, <1>6, BehindNext DEF WholeInv, ClientWhole, SoFar
  <2>3. \A c \in Sent : HasSoFar(c[1])'
    BY <1>4, <1>5, <1>6, <2>1 DEF WholeInv, ClientWhole, SoFar, HasSoFar
  <2>4. HasSoFar(srcTxn)'
    BY <1>1, <1>4, PublishableType DEF HasSoFar
  <2>5. SoFar'
    BY <1>1, <2>1, <2>2, <2>3, <2>4 DEF SoFar, RecvBegin
  <2>6. QED
    BY <1>1, <1>3, <1>6, <2>5, DurableStaysWhole
       DEF WholeInv, ClientWhole, LoopInv
<1>7. CASE kafka.st = "ready"
  <2>1. Sent' = {} /\ Whole(kafka.open)'
    BY <1>3, <1>7, EmptyWhole DEF Sent, WholeInv, ClientWhole
  <2>2. HasSoFar(srcTxn)'
    BY <1>1, <1>4, PublishableType DEF HasSoFar
  <2>3. SoFar'
    BY <1>1, <2>1, <2>2 DEF SoFar, RecvBegin, Whole
  <2>4. QED
    BY <1>1, <1>3, <1>7, <2>1, <2>3, DurableStaysWhole
       DEF WholeInv, ClientWhole, LoopInv
<1>8. CASE kafka.st \notin {"open", "ready"}
  BY <1>1, <1>3, <1>8, DurableStaysWhole
     DEF WholeInv, ClientWhole, LoopInv, Whole, Ordered, Complete
<1>9. QED
  BY <1>6, <1>7, <1>8

\* A step of the client that neither begins a transaction nor touches what the
\* open one holds leaves it as whole as it was, if the stream stays put.
LEMMA SameEvents ==
  ASSUME ClientWhole, UNCHANGED <<inTxn, srcTxn, srcPos>>,
         kafka'.open.events = kafka.open.events,
         kafka'.st = kafka.st \/ kafka'.st \notin {"open", "ready", "committing"}
  PROVE  ClientWhole'
  BY DEF ClientWhole, SoFar, HasSoFar, Sent, Here, Ordered, Whole, Complete

LEMMA WholeRelation ==
  ASSUME TypeOK, WholeInv, RecvRelation
  PROVE  WholeInv'
<1>1. /\ UNCHANGED <<inTxn, srcTxn, srcPos, log>>
      /\ announced' = announced \cup {Rel(Here)}
  BY DEF RecvRelation
<1>2. CASE Rel(Here) \in Unparsable
  <2>1. UNCHANGED <<kafka, relMap>>
    BY <1>2 DEF RecvRelation
  <2>2. ClientWhole'
    BY <1>1, <2>1, SameEvents DEF WholeInv
  <2>3. QED
    BY <1>1, <1>2, <2>1, <2>2, DurableStaysWhole DEF WholeInv, LoopInv
<1>3. CASE Rel(Here) \notin Unparsable
  <2>1. PICK o \in OnRelation(kafka, Rel(Here)) : kafka' = o.k
    BY <1>3 DEF RecvRelation
  <2>2. /\ kafka'.decided = kafka.decided
        /\ kafka'.open.events = kafka.open.events
        /\ kafka'.st = kafka.st \/ kafka'.st = "abortable"
    BY <2>1, ClientType, HereType, OnRelationOutcome DEF RecvRelation
  <2>3. ClientWhole'
    BY <1>1, <2>2, SameEvents DEF WholeInv
  <2>4. relMap' = relMap \cup {Rel(Here)}
    BY <1>3 DEF RecvRelation, Remember
  <2>5. QED
    BY <1>1, <1>3, <2>2, <2>3, <2>4, DurableStaysWhole DEF WholeInv, LoopInv
<1>4. QED
  BY <1>2, <1>3

LEMMA AtChangeMoves ==
  ASSUME TypeOK, AtChange, Advance
  PROVE  /\ srcTxn \in Txns /\ srcPos \in Nat /\ srcPos # 0 /\ srcTxn' = srcTxn
         /\ srcPos' = srcPos + 1 /\ srcPos' # 0
<1>1. Changes[srcTxn] \in Seq(Relations) /\ srcPos \in DOMAIN Changes[srcTxn]
  BY ChangesAssumption DEF AtChange
<1>2. srcPos \in Nat /\ srcPos # 0
  BY <1>1
<1>3. QED
  BY <1>2 DEF AtChange, Advance

LEMMA WholeSkip ==
  ASSUME TypeOK, WholeInv, SkipChange
  PROVE  WholeInv'
<1>1. /\ UNCHANGED <<inTxn, relMap, announced, kafka, log>>
      /\ ~inTxn /\ srcPos # 0 /\ srcPos' # 0
  BY AtChangeMoves DEF SkipChange, procVars
<1>2. kafka.st # "open"
  BY <1>1 DEF WholeInv, ClientWhole, SoFar
<1>3. ClientWhole'
  BY <1>1, <1>2 DEF WholeInv, ClientWhole, Whole, Ordered, Complete
<1>4. QED
  BY <1>1, <1>3, DurableStaysWhole DEF WholeInv, LoopInv

LEMMA WholeDrop ==
  ASSUME TypeOK, WholeInv, DropUndecodable
  PROVE  WholeInv'
<1>1. /\ UNCHANGED <<inTxn, relMap, announced, kafka, log>>
      /\ inTxn /\ Rel(Here) \in announced /\ ~Decodes(Here)
  BY DEF DropUndecodable, procVars
<1>2. /\ srcTxn \in Txns /\ srcPos \in Nat /\ srcTxn' = srcTxn
      /\ srcPos' = srcPos + 1 /\ srcPos' # 0
  BY AtChangeMoves DEF DropUndecodable
<1>3. \A t \in Txns : Here \notin Publishable(t)
  BY <1>1 DEF Decodes, WholeInv, LoopInv, Publishable
<1>4. \A t \in Txns : \A d \in Publishable(t) : Before(d, Here') => Before(d, Here)
  BY <1>2, <1>3, BehindNext, PublishableType
<1>5. \A c \in Sent : c \in Positions /\ c[1] \in Txns
  BY SentType
<1>6. ASSUME SoFar PROVE SoFar'
  <2>1. Sent' = Sent /\ Ordered(kafka.open)'
    BY <1>1, <1>6 DEF Sent, SoFar, Ordered
  <2>2. \A c \in Sent : Before(c, Here')
    BY <1>2, <1>5, <1>6, BehindNext DEF SoFar
  <2>3. \A t \in Txns : HasSoFar(t) => HasSoFar(t)'
    BY <1>4, <2>1 DEF HasSoFar
  <2>4. QED
    BY <1>1, <1>2, <1>5, <1>6, <2>1, <2>2, <2>3 DEF SoFar
<1>7. ClientWhole'
  BY <1>1, <1>6 DEF WholeInv, ClientWhole, Whole, Ordered, Complete
<1>8. QED
  BY <1>1, <1>2, <1>7, DurableStaysWhole DEF WholeInv, LoopInv

LEMMA WholePublish ==
  ASSUME TypeOK, WholeInv, PublishChange
  PROVE  WholeInv'
<1>1. /\ UNCHANGED <<inTxn, relMap, announced, log>>
      /\ inTxn
  BY DEF PublishChange, procVars
<1>2. /\ srcTxn \in Txns /\ srcPos \in Nat /\ srcTxn' = srcTxn
      /\ srcPos' = srcPos + 1 /\ srcPos' # 0 /\ Here \in Positions
  BY AtChangeMoves, HereType DEF PublishChange
<1>3. /\ kafka.st = "open" /\ kafka'.st = "open"
      /\ kafka'.decided = kafka.decided
      /\ kafka'.open.events = Append(kafka.open.events, Here)
  <2>1. PICK o \in Send(kafka, Here) : o.ok /\ kafka' = o.k
    BY DEF PublishChange
  <2>2. QED
    BY <1>2, <2>1, ClientType, SendOutcome
<1>4. SoFar
  BY <1>3 DEF WholeInv, ClientWhole
<1>5. kafka.open.events \in Seq(Positions)
  BY ClientType DEF Clients, Batch
<1>6. Sent' = Sent \cup {Here}
  BY <1>2, <1>3, <1>5, ToSetAppend DEF Sent
<1>7. \A c \in Sent : c \in Positions /\ c[1] \in Txns
  BY SentType
<1>8. \A d \in Positions : Before(d, Here') <=> Before(d, Here) \/ d = Here
  BY <1>2, BehindNext
<1>9. Ordered(kafka.open)'
  <2> DEFINE s == kafka.open.events
  <2>1. \A m \in DOMAIN s : Before(s[m], Here)
    BY <1>4 DEF SoFar, Sent, ToSet
  <2>2. \A m, n \in DOMAIN s : m < n => Before(s[m], s[n])
    BY <1>4 DEF SoFar, Ordered
  <2>3. /\ Len(s) \in Nat /\ DOMAIN s = 1..Len(s)
        /\ DOMAIN Append(s, Here) = 1..(Len(s) + 1)
        /\ \A m \in 1..Len(s) : Append(s, Here)[m] = s[m]
        /\ Append(s, Here)[Len(s) + 1] = Here
    BY <1>2, <1>5
  <2>4. ASSUME NEW m \in 1..(Len(s) + 1), NEW n \in 1..(Len(s) + 1), m < n
        PROVE  Before(Append(s, Here)[m], Append(s, Here)[n])
    <3>1. CASE n = Len(s) + 1
      BY <2>1, <2>3, <2>4, <3>1, SMTT(30)
    <3>2. CASE n \in 1..Len(s)
      BY <2>2, <2>3, <2>4, <3>2
    <3>3. QED
      BY <2>3, <3>1, <3>2
  <2>5. QED
    BY <1>3, <2>3, <2>4 DEF Ordered
<1>10. \A c \in Sent' : Before(c, Here')
  BY <1>2, <1>4, <1>6, <1>7, <1>8 DEF SoFar
<1>11. \A t \in Txns : HasSoFar(t) => HasSoFar(t)'
  BY <1>6, <1>8, PublishableType DEF HasSoFar
<1>12. HasSoFar(srcTxn)
  BY <1>1, <1>4 DEF SoFar
<1>13. \A c \in Sent' : HasSoFar(c[1])'
  <2>1. Here[1] = srcTxn
    BY DEF Here
  <2>2. QED
    BY <1>2, <1>4, <1>6, <1>7, <1>11, <1>12, <2>1 DEF SoFar
<1>14. SoFar'
  BY <1>1, <1>2, <1>9, <1>10, <1>11, <1>12, <1>13 DEF SoFar
<1>15. QED
  BY <1>1, <1>2, <1>3, <1>14, DurableStaysWhole DEF WholeInv, ClientWhole, LoopInv

LEMMA WholeAbort ==
  ASSUME TypeOK, WholeInv, AbortOnSendError
  PROVE  WholeInv'
<1>1. /\ UNCHANGED <<relMap, announced, log>> /\ inTxn' = FALSE
      /\ srcPos' # 0 /\ Here \in Positions
  BY AtChangeMoves, HereType DEF AbortOnSendError
<1>2. PICK o \in Send(kafka, Here) :
        ~o.ok /\ \E a \in AbortTransaction(o.k) : kafka' = a.k
  BY DEF AbortOnSendError, OnSendError
<1>3. PICK a \in AbortTransaction(o.k) : kafka' = a.k
  BY <1>2
<1>4. /\ o.k \in Clients /\ o.k.decided = kafka.decided
      /\ o.k.open = kafka.open
      /\ o.k.st = kafka.st \/ o.k.st = "abortable"
  BY <1>1, <1>2, ClientType, SendOutcome
<1>5. /\ kafka'.decided = kafka.decided
      /\ \/ /\ kafka'.st \in {"ready", "committing"} /\ kafka'.st = kafka.st
            /\ kafka'.open = kafka.open
         \/ kafka'.st \in {"ready", "aborting"} /\ kafka'.open = EmptyBatch
  BY <1>3, <1>4, AbortOutcome
<1>6. ClientWhole'
  BY <1>5 DEF WholeInv, ClientWhole, EmptyBatch, Whole, Ordered, Complete
<1>7. QED
  BY <1>1, <1>5, <1>6, DurableStaysWhole DEF WholeInv, LoopInv

LEMMA AtCommitMoves ==
  ASSUME TypeOK, AtCommit, NextTransaction
  PROVE  /\ srcTxn \in Txns /\ srcPos \in Nat /\ srcPos # 0
         /\ srcTxn' = srcTxn + 1 /\ srcPos' = 0 /\ EndLsn[srcTxn] \in Nat
         /\ UNCHANGED announced
<1>1. Changes[srcTxn] \in Seq(Relations) /\ srcPos = Len(Changes[srcTxn]) + 1
  BY ChangesAssumption DEF AtCommit
<1>2. srcPos \in Nat /\ srcPos # 0
  BY <1>1
<1>3. QED
  BY <1>2, LsnAssumption DEF AtCommit, NextTransaction

LEMMA WholeSkipCommit ==
  ASSUME TypeOK, WholeInv, SkipCommit
  PROVE  WholeInv'
<1>1. /\ UNCHANGED <<inTxn, relMap, announced, kafka, log>>
      /\ ~inTxn /\ srcPos # 0
  BY AtCommitMoves DEF SkipCommit, procVars
<1>2. kafka.st # "open"
  BY <1>1 DEF WholeInv, ClientWhole, SoFar
<1>3. ClientWhole'
  BY <1>1, <1>2 DEF WholeInv, ClientWhole, Whole, Ordered, Complete
<1>4. QED
  BY <1>1, <1>3, DurableStaysWhole DEF WholeInv, LoopInv

LEMMA WholeCommitOk ==
  ASSUME TypeOK, WholeInv, CommitOk
  PROVE  WholeInv'
<1>1. /\ UNCHANGED <<relMap, announced, log>> /\ inTxn' = FALSE
      /\ EndLsn[srcTxn] \in Nat
  BY AtCommitMoves DEF CommitOk
<1>2. PICK o \in CommitTransaction(kafka, EndLsn[srcTxn]) : o.ok /\ kafka' = o.k
  BY DEF CommitOk, LsnToWrite
<1>3. /\ kafka.st = "open" /\ kafka'.st = "ready" /\ kafka'.open = EmptyBatch
      /\ kafka'.decided = [kafka.open EXCEPT !.lsn = EndLsn[srcTxn]]
  BY <1>1, <1>2, ClientType, CommitOutcome
<1>4. kafka'.decided.events = kafka.open.events
  BY <1>1, <1>3, ClientType, CommitGrows
<1>5. Whole(kafka'.decided)
  <2>1. Whole(kafka.open)
    BY <1>3, WholeAtCommit DEF CommitOk, WholeInv, ClientWhole
  <2>2. QED
    BY <1>4, <2>1, SameEventsWhole
<1>6. WholeTransactions'
  <2>1. \A b \in Durable' : b \in Durable \/ b = kafka'.decided
    BY <1>1 DEF Durable
  <2>2. QED
    BY <1>5, <2>1 DEF WholeTransactions, WholeInv
<1>7. ClientWhole'
  BY <1>3 DEF ClientWhole, EmptyBatch
<1>8. QED
  BY <1>1, <1>6, <1>7 DEF WholeInv, LoopInv

LEMMA WholeCommitFailed ==
  ASSUME TypeOK, WholeInv, CommitFailed
  PROVE  WholeInv'
<1>1. /\ UNCHANGED <<relMap, announced, log>> /\ inTxn' = FALSE
      /\ srcTxn \in Txns /\ srcPos \in Nat /\ srcTxn' = srcTxn + 1
      /\ srcPos' = 0 /\ EndLsn[srcTxn] \in Nat
  BY AtCommitMoves DEF CommitFailed
<1>2. PICK o \in CommitTransaction(kafka, EndLsn[srcTxn]) :
        ~o.ok /\ kafka' = o.k
  BY DEF CommitFailed, LsnToWrite
<1> DEFINE sent == [kafka.open EXCEPT !.lsn = EndLsn[srcTxn]]
<1>3. /\ kafka'.decided = kafka.decided
      /\ \/ kafka'.st = kafka.st /\ kafka'.open = kafka.open
         \/ kafka'.st = "abortable"
         \/ /\ kafka.st = "open" /\ kafka'.st = "committing"
            /\ kafka'.open = sent
  BY <1>1, <1>2, ClientType, CommitOutcome
<1>4. sent.events = kafka.open.events
  BY <1>1, ClientType, CommitGrows
<1>5. kafka.st = "open" => SoFar /\ Whole(kafka.open)
  BY WholeAtCommit DEF CommitFailed, WholeInv, ClientWhole
<1>6. ASSUME kafka.st = "open", kafka'.open = kafka.open
      PROVE  SoFar'
  <2>1. Sent' = Sent /\ Ordered(kafka.open)'
    BY <1>5, <1>6 DEF Sent, SoFar, Ordered
  <2>2. \A c \in Sent : c \in Positions /\ Before(c, Here) /\ c[1] <= srcTxn
    BY <1>1, <1>5, <1>6, SentType DEF SoFar, Before, Here, Positions, Txns
  <2>3. \A c \in Sent : Before(c, Here')
    BY <1>1, <2>2, BehindNextTransaction
  <2>4. \A c \in Sent : HasSoFar(c[1])'
    BY <1>5, <1>6, <2>1 DEF HasSoFar, Whole, Complete, Sent
  <2>5. QED
    BY <1>1, <2>1, <2>3, <2>4 DEF SoFar
<1>7. ClientWhole'
  <2>1. CASE kafka'.st = kafka.st /\ kafka'.open = kafka.open
    BY <1>6, <2>1 DEF WholeInv, ClientWhole, Whole, Ordered, Complete
  <2>2. CASE kafka'.st = "abortable"
    BY <2>2 DEF ClientWhole
  <2>3. CASE kafka.st = "open" /\ kafka'.st = "committing" /\ kafka'.open = sent
    BY <1>4, <1>5, <2>3 DEF ClientWhole, Whole, Ordered, Complete
  <2>4. QED
    BY <1>3, <2>1, <2>2, <2>3
<1>8. QED
  BY <1>1, <1>3, <1>7, DurableStaysWhole DEF WholeInv, LoopInv

LEMMA WholeOutside ==
  ASSUME TypeOK, WholeInv,
         \/ StatusUpdate \/ DecideLateCommit \/ WriteMarkers
         \/ ConnectionClosed \/ Crash \/ ReadLsn \/ StartWalInput
         \/ UNCHANGED vars
  PROVE  WholeInv'
<1>1. CASE StatusUpdate \/ Crash \/ ReadLsn \/ UNCHANGED vars
  <2>1. UNCHANGED <<inTxn, relMap, srcTxn, srcPos, announced, kafka, log>>
    BY <1>1 DEF StatusUpdate, Crash, Stop, ReadLsn, vars, procVars, streamVars
  <2>2. ClientWhole'
    BY <2>1, SameEvents DEF WholeInv
  <2>3. QED
    BY <2>1, <2>2, DurableStaysWhole DEF WholeInv, LoopInv
<1>2. CASE DecideLateCommit
  <2>1. /\ UNCHANGED <<inTxn, relMap, srcTxn, srcPos, announced, log>>
        /\ kafka.st = "committing"
        /\ kafka' = [kafka EXCEPT !.decided = kafka.open, !.open = EmptyBatch]
    BY <1>2 DEF DecideLateCommit, CanDecide, DecideLate, procVars, streamVars
  <2>2. /\ kafka'.st = "committing" /\ kafka'.decided = kafka.open
        /\ kafka'.open = EmptyBatch
    BY <2>1, ClientType DEF Clients
  <2>3. \A b \in Durable' : b \in Durable \/ b = kafka.open
    BY <2>1, <2>2 DEF Durable
  <2>4. WholeTransactions'
    BY <2>1, <2>3 DEF WholeTransactions, WholeInv, ClientWhole
  <2>5. ClientWhole'
    BY <2>2, EmptyWhole DEF ClientWhole, EmptyBatch, Whole, Ordered, Complete
  <2>6. QED
    BY <2>1, <2>4, <2>5 DEF WholeInv, LoopInv
<1>3. CASE WriteMarkers
  <2>1. /\ UNCHANGED <<inTxn, relMap, srcTxn, srcPos, announced>>
        /\ kafka.decided # EmptyBatch /\ log' = Append(log, kafka.decided)
        /\ kafka' = [kafka EXCEPT !.decided = EmptyBatch]
    BY <1>3 DEF WriteMarkers, procVars, streamVars
  <2>2. log \in Seq(Batch) /\ kafka.decided \in Batch
    BY DEF TypeOK
  <2>3. kafka'.st = kafka.st /\ kafka'.open = kafka.open
        /\ kafka'.decided = EmptyBatch
    BY <2>1, ClientType DEF Clients
  <2>4. ToSet(log') = ToSet(log) \cup {kafka.decided}
    BY <2>1, <2>2, ToSetAppend
  <2>5. Durable' \subseteq Durable
    BY <2>1, <2>3, <2>4 DEF Durable
  <2>6. WholeTransactions'
    BY <2>5 DEF WholeTransactions, WholeInv
  <2>7. ClientWhole'
    BY <2>1, <2>3, SameEvents DEF WholeInv
  <2>8. QED
    BY <2>1, <2>6, <2>7 DEF WholeInv, LoopInv
<1>4. CASE ConnectionClosed
  <2>1. /\ UNCHANGED <<inTxn, relMap, srcTxn, srcPos, announced, log>>
        /\ ~inTxn => kafka' = kafka
        /\ inTxn => \E a \in AbortTransaction(kafka) : kafka' = a.k
    BY <1>4 DEF ConnectionClosed, Stop, streamVars, Err
  <2>2. /\ kafka'.decided = kafka.decided
        /\ \/ kafka' = kafka
           \/ kafka'.st \in {"ready", "aborting"} /\ kafka'.open = EmptyBatch
    BY <2>1, ClientType, AbortOutcome
  <2>3. ClientWhole'
    <3>1. CASE kafka' = kafka
      BY <2>1, <3>1, SameEvents DEF WholeInv
    <3>2. CASE kafka'.st \in {"ready", "aborting"} /\ kafka'.open = EmptyBatch
      BY <3>2 DEF ClientWhole, EmptyBatch
    <3>3. QED
      BY <2>2, <3>1, <3>2
  <2>4. QED
    BY <2>1, <2>2, <2>3, DurableStaysWhole DEF WholeInv, LoopInv
<1>5. CASE StartWalInput
  <2>1. /\ kafka' = FreshClient /\ inTxn' = FALSE /\ relMap' = {}
        /\ announced' = {} /\ log' = log /\ kafka.decided = EmptyBatch
    BY <1>5 DEF StartWalInput
  <2>2. kafka'.decided = kafka.decided
    BY <2>1 DEF FreshClient
  <2>3. ClientWhole'
    BY <2>1 DEF ClientWhole, FreshClient, EmptyBatch
  <2>4. QED
    BY <2>1, <2>2, <2>3, DurableStaysWhole DEF WholeInv, LoopInv
<1>6. QED
  BY <1>1, <1>2, <1>3, <1>4, <1>5

LEMMA WholeReachable == Spec => []WholeInv
<1>1. Init => WholeInv
  <2>1. Init => Durable = {}
    BY DEF Init, Durable, FreshClient, ToSet
  <2>2. QED
    BY <2>1 DEF Init, WholeInv, WholeTransactions, ClientWhole, LoopInv,
                FreshClient, EmptyBatch
<1>2. TypeOK /\ WholeInv /\ [Next]_vars => WholeInv'
  BY WholeBegin, WholeRelation, WholeSkip, WholeDrop, WholePublish, WholeAbort,
     WholeSkipCommit, WholeCommitOk, WholeCommitFailed, WholeOutside
     DEF Next, Receive
<1>3. QED
  BY <1>1, <1>2, TypeCorrect, PTL DEF Spec

\* No consumer ever sees part of a source transaction (WholeTransactions),
\* whichever Kafka calls fail and whenever the process stops.
THEOREM PublishesWholeTransactions == Spec => []WholeTransactions
<1>1. WholeInv => WholeTransactions
  BY DEF WholeInv
<1>2. QED
  BY <1>1, WholeReachable, PTL

------------------------------------------------------------------------------
(* The source's LSNs, and what the slot or an LSN record is past.            *)

LEMMA EndLsnIncreases ==
  ASSUME NEW s \in Txns, NEW t \in Txns
  PROVE  /\ EndLsn[s] \in Nat /\ CommitLsn[s] \in Nat /\ EndLsn[s] > 0
         /\ CommitLsn[s] < EndLsn[s]
         /\ s < t <=> EndLsn[s] < EndLsn[t]
         /\ s <= t <=> EndLsn[s] <= EndLsn[t]
         /\ s <= t <=> CommitLsn[s] < EndLsn[t]
         /\ s < t <=> CommitLsn[s] < CommitLsn[t]
<1>1. /\ EndLsn[s] \in Nat /\ CommitLsn[s] \in Nat
      /\ EndLsn[t] \in Nat /\ CommitLsn[t] \in Nat
      /\ 0 < CommitLsn[s] /\ CommitLsn[s] < EndLsn[s]
      /\ 0 < CommitLsn[t] /\ CommitLsn[t] < EndLsn[t]
      /\ s < t => EndLsn[s] <= CommitLsn[t]
      /\ t < s => EndLsn[t] <= CommitLsn[s]
  BY LsnAssumption
<1>2. s \in Nat /\ t \in Nat /\ (s < t \/ s = t \/ t < s)
  BY DEF Txns
<1>3. QED
  BY <1>1, <1>2

\* Only one transaction is the last that an LSN is past.
LEMMA EndsAtIsUnique ==
  ASSUME NEW m \in Txns, NEW t \in 0..N, EndsAt(t, EndLsn[m])
  PROVE  t = m
<1>1. N \in Nat /\ m \in 1..N
  BY SizesAssumption DEF Txns
<1>2. ~(m < t)
  <2>1. ASSUME m < t PROVE FALSE
    <3>1. t \in 1..t /\ t \in Txns
      BY <1>1, <2>1 DEF Txns
    <3>2. EndLsn[t] <= EndLsn[m]
      BY <3>1 DEF EndsAt
    <3>3. QED
      BY <1>1, <2>1, <3>1, <3>2, EndLsnIncreases
  <2>2. QED
    BY <2>1
<1>3. ~(t < m)
  <2>1. ASSUME t < m PROVE FALSE
    <3>1. t + 1 \in Txns /\ t < N /\ t + 1 <= m
      BY <1>1, <2>1 DEF Txns
    <3>2. EndLsn[m] < EndLsn[t + 1]
      BY <3>1 DEF EndsAt
    <3>3. QED
      BY <3>1, <3>2, EndLsnIncreases
  <2>2. QED
    BY <2>1
<1>4. QED
  BY <1>1, <1>2, <1>3

------------------------------------------------------------------------------
(* What a step does to the client and the log: one operator per kind of step, *)
(* and a lemma that there are no other kinds.                                  *)

SameLog == UNCHANGED <<log, floor, stale>>

\* Nothing is produced or dropped.
Holds ==
  /\ SameLog /\ srcTxn' \in {srcTxn, srcTxn + 1} /\ srcTxn' \in 1..(N + 1)
  /\ kafka'.decided = kafka.decided /\ kafka'.open = kafka.open
  /\ kafka'.st = "committing" => kafka.st = "committing"
  /\ kafka'.st = "ready" => kafka.st = "ready"

\* The open transaction is aborted.
Drops ==
  /\ SameLog /\ srcTxn' = srcTxn
  /\ kafka'.decided = kafka.decided /\ kafka'.open = EmptyBatch

\* A change or a relation record is produced.
Grows ==
  /\ SameLog /\ srcTxn' = srcTxn /\ srcTxn \in Txns
  /\ kafka.st = "open" /\ kafka'.st = "open"
  /\ kafka.decided = EmptyBatch /\ kafka'.decided = EmptyBatch
  /\ \/ kafka'.open.events = kafka.open.events
     \/ /\ kafka'.open.events = Append(kafka.open.events, Here)
        /\ Here \in Publishable(srcTxn) /\ Rel(Here) \in relMap
        /\ phase = "running"

\* The LSN record is produced and the commit is not answered with a yes ...
Attempts ==
  /\ SameLog /\ srcTxn' = srcTxn + 1 /\ srcTxn \in Txns
  /\ kafka.st = "open" /\ kafka'.st \in {"committing", "abortable"}
  /\ kafka.decided = EmptyBatch /\ kafka'.decided = EmptyBatch
  /\ kafka'.open = [kafka.open EXCEPT !.lsn = EndLsn[srcTxn]]

\* ... or it is.
Commits ==
  /\ SameLog /\ srcTxn' = srcTxn + 1 /\ srcTxn \in Txns
  /\ kafka.st = "open" /\ kafka'.st = "ready" /\ kafka.decided = EmptyBatch
  /\ kafka'.open = EmptyBatch
  /\ kafka'.decided = [kafka.open EXCEPT !.lsn = EndLsn[srcTxn]]

LEMMA ReceiveClient ==
  ASSUME TypeOK, WholeInv, Receive
  PROVE  Holds \/ Drops \/ Grows \/ Attempts \/ Commits
<1>1. kafka \in Clients /\ srcTxn \in 1..(N + 1) /\ N \in Nat
  BY ClientType, SizesAssumption DEF TypeOK
<1>2. CASE RecvBegin
  <2>1. ~inTxn /\ srcTxn' = srcTxn /\ SameLog
    BY <1>2 DEF RecvBegin, AtBegin, WholeInv, LoopInv, Advance, SameLog
  <2>2. PICK b \in StartTransaction(kafka) : kafka' = b.k
    BY <1>2, <2>1 DEF RecvBegin, Err
  <2>3. QED
    BY <1>1, <2>1, <2>2, StartOutcome DEF Holds
<1>3. CASE RecvRelation
  <2>1. SameLog /\ srcTxn' = srcTxn /\ srcTxn \in Txns
    BY <1>3 DEF RecvRelation, SameLog, AtChange
  <2>2. CASE kafka' = kafka
    BY <1>1, <2>1, <2>2 DEF Holds
  <2>3. CASE \E o \in OnRelation(kafka, Rel(Here)) : kafka' = o.k
    <3>1. PICK o \in OnRelation(kafka, Rel(Here)) : kafka' = o.k
      BY <2>3
    <3>2. Rel(Here) \in Relations
      BY <1>3, HereType DEF RecvRelation
    <3>3. CASE o.ok
      BY <1>1, <2>1, <3>1, <3>2, <3>3, OnRelationOutcome DEF Grows
    <3>4. CASE ~o.ok
      BY <1>1, <2>1, <3>1, <3>2, <3>4, OnRelationOutcome DEF Holds
    <3>5. QED
      BY <3>3, <3>4
  <2>4. QED
    BY <1>3, <2>2, <2>3 DEF RecvRelation
<1>4. CASE SkipChange \/ DropUndecodable
  BY <1>1, <1>4 DEF SkipChange, DropUndecodable, Advance, Holds, SameLog,
                    historyVars
<1>5. CASE PublishChange
  <2>1. /\ SameLog /\ srcTxn' = srcTxn /\ srcTxn \in Txns
        /\ Here \in Positions /\ Decodes(Here)
    BY <1>5, HereType DEF PublishChange, AtChange, Advance, SameLog, historyVars
  <2>2. PICK o \in Send(kafka, Here) : o.ok /\ kafka' = o.k
    BY <1>5 DEF PublishChange
  <2>3. Here \in Publishable(srcTxn) /\ Rel(Here) \in relMap /\ phase = "running"
    BY <1>5, <2>1 DEF PublishChange, AtChange, Decodes, Publishable, ChangesOf,
                      Here, WholeInv, LoopInv
  <2>4. QED
    BY <1>1, <2>1, <2>2, <2>3, SendOutcome DEF Grows
<1>6. CASE AbortOnSendError
  <2>1. SameLog /\ srcTxn' = srcTxn /\ Here \in Positions
    BY <1>6, HereType DEF AbortOnSendError, Advance, SameLog
  <2>2. PICK o \in Send(kafka, Here) :
          ~o.ok /\ \E a \in AbortTransaction(o.k) : kafka' = a.k
    BY <1>6 DEF AbortOnSendError, OnSendError
  <2>3. PICK a \in AbortTransaction(o.k) : kafka' = a.k
    BY <2>2
  <2>4. /\ o.k \in Clients /\ o.k.decided = kafka.decided
        /\ o.k.open = kafka.open
        /\ o.k.st \in {"ready", "committing"} => o.k.st = kafka.st
    BY <1>1, <2>1, <2>2, SendOutcome
  <2>5. QED
    BY <1>1, <2>1, <2>3, <2>4, AbortOutcome DEF Holds, Drops
<1>7. CASE SkipCommit
  BY <1>1, <1>7 DEF SkipCommit, NextTransaction, AtCommit, Txns, Holds, SameLog,
                    historyVars
<1>8. ASSUME CommitOk \/ CommitFailed
      PROVE  /\ SameLog /\ srcTxn' = srcTxn + 1 /\ srcTxn \in Txns
             /\ srcTxn' \in 1..(N + 1) /\ EndLsn[srcTxn] \in Nat
  BY <1>1, <1>8, LsnAssumption DEF CommitOk, CommitFailed, NextTransaction,
                                   AtCommit, Txns, SameLog, historyVars
<1>9. CASE CommitOk
  <2>1. PICK o \in CommitTransaction(kafka, EndLsn[srcTxn]) :
          o.ok /\ kafka' = o.k
    BY <1>9 DEF CommitOk, LsnToWrite
  <2>2. QED
    BY <1>1, <1>8, <1>9, <2>1, CommitOutcome DEF Commits
<1>10. CASE CommitFailed
  <2>1. PICK o \in CommitTransaction(kafka, EndLsn[srcTxn]) :
          ~o.ok /\ kafka' = o.k
    BY <1>10 DEF CommitFailed, LsnToWrite
  <2>2. /\ kafka'.decided = kafka.decided
        /\ \/ kafka'.open = kafka.open
           \/ /\ kafka'.open = [kafka.open EXCEPT !.lsn = EndLsn[srcTxn]]
              /\ kafka.decided = EmptyBatch
        /\ \/ kafka'.st = kafka.st /\ kafka'.open = kafka.open
           \/ kafka.st = "open" /\ kafka'.st = "abortable"
           \/ /\ kafka.st = "open" /\ kafka'.st = "committing"
              /\ kafka.decided = EmptyBatch
              /\ kafka'.open = [kafka.open EXCEPT !.lsn = EndLsn[srcTxn]]
    BY <1>1, <1>8, <1>10, <2>1, CommitOutcome
  <2>3. CASE kafka'.open = kafka.open /\ kafka'.st # "committing"
    BY <1>8, <1>10, <2>2, <2>3 DEF Holds
  <2>4. CASE kafka'.open = kafka.open /\ kafka'.st = kafka.st
    BY <1>8, <1>10, <2>2, <2>4 DEF Holds
  <2>5. CASE /\ kafka'.open = [kafka.open EXCEPT !.lsn = EndLsn[srcTxn]]
             /\ kafka.st = "open" /\ kafka'.st \in {"committing", "abortable"}
             /\ kafka.decided = EmptyBatch
    BY <1>8, <1>10, <2>2, <2>5 DEF Attempts
  <2>6. QED
    BY <2>2, <2>3, <2>4, <2>5
<1>11. QED
  BY <1>2, <1>3, <1>4, <1>5, <1>6, <1>7, <1>9, <1>10 DEF Receive

LEMMA ClientStep ==
  ASSUME TypeOK, WholeInv, [Next]_vars
  PROVE  \/ Holds \/ Drops \/ Grows \/ Attempts \/ Commits
         \/ DecideLateCommit \/ WriteMarkers \/ StartWalInput
<1>1. kafka \in Clients /\ srcTxn \in 1..(N + 1)
  BY ClientType DEF TypeOK
<1>2. CASE Receive
  BY <1>2, ReceiveClient
<1>3. CASE StatusUpdate \/ Crash \/ ReadLsn \/ UNCHANGED vars
  BY <1>1, <1>3 DEF StatusUpdate, Crash, Stop, ReadLsn, vars, streamVars,
                    historyVars, Holds, SameLog
<1>4. CASE ConnectionClosed
  <2>1. /\ SameLog /\ srcTxn' = srcTxn
        /\ \/ kafka' = kafka
           \/ \E a \in AbortTransaction(kafka) : kafka' = a.k
    BY <1>4 DEF ConnectionClosed, Stop, streamVars, historyVars, SameLog, Err
  <2>2. CASE kafka' = kafka
    BY <1>1, <2>1, <2>2 DEF Holds
  <2>3. CASE \E a \in AbortTransaction(kafka) : kafka' = a.k
    BY <1>1, <2>1, <2>3, AbortOutcome DEF Holds, Drops
  <2>4. QED
    BY <2>1, <2>2, <2>3
<1>5. QED
  BY <1>2, <1>3, <1>4 DEF Next

------------------------------------------------------------------------------
(* The order of the log.  The inductive invariant says of the open and of the *)
(* decided batch what makes it fit behind the floor: its transactions are     *)
(* beyond the floor and not beyond the stream, and once it can be decided it   *)
(* carries the LSN at which one of them, or a later one, ends.                 *)

\* The changes of b are publishable, of transactions f + 1 .. t.
Beyond(b, f, t) ==
  \A c \in ToSet(b.events) :
    c[1] \in Txns /\ f < c[1] /\ c[1] <= t /\ c \in Publishable(c[1])

\* m is the transaction at whose commit record b ends.
EndsWith(b, m) == b.lsn = EndLsn[m] /\ \A c \in ToSet(b.events) : c[1] <= m

Decidable(b, f, t) ==
  Beyond(b, f, t) /\ \E m \in Txns : f < m /\ m < t /\ EndsWith(b, m)

BatchInv ==
  /\ floor < srcTxn
  /\ Beyond(kafka.open, floor, srcTxn)
  /\ kafka.st = "ready" => kafka.open = EmptyBatch
  /\ kafka.decided # EmptyBatch => kafka.open = EmptyBatch
  /\ CanDecide(kafka) => Decidable(kafka.open, floor, srcTxn)
  /\ kafka.decided # EmptyBatch => Decidable(kafka.decided, floor, srcTxn)

\* Every LSN record is of some transaction; while no session has begun early,
\* the last is the floor's and nothing is beyond it.
Records == \A n \in DOMAIN log : \E m \in Txns : log[n].lsn = EndLsn[m]

UpToFloor ==
  /\ log = <<>> <=> floor = 0
  /\ log # <<>> => Checkpoint = EndLsn[floor]
  /\ \A n \in DOMAIN log : /\ log[n].lsn <= EndLsn[floor]
                           /\ \A c \in ToSet(log[n].events) : c[1] <= floor

LogInv == Records /\ OnceUnlessStale /\ (stale \/ UpToFloor)

LEMMA EmptyFits == \A f, t : Beyond(EmptyBatch, f, t)
  BY DEF Beyond, EmptyBatch, ToSet

LEMMA EventsType ==
  ASSUME NEW b \in Batch
  PROVE  b.events \in Seq(Positions) /\ b.lsn \in Nat
  BY DEF Batch

LEMMA BeyondLater ==
  ASSUME NEW b, NEW f \in Nat, NEW t \in Nat, NEW u \in Nat, t <= u
  PROVE  /\ Beyond(b, f, t) => Beyond(b, f, u)
         /\ Decidable(b, f, t) => Decidable(b, f, u)
<1>1. Txns \subseteq Nat
  BY DEF Txns
<1>2. \A x \in Nat : x <= t => x <= u
  OBVIOUS
<1>3. Beyond(b, f, t) => Beyond(b, f, u)
  BY <1>1, <1>2 DEF Beyond
<1>4. \A x \in Nat : x < t => x < u
  OBVIOUS
<1>5. QED
  BY <1>1, <1>3, <1>4 DEF Decidable

LEMMA BatchStep ==
  ASSUME TypeOK, WholeInv, BatchInv, [Next]_vars
  PROVE  BatchInv'
<1>1. /\ kafka \in Clients /\ kafka.open \in Batch /\ kafka.decided \in Batch
      /\ floor \in Nat /\ srcTxn \in Nat /\ Txns \subseteq Nat /\ N \in Nat
  BY ClientType, SizesAssumption DEF TypeOK, Clients, Txns
<1>2. CASE Holds
  <2>1. floor' = floor /\ srcTxn' \in Nat /\ srcTxn <= srcTxn'
    BY <1>1, <1>2 DEF Holds, SameLog
  <2>2. CanDecide(kafka)' => CanDecide(kafka)
    BY <1>2 DEF Holds, CanDecide
  <2>3. QED
    BY <1>1, <1>2, <2>1, <2>2, BeyondLater DEF Holds, BatchInv
<1>3. CASE Drops
  BY <1>3, EmptyFits DEF Drops, SameLog, BatchInv, CanDecide
<1>4. CASE Grows
  <2>1. Beyond(kafka.open, floor, srcTxn)'
    <3>1. CASE kafka'.open.events = kafka.open.events
      BY <1>4, <3>1 DEF Grows, SameLog, BatchInv, Beyond
    <3>2. CASE /\ kafka'.open.events = Append(kafka.open.events, Here)
               /\ Here \in Publishable(srcTxn)
      <4>1. Here \in Positions /\ Here[1] = srcTxn
        BY <1>4, <3>2, PublishableType DEF Grows
      <4>2. ToSet(kafka'.open.events) = ToSet(kafka.open.events) \cup {Here}
        BY <1>1, <3>2, <4>1, EventsType, ToSetAppend
      <4>3. QED
        BY <1>1, <1>4, <3>2, <4>1, <4>2 DEF Grows, SameLog, BatchInv, Beyond
    <3>3. QED
      BY <1>4, <3>1, <3>2 DEF Grows
  <2>2. QED
    BY <1>4, <2>1 DEF Grows, SameLog, BatchInv, CanDecide
<1>5. ASSUME Attempts \/ Commits
      PROVE  Decidable([kafka.open EXCEPT !.lsn = EndLsn[srcTxn]], floor', srcTxn')
  <2> DEFINE sent == [kafka.open EXCEPT !.lsn = EndLsn[srcTxn]]
  <2>1. /\ srcTxn \in Txns /\ srcTxn' = srcTxn + 1 /\ floor' = floor
        /\ EndLsn[srcTxn] \in Nat
    BY <1>5, LsnAssumption DEF Attempts, Commits, SameLog
  <2>2. sent.lsn = EndLsn[srcTxn] /\ sent.events = kafka.open.events
    BY <1>1, <2>1, CommitGrows
  <2>3. Beyond(sent, floor, srcTxn) /\ EndsWith(sent, srcTxn)
    BY <2>2 DEF BatchInv, Beyond, EndsWith
  <2>4. Beyond(sent, floor', srcTxn')
    BY <1>1, <2>1, <2>3, BeyondLater
  <2>5. floor' < srcTxn /\ srcTxn < srcTxn'
    BY <1>1, <2>1 DEF BatchInv
  <2>6. Decidable(sent, floor', srcTxn')
    BY <2>1, <2>3, <2>4, <2>5 DEF Decidable
  <2>7. QED
    BY <2>6
<1>6. CASE Attempts
  BY <1>1, <1>5, <1>6 DEF Attempts, SameLog, BatchInv, Decidable
<1>7. CASE Commits
  BY <1>1, <1>5, <1>7, EmptyFits DEF Commits, SameLog, BatchInv, CanDecide
<1>8. CASE DecideLateCommit
  <2>1. /\ floor' = floor /\ srcTxn' = srcTxn /\ CanDecide(kafka)
        /\ kafka' = [kafka EXCEPT !.decided = kafka.open, !.open = EmptyBatch]
    BY <1>8 DEF DecideLateCommit, DecideLate, streamVars, historyVars
  <2>2. /\ kafka'.open = EmptyBatch /\ kafka'.decided = kafka.open
        /\ kafka'.st = "committing"
    BY <1>1, <2>1 DEF Clients, CanDecide
  <2>3. QED
    BY <2>1, <2>2, EmptyFits DEF BatchInv, CanDecide
<1>9. CASE WriteMarkers
  <2>1. /\ srcTxn' = srcTxn /\ kafka.decided # EmptyBatch
        /\ kafka'.decided = EmptyBatch /\ kafka'.open = kafka.open
    BY <1>1, <1>9 DEF WriteMarkers, streamVars, Clients
  <2>2. PICK m \in Txns : m < srcTxn /\ kafka.decided.lsn = EndLsn[m]
    BY <2>1 DEF BatchInv, Decidable, EndsWith
  <2>3. floor' = m
    BY <1>9, <2>2, EndsAtIsUnique DEF WriteMarkers
  <2>4. kafka'.open = EmptyBatch
    BY <2>1 DEF BatchInv
  <2>5. QED
    BY <2>1, <2>2, <2>3, <2>4, EmptyFits DEF BatchInv, CanDecide
<1>10. CASE StartWalInput
  <2>1. floor' < srcTxn' /\ kafka' = FreshClient
    BY <1>1, <1>10 DEF StartWalInput
  <2>2. QED
    BY <2>1, EmptyFits DEF BatchInv, FreshClient, CanDecide
<1>11. QED
  BY <1>2, <1>3, <1>4, <1>6, <1>7, <1>8, <1>9, <1>10, ClientStep

\* A decided batch goes to the log with the transaction it ends at.
LEMMA MarkersEffect ==
  ASSUME TypeOK, BatchInv, WriteMarkers,
         NEW P, P = kafka.decided
  PROVE  /\ P \in Batch /\ log' = Append(log, P) /\ P # EmptyBatch
         /\ stale' = stale /\ floor' \in Txns /\ floor < floor'
         /\ EndsWith(P, floor') /\ Beyond(P, floor, srcTxn)
<1>1. P \in Batch /\ log' = Append(log, P) /\ stale' = stale /\ P # EmptyBatch
  BY DEF WriteMarkers, TypeOK
<1>2. PICK m \in Txns : floor < m /\ m < srcTxn /\ EndsWith(P, m)
  BY <1>1 DEF BatchInv, Decidable
<1>3. floor' = m
  BY <1>2, EndsAtIsUnique DEF WriteMarkers, EndsWith
<1>4. QED
  BY <1>1, <1>2, <1>3 DEF BatchInv, Decidable

\* Where a session begins: no later than the records in the log allow, and at
\* the floor unless it is early.
LEMMA ResumeEffect ==
  ASSUME TypeOK, AckInv, LogInv, StartWalInput
  PROVE  /\ log' = log /\ floor' \in 0..N
         /\ stale => stale'
         /\ floor' = srcTxn' - 1 /\ srcTxn' \in 1..(N + 1)
         /\ floor' > 0 => \E n \in DOMAIN log : EndLsn[floor'] <= log[n].lsn
         /\ ~stale' => floor' = floor
<1>1. N \in Nat /\ floor \in 0..N /\ log \in Seq(Batch) /\ confirmed \in Nat
      /\ startLsn \in Nat
  BY SizesAssumption DEF TypeOK
<1>2. PICK t \in 1..(N + 1) : /\ ResumesAt(t, StartPoint)
                              /\ srcTxn' = t /\ floor' = t - 1
  BY DEF StartWalInput
<1>3. log' = log /\ stale' = (stale \/ StartPoint < Checkpoint)
      /\ kafka.decided = EmptyBatch
  BY DEF StartWalInput
<1>4. StartPoint \in Nat /\ Acked(StartPoint)
  BY <1>1 DEF StartPoint, AckInv
<1>5. Durable = ToSet(log)
  BY <1>3 DEF Durable
<1>6. StartPoint > 0 => \E n \in DOMAIN log : StartPoint <= log[n].lsn
  BY <1>4, <1>5 DEF Acked, ToSet
<1>7. ASSUME t > 1
      PROVE  \E n \in DOMAIN log : EndLsn[t - 1] <= log[n].lsn
  <2>1. t - 1 \in Txns /\ CommitLsn[t - 1] < StartPoint
    BY <1>1, <1>2, <1>7 DEF ResumesAt, Txns
  <2>2. StartPoint > 0
    BY <1>4, <2>1, EndLsnIncreases
  <2>3. PICK n \in DOMAIN log : StartPoint <= log[n].lsn
    BY <1>6, <2>2
  <2>4. PICK m \in Txns : log[n].lsn = EndLsn[m]
    BY DEF LogInv, Records
  <2>5. CommitLsn[t - 1] < EndLsn[m]
    BY <1>4, <2>1, <2>3, <2>4, EndLsnIncreases
  <2>6. QED
    BY <2>1, <2>4, <2>5, EndLsnIncreases
<1>8. ASSUME ~stale' PROVE t - 1 = floor
  <2>1. UpToFloor /\ ~(StartPoint < Checkpoint)
    BY <1>3, <1>8 DEF LogInv
  <2>2. CASE log = <<>>
    <3>1. floor = 0 /\ StartPoint = 0
      BY <1>4, <1>6, <2>1, <2>2 DEF UpToFloor
    <3>2. ~(t > 1)
      <4>1. DOMAIN log = {}
        BY <2>2
      <4>2. QED
        BY <1>7, <4>1
    <3>3. QED
      BY <1>2, <3>1, <3>2
  <2>3. CASE log # <<>>
    <3>1. floor \in Txns /\ Checkpoint = EndLsn[floor]
      BY <1>1, <2>1, <2>3 DEF UpToFloor, Txns
    <3>2. EndLsn[floor] \in Nat
      BY <3>1, EndLsnIncreases
    <3>3. StartPoint > 0
      BY <1>4, <2>1, <3>1, EndLsnIncreases
    <3>4. PICK n \in DOMAIN log : StartPoint <= log[n].lsn
      BY <1>6, <3>3
    <3>5. log[n].lsn <= EndLsn[floor] /\ log[n].lsn \in Nat
      BY <1>1, <2>1, EventsType DEF UpToFloor
    <3>6. StartPoint = EndLsn[floor]
      BY <1>4, <2>1, <3>1, <3>2, <3>4, <3>5
    <3>7. ~(t <= floor)
      <4>1. ASSUME t <= floor PROVE FALSE
        <5>1. t \in Txns /\ EndLsn[floor] <= CommitLsn[t]
          BY <1>1, <1>2, <3>6, <4>1 DEF ResumesAt, Txns
        <5>2. QED
          BY <3>1, <4>1, <5>1, EndLsnIncreases
      <4>2. QED
        BY <4>1
    <3>8. ~(t > floor + 1)
      <4>1. ASSUME t > floor + 1 PROVE FALSE
        <5>1. floor + 1 \in Txns /\ CommitLsn[floor + 1] < EndLsn[floor]
          BY <1>1, <1>2, <3>6, <4>1 DEF ResumesAt, Txns
        <5>2. floor + 1 <= floor
          BY <3>1, <5>1, EndLsnIncreases
        <5>3. QED
          BY <1>1, <5>2
      <4>2. QED
        BY <4>1
    <3>9. QED
      BY <1>1, <3>7, <3>8
  <2>4. QED
    BY <2>2, <2>3
<1>9. /\ floor' \in 0..N /\ floor' = srcTxn' - 1 /\ srcTxn' \in 1..(N + 1)
      /\ floor' > 0 => t > 1
  BY <1>1, <1>2
<1>10. QED
  BY <1>2, <1>3, <1>7, <1>8, <1>9

LEMMA LogKept ==
  ASSUME LogInv, log' = log,
         stale' \/ (stale' = stale /\ floor' = floor), stale => stale'
  PROVE  LogInv'
<1>1. Records'
  BY DEF LogInv, Records
<1>2. CASE stale'
  BY <1>1, <1>2 DEF LogInv, OnceUnlessStale
<1>3. CASE ~stale' /\ stale' = stale /\ floor' = floor
  <2>1. UpToFloor'
    BY <1>3 DEF LogInv, UpToFloor, Checkpoint
  <2>2. OnceUnlessStale'
    BY <1>3 DEF LogInv, OnceUnlessStale
  <2>3. QED
    BY <1>1, <2>1, <2>2 DEF LogInv
<1>4. QED
  BY <1>2, <1>3

\* The batch whose markers are written is beyond all that is in the log.
LEMMA LogExtended ==
  ASSUME TypeOK, BatchInv, LogInv, WriteMarkers
  PROVE  LogInv'
<1> DEFINE P == kafka.decided
<1> DEFINE n0 == Len(log) + 1
<1>1. /\ P \in Batch /\ log' = Append(log, P) /\ stale' = stale
      /\ floor' \in Txns /\ floor < floor'
      /\ EndsWith(P, floor') /\ Beyond(P, floor, srcTxn)
  BY MarkersEffect
<1>2. /\ log \in Seq(Batch) /\ Len(log) \in Nat /\ DOMAIN log = 1..Len(log)
      /\ floor \in 0..N /\ N \in Nat
  BY SizesAssumption DEF TypeOK
<1> HIDE DEF P
<1>3. /\ DOMAIN log' = 1..n0 /\ log'[n0] = P /\ log' # <<>> /\ Len(log') = n0
      /\ \A n \in DOMAIN log : log'[n] = log[n]
      /\ \A n \in DOMAIN log' : n \in DOMAIN log \/ n = n0
  BY <1>1, <1>2
<1>4. Records'
  BY <1>1, <1>3 DEF LogInv, Records, EndsWith
<1>5. CASE stale
  BY <1>1, <1>4, <1>5 DEF LogInv, OnceUnlessStale
<1>6. CASE ~stale
  <2>1. UpToFloor /\ EndLsn[floor'] \in Nat
    BY <1>1, <1>6, EndLsnIncreases DEF LogInv
  <2>2. /\ P.lsn = EndLsn[floor']
        /\ \A c \in ToSet(P.events) : c[1] \in Nat /\ floor < c[1] /\ c[1] <= floor'
    BY <1>1 DEF EndsWith, Beyond, Txns
  <2>3. ASSUME NEW n \in DOMAIN log
        PROVE  /\ log[n].lsn \in Nat /\ log[n].lsn < P.lsn
               /\ \A c \in ToSet(log[n].events) :
                    c[1] \in Nat /\ c[1] <= floor /\ c[1] < floor'
    <3>1. log[n] \in Batch /\ log # <<>>
      BY <1>2
    <3>2. floor \in Txns /\ log[n].lsn \in Nat /\ log[n].lsn <= EndLsn[floor]
      BY <1>2, <2>1, <3>1, EventsType DEF UpToFloor, Txns
    <3>3. EndLsn[floor] < EndLsn[floor'] /\ EndLsn[floor] \in Nat
      BY <1>1, <3>2, EndLsnIncreases
    <3>4. \A c \in ToSet(log[n].events) : c[1] \in Nat
      BY <3>1, EventsType DEF ToSet, Positions, Txns
    <3>5. QED
      BY <1>1, <1>2, <2>1, <2>2, <3>2, <3>3, <3>4 DEF UpToFloor, Txns
  <2>4. UpToFloor'
    <3>1. floor' # 0
      BY <1>1 DEF Txns
    <3>2. Checkpoint' = EndLsn[floor']
      BY <1>3, <2>2 DEF Checkpoint, Last
    <3>3. ASSUME NEW n \in DOMAIN log'
          PROVE  /\ log'[n].lsn <= EndLsn[floor']
                 /\ \A c \in ToSet(log'[n].events) : c[1] <= floor'
      <4>1. CASE n \in DOMAIN log
        BY <1>1, <1>3, <2>1, <2>2, <2>3, <4>1 DEF Txns
      <4>2. CASE n = n0
        BY <1>3, <2>1, <2>2, <4>2
      <4>3. QED
        BY <1>3, <4>1, <4>2
    <3>4. QED
      BY <1>3, <3>1, <3>2, <3>3 DEF UpToFloor
  <2>5. ASSUME NEW m \in DOMAIN log', NEW n \in DOMAIN log', m < n
        PROVE  /\ log'[m].lsn < log'[n].lsn
               /\ \A c \in ToSet(log'[m].events), d \in ToSet(log'[n].events) :
                    c[1] < d[1]
    <3>1. m \in DOMAIN log
      BY <1>2, <1>3, <2>5
    <3>2. CASE n \in DOMAIN log
      BY <1>3, <1>6, <2>5, <3>1, <3>2 DEF LogInv, OnceUnlessStale
    <3>3. CASE n = n0
      <4>1. \A c \in ToSet(log[m].events), d \in ToSet(P.events) : c[1] < d[1]
        BY <1>2, <2>2, <2>3, <3>1
      <4>2. QED
        BY <1>3, <2>3, <3>1, <3>3, <4>1
    <3>4. QED
      BY <1>3, <3>2, <3>3
  <2>6. OnceUnlessStale'
    BY <2>5 DEF OnceUnlessStale
  <2>7. QED
    BY <1>4, <2>4, <2>6 DEF LogInv
<1>7. QED
  BY <1>5, <1>6

LEMMA LogStep ==
  ASSUME TypeOK, WholeInv, AckInv, BatchInv, LogInv, [Next]_vars
  PROVE  LogInv'
<1>1. CASE Holds \/ Drops \/ Grows \/ Attempts \/ Commits
  BY <1>1, LogKept DEF Holds, Drops, Grows, Attempts, Commits, SameLog
<1>2. CASE DecideLateCommit
  BY <1>2, LogKept DEF DecideLateCommit, historyVars
<1>3. CASE WriteMarkers
  BY <1>3, LogExtended
<1>4. CASE StartWalInput
  <2>1. /\ log' = log
        /\ ~stale' => floor' = floor
        /\ stale => stale'
    BY <1>4, ResumeEffect
  <2>2. stale' \in BOOLEAN /\ stale \in BOOLEAN
    BY <1>4 DEF StartWalInput, TypeOK
  <2>3. QED
    BY <2>1, <2>2, LogKept
<1>5. QED
  BY <1>1, <1>2, <1>3, <1>4, ClientStep

LEMMA LogReachable == Spec => [](BatchInv /\ LogInv)
<1>1. Init => BatchInv /\ LogInv
  <2>1. Init => BatchInv
    BY EmptyFits DEF Init, BatchInv, FreshClient, CanDecide
  <2>2. Init => DOMAIN log = {}
    BY DEF Init
  <2>3. Init => LogInv
    BY <2>2 DEF Init, LogInv, Records, OnceUnlessStale, UpToFloor
  <2>4. QED
    BY <2>1, <2>3
<1>2. /\ TypeOK /\ WholeInv /\ AckInv /\ BatchInv /\ LogInv /\ [Next]_vars
      => BatchInv' /\ LogInv'
  BY BatchStep, LogStep
<1>3. QED
  BY <1>1, <1>2, TypeCorrect, WholeReachable, AckReachable, PTL DEF Spec

\* Consumers see each transaction at most once and in the source's order, and
\* LSN records increase, until some session begins before the end of the log
\* (OnceUnlessStale): no failed call, crash or late commit reorders anything.
THEOREM PublishesInOrder == Spec => []OnceUnlessStale
<1>1. LogInv => OnceUnlessStale
  BY DEF LogInv
<1>2. QED
  BY <1>1, LogReachable, PTL

------------------------------------------------------------------------------
(* The refinement: to whoever reads the topics, CdcProducer is                *)
(* AtomicPublication.  The floor and stale are its own; of a batch it sees     *)
(* which changes are in it and its LSN.                                        *)

Entry(b) == [changes |-> ToSet(b.events), lsn |-> b.lsn]
Visible(l) == [n \in DOMAIN l |-> Entry(l[n])]

LEMMA VisibleAppend ==
  ASSUME NEW l \in Seq(Batch), NEW b \in Batch
  PROVE  Visible(Append(l, b)) = Append(Visible(l), Entry(b))
<1>1. /\ Len(l) \in Nat /\ DOMAIN l = 1..Len(l)
      /\ DOMAIN Append(l, b) = 1..(Len(l) + 1)
      /\ \A n \in 1..(Len(l) + 1) :
           Append(l, b)[n] = IF n = Len(l) + 1 THEN b ELSE l[n]
  OBVIOUS
<1> DEFINE Entries == {Entry(x) : x \in Batch}
<1>2. Visible(l) \in Seq(Entries) /\ Len(Visible(l)) = Len(l)
  <2>1. Visible(l) \in [1..Len(l) -> Entries]
    BY <1>1 DEF Visible
  <2>2. QED
    BY <1>1, <2>1
<1>3. Entry(b) \in Entries
  OBVIOUS
<1> HIDE DEF Entries
<1>4. /\ DOMAIN Append(Visible(l), Entry(b)) = 1..(Len(l) + 1)
      /\ \A n \in 1..(Len(l) + 1) :
           Append(Visible(l), Entry(b))[n]
             = IF n = Len(l) + 1 THEN Entry(b) ELSE Visible(l)[n]
  BY <1>1, <1>2, <1>3
<1>5. \A n \in 1..Len(l) : Visible(l)[n] = Entry(l[n])
  BY <1>1 DEF Visible
<1>6. /\ \A n \in 1..(Len(l) + 1) : Visible(Append(l, b))[n]
           = IF n = Len(l) + 1 THEN Entry(b) ELSE Entry(l[n])
      /\ Visible(Append(l, b)) \in [1..(Len(l) + 1) -> Entries]
  BY <1>1, <1>2, <1>3, <1>5 DEF Visible
<1>7. /\ Visible(Append(l, b)) \in Seq(Entries)
      /\ Len(Visible(Append(l, b))) = Len(l) + 1
  BY <1>1, <1>6
<1>8. /\ Append(Visible(l), Entry(b)) \in Seq(Entries)
      /\ Len(Append(Visible(l), Entry(b))) = Len(l) + 1
  BY <1>1, <1>2, <1>3
<1>9. QED
  BY <1>1, <1>4, <1>5, <1>6, <1>7, <1>8, SeqEqual

\* A batch with its markers written is whole transactions from beyond the floor.
LEMMA MarkersPublish ==
  ASSUME TypeOK, WholeInv, BatchInv, WriteMarkers
  PROVE  Abstract!Publish
<1> DEFINE P == kafka.decided
<1>1. /\ P \in Batch /\ log' = Append(log, P) /\ P # EmptyBatch /\ stale' = stale
      /\ floor' \in Txns /\ floor < floor'
      /\ EndsWith(P, floor') /\ Beyond(P, floor, srcTxn)
  BY MarkersEffect
<1>2. log \in Seq(Batch) /\ floor \in 0..N /\ N \in Nat
  BY SizesAssumption DEF TypeOK
<1>3. Complete(P)
  <2>1. P \in Durable
    BY <1>1 DEF Durable
  <2>2. QED
    BY <2>1 DEF WholeInv, WholeTransactions, Whole
<1> HIDE DEF P
<1> DEFINE S == {c[1] : c \in ToSet(P.events)}
<1>4. S \in SUBSET ((floor + 1)..floor')
  BY <1>1, <1>2 DEF EndsWith, Beyond, Txns
<1>5. S \subseteq Txns
  BY <1>1 DEF Beyond
<1>6. ToSet(P.events) = UNION {Publishable(t) : t \in S}
  BY <1>1, <1>3 DEF Beyond, Complete
<1>7. ToSet(P.events) = UNION {[u \in Txns |-> Publishable(u)][t] : t \in S}
  BY <1>5, <1>6
<1>8. floor' \in (floor + 1)..N
  BY <1>1, <1>2 DEF Txns
<1>9. Visible(log') = Append(Visible(log), [changes |-> ToSet(P.events),
                                            lsn |-> EndLsn[floor']])
  BY <1>1, <1>2, VisibleAppend DEF Entry, EndsWith
<1>10. \E m \in (floor + 1)..N : \E T \in SUBSET ((floor + 1)..m) :
         /\ Visible(log') = Append(Visible(log),
              [changes |-> UNION {[u \in Txns |-> Publishable(u)][t] : t \in T},
               lsn |-> EndLsn[m]])
         /\ floor' = m
         /\ stale' = stale
  BY <1>1, <1>4, <1>7, <1>8, <1>9
<1>11. QED
  BY <1>10 DEF Abstract!Publish, Visible, Entry

LEMMA ResumeRefines ==
  ASSUME TypeOK, AckInv, LogInv, StartWalInput
  PROVE  Abstract!Resume \/ UNCHANGED <<log, floor, stale>>
<1>1. /\ log' = log /\ floor' \in 0..N
      /\ floor' > 0 => \E n \in DOMAIN log : EndLsn[floor'] <= log[n].lsn
      /\ stale => stale'
      /\ ~stale' => floor' = floor
  BY ResumeEffect
<1>2. stale' \in BOOLEAN /\ stale \in BOOLEAN
  BY DEF StartWalInput, TypeOK
<1>3. CASE ~stale'
  BY <1>1, <1>2, <1>3
<1>4. CASE stale'
  <2>1. stale' = TRUE
    BY <1>2, <1>4
  <2>2. floor' > 0 => \E n \in DOMAIN Visible(log) :
                        EndLsn[floor'] <= Visible(log)[n].lsn
    BY <1>1 DEF Visible, Entry
  <2>3. Visible(log') = Visible(log)
    BY <1>1
  <2>4. QED
    BY <1>1, <2>1, <2>2, <2>3 DEF Abstract!Resume, Visible, Entry
<1>5. QED
  BY <1>3, <1>4

\* The producer implements AtomicPublication (PublishesAtomically): with any
\* failed call, crash and late commit, its log changes only by whole
\* transactions from beyond the floor, and a session resumes only where the
\* abstraction lets it.
THEOREM RefinesAtomicPublication == Spec => PublishesAtomically
<1>1. Init => Abstract!Init
  <2>1. log = <<>> => Visible(log) = <<>>
    BY DEF Visible
  <2>2. QED
    BY <2>1 DEF Init, Abstract!Init, Visible, Entry
<1>2. /\ TypeOK /\ WholeInv /\ AckInv /\ BatchInv /\ LogInv /\ [Next]_vars
      => Abstract!Next \/ UNCHANGED <<log, floor, stale>>
  <2> SUFFICES ASSUME TypeOK, WholeInv, AckInv, BatchInv, LogInv, [Next]_vars
               PROVE  Abstract!Next \/ UNCHANGED <<log, floor, stale>>
    OBVIOUS
  <2>1. CASE Holds \/ Drops \/ Grows \/ Attempts \/ Commits
    BY <2>1 DEF Holds, Drops, Grows, Attempts, Commits, SameLog
  <2>2. CASE DecideLateCommit
    BY <2>2 DEF DecideLateCommit, historyVars
  <2>3. CASE WriteMarkers
    BY <2>3, MarkersPublish DEF Abstract!Next
  <2>4. CASE StartWalInput
    BY <2>4, ResumeRefines DEF Abstract!Next
  <2>5. QED
    BY <2>1, <2>2, <2>3, <2>4, ClientStep
<1>3. /\ TypeOK /\ WholeInv /\ AckInv /\ BatchInv /\ LogInv /\ [Next]_vars
      => [Abstract!Next]_<<[n \in DOMAIN log |->
                             [changes |-> ToSet(log[n].events),
                              lsn |-> log[n].lsn]], floor, stale>>
  BY <1>2
<1>4. Spec => Abstract!Spec
  BY <1>1, <1>3, TypeCorrect, WholeReachable, AckReachable, LogReachable, PTL
     DEF Spec, Abstract!Spec
<1>5. QED
  BY <1>4 DEF PublishesAtomically

------------------------------------------------------------------------------
(* What consumers have or will have only grows.                              *)

Out == Published \cup ToSet(kafka.decided.events)

LogRels == UNION {log[n].rels : n \in DOMAIN log}

Recorded == relLost \cup LogRels \cup kafka.decided.rels

LEMMA NothingInEmpty ==
  ToSet(EmptyBatch.events) = {} /\ EmptyBatch.rels = {}
  BY DEF EmptyBatch, ToSet

LEMMA LogAfterMarkers ==
  ASSUME TypeOK, WriteMarkers
  PROVE  /\ Published' = Out /\ LogRels' = LogRels \cup kafka.decided.rels
         /\ kafka'.decided = EmptyBatch /\ relLost' = relLost
         /\ kafka'.open = kafka.open
         /\ DOMAIN log' = 1..(Len(log) + 1) /\ DOMAIN log = 1..Len(log)
         /\ Len(log) \in Nat
         /\ log'[Len(log) + 1] = kafka.decided
         /\ \A n \in DOMAIN log : n \in DOMAIN log' /\ log'[n] = log[n]
         /\ \A n \in DOMAIN log' : n \in DOMAIN log \/ n = Len(log) + 1
<1> DEFINE P == kafka.decided
<1>1. P \in Batch /\ log \in Seq(Batch) /\ log' = Append(log, P)
  BY DEF WriteMarkers, TypeOK
<1>2. kafka'.decided = EmptyBatch /\ relLost' = relLost /\ kafka'.open = kafka.open
  BY DEF WriteMarkers, TypeOK
<1> HIDE DEF P
<1>3. /\ DOMAIN log' = 1..(Len(log) + 1) /\ DOMAIN log = 1..Len(log)
      /\ Len(log) \in Nat /\ log'[Len(log) + 1] = P
      /\ \A n \in DOMAIN log : n \in DOMAIN log' /\ log'[n] = log[n]
      /\ \A n \in DOMAIN log' : n \in DOMAIN log \/ n = Len(log) + 1
  BY <1>1
<1>4. Len(log) + 1 \in DOMAIN log'
  BY <1>3
<1>5. Published' = Published \cup ToSet(P.events)
  BY <1>3, <1>4 DEF Published
<1>6. LogRels' = LogRels \cup P.rels
  BY <1>3, <1>4 DEF LogRels
<1>7. QED
  BY <1>2, <1>3, <1>5, <1>6 DEF P, Out

\* The batch that is decided is replaced only when there is none.
LEMMA DecidedKept ==
  ASSUME TypeOK, WholeInv, BatchInv, [Next]_vars
  PROVE  \/ WriteMarkers
         \/ log' = log /\ (kafka'.decided = kafka.decided
                             \/ kafka.decided = EmptyBatch)
<1>1. CASE Holds \/ Drops \/ Grows \/ Attempts \/ Commits
  BY <1>1 DEF Holds, Drops, Grows, Attempts, Commits, SameLog
<1>2. CASE DecideLateCommit
  BY <1>2 DEF DecideLateCommit, BatchInv, CanDecide
<1>3. CASE StartWalInput
  BY <1>3 DEF StartWalInput
<1>4. QED
  BY <1>1, <1>2, <1>3, ClientStep

LEMMA HistoryGrows ==
  ASSUME [Next]_vars
  PROVE  failedIn \subseteq failedIn' /\ relLost \subseteq relLost'
<1>1. CASE Receive
  <2>1. CASE RecvBegin
    <3>1. PICK a, b : /\ relLost' = relLost \cup Dropped(kafka, b.k)
                      /\ failedIn' = IF b.ok THEN failedIn
                                             ELSE failedIn \cup {srcTxn}
      BY <2>1 DEF RecvBegin
    <3>2. QED
      BY <3>1
  <2>2. CASE RecvRelation
    <3>1. failedIn' = failedIn
      BY <2>2 DEF RecvRelation
    <3>2. relLost' = relLost \/ relLost' = relLost \cup {Rel(Here)}
      BY <2>2 DEF RecvRelation
    <3>3. QED
      BY <3>1, <3>2
  <2>3. CASE SkipChange \/ DropUndecodable \/ PublishChange \/ SkipCommit \/ CommitOk
    BY <2>3 DEF SkipChange, DropUndecodable, PublishChange, SkipCommit, CommitOk,
                historyVars
  <2>4. CASE AbortOnSendError
    <3>1. PICK a : relLost' = relLost \cup Dropped(kafka, a.k)
      BY <2>4 DEF AbortOnSendError
    <3>2. failedIn' = failedIn \cup {srcTxn}
      BY <2>4 DEF AbortOnSendError
    <3>3. QED
      BY <3>1, <3>2
  <2>5. CASE CommitFailed
    BY <2>5 DEF CommitFailed
  <2>6. QED
    BY <1>1, <2>1, <2>2, <2>3, <2>4, <2>5 DEF Receive
<1>2. CASE \/ StatusUpdate \/ DecideLateCommit \/ WriteMarkers
           \/ ConnectionClosed \/ Crash \/ ReadLsn \/ StartWalInput
           \/ UNCHANGED vars
  BY <1>2 DEF StatusUpdate, DecideLateCommit, WriteMarkers, ConnectionClosed,
              Crash, Stop, ReadLsn, StartWalInput, vars, historyVars
<1>3. QED
  BY <1>1, <1>2 DEF Next

LEMMA OutGrows ==
  ASSUME TypeOK, WholeInv, BatchInv, [Next]_vars
  PROVE  Out \subseteq Out' /\ Recorded \subseteq Recorded'
<1>1. CASE WriteMarkers
  BY <1>1, LogAfterMarkers DEF Out, Recorded
<1>2. CASE log' = log /\ (kafka'.decided = kafka.decided
                             \/ kafka.decided = EmptyBatch)
  <2>1. Published' = Published /\ LogRels' = LogRels
    BY <1>2 DEF Published, LogRels
  <2>2. QED
    BY <1>2, <2>1, NothingInEmpty, HistoryGrows DEF Out, Recorded
<1>3. QED
  BY <1>1, <1>2, DecidedKept

------------------------------------------------------------------------------
(* Nothing is lost in silence.  Covered(t) is what NoSilentLoss promises of a *)
(* transaction; it never stops being so.  The inductive invariant says it of  *)
(* all that is behind the stream and behind every LSN a session may start     *)
(* from, and that a transaction the loop has given up was hit by a failure.   *)

Covered(t) == t \in failedIn \/ Publishable(t) \subseteq Out

LsnCovered(x) == \A t \in Txns : CommitLsn[t] < x => Covered(t)

LogCovered ==
  \A n \in DOMAIN log : \A t \in Txns : EndLsn[t] <= log[n].lsn => Covered(t)

GivenUp == ~inTxn /\ srcPos # 0 => srcTxn \in failedIn

LossInv ==
  /\ \A t \in Txns : t < srcTxn => Covered(t)
  /\ LsnCovered(confirmed) /\ LsnCovered(applied) /\ LsnCovered(startLsn)
  /\ LogCovered
  /\ GivenUp

LEMMA CoveredForever ==
  ASSUME TypeOK, WholeInv, BatchInv, [Next]_vars
  PROVE  /\ \A t \in Txns : Covered(t) => Covered(t)'
         /\ LsnCovered(confirmed) => LsnCovered(confirmed)' \/ confirmed' # confirmed
         /\ LsnCovered(applied) => LsnCovered(applied)' \/ applied' # applied
         /\ LsnCovered(startLsn) => LsnCovered(startLsn)' \/ startLsn' # startLsn
         /\ LogCovered => LogCovered' \/ log' # log
<1>1. \A t \in Txns : Covered(t) => Covered(t)'
  BY OutGrows, HistoryGrows DEF Covered
<1>2. QED
  BY <1>1 DEF LsnCovered, LogCovered

\* At its Commit message a transaction in progress is all in the open batch.
LEMMA CommittedIsDecided ==
  ASSUME TypeOK, WholeInv, CommitOk, NEW t \in Txns, t = srcTxn
  PROVE  Publishable(t) \subseteq ToSet(kafka'.decided.events)
<1>1. AtCommit /\ inTxn /\ NextTransaction /\ log' = log
  BY DEF CommitOk
<1>2. srcTxn \in Txns /\ EndLsn[srcTxn] \in Nat
  BY <1>1, AtCommitMoves
<1>3. PICK o \in CommitTransaction(kafka, EndLsn[srcTxn]) : o.ok /\ kafka' = o.k
  BY DEF CommitOk, LsnToWrite
<1>4. kafka.st = "open" /\ kafka'.decided = [kafka.open EXCEPT !.lsn = EndLsn[srcTxn]]
  BY <1>2, <1>3, ClientType, CommitOutcome
<1>5. ToSet(kafka'.decided.events) = Sent
  BY <1>2, <1>4, ClientType, CommitGrows DEF Sent
<1>6. HasSoFar(srcTxn)
  BY <1>1, <1>4 DEF WholeInv, ClientWhole, SoFar
<1>7. ASSUME NEW d \in Publishable(srcTxn) PROVE Before(d, Here)
  <2>1. d[1] = srcTxn /\ d[2] \in 1..Len(Changes[srcTxn])
    BY <1>2, PublishableType
  <2>2. srcPos = Len(Changes[srcTxn]) + 1 /\ Len(Changes[srcTxn]) \in Nat
    BY <1>1, <1>2, ChangesAssumption DEF AtCommit
  <2>3. QED
    BY <2>1, <2>2 DEF Before, Here
<1>8. Publishable(srcTxn) \subseteq Sent
  BY <1>6, <1>7 DEF HasSoFar
<1>9. QED
  BY <1>5, <1>8

\* The stream moves on from a transaction only when it is covered.
LEMMA LossReceive ==
  ASSUME TypeOK, WholeInv, BatchInv, LossInv, Receive
  PROVE  LossInv'
<1>1. [Next]_vars
  BY DEF Next
<1>2. /\ UNCHANGED <<log, confirmed, startLsn>>
      /\ srcTxn \in 1..(N + 1) /\ N \in Nat
  BY SizesAssumption
     DEF Receive, RecvBegin, RecvRelation, SkipChange, DropUndecodable,
         PublishChange, AbortOnSendError, SkipCommit, CommitOk, CommitFailed,
         procVars, TypeOK
<1>3. /\ \A t \in Txns : t < srcTxn => Covered(t)'
      /\ LsnCovered(confirmed)' /\ LsnCovered(startLsn)' /\ LogCovered'
      /\ applied' = applied => LsnCovered(applied)'
  BY <1>1, <1>2, CoveredForever DEF LossInv
<1>4. ASSUME srcTxn' = srcTxn, applied' = applied, GivenUp' PROVE LossInv'
  BY <1>3, <1>4 DEF LossInv
<1>5. ASSUME AtCommit, NextTransaction, \A t \in Txns : t = srcTxn => Covered(t)',
             LsnCovered(applied)'
      PROVE  LossInv'
  <2>1. srcTxn \in Txns /\ srcTxn' = srcTxn + 1 /\ srcPos' = 0
    BY <1>5, AtCommitMoves
  <2>2. \A t \in Txns : t < srcTxn' => t < srcTxn \/ t = srcTxn
    BY <2>1 DEF Txns
  <2>3. \A t \in Txns : t < srcTxn' => Covered(t)'
    BY <1>3, <1>5, <2>2
  <2>4. GivenUp'
    BY <2>1 DEF GivenUp
  <2>5. QED
    BY <1>3, <1>5, <2>3, <2>4 DEF LossInv
<1>6. CASE RecvBegin
  BY <1>4, <1>6 DEF RecvBegin, Advance, GivenUp
<1>7. CASE RecvRelation
  BY <1>4, <1>7 DEF RecvRelation, GivenUp, LossInv
<1>8. CASE SkipChange
  <2>1. srcPos # 0
    BY <1>8, AtChangeMoves DEF SkipChange
  <2>2. QED
    BY <1>4, <1>8, <2>1 DEF SkipChange, Advance, procVars, historyVars, GivenUp,
                            LossInv
<1>9. CASE DropUndecodable \/ PublishChange
  BY <1>4, <1>9 DEF DropUndecodable, PublishChange, Advance, procVars, GivenUp
<1>10. CASE AbortOnSendError
  BY <1>4, <1>10 DEF AbortOnSendError, Advance, GivenUp
<1>11. CASE SkipCommit
  <2>1. AtCommit /\ NextTransaction /\ ~inTxn /\ applied' = applied
    BY <1>11 DEF SkipCommit, procVars
  <2>2. srcTxn \in failedIn
    BY <2>1, AtCommitMoves DEF LossInv, GivenUp
  <2>3. \A t \in Txns : t = srcTxn => Covered(t)'
    BY <1>1, <2>2, CoveredForever DEF Covered
  <2>4. QED
    BY <1>3, <1>5, <2>1, <2>3
<1>12. CASE CommitOk
  <2>1. AtCommit /\ NextTransaction /\ applied' = CommitLsn[srcTxn]
    BY <1>12 DEF CommitOk, LsnToApply
  <2>2. \A t \in Txns : t = srcTxn => Covered(t)'
    BY <1>12, CommittedIsDecided DEF Covered, Out
  <2>3. \A t \in Txns : CommitLsn[t] < CommitLsn[srcTxn] => t < srcTxn
    <3>1. srcTxn \in Txns
      BY <2>1, AtCommitMoves
    <3>2. SUFFICES ASSUME NEW t \in Txns, CommitLsn[t] < CommitLsn[srcTxn]
                   PROVE  t < srcTxn
      OBVIOUS
    <3>3. /\ CommitLsn[t] \in Nat /\ CommitLsn[srcTxn] \in Nat
          /\ srcTxn < t <=> CommitLsn[srcTxn] < CommitLsn[t]
      BY <3>1, EndLsnIncreases
    <3>4. t \in Nat /\ srcTxn \in Nat
      BY <3>1 DEF Txns
    <3>5. QED
      BY <3>2, <3>3, <3>4
  <2>4. LsnCovered(applied)'
    BY <1>3, <2>1, <2>3 DEF LsnCovered
  <2>5. QED
    BY <1>5, <2>1, <2>2, <2>4
<1>13. CASE CommitFailed
  <2>1. AtCommit /\ NextTransaction /\ applied' = applied /\ srcTxn \in failedIn'
    BY <1>13 DEF CommitFailed
  <2>2. \A t \in Txns : t = srcTxn => Covered(t)'
    BY <2>1 DEF Covered
  <2>3. QED
    BY <1>3, <1>5, <2>1, <2>2
<1>14. QED
  BY <1>6, <1>7, <1>8, <1>9, <1>10, <1>11, <1>12, <1>13 DEF Receive

LEMMA LossStep ==
  ASSUME TypeOK, WholeInv, BatchInv, LogInv, LossInv, [Next]_vars
  PROVE  LossInv'
<1>1. /\ \A t \in Txns : Covered(t) => Covered(t)'
      /\ confirmed' = confirmed => LsnCovered(confirmed)'
      /\ applied' = applied => LsnCovered(applied)'
      /\ startLsn' = startLsn => LsnCovered(startLsn)'
      /\ log' = log => LogCovered'
  BY CoveredForever DEF LossInv
<1>2. CASE Receive
  BY <1>2, LossReceive
<1>3. ASSUME UNCHANGED <<inTxn, srcTxn, srcPos, failedIn>>
      PROVE  (\A t \in Txns : t < srcTxn => Covered(t))' /\ GivenUp'
  BY <1>1, <1>3 DEF LossInv, GivenUp
<1>4. CASE StatusUpdate
  <2>1. confirmed' = applied /\ UNCHANGED <<procVars, streamVars, log, historyVars>>
    BY <1>4 DEF StatusUpdate
  <2>2. LsnCovered(confirmed)'
    BY <1>1, <2>1 DEF LossInv, LsnCovered
  <2>3. QED
    BY <1>1, <1>3, <2>1, <2>2 DEF LossInv, procVars, streamVars, historyVars
<1>5. CASE DecideLateCommit
  BY <1>1, <1>3, <1>5 DEF DecideLateCommit, procVars, streamVars, historyVars,
                          LossInv
<1>6. CASE WriteMarkers
  <2>1. UNCHANGED <<procVars, streamVars, confirmed, failedIn>>
    BY <1>6 DEF WriteMarkers
  <2>2. PICK m \in Txns : m < srcTxn /\ kafka.decided.lsn = EndLsn[m]
    BY <1>6 DEF WriteMarkers, BatchInv, Decidable, EndsWith
  <2>3. ASSUME NEW n \in DOMAIN log', NEW t \in Txns, EndLsn[t] <= log'[n].lsn
        PROVE  Covered(t)'
    <3>1. CASE n \in DOMAIN log
      BY <1>1, <1>6, <2>3, <3>1, LogAfterMarkers DEF LossInv, LogCovered
    <3>2. CASE n = Len(log) + 1
      <4>1. EndLsn[t] <= EndLsn[m]
        BY <1>6, <2>2, <2>3, <3>2, LogAfterMarkers
      <4>2. t <= m
        BY <4>1, EndLsnIncreases
      <4>3. t < srcTxn
        BY <2>2, <4>2 DEF TypeOK, Txns
      <4>4. QED
        BY <1>1, <4>3 DEF LossInv
    <3>3. QED
      BY <1>6, <3>1, <3>2, LogAfterMarkers
  <2>4. LogCovered'
    BY <2>3 DEF LogCovered
  <2>5. QED
    BY <1>1, <1>3, <2>1, <2>4 DEF procVars, streamVars, LossInv
<1>7. CASE ConnectionClosed \/ Crash
  BY <1>1, <1>3, <1>7 DEF ConnectionClosed, Crash, Stop, streamVars, historyVars,
                          LossInv
<1>8. CASE ReadLsn
  <2>1. UNCHANGED <<inTxn, applied, streamVars, confirmed, log, historyVars>>
    BY <1>8 DEF ReadLsn
  <2>2. PICK n \in lsnOffset..Len(log) :
          startLsn' = IF n = lsnOffset THEN 0 ELSE log[n].lsn
    BY <1>8 DEF ReadLsn
  <2>3. CASE startLsn' = 0
    <3>1. \A t \in Txns : ~(CommitLsn[t] < startLsn')
      BY <2>3, EndLsnIncreases
    <3>2. LsnCovered(startLsn)'
      BY <3>1 DEF LsnCovered
    <3>3. QED
      BY <1>1, <1>3, <2>1, <3>2 DEF streamVars, historyVars, LossInv
  <2>4. CASE n # lsnOffset
    <3>1. n \in DOMAIN log /\ startLsn' = log[n].lsn
      BY <2>2, <2>4 DEF TypeOK
    <3>2. PICK m \in Txns : log[n].lsn = EndLsn[m]
      BY <3>1 DEF LogInv, Records
    <3>3. ASSUME NEW t \in Txns, CommitLsn[t] < startLsn' PROVE Covered(t)'
      <4>1. EndLsn[t] <= log[n].lsn
        BY <3>1, <3>2, <3>3, EndLsnIncreases
      <4>2. QED
        BY <1>1, <3>1, <4>1 DEF LossInv, LogCovered
    <3>4. LsnCovered(startLsn)'
      BY <3>3 DEF LsnCovered
    <3>5. QED
      BY <1>1, <1>3, <2>1, <3>4 DEF streamVars, historyVars, LossInv
  <2>5. QED
    BY <2>2, <2>3, <2>4
<1>9. CASE StartWalInput
  <2>1. /\ UNCHANGED <<startLsn, confirmed, log>> /\ applied' = startLsn
        /\ srcPos' = 0 /\ inTxn' = FALSE
    BY <1>9 DEF StartWalInput
  <2>2. PICK u \in 1..(N + 1) : ResumesAt(u, StartPoint) /\ srcTxn' = u
    BY <1>9 DEF StartWalInput
  <2>3. ASSUME NEW t \in Txns, t < srcTxn' PROVE Covered(t)'
    <3>1. t \in 1..(u - 1)
      BY <2>2, <2>3, SizesAssumption DEF Txns
    <3>2. CommitLsn[t] < startLsn \/ CommitLsn[t] < confirmed
      BY <2>2, <3>1 DEF ResumesAt, StartPoint
    <3>3. QED
      BY <1>1, <3>2 DEF LossInv, LsnCovered
  <2>4. LsnCovered(applied)'
    BY <1>1, <2>1 DEF LossInv, LsnCovered
  <2>5. GivenUp'
    BY <2>1 DEF GivenUp
  <2>6. QED
    BY <1>1, <2>1, <2>3, <2>4, <2>5 DEF LossInv
<1>10. CASE UNCHANGED vars
  BY <1>1, <1>3, <1>10 DEF vars, procVars, streamVars, historyVars, LossInv
<1>11. QED
  BY <1>2, <1>4, <1>5, <1>6, <1>7, <1>8, <1>9, <1>10 DEF Next

LEMMA LossReachable == Spec => []LossInv
<1>1. Init => LossInv
  <2>1. ASSUME Init PROVE LossInv
    <3>1. \A t \in Txns : ~(t < srcTxn)
      BY <2>1 DEF Init, Txns
    <3>2. \A t \in Txns : ~(CommitLsn[t] < 0)
      BY EndLsnIncreases
    <3>3. DOMAIN log = {} /\ GivenUp
      BY <2>1 DEF Init, GivenUp
    <3>4. confirmed = 0 /\ applied = 0 /\ startLsn = 0
      BY <2>1 DEF Init
    <3>5. QED
      BY <3>1, <3>2, <3>3, <3>4 DEF LossInv, LsnCovered, LogCovered
  <2>2. QED
    BY <2>1
<1>2. /\ TypeOK /\ WholeInv /\ BatchInv /\ LogInv /\ LossInv /\ [Next]_vars
      => LossInv'
  BY LossStep
<1>3. QED
  BY <1>1, <1>2, TypeCorrect, WholeReachable, LogReachable, PTL DEF Spec

\* A transaction no restart would receive again has been published, or the
\* loop has logged a failure of Kafka while it received it (NoSilentLoss):
\* neither a crash, nor a commit decided late, nor what read_lsn returns loses
\* one without a trace.
THEOREM LosesNothingSilently == Spec => []NoSilentLoss
<1>1. TypeOK /\ LossInv => NoSilentLoss
  <2>1. SUFFICES ASSUME TypeOK, LossInv, NEW t \in Txns, ~Covered(t)
                 PROVE  /\ CommitLsn[t] >= confirmed
                        /\ \A b \in ToSet(log) : EndLsn[t] > b.lsn
    BY DEF NoSilentLoss, Covered, Out
  <2>2. CommitLsn[t] >= confirmed
    <3>1. CommitLsn[t] \in Nat /\ confirmed \in Nat
      BY <2>1, EndLsnIncreases DEF TypeOK
    <3>2. ~(CommitLsn[t] < confirmed)
      BY <2>1 DEF LossInv, LsnCovered
    <3>3. QED
      BY <3>1, <3>2
  <2>3. ASSUME NEW b \in ToSet(log) PROVE EndLsn[t] > b.lsn
    <3>1. PICK n \in DOMAIN log : b = log[n]
      BY DEF ToSet
    <3>2. b.lsn \in Nat /\ EndLsn[t] \in Nat
      BY <2>1, <3>1, EndLsnIncreases, EventsType DEF TypeOK
    <3>3. ~(EndLsn[t] <= b.lsn)
      BY <2>1, <3>1 DEF LossInv, LogCovered
    <3>4. QED
      BY <3>2, <3>3
  <2>4. QED
    BY <2>2, <2>3
<1>2. QED
  BY <1>1, TypeCorrect, LossReachable, PTL

------------------------------------------------------------------------------
(* A change follows its relation's record.  Described is every relation whose *)
(* record is in the log, decided, in the open transaction, or known to be      *)
(* lost; only the end of the process takes one away.  The inductive invariant *)
(* says that the relations the loop knows are among them, so that a record    *)
(* can never be in a later batch than the changes that need it.               *)

Described == Recorded \cup kafka.open.rels

SchemaInv ==
  /\ phase = "running" => relMap \subseteq Described
  /\ \A c \in Sent : Rel(c) \in Described
  /\ \A c \in ToSet(kafka.decided.events) : Rel(c) \in Recorded
  /\ SchemaUnlessLost

\* What a step does to the open transaction and to the relations known, unless
\* the process starts or, with nothing left open, stops.
Describes ==
  /\ Described \subseteq Described'
  /\ phase' = "running" =>
       phase = "running" /\ relMap' \subseteq relMap \cup Described'
  /\ \A c \in Sent' : c \in Sent \/ (phase = "running" /\ Rel(c) \in relMap)

StopsEmpty == phase' = "down" /\ kafka'.open = EmptyBatch

\* An abort or a commit keeps a record or counts it as lost.
LEMMA DroppedIsLost ==
  ASSUME relLost' = relLost \cup Dropped(kafka, kafka')
  PROVE  kafka.open.rels \subseteq Described'
  BY DEF Dropped, Described, Recorded

LEMMA SentChanges ==
  ASSUME TypeOK, WholeInv, [Next]_vars
  PROVE  \A c \in Sent' : c \in Sent \/ (phase = "running" /\ Rel(c) \in relMap)
<1>1. kafka.open \in Batch /\ kafka \in Clients
  BY ClientType DEF Clients
<1>2. CASE kafka'.open.events = kafka.open.events \/ kafka'.open = EmptyBatch
  BY <1>2, NothingInEmpty DEF Sent
<1>3. CASE Holds \/ Drops
  BY <1>2, <1>3 DEF Holds, Drops
<1>4. CASE Grows
  <2>1. CASE /\ kafka'.open.events = Append(kafka.open.events, Here)
             /\ Here \in Publishable(srcTxn) /\ Rel(Here) \in relMap
             /\ phase = "running"
    <3>1. Here \in Positions
      BY <1>4, <2>1, PublishableType DEF Grows
    <3>2. Sent' = Sent \cup {Here}
      BY <1>1, <2>1, <3>1, EventsType, ToSetAppend DEF Sent
    <3>3. QED
      BY <2>1, <3>2
  <2>2. QED
    BY <1>2, <1>4, <2>1 DEF Grows
<1>5. CASE Attempts \/ Commits
  <2>1. EndLsn[srcTxn] \in Nat
    BY <1>5, EndLsnIncreases DEF Attempts, Commits
  <2>2. [kafka.open EXCEPT !.lsn = EndLsn[srcTxn]].events = kafka.open.events
    BY <1>1, <2>1, CommitGrows
  <2>3. CASE Attempts
    BY <1>2, <2>2, <2>3 DEF Attempts
  <2>4. CASE Commits
    BY <1>2, <2>4 DEF Commits
  <2>5. QED
    BY <1>5, <2>3, <2>4
<1>6. CASE DecideLateCommit \/ WriteMarkers \/ StartWalInput
  <2>1. CASE DecideLateCommit
    BY <1>1, <1>2, <2>1 DEF DecideLateCommit, DecideLate, Clients
  <2>2. CASE WriteMarkers
    BY <1>2, <2>2, LogAfterMarkers
  <2>3. CASE StartWalInput
    BY <1>2, <2>3 DEF StartWalInput, FreshClient
  <2>4. QED
    BY <1>6, <2>1, <2>2, <2>3
<1>7. QED
  BY <1>3, <1>4, <1>5, <1>6, ClientStep

LEMMA DescribesReceive ==
  ASSUME TypeOK, WholeInv, BatchInv, Receive
  PROVE  Describes
<1>1. kafka \in Clients /\ kafka.open \in Batch /\ phase = "running"
  BY ClientType DEF Receive, RecvBegin, RecvRelation, SkipChange, AtBegin,
     DropUndecodable, PublishChange, AbortOnSendError, SkipCommit, CommitOk,
     CommitFailed, AtChange, AtCommit, Clients
<1>2. Recorded \subseteq Recorded'
  BY OutGrows DEF Next
<1>3. \A c \in Sent' : c \in Sent \/ (phase = "running" /\ Rel(c) \in relMap)
  BY SentChanges DEF Next
<1>4. ASSUME relMap' = relMap \/ relMap' \subseteq relMap \cup Described',
             kafka.open.rels \subseteq Described'
      PROVE  Describes
  <2>1. Described \subseteq Described'
    BY <1>2, <1>4 DEF Described
  <2>2. QED
    BY <1>1, <1>3, <1>4, <2>1 DEF Describes
<1>5. kafka'.open.rels = kafka.open.rels => kafka.open.rels \subseteq Described'
  BY DEF Described
<1>6. CASE RecvBegin
  <2>1. relMap' = relMap /\ ~inTxn
    BY <1>6 DEF RecvBegin, AtBegin, WholeInv, LoopInv
  <2>2. PICK b \in StartTransaction(kafka) : kafka' = b.k
    BY <1>6, <2>1 DEF RecvBegin, Err
  <2>3. kafka'.open = kafka.open
    BY <1>1, <2>2, StartOutcome
  <2>4. QED
    BY <1>4, <1>5, <2>1, <2>3
<1>7. CASE RecvRelation
  <2>1. CASE kafka' = kafka /\ relMap' = relMap
    BY <1>4, <1>5, <2>1
  <2>2. CASE \E o \in OnRelation(kafka, Rel(Here)) :
               /\ kafka' = o.k
               /\ relMap' = Remember(Rel(Here), o.ok)
               /\ relLost' = IF o.ok THEN relLost ELSE relLost \cup {Rel(Here)}
    <3>1. PICK o \in OnRelation(kafka, Rel(Here)) :
               /\ kafka' = o.k
               /\ relMap' = Remember(Rel(Here), o.ok)
               /\ relLost' = IF o.ok THEN relLost ELSE relLost \cup {Rel(Here)}
      BY <2>2
    <3>2. Rel(Here) \in Relations
      BY <1>7, HereType DEF RecvRelation
    <3>3. CASE o.ok
      <4>1. kafka'.open.rels = kafka.open.rels \cup {Rel(Here)}
        BY <1>1, <3>1, <3>2, <3>3, OnRelationOutcome
      <4>2. QED
        BY <1>4, <3>1, <4>1 DEF Described, Remember
    <3>4. CASE ~o.ok
      <4>1. kafka'.open = kafka.open
        BY <1>1, <3>1, <3>2, <3>4, OnRelationOutcome
      <4>2. Rel(Here) \in Described'
        BY <3>1, <3>4 DEF Described, Recorded
      <4>3. QED
        BY <1>4, <1>5, <3>1, <4>1, <4>2 DEF Remember
    <3>5. QED
      BY <3>3, <3>4
  <2>3. QED
    BY <1>7, <2>1, <2>2 DEF RecvRelation
<1>8. CASE SkipChange \/ DropUndecodable \/ SkipCommit
  BY <1>4, <1>5, <1>8 DEF SkipChange, DropUndecodable, SkipCommit, procVars
<1>9. CASE PublishChange
  <2>1. relMap' = relMap /\ Here \in Positions
    BY <1>9, HereType DEF PublishChange, procVars
  <2>2. PICK o \in Send(kafka, Here) : o.ok /\ kafka' = o.k
    BY <1>9 DEF PublishChange
  <2>3. kafka'.open.rels = kafka.open.rels
    BY <1>1, <2>1, <2>2, SendOutcome
  <2>4. QED
    BY <1>4, <1>5, <2>1, <2>3
<1>10. CASE AbortOnSendError
  <2>1. relMap' = relMap
    BY <1>10 DEF AbortOnSendError
  <2>2. relLost' = relLost \cup Dropped(kafka, kafka')
    BY <1>10 DEF AbortOnSendError
  <2>3. QED
    BY <1>4, <2>1, <2>2, DroppedIsLost
<1>11. ASSUME CommitOk \/ CommitFailed
       PROVE  relMap' = relMap /\ EndLsn[srcTxn] \in Nat
  BY <1>11, AtCommitMoves DEF CommitOk, CommitFailed
<1>12. CASE CommitOk
  <2>1. PICK o \in CommitTransaction(kafka, EndLsn[srcTxn]) : o.ok /\ kafka' = o.k
    BY <1>12 DEF CommitOk, LsnToWrite
  <2>2. kafka'.decided = [kafka.open EXCEPT !.lsn = EndLsn[srcTxn]]
    BY <1>1, <1>11, <1>12, <2>1, CommitOutcome
  <2>3. kafka'.decided.rels = kafka.open.rels
    BY <1>1, <1>11, <1>12, <2>2, CommitGrows
  <2>4. kafka.open.rels \subseteq Described'
    BY <2>3 DEF Described, Recorded
  <2>5. QED
    BY <1>4, <1>11, <1>12, <2>4
<1>13. CASE CommitFailed
  <2>1. PICK o \in CommitTransaction(kafka, EndLsn[srcTxn]) :
          ~o.ok /\ kafka' = o.k
    BY <1>13 DEF CommitFailed, LsnToWrite
  <2>2. \/ kafka'.open = kafka.open
        \/ kafka'.open = [kafka.open EXCEPT !.lsn = EndLsn[srcTxn]]
    BY <1>1, <1>11, <1>13, <2>1, CommitOutcome
  <2>3. [kafka.open EXCEPT !.lsn = EndLsn[srcTxn]].rels = kafka.open.rels
    BY <1>1, <1>11, <1>13, CommitGrows
  <2>4. kafka'.open.rels = kafka.open.rels
    BY <2>2, <2>3
  <2>5. QED
    BY <1>4, <1>5, <1>11, <1>13, <2>4
<1>14. QED
  BY <1>6, <1>7, <1>8, <1>9, <1>10, <1>12, <1>13 DEF Receive

LEMMA DescribesStep ==
  ASSUME TypeOK, WholeInv, BatchInv, [Next]_vars
  PROVE  \/ Describes \/ StopsEmpty
         \/ relMap' = {} /\ kafka' = FreshClient
<1>1. kafka \in Clients /\ Recorded \subseteq Recorded'
  BY ClientType, OutGrows
<1>2. \A c \in Sent' : c \in Sent \/ (phase = "running" /\ Rel(c) \in relMap)
  BY SentChanges
<1>3. ASSUME relMap' = relMap, phase' = "running" => phase = "running",
             kafka.open.rels \subseteq Described'
      PROVE  Describes
  BY <1>1, <1>2, <1>3 DEF Describes, Described
<1>4. kafka'.open = kafka.open => kafka.open.rels \subseteq Described'
  BY DEF Described
<1>5. CASE Receive
  BY <1>5, DescribesReceive
<1>6. CASE StatusUpdate \/ Crash \/ ReadLsn \/ UNCHANGED vars
  BY <1>3, <1>4, <1>6 DEF StatusUpdate, Crash, Stop, ReadLsn, vars, procVars
<1>7. CASE DecideLateCommit
  <2>1. kafka'.decided = kafka.open
    BY <1>1, <1>7 DEF DecideLateCommit, DecideLate, Clients
  <2>2. kafka.open.rels \subseteq Described'
    BY <2>1 DEF Described, Recorded
  <2>3. QED
    BY <1>3, <1>7, <2>2 DEF DecideLateCommit, procVars
<1>8. CASE WriteMarkers
  BY <1>3, <1>4, <1>8, LogAfterMarkers DEF WriteMarkers, procVars
<1>9. CASE ConnectionClosed
  <2>1. phase' = "down" /\ relMap' = relMap
    BY <1>9 DEF ConnectionClosed, Stop
  <2>2. kafka' = kafka \/ \E a \in AbortTransaction(kafka) : kafka' = a.k
    BY <1>9 DEF ConnectionClosed, Err
  <2>3. kafka'.open = kafka.open \/ kafka'.open = EmptyBatch
    BY <1>1, <2>2, AbortOutcome
  <2>4. QED
    BY <1>3, <1>4, <2>1, <2>3 DEF StopsEmpty
<1>10. CASE StartWalInput
  BY <1>10 DEF StartWalInput
<1>11. QED
  BY <1>5, <1>6, <1>7, <1>8, <1>9, <1>10 DEF Next

LEMMA SchemaKept ==
  ASSUME SchemaUnlessLost, log' = log, relLost \subseteq relLost'
  PROVE  SchemaUnlessLost'
  BY DEF SchemaUnlessLost

LEMMA SchemaExtended ==
  ASSUME TypeOK, SchemaInv, WriteMarkers
  PROVE  SchemaUnlessLost'
<1> DEFINE n0 == Len(log) + 1
<1>1. ASSUME NEW n \in DOMAIN log', NEW c \in ToSet(log'[n].events)
      PROVE  Rel(c) \in relLost' \cup UNION {log'[m].rels : m \in 1..n}
  <2>1. CASE n \in DOMAIN log
    <3>1. Rel(c) \in relLost \cup UNION {log[m].rels : m \in 1..n}
      BY <1>1, <2>1, LogAfterMarkers DEF SchemaInv, SchemaUnlessLost
    <3>2. \A m \in 1..n : m \in DOMAIN log /\ log'[m] = log[m]
      BY <2>1, LogAfterMarkers
    <3>3. relLost' = relLost
      BY LogAfterMarkers
    <3>4. QED
      BY <3>1, <3>2, <3>3
  <2>2. CASE n = n0
    <3>1. c \in ToSet(kafka.decided.events)
      BY <1>1, <2>2, LogAfterMarkers
    <3>2. Rel(c) \in relLost \cup LogRels \cup kafka.decided.rels
      BY <3>1 DEF SchemaInv, Recorded
    <3>3. /\ n0 \in 1..n0 /\ log'[n0].rels = kafka.decided.rels
          /\ \A m \in DOMAIN log : m \in 1..n0 /\ log'[m] = log[m]
      BY LogAfterMarkers
    <3>4. relLost' = relLost
      BY LogAfterMarkers
    <3>5. QED
      BY <2>2, <3>2, <3>3, <3>4 DEF LogRels
  <2>3. QED
    BY <2>1, <2>2, LogAfterMarkers
<1>2. QED
  BY <1>1 DEF SchemaUnlessLost

\* The changes of a batch that is decided now were described before.
LEMMA DecidedIsDescribed ==
  ASSUME TypeOK, WholeInv, BatchInv, SchemaInv, [Next]_vars
  PROVE  \A c \in ToSet(kafka'.decided.events) : Rel(c) \in Recorded'
<1>1. kafka.open \in Batch /\ kafka \in Clients /\ Recorded \subseteq Recorded'
  BY ClientType, OutGrows DEF Clients
<1>2. CASE kafka'.decided = kafka.decided \/ kafka'.decided = EmptyBatch
  BY <1>1, <1>2, NothingInEmpty DEF SchemaInv
<1>3. CASE /\ kafka'.decided.events = kafka.open.events
           /\ kafka'.decided.rels = kafka.open.rels
  <2>1. Described \subseteq Recorded'
    BY <1>1, <1>3 DEF Described, Recorded
  <2>2. QED
    BY <1>3, <2>1 DEF SchemaInv, Sent
<1>4. CASE Holds \/ Drops \/ Grows \/ Attempts
  BY <1>2, <1>4 DEF Holds, Drops, Grows, Attempts
<1>5. CASE Commits
  <2>1. EndLsn[srcTxn] \in Nat
    BY <1>5, EndLsnIncreases DEF Commits
  <2>2. /\ [kafka.open EXCEPT !.lsn = EndLsn[srcTxn]].events = kafka.open.events
        /\ [kafka.open EXCEPT !.lsn = EndLsn[srcTxn]].rels = kafka.open.rels
    BY <1>1, <2>1, CommitGrows
  <2>3. QED
    BY <1>3, <1>5, <2>2 DEF Commits
<1>6. CASE DecideLateCommit
  BY <1>1, <1>3, <1>6 DEF DecideLateCommit, DecideLate, Clients
<1>7. CASE WriteMarkers
  BY <1>2, <1>7, LogAfterMarkers
<1>8. CASE StartWalInput
  BY <1>2, <1>8 DEF StartWalInput, FreshClient
<1>9. QED
  BY <1>4, <1>5, <1>6, <1>7, <1>8, ClientStep

LEMMA SchemaStep ==
  ASSUME TypeOK, WholeInv, BatchInv, SchemaInv, [Next]_vars
  PROVE  SchemaInv'
<1>1. \A c \in ToSet(kafka'.decided.events) : Rel(c) \in Recorded'
  BY DecidedIsDescribed
<1>2. SchemaUnlessLost'
  BY DecidedKept, HistoryGrows, SchemaKept, SchemaExtended DEF SchemaInv
<1>3. /\ phase' = "running" => relMap' \subseteq Described'
      /\ \A c \in Sent' : Rel(c) \in Described'
  <2>1. CASE Describes
    BY <2>1 DEF Describes, SchemaInv
  <2>2. CASE StopsEmpty
    BY <2>2, NothingInEmpty DEF StopsEmpty, Sent
  <2>3. CASE relMap' = {} /\ kafka' = FreshClient
    BY <2>3, NothingInEmpty DEF Sent, FreshClient
  <2>4. QED
    BY <2>1, <2>2, <2>3, DescribesStep
<1>4. QED
  BY <1>1, <1>2, <1>3 DEF SchemaInv

\* Whoever reads the topics from the start knows the relation of each change
\* he comes to, unless its record was refused or went with an aborted
\* transaction (SchemaUnlessLost): no failure, crash or commit decided late
\* puts a record behind the changes that need it.
THEOREM SchemaComesFirst == Spec => []SchemaUnlessLost
<1>1. Init => SchemaInv
  <2>1. ASSUME Init PROVE SchemaInv
    <3>1. DOMAIN log = {} /\ phase # "running" /\ kafka = FreshClient
      BY <2>1 DEF Init
    <3>2. Sent = {} /\ ToSet(kafka.decided.events) = {}
      BY <3>1, NothingInEmpty DEF Sent, FreshClient
    <3>3. QED
      BY <3>1, <3>2 DEF SchemaInv, SchemaUnlessLost
  <2>2. QED
    BY <2>1
<1>2. SchemaInv => SchemaUnlessLost
  BY DEF SchemaInv
<1>3. TypeOK /\ WholeInv /\ BatchInv /\ SchemaInv /\ [Next]_vars => SchemaInv'
  BY SchemaStep
<1>4. QED
  BY <1>1, <1>2, <1>3, TypeCorrect, WholeReachable, LogReachable, PTL DEF Spec

==============================================================================
