----------------------------- MODULE MCPipeline -----------------------------
(* Two transactions of a change each, to the same row.                      *)
EXTENDS Pipeline

MCRelations == {"items"}
MCChanges == << <<"items">>, <<"items">> >>
MCNone == {}
MCCommitLsn == [t \in Txns |-> <<10, 20, 40>>[t]]
MCEndLsn == [t \in Txns |-> <<20, 30, 50>>[t]]
Put(k, v) == [op |-> "upsert", key |-> k, old |-> k, val |-> v]
MCEffects == [c \in {<<1, 1>>, <<2, 1>>} |-> Put("k1", c[1])]
MCKeys == {"k1"}
MCPostgres == {"postgres"}

\* With no stop of the connector, committed is never read after its only Start.
MCView == <<vars, feed, platform, sinkPhase, conn, relCache, stmts, pos, hand,
            table, sinkCrashes, drops, missed, ahead>>
=============================================================================
