------------------------------ MODULE MCCdcSink ------------------------------
(* Two tables with two keys.  An item is inserted, updated with a value that *)
(* is rejected, and deleted.  "users" changes its schema twice, the second   *)
(* time to a wider one; a user moves to another key and gets a timestamp too *)
(* far away.                                                                 *)
EXTENDS CdcSink

Event(op, k, o, v, s, f) ==
  [op |-> op, key |-> k, old |-> o, val |-> v, schema |-> s, form |-> f]
Up(k, o, v, s) == Event("upsert", k, o, v, s, "plain")
Del(k, s)      == Event("delete", k, k, 0, s, "plain")
Rel(t, s)      == [table |-> t, schema |-> s]

MCTables == {"items", "users"}
MCKeys == {"k1", "k2"}
MCArity == <<2, 2, 3>>
MCFeed ==
  [p \in MCTables \cup {"relations"} |->
     CASE p = "items" ->
            <<Up("k1", "k1", 1, 1), Event("upsert", "k1", "k1", 2, 1, "rejected"),
              Del("k1", 1)>>
       [] p = "users" ->
            <<Up("k1", "k1", 1, 2), Event("upsert", "k2", "k1", 2, 3, "far")>>
       [] OTHER ->
            <<Rel("items", 1), Rel("users", 1), Rel("users", 2), Rel("users", 3)>>]

MCOneTable == {"items"}
MCPlain ==
  [p \in MCOneTable \cup {"relations"} |->
     IF p = "items" THEN <<Up("k1", "k1", 1, 1), Up("k2", "k2", 2, 1)>>
     ELSE <<Rel("items", 1)>>]
MCPoison ==
  [MCPlain EXCEPT !["items"] =
     <<Event("upsert", "k1", "k1", 1, 1, "far"), Up("k2", "k2", 2, 1)>>]

MCBoth     == {"postgres", "feldera"}
MCPostgres == {"postgres"}
MCFeldera  == {"feldera"}
==============================================================================
