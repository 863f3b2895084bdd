--------------------------- MODULE MCCdcProducer ---------------------------
(* Three transactions over three tables: "users" first appears after the    *)
(* first transaction, one change of "items" does not decode and nothing of  *)
(* "blobs" does, the records of 1 and 2 are adjacent in the WAL and those of*)
(* 2 and 3 are not.  MCChanges2 is its first two transactions with "blobs"  *)
(* in the second; MCChangesClean needs neither.                             *)
EXTENDS CdcProducer

MCRelations == {"items", "users", "blobs"}
MCChanges == << <<"items", "items">>, <<"items", "users">>, <<"users", "blobs">> >>
MCChanges2 == << <<"items", "items">>, <<"items", "blobs">> >>
MCChangesClean == << <<"items">>, <<"items">> >>
MCUndecodable == {<<1, 1>>}
MCUnparsable == {"blobs"}
MCNone == {}
MCCommitLsn == [t \in Txns |-> <<10, 20, 40>>[t]]
MCEndLsn == [t \in Txns |-> <<20, 30, 50>>[t]]
=============================================================================
