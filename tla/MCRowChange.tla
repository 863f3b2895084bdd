---------------------------- MODULE MCRowChange ----------------------------
(* Tables of one to three columns with every choice of key columns, under   *)
(* both replica identities, and some wider.  Unrolled is 4, so that five     *)
(* columns are a wide table.  MCUsers is (id, name), with id the key.        *)
EXTENDS RowChange

Shape(n, pk, full) == [cols |-> n, pk |-> pk, full |-> full]

\* The increasing sequences of columns of 1..n.
KeysOf(n) == {SetToSortSeq(k, <) : k \in SUBSET (1..n) \ {{}}}

MCShapes ==
  UNION {{Shape(n, pk, f) : pk \in KeysOf(n), f \in BOOLEAN} : n \in 1..3}
    \cup {Shape(4, pk, f) : pk \in {<<2, 3, 4>>, <<1, 2>>, <<1, 3>>}, f \in BOOLEAN}
    \cup {Shape(5, pk, FALSE) : pk \in {<<1, 2, 3, 4>>, <<1, 2, 3, 4, 5>>}}
MCUsers  == {Shape(2, <<1>>, FALSE)}
MCValues == {1, 2}
============================================================================
