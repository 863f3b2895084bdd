---------------------------- MODULE MCTypedRows ----------------------------
(* A table that changes a column's type, also to one the decoder does not    *)
(* know, a column's name, its identity, its key; one without a key; ones     *)
(* with names that SQL wants quoted; and, so that terminators come to lie    *)
(* everywhere in the chunks of the search, tables whose name and column have *)
(* any length up to two chunks and beyond.                                   *)
EXTENDS TypedRows

Table(name, ident, cols) ==
  [namespace |-> <<112>>, name |-> name, ident |-> ident, cols |-> cols]
Col(name, key, type) == [name |-> name, key |-> key, type |-> type]

Id == Col(<<105>>, TRUE, "int4")
A(type) == Col(<<97>>, FALSE, type)
T(cols) == Table(<<116>>, Ident.Keys, cols)

\* 195 169 is a letter in UTF-8, of bytes with the high bit set; 120 is an x.
Bytes(n) == [i \in 1..n |-> IF i % 2 = 1 /\ i < n THEN 195
                            ELSE IF i % 2 = 0 THEN 169 ELSE 120]
Long(n, cols) == Table(Bytes(n), Ident.Keys, cols)
Text(m) == Col(Bytes(m), TRUE, "text")

Ints    == T(<<Id, A("int8")>>)
Floats  == T(<<Id, A("float8")>>)
Texts   == T(<<Id, A("text")>>)
Varchar == T(<<Id, A("varchar")>>)
Fixed   == T(<<Id, A("bpchar")>>)
Times   == T(<<Id, A("timestamp")>>)
Flags   == T(<<Id, A("bool")>>)
Renamed == T(<<Id, Col(<<98>>, FALSE, "int8")>>)
Wider   == T(<<Id, A("int8"), Col(<<98>>, FALSE, "bool")>>)
Full    == Table(<<116>>, Ident.Row, <<Id, A("int8")>>)
NoIdent == Table(<<116>>, 110, <<Id, A("int8")>>)
NoKey   == T(<<A("int8")>>)
Both    == T(<<Id, A("int8"), Col(<<65>>, FALSE, "int8")>>)
Upper   == Table(<<84>>, Ident.Keys, <<Id, Col(<<65>>, FALSE, "int8")>>)
OtherKey == T(<<Col(<<105>>, FALSE, "int4"), Col(<<97>>, TRUE, "int8"),
                Col(<<98>>, FALSE, "bool")>>)

\* "or", "Or", "a b", "a-b", "1a", one with the byte 1, and "a1$", an identifier.
MCReserved == {<<111, 114>>}
Named(name) == T(<<Id, Col(name, FALSE, "int8")>>)
Quotable == {<<111, 114>>, <<79, 114>>, <<97, 32, 98>>, <<97, 45, 98>>, <<49, 97>>,
             <<97, 1>>, <<97, 49, 36>>}

MCDefinitions == {Ints, Texts, Times, Flags, Floats, Upper, NoKey, Both, Wider}
  \cup {Named(q) : q \in Quotable}
  \cup {Table(<<111, 114>>, Ident.Keys, <<Id, A("int8")>>)}
  \cup {Long(n, <<>>) : n \in 1..34}
  \cup {Long(n, <<Text(m), A("bool")>>) : n \in 1..34, m \in {1, 2, 8, 15, 16, 17, 25, 63}}
MCAlters ==
  LET chain == <<Flags, Texts, Varchar, Texts, Fixed, Texts, Ints, Floats, Times, Ints,
                 Full, Wider, NoIdent, Renamed, Ints, Upper>>
  IN {<<chain[i], chain[i + 1]>> : i \in 1..15} \cup {<<Wider, OtherKey>>}

MCOid == [bool |-> <<0, 0, 0, 16>>, int8 |-> <<0, 0, 0, 20>>, int4 |-> <<0, 0, 0, 23>>,
          text |-> <<0, 0, 0, 25>>, timestamp |-> <<0, 0, 4, 90>>,
          float8 |-> <<0, 0, 2, 189>>, varchar |-> <<0, 0, 4, 19>>,
          bpchar |-> <<0, 0, 4, 18>>]
Eight(b) == <<b, 0, 0, 0, 0, 0, 0, 1>>
MCSample == [bool |-> {<<0>>, <<1>>}, int8 |-> {Eight(0), Eight(255)},
             int4 |-> {<<0, 0, 0, 1>>}, text |-> {<<>>, <<97>>, <<195, 169, 226, 130, 172>>},
             timestamp |-> {Eight(0), Eight(127), Eight(128)},
             float8 |-> {Eight(63)}, varchar |-> {<<97>>}, bpchar |-> {<<97>>}]
MCBuilds == {"x86_64", "other"}
============================================================================
