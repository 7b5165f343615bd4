------------------------------ MODULE MCCodec ------------------------------
(* Columns of every type with every property, one or two of them, three    *)
(* integers, and columns with names that hold the characters of the text.  *)
EXTENDS Codec

Col(n, type, param, P) == [name |-> n, type |-> type, param |-> param, property |-> P]

MCNames == {<<"t">>, <<":", "t">>, <<"c", " ">>, <<" ", "(", "1">>, <<"(", ")", ":">>}

Plain ==
  {Col(<<"t">>, type, 0, P) : type \in {"INTEGER", "STRING"}, P \in SUBSET {"NULLABLE", "KEY"}}
    \cup {Col(<<"t">>, "DOUBLE", 0, {"NULLABLE"}), Col(<<"t">>, "DOUBLE", 0, {})}

Columns ==
  UNION {[1 .. n -> Plain] : n \in 1 .. 2}
    \cup [1 .. 3 -> {Col(<<"t">>, "INTEGER", 0, P) : P \in {{"NULLABLE"}, {"KEY"}}}]

OddColumns ==
  {<<Col(m, "INTEGER", 99, {"UNIQUE"}),
     Col(n, "STRING", 7, {"NULLABLE", "KEY", "UNIQUE"})>> : m, n \in MCNames}

MCSchemas ==
  [name : {<<"t">>}, attrs : Columns] \cup [name : MCNames, attrs : OddColumns]

\* 1, and an integer with its first byte 0 and its last not.
MCInts == {<<1, 0, 0, 0, 0, 0, 0, 0>>, <<0, 0, 0, 0, 0, 0, 0, 1>>}
MCStrings == {<< >>, <<97, 98>>}
MCStale == {0, 7}

\* "t:"
MCPrefix == <<116, 58>>
=============================================================================
