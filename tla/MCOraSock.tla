------------------------------ MODULE MCOraSock ------------------------------
(***************************************************************************)
(* OraSql with statements of each kind that sql_translate tells apart.     *)
(***************************************************************************)
EXTENDS OraSql

Select == <<"select", "a", "from", "t where">>
Insert == <<"insert into", "t", "values", "(">>

MCTexts ==
  {\* Two that share a template with numbers, which may lose their places.
   Select \o <<"a", "<", "=", "5", " ", "and", "b", "=", " ", "7">>,
   Select \o <<"a", "<", "=", "7", " ", "and", "b", "=", " ", "5">>,
   \* A number inside quotes that looks like a literal, before one that is.
   Select \o <<"a", "=", "to_date", "(", "'", "5", "-", "6", " ", "'", ")", "and", "b", "=", "1", ".", "5">>,
   \* Two inserts that share a template with a value of each type.
   Insert \o <<"'", "x", "'", ",", " ", "5", ",", "2", ".", "5", ")">>,
   Insert \o <<"'", "y", "z", "'", ",", " ", "7", ",", "1", ".", "5", ")">>,
   \* A quote that is not closed.
   <<"update", "a", "=", "'", "x">>}

Translated == {Statement(text) : text \in MCTexts}
MCStatements == Translated

\* OCI takes no template of one that is not its statement.
ASSUME StatementsRoundTrip == RoundTrip
-----------------------------------------------------------------------------
(* The parser alone, on more texts *)

Values == {<<"5">>, <<"1", ".", "5">>, <<"'", "x", "'">>, <<"b">>, <<"f", "(", "5", ")">>, <<"5", "-", "1">>}
Comparisons == {<<"a">> \o op \o value : op \in {<<"=">>, <<"<", "=">>, <<"<">>}, value \in Values}

\* With its binds put back, a template is its statement, and each bind has a
\* place: for two comparisons, and an insert of two literals.
ASSUME TemplatesAreStatements ==
  LET selects == {Select \o c \o <<" ", "and", " ">> \o d : c, d \in Comparisons}
      literals == {v \in Values : sql_translate(<<"a", "=">> \o v).data # <<>>} \ {<<"5", "-", "1">>}
      inserts == {Insert \o v \o <<",", " ">> \o w \o <<")">> : v, w \in literals}
  IN  \A text \in selects \cup inserts :
        LET s == sql_translate(text)
        IN  /\ Len(s.data) = Cardinality(Places(s.mod))
            /\ Unspaced(PutBack(s.mod, s.data)) = Unspaced(text)

\* Where a bind is not the literal it stands for, with ints of 3 bits: a number
\* too large for an int, a negative one in an INSERT, a string of VALMAXLEN, and
\* an expression in an INSERT, for which a 0 is stored.
ASSUME OtherValues ==
  /\ sql_translate(<<"a", "=", "1", "3">>).data = <<[type |-> "uin", value |-> <<"5">>]>>
  /\ sql_translate(Insert \o <<"-", "3", ")">>).data = <<[type |-> "uin", value |-> <<"5">>]>>
  /\ sql_translate(<<"a", "=", "'", "w", "x", "y", "z", "'">>).data
       = <<[type |-> "str", value |-> <<"w", "x", "y">>]>>
  /\ sql_translate(Insert \o <<"sysdate", ")">>).data = <<[type |-> "uin", value |-> <<"0">>]>>

\* A comparison is left alone once no "=" comes after it.
ASSUME NoEqualLeft ==
  LET s == sql_translate(<<"a", "=", "5", " ", "and", "b", "<", "6">>)
  IN  s.mod = <<"a", "=", ":r", " ", "and", "b", "<", "6">> /\ Len(s.data) = 1
=============================================================================
