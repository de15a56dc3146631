-------------------------------- MODULE OraSql --------------------------------
(***************************************************************************)
(* The statement cache of OraSock with statements as sql_translate makes    *)
(* them of their texts.                                                     *)
(***************************************************************************)
EXTENDS OraSock, SqlPrepare

Statement(text) ==
  LET s == sql_translate(text)
  IN  [sql |-> text,
       template |-> IF s = Failed THEN None ELSE s.mod,
       args |-> s.data,
       binds |-> Len(s.data) <= Cardinality(Places(s.mod)),
       from |-> "from" \in Range(text),
       rows |-> text # <<>> /\ text[1] = "select"]
-----------------------------------------------------------------------------
(* Properties *)

\* The templates that OCI takes with the binds of some statement.
Accepted == {q.template : q \in {r \in Statements : r.binds}}

\* A template that OCI takes is, with the literals of any of its statements put
\* back, that statement.  It is a fact about sql_translate and the texts, and
\* about nothing that happens later; some texts do not have it, as those of a
\* number that is too large for an int.
RoundTrip == \A q \in Statements :
               q.template \in Accepted \ {None} =>
                 Unspaced(PutBack(q.template, q.args)) = Unspaced(q.sql)

\* What the database executes as a template, with the data that are bound at
\* that moment in its places, is the statement the caller asked for: whichever
\* of its literals the parser took out, wherever it found them, and whatever
\* statements of the same template came before.
ExecutesWhatWasAsked ==
  ran # None /\ ran.text[1] = "node" =>
    Unspaced(PutBack(ran.text[2], ran.bound.data)) = Unspaced(ran.asked.sql)
=============================================================================
