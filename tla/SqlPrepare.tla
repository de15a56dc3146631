------------------------------ MODULE SqlPrepare ------------------------------
(***************************************************************************)
(* ora/sql_prepare_parser.c: sql_translate takes the literals out of a SQL  *)
(* statement and leaves ":r" where they were.                               *)
(*                                                                         *)
(* A text is a sequence of symbols: a digit, a delimiter, a quote, or a     *)
(* keyword or name, which no definition looks into; "values" and "insert     *)
(* into" are symbols, and numbers have no exponents.  A position of the text *)
(* stands for a pointer, 0 for NULL, and Len + 1 for the end of the text.   *)
(***************************************************************************)
EXTENDS Integers, FiniteSetsExt, SequencesExt

CONSTANTS Width,      \* bits of an int; a long long has twice as many
          ValMaxLen   \* VALMAXLEN

ASSUME SqlPrepareAssumption == Width \in Nat \ {0} /\ ValMaxLen \in Nat \ {0}

Digit == <<"0", "1", "2", "3", "4", "5", "6", "7", "8", "9">>
Digits == {Digit[i] : i \in 1..10}
DigitValue(d) == CHOOSE n \in 0..9 : Digit[n + 1] = d
begin_delim_set == {"=", "+", "-", "<", ">"}
end_delim_set == {" ", ",", ";", ")"}

\* strchr, strstr_ncase: the first symbol of S at p or after it.
First(text, p, S) ==
  LET found == {q \in p..Len(text) : text[q] \in S}
  IN  IF found = {} THEN 0 ELSE Min(found)

\* The first position at p or after it with a symbol outside S.
Past(text, p, S) ==
  Min({q \in p..Len(text) : text[q] \notin S} \cup {Len(text) + 1})

eat_blank(text, p) == Past(text, p, {" "})

\* 0 as soon as there is no "=" any more, whatever others there are.
closest_delim(text, p) == IF First(text, p, {"="}) = 0 THEN 0 ELSE First(text, p, begin_delim_set)
-----------------------------------------------------------------------------
(* Literals *)

\* The digits of a number, as they would be printed.
Decimal(number) ==
  LET dec[n \in Nat] ==
        IF n < 10 THEN <<Digit[n + 1]>> ELSE Append(dec[n \div 10], Digit[(n % 10) + 1])
  IN  dec[number]

AfterSign(text, p) == IF p <= Len(text) /\ text[p] \in {"+", "-"} THEN p + 1 ELSE p

\* strtoll, which stops at the largest long long, and the two truncations: to
\* int_num and to the unsigned data_num.  No digits make a 0.
Integer(text, p) ==
  LET minus == p <= Len(text) /\ text[p] = "-"
      b == AfterSign(text, p)
      digits == SubSeq(text, b, Past(text, b, Digits) - 1)
      number[k \in 0..Len(digits)] ==
        IF k = 0 THEN 0 ELSE 10 * number[k - 1] + DigitValue(digits[k])
      n == number[Len(digits)]
      limit == 2 ^ (2 * Width - 1)
      kept == IF n < limit THEN n ELSE IF minus THEN limit ELSE limit - 1
  IN  [type |-> "uin",
       value |-> Decimal(IF minus THEN (2 * limit - kept) % 2 ^ Width ELSE kept % 2 ^ Width)]

\* A string of VALMAXLEN or more is cut to one less.
String(text, p, q) ==
  [type |-> "str", value |-> SubSeq(text, p, IF q - p + 1 < ValMaxLen THEN q ELSE p + ValMaxLen - 2)]

\* Where a number at p ends: it has one dot at most.
NumberEnd(text, p) ==
  LET q == Past(text, p, Digits)
  IN  IF q <= Len(text) /\ text[q] = "." THEN Past(text, q + 1, Digits) ELSE q

\* strtod: the double stands for its digits.  No digits make a 0.
Double(text, p) ==
  LET digits == SubSeq(text, p, NumberEnd(text, AfterSign(text, p)) - 1)
  IN  [type |-> "num",
       value |-> IF Range(digits) \cap Digits = {} THEN <<"0">> ELSE digits]
-----------------------------------------------------------------------------
(* Translations: what is returned, mod_sql, and the binds by their index *)

Failed == [ret |-> -1, mod |-> <<>>, data |-> <<>>]
Copied(text, p) == [ret |-> 0, mod |-> SubSeq(text, p, Len(text)), data |-> <<>>]

\* text goes before a translation of the rest.
Before(text, rest) == IF rest = Failed THEN Failed ELSE [rest EXCEPT !.mod = text \o @]
BindBefore(text, datum, rest) ==
  IF rest = Failed THEN Failed
  ELSE [rest EXCEPT !.mod = text \o <<":r">> \o @, !.data = <<datum>> \o @]

\* A number in a statement is a literal only if a delimiter comes after it,
\* unlike that of "users.group_id = groups.group_id" or "5+3".  strchr finds the
\* end of the text in end_delim_set, too.
IsValue(text, q) == q = Len(text) + 1 \/ text[q] \in end_delim_set

sql_no_insert_translate(text) ==
  LET rest[p \in 1..(Len(text) + 1)] ==
        LET delim == closest_delim(text, p)
            copied == SubSeq(text, p, delim)
            v == eat_blank(text, delim + 1)
            close == First(text, v + 1, {"'"})
            e == NumberEnd(text, v)
        IN  IF delim = 0 THEN Copied(text, p)
            ELSE IF v <= Len(text) /\ text[v] = "'"
            THEN IF close = 0 THEN Failed
                 ELSE BindBefore(copied, String(text, v + 1, close - 1), rest[close + 1])
            ELSE IF ~IsValue(text, e) THEN Before(copied, rest[v])
            ELSE BindBefore(copied, IF "." \in Range(SubSeq(text, v, e - 1))
                                    THEN Double(text, v) ELSE Integer(text, v), rest[e])
  IN  rest[1]

\* The values of an INSERT lie between the "(" after VALUES and the first ")"
\* after that, and each of them becomes a bind, whatever it is.
sql_insert_translate(text) ==
  LET values == First(text, 1, {"values"})
      paren == First(text, values, {"("})
      delim == First(text, paren + 1, {")"})
      rest[p \in (paren + 1)..delim] ==
        LET comma == First(text, p, {","})
            value_end == IF comma = 0 \/ comma > delim THEN delim ELSE comma
            after == IF value_end = delim THEN Copied(text, delim + 1) ELSE rest[value_end + 1]
            quote == First(text, p, {"'"})
            close == First(text, quote + 1, {"'"})
            b == eat_blank(text, p)
        IN  IF quote \in 1..(value_end - 1)
            THEN IF close \notin 1..(value_end - 1) THEN Failed
                 ELSE BindBefore(<<>>, String(text, quote + 1, close - 1), Before(<<text[value_end]>>, after))
            ELSE BindBefore(<<>>, IF First(text, b, {"."}) \in 1..(value_end - 1)
                                  THEN Double(text, b) ELSE Integer(text, b),
                            Before(<<text[value_end]>>, after))
  IN  IF values = 0 \/ paren = 0 \/ delim = 0 THEN Failed
      ELSE Before(SubSeq(text, 1, paren), rest[paren + 1])

sql_translate(text) ==
  IF text = <<>> THEN Failed
  ELSE IF "insert into" \in Range(text) THEN sql_insert_translate(text)
  ELSE sql_no_insert_translate(text)
-----------------------------------------------------------------------------
(* What a template and its binds mean to the database *)

\* OCI sees a place for a bind only outside the quotes.
Places(mod) ==
  {i \in DOMAIN mod : mod[i] = ":r" /\ Len(SelectSeq(SubSeq(mod, 1, i), LAMBDA c : c = "'")) % 2 = 0}

\* The statement that runs, with its binds in their places.
PutBack(mod, data) ==
  LET literal(k) == IF data[k].type = "str" THEN <<"'">> \o data[k].value \o <<"'">> ELSE data[k].value
  IN  FlattenSeq([i \in DOMAIN mod |->
                    IF i \in Places(mod) THEN literal(Cardinality({j \in Places(mod) : j <= i}))
                                         ELSE <<mod[i]>>])

\* Blanks mean nothing between symbols.
Unspaced(text) == SelectSeq(text, LAMBDA c : c # " ")
=============================================================================
