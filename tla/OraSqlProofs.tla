---------------------------- MODULE OraSqlProofs ----------------------------
(***************************************************************************)
(* What the database executes as a template is the statement asked for: the *)
(* cache, proved in OraSockProofs for any statements, composed with what    *)
(* the parser made of each of them.                                         *)
(***************************************************************************)
EXTENDS OraSql, OraSockProofs

\* What was executed last is a text that was prepared for a statement, and the
\* nodes and it have no template that OCI did not take.
RanInv == /\ DOMAIN query_list \subseteq Accepted
          /\ ran # None => /\ ran.asked \in Statements
                           /\ ran.text \in Texts
                           /\ ran.text[1] = "node" => ran.text[2] \in Accepted

\* A node that serves a statement has a template that OCI took, from that
\* statement or from an earlier one.
LEMMA PrepareAccepted ==
  ASSUME IInv, RanInv, NEW q \in Statements, Prepare(q)
  PROVE  DOMAIN query_list' \subseteq Accepted /\ q.template \in Accepted
<1>1. DOMAIN query_list' = DOMAIN query_list \cup {q.template}
  BY PrepareNodes
<1>2. q.template \in Accepted
  <2>1. CASE FindTemplate(q)
    BY <2>1 DEF FindTemplate, RanInv
  <2>2. CASE AddTemplate(q)
    BY <2>2 DEF AddTemplate, Bindable, Accepted
  <2> QED
    BY <2>1, <2>2 DEF Prepare
<1> QED
  BY <1>1, <1>2 DEF RanInv

\* A call that executes a statement executes what the statement was prepared as.
LEMMA ExecuteRan ==
  ASSUME IInv, RanInv, NEW q \in Statements, Prepare(q) \/ Reprepare(q), Execute(q)
  PROVE  RanInv'
<1>1. ran'.asked = q /\ ran'.text = prepared'[queryHandle']
  BY DEF Execute
<1>2. CASE Prepare(q)
  <2>1. /\ queryHandle' = q.template /\ q.template \in DOMAIN query_list'
        /\ q.template \in Handles
    BY <1>2, PrepareNodes, HandleFacts DEF Prepare
  <2>2. prepared'[q.template] \in Texts
    BY <1>2, <2>1, PrepareInv DEF PreparedInv
  <2>3. prepared'[q.template][1] = "node" => prepared'[q.template][2] = q.template
    BY <1>2, <2>1, <2>2, PrepareInv, HandleFacts DEF PreparedInv
  <2>4. DOMAIN query_list' \subseteq Accepted /\ q.template \in Accepted
    BY <1>2, PrepareAccepted
  <2> QED
    BY <1>1, <2>1, <2>2, <2>3, <2>4 DEF RanInv, Accepted, Texts, Templates
<1>3. CASE Reprepare(q)
  <2>1. prepared \in [Handles -> {None} \cup Texts] /\ queryHandle \in Handles
    BY HandleFacts DEF IInv, OraTypeOK
  <2>2. /\ prepared'[queryHandle'] = <<"direct", q.sql>>
        /\ query_list' = query_list
    BY <1>3, <2>1 DEF Reprepare
  <2>3. ran'.text \in Texts /\ ran'.text[1] # "node"
    BY <1>1, <2>2, HandleFacts
  <2> QED
    BY <1>1, <2>2, <2>3 DEF RanInv, Accepted, Texts, Templates
<1> QED
  BY <1>2, <1>3

\* Every step of the cache, failing or not, keeps what was run and answered.
LEMMA StepRanInv == IInv /\ RanInv /\ [Next]_vars => RanInv'
<1> SUFFICES ASSUME IInv, RanInv, [Next]_vars PROVE RanInv'
  OBVIOUS
<1>1. CASE ran' = ran /\ query_list' \in {query_list, <<>>}
  BY <1>1 DEF RanInv, Accepted, Texts, Templates
<1>2. ASSUME NEW q \in Statements,
             \/ Query(q) \/ SelectQuery(q)
             \/ DirectQuery(q) \/ DirectSelectQuery(q) \/ DirectSelectFails(q)
      PROVE  RanInv'
  <2>1. (Prepare(q) \/ Reprepare(q)) /\ Execute(q)
    BY <1>2 DEF Query, SelectQuery, DirectQuery, DirectSelectQuery, DirectSelectFails
  <2> QED
    BY <2>1, ExecuteRan
<1> QED
  BY <1>1, <1>2
     DEF Next, InitSocket, Close, FetchRow, FinishSelectQuery, DirectFails, vars, sock
-----------------------------------------------------------------------------
\* If every template that OCI takes makes, with the literals of each of its
\* statements, that statement, then whatever statements came before with the
\* same template, direct ones, faults, closes and reconnects, what is executed
\* as a template with the data that are bound at that moment is the statement
\* asked for.
THEOREM ExecutesAsked ==
  ASSUME RoundTrip
  PROVE  Spec => []ExecutesWhatWasAsked
<1>1. Init => RanInv
  BY DEF Init, RanInv
<1>2. IInv /\ RanInv => ExecutesWhatWasAsked
  <2> SUFFICES ASSUME IInv, RanInv, ran # None, ran.text[1] = "node"
               PROVE  Unspaced(PutBack(ran.text[2], ran.bound.data)) = Unspaced(ran.asked.sql)
    BY DEF ExecutesWhatWasAsked
  <2>1. ran.asked \in Statements /\ ran.text \in Texts /\ ran.text[2] \in Accepted
    BY DEF RanInv
  <2>2. ran.text[2] = ran.asked.template /\ ran.bound.data = ran.asked.args
    BY DEF IInv, TemplateRunsAsAsked
  <2>3. ran.asked.template \in Accepted \ {None}
    BY <2>1, <2>2, HandleFacts
  <2>4. Unspaced(PutBack(ran.asked.template, ran.asked.args)) = Unspaced(ran.asked.sql)
    BY <2>1, <2>3 DEF RoundTrip
  <2> QED
    BY <2>2, <2>4
<1> QED
  BY <1>1, <1>2, InitIInv, StepIInv, StepRanInv, PTL DEF Spec
=============================================================================
