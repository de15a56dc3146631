---------------------------- MODULE OraSockProofs ----------------------------
(***************************************************************************)
(* Proofs about OraSock, for any set of statements, finite or not.         *)
(***************************************************************************)
EXTENDS OraSock, TLAPS

\* No handle is ever prepared with the template of another one, and that of a
\* node is prepared.
PreparedInv == /\ \A h \in Handles : \A t \in Templates : prepared[h] = <<"node", t>> => t = h
               /\ \A t \in DOMAIN query_list : prepared[t] \in Texts

\* A node that no direct statement has touched fetches into its own array, if it
\* has one, and a node that serves a select has one.
NodeInv == \A t \in DOMAIN query_list :
             /\ prepared[t] = <<"node", t>> =>
                  defined[t] = IF <<"node", t>> \in arrays THEN <<"node", t>> ELSE None
             /\ \A q \in Statements : q.template = t /\ q.rows => <<"node", t>> \in arrays

\* A template without a node has no array, and its handle is defined to nothing.
ArraysInv == \A t \in Templates \ DOMAIN query_list :
               <<"node", t>> \notin arrays /\ defined[t] = None

\* What is being fetched, between a select and its end.
FetchInv == fetching =>
              /\ open
              /\ results \in arrays
              /\ IF is_direct
                   THEN results = <<"direct", queryHandle>> /\ defined[queryHandle] = results
                   ELSE queryHandle \in DOMAIN query_list /\ results = <<"node", queryHandle>>

\* The types a node is bound with are those of every statement of its template.
TypesInv == TypesFixed =>
              \A t \in DOMAIN query_list : \A q \in Statements :
                q.template = t => query_list[t].types = Types(q.args)

IInv == /\ OraTypeOK /\ PreparedInv /\ NodeInv /\ ArraysInv /\ FetchInv /\ TypesInv
        /\ TemplateRunsAsAsked
-----------------------------------------------------------------------------
\* Templates and the base handle are the handles, and the two are told apart.
LEMMA HandleFacts == /\ Templates \subseteq Handles /\ Base \in Handles
                     /\ Base \notin Templates /\ None \notin Templates /\ None \notin Texts
                     /\ \A t \in Templates : <<"node", t>> \in Texts
                     /\ \A q \in Statements : <<"direct", q.sql>> \in Texts
                     /\ \A x \in Texts : x[1] = "node" => x[2] \in Templates /\ x = <<"node", x[2]>>
                     /\ \A h \in Handles : <<"node", h>> \in Arrays /\ <<"direct", h>> \in Arrays
  BY StatementsAssumption DEF Handles, Templates, Arrays, Texts

\* The strengthened invariant holds before the first call.
LEMMA InitIInv == Init => IInv
<1> SUFFICES ASSUME Init PROVE IInv
  OBVIOUS
<1>1. DOMAIN query_list = {}
  BY DEF Init
<1>2. OraTypeOK
  <2>1. /\ prepared \in [Handles -> {None} \cup Texts]
        /\ defined \in [Handles -> Arrays \cup {None}]
    BY DEF Init
  <2> QED
    BY <1>1, <2>1 DEF Init, OraTypeOK
<1>3. PreparedInv
  BY <1>1, HandleFacts DEF Init, PreparedInv
<1>4. NodeInv /\ ArraysInv /\ TypesInv
  BY <1>1, HandleFacts DEF Init, NodeInv, ArraysInv, TypesInv
<1> QED
  BY <1>2, <1>3, <1>4 DEF Init, IInv, FetchInv, TemplateRunsAsAsked

\* A node carries the types of one statement of its template and the data of
\* another.
LEMMA NodeContents ==
  OraTypeOK => \A t \in DOMAIN query_list :
                 /\ t \in Templates
                 /\ \E a, b \in Statements :
                      /\ a.template = t /\ b.template = t
                      /\ query_list[t] = [types |-> Types(a.args), data |-> b.args]
<1> SUFFICES ASSUME OraTypeOK, NEW t \in DOMAIN query_list
             PROVE  /\ t \in Templates
                    /\ \E a, b \in Statements :
                         /\ a.template = t /\ b.template = t
                         /\ query_list[t] = [types |-> Types(a.args), data |-> b.args]
  OBVIOUS
<1>1. PICK a \in Statements :
        /\ a.template = t
        /\ \E b \in Statements :
             b.template = t /\ query_list[t] = [types |-> Types(a.args), data |-> b.args]
  BY DEF OraTypeOK
<1>2. PICK b \in Statements :
        b.template = t /\ query_list[t] = [types |-> Types(a.args), data |-> b.args]
  BY <1>1
<1>3. t \in Templates
  BY DEF OraTypeOK
<1> QED
  BY <1>1, <1>2, <1>3

\* What finding or adding a template does to the nodes and the arrays.
LEMMA PrepareNodes ==
  ASSUME IInv, NEW q \in Statements, Prepare(q)
  PROVE  /\ q.template \in Templates
         /\ DOMAIN query_list' = DOMAIN query_list \cup {q.template}
         /\ query_list'[q.template].data = q.args
         /\ \A t \in DOMAIN query_list \ {q.template} : query_list'[t] = query_list[t]
         /\ \E r \in Statements : r.template = q.template /\
              query_list'[q.template] = [types |-> Types(r.args), data |-> q.args]
         /\ TypesFixed => query_list'[q.template].types = Types(q.args)
<1>1. CASE FindTemplate(q)
  <2>1. q.template \in DOMAIN query_list
    BY <1>1 DEF FindTemplate
  <2>2. OraTypeOK
    BY DEF IInv
  <2>3. q.template \in Templates
    BY <2>1, <2>2, NodeContents
  <2>4. \E a, b \in Statements :
          /\ a.template = q.template /\ b.template = q.template
          /\ query_list[q.template] = [types |-> Types(a.args), data |-> b.args]
    BY <2>1, <2>2, NodeContents, Zenon
  <2>5. PICK a \in Statements, b \in Statements :
          /\ a.template = q.template /\ b.template = q.template
          /\ query_list[q.template] = [types |-> Types(a.args), data |-> b.args]
    BY <2>4
  <2>6. query_list' = [query_list EXCEPT ![q.template] = [query_list[q.template] EXCEPT !.data = q.args]]
    BY <1>1 DEF FindTemplate
  <2>7. query_list'[q.template] = [types |-> Types(a.args), data |-> q.args]
    BY <2>1, <2>5, <2>6
  <2>8. TypesFixed => Types(a.args) = Types(q.args)
    BY <2>3, <2>5, HandleFacts DEF TypesFixed
  <2> QED
    BY <2>1, <2>3, <2>5, <2>6, <2>7, <2>8
<1>2. CASE AddTemplate(q)
  BY <1>2 DEF AddTemplate
<1> QED
  BY <1>1, <1>2 DEF Prepare

\* The nodes and arrays of the invariant after a statement was prepared.
LEMMA PrepareInv ==
  ASSUME IInv, NEW q \in Statements, Prepare(q)
  PROVE  PreparedInv' /\ NodeInv' /\ ArraysInv' /\ TypesInv'
<1> DEFINE t == q.template
<1>1. PreparedInv'
  BY PrepareNodes, HandleFacts
  DEF PreparedInv, Prepare, FindTemplate, AddTemplate, IInv, OraTypeOK, Templates, Handles
<1>2. NodeInv'
  <2>1. CASE FindTemplate(q)
    BY <2>1, PrepareNodes DEF NodeInv, FindTemplate, IInv
  <2>2. CASE AddTemplate(q)
    <3>1. \A u \in DOMAIN query_list : u # t /\ u \in Handles
      BY <2>2, HandleFacts DEF AddTemplate, IInv, OraTypeOK
    <3>2. <<"node", t>> \in arrays' <=> q.from
      BY <2>2, HandleFacts DEF AddTemplate, IInv, ArraysInv
    <3>3. prepared' = [prepared EXCEPT ![t] = <<"node", t>>] /\ t \in Handles
      BY <2>2, HandleFacts DEF AddTemplate
    <3>4. defined' = IF q.from THEN [defined EXCEPT ![t] = <<"node", t>>] ELSE defined
      BY <2>2 DEF AddTemplate
    <3>5. DOMAIN query_list' = DOMAIN query_list \cup {t}
      BY PrepareNodes
    <3>6. \A u \in DOMAIN query_list : <<"node", u>> \in arrays' <=> <<"node", u>> \in arrays
      BY <2>2, <3>1 DEF AddTemplate
    <3>7. prepared \in [Handles -> {None} \cup Texts]
          /\ defined \in [Handles -> Arrays \cup {None}]
      BY DEF IInv, OraTypeOK
    <3>8. ASSUME NEW u \in DOMAIN query_list'
          PROVE  /\ prepared'[u] = <<"node", u>> =>
                      defined'[u] = IF <<"node", u>> \in arrays' THEN <<"node", u>> ELSE None
                 /\ \A r \in Statements : r.template = u /\ r.rows => <<"node", u>> \in arrays'
      <4>1. CASE u = t
        <5>1. q.from => defined'[t] = <<"node", t>>
          BY <3>3, <3>4, <3>7
        <5>2. ~q.from => defined'[t] = None
          BY <2>2, <3>3, <3>4 DEF AddTemplate, IInv, ArraysInv
        <5>3. \A r \in Statements : r.template = t /\ r.rows => q.from
          BY <2>2, StatementsAssumption, HandleFacts DEF AddTemplate
        <5> QED
          BY <4>1, <5>1, <5>2, <5>3, <3>2
      <4>2. CASE u # t
        <5>1. u \in DOMAIN query_list
          BY <3>5, <4>2
        <5>2. prepared'[u] = prepared[u] /\ defined'[u] = defined[u]
          BY <5>1, <3>1, <3>3, <3>4, <3>7, <4>2
        <5> QED
          BY <5>1, <5>2, <3>6 DEF IInv, NodeInv
      <4> QED
        BY <4>1, <4>2
    <3> QED
      BY <3>8 DEF NodeInv
  <2> QED
    BY <2>1, <2>2 DEF Prepare
<1>3. ArraysInv'
  <2>1. DOMAIN query_list' = DOMAIN query_list \cup {t}
    BY PrepareNodes
  <2>2. CASE FindTemplate(q)
    BY <2>1, <2>2 DEF ArraysInv, FindTemplate, IInv
  <2>3. CASE AddTemplate(q)
    <3> SUFFICES ASSUME NEW u \in Templates \ DOMAIN query_list'
                 PROVE  <<"node", u>> \notin arrays' /\ defined'[u] = None
      BY DEF ArraysInv
    <3>1. u \in Templates \ DOMAIN query_list /\ u # t /\ u \in Handles
      BY <2>1, HandleFacts
    <3>2. <<"node", u>> \notin arrays'
      BY <2>3, <3>1 DEF AddTemplate, IInv, ArraysInv
    <3>3. defined \in [Handles -> Arrays \cup {None}]
      BY DEF IInv, OraTypeOK
    <3>4. defined'[u] = defined[u]
      BY <2>3, <3>1, <3>3 DEF AddTemplate
    <3> QED
      BY <3>1, <3>2, <3>4 DEF IInv, ArraysInv
  <2> QED
    BY <2>2, <2>3 DEF Prepare
<1>4. TypesInv'
  <2> SUFFICES ASSUME TypesFixed', NEW u \in DOMAIN query_list', NEW r \in Statements, r.template = u
               PROVE  query_list'[u].types = Types(r.args)
    BY DEF TypesInv
  <2>1. TypesFixed
    BY DEF TypesFixed
  <2>2. /\ query_list'[t].types = Types(q.args)
        /\ \A v \in DOMAIN query_list \ {t} : query_list'[v] = query_list[v]
        /\ DOMAIN query_list' = DOMAIN query_list \cup {t}
    BY <2>1, PrepareNodes
  <2>3. CASE u = t
    <3>1. Types(q.args) = Types(r.args)
      <4>1. q.template = r.template /\ q.template # None
        BY <2>3, PrepareNodes, HandleFacts
      <4> QED
        BY <2>1, <4>1, Zenon DEF TypesFixed
    <3> QED
      BY <2>2, <2>3, <3>1
  <2>4. CASE u # t
    <3>1. u \in DOMAIN query_list /\ query_list'[u] = query_list[u]
      BY <2>2, <2>4
    <3>2. query_list[u].types = Types(r.args)
      BY <2>1, <3>1 DEF TypesInv, IInv
    <3> QED
      BY <3>1, <3>2, Zenon
  <2> QED
    BY <2>3, <2>4
<1> QED
  BY <1>1, <1>2, <1>3, <1>4

\* The types of the variables after a statement was prepared.
LEMMA PrepareTypes ==
  ASSUME IInv, NEW q \in Statements, Prepare(q),
         open' \in BOOLEAN, fetching' \in BOOLEAN, crashed' \in BOOLEAN, row' = row
  PROVE  OraTypeOK'
<1> DEFINE t == q.template
<1>1. OraTypeOK /\ t \in Templates /\ t \in Handles
  BY PrepareNodes, HandleFacts DEF IInv
<1>2. DOMAIN query_list' = DOMAIN query_list \cup {t}
  BY PrepareNodes
<1>3. ASSUME NEW u \in DOMAIN query_list'
      PROVE  \E a, b \in Statements : /\ a.template = u /\ b.template = u
                                     /\ query_list'[u] = [types |-> Types(a.args), data |-> b.args]
  <2>1. CASE u = t
    BY <2>1, PrepareNodes
  <2>2. CASE u # t
    <3>1. u \in DOMAIN query_list /\ query_list'[u] = query_list[u]
      BY <1>2, <2>2, PrepareNodes
    <3>2. \E a, b \in Statements : /\ a.template = u /\ b.template = u
                                  /\ query_list[u] = [types |-> Types(a.args), data |-> b.args]
      BY <1>1, <3>1, NodeContents, Zenon
    <3> QED
      BY <3>1, <3>2
  <2> QED
    BY <2>1, <2>2
<1>4. /\ prepared' \in [Handles -> {None} \cup Texts]
      /\ defined' \in [Handles -> Arrays \cup {None}]
      /\ arrays' \subseteq Arrays
  <2>1. <<"node", t>> \in Arrays /\ <<"node", t>> \in Texts
    BY <1>1, HandleFacts
  <2>2. CASE FindTemplate(q)
    BY <1>1, <2>2 DEF FindTemplate, OraTypeOK
  <2>3. CASE AddTemplate(q)
    BY <1>1, <2>1, <2>3 DEF AddTemplate, OraTypeOK
  <2> QED
    BY <2>2, <2>3 DEF Prepare
<1>5. /\ queryHandle' \in {Base} \cup DOMAIN query_list'
      /\ results' \in arrays' \cup {None}
      /\ is_direct' \in BOOLEAN
  BY <1>2 DEF Prepare
<1>6. DOMAIN query_list' \subseteq Templates /\ row' \in Arrays \cup {None}
  BY <1>1, <1>2 DEF OraTypeOK
<1> QED
  BY <1>3, <1>4, <1>5, <1>6 DEF OraTypeOK

\* A statement that was prepared runs with its own data and types.
LEMMA PrepareRuns ==
  ASSUME IInv, NEW q \in Statements, Prepare(q), Execute(q)
  PROVE  TemplateRunsAsAsked'
<1>1. /\ queryHandle' = q.template /\ q.template \in Templates
      /\ q.template \in DOMAIN query_list' /\ q.template \in Handles
  BY PrepareNodes, HandleFacts DEF Prepare
<1>2. \A t \in Templates : prepared'[q.template] = <<"node", t>> => t = q.template
  BY <1>1, PrepareInv DEF PreparedInv
<1>6. prepared'[q.template] \in Texts
  BY <1>1, PrepareInv DEF PreparedInv
<1>3. /\ ran'.asked = q /\ ran'.text = prepared'[q.template]
      /\ prepared'[q.template] = <<"node", q.template>> => ran'.bound = query_list'[q.template]
  BY <1>1 DEF Execute
<1>4. /\ query_list'[q.template].data = q.args
      /\ TypesFixed => query_list'[q.template].types = Types(q.args)
  BY PrepareNodes
<1>5. TypesFixed' => TypesFixed
  BY DEF TypesFixed
<1> QED
  <2>1. CASE ran'.text[1] = "node"
    <3>1. ran'.text = <<"node", q.template>>
      BY <1>2, <1>3, <1>6, <2>1, HandleFacts
    <3> QED
      BY <1>3, <1>4, <1>5, <3>1 DEF TemplateRunsAsAsked
  <2>2. CASE ran'.text[1] # "node"
    BY <2>2 DEF TemplateRunsAsAsked
  <2> QED
    BY <2>1, <2>2

\* A direct statement, whether its rows are wanted or not, leaves the nodes as
\* the invariant wants them, since what it prepares is no node's.
LEMMA DirectInv ==
  ASSUME IInv, NEW q \in Statements, Reprepare(q), Execute(q),
         NEW a \in Arrays \cup {None}, defined' = [defined EXCEPT ![queryHandle] = a],
         \A h \in Handles : <<"node", h>> \in arrays' <=> <<"node", h>> \in arrays
  PROVE  /\ PreparedInv' /\ NodeInv' /\ ArraysInv' /\ TypesInv' /\ TemplateRunsAsAsked'
         /\ prepared' \in [Handles -> {None} \cup Texts]
         /\ defined' \in [Handles -> Arrays \cup {None}]
         /\ is_direct' = TRUE /\ query_list' = query_list /\ queryHandle' = queryHandle
<1>1. /\ <<"direct", q.sql>> \in Texts /\ queryHandle \in Handles
      /\ prepared' = [prepared EXCEPT ![queryHandle] = <<"direct", q.sql>>]
      /\ is_direct' = TRUE /\ query_list' = query_list /\ queryHandle' = queryHandle
      /\ DOMAIN query_list \subseteq Templates
  BY HandleFacts DEF Reprepare, IInv, OraTypeOK
<1>2. /\ prepared \in [Handles -> {None} \cup Texts]
      /\ defined \in [Handles -> Arrays \cup {None}]
  BY DEF IInv, OraTypeOK
<1>3. /\ prepared' \in [Handles -> {None} \cup Texts]
      /\ defined' \in [Handles -> Arrays \cup {None}]
  BY <1>1, <1>2
<1>4. PreparedInv'
  BY <1>1, <1>2 DEF PreparedInv, IInv
<1>5. NodeInv'
  <2> SUFFICES ASSUME NEW u \in DOMAIN query_list
               PROVE  /\ prepared'[u] = <<"node", u>> =>
                           defined'[u] = IF <<"node", u>> \in arrays' THEN <<"node", u>> ELSE None
                      /\ \A r \in Statements : r.template = u /\ r.rows => <<"node", u>> \in arrays'
    BY <1>1 DEF NodeInv
  <2>1. u \in Templates /\ u \in Handles
    BY <1>1, HandleFacts
  <2>2. prepared'[u] = <<"node", u>> => u # queryHandle
    BY <1>1, <1>2, <2>1
  <2>3. u # queryHandle => prepared'[u] = prepared[u] /\ defined'[u] = defined[u]
    BY <1>1, <1>2, <2>1
  <2> QED
    BY <2>1, <2>2, <2>3 DEF IInv, NodeInv
<1>6. ArraysInv'
  <2> SUFFICES ASSUME NEW u \in Templates \ DOMAIN query_list
               PROVE  <<"node", u>> \notin arrays' /\ defined'[u] = None
    BY <1>1 DEF ArraysInv
  <2>1. u \in Handles /\ u # queryHandle
    BY HandleFacts DEF IInv, OraTypeOK
  <2>2. defined'[u] = defined[u]
    BY <1>2, <2>1
  <2> QED
    BY <2>1, <2>2 DEF IInv, ArraysInv
<1>7. TypesInv'
  BY <1>1 DEF TypesInv, TypesFixed, IInv
<1>8. ran'.text = <<"direct", q.sql>>
  BY <1>1, <1>2 DEF Execute
<1> QED
  BY <1>1, <1>3, <1>4, <1>5, <1>6, <1>7, <1>8 DEF TemplateRunsAsAsked
-----------------------------------------------------------------------------
\* Every call keeps the invariant.
LEMMA StepIInv == IInv /\ [Next]_vars => IInv'
<1> SUFFICES ASSUME IInv, [Next]_vars PROVE IInv'
  OBVIOUS
<1>1. CASE InitSocket
  <2>1. DOMAIN query_list' = {}
    BY <1>1 DEF InitSocket
  <2>2. /\ prepared' \in [Handles -> {None} \cup Texts]
        /\ defined' \in [Handles -> Arrays \cup {None}]
    BY <1>1 DEF InitSocket
  <2>3. OraTypeOK'
    BY <1>1, <2>1, <2>2 DEF InitSocket, IInv, OraTypeOK
  <2>4. PreparedInv'
    BY <1>1, <2>1, HandleFacts DEF InitSocket, PreparedInv
  <2>5. NodeInv' /\ ArraysInv' /\ TypesInv'
    BY <1>1, <2>1, HandleFacts DEF InitSocket, NodeInv, ArraysInv, TypesInv
  <2>6. FetchInv' /\ TemplateRunsAsAsked'
    BY <1>1 DEF InitSocket, IInv, FetchInv, TemplateRunsAsAsked, TypesFixed
  <2> QED
    BY <2>3, <2>4, <2>5, <2>6 DEF IInv
<1>2. CASE Close
  <2>1. UNCHANGED <<sock, fetching, row, ran>> /\ open' \in BOOLEAN /\ ~fetching
    BY <1>2 DEF Close
  <2>2. crashed' \in BOOLEAN
    <3>1. crashed' = (queryHandle \in DOMAIN query_list)
      BY <1>2, Zenon DEF Close
    <3>2. CASE queryHandle \in DOMAIN query_list
      <4>1. (queryHandle \in DOMAIN query_list) = TRUE
        BY <3>2
      <4> QED
        BY <3>1, <4>1, Zenon
    <3>3. CASE queryHandle \notin DOMAIN query_list
      <4>1. (queryHandle \in DOMAIN query_list) = FALSE
        BY <3>3
      <4> QED
        BY <3>1, <4>1, Zenon
    <3> QED
      BY <3>2, <3>3
  <2> QED
    BY <2>1, <2>2 DEF IInv, OraTypeOK, PreparedInv, NodeInv, ArraysInv, FetchInv, TypesInv,
                TemplateRunsAsAsked, TypesFixed, sock
<1>3. CASE FetchRow
  <2>1. UNCHANGED <<open, sock, fetching, ran, crashed>> /\ row' \in Arrays \cup {None}
    BY <1>3 DEF FetchRow, IInv, OraTypeOK
  <2> QED
    BY <2>1 DEF IInv, OraTypeOK, PreparedInv, NodeInv, ArraysInv, FetchInv, TypesInv,
                TemplateRunsAsAsked, TypesFixed, sock
<1>4. CASE FinishSelectQuery
  <2>1. UNCHANGED <<open, query_list, prepared, defined, queryHandle, is_direct, row, ran, crashed>>
        /\ fetching' = FALSE
    BY <1>4 DEF FinishSelectQuery
  <2>2. /\ arrays' \subseteq Arrays
        /\ results' \in arrays' \cup {None}
    BY <1>4 DEF FinishSelectQuery, IInv, OraTypeOK
  <2>3. \A h \in Handles : <<"node", h>> \in arrays' <=> <<"node", h>> \in arrays
    BY <1>4 DEF FinishSelectQuery, IInv, FetchInv
  <2>4. OraTypeOK'
    <3>1. OraTypeOK
      BY DEF IInv
    <3>2. fetching' \in BOOLEAN
      BY <2>1
    <3> QED
      BY <2>1, <2>2, <3>1, <3>2 DEF OraTypeOK
  <2>5. PreparedInv' /\ FetchInv' /\ TypesInv' /\ TemplateRunsAsAsked'
    BY <2>1 DEF IInv, PreparedInv, FetchInv, TypesInv, TemplateRunsAsAsked, TypesFixed
  <2>6. DOMAIN query_list \subseteq Handles /\ Templates \subseteq Handles
    BY HandleFacts DEF IInv, OraTypeOK
  <2>7. NodeInv' /\ ArraysInv'
    BY <2>1, <2>3, <2>6 DEF IInv, NodeInv, ArraysInv
  <2> QED
    BY <2>4, <2>5, <2>7 DEF IInv
<1>5. ASSUME NEW q \in Statements, Query(q) PROVE IInv'
  <2>1. Prepare(q) /\ Execute(q) /\ UNCHANGED <<open, fetching, row, crashed>> /\ ~fetching
    BY <1>5 DEF Query
  <2>2. OraTypeOK'
    BY <2>1, PrepareTypes DEF IInv, OraTypeOK
  <2> QED
    BY <2>1, <2>2, PrepareInv, PrepareRuns DEF IInv, FetchInv
<1>6. ASSUME NEW q \in Statements, SelectQuery(q) PROVE IInv'
  <2>1. Prepare(q) /\ Execute(q) /\ UNCHANGED <<open, row, crashed>> /\ q.rows /\ open
        /\ fetching' \in BOOLEAN
    BY <1>6 DEF SelectQuery
  <2>2. OraTypeOK'
    BY <2>1, PrepareTypes DEF IInv, OraTypeOK
  <2>3. q.template \in DOMAIN query_list' /\ <<"node", q.template>> \in arrays'
    BY <2>1, PrepareNodes, PrepareInv DEF NodeInv
  <2>4. FetchInv'
    BY <2>1, <2>3 DEF FetchInv, Prepare
  <2> QED
    BY <2>1, <2>2, <2>4, PrepareInv, PrepareRuns DEF IInv
<1>7. ASSUME NEW q \in Statements, DirectQuery(q) \/ DirectSelectFails(q) PROVE IInv'
  <2>1. /\ Reprepare(q) /\ Execute(q) /\ defined' = [defined EXCEPT ![queryHandle] = None]
        /\ UNCHANGED <<open, arrays, results, fetching, row, crashed>> /\ ~fetching
    BY <1>7 DEF DirectQuery, DirectSelectFails
  <2>2. /\ PreparedInv' /\ NodeInv' /\ ArraysInv' /\ TypesInv' /\ TemplateRunsAsAsked'
        /\ prepared' \in [Handles -> {None} \cup Texts]
        /\ defined' \in [Handles -> Arrays \cup {None}]
        /\ is_direct' = TRUE /\ query_list' = query_list /\ queryHandle' = queryHandle
    BY <2>1, DirectInv
  <2>3. OraTypeOK'
    BY <2>1, <2>2 DEF IInv, OraTypeOK
  <2> QED
    BY <2>1, <2>2, <2>3 DEF IInv, FetchInv
<1>8. ASSUME NEW q \in Statements, DirectSelectQuery(q) PROVE IInv'
  <2> DEFINE a == <<"direct", queryHandle>>
  <2>1. /\ Reprepare(q) /\ Execute(q) /\ defined' = [defined EXCEPT ![queryHandle] = a]
        /\ arrays' = arrays \cup {a} /\ results' = a /\ fetching' = TRUE
        /\ UNCHANGED <<open, row, crashed>> /\ open
    BY <1>8 DEF DirectSelectQuery
  <2>2. queryHandle \in Handles /\ a \in Arrays
    BY HandleFacts DEF IInv, OraTypeOK
  <2>3. \A h \in Handles : <<"node", h>> \in arrays' <=> <<"node", h>> \in arrays
    BY <2>1
  <2>4. /\ PreparedInv' /\ NodeInv' /\ ArraysInv' /\ TypesInv' /\ TemplateRunsAsAsked'
        /\ prepared' \in [Handles -> {None} \cup Texts]
        /\ defined' \in [Handles -> Arrays \cup {None}]
        /\ is_direct' = TRUE /\ query_list' = query_list /\ queryHandle' = queryHandle
    BY <2>1, <2>2, <2>3, DirectInv
  <2>5. OraTypeOK'
    BY <2>1, <2>2, <2>4 DEF IInv, OraTypeOK
  <2>6. defined'[queryHandle] = a
    BY <2>1, <2>2 DEF IInv, OraTypeOK
  <2>7. FetchInv'
    BY <2>1, <2>4, <2>6 DEF FetchInv
  <2> QED
    BY <2>4, <2>5, <2>7 DEF IInv
<1>9. ASSUME NEW q \in Statements, DirectFails(q) PROVE IInv'
  <2>1. UNCHANGED <<open, query_list, prepared, defined, arrays, queryHandle, results, fetching,
                    row, ran, crashed>>
        /\ is_direct' = TRUE /\ ~fetching
    BY <1>9 DEF DirectFails
  <2> QED
    BY <2>1 DEF IInv, OraTypeOK, PreparedInv, NodeInv, ArraysInv, FetchInv, TypesInv,
                TemplateRunsAsAsked, TypesFixed
<1>10. CASE UNCHANGED vars
  BY <1>10 DEF vars, sock, IInv, OraTypeOK, PreparedInv, NodeInv, ArraysInv, FetchInv, TypesInv,
               TemplateRunsAsAsked, TypesFixed
<1> QED
  BY <1>1, <1>2, <1>3, <1>4, <1>5, <1>6, <1>7, <1>8, <1>9, <1>10 DEF Next

\* The variables keep their types, and no node holds a type or a datum that did
\* not come from a statement of its template.
THEOREM TypeCorrect == Spec => []OraTypeOK
<1>1. IInv => OraTypeOK
  BY DEF IInv
<1> QED
  BY <1>1, InitIInv, StepIInv, PTL DEF Spec

\* A template that sql_query_exec or sql_select_query_exec executes is that of
\* the statement asked for, with the data of that statement, however many
\* statements, direct ones, failures, closes and reconnects came before.
THEOREM TemplateRuns == Spec => []TemplateRunsAsAsked
<1>1. IInv => TemplateRunsAsAsked
  BY DEF IInv
<1> QED
  BY <1>1, InitIInv, StepIInv, PTL DEF Spec

\* sql_fetch_row reads the array the rows go to, and that array is allocated.
THEOREM RowsFetched == Spec => []RowsWhereFetched
<1>1. IInv => RowsWhereFetched
  BY DEF IInv, RowsWhereFetched, FetchInv, NodeInv
<1> QED
  BY <1>1, InitIInv, StepIInv, PTL DEF Spec
-----------------------------------------------------------------------------
\* sql_prepare never fails for any of the statements: sql_translate makes a
\* template of each, OCI finds a place for each of its binds, and its calls
\* return 0.
AllPrepared == /\ \A q \in Statements : q.template # None /\ q.binds
               /\ "prepare" \notin Faults

\* Then no statement is executed directly.
LEMMA NoDirectStatement ==
  ASSUME AllPrepared, NEW q \in Statements
  PROVE  ~NotPrepared(q)
  BY DEF AllPrepared, NotPrepared, Bindable

\* A call that finds or adds its template leaves the handles of the nodes as
\* they were, and prepares that of a new node with its template.
LEMMA PrepareForItsSQL ==
  ASSUME IInv, NEW q \in Statements, Prepare(q),
         \A t \in DOMAIN query_list : prepared[t] = <<"node", t>>
  PROVE  \A t \in DOMAIN query_list' : prepared'[t] = <<"node", t>>
<1>1. DOMAIN query_list' = DOMAIN query_list \cup {q.template} /\ q.template \in Handles
  BY PrepareNodes, HandleFacts
<1>2. /\ prepared \in [Handles -> {None} \cup Texts]
      /\ DOMAIN query_list \subseteq Handles
  BY HandleFacts DEF IInv, OraTypeOK
<1>3. CASE FindTemplate(q)
  BY <1>1, <1>3 DEF FindTemplate
<1>4. CASE AddTemplate(q)
  BY <1>1, <1>2, <1>4 DEF AddTemplate
<1> QED
  BY <1>3, <1>4 DEF Prepare

\* The handle of a node stays prepared with the template of the node, through
\* any calls, other faults, closes and reconnects, as long as no statement is
\* executed directly: a direct statement takes the handle of the node that was
\* used last, and is the only call that does.
THEOREM StatementKept ==
  ASSUME AllPrepared
  PROVE  Spec => []StatementForItsSQL
<1> DEFINE Kept == \A t \in DOMAIN query_list : prepared[t] = <<"node", t>>
<1>1. Init => Kept
  BY DEF Init
<1>2. IInv /\ Kept /\ [Next]_vars => Kept'
  <2> SUFFICES ASSUME IInv, Kept, [Next]_vars PROVE Kept'
    OBVIOUS
  <2>1. CASE InitSocket
    BY <2>1 DEF InitSocket
  <2>2. ASSUME NEW q \in Statements, Query(q) \/ SelectQuery(q) PROVE Kept'
    <3>1. Prepare(q)
      BY <2>2 DEF Query, SelectQuery
    <3> QED
      BY <3>1, PrepareForItsSQL
  <2>3. ASSUME NEW q \in Statements,
               DirectQuery(q) \/ DirectSelectQuery(q) \/ DirectSelectFails(q) \/ DirectFails(q)
        PROVE  FALSE
    BY <2>3, NoDirectStatement DEF DirectQuery, DirectSelectQuery, DirectSelectFails, DirectFails
  <2>4. CASE UNCHANGED <<query_list, prepared>>
    BY <2>4
  <2>5. Close \/ FetchRow \/ FinishSelectQuery \/ UNCHANGED vars => UNCHANGED <<query_list, prepared>>
    BY DEF Close, FetchRow, FinishSelectQuery, vars, sock
  <2> QED
    BY <2>1, <2>2, <2>3, <2>4, <2>5 DEF Next
<1>3. Kept => StatementForItsSQL
  BY DEF StatementForItsSQL
<1> QED
  BY <1>1, <1>2, <1>3, InitIInv, StepIInv, PTL DEF Spec
=============================================================================
