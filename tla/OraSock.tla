------------------------------- MODULE OraSock -------------------------------
(***************************************************************************)
(* The statement cache of one socket of ora/sql.c.  A statement whose       *)
(* literals sql_translate can replace by binds is prepared once, kept in    *)
(* query_list under its template, and found there by the next statement     *)
(* with that template, which only writes its literals into the bound        *)
(* buffers; any other statement is executed directly.                       *)
(*                                                                         *)
(* A socket serves one thread, so each call is one step.  The callers are  *)
(* not in the repository: they are taken to fetch rows only after a select *)
(* that returned 0, and then to end it with sql_finish_select_query.       *)
(***************************************************************************)
EXTENDS Naturals, Sequences

CONSTANTS Statements,  \* records of sql, template (or None), args, binds (does OCI
                     \* find a place for each of args in the template),
                     \* from (does "from" occur in it) and rows (is it a select)
          Faults,      \* the calls to OCI that may fail: some of the set below
          Base,        \* the statement handle of sql_init_socket
          None         \* a NULL pointer, a text that is not there

Templates == {q.template : q \in Statements} \ {None}

\* What a handle is prepared with: a template with its binds, or a statement as
\* it is, which may be the same text if there are no literals in it.
Texts == ({"node"} \X Templates) \cup ({"direct"} \X {q.sql : q \in Statements})

ASSUME FaultsAssumption ==
  Faults \subseteq {"prepare",    \* any of those of sql_prepare
                    "reprepare",  \* OCIStmtPrepare of a direct statement
                    "execute",    \* OCIStmtExecute
                    "columns"}    \* sql_num_fields, OCIParamGet, OCIAttrGet, OCIDefineByPos

\* A template keeps the words of its statement, "from" included.
ASSUME StatementsAssumption ==
  /\ \A q \in Statements : DOMAIN q = {"sql", "template", "args", "binds", "from", "rows"}
  /\ \A q \in Statements : \A i \in DOMAIN q.args : DOMAIN q.args[i] = {"type", "value"}
  /\ \A q, r \in Statements : q.rows /\ r.template = q.template /\ q.template # None => r.from
  /\ Base \notin Templates /\ None \notin Texts

\* OCI statement handles: the one of sql_init_socket, and the stmt of each node
\* of query_list, which is known by its template.
Handles == {Base} \cup Templates

\* Arrays for rows: one a node keeps, and one a direct select makes.
Arrays == ({"node"} \cup {"direct"}) \X Handles

VARIABLES open,         \* whether sqlsocket->conn is there
          query_list,   \* template -> the bound types and the data of its node
          prepared,     \* handle -> what it is prepared with, or None
          defined,      \* handle -> the array its rows are fetched into
          arrays,       \* the arrays that are allocated
          queryHandle,  \* a handle
          results,      \* an array, or None
          is_direct,
          fetching,     \* whether the caller is fetching the rows of a select
          row,          \* sqlsocket->row
          ran,          \* history: what was asked for, and what was executed
          crashed       \* whether a handle was freed twice

sock == <<query_list, prepared, defined, arrays, queryHandle, results, is_direct>>
vars == <<open, sock, fetching, row, ran, crashed>>

Types(args) == [i \in DOMAIN args |-> args[i].type]

Init == /\ open = FALSE
        /\ query_list = <<>>
        /\ prepared = [h \in Handles |-> None]
        /\ defined = [h \in Handles |-> None]
        /\ arrays = {}
        /\ queryHandle = Base
        /\ results = None
        /\ is_direct = FALSE
        /\ fetching = FALSE
        /\ row = None
        /\ ran = None
        /\ crashed = FALSE

\* sql_init_socket returns 0.  When it fails, it takes back what it did.
InitSocket == /\ ~open
              /\ open' = TRUE
              /\ query_list' = <<>>
              /\ prepared' = [h \in Handles |-> None]
              /\ defined' = [h \in Handles |-> None]
              /\ arrays' = {}
              /\ queryHandle' = Base
              /\ results' = None
              /\ is_direct' = FALSE
              /\ UNCHANGED <<fetching, row, ran, crashed>>

\* sql_close frees the stmt of every node and then queryHandle, which is one of
\* them as soon as a statement came from query_list.
Close == /\ open /\ ~fetching
         /\ open' = FALSE
         /\ crashed' = (queryHandle \in DOMAIN query_list)
         /\ UNCHANGED <<sock, fetching, row, ran>>
-----------------------------------------------------------------------------
(* sql_prepare_query *)

\* Mutant of FindTemplate: the data stay those of an earlier statement.
FindTemplateOldData(q) == /\ q.template \in DOMAIN query_list
                          /\ UNCHANGED <<query_list, prepared, defined, arrays>>

\* The template is in query_list: its node gets the data of q, whatever types
\* it was bound with.
FindTemplate(q) == /\ q.template \in DOMAIN query_list
                   /\ query_list' = [query_list EXCEPT ![q.template].data = q.args]
                   /\ UNCHANGED <<prepared, defined, arrays>>

\* Mutant of Bindable: sql_prepare does not look at what OCIBindByPos returns.
BindableAlways(q) == TRUE

\* OCIBindByPos returns 0 for each of the binds.
Bindable(q) == q.binds

\* sql_prepare adds a node that is prepared, bound, and, if get_fields_num finds
\* "from" in the statement, defined to an array of its own.
AddTemplate(q) ==
  LET t == q.template IN
  /\ t \in Templates \ DOMAIN query_list
  /\ Bindable(q)
  /\ query_list' = [u \in DOMAIN query_list \cup {t} |->
                      IF u = t THEN [types |-> Types(q.args), data |-> q.args] ELSE query_list[u]]
  /\ prepared' = [prepared EXCEPT ![t] = <<"node", t>>]
  /\ IF q.from
     THEN defined' = [defined EXCEPT ![t] = <<"node", t>>] /\ arrays' = arrays \cup {<<"node", t>>}
     ELSE UNCHANGED <<defined, arrays>>

\* Mutant of Prepare: the results stay those of an earlier statement.
PrepareKeepsResults(q) == /\ FindTemplate(q) \/ AddTemplate(q)
                          /\ queryHandle' = q.template
                          /\ is_direct' = FALSE
                          /\ UNCHANGED results

\* It returns 0: the node is the current statement.
Prepare(q) == /\ FindTemplate(q) \/ AddTemplate(q)
              /\ queryHandle' = q.template
              /\ results' = IF <<"node", q.template>> \in arrays' THEN <<"node", q.template>> ELSE None
              /\ is_direct' = FALSE

\* It returns 1.
NotPrepared(q) == \/ q.template = None
                  \/ q.template \notin DOMAIN query_list /\ (~Bindable(q) \/ "prepare" \in Faults)

\* A direct statement takes the place of what queryHandle was prepared with, and
\* OCI drops the binds and defines of that.
Reprepare(q) == /\ prepared' = [prepared EXCEPT ![queryHandle] = <<"direct", q.sql>>]
                /\ is_direct' = TRUE
                /\ UNCHANGED <<query_list, queryHandle>>

\* OCIStmtExecute gets the text of queryHandle, and the data of its node if that
\* is what it is prepared with.
Execute(q) ==
  ran' = [asked |-> q, text |-> prepared'[queryHandle'],
          bound |-> IF prepared'[queryHandle'] = <<"node", queryHandle'>>
                    THEN query_list'[queryHandle'] ELSE None]
-----------------------------------------------------------------------------
(* The calls *)

\* sql_query, and sql_query_exec with any outcome.
Query(q) == /\ open /\ ~fetching /\ ~q.rows
            /\ Prepare(q)
            /\ Execute(q)
            /\ UNCHANGED <<open, fetching, row, crashed>>

\* sql_query with sql_direct_query.
DirectQuery(q) ==
  /\ open /\ ~fetching /\ ~q.rows
  /\ NotPrepared(q)
  /\ Reprepare(q)
  /\ defined' = [defined EXCEPT ![queryHandle] = None]
  /\ Execute(q)
  /\ UNCHANGED <<open, arrays, results, fetching, row, crashed>>

\* sql_select_query returns 0, or fails in OCIStmtExecute.
SelectQuery(q) == /\ open /\ ~fetching /\ q.rows
                  /\ Prepare(q)
                  /\ Execute(q)
                  /\ fetching' \in {TRUE} \cup {FALSE : f \in Faults \cap {"execute"}}
                  /\ UNCHANGED <<open, row, crashed>>

\* sql_select_query with sql_direct_select_query, which does not look at what
\* sql_select_query_exec returns.
DirectSelectQuery(q) ==
  /\ open /\ ~fetching /\ q.rows
  /\ NotPrepared(q)
  /\ Reprepare(q)
  /\ defined' = [defined EXCEPT ![queryHandle] = <<"direct", queryHandle>>]
  /\ arrays' = arrays \cup {<<"direct", queryHandle>>}
  /\ results' = <<"direct", queryHandle>>
  /\ Execute(q)
  /\ fetching' = TRUE
  /\ UNCHANGED <<open, row, crashed>>

\* The same, given up at one of its columns: the new array is forgotten.
DirectSelectFails(q) ==
  /\ open /\ ~fetching /\ q.rows
  /\ "columns" \in Faults
  /\ NotPrepared(q)
  /\ Reprepare(q)
  /\ defined' = [defined EXCEPT ![queryHandle] = None]
  /\ Execute(q)
  /\ UNCHANGED <<open, arrays, results, fetching, row, crashed>>

\* sql_direct_query and sql_direct_select_query fail in OCIStmtPrepare.
DirectFails(q) == /\ open /\ ~fetching
                  /\ "reprepare" \in Faults
                  /\ NotPrepared(q)
                  /\ is_direct' = TRUE
                  /\ UNCHANGED <<open, query_list, prepared, defined, arrays, queryHandle,
                                 results, fetching, row, ran, crashed>>

\* sql_fetch_row: a row, or no more.
FetchRow == /\ fetching
            /\ row' \in {results, None}
            /\ UNCHANGED <<open, sock, fetching, ran, crashed>>

\* Mutant of FinishSelectQuery: the pointer to the freed array stays.
FinishKeepsResults ==
  /\ fetching
  /\ fetching' = FALSE
  /\ arrays' = IF is_direct THEN arrays \ {results} ELSE arrays
  /\ UNCHANGED <<open, query_list, prepared, defined, queryHandle, results, is_direct, row, ran, crashed>>

\* sql_finish_select_query frees the array of a direct select only.
FinishSelectQuery ==
  /\ fetching
  /\ fetching' = FALSE
  /\ IF is_direct THEN arrays' = arrays \ {results} /\ results' = None
                  ELSE UNCHANGED <<arrays, results>>
  /\ UNCHANGED <<open, query_list, prepared, defined, queryHandle, is_direct, row, ran, crashed>>

Next == /\ ~crashed
        /\ \/ InitSocket \/ Close \/ FetchRow \/ FinishSelectQuery
           \/ \E q \in Statements : \/ Query(q) \/ DirectQuery(q) \/ SelectQuery(q)
                                    \/ DirectSelectQuery(q) \/ DirectSelectFails(q)
                                    \/ DirectFails(q)

Spec == Init /\ [][Next]_vars
-----------------------------------------------------------------------------
(* Properties *)

OraTypeOK ==
  /\ open \in BOOLEAN /\ is_direct \in BOOLEAN /\ fetching \in BOOLEAN /\ crashed \in BOOLEAN
  /\ DOMAIN query_list \subseteq Templates
  /\ \A t \in DOMAIN query_list :
       \E q \in Statements : q.template = t /\ \E r \in Statements :
         r.template = t /\ query_list[t] = [types |-> Types(q.args), data |-> r.args]
  /\ prepared \in [Handles -> {None} \cup Texts]
  /\ defined \in [Handles -> Arrays \cup {None}]
  /\ arrays \subseteq Arrays
  /\ queryHandle \in {Base} \cup DOMAIN query_list
  /\ results \in arrays \cup {None}
  /\ row \in Arrays \cup {None}

\* Whether equal templates always come with binds of the same types, which
\* query_list does not look at.
TypesFixed ==
  \A q, r \in Statements :
    q.template = r.template /\ q.template # None => Types(q.args) = Types(r.args)

\* A template that is executed is the template of the statement asked for, with
\* its data and not those of an earlier statement, and, where templates have
\* fixed types, bound with its types.
TemplateRunsAsAsked ==
  ran # None /\ ran.text[1] = "node" =>
    /\ ran.text[2] = ran.asked.template
    /\ ran.bound.data = ran.asked.args
    /\ TypesFixed => ran.bound.types = Types(ran.asked.args)

\* Rows are fetched into the array that sql_fetch_row returns, and it was not
\* freed at the end of an earlier select, unless a direct statement has taken
\* the handle of a node meanwhile.
RowsWhereFetched ==
  fetching /\ (is_direct \/ prepared[queryHandle] = <<"node", queryHandle>>) =>
    results \in arrays /\ defined[queryHandle] = results

\* "Each statement for each SQL": the handle of a node stays prepared with the
\* template of the node.
StatementForItsSQL == open => \A t \in DOMAIN query_list : prepared[t] = <<"node", t>>
=============================================================================
