--------------------------- MODULE MemoryRequests ---------------------------
(***************************************************************************)
(* What a request to the agent memory asks for, and what it does to the    *)
(* table when nothing disturbs it: the SQL statements of MemoryStore and   *)
(* the decisions of the server's _dispatch, as operators on a table.       *)
(***************************************************************************)
EXTENDS Naturals

CONSTANTS
  Ids,        \* the UUIDs that gen_random_uuid may return
  Users,      \* the accounts of the host; a namespace is user:<sid>
  Texts,      \* contents of a record
  NoId,       \* the path names a collection only
  NoRow,
  Menu        \* the requests a workload may make

Collections == {"episodes", "memories"}
Keys == Collections \X Ids
Row == [owner : Users, text : Texts]
Table == [Keys -> Row \cup {NoRow}]

(* A body is one that arrives too slowly, is not valid, passes the checks  *)
(* but cannot be stored by Postgres, or is the new content of a record.    *)
Bodies == Texts \cup {"stalled", "malformed", "unstorable"}
Request == [ method : {"GET", "POST", "PUT", "DELETE"}, collection : Collections,
             id : Ids \cup {NoId}, body : Bodies, run : Nat ]

ASSUME MenuAssumption == Menu \subseteq Request
ASSUME NamesAssumption == NoRow \notin Row /\ NoId \notin Ids
ASSUME TextsAssumption == Texts \cap {"stalled", "malformed", "unstorable"} = {}

AllowedMethods(q) ==
  IF q.id = NoId THEN {"POST"}
  ELSE IF q.collection = "episodes" THEN {"GET", "DELETE"}
  ELSE {"GET", "PUT", "DELETE"}

ReadsBody(q) == q.method \in {"POST", "PUT"}

(* The checks in their order; 0 lets the request reach the database.       *)
RefusalStatus(q, authentic) ==
  IF ~authentic THEN 401
  ELSE IF q.method \notin AllowedMethods(q) THEN 405
  ELSE IF ReadsBody(q) /\ q.body = "stalled" THEN 408
  ELSE IF ReadsBody(q) /\ q.body = "malformed" THEN 422
  ELSE 0

(* Mutation: the identifier alone selects the row.                         *)
SelectedById(table, key, user) == table[key]

(* WHERE id = %s AND namespace = %s                                        *)
Selected(table, key, user) ==
  IF table[key] # NoRow /\ table[key].owner = user THEN table[key] ELSE NoRow

(* Mutation: an update inserts the record that it does not find.           *)
Upserts(table, q, key, user) ==
  \/ q.method \in {"POST", "PUT"}
  \/ q.method = "DELETE" /\ Selected(table, key, user) # NoRow

Writes(table, q, key, user) ==
  \/ q.method = "POST"
  \/ q.method \in {"PUT", "DELETE"} /\ Selected(table, key, user) # NoRow

(* What a writing statement makes of its row.                              *)
Written(q, user) ==
  IF q.method = "DELETE" THEN NoRow ELSE [owner |-> user, text |-> q.body]

Effect(table, q, key, user) ==
  IF Writes(table, q, key, user) THEN [table EXCEPT ![key] = Written(q, user)] ELSE table

Outcome == [status : {0, 200, 201, 204, 401, 404, 405, 408, 422, 503}, row : Row \cup {NoRow}]
Nothing == [status |-> 0, row |-> NoRow]
Bare(status) == [status |-> status, row |-> NoRow]

(* RETURNING gives the row as written; the row of a DELETE is not sent.    *)
Result(table, q, key, user) ==
  IF q.method = "POST" THEN [status |-> 201, row |-> Written(q, user)]
  ELSE IF Selected(table, key, user) = NoRow THEN Bare(404)
  ELSE CASE q.method = "GET" -> [status |-> 200, row |-> Selected(table, key, user)]
         [] q.method = "PUT" -> [status |-> 200, row |-> Written(q, user)]
         [] q.method = "DELETE" -> Bare(204)

=============================================================================
