------------------------- MODULE AgentMemoryProofs -------------------------
(***************************************************************************)
(* Theorems about AgentMemory for all accounts, requests, runs and numbers *)
(* of failures: separation of the namespaces, and that the server with its *)
(* concurrent transactions implements the atomic MemoryService.            *)
(***************************************************************************)
EXTENDS AgentMemory, TLAPS

(* A slot is empty until its request arrives and holds that request then.  *)
SlotInv ==
  \A r \in Requests :
    /\ phase[r] = "idle" <=> request[r] = {}
    /\ \A p, q \in request[r] : p = q
    /\ phase[r] = "done" <=> reply[r] # Nothing
    /\ phase[r] = "settled" => result[r] # Nothing
    /\ phase[r] = "idle" => result[r] = Nothing

(* What reaches the database can be stored.                                *)
Accepted(q) ==
  /\ q.method \in AllowedMethods(q)
  /\ ReadsBody(q) => q.body \in Texts

(* What a transaction has found holds until it commits.                    *)
Pending(r, q) ==
  /\ q.run = run /\ Accepted(q)
  /\ key[r] \in Keys /\ key[r][2] \in issued
  /\ Writes(rows, q, key[r], UserOf[run])
  /\ IF q.id = NoId THEN rows[key[r]] = NoRow /\ key[r][1] = q.collection
     ELSE key[r] = <<q.collection, q.id>>
  /\ result[r] = Result(rows, q, key[r], UserOf[run])
  /\ Written(q, UserOf[run]) \in Row \cup {NoRow}

WriterInv ==
  /\ \A r \in Requests : phase[r] = "writing" => \A q \in request[r] : Pending(r, q)
  /\ \A r, e \in Requests :
       phase[r] = "writing" /\ phase[e] = "writing" /\ key[r] = key[e] => r = e
  /\ \A k \in Keys : rows[k] # NoRow => k[2] \in issued

OwnInv ==
  \A r \in Requests : \A q \in request[r] :
    /\ reply[r].row # NoRow => reply[r].row.owner = UserOf[q.run]
    /\ result[r].row # NoRow => result[r].row.owner = UserOf[q.run]

MemoryInv == TypeOK /\ SlotInv /\ WriterInv /\ OwnInv

-----------------------------------------------------------------------------
(* Facts about the statements.                                             *)

LEMMA ReachesDatabase ==
  ASSUME NEW q \in Menu, NEW authentic \in BOOLEAN, RefusalStatus(q, authentic) = 0,
         ReadsBody(q) => q.body # "unstorable"
  PROVE  authentic /\ Accepted(q)
<1>1. q \in Request
  BY MenuAssumption DEF MenuAssumption
<1>2. authentic /\ q.method \in AllowedMethods(q)
  BY DEF RefusalStatus
<1>3. ReadsBody(q) => q.body \in Bodies /\ q.body \notin {"stalled", "malformed", "unstorable"}
  BY <1>1, <1>2 DEF RefusalStatus, Request
<1> QED
  BY <1>2, <1>3 DEF Accepted, Bodies

LEMMA WrittenType ==
  ASSUME NEW q \in Menu, Accepted(q), NEW user \in Users, q.method # "GET"
  PROVE  /\ Written(q, user) \in Row \cup {NoRow}
         /\ Written(q, user) # NoRow => Written(q, user).owner = user
<1>1. q \in Request
  BY MenuAssumption DEF MenuAssumption
<1>2. CASE q.method = "DELETE"
  BY <1>2 DEF Written
<1>3. CASE q.method \in {"POST", "PUT"}
  BY <1>3 DEF Written, Row, Accepted, ReadsBody
<1> QED
  BY <1>1, <1>2, <1>3 DEF Request

LEMMA ResultType ==
  ASSUME NEW q \in Menu, Accepted(q), NEW user \in Users, NEW table \in Table, NEW k \in Keys
  PROVE  /\ Result(table, q, k, user) \in Outcome
         /\ Result(table, q, k, user) # Nothing
         /\ Result(table, q, k, user).row # NoRow => Result(table, q, k, user).row.owner = user
<1>1. q \in Request /\ table[k] \in Row \cup {NoRow}
  BY MenuAssumption DEF MenuAssumption, Table
<1>2. CASE q.method = "POST"
  <2>1. Result(table, q, k, user) = [status |-> 201, row |-> Written(q, user)]
    BY <1>2 DEF Result
  <2> QED
    BY <2>1, <1>2, WrittenType DEF Outcome, Nothing
<1>3. CASE q.method # "POST" /\ Selected(table, k, user) = NoRow
  <2>1. Result(table, q, k, user) = Bare(404)
    BY <1>1, <1>3 DEF Result
  <2> QED
    BY <2>1 DEF Outcome, Nothing, Bare
<1>4. CASE q.method = "GET" /\ Selected(table, k, user) # NoRow
  <2>1. Result(table, q, k, user) = [status |-> 200, row |-> Selected(table, k, user)]
    BY <1>4 DEF Result
  <2>2. Selected(table, k, user) \in Row /\ Selected(table, k, user).owner = user
    BY <1>1, <1>4 DEF Selected
  <2> QED
    BY <2>1, <2>2 DEF Outcome, Nothing
<1>5. CASE q.method = "PUT" /\ Selected(table, k, user) # NoRow
  <2>1. Result(table, q, k, user) = [status |-> 200, row |-> Written(q, user)]
    BY <1>5 DEF Result
  <2> QED
    BY <2>1, <1>5, WrittenType DEF Outcome, Nothing
<1>6. CASE q.method = "DELETE" /\ Selected(table, k, user) # NoRow
  <2>1. Result(table, q, k, user) = Bare(204)
    BY <1>6 DEF Result
  <2> QED
    BY <2>1 DEF Outcome, Nothing, Bare
<1> QED
  BY <1>1, <1>2, <1>3, <1>4, <1>5, <1>6 DEF Request

(* A statement depends on its own row only.                                *)
LEMMA RowIsEnough ==
  ASSUME NEW q, NEW user, NEW k, NEW t, NEW u, t[k] = u[k]
  PROVE  /\ Writes(t, q, k, user) <=> Writes(u, q, k, user)
         /\ Result(t, q, k, user) = Result(u, q, k, user)
<1>1. Selected(t, k, user) = Selected(u, k, user)
  BY DEF Selected
<1> QED
  BY <1>1 DEF Writes, Result

LEMMA RowsForType ==
  ASSUME TypeOK, NEW q \in Menu, NEW k \in RowsFor(q)
  PROVE  /\ k \in Keys
         /\ IF q.id = NoId THEN k[2] \in Ids \ issued /\ k[1] = q.collection
            ELSE k = <<q.collection, q.id>>
<1>1. q \in Request
  BY MenuAssumption DEF MenuAssumption
<1> QED
  BY <1>1, NamesAssumption DEF NamesAssumption, Request, RowsFor, Keys, Collections, TypeOK

-----------------------------------------------------------------------------
(* The invariant.                                                          *)

LEMMA UsersOfRuns == \A n \in 1..Runs : UserOf[n] \in Users
  BY RunsAssumption DEF RunsAssumption

LEMMA MemoryInit == Init => MemoryInv
<1> SUFFICES ASSUME Init PROVE MemoryInv
  OBVIOUS
<1>1. TypeOK
  <2>1. 1 \in 1..Runs /\ 0 \in 0..MaxFaults
    BY RunsAssumption, FaultsAssumption DEF RunsAssumption, FaultsAssumption
  <2>2. Nothing \in Outcome
    BY DEF Nothing, Outcome
  <2> QED
    BY <2>1, <2>2 DEF Init, TypeOK, Table
<1>2. SlotInv /\ WriterInv
  BY DEF Init, SlotInv, WriterInv
<1>3. OwnInv
  BY DEF Init, OwnInv
<1> QED
  BY <1>1, <1>2, <1>3 DEF MemoryInv

(* The answer of a handler, whatever it is.                                *)
LEMMA ReplyTypes ==
  ASSUME TypeOK, NEW r \in Requests, NEW outcome \in Outcome, Reply(r, outcome)
  PROVE  /\ phase' \in [Requests -> {"idle", "received", "writing", "settled", "done"}]
         /\ reply' \in [Requests -> Outcome]
  BY DEF Reply, TypeOK

LEMMA BareTypes ==
  \A status \in {401, 405, 408, 422, 503} :
    Bare(status) \in Outcome /\ Bare(status) # Nothing /\ Bare(status).row = NoRow
  BY DEF Bare, Outcome, Nothing

LEMMA RefusalTypes ==
  ASSUME NEW q, NEW authentic \in BOOLEAN, RefusalStatus(q, authentic) # 0
  PROVE  RefusalStatus(q, authentic) \in {401, 405, 408, 422}
  BY DEF RefusalStatus

LEMMA RefusedStatus ==
  ASSUME NEW r \in Requests, NEW q, Refuse(r, q)
  PROVE  RefusalStatus(q, Authentic(q)) \in {401, 405, 408, 422}
<1>1. Authentic(q) \in BOOLEAN
  BY DEF Authentic
<1> QED
  BY <1>1, RefusalTypes DEF Refuse

(* What Execute finds out, with the row it is about.                       *)
LEMMA Execution ==
  ASSUME MemoryInv, NEW r \in Requests, NEW q \in request[r], Execute(r, q)
  PROVE  \E k \in Keys :
           /\ q \in Menu /\ q.run = run /\ Accepted(q)
           /\ k \in RowsFor(q)
           /\ Writes(rows, q, k, UserOf[run]) => ~Blocked(k)
           /\ key' = [key EXCEPT ![r] = k]
           /\ issued' = IF q.id = NoId THEN issued \cup {k[2]} ELSE issued
           /\ result' = [result EXCEPT ![r] = Result(rows, q, k, UserOf[run])]
           /\ phase' = [phase EXCEPT ![r] =
                          IF Writes(rows, q, k, UserOf[run]) THEN "writing" ELSE "settled"]
           /\ UNCHANGED <<rows, run, expired, request, reply, faults>>
<1>1. q \in Menu
  BY DEF MemoryInv, TypeOK
<1>2. q.run = run /\ Accepted(q)
  <2>1. Authentic(q) \in BOOLEAN
    BY DEF Authentic
  <2>2. RefusalStatus(q, Authentic(q)) = 0 /\ (ReadsBody(q) => q.body # "unstorable")
    BY DEF Execute
  <2> QED
    BY <1>1, <2>1, <2>2, ReachesDatabase DEF Authentic
<1>3. \A k \in RowsFor(q) : k \in Keys
  BY <1>1, RowsForType DEF MemoryInv
<1> QED
  BY <1>1, <1>2, <1>3 DEF Execute

LEMMA MemoryTypes == MemoryInv /\ [Next]_vars => TypeOK'
<1> SUFFICES ASSUME MemoryInv, [Next]_vars PROVE TypeOK'
  OBVIOUS
<1> USE DEF MemoryInv
<1>1. ASSUME NEW r \in Requests, NEW q \in Menu, Receive(r, q) PROVE TypeOK'
  BY <1>1 DEF Receive, TypeOK
<1>2. ASSUME NEW r \in Requests, NEW q \in request[r], Refuse(r, q) PROVE TypeOK'
  <2>1. Bare(RefusalStatus(q, Authentic(q))) \in Outcome
    BY <1>2, RefusedStatus, BareTypes
  <2> QED
    BY <1>2, <2>1, ReplyTypes DEF Refuse, TypeOK
<1>3. ASSUME NEW r \in Requests, NEW q \in request[r], RefuseValue(r, q) PROVE TypeOK'
  BY <1>3, BareTypes, ReplyTypes DEF RefuseValue, TypeOK
<1>4. ASSUME NEW r \in Requests, NEW q \in request[r], Execute(r, q) PROVE TypeOK'
  <2>1. PICK k \in Keys :
           /\ q \in Menu /\ q.run = run /\ Accepted(q)
           /\ k \in RowsFor(q)
           /\ key' = [key EXCEPT ![r] = k]
           /\ issued' = IF q.id = NoId THEN issued \cup {k[2]} ELSE issued
           /\ result' = [result EXCEPT ![r] = Result(rows, q, k, UserOf[run])]
           /\ phase' = [phase EXCEPT ![r] =
                          IF Writes(rows, q, k, UserOf[run]) THEN "writing" ELSE "settled"]
           /\ UNCHANGED <<rows, run, expired, request, reply, faults>>
    BY <1>4, Execution
  <2>2. Result(rows, q, k, UserOf[run]) \in Outcome
    BY <2>1, ResultType, UsersOfRuns DEF TypeOK
  <2>3. issued' \subseteq Ids
    BY <2>1 DEF TypeOK, Keys
  <2>4. phase' \in [Requests -> {"idle", "received", "writing", "settled", "done"}]
    BY <2>1 DEF TypeOK
  <2> QED
    BY <2>1, <2>2, <2>3, <2>4 DEF TypeOK
<1>5. ASSUME NEW r \in Requests, NEW q \in request[r], CommitTransaction(r, q) PROVE TypeOK'
  <2>1. Written(q, UserOf[q.run]) \in Row \cup {NoRow} /\ key[r] \in Keys
    BY <1>5 DEF CommitTransaction, WriterInv, Pending
  <2> QED
    BY <1>5, <2>1 DEF CommitTransaction, TypeOK, Table
<1>6. ASSUME NEW r \in Requests, SendResult(r) PROVE TypeOK'
  BY <1>6, ReplyTypes DEF SendResult, TypeOK
<1>7. ASSUME NEW r \in Requests, NEW q \in request[r], DatabaseFails(r, q) PROVE TypeOK'
  <2>1. rows' \in Table
    BY <1>7 DEF DatabaseFails, WriterInv, Pending, TypeOK, Table
  <2>2. faults' \in 0..MaxFaults
    BY <1>7, FaultsAssumption DEF DatabaseFails, TypeOK, FaultsAssumption
  <2> QED
    BY <1>7, <2>1, <2>2, BareTypes, ReplyTypes DEF DatabaseFails, TypeOK
<1>8. CASE TokenExpires
  BY <1>8 DEF TokenExpires, TypeOK
<1>9. CASE NextRun
  <2>1. run' \in 1..Runs
    BY <1>9, RunsAssumption DEF NextRun, TypeOK, RunsAssumption
  <2> QED
    BY <1>9, <2>1, BareTypes DEF NextRun, TypeOK
<1>10. CASE Finished \/ UNCHANGED vars
  BY <1>10 DEF Finished, TypeOK, vars
<1> QED
  BY <1>1, <1>2, <1>3, <1>4, <1>5, <1>6, <1>7, <1>8, <1>9, <1>10 DEF Next, Handle

LEMMA SlotStep == MemoryInv /\ [Next]_vars => SlotInv'
<1> SUFFICES ASSUME MemoryInv, [Next]_vars PROVE SlotInv'
  OBVIOUS
<1> USE DEF MemoryInv, TypeOK, SlotInv
<1>1. ASSUME NEW r \in Requests, NEW q \in Menu, Receive(r, q) PROVE SlotInv'
  BY <1>1 DEF Receive
<1>2. ASSUME NEW r \in Requests, NEW q \in request[r], Refuse(r, q) PROVE SlotInv'
  <2>1. PICK status \in {401, 405, 408, 422} : status = RefusalStatus(q, Authentic(q))
    BY <1>2, RefusedStatus
  <2>2. /\ reply' = [reply EXCEPT ![r] = Bare(status)]
        /\ phase' = [phase EXCEPT ![r] = "done"] /\ phase[r] = "received"
        /\ UNCHANGED <<request, result>>
    BY <1>2, <2>1 DEF Refuse, Reply
  <2> QED
    BY <2>2, BareTypes
<1>3. ASSUME NEW r \in Requests, NEW q \in request[r], RefuseValue(r, q) PROVE SlotInv'
  BY <1>3, BareTypes DEF RefuseValue, Reply
<1>4. ASSUME NEW r \in Requests, NEW q \in request[r], Execute(r, q) PROVE SlotInv'
  <2>1. PICK k \in Keys :
           /\ q \in Menu /\ q.run = run /\ Accepted(q)
           /\ k \in RowsFor(q)
           /\ Writes(rows, q, k, UserOf[run]) => ~Blocked(k)
           /\ key' = [key EXCEPT ![r] = k]
           /\ issued' = IF q.id = NoId THEN issued \cup {k[2]} ELSE issued
           /\ result' = [result EXCEPT ![r] = Result(rows, q, k, UserOf[run])]
           /\ phase' = [phase EXCEPT ![r] =
                          IF Writes(rows, q, k, UserOf[run]) THEN "writing" ELSE "settled"]
           /\ UNCHANGED <<rows, run, expired, request, reply, faults>>
    BY <1>4, Execution
  <2>2. Result(rows, q, k, UserOf[run]) # Nothing
    BY <2>1, ResultType, UsersOfRuns
  <2>3. phase[r] = "received"
    BY <1>4 DEF Execute
  <2> QED
    BY <2>1, <2>2, <2>3
<1>5. ASSUME NEW r \in Requests, NEW q \in request[r], CommitTransaction(r, q) PROVE SlotInv'
  <2>1. result[r] # Nothing
    <3>1. Pending(r, q) /\ Accepted(q)
      BY <1>5 DEF CommitTransaction, WriterInv, Pending
    <3> QED
      BY <3>1, ResultType, UsersOfRuns DEF Pending
  <2> QED
    BY <1>5, <2>1 DEF CommitTransaction
<1>6. ASSUME NEW r \in Requests, SendResult(r) PROVE SlotInv'
  BY <1>6 DEF SendResult, Reply
<1>7. ASSUME NEW r \in Requests, NEW q \in request[r], DatabaseFails(r, q) PROVE SlotInv'
  BY <1>7, BareTypes DEF DatabaseFails, Reply
<1>8. CASE TokenExpires
  BY <1>8 DEF TokenExpires
<1>9. CASE NextRun
  BY <1>9, BareTypes DEF NextRun
<1>10. CASE Finished \/ UNCHANGED vars
  BY <1>10 DEF Finished, vars
<1> QED
  BY <1>1, <1>2, <1>3, <1>4, <1>5, <1>6, <1>7, <1>8, <1>9, <1>10 DEF Next, Handle

LEMMA OwnStep == MemoryInv /\ [Next]_vars => OwnInv'
<1> SUFFICES ASSUME MemoryInv, [Next]_vars PROVE OwnInv'
  OBVIOUS
<1> USE DEF MemoryInv, TypeOK, OwnInv
<1>1. ASSUME NEW r \in Requests, NEW q \in Menu, Receive(r, q) PROVE OwnInv'
  BY <1>1 DEF Receive, SlotInv, Nothing
<1>2. ASSUME NEW r \in Requests, NEW q \in request[r], Refuse(r, q) PROVE OwnInv'
  <2>1. PICK status \in {401, 405, 408, 422} : status = RefusalStatus(q, Authentic(q))
    BY <1>2, RefusedStatus
  <2>2. /\ reply' = [reply EXCEPT ![r] = Bare(status)]
        /\ phase' = [phase EXCEPT ![r] = "done"] /\ phase[r] = "received"
        /\ UNCHANGED <<request, result>>
    BY <1>2, <2>1 DEF Refuse, Reply
  <2> QED
    BY <2>2, BareTypes
<1>3. ASSUME NEW r \in Requests, NEW q \in request[r], RefuseValue(r, q) PROVE OwnInv'
  BY <1>3, BareTypes DEF RefuseValue, Reply
<1>4. ASSUME NEW r \in Requests, NEW q \in request[r], Execute(r, q) PROVE OwnInv'
  <2>1. PICK k \in Keys :
           /\ q \in Menu /\ q.run = run /\ Accepted(q)
           /\ k \in RowsFor(q)
           /\ Writes(rows, q, k, UserOf[run]) => ~Blocked(k)
           /\ key' = [key EXCEPT ![r] = k]
           /\ issued' = IF q.id = NoId THEN issued \cup {k[2]} ELSE issued
           /\ result' = [result EXCEPT ![r] = Result(rows, q, k, UserOf[run])]
           /\ phase' = [phase EXCEPT ![r] =
                          IF Writes(rows, q, k, UserOf[run]) THEN "writing" ELSE "settled"]
           /\ UNCHANGED <<rows, run, expired, request, reply, faults>>
    BY <1>4, Execution
  <2>2. Result(rows, q, k, UserOf[run]).row # NoRow =>
          Result(rows, q, k, UserOf[run]).row.owner = UserOf[run]
    BY <2>1, ResultType, UsersOfRuns
  <2>3. \A p \in request[r] : p = q
    BY DEF SlotInv
  <2> QED
    BY <2>1, <2>2, <2>3
<1>5. ASSUME NEW r \in Requests, NEW q \in request[r], CommitTransaction(r, q) PROVE OwnInv'
  BY <1>5 DEF CommitTransaction
<1>6. ASSUME NEW r \in Requests, SendResult(r) PROVE OwnInv'
  BY <1>6 DEF SendResult, Reply
<1>7. ASSUME NEW r \in Requests, NEW q \in request[r], DatabaseFails(r, q) PROVE OwnInv'
  BY <1>7, BareTypes DEF DatabaseFails, Reply
<1>8. CASE TokenExpires
  BY <1>8 DEF TokenExpires
<1>9. CASE NextRun
  BY <1>9, BareTypes DEF NextRun
<1>10. CASE Finished \/ UNCHANGED vars
  BY <1>10 DEF Finished, vars
<1> QED
  BY <1>1, <1>2, <1>3, <1>4, <1>5, <1>6, <1>7, <1>8, <1>9, <1>10 DEF Next, Handle

(* Writers keep what they have found when a row that is not theirs, or     *)
(* none, is written.                                                       *)
LEMMA PendingIsStable ==
  ASSUME MemoryInv, NEW e \in Requests, phase[e] = "writing", NEW q \in request[e],
         run' = run, issued \subseteq issued', key'[e] = key[e], result'[e] = result[e],
         rows'[key[e]] = rows[key[e]]
  PROVE  Pending(e, q)'
<1>1. Pending(e, q)
  BY DEF MemoryInv, WriterInv
<1>2. /\ Writes(rows', q, key[e], UserOf[run]) <=> Writes(rows, q, key[e], UserOf[run])
      /\ Result(rows', q, key[e], UserOf[run]) = Result(rows, q, key[e], UserOf[run])
  BY RowIsEnough
<1> QED
  BY <1>1, <1>2 DEF Pending

(* One writer commits, or another step ends its transaction.               *)
LEMMA WriterEnds ==
  ASSUME MemoryInv, NEW r \in Requests,
         phase' \in [Requests -> {"idle", "received", "writing", "settled", "done"}],
         \A e \in Requests : phase'[e] = "writing" => e # r /\ phase[e] = "writing",
         UNCHANGED <<issued, run, request, key, result>>,
         \/ rows' = rows
         \/ /\ phase[r] = "writing"
            /\ \E new : rows' = [rows EXCEPT ![key[r]] = new]
  PROVE  WriterInv'
<1>1. ASSUME NEW e \in Requests, phase'[e] = "writing", NEW q \in request'[e]
      PROVE  Pending(e, q)'
  <2>1. rows'[key[e]] = rows[key[e]]
    <3>1. CASE rows' = rows
      BY <3>1
    <3>2. CASE phase[r] = "writing" /\ \E new : rows' = [rows EXCEPT ![key[r]] = new]
      <4>1. key[e] # key[r]
        BY <1>1, <3>2 DEF MemoryInv, WriterInv
      <4> QED
        BY <3>2, <4>1
    <3> QED
      BY <3>1, <3>2
  <2>2. phase[e] = "writing" /\ q \in request[e] /\ key'[e] = key[e] /\ result'[e] = result[e]
    BY <1>1
  <2> QED
    BY <2>1, <2>2, PendingIsStable
<1>2. \A e, f \in Requests :
        phase'[e] = "writing" /\ phase'[f] = "writing" /\ key'[e] = key'[f] => e = f
  BY DEF MemoryInv, WriterInv
<1>3. ASSUME NEW k \in Keys, rows'[k] # NoRow PROVE k[2] \in issued'
  <2>1. CASE rows'[k] = rows[k]
    BY <1>3, <2>1 DEF MemoryInv, WriterInv
  <2>2. CASE phase[r] = "writing" /\ k = key[r]
    <3>1. PICK q : q \in request[r]
      BY <2>2 DEF MemoryInv, SlotInv
    <3> QED
      BY <2>2, <3>1 DEF MemoryInv, WriterInv, Pending
  <2> QED
    BY <2>1, <2>2 DEF MemoryInv, TypeOK, Table
<1> QED
  BY <1>1, <1>2, <1>3 DEF WriterInv

LEMMA WriterStep == MemoryInv /\ [Next]_vars => WriterInv'
<1> SUFFICES ASSUME MemoryInv, [Next]_vars PROVE WriterInv'
  OBVIOUS
<1>0. TypeOK'
  BY MemoryTypes
<1>1. ASSUME NEW r \in Requests, NEW q \in Menu, Receive(r, q) PROVE WriterInv'
  <2>1. \A e \in Requests : phase'[e] = "writing" =>
          phase[e] = "writing" /\ request'[e] = request[e]
    BY <1>1 DEF Receive, MemoryInv, TypeOK
  <2>2. \A e \in Requests : phase'[e] = "writing" => \A p \in request'[e] : Pending(e, p)'
    BY <1>1, <2>1, PendingIsStable DEF Receive
  <2> QED
    BY <1>1, <2>1, <2>2 DEF Receive, MemoryInv, WriterInv
<1>2. ASSUME NEW r \in Requests, NEW q \in request[r], Refuse(r, q) PROVE WriterInv'
  BY <1>2, <1>0, WriterEnds DEF Refuse, Reply, MemoryInv, TypeOK
<1>3. ASSUME NEW r \in Requests, NEW q \in request[r], RefuseValue(r, q) PROVE WriterInv'
  BY <1>3, <1>0, WriterEnds DEF RefuseValue, Reply, MemoryInv, TypeOK
<1>4. ASSUME NEW r \in Requests, NEW q \in request[r], Execute(r, q) PROVE WriterInv'
  <2>1. PICK k \in Keys :
           /\ q \in Menu /\ q.run = run /\ Accepted(q)
           /\ k \in RowsFor(q)
           /\ Writes(rows, q, k, UserOf[run]) => ~Blocked(k)
           /\ key' = [key EXCEPT ![r] = k]
           /\ issued' = IF q.id = NoId THEN issued \cup {k[2]} ELSE issued
           /\ result' = [result EXCEPT ![r] = Result(rows, q, k, UserOf[run])]
           /\ phase' = [phase EXCEPT ![r] =
                          IF Writes(rows, q, k, UserOf[run]) THEN "writing" ELSE "settled"]
           /\ UNCHANGED <<rows, run, expired, request, reply, faults>>
    BY <1>4, Execution
  <2>2. /\ rows[k] # NoRow => k[2] \in issued
        /\ IF q.id = NoId THEN rows[k] = NoRow /\ k[1] = q.collection
           ELSE k = <<q.collection, q.id>>
    BY <2>1, RowsForType DEF MemoryInv, WriterInv
  <2>3. ASSUME phase'[r] = "writing" PROVE Pending(r, q)'
    <3>1. Writes(rows, q, k, UserOf[run])
      BY <2>1, <2>3 DEF MemoryInv, TypeOK
    <3>2. q.method # "GET"
      BY <3>1 DEF Writes
    <3>3. k[2] \in issued'
      <4>1. CASE q.id = NoId
        BY <2>1, <4>1
      <4>2. CASE q.id # NoId
        <5>1. q.method # "POST"
          BY <2>1, <4>2 DEF Accepted, AllowedMethods
        <5>2. rows[k] # NoRow
          BY <3>1, <5>1 DEF Writes, Selected
        <5> QED
          BY <2>1, <2>2, <4>2, <5>2
      <4> QED
        BY <4>1, <4>2
    <3>4. Written(q, UserOf[run]) \in Row \cup {NoRow}
      BY <2>1, <3>2, WrittenType, UsersOfRuns DEF MemoryInv, TypeOK
    <3>5. key'[r] = k /\ result'[r] = Result(rows, q, k, UserOf[run])
      BY <2>1 DEF MemoryInv, TypeOK
    <3> QED
      BY <2>1, <2>2, <3>1, <3>3, <3>4, <3>5 DEF Pending
  <2>4. ASSUME NEW e \in Requests, phase'[e] = "writing", NEW p \in request'[e]
        PROVE  Pending(e, p)'
    <3>1. CASE e = r
      BY <2>1, <2>3, <2>4, <3>1 DEF MemoryInv, SlotInv
    <3>2. CASE e # r
      <4>1. phase[e] = "writing" /\ p \in request[e] /\ key'[e] = key[e] /\ result'[e] = result[e]
        BY <2>1, <2>4, <3>2 DEF MemoryInv, TypeOK
      <4> QED
        BY <2>1, <4>1, PendingIsStable
    <3> QED
      BY <3>1, <3>2
  <2>5. \A e, f \in Requests :
          phase'[e] = "writing" /\ phase'[f] = "writing" /\ key'[e] = key'[f] => e = f
    <3>1. ASSUME phase'[r] = "writing", NEW e \in Requests, phase[e] = "writing"
          PROVE  key[e] # k
      <4>1. Writes(rows, q, k, UserOf[run])
        BY <2>1, <3>1 DEF MemoryInv, TypeOK
      <4> QED
        BY <2>1, <3>1, <4>1 DEF Blocked
    <3>2. /\ \A e \in Requests \ {r} : phase'[e] = phase[e] /\ key'[e] = key[e]
          /\ key'[r] = k
      BY <2>1 DEF MemoryInv, TypeOK
    <3> QED
      BY <3>1, <3>2 DEF MemoryInv, WriterInv
  <2>6. \A j \in Keys : rows'[j] # NoRow => j[2] \in issued'
    BY <2>1 DEF MemoryInv, WriterInv
  <2> QED
    BY <2>4, <2>5, <2>6 DEF WriterInv
<1>5. ASSUME NEW r \in Requests, NEW q \in request[r], CommitTransaction(r, q) PROVE WriterInv'
  BY <1>5, <1>0, WriterEnds DEF CommitTransaction, MemoryInv, TypeOK
<1>6. ASSUME NEW r \in Requests, SendResult(r) PROVE WriterInv'
  BY <1>6, <1>0, WriterEnds DEF SendResult, Reply, MemoryInv, TypeOK
<1>7. ASSUME NEW r \in Requests, NEW q \in request[r], DatabaseFails(r, q) PROVE WriterInv'
  BY <1>7, <1>0, WriterEnds DEF DatabaseFails, Reply, MemoryInv, TypeOK
<1>8. CASE TokenExpires
  BY <1>8, PendingIsStable DEF TokenExpires, MemoryInv, WriterInv
<1>9. CASE NextRun
  BY <1>9 DEF NextRun, MemoryInv, TypeOK, WriterInv
<1>10. CASE Finished \/ UNCHANGED vars
  BY <1>10, PendingIsStable DEF Finished, vars, MemoryInv, WriterInv
<1> QED
  BY <1>1, <1>2, <1>3, <1>4, <1>5, <1>6, <1>7, <1>8, <1>9, <1>10 DEF Next, Handle

LEMMA MemoryInvariant == Spec => []MemoryInv
<1>1. MemoryInv /\ [Next]_vars => MemoryInv'
  BY MemoryTypes, SlotStep, WriterStep, OwnStep DEF MemoryInv
<1> QED
  BY <1>1, MemoryInit, PTL DEF Spec

(* Types, for all accounts, requests and runs.                             *)
THEOREM MemoryTypeCorrect == Spec => []TypeOK
  BY MemoryInvariant, PTL DEF MemoryInv

(* An answer never carries the record of another account.                  *)
THEOREM AnswersOwn == Spec => []AnswersAreOwn
<1>1. MemoryInv => AnswersAreOwn
  BY DEF MemoryInv, OwnInv, AnswersAreOwn
<1> QED
  BY <1>1, MemoryInvariant, PTL

(* No step changes the record of an account other than the run's.          *)
THEOREM NamespacesSeparate == Spec => NamespacesAreSeparate
<1> DEFINE Separate ==
      \A k \in Keys : rows[k] # NoRow /\ rows'[k] # rows[k] => rows[k].owner = UserOf[run]
<1>1. ASSUME MemoryInv, [Next]_vars PROVE Separate
  <2>1. ASSUME NEW r \in Requests, NEW q \in request[r], phase[r] = "writing",
               rows' = [rows EXCEPT ![key[r]] = Written(q, UserOf[q.run])]
        PROVE  Separate
    <3>1. Writes(rows, q, key[r], UserOf[run]) /\ Pending(r, q)
      BY <1>1, <2>1 DEF MemoryInv, WriterInv, Pending
    <3>2. rows[key[r]] # NoRow => rows[key[r]].owner = UserOf[run]
      <4>1. CASE q.id = NoId
        BY <3>1, <4>1 DEF Pending
      <4>2. CASE q.id # NoId
        BY <3>1, <4>2 DEF Pending, Accepted, AllowedMethods, Writes, Selected
      <4> QED
        BY <4>1, <4>2
    <3> QED
      BY <1>1, <2>1, <3>2 DEF MemoryInv, TypeOK, Table
  <2>2. CASE rows' = rows
    BY <2>2
  <2> QED
    BY <1>1, <2>1, <2>2 DEF Next, Handle, Receive, Refuse, RefuseValue, Execute,
       CommitTransaction, SendResult, DatabaseFails, TokenExpires, NextRun, Finished, vars
<1> QED
  BY <1>1, MemoryInvariant, PTL DEF Spec, NamespacesAreSeparate

-----------------------------------------------------------------------------
(* The refinement.                                                         *)

(* The instance has its own copies of the operators on requests.           *)
LEMMA SameOperators ==
  ASSUME NEW t, NEW q, NEW k, NEW user, NEW status
  PROVE  /\ Service!Effect(t, q, k, user) = Effect(t, q, k, user)
         /\ Service!Result(t, q, k, user) = Result(t, q, k, user)
         /\ Service!Bare(status) = Bare(status)
         /\ Service!Nothing = Nothing /\ Service!Keys = Keys
<1>1. Service!Selected(t, k, user) = Selected(t, k, user)
  BY DEF Service!Selected, Selected
<1>2. Service!Written(q, user) = Written(q, user)
  BY DEF Service!Written, Written
<1>3. Service!Writes(t, q, k, user) <=> Writes(t, q, k, user)
  BY <1>1 DEF Service!Writes, Writes
<1> QED
  BY <1>1, <1>2, <1>3 DEF Service!Effect, Effect, Service!Result, Result, Service!Bare, Bare,
     Service!Nothing, Nothing, Service!Keys, Keys, Service!Collections, Collections

(* How the mapped outcome follows the phase and the result.                *)
LEMMA OutcomeIsSet ==
  ASSUME TypeOK, NEW r \in Requests,
         phase' = [phase EXCEPT ![r] = "settled"], result' = result
  PROVE  Settled' = [Settled EXCEPT ![r] = result[r]]
  BY DEF Settled, TypeOK

LEMMA OutcomeIsCleared ==
  ASSUME TypeOK, NEW r \in Requests,
         phase' = [phase EXCEPT ![r] = "done"], result' = result
  PROVE  Settled' = [Settled EXCEPT ![r] = Nothing]
  BY DEF Settled, TypeOK

LEMMA PendingKey ==
  ASSUME MemoryInv, NEW r \in Requests, NEW q, Pending(r, q)
  PROVE  key[r] \in Service!KeysFor(q)
<1>1. Service!Keys = Keys
  BY SameOperators
<1>2. CASE q.id = NoId
  BY <1>1, <1>2 DEF Pending, Service!KeysFor
<1>3. CASE q.id # NoId
  BY <1>3 DEF Pending, Service!KeysFor
<1> QED
  BY <1>2, <1>3

(* A transaction takes effect when it commits, other statements when they  *)
(* are executed; every other step is an answer or invisible.               *)
LEMMA ServiceStep == MemoryInv /\ [Next]_vars => [Service!Next]_(Service!vars)
<1> SUFFICES ASSUME MemoryInv, [Next]_vars PROVE [Service!Next]_(Service!vars)
  OBVIOUS
<1> USE SameOperators
<1>0. TypeOK /\ SlotInv /\ WriterInv
  BY DEF MemoryInv
<1>1. ASSUME NEW r \in Requests, NEW q \in Menu, Receive(r, q) PROVE Service!Ask(r, q)
  <2>1. Settled' = Settled
    BY <1>0, <1>1 DEF Receive, Settled, TypeOK
  <2> QED
    BY <1>0, <1>1, <2>1 DEF Receive, SlotInv, Service!Ask
<1>2. ASSUME NEW r \in Requests, NEW q \in request[r], Refuse(r, q) PROVE Service!Refuse(r)
  <2>1. PICK status \in {401, 405, 408, 422} : status = RefusalStatus(q, Authentic(q))
    BY <1>2, RefusedStatus
  <2>2. /\ phase[r] = "received" /\ reply[r] = Nothing /\ Settled[r] = Nothing
        /\ reply' = [reply EXCEPT ![r] = Bare(status)]
        /\ phase' = [phase EXCEPT ![r] = "done"] /\ UNCHANGED <<rows, request, result>>
    BY <1>0, <1>2, <2>1 DEF Refuse, Reply, SlotInv, Settled
  <2>3. Settled' = Settled
    BY <1>0, <2>2 DEF Settled, TypeOK
  <2> QED
    BY <1>0, <2>2, <2>3 DEF SlotInv, Service!Refuse, Service!Open
<1>3. ASSUME NEW r \in Requests, NEW q \in request[r], RefuseValue(r, q)
      PROVE  Service!Refuse(r)
  <2>1. /\ phase[r] = "received" /\ reply[r] = Nothing /\ Settled[r] = Nothing
        /\ reply' = [reply EXCEPT ![r] = Bare(422)]
        /\ phase' = [phase EXCEPT ![r] = "done"] /\ UNCHANGED <<rows, request, result>>
    BY <1>0, <1>3 DEF RefuseValue, Reply, SlotInv, Settled
  <2>2. Settled' = Settled
    BY <1>0, <2>1 DEF Settled, TypeOK
  <2> QED
    BY <1>0, <2>1, <2>2 DEF SlotInv, Service!Refuse, Service!Open
<1>4. ASSUME NEW r \in Requests, NEW q \in request[r], Execute(r, q)
      PROVE  Service!Serve(r) \/ UNCHANGED Service!vars
  <2>1. PICK k \in Keys :
           /\ q \in Menu /\ q.run = run /\ Accepted(q)
           /\ k \in RowsFor(q)
           /\ key' = [key EXCEPT ![r] = k]
           /\ issued' = IF q.id = NoId THEN issued \cup {k[2]} ELSE issued
           /\ result' = [result EXCEPT ![r] = Result(rows, q, k, UserOf[run])]
           /\ phase' = [phase EXCEPT ![r] =
                          IF Writes(rows, q, k, UserOf[run]) THEN "writing" ELSE "settled"]
           /\ UNCHANGED <<rows, run, expired, request, reply, faults>>
    BY <1>4, Execution
  <2>2. phase[r] = "received" /\ reply[r] = Nothing /\ Settled[r] = Nothing
    BY <1>0, <1>4 DEF Execute, SlotInv, Settled
  <2>3. CASE Writes(rows, q, k, UserOf[run])
    <3>1. Settled' = Settled
      BY <1>0, <2>1, <2>2, <2>3 DEF Settled, TypeOK
    <3> QED
      BY <2>1, <3>1 DEF Service!vars
  <2>4. CASE ~Writes(rows, q, k, UserOf[run])
    <3>1. k \in Service!KeysFor(q)
      <4>1. q.id # NoId
        BY <2>1, <2>4, MenuAssumption DEF Accepted, AllowedMethods, Writes, MenuAssumption, Request
      <4> QED
        BY <1>0, <2>1, <4>1, RowsForType DEF Service!KeysFor
    <3>2. rows' = Service!Effect(rows, q, k, UserOf[q.run])
      BY <2>1, <2>4, SameOperators DEF Effect
    <3>3. Settled' = [Settled EXCEPT ![r] = Service!Result(rows, q, k, UserOf[q.run])]
      <4>1. Settled' = [Settled EXCEPT ![r] = Result(rows, q, k, UserOf[q.run])]
        BY <1>0, <2>1, <2>4 DEF Settled, TypeOK
      <4> QED
        BY <4>1, SameOperators
    <3> QED
      BY <2>1, <2>2, <3>1, <3>2, <3>3 DEF Service!Serve, Service!Open
  <2> QED
    BY <2>3, <2>4
<1>5. ASSUME NEW r \in Requests, NEW q \in request[r], CommitTransaction(r, q)
      PROVE  Service!Serve(r)
  <2>1. /\ phase[r] = "writing" /\ reply[r] = Nothing /\ Settled[r] = Nothing
        /\ Pending(r, q) /\ UNCHANGED <<request, reply, result>>
        /\ phase' = [phase EXCEPT ![r] = "settled"]
    BY <1>0, <1>5 DEF CommitTransaction, SlotInv, WriterInv, Settled
  <2>2. key[r] \in Service!KeysFor(q)
    BY <2>1, PendingKey
  <2>3. rows' = Service!Effect(rows, q, key[r], UserOf[q.run])
    BY <1>5, <2>1, SameOperators DEF CommitTransaction, Pending, Effect
  <2>4. Settled' = [Settled EXCEPT ![r] = Service!Result(rows, q, key[r], UserOf[q.run])]
    <3>1. result[r] = Service!Result(rows, q, key[r], UserOf[q.run])
      BY <2>1, SameOperators DEF Pending
    <3> QED
      BY <1>0, <2>1, <3>1, OutcomeIsSet
  <2> QED
    BY <2>1, <2>2, <2>3, <2>4 DEF Service!Serve, Service!Open
<1>6. ASSUME NEW r \in Requests, SendResult(r) PROVE Service!Answer(r)
  <2>1. /\ phase[r] = "settled" /\ reply[r] = Nothing /\ result[r] # Nothing
        /\ request[r] # {} /\ Settled[r] = result[r]
        /\ reply' = [reply EXCEPT ![r] = Settled[r]]
        /\ phase' = [phase EXCEPT ![r] = "done"] /\ UNCHANGED <<rows, request, result>>
    BY <1>0, <1>6 DEF SendResult, Reply, SlotInv, Settled
  <2>2. Settled' = [Settled EXCEPT ![r] = Nothing]
    BY <1>0, <2>1, OutcomeIsCleared
  <2> QED
    BY <2>1, <2>2 DEF Service!Answer, Service!Open
<1>7. ASSUME NEW r \in Requests, NEW q \in request[r], DatabaseFails(r, q)
      PROVE  Service!Fail(r)
  <2>1. /\ phase[r] \in {"received", "writing", "settled"} /\ reply[r] = Nothing
        /\ reply' = [reply EXCEPT ![r] = Bare(503)]
        /\ phase' = [phase EXCEPT ![r] = "done"] /\ UNCHANGED <<request, result>>
    BY <1>0, <1>7 DEF DatabaseFails, Reply, SlotInv
  <2>2. Settled' = [Settled EXCEPT ![r] = Nothing]
    BY <1>0, <2>1, OutcomeIsCleared
  <2>3. \/ rows' = rows
        \/ /\ Settled[r] = Nothing /\ key[r] \in Service!KeysFor(q)
           /\ rows' = Effect(rows, q, key[r], UserOf[q.run])
    <3>1. CASE /\ phase[r] = "writing"
               /\ rows' = [rows EXCEPT ![key[r]] = Written(q, UserOf[q.run])]
      <4>1. Pending(r, q)
        BY <1>0, <3>1 DEF WriterInv
      <4>2. rows' = Effect(rows, q, key[r], UserOf[q.run])
        BY <3>1, <4>1 DEF Pending, Effect
      <4>3. key[r] \in Service!KeysFor(q)
        BY <4>1, PendingKey
      <4> QED
        BY <3>1, <4>2, <4>3 DEF Settled
    <3> QED
      BY <1>7, <3>1 DEF DatabaseFails
  <2> QED
    BY <2>1, <2>2, <2>3 DEF Service!Fail, Service!Open
<1>8. CASE TokenExpires
  BY <1>8 DEF TokenExpires, Settled, Service!vars
<1>9. CASE NextRun
  <2>1. \A r \in Requests : Service!Open(r) <=> phase[r] \notin {"idle", "done"}
    BY <1>0 DEF SlotInv, Service!Open, TypeOK
  <2>2. reply' = [r \in Requests |-> IF Service!Open(r) THEN Service!Bare(503) ELSE reply[r]]
    BY <1>9, <2>1, SameOperators DEF NextRun
  <2>3. Settled' = [r \in Requests |-> Service!Nothing]
    BY <1>9, SameOperators DEF NextRun, Settled
  <2> QED
    BY <1>9, <2>2, <2>3 DEF NextRun, Service!Lose, Service!Next
<1>10. CASE Finished \/ UNCHANGED vars
  BY <1>10 DEF Finished, vars, Settled, Service!vars
<1> QED
  BY <1>1, <1>2, <1>3, <1>4, <1>5, <1>6, <1>7, <1>8, <1>9, <1>10
     DEF Next, Handle, Service!Next

(* The server with its concurrent transactions implements MemoryService.   *)
THEOREM MemoryIsAtomic == Spec => ServiceIsAtomic
<1>1. Init => Service!Init
  BY SameOperators DEF Init, Settled, Service!Init
<1> QED
  BY <1>1, ServiceStep, MemoryInvariant, PTL DEF Spec, ServiceIsAtomic, Service!Spec

=============================================================================
