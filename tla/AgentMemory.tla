---------------------------- MODULE AgentMemory ----------------------------
(***************************************************************************)
(* The agent memory: handler threads that serve a workload's requests with *)
(* one Postgres transaction each, over the runs that share the database.   *)
(* A statement of Postgres sees what is committed; one that writes an      *)
(* existing row keeps the others from writing it until its transaction     *)
(* ends.  The connection may fail at every step, also while it commits,    *)
(* and the end of a run kills its threads.                                 *)
(***************************************************************************)
EXTENDS MemoryRequests, FiniteSets

CONSTANTS
  Requests,   \* the requests of all runs
  Runs,       \* how many runs there are
  UserOf,     \* the account that launches a run
  MaxFaults   \* bound on the failures of a connection

ASSUME RunsAssumption == Runs \in Nat \ {0} /\ UserOf \in [1..Runs -> Users]
ASSUME FaultsAssumption == MaxFaults \in Nat
ASSUME MenuRunsAssumption == \A q \in Menu : q.run \in 1..Runs

VARIABLES
  rows,       \* the committed content of both tables
  issued,     \* the identifiers that rows have ever had
  run,        \* the current run
  expired,    \* the hour of its token is over
  request,    \* what each slot asks for, in a set
  phase,      \* where its handler thread is
  key,        \* the row its statement is about
  result,     \* what the statement returned
  reply,      \* what the handler answered
  faults

vars == <<rows, issued, run, expired, request, phase, key, result, reply, faults>>

AnyKey == <<"episodes", NoId>>

TypeOK ==
  /\ rows \in Table /\ issued \subseteq Ids
  /\ run \in 1..Runs /\ expired \in BOOLEAN
  /\ request \in [Requests -> SUBSET Menu]
  /\ phase \in [Requests -> {"idle", "received", "writing", "settled", "done"}]
  /\ key \in [Requests -> Keys \cup {AnyKey}]
  /\ result \in [Requests -> Outcome] /\ reply \in [Requests -> Outcome]
  /\ faults \in 0..MaxFaults

Init ==
  /\ rows = [k \in Keys |-> NoRow] /\ issued = {}
  /\ run = 1 /\ expired = FALSE
  /\ request = [r \in Requests |-> {}] /\ phase = [r \in Requests |-> "idle"]
  /\ key = [r \in Requests |-> AnyKey]
  /\ result = [r \in Requests |-> Nothing] /\ reply = [r \in Requests |-> Nothing]
  /\ faults = 0

-----------------------------------------------------------------------------
(* The workload sends requests side by side; a token that it has kept from *)
(* an earlier run names that run.                                          *)
Receive(r, q) ==
  /\ phase[r] = "idle"
  /\ q.run <= run
  /\ request' = [request EXCEPT ![r] = {q}]
  /\ phase' = [phase EXCEPT ![r] = "received"]
  /\ UNCHANGED <<rows, issued, run, expired, key, result, reply, faults>>

Authentic(q) == q.run = run /\ ~expired

Reply(r, outcome) ==
  /\ phase' = [phase EXCEPT ![r] = "done"]
  /\ reply' = [reply EXCEPT ![r] = outcome]

Refuse(r, q) ==
  /\ phase[r] = "received"
  /\ RefusalStatus(q, Authentic(q)) # 0
  /\ Reply(r, Bare(RefusalStatus(q, Authentic(q))))
  /\ UNCHANGED <<rows, issued, run, expired, request, key, result, faults>>

(* Postgres raises DataError before it looks at any row.                   *)
RefuseValue(r, q) ==
  /\ phase[r] = "received"
  /\ RefusalStatus(q, Authentic(q)) = 0
  /\ ReadsBody(q) /\ q.body = "unstorable"
  /\ Reply(r, Bare(422))
  /\ UNCHANGED <<rows, issued, run, expired, request, key, result, faults>>

(* Mutation: a statement waits for nobody.                                 *)
NeverBlocked(k) == FALSE

(* Mutation: the row stays locked when its transaction has ended.          *)
BlockedForEver(k) ==
  \E e \in Requests : phase[e] \in {"writing", "settled", "done"} /\ key[e] = k

(* Another transaction has written this row and has not ended.             *)
Blocked(k) == \E e \in Requests : phase[e] = "writing" /\ key[e] = k

(* The identifier is the path's, or a new one.                             *)
RowsFor(q) ==
  IF q.id = NoId THEN {q.collection} \X (Ids \ issued) ELSE {<<q.collection, q.id>>}

(* Execute the one statement of the request on the committed rows.  A read *)
(* and a write that finds no row have nothing left to commit.              *)
Execute(r, q) ==
  /\ phase[r] = "received"
  /\ RefusalStatus(q, Authentic(q)) = 0
  /\ ReadsBody(q) => q.body # "unstorable"
  /\ \E k \in RowsFor(q) :
       LET user == UserOf[q.run]
       IN  /\ Writes(rows, q, k, user) => ~Blocked(k)
           /\ key' = [key EXCEPT ![r] = k]
           /\ issued' = IF q.id = NoId THEN issued \cup {k[2]} ELSE issued
           /\ result' = [result EXCEPT ![r] = Result(rows, q, k, user)]
           /\ phase' = [phase EXCEPT ![r] =
                          IF Writes(rows, q, k, user) THEN "writing" ELSE "settled"]
  /\ UNCHANGED <<rows, run, expired, request, reply, faults>>

CommitTransaction(r, q) ==
  /\ phase[r] = "writing"
  /\ rows' = [rows EXCEPT ![key[r]] = Written(q, UserOf[q.run])]
  /\ phase' = [phase EXCEPT ![r] = "settled"]
  /\ UNCHANGED <<issued, run, expired, request, key, result, reply, faults>>

SendResult(r) ==
  /\ phase[r] = "settled"
  /\ Reply(r, result[r])
  /\ UNCHANGED <<rows, issued, run, expired, request, key, result, faults>>

-----------------------------------------------------------------------------
(* OperationalError: no connection, a lost one, or a lost answer to COMMIT *)
(* whose transaction has or has not been committed.                        *)
DatabaseFails(r, q) ==
  /\ \/ phase[r] = "received" /\ RefusalStatus(q, Authentic(q)) = 0
     \/ phase[r] \in {"writing", "settled"}
  /\ faults < MaxFaults
  /\ faults' = faults + 1
  /\ Reply(r, Bare(503))
  /\ \/ rows' = rows
     \/ /\ phase[r] = "writing"
        /\ rows' = [rows EXCEPT ![key[r]] = Written(q, UserOf[q.run])]
  /\ UNCHANGED <<issued, run, expired, request, key, result>>

(* The run's token is valid for an hour, the run has no such bound.        *)
TokenExpires ==
  /\ ~expired
  /\ expired' = TRUE
  /\ UNCHANGED <<rows, issued, run, request, phase, key, result, reply, faults>>

(* The containers of a run go, and with them its threads and transactions; *)
(* the volume stays.  A request that is open then is never answered, which *)
(* is written as 503 here.                                                 *)
NextRun ==
  /\ run < Runs
  /\ run' = run + 1 /\ expired' = FALSE
  /\ LET open == {r \in Requests : phase[r] \notin {"idle", "done"}}
     IN  /\ phase' = [r \in Requests |-> IF r \in open THEN "done" ELSE phase[r]]
         /\ reply' = [r \in Requests |-> IF r \in open THEN Bare(503) ELSE reply[r]]
  /\ UNCHANGED <<rows, issued, request, key, result, faults>>

-----------------------------------------------------------------------------
Handle(r) ==
  \/ \E q \in request[r] :
       \/ Refuse(r, q) \/ RefuseValue(r, q) \/ Execute(r, q)
       \/ CommitTransaction(r, q) \/ DatabaseFails(r, q)
  \/ SendResult(r)

Finished ==
  /\ \A r \in Requests : phase[r] = "done"
  /\ run = Runs /\ expired
  /\ UNCHANGED vars

Next ==
  \/ \E r \in Requests : (\E q \in Menu : Receive(r, q)) \/ Handle(r)
  \/ TokenExpires \/ NextRun \/ Finished

Spec == Init /\ [][Next]_vars

(* Threads run, and Postgres answers them or the connection fails.         *)
LiveSpec == Spec /\ \A r \in Requests : WF_vars(Handle(r))

-----------------------------------------------------------------------------
(* Records belong to the account that launched the run which wrote them:   *)
(* whatever is in flight, no step changes a record of another account.     *)
NamespacesAreSeparate ==
  [][ \A k \in Keys : rows[k] # NoRow /\ rows'[k] # rows[k] => rows[k].owner = UserOf[run] ]_vars

(* No answer carries a record of another account than that of the token.   *)
AnswersAreOwn ==
  \A r \in Requests : \A q \in request[r] :
    reply[r].row # NoRow => reply[r].row.owner = UserOf[q.run]

(* The service is one table on which every answered request has had its    *)
(* effect exactly once, in an order that agrees with time: no update is    *)
(* lost, no deleted record returns, no answered write disappears with a    *)
(* connection or a run, and a refused request leaves nothing behind.       *)
Settled == [r \in Requests |-> IF phase[r] = "settled" THEN result[r] ELSE Nothing]

Service == INSTANCE MemoryService WITH table <- rows, asked <- request, outcome <- Settled

ServiceIsAtomic == Service!Spec

(* A transaction that waits for another one's row is let in: every request *)
(* that reached the server is answered, or its run ends.                   *)
RequestsAreAnswered ==
  \A r \in Requests : phase[r] = "received" ~> phase[r] = "done"

=============================================================================
