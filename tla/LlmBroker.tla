------------------------------ MODULE LlmBroker ------------------------------
(***************************************************************************)
(* The LLM broker.  A handler on the event loop validates a request; what  *)
(* is to be sent on waits, first come first served, for one of the threads *)
(* that completions, responses and the health checks of models share.  The *)
(* thread talks to the model's server, which may refuse, send anything, go *)
(* silent or never stop sending: time-outs are per socket operation, and   *)
(* the size of an answer is limited.  A body is represented by what the    *)
(* code finds in it, and its length by a number of portions.               *)
(***************************************************************************)
EXTENDS Naturals, Sequences, FiniteSets

CONSTANTS
  Calls,         \* HTTP requests
  Names,         \* what a request or metisa.json may name as a model
  Menu,          \* what they may ask for
  Catalogs,      \* what metisa.json and the secrets of the broker may be
  Statuses,      \* statuses of the servers behind the broker
  Threads,       \* threads of run_in_threadpool
  MaxPortions    \* the largest answer that is read

ASSUME PoolAssumption == Threads \in Nat \ {0} /\ MaxPortions \in Nat \ {0}

(* The first three flaws are looked for in this order, the alias is looked *)
(* up next, and all others are answered alike.  "nested" is JSON too deep  *)
(* for json.loads, whose RecursionError no clause expects.                 *)
Flaws == {"media_type", "too_large", "nested", "malformed", "fields", "numbers"}

(* options: the keys of chat_template_kwargs.                              *)
Requests ==
  [ endpoint : {"health", "models", "model_health", "chat", "responses"}, alias : Names,
    flaws : SUBSET Flaws, options : {"none", "thinking", "other"} ]

ASSUME MenuAssumption == Menu \subseteq Requests

ASSUME CatalogsAssumption ==
  Catalogs \subseteq [local : SUBSET Names, online : SUBSET Names, keyed : BOOLEAN]

ASSUME StatusesAssumption == Statuses \subseteq Nat

Bodies == { "completion", "response", "ok", "object", "array", "invalid", "nested", "unencodable" }

VARIABLES
  catalog,    \* metisa.json, and whether OPENAI_API_KEY is among the secrets
  request, pc,
  queue,      \* the calls that wait for a thread
  exchange,   \* the request a call has sent on, and the status it got
  portions,   \* how much of the answer has been read
  reply

vars == <<catalog, request, pc, queue, exchange, portions, reply>>

NoExchange == [server |-> "none", tunnel |-> FALSE, credential |-> FALSE, status |-> 0]
NoReply    == [status |-> 0, model |-> "none", body |-> "none"]

Exchanges ==
  [ server : Names \cup {"none", "api.openai.com"}, tunnel : BOOLEAN, credential : BOOLEAN,
    status : Nat ]

Replies == [status : Nat, model : Names \cup {"none"}, body : Bodies \cup {"none"}]

Running == {"opening", "connecting", "awaiting", "reading"}

TypeOK ==
  /\ catalog \in Catalogs /\ request \in [Calls -> Menu]
  /\ pc \in [Calls -> {"idle", "receiving", "queued", "ended"} \cup Running]
  /\ queue \in Seq(Calls)
  /\ exchange \in [Calls -> Exchanges]
  /\ portions \in [Calls -> 0..MaxPortions + 1]
  /\ reply \in [Calls -> Replies]

Init ==
  /\ catalog \in Catalogs /\ request \in [Calls -> Menu]
  /\ pc = [c \in Calls |-> "idle"] /\ queue = << >>
  /\ exchange = [c \in Calls |-> NoExchange]
  /\ portions = [c \in Calls |-> 0]
  /\ reply = [c \in Calls |-> NoReply]

-----------------------------------------------------------------------------
(* What the handler on the event loop decides                              *)

Aliases == catalog.local \cup catalog.online

(* _validate_chat_template_kwargs                                          *)
OptionsAreSupported(r) ==
  r.options = "none" \/ (r.options = "thinking" /\ r.alias = "qwen-3-small")

(* A request that is sent on.  The Responses API has no such options: they *)
(* are one more unknown field.                                             *)
Accepts(r) ==
  /\ r.flaws = {} /\ r.alias \in Aliases
  /\ IF r.endpoint = "chat" THEN OptionsAreSupported(r) ELSE r.options = "none"

Refusal(r) ==
  IF "media_type" \in r.flaws THEN 415
  ELSE IF "too_large" \in r.flaws THEN 413
  ELSE IF "nested" \in r.flaws THEN 500
  ELSE IF "malformed" \notin r.flaws /\ r.alias \notin Aliases THEN 404
  ELSE 400

IsForwarding(r) == r.endpoint \in {"chat", "responses"}

End(c, status, model, body) ==
  /\ pc' = [pc EXCEPT ![c] = "ended"]
  /\ reply' = [reply EXCEPT ![c] = [status |-> status, model |-> model, body |-> body]]

Answer(c, status) == End(c, status, "none", "none")

Send(c) ==
  /\ pc[c] = "idle"
  /\ pc' = [pc EXCEPT ![c] = "receiving"]
  /\ UNCHANGED <<catalog, request, queue, exchange, portions, reply>>

(* ClientDisconnect; a client may also leave its request unfinished.       *)
Leave(c) ==
  /\ pc[c] = "receiving"
  /\ pc' = [pc EXCEPT ![c] = "ended"]
  /\ UNCHANGED <<catalog, request, queue, exchange, portions, reply>>

(* _health and _v1_models need no thread.                                  *)
AnswerAtOnce(c) ==
  /\ pc[c] = "receiving"
  /\ request[c].endpoint \in {"health", "models"}
  /\ Answer(c, 200)
  /\ UNCHANGED <<catalog, request, queue, exchange, portions>>

Refuse(c) ==
  /\ pc[c] = "receiving"
  /\ IsForwarding(request[c])
  /\ ~Accepts(request[c])
  /\ Answer(c, Refusal(request[c]))
  /\ UNCHANGED <<catalog, request, queue, exchange, portions>>

(* _model_health is a plain function: it looks at its alias in a thread.   *)
Enqueue(c) ==
  /\ pc[c] = "receiving"
  /\ request[c].endpoint = "model_health" \/ (IsForwarding(request[c]) /\ Accepts(request[c]))
  /\ pc' = [pc EXCEPT ![c] = "queued"]
  /\ queue' = Append(queue, c)
  /\ UNCHANGED <<catalog, request, exchange, portions, reply>>

Dequeue ==
  /\ queue # << >>
  /\ Cardinality({c \in Calls : pc[c] \in Running}) < Threads
  /\ pc' = [pc EXCEPT ![Head(queue)] = "opening"]
  /\ queue' = Tail(queue)
  /\ UNCHANGED <<catalog, request, exchange, portions, reply>>

-----------------------------------------------------------------------------
(* The thread                                                              *)

Unavailable(c, status) == Answer(c, IF IsForwarding(request[c]) THEN status ELSE 503)

RefuseHealth(c) ==
  /\ pc[c] = "opening"
  /\ request[c].endpoint = "model_health"
  /\ request[c].alias \notin catalog.local
  /\ End(c, IF request[c].alias \in catalog.online THEN 400 ELSE 404, request[c].alias, "none")
  /\ UNCHANGED <<catalog, request, queue, exchange, portions>>

(* _get_hostname, for an alias that no local server has.                   *)
HasProvider(alias) == alias = "gpt-4o"

NeedsKey(r) == IsForwarding(r) /\ r.alias = "gpt-4o"

Opens(r) ==
  /\ IsForwarding(r) => r.alias \in catalog.local \/ HasProvider(r.alias)
  /\ NeedsKey(r) => catalog.keyed
  /\ r.endpoint = "model_health" => r.alias \in catalog.local

(* RuntimeError or KeyError before the try: Internal Server Error.         *)
OpeningRaises(c) ==
  /\ pc[c] = "opening"
  /\ IsForwarding(request[c])
  /\ ~Opens(request[c])
  /\ Answer(c, 500)
  /\ UNCHANGED <<catalog, request, queue, exchange, portions>>

Open(c) ==
  /\ pc[c] = "opening"
  /\ Opens(request[c])
  /\ pc' = [pc EXCEPT ![c] = "connecting"]
  /\ UNCHANGED <<catalog, request, queue, exchange, portions, reply>>

(* Mutation: every request carries the key, when there is one.             *)
ExchangeWithKey(r) ==
  [ server |-> IF r.alias \in catalog.local THEN r.alias ELSE "api.openai.com",
    tunnel |-> r.alias \notin catalog.local, credential |-> IsForwarding(r) /\ catalog.keyed,
    status |-> 0 ]

(* _create_connection and the headers: a local model's own server, or the  *)
(* provider through a tunnel of Squid's.                                   *)
Exchange(r) ==
  [ server |-> IF r.alias \in catalog.local THEN r.alias ELSE "api.openai.com",
    tunnel |-> r.alias \notin catalog.local, credential |-> NeedsKey(r), status |-> 0 ]

SendOn(c) ==
  /\ pc[c] = "connecting"
  /\ pc' = [pc EXCEPT ![c] = "awaiting"]
  /\ exchange' = [exchange EXCEPT ![c] = Exchange(request[c])]
  /\ UNCHANGED <<catalog, request, queue, portions, reply>>

(* OSError or HTTPException: no such host, a refused connection or tunnel, *)
(* a reset.                                                                *)
CommunicationFails(c) ==
  /\ pc[c] \in Running \ {"opening"}
  /\ Unavailable(c, 502)
  /\ UNCHANGED <<catalog, request, queue, exchange, portions>>

(* A socket operation took 600 s, or 30 s for a health check.              *)
TimesOut(c) ==
  /\ pc[c] \in Running \ {"opening"}
  /\ Unavailable(c, 504)
  /\ UNCHANGED <<catalog, request, queue, exchange, portions>>

Passed == {400, 413, 422, 429, 503}

IsSuccess(status) == status = 200

ReceiveStatus(c, status) ==
  /\ pc[c] = "awaiting"
  /\ exchange' = [exchange EXCEPT ![c].status = status]
  /\ IF IsSuccess(status)
     THEN pc' = [pc EXCEPT ![c] = "reading"] /\ UNCHANGED reply
     ELSE Unavailable(c, IF status \in Passed THEN status ELSE 502)
  /\ UNCHANGED <<catalog, request, queue, portions>>

(* Mutation: the answer is read to its end, however long it is.            *)
ReadPortionOfAny(c) ==
  /\ pc[c] = "reading"
  /\ portions' = [portions EXCEPT ![c] = (@ + 1) % (MaxPortions + 1)]
  /\ UNCHANGED <<catalog, request, pc, queue, exchange, reply>>

(* response.read(limit + 1)                                                *)
ReadPortion(c) ==
  /\ pc[c] = "reading"
  /\ portions[c] <= MaxPortions
  /\ portions' = [portions EXCEPT ![c] = @ + 1]
  /\ UNCHANGED <<catalog, request, pc, queue, exchange, reply>>

TooLarge(c) ==
  /\ pc[c] = "reading"
  /\ portions[c] > MaxPortions
  /\ Answer(c, 502)
  /\ UNCHANGED <<catalog, request, queue, exchange, portions>>

Fits(endpoint, body) ==
  \/ endpoint = "chat" /\ body = "completion"
  \/ endpoint = "responses" /\ body = "response"
  \/ endpoint = "model_health" /\ body = "ok"

(* What is wrong with a body that does not fit.  A number or text that     *)
(* JSONResponse cannot encode is found in the same try.                    *)
Misfit(endpoint, body) ==
  IF body = "nested" THEN 500
  ELSE IF endpoint = "model_health" /\ body \notin {"array", "invalid", "unencodable"} THEN 503
  ELSE 502

ReadEnd(c, body) ==
  /\ pc[c] = "reading"
  /\ portions[c] <= MaxPortions
  /\ IF Fits(request[c].endpoint, body)
     THEN End(c, 200, request[c].alias, body)
     ELSE Answer(c, Misfit(request[c].endpoint, body))
  /\ UNCHANGED <<catalog, request, queue, exchange, portions>>

-----------------------------------------------------------------------------

Handle(c) == AnswerAtOnce(c) \/ Refuse(c) \/ Enqueue(c)

Thread(c) ==
  \/ RefuseHealth(c) \/ OpeningRaises(c) \/ Open(c) \/ SendOn(c)
  \/ CommunicationFails(c) \/ TimesOut(c) \/ (\E status \in Statuses : ReceiveStatus(c, status))
  \/ ReadPortion(c) \/ TooLarge(c) \/ (\E body \in Bodies : ReadEnd(c, body))

Finished ==
  (\A c \in Calls : pc[c] \in {"receiving", "ended"}) /\ UNCHANGED vars

Next ==
  \/ \E c \in Calls : Send(c) \/ Leave(c) \/ Handle(c) \/ Thread(c)
  \/ Dequeue \/ Finished

(* A thread goes on: whatever the server does or omits, the socket answers *)
(* or times out.  A client need not finish its request.                    *)
Fairness == WF_vars(Dequeue) /\ \A c \in Calls : WF_vars(Thread(c))

Spec == Init /\ [][Next]_vars
FairSpec == Spec /\ Fairness

-----------------------------------------------------------------------------
(* Properties.                                                             *)

(* No server sees a request of which the broker would not answer for every *)
(* field, and a request is sent to no server but its model's.              *)
OnlyItsServerIsAsked ==
  \A c \in Calls : exchange[c] # NoExchange =>
    /\ request[c].endpoint # "model_health" =>
         /\ request[c].endpoint \in {"chat", "responses"} /\ request[c].flaws = {}
         /\ request[c].options # "none" =>
              request[c].endpoint = "chat" /\ request[c].alias = "qwen-3-small"
    /\ \/ request[c].alias \in catalog.local /\ exchange[c].server = request[c].alias
       \/ /\ request[c].alias \in catalog.online \ catalog.local
          /\ exchange[c].server = "api.openai.com" /\ exchange[c].tunnel

(* The provider's key goes to the provider, unless a local server has been *)
(* given the name of the provider's model.                                 *)
KeyGoesToItsProvider ==
  \A c \in Calls : exchange[c].credential =>
    /\ request[c].alias = "gpt-4o"
    /\ "gpt-4o" \notin catalog.local => exchange[c].server = "api.openai.com" /\ exchange[c].tunnel

(* What a caller takes for a completion, a response or a healthy model is  *)
(* one, came in full and with a 200 from the server it was asked of, and   *)
(* bears the alias of its request: no failure on the way is passed off as  *)
(* an answer.                                                              *)
SuccessIsTheModels ==
  \A c \in Calls : reply[c].status = 200 /\ reply[c].model # "none" =>
    /\ reply[c].model = request[c].alias
    /\ Fits(request[c].endpoint, reply[c].body)
    /\ exchange[c].status = 200 /\ portions[c] <= MaxPortions

(* What the broker sends, to whom, and what it hands back.                 *)
ExchangesAreFaithful == OnlyItsServerIsAsked /\ KeyGoesToItsProvider /\ SuccessIsTheModels

(* What waits for a thread, or has one, ends: a silent server is cut off   *)
(* by the time-outs, one that never stops sending by the limit on the size *)
(* of its answer, and the threads are given out in turn.  http.client is   *)
(* idealized: it ends by itself on what comes before and behind a body,    *)
(* although one "100 Continue" after the other, or trailer lines without   *)
(* end, would keep it reading where no limit of the broker applies.        *)
RequestsEnd ==
  \A c \in Calls : (pc[c] \in {"queued"} \cup Running) ~> (pc[c] = "ended")

=============================================================================
