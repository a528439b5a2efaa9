--------------------------- MODULE LlmBrokerProofs ---------------------------
(***************************************************************************)
(* Proofs about LlmBroker, for any number of calls, threads and statuses,  *)
(* any menu and any catalog.                                               *)
(***************************************************************************)
EXTENDS LlmBroker, TLAPS

(* The steps of a call's own, apart from those that move the queue.        *)
LEMMA Steps ==
  ASSUME [Next]_vars, ~UNCHANGED vars, ~Dequeue
  PROVE  \E c \in Calls : Send(c) \/ Leave(c) \/ Handle(c) \/ Thread(c)
BY DEF Next, Finished

(* The types of every variable, for all constants.                         *)
THEOREM BrokerTypes == Spec => []TypeOK
<1>1. Init => TypeOK
  BY PoolAssumption DEF Init, TypeOK, NoExchange, NoReply, Exchanges, Replies
<1>2. TypeOK /\ [Next]_vars => TypeOK'
  <2> SUFFICES ASSUME TypeOK, [Next]_vars PROVE TypeOK'
    OBVIOUS
  <2>a. \A c \in Calls : request[c].alias \in Names
    BY MenuAssumption DEF TypeOK, Requests
  <2>b. ASSUME NEW c \in Calls, NEW status \in Nat, NEW model \in Names \cup {"none"},
               NEW body \in Bodies \cup {"none"}, End(c, status, model, body), UNCHANGED <<catalog, request, queue, portions>>,
               exchange' \in [Calls -> Exchanges]
        PROVE  TypeOK'
    BY <2>b DEF End, TypeOK, Replies
  <2>c. ASSUME NEW c \in Calls, NEW status \in Nat, Answer(c, status),
               UNCHANGED <<catalog, request, queue, portions>>,
               exchange' \in [Calls -> Exchanges]
        PROVE  TypeOK'
    BY <2>c, <2>b DEF Answer
  <2>d. exchange' = exchange => exchange' \in [Calls -> Exchanges]
    BY DEF TypeOK
  <2>1. CASE UNCHANGED vars
    BY <2>1 DEF vars, TypeOK
  <2>2. CASE Dequeue
    BY <2>2 DEF Dequeue, TypeOK, Running
  <2>3. ASSUME NEW c \in Calls, Send(c) \/ Leave(c) \/ Open(c) PROVE TypeOK'
    BY <2>3 DEF Send, Leave, Open, TypeOK, Running
  <2>11. ASSUME NEW c \in Calls, Enqueue(c) PROVE TypeOK'
    BY <2>11 DEF Enqueue, TypeOK
  <2>4. ASSUME NEW c \in Calls, AnswerAtOnce(c) \/ Refuse(c) \/ OpeningRaises(c) \/ TooLarge(c)
        PROVE  TypeOK'
    BY <2>4, <2>c, <2>d DEF AnswerAtOnce, Refuse, OpeningRaises, TooLarge, Refusal
  <2>5. ASSUME NEW c \in Calls, RefuseHealth(c) PROVE TypeOK'
    BY <2>5, <2>a, <2>b, <2>d DEF RefuseHealth
  <2>6. ASSUME NEW c \in Calls, CommunicationFails(c) \/ TimesOut(c) PROVE TypeOK'
    BY <2>6, <2>c, <2>d DEF CommunicationFails, TimesOut, Unavailable
  <2>7. ASSUME NEW c \in Calls, SendOn(c) PROVE TypeOK'
    <3>1. Exchange(request[c]) \in Exchanges
      BY <2>a DEF Exchange, Exchanges, NeedsKey, IsForwarding
    <3> QED
      BY <2>7, <3>1 DEF SendOn, TypeOK, Running
  <2>8. ASSUME NEW c \in Calls, NEW status \in Statuses, ReceiveStatus(c, status) PROVE TypeOK'
    <3>1. status \in Nat
      BY StatusesAssumption
    <3>2. exchange' \in [Calls -> Exchanges]
      BY <2>8, <3>1 DEF ReceiveStatus, TypeOK, Exchanges
    <3>3. CASE IsSuccess(status)
      BY <2>8, <3>2, <3>3 DEF ReceiveStatus, TypeOK, Running
    <3>4. CASE ~IsSuccess(status)
      BY <2>8, <3>1, <3>2, <3>4, <2>c DEF ReceiveStatus, Unavailable
    <3> QED
      BY <3>3, <3>4
  <2>9. ASSUME NEW c \in Calls, ReadPortion(c) PROVE TypeOK'
    BY <2>9, PoolAssumption DEF ReadPortion, TypeOK
  <2>10. ASSUME NEW c \in Calls, NEW body \in Bodies, ReadEnd(c, body) PROVE TypeOK'
    <3>1. Misfit(request[c].endpoint, body) \in Nat
      BY DEF Misfit
    <3> QED
      BY <2>10, <3>1, <2>a, <2>b, <2>c, <2>d DEF ReadEnd
  <2> QED
    BY <2>1, <2>2, <2>3, <2>4, <2>5, <2>6, <2>7, <2>8, <2>9, <2>10, <2>11,
      Steps DEF Handle, Thread
<1> QED
  BY <1>1, <1>2, PTL DEF Spec

-----------------------------------------------------------------------------
(* What holds of a call at every point of its way.                         *)

(* A call waits once, and is marked so.                                    *)
QueueInv ==
  /\ \A i \in DOMAIN queue : pc[queue[i]] = "queued"
  /\ \A i, j \in DOMAIN queue : queue[i] = queue[j] => i = j

Admitted(r) == r.endpoint = "model_health" \/ (IsForwarding(r) /\ Accepts(r))

Asked(c) ==
  /\ Admitted(request[c]) /\ Opens(request[c])
  /\ exchange[c].server = Exchange(request[c]).server
  /\ exchange[c].tunnel = Exchange(request[c]).tunnel
  /\ exchange[c].credential = Exchange(request[c]).credential

Success(c) ==
  reply[c].status = 200 /\ reply[c].model # "none" =>
    /\ reply[c].model = request[c].alias
    /\ Fits(request[c].endpoint, reply[c].body)
    /\ exchange[c].status = 200 /\ portions[c] <= MaxPortions

CallInv(c) ==
  /\ pc[c] \in {"queued"} \cup Running => Admitted(request[c])
  /\ pc[c] = "connecting" => Opens(request[c])
  /\ pc[c] \in {"awaiting", "reading"} => Asked(c)
  /\ pc[c] = "reading" => exchange[c].status = 200
  /\ exchange[c] # NoExchange => Asked(c)
  /\ pc[c] # "ended" => reply[c] = NoReply
  /\ Success(c)

BrokerInv == QueueInv /\ \A c \in Calls : CallInv(c)

(* A step of one call leaves the others as they are.                       *)
LEMMA OtherCalls ==
  ASSUME NEW c, NEW d, CallInv(d), UNCHANGED <<catalog, request>>,
         pc'[d] = pc[d], exchange'[d] = exchange[d], portions'[d] = portions[d],
         reply'[d] = reply[d]
  PROVE  CallInv(d)'
BY DEF CallInv, Success, Asked, Admitted, Opens, NeedsKey, Accepts, Aliases, Exchange

(* A step of a call that neither joins nor leaves the queue.               *)
LEMMA QueueStays ==
  ASSUME TypeOK, QueueInv, UNCHANGED queue, NEW c \in Calls, pc[c] # "queued", NEW to,
         pc' = [pc EXCEPT ![c] = to]
  PROVE  QueueInv'
BY DEF QueueInv, TypeOK

LEMMA QueueStep == TypeOK /\ QueueInv /\ [Next]_vars => QueueInv'
<1> SUFFICES ASSUME TypeOK, QueueInv, [Next]_vars PROVE QueueInv'
  OBVIOUS
<1>1. CASE UNCHANGED vars
  BY <1>1 DEF vars, QueueInv
<1>2. CASE Dequeue
  <2>1. queue \in Seq(Calls) /\ queue # << >> /\ queue' = Tail(queue)
    BY <1>2 DEF Dequeue, TypeOK
  <2>2. \A i \in DOMAIN queue' : i + 1 \in DOMAIN queue /\ queue'[i] = queue[i + 1] /\ i + 1 # 1
    BY <2>1
  <2>3. Head(queue) = queue[1] /\ 1 \in DOMAIN queue
    BY <2>1
  <2>4. \A i \in DOMAIN queue' : queue'[i] # Head(queue) /\ pc[queue'[i]] = "queued"
    BY <2>2, <2>3 DEF QueueInv
  <2>5. \A i, j \in DOMAIN queue' : queue'[i] = queue'[j] => i = j
    <3> SUFFICES ASSUME NEW i \in DOMAIN queue', NEW j \in DOMAIN queue', queue'[i] = queue'[j]
                 PROVE  i = j
      OBVIOUS
    <3>1. i + 1 = j + 1
      BY <2>2 DEF QueueInv
    <3>2. i \in Nat /\ j \in Nat
      BY <2>1
    <3> QED
      BY <3>1, <3>2
  <2>6. \A i \in DOMAIN queue' : queue'[i] \in Calls
    BY <2>1, <2>2
  <2>7. \A d \in Calls : d # Head(queue) => pc'[d] = pc[d]
    BY <1>2 DEF Dequeue, TypeOK
  <2> QED
    BY <2>4, <2>5, <2>6, <2>7 DEF QueueInv
<1>3. ASSUME NEW c \in Calls, Enqueue(c) PROVE QueueInv'
  <2>1. queue \in Seq(Calls) /\ queue' = Append(queue, c) /\ pc[c] = "receiving"
    BY <1>3 DEF Enqueue, TypeOK
  <2>2. \A d \in Calls : pc'[d] = IF d = c THEN "queued" ELSE pc[d]
    BY <1>3 DEF Enqueue, TypeOK
  <2>3. \A i \in DOMAIN queue' : (i \in DOMAIN queue /\ queue'[i] = queue[i])
                                  \/ (i = Len(queue) + 1 /\ queue'[i] = c)
    BY <2>1
  <2>4. \A i \in DOMAIN queue : queue[i] \in Calls /\ queue[i] # c
    BY <2>1 DEF QueueInv
  <2> QED
    BY <2>2, <2>3, <2>4 DEF QueueInv
<1>4. ASSUME NEW c \in Calls, Send(c) \/ Leave(c) \/ AnswerAtOnce(c) \/ Refuse(c) \/ Thread(c)
      PROVE  QueueInv'
  BY <1>4, QueueStays DEF Send, Leave, AnswerAtOnce, Refuse, Thread, RefuseHealth, OpeningRaises,
    Open, SendOn, CommunicationFails, TimesOut, ReceiveStatus, ReadPortion, TooLarge, ReadEnd,
    Unavailable, Answer, End, Running, QueueInv
<1> QED
  BY <1>1, <1>2, <1>3, <1>4, Steps DEF Handle

(* A step of call c keeps what holds of c.                                 *)
LEMMA OwnStep ==
  ASSUME TypeOK, QueueInv, NEW c \in Calls, CallInv(c),
         Send(c) \/ Leave(c) \/ Handle(c) \/ Thread(c)
  PROVE  CallInv(c)'
<1> USE DEF CallInv, Running
<1>a. UNCHANGED <<catalog, request>>
  BY DEF Send, Leave, Handle, AnswerAtOnce, Refuse, Enqueue, Thread, RefuseHealth, OpeningRaises,
    Open, SendOn, CommunicationFails, TimesOut, ReceiveStatus, ReadPortion, TooLarge, ReadEnd
<1>b. Admitted(request[c])' = Admitted(request[c]) /\ Opens(request[c])' = Opens(request[c])
  BY <1>a DEF Admitted, Opens, NeedsKey, Accepts, Aliases
<1>c. exchange'[c] = exchange[c] => Asked(c)' = Asked(c)
  BY <1>a, <1>b DEF Asked, Exchange, NeedsKey
<1>e. reply[c]' = NoReply => Success(c)'
  BY DEF Success, NoReply
<1>d. ASSUME NEW status, Answer(c, status), exchange'[c] = exchange[c] PROVE CallInv(c)'
  BY <1>c, <1>d DEF Answer, End, Success, TypeOK
<1>1. CASE Send(c) \/ Leave(c)
  BY <1>1, <1>a, <1>c DEF Send, Leave, TypeOK, Success
<1>2. CASE AnswerAtOnce(c) \/ Refuse(c) \/ OpeningRaises(c) \/ TooLarge(c)
  BY <1>2, <1>d DEF AnswerAtOnce, Refuse, OpeningRaises, TooLarge
<1>3. CASE Enqueue(c)
  BY <1>3, <1>a, <1>b, <1>c DEF Enqueue, Admitted, TypeOK, Success
<1>4. CASE RefuseHealth(c)
  BY <1>4, <1>a, <1>c DEF RefuseHealth, End, TypeOK, Success
<1>5. CASE Open(c)
  BY <1>5, <1>a, <1>b, <1>c DEF Open, TypeOK, Success
<1>6. CASE SendOn(c)
  <2>1. pc'[c] = "awaiting" /\ exchange'[c] = Exchange(request[c])
    BY <1>6 DEF SendOn, TypeOK
  <2>2. Exchange(request[c])' = Exchange(request[c])
    BY <1>a DEF Exchange, NeedsKey
  <2>3. Asked(c)'
    BY <1>6, <1>a, <1>b, <2>1, <2>2 DEF SendOn, Asked
  <2>4. Success(c)'
    BY <1>6, <1>e DEF SendOn
  <2> QED
    BY <1>6, <1>b, <2>1, <2>3, <2>4 DEF SendOn
<1>7. CASE CommunicationFails(c) \/ TimesOut(c)
  BY <1>7, <1>d DEF CommunicationFails, TimesOut, Unavailable
<1>8. ASSUME NEW status \in Statuses, ReceiveStatus(c, status) PROVE CallInv(c)'
  <2>1. pc[c] = "awaiting" /\ exchange'[c] = [exchange[c] EXCEPT !.status = status]
    BY <1>8 DEF ReceiveStatus, TypeOK
  <2>2. Asked(c)'
    BY <1>a, <1>b, <2>1 DEF Asked, Exchange, NeedsKey, TypeOK, Exchanges
  <2>3. CASE IsSuccess(status)
    BY <1>8, <1>b, <1>e, <2>1, <2>2, <2>3 DEF ReceiveStatus, IsSuccess, TypeOK, Exchanges
  <2>4. CASE ~IsSuccess(status)
    BY <1>8, <2>2, <2>4 DEF ReceiveStatus, Unavailable, Answer, End, Success, TypeOK
  <2> QED
    BY <2>3, <2>4
<1>9. CASE ReadPortion(c)
  BY <1>9, <1>b, <1>c, <1>e DEF ReadPortion, TypeOK
<1>10. ASSUME NEW body \in Bodies, ReadEnd(c, body) PROVE CallInv(c)'
  BY <1>10, <1>a, <1>c, <1>d DEF ReadEnd, End, TypeOK, Success
<1> QED
  BY <1>1, <1>2, <1>3, <1>4, <1>5, <1>6, <1>7, <1>8, <1>9, <1>10 DEF Handle, Thread

LEMMA BrokerInvariant == Spec => []BrokerInv
<1>1. Init => BrokerInv
  BY DEF Init, BrokerInv, QueueInv, CallInv, Success, Running, NoReply
<1>2. TypeOK /\ BrokerInv /\ [Next]_vars => BrokerInv'
  <2> SUFFICES ASSUME TypeOK, BrokerInv, [Next]_vars, NEW d \in Calls PROVE CallInv(d)'
    BY QueueStep DEF BrokerInv
  <2>0. QueueInv /\ CallInv(d) /\ \A c \in Calls : CallInv(c)
    BY DEF BrokerInv
  <2>1. CASE UNCHANGED vars
    BY <2>0, <2>1, OtherCalls DEF vars
  <2>2. CASE Dequeue
    <3>1. CASE d = Head(queue)
      <4>1. pc[d] = "queued"
        BY <2>0, <2>2, <3>1 DEF Dequeue, QueueInv, TypeOK
      <4>2. UNCHANGED <<catalog, request, exchange, portions, reply>> /\ pc'[d] = "opening"
        BY <2>2, <3>1 DEF Dequeue, TypeOK
      <4> QED
        BY <2>0, <4>1, <4>2 DEF CallInv, Success, Asked, Admitted, Opens, NeedsKey, Accepts,
          Aliases, Exchange, Running
    <3>2. CASE d # Head(queue)
      BY <2>0, <2>2, <3>2, OtherCalls DEF Dequeue, TypeOK
    <3> QED
      BY <3>1, <3>2
  <2>3. ASSUME NEW c \in Calls, Send(c) \/ Leave(c) \/ Handle(c) \/ Thread(c) PROVE CallInv(d)'
    <3>1. CASE d = c
      BY <2>0, <2>3, <3>1, OwnStep
    <3>2. CASE d # c
      <4>1. /\ UNCHANGED <<catalog, request>> /\ pc'[d] = pc[d] /\ exchange'[d] = exchange[d]
            /\ portions'[d] = portions[d] /\ reply'[d] = reply[d]
        BY <2>3, <3>2 DEF Send, Leave, Handle, AnswerAtOnce, Refuse, Enqueue, Thread, RefuseHealth,
          OpeningRaises, Open, SendOn, CommunicationFails, TimesOut, ReceiveStatus, ReadPortion,
          TooLarge, ReadEnd, Unavailable, Answer, End, TypeOK
      <4> QED
        BY <2>0, <4>1, OtherCalls
    <3> QED
      BY <3>1, <3>2
  <2> QED
    BY <2>1, <2>2, <2>3, Steps
<1> QED
  BY <1>1, <1>2, BrokerTypes, PTL DEF Spec

(* For any catalog, menu and number of threads, what the broker sends goes *)
(* to the request's own model, with the provider's key for the provider    *)
(* alone, and what it calls a success came from there.                     *)
THEOREM FaithfulExchanges == Spec => []ExchangesAreFaithful
<1>1. BrokerInv => ExchangesAreFaithful
  <2> SUFFICES ASSUME BrokerInv PROVE ExchangesAreFaithful
    OBVIOUS
  <2>1. ASSUME NEW c \in Calls, Asked(c)
        PROVE  /\ request[c].alias \in catalog.local =>
                    exchange[c].server = request[c].alias
               /\ request[c].alias \notin catalog.local =>
                    exchange[c].server = "api.openai.com" /\ exchange[c].tunnel
               /\ exchange[c].credential => request[c].alias = "gpt-4o"
    BY <2>1 DEF Asked, Exchange, NeedsKey
  <2>2. OnlyItsServerIsAsked
    <3> SUFFICES ASSUME NEW c \in Calls, exchange[c] # NoExchange
                 PROVE  /\ request[c].endpoint # "model_health" =>
                             IsForwarding(request[c]) /\ Accepts(request[c])
                        /\ \/ request[c].alias \in catalog.local
                           \/ request[c].alias \in catalog.online
      BY <2>1 DEF OnlyItsServerIsAsked, IsForwarding, Accepts, OptionsAreSupported, BrokerInv,
        CallInv
    <3>1. Asked(c)
      BY DEF BrokerInv, CallInv
    <3> QED
      BY <3>1 DEF Asked, Admitted, Accepts, Aliases, Opens
  <2>3. KeyGoesToItsProvider
    BY <2>1 DEF KeyGoesToItsProvider, BrokerInv, CallInv, NoExchange
  <2>4. SuccessIsTheModels
    BY DEF SuccessIsTheModels, BrokerInv, CallInv, Success
  <2> QED
    BY <2>2, <2>3, <2>4 DEF ExchangesAreFaithful
<1> QED
  BY <1>1, BrokerInvariant, PTL

=============================================================================
