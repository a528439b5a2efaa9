-------------------------- MODULE SandboxRunProofs --------------------------
(***************************************************************************)
(* Theorems about SandboxRun and ProbedSandbox for every set of declared   *)
(* capabilities and every list of LLM servers.  First the plans: each part *)
(* of SetupSequence is orderly by itself and stays so when parts are put   *)
(* together, which gives every plan the shape that SandboxLifecycle        *)
(* assumes, so that SandboxRun implements it.  Then the sandbox: what      *)
(* exists is what the calls behind the call index have made, from which    *)
(* follow where a set-up can fail and what the workload finds when it is   *)
(* started.  Last the probes: a verdict stands for what its group saw.     *)
(***************************************************************************)
EXTENDS ProbedSandbox, SequenceTheorems, TLAPS

Lifecycle == INSTANCE SandboxLifecycleProofs WITH
  Container <- Members(AllContainers),
  Network <- Members(AllNetworks),
  NoNetwork <- Offline,
  Workload <- "metisa_workload",
  LlmServer <- Members(LlmServers),
  CleanUpOrder <- AllContainers,
  NetworkOrder <- AllNetworks,
  Plans <- PlannedRuns,
  Crashable <- {"metisa_workload"},
  FixedName <- {},
  MaxFaults <- 0,
  Interruptible <- FALSE

-----------------------------------------------------------------------------
(* Sequences.                                                              *)

(* Where the elements of a concatenation come from.                        *)
LEMMA Parts ==
  ASSUME NEW S, NEW p \in Seq(S), NEW q \in Seq(S)
  PROVE  /\ p \o q \in Seq(S) /\ Len(p \o q) = Len(p) + Len(q)
         /\ Len(p) \in Nat /\ DOMAIN p = 1..Len(p)
         /\ Len(q) \in Nat /\ DOMAIN q = 1..Len(q)
         /\ DOMAIN (p \o q) = 1..Len(p) + Len(q)
         /\ \A i \in 1..Len(p) : (p \o q)[i] = p[i]
         /\ \A i \in 1..Len(q) : (p \o q)[Len(p) + i] = q[i]
BY ConcatProperties

LEMMA MembersOfConcat ==
  ASSUME NEW S, NEW p \in Seq(S), NEW q \in Seq(S)
  PROVE  /\ p \o q \in Seq(S)
         /\ Members(p \o q) = Members(p) \cup Members(q)
<1>1. /\ p \o q \in Seq(S) /\ Len(p \o q) = Len(p) + Len(q)
      /\ Len(p) \in Nat /\ Len(q) \in Nat
      /\ \A i \in 1..Len(p) : (p \o q)[i] = p[i]
      /\ \A i \in 1..Len(q) : (p \o q)[Len(p) + i] = q[i]
  BY Parts
<1>2. ASSUME NEW i \in DOMAIN (p \o q) PROVE (p \o q)[i] \in Members(p) \cup Members(q)
  <2>1. CASE i <= Len(p)
    BY <1>1, <2>1 DEF Members
  <2>2. CASE i > Len(p)
    <3>1. i - Len(p) \in 1..Len(q) /\ Len(p) + (i - Len(p)) = i
      BY <1>1, <1>2, <2>2
    <3> QED
      BY <1>1, <3>1 DEF Members
  <2> QED
    BY <1>1, <1>2, <2>1, <2>2
<1>3. ASSUME NEW i \in DOMAIN p PROVE p[i] \in Members(p \o q)
  BY <1>1, <1>3 DEF Members
<1>4. ASSUME NEW i \in DOMAIN q PROVE q[i] \in Members(p \o q)
  <2>1. Len(p) + i \in DOMAIN (p \o q)
    BY <1>1, <1>4
  <2> QED
    BY <1>1, <1>4, <2>1 DEF Members
<1> QED
  BY <1>1, <1>2, <1>3, <1>4 DEF Members

-----------------------------------------------------------------------------
(* Names.                                                                  *)

LEMMA FixedNames ==
  Members(FixedContainers) =
    { "metisa_workload", "squid_proxy", "haproxy", "mcp_server",
      "jina_reader", "code_execution", "llm_broker", "prompt_guard",
      "entity_guard", "docling", "documents", "qdrant", "embeddings",
      "otel_collector", "postgres", "agent_memory" }
<1>1. DOMAIN FixedContainers = 1..16
  BY DEF FixedContainers
<1>2. \A i \in 1..16 : \/ i = 1 \/ i = 2 \/ i = 3 \/ i = 4 \/ i = 5 \/ i = 6 \/ i = 7
                       \/ i = 8 \/ i = 9 \/ i = 10 \/ i = 11 \/ i = 12 \/ i = 13
                       \/ i = 14 \/ i = 15 \/ i = 16
  OBVIOUS
<1>3. Members(FixedContainers) =
        { FixedContainers[1], FixedContainers[2], FixedContainers[3],
          FixedContainers[4], FixedContainers[5], FixedContainers[6],
          FixedContainers[7], FixedContainers[8], FixedContainers[9],
          FixedContainers[10], FixedContainers[11], FixedContainers[12],
          FixedContainers[13], FixedContainers[14], FixedContainers[15],
          FixedContainers[16] }
  BY <1>1, <1>2 DEF Members
<1> QED
  BY <1>3 DEF FixedContainers

LEMMA NetworkNames == Members(AllNetworks) = {"workload", "backend", "egress"}
<1>1. DOMAIN AllNetworks = {1, 2, 3}
  BY DEF AllNetworks
<1> QED
  BY <1>1 DEF Members, AllNetworks

LEMMA ServerNames ==
  /\ LlmServers \in Seq(Members(LlmServers))
  /\ Members(LlmServers) \cap Members(FixedContainers) = {}
  /\ \A i, j \in DOMAIN LlmServers : LlmServers[i] = LlmServers[j] => i = j
<1>1. LlmServers \in [1..Len(LlmServers) -> STRING] /\ Len(LlmServers) \in Nat
  BY LlmServersAssumption, LenProperties
<1>2. \A i \in 1..Len(LlmServers) : LlmServers[i] \in Members(LlmServers)
  BY <1>1 DEF Members
<1>3. LlmServers \in [1..Len(LlmServers) -> Members(LlmServers)]
  BY <1>1, <1>2
<1>4. LlmServers \in Seq(Members(LlmServers))
  BY <1>1, <1>3, SeqDef
<1> QED
  BY <1>4, LlmServersAssumption DEF Members

LEMMA ContainerNames ==
  /\ AllContainers \in Seq(Members(AllContainers))
  /\ Members(AllContainers) = Members(FixedContainers) \cup Members(LlmServers)
<1> DEFINE S == Members(FixedContainers) \cup Members(LlmServers)
<1>1. FixedContainers \in Seq(S)
  <2>1. DOMAIN FixedContainers = 1..16 /\ FixedContainers \in [1..16 -> S]
    BY FixedNames DEF FixedContainers
  <2> QED
    BY <2>1, SeqDef
<1>2. LlmServers \in Seq(S)
  BY ServerNames, SeqMonotonic
<1> HIDE DEF S
<1>3. /\ FixedContainers \o LlmServers \in Seq(S)
      /\ Members(FixedContainers \o LlmServers) = Members(FixedContainers) \cup Members(LlmServers)
  BY <1>1, <1>2, MembersOfConcat
<1> QED
  BY <1>3 DEF AllContainers, S

-----------------------------------------------------------------------------
(* Sequences of calls.                                                     *)

Call == Lifecycle!Step

NetName == Members(AllNetworks) \cup {Offline}

(* The calls that belong together follow one another: what is recorded,    *)
(* connected or started has been created, what is looked into has been     *)
(* started; what is staged, sealed or created will be recorded with no     *)
(* other call in between, and the LLM servers are listed as soon as all    *)
(* are recorded.                                                           *)
Backed(p, i) ==
  /\ p[i].op \in {"record", "connect", "start"} =>
       \E j \in DOMAIN p : j < i /\ p[j].op = "create" /\ p[j].on = p[i].on
  /\ p[i].op \in {"health", "verify", "provision"} /\ p[i].on # W =>
       \E j \in DOMAIN p : j < i /\ p[j].op = "start" /\ p[j].on = p[i].on

Closed(p, i) ==
  p[i].op \in {"stage", "seal", "create"} =>
    \E j \in DOMAIN p :
      /\ i < j /\ p[j].op = "record"
      /\ \A k \in i..j : p[k].op \in Lifecycle!Creation /\ p[k].on = p[i].on

Listed(p, i) ==
  p[i].on \in Members(LlmServers) /\ p[i].op = "create" =>
    \E j \in DOMAIN p :
      /\ i < j /\ p[j].op = "extend"
      /\ \A k \in i..j : p[k].op \in Lifecycle!Creation \cup {"extend"}

Orderly(p) ==
  p \in Seq(Call) /\ \A i \in DOMAIN p : Backed(p, i) /\ Closed(p, i) /\ Listed(p, i)

(* No call is made twice.                                                  *)
Once(p) == \A i, j \in DOMAIN p : p[i] = p[j] => i = j

LEMMA OnceConcat ==
  ASSUME NEW S, NEW p \in Seq(S), NEW q \in Seq(S), Once(p), Once(q),
         Members(p) \cap Members(q) = {}
  PROVE  Once(p \o q)
<1> DEFINE r == p \o q
<1>1. /\ Len(p) \in Nat /\ Len(q) \in Nat
      /\ DOMAIN p = 1..Len(p) /\ DOMAIN q = 1..Len(q) /\ DOMAIN r = 1..Len(p) + Len(q)
      /\ \A i \in 1..Len(p) : r[i] = p[i]
      /\ \A i \in 1..Len(q) : r[Len(p) + i] = q[i]
  BY Parts
<1> HIDE DEF r
<1>2. \A i \in DOMAIN r : i \in DOMAIN p \/ (i - Len(p) \in DOMAIN q /\ Len(p) + (i - Len(p)) = i)
  BY <1>1
<1>3. \A i \in DOMAIN p : r[i] = p[i] /\ r[i] \in Members(p)
  BY <1>1 DEF Members
<1>4. \A i \in DOMAIN r : i - Len(p) \in DOMAIN q =>
         r[i] = q[i - Len(p)] /\ r[i] \in Members(q)
  <2> SUFFICES ASSUME NEW i \in DOMAIN r, i - Len(p) \in DOMAIN q
               PROVE  r[i] = q[i - Len(p)] /\ r[i] \in Members(q)
    OBVIOUS
  <2>1. r[Len(p) + (i - Len(p))] = q[i - Len(p)] /\ Len(p) + (i - Len(p)) = i
    BY <1>1
  <2> QED
    BY <2>1 DEF Members
<1> SUFFICES ASSUME NEW i \in DOMAIN r, NEW j \in DOMAIN r, r[i] = r[j]
             PROVE  i = j
  BY DEF Once, r
<1>5. CASE i \in DOMAIN p /\ j \in DOMAIN p
  BY <1>3, <1>5 DEF Once
<1>6. CASE i - Len(p) \in DOMAIN q /\ j - Len(p) \in DOMAIN q
  <2>1. i - Len(p) = j - Len(p)
    BY <1>4, <1>6 DEF Once
  <2> QED
    BY <1>1, <2>1
<1> QED
  BY <1>2, <1>3, <1>4, <1>5, <1>6

LEMMA PrefixKept ==
  ASSUME NEW p, NEW q \in Seq(Call), Orderly(p)
  PROVE  \A i \in DOMAIN p :
           Backed(p \o q, i) /\ Closed(p \o q, i) /\ Listed(p \o q, i)
<1> DEFINE r == p \o q
<1>0. p \in Seq(Call)
  BY DEF Orderly
<1>1. /\ DOMAIN p = 1..Len(p) /\ DOMAIN r = 1..Len(p) + Len(q)
      /\ Len(p) \in Nat /\ Len(q) \in Nat
      /\ \A i \in 1..Len(p) : r[i] = p[i]
  BY <1>0, Parts
<1> HIDE DEF r
<1>3. \A i \in DOMAIN p : i \in DOMAIN r /\ r[i] = p[i]
  BY <1>1
<1>5. \A i, j \in DOMAIN p : \A k \in i..j : r[k] = p[k]
  BY <1>1
<1> SUFFICES ASSUME NEW i \in DOMAIN p PROVE Backed(r, i) /\ Closed(r, i) /\ Listed(r, i)
  BY DEF r
<1>6. Backed(p, i) /\ Closed(p, i) /\ Listed(p, i)
  BY DEF Orderly
<1>7. Backed(r, i)
  BY <1>3, <1>6 DEF Backed
<1>8. Closed(r, i)
  BY <1>3, <1>5, <1>6 DEF Closed
<1>9. Listed(r, i)
  BY <1>3, <1>5, <1>6 DEF Listed
<1> QED
  BY <1>7, <1>8, <1>9

LEMMA OrderlyConcat ==
  ASSUME NEW p, NEW q, Orderly(p), Orderly(q)
  PROVE  Orderly(p \o q)
<1> DEFINE r == p \o q
<1>1. /\ p \in Seq(Call) /\ q \in Seq(Call)
      /\ r \in Seq(Call) /\ Len(r) = Len(p) + Len(q)
      /\ DOMAIN p = 1..Len(p) /\ DOMAIN q = 1..Len(q) /\ DOMAIN r = 1..Len(r)
      /\ Len(p) \in Nat /\ Len(q) \in Nat
      /\ \A i \in 1..Len(p) : r[i] = p[i]
      /\ \A i \in 1..Len(q) : r[Len(p) + i] = q[i]
  BY ConcatProperties DEF Orderly
<1> HIDE DEF r
<1>2. \A i \in DOMAIN q : /\ Len(p) + i \in DOMAIN r /\ r[Len(p) + i] = q[i]
                          /\ \A j \in DOMAIN q : i < j <=> Len(p) + i < Len(p) + j
  BY <1>1
<1>3. \A i \in DOMAIN p : i \in DOMAIN r /\ r[i] = p[i]
  BY <1>1
<1>4. \A i, j \in DOMAIN q : \A k \in Len(p) + i .. Len(p) + j :
         k - Len(p) \in i..j /\ r[k] = q[k - Len(p)]
  <2> TAKE i, j \in DOMAIN q
  <2> TAKE k \in Len(p) + i .. Len(p) + j
  <2>1. k - Len(p) \in 1..Len(q) /\ Len(p) + (k - Len(p)) = k /\ k - Len(p) \in i..j
    BY <1>1
  <2> QED
    BY <1>1, <2>1
<1>6. \A i \in DOMAIN p : Backed(r, i) /\ Closed(r, i) /\ Listed(r, i)
  BY <1>1, PrefixKept DEF r
<1>7. ASSUME NEW i \in DOMAIN q
      PROVE  Backed(r, Len(p) + i) /\ Closed(r, Len(p) + i) /\ Listed(r, Len(p) + i)
  <2>1. Backed(q, i) /\ Closed(q, i) /\ Listed(q, i)
    BY DEF Orderly
  <2>2. Backed(r, Len(p) + i)
    BY <1>2, <2>1 DEF Backed
  <2>3. Closed(r, Len(p) + i)
    BY <1>2, <1>4, <2>1 DEF Closed
  <2>4. Listed(r, Len(p) + i)
    BY <1>2, <1>4, <2>1 DEF Listed
  <2> QED
    BY <2>2, <2>3, <2>4
<1>8. \A i \in DOMAIN r : i \in DOMAIN p \/ \E j \in DOMAIN q : i = Len(p) + j
  <2> TAKE i \in DOMAIN r
  <2>1. i <= Len(p) \/ (i - Len(p) \in 1..Len(q) /\ i = Len(p) + (i - Len(p)))
    BY <1>1
  <2> QED
    BY <1>1, <2>1
<1> QED
  BY <1>1, <1>6, <1>7, <1>8 DEF Orderly, r

-----------------------------------------------------------------------------
(* The calls of a single container.                                        *)

Plain(op, c) == [op |-> op, on |-> c, net |-> Offline]

LEMMA OneCall ==
  ASSUME NEW op \in Lifecycle!Operation, NEW c \in Members(AllContainers)
  PROVE  /\ Plain(op, c) \in Call
         /\ On(op, c) \in Seq(Call) /\ Len(On(op, c)) = 1
         /\ On(op, c)[1] = [op |-> op, on |-> c, net |-> Offline]
         /\ Members(On(op, c)) = {Plain(op, c)}
         /\ Once(On(op, c))
<1> DEFINE s == [op |-> op, on |-> c, net |-> Offline]
<1>1. s \in Call
  BY DEF Call, Lifecycle!Step
<1>2. <<s>> \in Seq(Call) /\ Len(<<s>>) = 1 /\ <<s>>[1] = s
  BY <1>1
<1>3. Members(<<s>>) = {s} /\ Once(<<s>>)
  BY <1>2 DEF Members, Once
<1> QED
  BY <1>1, <1>2, <1>3 DEF On, Plain

(* One more call, its prerequisites being met.                             *)
LEMMA AppendCall ==
  ASSUME NEW p, Orderly(p),
         NEW op \in Lifecycle!Operation, op \notin Lifecycle!Creation,
         NEW c \in Members(AllContainers),
         op = "start" => \E s \in Members(p) : s.op = "create" /\ s.on = c,
         op \in {"health", "verify", "provision"} /\ c # W =>
           \E s \in Members(p) : s.op = "start" /\ s.on = c
  PROVE  /\ Orderly(p \o On(op, c))
         /\ Members(p \o On(op, c)) = Members(p) \cup {Plain(op, c)}
         /\ Once(p) /\ Plain(op, c) \notin Members(p) => Once(p \o On(op, c))
<1> DEFINE q == On(op, c)
           r == p \o q
<1>1. /\ q \in Seq(Call) /\ Len(q) = 1 /\ q[1].op = op /\ q[1].on = c
      /\ Members(q) = {Plain(op, c)} /\ Once(q)
  <2>1. q[1] = [op |-> op, on |-> c, net |-> Offline]
    BY OneCall
  <2>2. q[1].op = op /\ q[1].on = c
    BY <2>1
  <2> QED
    BY <2>2, OneCall
<1> HIDE DEF q
<1>2. p \in Seq(Call)
  BY DEF Orderly
<1>3. q \in Seq(Call)
  BY <1>1
<1>4. r \in Seq(Call) /\ Members(r) = Members(p) \cup Members(q)
  BY <1>2, <1>3, MembersOfConcat
<1>5. Once(p) /\ Plain(op, c) \notin Members(p) => Once(r)
  BY <1>1, <1>2, OnceConcat
<1>6. /\ Len(p) \in Nat /\ DOMAIN p = 1..Len(p) /\ DOMAIN r = 1..Len(p) + Len(q)
      /\ \A i \in 1..Len(p) : r[i] = p[i]
      /\ \A i \in 1..Len(q) : r[Len(p) + i] = q[i]
  BY <1>2, <1>3, Parts
<1>7. \A i \in DOMAIN p : Backed(r, i) /\ Closed(r, i) /\ Listed(r, i)
  BY <1>3, PrefixKept
<1> HIDE DEF r
<1> DEFINE e == Len(p) + 1
<1>8. r[e].op = op /\ r[e].on = c
  <2>1. \A i \in 1..1 : r[Len(p) + i] = q[i]
    BY <1>1, <1>6
  <2>2. r[e] = q[1]
    BY <2>1
  <2> QED
    BY <1>1, <2>2
<1>9. \A s \in Members(p) : \E j \in DOMAIN r : j < e /\ r[j] = s
  BY <1>1, <1>6 DEF Members
<1>10. Backed(r, e) /\ Closed(r, e) /\ Listed(r, e)
  <2> HIDE DEF e
  <2>1. Backed(r, e)
    <3>1. CASE op = "start"
      BY <1>8, <1>9, <3>1 DEF Backed
    <3>2. CASE op \in {"health", "verify", "provision"}
      BY <1>8, <1>9, <3>2 DEF Backed
    <3>3. CASE op \notin {"start", "health", "verify", "provision"}
      BY <1>8, <3>3 DEF Backed, Lifecycle!Creation
    <3> QED
      BY <3>1, <3>2, <3>3
  <2>2. Closed(r, e) /\ Listed(r, e)
    BY <1>8 DEF Closed, Listed, Lifecycle!Creation
  <2> QED
    BY <2>1, <2>2
<1>11. \A i \in DOMAIN r : i \in DOMAIN p \/ i = e
  BY <1>1, <1>6
<1>12. Orderly(r)
  BY <1>4, <1>7, <1>10, <1>11 DEF Orderly
<1> QED
  BY <1>1, <1>4, <1>5, <1>12 DEF q, r

(* docker create on the first network, docker connect for every other,     *)
(* set_created.                                                            *)
LEMMA CreatedCalls ==
  ASSUME NEW c \in Members(AllContainers), NEW nets \in Seq(NetName), nets # <<>>
  PROVE  /\ Created(c, nets) \in Seq(Call) /\ Len(Created(c, nets)) = Len(nets) + 1
         /\ Created(c, nets)[1] = [op |-> "create", on |-> c, net |-> nets[1]]
         /\ \A k \in 2..Len(nets) :
              Created(c, nets)[k] = [op |-> "connect", on |-> c, net |-> nets[k]]
         /\ Created(c, nets)[Len(nets) + 1] = [op |-> "record", on |-> c, net |-> Offline]
<1> DEFINE create  == OnNetwork("create", c, nets[1])
           connect == Connect(c, nets)
           n       == Len(nets)
<1>1. n \in Nat /\ n >= 1 /\ \A k \in 1..n : nets[k] \in NetName
  BY EmptySeq, ElementOfSeq
<1>2. /\ create \in Seq(Call) /\ Len(create) = 1
      /\ create[1] = [op |-> "create", on |-> c, net |-> nets[1]]
  BY <1>1 DEF OnNetwork, Call, Lifecycle!Step, Lifecycle!Operation, NetName
<1>3. /\ connect \in Seq(Call) /\ Len(connect) = n - 1
      /\ \A k \in 1..n - 1 : connect[k] = [op |-> "connect", on |-> c, net |-> nets[k + 1]]
  <2>1. \A k \in 1..n - 1 : [op |-> "connect", on |-> c, net |-> nets[k + 1]] \in Call
    BY <1>1 DEF Call, Lifecycle!Step, Lifecycle!Operation, NetName
  <2>2. n - 1 \in Nat
    BY <1>1
  <2> QED
    BY <2>1, <2>2 DEF Connect
<1>4. /\ On("record", c) \in Seq(Call) /\ Len(On("record", c)) = 1
      /\ On("record", c)[1] = [op |-> "record", on |-> c, net |-> Offline]
  BY OneCall DEF Lifecycle!Operation
<1> HIDE DEF create, connect, n
<1> DEFINE made == create \o connect
           all  == made \o On("record", c)
<1>t. create \in Seq(Call) /\ connect \in Seq(Call) /\ On("record", c) \in Seq(Call)
  BY <1>2, <1>3, <1>4
<1>5. /\ made \in Seq(Call) /\ Len(made) = Len(create) + Len(connect)
      /\ \A k \in 1..Len(create) : made[k] = create[k]
      /\ \A k \in 1..Len(connect) : made[Len(create) + k] = connect[k]
  BY <1>t, Parts
<1> HIDE DEF made
<1>s. made \in Seq(Call)
  BY <1>5
<1>a. /\ all \in Seq(Call) /\ Len(all) = Len(made) + Len(On("record", c))
      /\ \A k \in 1..Len(made) : all[k] = made[k]
      /\ \A k \in 1..Len(On("record", c)) : all[Len(made) + k] = On("record", c)[k]
  BY <1>s, <1>t, Parts
<1> HIDE DEF all
<1>b. Len(made) = n /\ Len(all) = n + 1
  <2>1. Len(create) = 1 /\ Len(connect) = n - 1 /\ Len(On("record", c)) = 1
    BY <1>2, <1>3, <1>4
  <2>2. Len(made) = Len(create) + Len(connect) /\ Len(all) = Len(made) + Len(On("record", c))
    BY <1>5, <1>a
  <2>3. n + 0 = n /\ 1 + (n - 1) = n
    BY <1>1
  <2> QED
    BY <2>1, <2>2, <2>3
<1>c. made[1] = create[1] /\ \A k \in 2..n : made[k] = connect[k - 1]
  <2>1. \A k \in 2..n : k - 1 \in 1..n - 1 /\ 1 + (k - 1) = k
    BY <1>1
  <2>2. /\ \A k \in 1..1 : made[k] = create[k]
        /\ \A k \in 1..n - 1 : made[1 + k] = connect[k]
    BY <1>2, <1>3, <1>5
  <2>3. made[1] = create[1]
    BY <2>2
  <2> QED
    BY <2>1, <2>2, <2>3
<1>6. all[n + 1] = On("record", c)[1] /\ \A k \in 1..n : all[k] = made[k]
  <2>1. \A k \in 1..1 : all[n + k] = On("record", c)[k]
    BY <1>4, <1>a, <1>b
  <2>2. all[n + 1] = On("record", c)[1]
    BY <2>1
  <2> QED
    BY <1>a, <1>b, <2>2
<1>7. all[1] = create[1] /\ \A k \in 2..n : all[k] = [op |-> "connect", on |-> c, net |-> nets[k]]
  <2>1. all[1] = create[1]
    BY <1>1, <1>6, <1>c
  <2>2. ASSUME NEW k \in 2..n
        PROVE  all[k] = [op |-> "connect", on |-> c, net |-> nets[k]]
    <3>1. k - 1 \in 1..n - 1 /\ (k - 1) + 1 = k /\ k \in 1..n
      BY <1>1
    <3>2. all[k] = connect[k - 1]
      BY <1>6, <1>c, <3>1
    <3> QED
      BY <1>3, <3>1, <3>2
  <2> QED
    BY <2>1, <2>2
<1>8. Created(c, nets) = all
  BY DEF Created, all, made, create, connect
<1> QED
  BY <1>2, <1>4, <1>6, <1>7, <1>8, <1>a, <1>b DEF n

Making(c, nets) ==
  {[op |-> "create", on |-> c, net |-> nets[1]]}
    \cup {[op |-> "connect", on |-> c, net |-> nets[k]] : k \in 2..Len(nets)}
    \cup {Plain("record", c)}

(* Calls that stage or seal for the container, or none, and then create it *)
(* are orderly.                                                            *)
LEMMA MakingIsOrderly ==
  ASSUME NEW c \in Members(AllContainers), c \notin Members(LlmServers),
         NEW front \in Seq(Call), Once(front),
         \A i \in DOMAIN front : front[i].on = c /\ front[i].op \in {"stage", "seal"},
         NEW nets \in Seq(NetName), nets # <<>>, Once(nets)
  PROVE  /\ Orderly(front \o Created(c, nets))
         /\ Members(front \o Created(c, nets)) = Members(front) \cup Making(c, nets)
         /\ Once(front \o Created(c, nets))
<1> DEFINE m == Created(c, nets)
           n == Len(nets)
           f == Len(front)
           r == front \o m
<1>1. n \in Nat /\ n >= 1 /\ f \in Nat
  BY EmptySeq, LenProperties
<1>2. /\ m \in Seq(Call) /\ Len(m) = n + 1 /\ DOMAIN m = 1..n + 1
      /\ m[1] = [op |-> "create", on |-> c, net |-> nets[1]]
      /\ \A k \in 2..n : m[k] = [op |-> "connect", on |-> c, net |-> nets[k]]
      /\ m[n + 1] = [op |-> "record", on |-> c, net |-> Offline]
  BY CreatedCalls, LenProperties
<1> HIDE DEF m, n, f
<1>3. /\ r \in Seq(Call) /\ Len(r) = f + n + 1 /\ DOMAIN r = 1..f + n + 1
      /\ \A i \in 1..f : r[i] = front[i]
      /\ \A k \in 1..n + 1 : r[f + k] = m[k]
  <2>1. f + (n + 1) = f + n + 1
    BY <1>1
  <2>0. m \in Seq(Call)
    BY <1>2
  <2>2. /\ front \o m \in Seq(Call) /\ Len(front \o m) = f + Len(m)
        /\ DOMAIN (front \o m) = 1..f + Len(m)
        /\ \A k \in 1..f : (front \o m)[k] = front[k]
        /\ \A k \in 1..Len(m) : (front \o m)[f + k] = m[k]
    BY <2>0, Parts DEF f
  <2> QED
    BY <1>2, <2>1, <2>2
<1> HIDE DEF r
<1>4. r[f + 1].op = "create" /\ r[f + n + 1].op = "record"
  <2>1. f + n + 1 = f + (n + 1) /\ n + 1 \in 1..n + 1 /\ 1 \in 1..n + 1
    BY <1>1
  <2> QED
    BY <1>2, <1>3, <2>1
<1>5. ASSUME NEW i \in DOMAIN r
      PROVE  /\ r[i].on = c /\ r[i].op \in Lifecycle!Creation
             /\ r[i].op \in {"record", "connect"} => f + 1 < i
  <2>1. CASE i \in 1..f
    BY <1>1, <1>3, <2>1, LenProperties DEF Lifecycle!Creation, f
  <2>2. CASE i = f + 1
    <3>1. r[i] = m[1]
      BY <1>1, <1>3, <2>2
    <3> QED
      BY <1>2, <3>1 DEF Lifecycle!Creation
  <2>3. CASE i > f + 1
    <3>1. i - f \in 2..n + 1 /\ f + (i - f) = i
      BY <1>1, <1>3, <2>3
    <3>2. r[i] = m[i - f]
      BY <1>1, <1>3, <3>1
    <3>3. i - f \in 2..n \/ i - f = n + 1
      BY <1>1, <3>1
    <3>4. CASE i - f \in 2..n
      <4>1. r[i] = [op |-> "connect", on |-> c, net |-> nets[i - f]]
        BY <1>2, <3>2, <3>4
      <4> QED
        BY <2>3, <4>1 DEF Lifecycle!Creation
    <3>5. CASE i - f = n + 1
      BY <1>2, <2>3, <3>2, <3>5 DEF Lifecycle!Creation
    <3> QED
      BY <3>3, <3>4, <3>5
  <2> QED
    BY <1>1, <1>3, <2>1, <2>2, <2>3
<1>6. Orderly(r)
  <2> SUFFICES ASSUME NEW i \in DOMAIN r PROVE Backed(r, i) /\ Closed(r, i) /\ Listed(r, i)
    BY <1>3 DEF Orderly
  <2>1. f + 1 \in DOMAIN r /\ f + n + 1 \in DOMAIN r
    BY <1>1, <1>3
  <2>2. Backed(r, i)
    BY <1>4, <1>5, <2>1 DEF Backed, Lifecycle!Creation
  <2>3. Closed(r, i)
    <3> SUFFICES ASSUME r[i].op \in {"stage", "seal", "create"}
                 PROVE  \E j \in DOMAIN r :
                          /\ i < j /\ r[j].op = "record"
                          /\ \A k \in i..j : r[k].op \in Lifecycle!Creation /\ r[k].on = r[i].on
      BY DEF Closed
    <3>1. i < f + n + 1
      <4>1. i # f + n + 1
        BY <1>4
      <4>2. i \in 1..f + n + 1
        BY <1>3
      <4> QED
        BY <1>1, <4>1, <4>2
    <3>2. \A k \in i..f + n + 1 : k \in DOMAIN r
      BY <1>1, <1>3
    <3> QED
      BY <1>4, <1>5, <2>1, <3>1, <3>2
  <2>4. Listed(r, i)
    BY <1>5 DEF Listed
  <2> QED
    BY <2>2, <2>3, <2>4
<1>7. Members(m) = {m[1]} \cup {m[k] : k \in 2..n} \cup {m[n + 1]}
  <2>1. 1..n + 1 = {1} \cup 2..n \cup {n + 1}
    BY <1>1
  <2> QED
    BY <1>2, <2>1 DEF Members
<1>8. Members(r) = Members(front) \cup Members(m)
  BY <1>2, MembersOfConcat DEF r
<1>9. {m[k] : k \in 2..n} = {[op |-> "connect", on |-> c, net |-> nets[k]] : k \in 2..n}
  BY <1>2
<1>10. Members(m) = Making(c, nets)
  BY <1>2, <1>7, <1>9 DEF Making, Plain, n
<1>11. Members(front) \cap Members(m) = {}
  <2>1. \A s \in Members(front) : s.op \in {"stage", "seal"}
    BY DEF Members
  <2>2. \A s \in Members(m) : s.op \in {"create", "connect", "record"}
    BY <1>10 DEF Making, Plain
  <2> QED
    BY <2>1, <2>2
<1>12. Once(m)
  <2> SUFFICES ASSUME NEW i \in DOMAIN m, NEW j \in DOMAIN m, m[i] = m[j]
               PROVE  i = j
    BY DEF Once
  <2>1. \A k \in DOMAIN m : k = 1 \/ k \in 2..n \/ k = n + 1
    BY <1>1, <1>2
  <2>2. m[1].op = "create" /\ m[n + 1].op = "record"
    BY <1>2
  <2>3. \A k \in 2..n : m[k].op = "connect" /\ m[k].net = nets[k]
    <3> TAKE k \in 2..n
    <3>1. m[k] = [op |-> "connect", on |-> c, net |-> nets[k]]
      BY <1>2
    <3> QED
      BY <3>1
  <2>4. \A k, l \in 2..n : nets[k] = nets[l] => k = l
    BY <1>1, LenProperties DEF Once, n
  <2> QED
    BY <2>1, <2>2, <2>3, <2>4
<1>13. m \in Seq(Call) /\ Members(r) = Members(front) \cup Making(c, nets)
  BY <1>2, <1>8, <1>10
<1>14. Once(r)
  BY <1>11, <1>12, <1>13, OnceConcat DEF r
<1> QED
  BY <1>6, <1>13, <1>14 DEF m, r

-----------------------------------------------------------------------------
(* The calls of one sidecar.                                               *)

(* An orderly sequence that makes the given calls, each of them once.      *)
Good(p, calls) == Orderly(p) /\ Once(p) /\ Members(p) = calls

IsNets(nets) == nets \in Seq(NetName) /\ nets # <<>> /\ Once(nets)

Starting(c) == {Plain("start", c), Plain("health", c)}

LEMMA GoodAppend ==
  ASSUME NEW p, NEW S, Good(p, S),
         NEW op \in Lifecycle!Operation, op \notin Lifecycle!Creation,
         NEW c \in Members(AllContainers), Plain(op, c) \notin S,
         op = "start" => \E s \in S : s.op = "create" /\ s.on = c,
         op \in {"health", "verify", "provision"} /\ c # W =>
           \E s \in S : s.op = "start" /\ s.on = c
  PROVE  Good(p \o On(op, c), S \cup {Plain(op, c)})
<1>1. Orderly(p) /\ Once(p) /\ Members(p) = S
  BY DEF Good
<1> QED
  BY <1>1, AppendCall DEF Good

LEMMA GoodMaking ==
  ASSUME NEW c \in Members(FixedContainers), NEW nets, IsNets(nets)
  PROVE  /\ Good(Created(c, nets), Making(c, nets))
         /\ Good(StagedAndCreated(c, nets), {Plain("stage", c)} \cup Making(c, nets))
         /\ Good(SealedAndCreated(c, nets),
                 {Plain("stage", c), Plain("seal", c)} \cup Making(c, nets))
<1>1. c \in Members(AllContainers) /\ c \notin Members(LlmServers)
  BY ContainerNames, ServerNames
<1>2. nets \in Seq(NetName) /\ nets # <<>> /\ Once(nets)
  BY DEF IsNets
<1>3. ASSUME NEW front \in Seq(Call), Once(front),
             \A s \in Members(front) : s.on = c /\ s.op \in {"stage", "seal"}
      PROVE  Good(front \o Created(c, nets), Members(front) \cup Making(c, nets))
  <2>1. \A i \in DOMAIN front : front[i].on = c /\ front[i].op \in {"stage", "seal"}
    BY <1>3 DEF Members
  <2> QED
    BY <1>1, <1>2, <1>3, <2>1, MakingIsOrderly DEF Good
<1>4. Good(Created(c, nets), Making(c, nets))
  <2>1. <<>> \in Seq(Call) /\ Once(<<>>) /\ Members(<<>>) = {}
    BY DEF Once, Members
  <2>2. Created(c, nets) \in Seq(Call)
    BY <1>1, <1>2, CreatedCalls
  <2>3. <<>> \o Created(c, nets) = Created(c, nets)
    BY <2>2, ConcatEmptySeq
  <2> QED
    BY <1>3, <2>1, <2>3
<1>5. /\ On("stage", c) \in Seq(Call) /\ Once(On("stage", c))
      /\ Members(On("stage", c)) = {Plain("stage", c)}
      /\ On("seal", c) \in Seq(Call) /\ Once(On("seal", c))
      /\ Members(On("seal", c)) = {Plain("seal", c)}
  BY <1>1, OneCall DEF Lifecycle!Operation
<1>6. Good(StagedAndCreated(c, nets), {Plain("stage", c)} \cup Making(c, nets))
  <2>1. Plain("stage", c).on = c /\ Plain("stage", c).op = "stage"
    BY DEF Plain
  <2> QED
    BY <1>3, <1>5, <2>1 DEF StagedAndCreated
<1>7. Good(SealedAndCreated(c, nets),
           {Plain("stage", c), Plain("seal", c)} \cup Making(c, nets))
  <2> DEFINE front == On("stage", c) \o On("seal", c)
  <2>1. front \in Seq(Call) /\ Members(front) = {Plain("stage", c), Plain("seal", c)}
    BY <1>5, MembersOfConcat
  <2>2. Plain("stage", c) # Plain("seal", c)
    BY DEF Plain
  <2>3. Once(front)
    BY <1>5, <2>2, OnceConcat
  <2>4. \A s \in {Plain("stage", c), Plain("seal", c)} : s.on = c /\ s.op \in {"stage", "seal"}
    BY DEF Plain
  <2> HIDE DEF front
  <2>5. Good(front \o Created(c, nets),
             {Plain("stage", c), Plain("seal", c)} \cup Making(c, nets))
    BY <1>3, <2>1, <2>3, <2>4
  <2> QED
    BY <2>5 DEF SealedAndCreated, front
<1> QED
  BY <1>4, <1>6, <1>7

LEMMA GoodStart ==
  ASSUME NEW p, NEW S, Good(p, S), NEW c \in Members(AllContainers),
         \A s \in S : s.op \notin {"start", "health"} \/ s.on # c,
         \E s \in S : s.op = "create" /\ s.on = c
  PROVE  Good(p \o Started(c), S \cup Starting(c))
<1>1. /\ Plain("start", c).op = "start" /\ Plain("start", c).on = c
      /\ Plain("health", c).op = "health" /\ Plain("health", c).on = c
  BY DEF Plain
<1>2. {"start", "health"} \subseteq Lifecycle!Operation \ Lifecycle!Creation
  BY DEF Lifecycle!Operation, Lifecycle!Creation
<1>3. Good(p \o On("start", c), S \cup {Plain("start", c)})
  BY <1>1, <1>2, GoodAppend
<1>4. Plain("health", c) \notin S \cup {Plain("start", c)}
  BY <1>1
<1>5. Good((p \o On("start", c)) \o On("health", c),
           (S \cup {Plain("start", c)}) \cup {Plain("health", c)})
  BY <1>1, <1>2, <1>3, <1>4, GoodAppend
<1>6. p \o Started(c) = (p \o On("start", c)) \o On("health", c)
  <2>1. p \in Seq(Call) /\ On("start", c) \in Seq(Call) /\ On("health", c) \in Seq(Call)
    BY <1>2, OneCall DEF Good, Orderly
  <2> QED
    BY <2>1, ConcatAssociative DEF Started
<1>7. (S \cup {Plain("start", c)}) \cup {Plain("health", c)} = S \cup Starting(c)
  BY DEF Starting
<1> QED
  BY <1>5, <1>6, <1>7

(* A sidecar that is staged or sealed or neither, created and started.     *)
LEMMA GoodSidecar ==
  ASSUME NEW c \in Members(FixedContainers), NEW nets, IsNets(nets)
  PROVE  /\ Good(Created(c, nets) \o Started(c), Making(c, nets) \cup Starting(c))
         /\ Good(StagedAndCreated(c, nets) \o Started(c),
                 {Plain("stage", c)} \cup Making(c, nets) \cup Starting(c))
         /\ Good(SealedAndCreated(c, nets) \o Started(c),
                 {Plain("stage", c), Plain("seal", c)} \cup Making(c, nets) \cup Starting(c))
<1>1. c \in Members(AllContainers)
  BY ContainerNames
<1>2. \A s \in {Plain("stage", c), Plain("seal", c)} \cup Making(c, nets) :
         s.op \notin {"start", "health"}
  BY DEF Making, Plain
<1>3. \E s \in Making(c, nets) : s.op = "create" /\ s.on = c
  <2> DEFINE s == [op |-> "create", on |-> c, net |-> nets[1]]
  <2>1. s \in Making(c, nets) /\ s.op = "create" /\ s.on = c
    BY DEF Making
  <2> QED
    BY <2>1
<1> QED
  BY <1>1, <1>2, <1>3, GoodMaking, GoodStart

-----------------------------------------------------------------------------
(* What a plan for the capabilities d says of a container: whether it is   *)
(* wanted, the networks it joins, the first of them when it is created.    *)

Wanted(c, d) ==
  CASE c = W              -> TRUE
    [] c = "squid_proxy"  -> "internet" \in d
    [] c = "haproxy"      -> "localnet" \in d
    [] c \in {"prompt_guard", "entity_guard"} -> GuardsRequired(d)
    [] c \in Members(LlmServers) -> "llm_server" \in d
    [] OTHER              -> c \in d

Nets(c, d) ==
  CASE c = W              -> WorkloadNetworks(d)
    [] c = "squid_proxy"  -> SquidNetworks(d)
    [] c = "haproxy"      -> HaproxyNetworks(d)
    [] c \in {"mcp_server", "agent_memory"} -> <<"workload", "backend">>
    [] c = "llm_broker"   -> <<"backend", "workload">>
    [] c = "otel_collector" -> <<"workload">>
    [] OTHER              -> BackendOnly

Later(nets) == {nets[k] : k \in 2..Len(nets)}

LEMMA OneNetwork ==
  ASSUME NEW a \in NetName
  PROVE  IsNets(<<a>>) /\ <<a>>[1] = a /\ Later(<<a>>) = {} /\ Members(<<a>>) = {a}
<1>1. <<a>> \in Seq(NetName) /\ <<a>> # <<>> /\ Len(<<a>>) = 1 /\ <<a>>[1] = a
  OBVIOUS
<1>2. DOMAIN <<a>> = {1}
  OBVIOUS
<1>3. 2..1 = {}
  OBVIOUS
<1> QED
  BY <1>1, <1>2, <1>3 DEF IsNets, Once, Later, Members

LEMMA TwoNetworks ==
  ASSUME NEW a \in NetName, NEW b \in NetName, a # b
  PROVE  /\ IsNets(<<a, b>>) /\ <<a, b>>[1] = a
         /\ Later(<<a, b>>) = {b} /\ Members(<<a, b>>) = {a, b}
<1>1. /\ <<a, b>> \in Seq(NetName) /\ <<a, b>> # <<>> /\ Len(<<a, b>>) = 2
      /\ <<a, b>>[1] = a /\ <<a, b>>[2] = b
  OBVIOUS
<1>2. DOMAIN <<a, b>> = {1, 2}
  OBVIOUS
<1>3. 2..2 = {2}
  OBVIOUS
<1> QED
  BY <1>1, <1>2, <1>3 DEF IsNets, Once, Later, Members

LEMMA ThreeNetworks ==
  IsNets(<<"egress", "backend", "workload">>)
  /\ <<"egress", "backend", "workload">>[1] = "egress"
  /\ Later(<<"egress", "backend", "workload">>) = {"backend", "workload"}
  /\ Members(<<"egress", "backend", "workload">>) = {"egress", "backend", "workload"}
<1> DEFINE t == <<"egress", "backend", "workload">>
<1>1. /\ t \in Seq(NetName) /\ t # <<>> /\ Len(t) = 3
      /\ t[1] = "egress" /\ t[2] = "backend" /\ t[3] = "workload"
  BY NetworkNames DEF NetName
<1>2. DOMAIN t = {1, 2, 3}
  OBVIOUS
<1>3. 2..3 = {2, 3}
  OBVIOUS
<1> HIDE DEF t
<1>4. IsNets(t)
  BY <1>1, <1>2 DEF IsNets, Once
<1>5. Later(t) = {"backend", "workload"} /\ Members(t) = {"egress", "backend", "workload"}
  BY <1>1, <1>2, <1>3 DEF Later, Members
<1> QED
  BY <1>1, <1>4, <1>5 DEF t

LEMMA TuplesJoin ==
  ASSUME NEW a \in NetName, NEW b \in NetName, NEW e \in NetName
  PROVE  /\ <<a>> \o <<b>> = <<a, b>> /\ <<a, b>> \o <<e>> = <<a, b, e>>
         /\ <<a>> \o <<>> = <<a>> /\ <<a, b>> \o <<>> = <<a, b>>
<1>1. /\ <<a>> \in Seq(NetName) /\ <<b>> \in Seq(NetName) /\ <<e>> \in Seq(NetName)
      /\ <<a, b>> \in Seq(NetName) /\ <<a, b, e>> \in Seq(NetName)
      /\ Len(<<a>>) = 1 /\ Len(<<b>>) = 1 /\ Len(<<e>>) = 1
      /\ Len(<<a, b>>) = 2 /\ Len(<<a, b, e>>) = 3
  OBVIOUS
<1>2. <<a>> \o <<b>> = <<a, b>>
  <2>1. /\ <<a>> \o <<b>> \in Seq(NetName) /\ Len(<<a>> \o <<b>>) = 2
        /\ (<<a>> \o <<b>>)[1] = a /\ (<<a>> \o <<b>>)[2] = b
    BY <1>1, ConcatProperties
  <2>2. \A i \in 1..2 : (<<a>> \o <<b>>)[i] = <<a, b>>[i]
    BY <2>1
  <2> QED
    BY <1>1, <2>1, <2>2, SeqEqual
<1>3. <<a, b>> \o <<e>> = <<a, b, e>>
  <2>1. /\ <<a, b>> \o <<e>> \in Seq(NetName) /\ Len(<<a, b>> \o <<e>>) = 3
        /\ (<<a, b>> \o <<e>>)[1] = a /\ (<<a, b>> \o <<e>>)[2] = b
        /\ (<<a, b>> \o <<e>>)[3] = e
    BY <1>1, ConcatProperties
  <2>2. \A i \in 1..3 : (<<a, b>> \o <<e>>)[i] = <<a, b, e>>[i]
    BY <2>1
  <2> QED
    BY <1>1, <2>1, <2>2, SeqEqual
<1> QED
  BY <1>1, <1>2, <1>3, ConcatEmptySeq

(* The networks of Squid and HAProxy depend on the capabilities.           *)
LEMMA ProxyNetworks ==
  ASSUME NEW d
  PROVE  /\ IsNets(SquidNetworks(d)) /\ SquidNetworks(d)[1] = "egress"
         /\ Later(SquidNetworks(d)) =
              (IF BackendNetworkRequired(d) THEN {"backend"} ELSE {})
                \cup (IF WorkloadNeedsSquidProxy(d) \/ ~BackendNetworkRequired(d)
                      THEN {"workload"} ELSE {})
         /\ Members(SquidNetworks(d)) = {"egress"} \cup Later(SquidNetworks(d))
         /\ IsNets(HaproxyNetworks(d)) /\ HaproxyNetworks(d)[1] = "egress"
         /\ Later(HaproxyNetworks(d)) =
              {IF BackendNetworkRequired(d) THEN "backend" ELSE "workload"}
         /\ Members(HaproxyNetworks(d)) = {"egress"} \cup Later(HaproxyNetworks(d))
<1>1. {"workload", "backend", "egress"} \subseteq NetName
  BY NetworkNames DEF NetName
<1>2. /\ IsNets(HaproxyNetworks(d)) /\ HaproxyNetworks(d)[1] = "egress"
      /\ Later(HaproxyNetworks(d)) =
              {IF BackendNetworkRequired(d) THEN "backend" ELSE "workload"}
      /\ Members(HaproxyNetworks(d)) = {"egress"} \cup Later(HaproxyNetworks(d))
  <2> DEFINE b == IF BackendNetworkRequired(d) THEN "backend" ELSE "workload"
  <2>1. b \in NetName /\ "egress" \in NetName /\ "egress" # b
    BY <1>1
  <2> HIDE DEF b
  <2>2. /\ IsNets(<<"egress", b>>) /\ <<"egress", b>>[1] = "egress"
        /\ Later(<<"egress", b>>) = {b} /\ Members(<<"egress", b>>) = {"egress", b}
    BY <2>1, TwoNetworks
  <2>3. HaproxyNetworks(d) = <<"egress", b>>
    BY DEF HaproxyNetworks, b
  <2> QED
    BY <2>2, <2>3 DEF b
<1>3. CASE BackendNetworkRequired(d) /\ WorkloadNeedsSquidProxy(d)
  <2>1. SquidNetworks(d) = <<"egress", "backend", "workload">>
    BY <1>1, <1>3, TuplesJoin DEF SquidNetworks, When
  <2> QED
    BY <1>2, <1>3, <2>1, ThreeNetworks
<1>4. CASE BackendNetworkRequired(d) /\ ~WorkloadNeedsSquidProxy(d)
  <2>1. SquidNetworks(d) = <<"egress", "backend">>
    BY <1>1, <1>4, TuplesJoin DEF SquidNetworks, When
  <2> QED
    BY <1>1, <1>2, <1>4, <2>1, TwoNetworks
<1>5. CASE ~BackendNetworkRequired(d)
  <2>1. SquidNetworks(d) = <<"egress", "workload">>
    BY <1>1, <1>5, TuplesJoin DEF SquidNetworks, When, WorkloadNeedsSquidProxy
  <2> QED
    BY <1>1, <1>2, <1>5, <2>1, TwoNetworks
<1> QED
  BY <1>3, <1>4, <1>5

(* docker create names a first network, and every other one is connected.  *)
LEMMA NetsAreNets ==
  ASSUME NEW c, NEW d
  PROVE  /\ IsNets(Nets(c, d))
         /\ Members(Nets(c, d)) = {Nets(c, d)[1]} \cup Later(Nets(c, d))
<1>1. {"workload", "backend", "egress", Offline} \subseteq NetName
  BY NetworkNames DEF NetName
<1>2. \A n \in {"workload", "backend", Offline} :
         IsNets(<<n>>) /\ Members(<<n>>) = {<<n>>[1]} \cup Later(<<n>>)
  BY <1>1, OneNetwork
<1>3. ASSUME NEW m \in {"workload", "backend"}, NEW n \in {"workload", "backend"}, m # n
      PROVE  IsNets(<<m, n>>) /\ Members(<<m, n>>) = {<<m, n>>[1]} \cup Later(<<m, n>>)
  <2>1. m \in NetName /\ n \in NetName
    BY <1>1
  <2>2. /\ IsNets(<<m, n>>) /\ <<m, n>>[1] = m
        /\ Later(<<m, n>>) = {n} /\ Members(<<m, n>>) = {m, n}
    BY <1>3, <2>1, TwoNetworks
  <2> QED
    BY <2>2
<1>4. Nets(c, d) \in { WorkloadNetworks(d), SquidNetworks(d), HaproxyNetworks(d),
                       <<"workload", "backend">>, <<"backend", "workload">>,
                       <<"workload">>, BackendOnly }
  BY DEF Nets
<1>5. WorkloadNetworks(d) \in {<<"workload">>, <<Offline>>} /\ BackendOnly = <<"backend">>
  BY DEF WorkloadNetworks, BackendOnly
<1>6. CASE Nets(c, d) \in {SquidNetworks(d), HaproxyNetworks(d)}
  BY <1>6, ProxyNetworks
<1>7. CASE Nets(c, d) \in {<<"workload">>, <<Offline>>, <<"backend">>}
  BY <1>2, <1>7
<1>8. CASE Nets(c, d) \in {<<"workload", "backend">>, <<"backend", "workload">>}
  BY <1>3, <1>8
<1> QED
  BY <1>4, <1>5, <1>6, <1>7, <1>8

-----------------------------------------------------------------------------
(* What the parts of a plan for d have in common: a call concerns a        *)
(* container that is wanted; who is created joins all its networks, is     *)
(* recorded and, but for the workload, started and checked; what is sealed *)
(* is provisioned.                                                         *)

Joining(c, n) == [op |-> "connect", on |-> c, net |-> n]

(* Its create function finds the table it needs missing.                   *)
Refused(c, g) == c \in Table \ g \/ (c = "embeddings" /\ "docling" \notin g)

Fits(s, calls, d, g) ==
  /\ Wanted(s.on, d)
  /\ s.op = "refuse" => s.on # W /\ Refused(s.on, g)
  /\ s.op = "create" =>
       /\ s.net = Nets(s.on, d)[1]
       /\ \A n \in Later(Nets(s.on, d)) : Joining(s.on, n) \in calls
       /\ Plain("record", s.on) \in calls
       /\ s.on # W => Starting(s.on) \subseteq calls
  /\ s.op = "connect" => s.net \in Later(Nets(s.on, d))
  /\ s.op \in {"stage", "seal"} => s.on \notin Members(LlmServers)
  /\ s.op = "seal" /\ s.on # W => Plain("provision", s.on) \in calls
  /\ s.op \in {"attach", "await"} => s.on = W
  /\ s.op \in {"start", "health", "verify"} => s.on # W
  /\ s.op \notin {"create", "connect"} => s.net = Offline

(* The sidecars with secrets, and what it takes to bring up a sidecar.     *)
Keyed == {"mcp_server", "llm_broker", "agent_memory"}

Brought(c, calls, g) ==
  /\ \E s \in calls : s.op = "create" /\ s.on = c
  /\ c \in Keyed => Plain("provision", c) \in calls
  /\ Refused(c, g) => Plain("refuse", c) \in calls

(* The calls that bring up the named containers, as far as d wants them;   *)
(* of the workload they may be a part only.                                *)
Block(q, names, d, g) ==
  /\ Orderly(q) /\ Once(q)
  /\ \A s \in Members(q) : s.on \in names /\ s.op # "network" /\ Fits(s, Members(q), d, g)
  /\ \A c \in names \ {W} : Wanted(c, d) => Brought(c, Members(q), g)

LEMMA EmptyBlock ==
  ASSUME NEW names, NEW d, NEW g, \A c \in names : ~Wanted(c, d)
  PROVE  Block(<<>>, names, d, g)
<1>1. <<>> \in Seq(Call) /\ DOMAIN <<>> = {}
  OBVIOUS
<1> QED
  BY <1>1 DEF Block, Orderly, Once, Members

LEMMA MoreCallsFit ==
  ASSUME NEW s, NEW d, NEW g, NEW calls, NEW more, calls \subseteq more, Fits(s, calls, d, g)
  PROVE  Fits(s, more, d, g)
BY DEF Fits

LEMMA MoreBring ==
  ASSUME NEW c, NEW g, NEW calls, NEW more, calls \subseteq more, Brought(c, calls, g)
  PROVE  Brought(c, more, g)
BY DEF Brought

LEMMA BlockConcat ==
  ASSUME NEW p, NEW q, NEW C, NEW D, NEW d, NEW g, Block(p, C, d, g), Block(q, D, d, g), C \cap D = {}
  PROVE  Block(p \o q, C \cup D, d, g)
<1>1. /\ Orderly(p) /\ Orderly(q) /\ Once(p) /\ Once(q)
      /\ p \in Seq(Call) /\ q \in Seq(Call)
  BY DEF Block, Orderly
<1>2. Members(p) \cap Members(q) = {}
  BY DEF Block
<1>3. Orderly(p \o q) /\ Once(p \o q) /\ Members(p \o q) = Members(p) \cup Members(q)
  BY <1>1, <1>2, OrderlyConcat, OnceConcat, MembersOfConcat
<1>4. ASSUME NEW s \in Members(p)
      PROVE  s.on \in C /\ s.op # "network" /\ Fits(s, Members(p) \cup Members(q), d, g)
  BY MoreCallsFit DEF Block
<1>5. ASSUME NEW s \in Members(q)
      PROVE  s.on \in D /\ s.op # "network" /\ Fits(s, Members(p) \cup Members(q), d, g)
  BY MoreCallsFit DEF Block
<1>6. ASSUME NEW c \in (C \cup D) \ {W}, Wanted(c, d)
      PROVE  Brought(c, Members(p) \cup Members(q), g)
  BY <1>6, MoreBring DEF Block
<1> QED
  BY <1>3, <1>4, <1>5, <1>6 DEF Block

LEMMA SidecarFits ==
  ASSUME NEW c \in Members(FixedContainers), c # W, NEW d, NEW g, Wanted(c, d),
         ~Refused(c, g), NEW q,
         NEW calls, Good(q, calls),
         Making(c, Nets(c, d)) \cup Starting(c) \subseteq calls,
         calls \subseteq Making(c, Nets(c, d)) \cup Starting(c)
           \cup {Plain(op, c) : op \in {"stage", "seal", "verify", "provision"}},
         Plain("seal", c) \in calls => Plain("provision", c) \in calls,
         c \in Keyed => Plain("provision", c) \in calls
  PROVE  Block(q, {c}, d, g)
<1> DEFINE create == [op |-> "create", on |-> c, net |-> Nets(c, d)[1]]
<1>1. c \notin Members(LlmServers)
  BY ServerNames
<1>2. Making(c, Nets(c, d)) =
        {create} \cup {Joining(c, n) : n \in Later(Nets(c, d))} \cup {Plain("record", c)}
  BY DEF Making, Later, Joining
<1>3. ASSUME NEW s \in calls
      PROVE  s.on = c /\ s.op # "network" /\ Fits(s, calls, d, g)
  <2>1. CASE s = create
    <3>1. s.op = "create" /\ s.on = c /\ s.net = Nets(c, d)[1]
      BY <2>1
    <3>2. /\ \A n \in Later(Nets(c, d)) : Joining(c, n) \in calls
          /\ Plain("record", c) \in calls /\ Starting(c) \subseteq calls
      BY <1>2
    <3> QED
      BY <3>1, <3>2 DEF Fits
  <2>2. CASE s \in {Joining(c, n) : n \in Later(Nets(c, d))}
    <3>1. PICK n \in Later(Nets(c, d)) : s = Joining(c, n)
      BY <2>2
    <3>2. s.op = "connect" /\ s.on = c /\ s.net = n
      BY <3>1 DEF Joining
    <3> QED
      BY <3>1, <3>2 DEF Fits
  <2>3. CASE s = Plain("seal", c)
    <3>1. s.op = "seal" /\ s.on = c /\ s.net = Offline /\ Plain("provision", c) \in calls
      BY <2>3 DEF Plain
    <3> QED
      BY <1>1, <3>1 DEF Fits
  <2>4. CASE s \in {Plain(op, c) : op \in {"stage", "record", "start", "health", "verify", "provision"}}
    <3>1. /\ s.op \in {"stage", "record", "start", "health", "verify", "provision"}
          /\ s.on = c /\ s.net = Offline
      BY <2>4 DEF Plain
    <3> QED
      BY <1>1, <3>1 DEF Fits
  <2> QED
    BY <1>2, <2>1, <2>2, <2>3, <2>4 DEF Starting
<1>4. Orderly(q) /\ Once(q) /\ Members(q) = calls
  BY DEF Good
<1>5. Brought(c, calls, g)
  <2>1. create \in calls /\ create.op = "create" /\ create.on = c
    BY <1>2
  <2> QED
    BY <2>1 DEF Brought
<1> QED
  BY <1>3, <1>4, <1>5 DEF Block

(* The five ways in which the manager brings up a sidecar it does not      *)
(* refuse.                                                                 *)
LEMMA SidecarBlocks ==
  ASSUME NEW c \in Members(FixedContainers), c # W, NEW d, NEW g, Wanted(c, d),
         ~Refused(c, g), NEW nets, nets = Nets(c, d)
  PROVE  /\ c \notin Keyed => Block(Created(c, nets) \o Started(c), {c}, d, g)
         /\ c \notin Keyed =>
              Block(Created(c, nets) \o Started(c) \o On("verify", c), {c}, d, g)
         /\ c \notin Keyed => Block(StagedAndCreated(c, nets) \o Started(c), {c}, d, g)
         /\ Block(SealedAndCreated(c, nets) \o Started(c) \o On("provision", c), {c}, d, g)
         /\ Block(SealedAndCreated(c, nets) \o Started(c)
                    \o On("verify", c) \o On("provision", c), {c}, d, g)
<1> DEFINE bare == Making(c, nets) \cup Starting(c)
           staged1 == {Plain("stage", c)} \cup Making(c, nets) \cup Starting(c)
           sealed == {Plain("stage", c), Plain("seal", c)} \cup Making(c, nets) \cup Starting(c)
           V == Plain("verify", c)
           P == Plain("provision", c)
<1>1. c \in Members(AllContainers) /\ IsNets(nets)
  BY ContainerNames, NetsAreNets
<1>2. /\ {"verify", "provision"} \subseteq Lifecycle!Operation \ Lifecycle!Creation
      /\ V.op = "verify" /\ P.op = "provision" /\ V.on = c /\ P.on = c
  BY DEF Lifecycle!Operation, Lifecycle!Creation, Plain
<1>3. \A s \in sealed : s.op \notin {"verify", "provision"}
  BY DEF Making, Starting, Plain
<1>4. /\ Good(Created(c, nets) \o Started(c), bare)
      /\ Good(StagedAndCreated(c, nets) \o Started(c), staged1)
      /\ Good(SealedAndCreated(c, nets) \o Started(c), sealed)
  BY <1>1, GoodSidecar
<1>5. /\ V \notin bare /\ V \notin sealed /\ P \notin sealed /\ P \notin sealed \cup {V}
      /\ \E s \in bare : s.op = "start" /\ s.on = c
      /\ \E s \in sealed : s.op = "start" /\ s.on = c
  <2>1. Plain("start", c).op = "start" /\ Plain("start", c).on = c
    BY DEF Plain
  <2>2. Plain("start", c) \in bare /\ Plain("start", c) \in sealed /\ bare \subseteq sealed
    BY DEF Starting
  <2> QED
    BY <1>2, <1>3, <2>1, <2>2
<1> HIDE DEF bare, staged1, sealed, V, P
<1>6. Good(Created(c, nets) \o Started(c) \o On("verify", c), bare \cup {V})
  BY <1>1, <1>2, <1>4, <1>5, GoodAppend DEF V
<1>7. Good(SealedAndCreated(c, nets) \o Started(c) \o On("provision", c), sealed \cup {P})
  BY <1>1, <1>2, <1>4, <1>5, GoodAppend DEF P
<1>8. Good(SealedAndCreated(c, nets) \o Started(c) \o On("verify", c), sealed \cup {V})
  BY <1>1, <1>2, <1>4, <1>5, GoodAppend DEF V
<1>9. Good(SealedAndCreated(c, nets) \o Started(c) \o On("verify", c) \o On("provision", c),
           (sealed \cup {V}) \cup {P})
  BY <1>1, <1>2, <1>5, <1>8, GoodAppend DEF P
<1>10. \A op1, op2 : op1 # op2 => Plain(op1, c) # Plain(op2, c)
  BY DEF Plain
<1>11. Plain("seal", c) # Plain("stage", c)
  BY <1>10
<1>a. /\ Making(c, Nets(c, d)) \cup Starting(c) \subseteq bare
      /\ bare \subseteq staged1 /\ staged1 \subseteq sealed
      /\ sealed \cup {V, P} \subseteq Making(c, Nets(c, d)) \cup Starting(c)
           \cup {Plain(op, c) : op \in {"stage", "seal", "verify", "provision"}}
  BY DEF bare, staged1, sealed, V, P
<1>b. Plain("seal", c) \notin staged1 \cup {V}
  BY <1>10 DEF staged1, V, Making, Starting, Plain
<1>12. c \notin Keyed => Block(Created(c, nets) \o Started(c), {c}, d, g)
  BY <1>4, <1>a, <1>b, SidecarFits
<1>13. c \notin Keyed => Block(Created(c, nets) \o Started(c) \o On("verify", c), {c}, d, g)
  <2>1. Plain("seal", c) \notin bare \cup {V}
    BY <1>a, <1>b
  <2> QED
    BY <1>6, <1>a, <2>1, SidecarFits
<1>14. c \notin Keyed => Block(StagedAndCreated(c, nets) \o Started(c), {c}, d, g)
  BY <1>4, <1>a, <1>b, SidecarFits
<1>15. Block(SealedAndCreated(c, nets) \o Started(c) \o On("provision", c), {c}, d, g)
  <2>1. Plain("provision", c) \in sealed \cup {P}
    BY DEF P
  <2> QED
    BY <1>7, <1>a, <2>1, SidecarFits
<1>16. Block(SealedAndCreated(c, nets) \o Started(c)
               \o On("verify", c) \o On("provision", c), {c}, d, g)
  <2>1. Plain("provision", c) \in (sealed \cup {V}) \cup {P}
    BY DEF P
  <2> QED
    BY <1>9, <1>a, <2>1, SidecarFits
<1> QED
  BY <1>12, <1>13, <1>14, <1>15, <1>16

(* A refusal before the calls of a sidecar whose table is missing.         *)
LEMMA RefusalFirst ==
  ASSUME NEW c \in Members(FixedContainers), c # W, NEW d, Wanted(c, d),
         NEW g, NEW h, Refused(c, g), ~Refused(c, h), NEW q, Block(q, {c}, d, h)
  PROVE  Block(On("refuse", c) \o q, {c}, d, g)
<1> DEFINE f == On("refuse", c)
           r == Plain("refuse", c)
           calls == {r} \cup Members(q)
<1>1. /\ f \in Seq(Call) /\ Len(f) = 1 /\ f[1] = r /\ Members(f) = {r} /\ Once(f)
  <2>1. c \in Members(AllContainers)
    BY ContainerNames
  <2> QED
    BY <2>1, OneCall DEF Lifecycle!Operation, Plain
<1>2. r.op = "refuse" /\ r.on = c /\ r.net = Offline
  BY DEF Plain
<1> HIDE DEF f, r
<1>3. Orderly(f)
  <2>1. DOMAIN f = {1}
    BY <1>1
  <2> QED
    BY <1>1, <1>2, <2>1 DEF Orderly, Backed, Closed, Listed
<1>4. ASSUME NEW s \in Members(q)
      PROVE  s.on = c /\ s.op \notin {"network", "refuse"} /\ Fits(s, Members(q), d, h)
  <2>1. s.on = c /\ s.op # "network" /\ Fits(s, Members(q), d, h)
    BY DEF Block
  <2> QED
    BY <2>1 DEF Fits
<1>5. Orderly(f \o q) /\ Once(f \o q) /\ Members(f \o q) = calls
  <2>1. Orderly(q) /\ Once(q) /\ q \in Seq(Call)
    BY DEF Block, Orderly
  <2>2. Members(f) \cap Members(q) = {}
    BY <1>1, <1>2, <1>4
  <2> QED
    BY <1>1, <1>3, <2>1, <2>2, OrderlyConcat, OnceConcat, MembersOfConcat
<1>6. ASSUME NEW s \in calls
      PROVE  s.on = c /\ s.op # "network" /\ Fits(s, calls, d, g)
  <2>1. CASE s = r
    BY <1>2, <2>1 DEF Fits
  <2>2. CASE s \in Members(q)
    <3>1. Fits(s, calls, d, h)
      BY <1>4, <2>2, MoreCallsFit
    <3> QED
      BY <1>4, <2>2, <3>1 DEF Fits
  <2> QED
    BY <2>1, <2>2
<1>7. Brought(c, calls, g)
  <2>1. Brought(c, Members(q), h)
    BY DEF Block
  <2> QED
    BY <2>1 DEF Brought, r
<1> QED
  BY <1>5, <1>6, <1>7 DEF Block, f

(* The ways in which it brings up a sidecar that has to have a table.      *)
LEMMA RefusableBlocks ==
  ASSUME NEW c \in Members(FixedContainers), c # W, NEW d, Wanted(c, d),
         NEW nets, nets = Nets(c, d),
         NEW g, NEW t, Refused(c, g) <=> t \notin g, ~Refused(c, g \cup {t})
  PROVE  /\ c \notin Keyed => Block(Without(t, g, c) \o Created(c, nets) \o Started(c), {c}, d, g)
         /\ c \notin Keyed =>
              Block(Without(t, g, c) \o Created(c, nets) \o Started(c)
                      \o On("verify", c), {c}, d, g)
         /\ c \notin Keyed =>
              Block(Without(t, g, c) \o StagedAndCreated(c, nets) \o Started(c), {c}, d, g)
         /\ Block(Without(t, g, c) \o SealedAndCreated(c, nets) \o Started(c)
                    \o On("provision", c), {c}, d, g)
         /\ Block(Without(t, g, c) \o SealedAndCreated(c, nets) \o Started(c)
                    \o On("verify", c) \o On("provision", c), {c}, d, g)
<1> DEFINE f == Without(t, g, c)
           h == g \cup {t}
           bare   == Created(c, nets)
           staged1 == StagedAndCreated(c, nets)
           sealed == SealedAndCreated(c, nets)
           run    == Started(c)
           V == On("verify", c)
           P == On("provision", c)
<1>1. /\ bare \in Seq(Call) /\ staged1 \in Seq(Call) /\ sealed \in Seq(Call)
      /\ run \in Seq(Call) /\ V \in Seq(Call) /\ P \in Seq(Call) /\ f \in Seq(Call)
  <2>1. c \in Members(AllContainers) /\ IsNets(nets)
    BY ContainerNames, NetsAreNets
  <2>2. bare \in Seq(Call) /\ staged1 \in Seq(Call) /\ sealed \in Seq(Call)
    BY <2>1, GoodMaking DEF Good, Orderly
  <2>3. \A op \in {"refuse", "start", "health", "verify", "provision"} : On(op, c) \in Seq(Call)
    BY <2>1, OneCall DEF Lifecycle!Operation
  <2>4. run \in Seq(Call)
    BY <2>3, MembersOfConcat DEF Started
  <2>5. f \in Seq(Call)
    <3>1. <<>> \in Seq(Call)
      OBVIOUS
    <3> QED
      BY <2>3, <3>1 DEF Without, When
  <2> QED
    BY <2>2, <2>3, <2>4, <2>5
<1>2. /\ c \notin Keyed => Block(bare \o run, {c}, d, h)
      /\ c \notin Keyed => Block(bare \o run \o V, {c}, d, h)
      /\ c \notin Keyed => Block(staged1 \o run, {c}, d, h)
      /\ Block(sealed \o run \o P, {c}, d, h)
      /\ Block(sealed \o run \o V \o P, {c}, d, h)
  BY SidecarBlocks
<1>3. ASSUME NEW q \in Seq(Call), Block(q, {c}, d, h)
      PROVE  Block(f \o q, {c}, d, g)
  <2>1. CASE t \in g
    <3>1. f = <<>> /\ h = g
      BY <2>1 DEF Without, When
    <3>2. <<>> \o q = q
      BY ConcatEmptySeq
    <3> QED
      BY <1>3, <3>1, <3>2
  <2>2. CASE t \notin g
    <3>1. f = On("refuse", c)
      BY <2>2 DEF Without, When
    <3> QED
      BY <1>3, <2>2, <3>1, RefusalFirst
  <2> QED
    BY <2>1, <2>2
<1> HIDE DEF f, h, bare, staged1, sealed, run, V, P
<1>4. ASSUME NEW x \in Seq(Call)
      PROVE  /\ x \o run \in Seq(Call) /\ f \o x \o run = f \o (x \o run)
             /\ x \o run \o V \in Seq(Call) /\ f \o x \o run \o V = f \o (x \o run \o V)
             /\ x \o run \o P \in Seq(Call) /\ f \o x \o run \o P = f \o (x \o run \o P)
             /\ x \o run \o V \o P \in Seq(Call)
             /\ f \o x \o run \o V \o P = f \o (x \o run \o V \o P)
  <2>0. /\ x \in Seq(Call) /\ f \in Seq(Call) /\ run \in Seq(Call)
        /\ V \in Seq(Call) /\ P \in Seq(Call)
    BY <1>1, <1>4
  <2>a. \A a, b \in Seq(Call) : a \o b \in Seq(Call)
    BY MembersOfConcat
  <2>b. \A a, b, e \in Seq(Call) : (a \o b) \o e = a \o (b \o e)
    BY ConcatAssociative
  <2>1. x \o run \in Seq(Call) /\ f \o x \o run = f \o (x \o run)
    BY <2>0, <2>a, <2>b
  <2>2. ASSUME NEW y \in {V, P}
        PROVE  /\ x \o run \o y \in Seq(Call)
               /\ f \o x \o run \o y = f \o (x \o run \o y)
    <3>1. y \in Seq(Call)
      BY <1>1
    <3>2. x \o run \o y \in Seq(Call)
      BY <2>1, <2>a, <3>1
    <3>3. (f \o (x \o run)) \o y = f \o ((x \o run) \o y)
      BY <2>0, <2>1, <2>b, <3>1
    <3> QED
      BY <2>1, <3>2, <3>3
  <2>3. /\ x \o run \o V \o P \in Seq(Call)
        /\ (f \o (x \o run \o V)) \o P = f \o ((x \o run \o V) \o P)
    <3> DEFINE y == x \o run \o V
    <3>1. y \in Seq(Call)
      BY <2>2
    <3> HIDE DEF y
    <3>2. y \o P \in Seq(Call) /\ (f \o y) \o P = f \o (y \o P)
      BY <2>0, <2>a, <2>b, <3>1
    <3> QED
      BY <3>2 DEF y
  <2> QED
    BY <2>1, <2>2, <2>3
<1>5. /\ c \notin Keyed => Block(f \o bare \o run, {c}, d, g)
      /\ c \notin Keyed => Block(f \o bare \o run \o V, {c}, d, g)
  BY <1>1, <1>2, <1>3, <1>4
<1>6. c \notin Keyed => Block(f \o staged1 \o run, {c}, d, g)
  BY <1>1, <1>2, <1>3, <1>4
<1>7. /\ Block(f \o sealed \o run \o P, {c}, d, g)
      /\ Block(f \o sealed \o run \o V \o P, {c}, d, g)
  BY <1>1, <1>2, <1>3, <1>4
<1> QED
  BY <1>5, <1>6, <1>7 DEF f, bare, staged1, sealed, run, V, P

-----------------------------------------------------------------------------
(* The LLM servers: all are created, then listed, then all are started.    *)

LEMMA HalfOf ==
  ASSUME NEW n \in Nat, NEW k \in 1..2 * n
  PROVE  /\ (k + 1) \div 2 \in 1..n
         /\ k % 2 = 1 => k = 2 * ((k + 1) \div 2) - 1
         /\ k % 2 # 1 => k = 2 * ((k + 1) \div 2)
OBVIOUS

LEMMA DoubleOf ==
  ASSUME NEW n \in Nat, NEW i \in 1..n
  PROVE  /\ 2 * i - 1 \in 1..2 * n /\ ((2 * i - 1) + 1) \div 2 = i /\ (2 * i - 1) % 2 = 1
         /\ 2 * i \in 1..2 * n /\ (2 * i + 1) \div 2 = i /\ (2 * i) % 2 # 1
OBVIOUS

LEMMA ServerCalls ==
  ASSUME NEW c \in Members(LlmServers)
  PROVE  /\ CreateLlmServer(c)[1] = [op |-> "create", on |-> c, net |-> "backend"]
         /\ CreateLlmServer(c)[2] = Plain("record", c)
         /\ Started(c)[1] = Plain("start", c) /\ Started(c)[2] = Plain("health", c)
         /\ [op |-> "create", on |-> c, net |-> "backend"] \in Call
         /\ Plain("record", c) \in Call /\ Plain("start", c) \in Call
         /\ Plain("health", c) \in Call /\ Plain("extend", c) \in Call
<1>1. c \in Members(AllContainers) /\ "backend" \in NetName
  BY ContainerNames, NetworkNames DEF NetName
<1>2. /\ BackendOnly \in Seq(NetName) /\ BackendOnly # <<>>
      /\ BackendOnly[1] = "backend" /\ Len(BackendOnly) = 1
  BY <1>1 DEF BackendOnly
<1>3. /\ CreateLlmServer(c)[1] = [op |-> "create", on |-> c, net |-> "backend"]
      /\ CreateLlmServer(c)[2] = Plain("record", c)
  <2>1. /\ Created(c, BackendOnly)[1] = [op |-> "create", on |-> c, net |-> BackendOnly[1]]
        /\ Created(c, BackendOnly)[Len(BackendOnly) + 1] =
             [op |-> "record", on |-> c, net |-> Offline]
    BY <1>1, <1>2, CreatedCalls
  <2> QED
    BY <1>2, <2>1 DEF CreateLlmServer, Plain
<1>4. Plain("start", c) \in Call /\ Plain("health", c) \in Call
      /\ Plain("record", c) \in Call /\ Plain("extend", c) \in Call
  BY <1>1, OneCall DEF Lifecycle!Operation
<1>5. [op |-> "create", on |-> c, net |-> "backend"] \in Call
  BY <1>1 DEF Call, Lifecycle!Step, Lifecycle!Operation, NetName
<1>6. Started(c)[1] = Plain("start", c) /\ Started(c)[2] = Plain("health", c)
  <2>1. /\ On("start", c) \in Seq(Call) /\ Len(On("start", c)) = 1
        /\ On("start", c)[1] = [op |-> "start", on |-> c, net |-> Offline]
        /\ On("health", c) \in Seq(Call) /\ Len(On("health", c)) = 1
        /\ On("health", c)[1] = [op |-> "health", on |-> c, net |-> Offline]
    BY <1>1, OneCall DEF Lifecycle!Operation
  <2>2. On("start", c) \in Seq(Call) /\ On("health", c) \in Seq(Call)
    BY <2>1
  <2> DEFINE a == On("start", c)
             b == On("health", c)
  <2> HIDE DEF a, b
  <2>3. a \in Seq(Call) /\ b \in Seq(Call) /\ Len(a) = 1 /\ Len(b) = 1
    BY <2>1 DEF a, b
  <2>4. /\ \A k \in 1..Len(a) : (a \o b)[k] = a[k]
        /\ \A k \in 1..Len(b) : (a \o b)[Len(a) + k] = b[k]
    BY <2>3, Parts
  <2>5. /\ \A k \in 1..1 : (a \o b)[k] = a[k]
        /\ \A k \in 1..1 : (a \o b)[1 + k] = b[k]
    BY <2>3, <2>4
  <2>6. (a \o b)[1] = a[1] /\ (a \o b)[2] = b[1]
    <3>1. 1 \in 1..1 /\ 1 + 1 = 2
      OBVIOUS
    <3>2. (a \o b)[1] = a[1] /\ (a \o b)[1 + 1] = b[1]
      BY <2>5, <3>1
    <3> QED
      BY <3>1, <3>2
  <2> QED
    BY <2>1, <2>6 DEF Started, Plain, a, b
<1> QED
  BY <1>3, <1>4, <1>5, <1>6

LEMMA ServersBlock ==
  ASSUME NEW d, NEW g
  PROVE  Block(LlmServerPlan(d), Members(LlmServers), d, g)
<1> DEFINE n == Len(LlmServers)
           L == LlmServers
           A == [k \in 1..2 * n |-> CreateLlmServer(L[(k + 1) \div 2])[IF k % 2 = 1 THEN 1 ELSE 2]]
           B == [k \in 1..2 * n |-> Started(L[(k + 1) \div 2])[IF k % 2 = 1 THEN 1 ELSE 2]]
           E == On("extend", L[1])
           Create(c) == [op |-> "create", on |-> c, net |-> "backend"]
<1>1. CASE ~("llm_server" \in d /\ LlmServers # <<>>)
  <2>1. LlmServerPlan(d) = <<>>
    BY <1>1 DEF LlmServerPlan, When
  <2>2. ASSUME NEW c \in Members(LlmServers), Wanted(c, d) PROVE FALSE
    <3>1. c \notin Members(FixedContainers)
      BY ServerNames
    <3>2. "llm_server" \in d
      BY <2>2, <3>1, FixedNames DEF Wanted, W
    <3>3. Members(<<>>) = {}
      BY DEF Members
    <3> QED
      BY <1>1, <3>2, <3>3
  <2> QED
    BY <2>1, <2>2, EmptyBlock
<1>2. CASE "llm_server" \in d /\ LlmServers # <<>>
  <2>1. LlmServerPlan(d) = A \o E \o B
    BY <1>2 DEF LlmServerPlan, When
  <2>2. /\ n \in Nat /\ n >= 1 /\ DOMAIN L = 1..n
        /\ \A i \in 1..n : L[i] \in Members(LlmServers)
        /\ \A i, j \in 1..n : L[i] = L[j] => i = j
    <3>1. n \in Nat \ {0} /\ DOMAIN L = 1..n
      BY <1>2, ServerNames, EmptySeq, LenProperties
    <3>2. \A i \in 1..n : L[i] \in Members(LlmServers)
      BY <3>1 DEF Members
    <3>3. \A i, j \in 1..n : L[i] = L[j] => i = j
      BY <3>1, ServerNames
    <3> QED
      BY <3>1, <3>2, <3>3
  <2> HIDE DEF n
  <2>3. \A i \in 1..n : /\ A[2 * i - 1] = Create(L[i]) /\ A[2 * i] = Plain("record", L[i])
                        /\ B[2 * i - 1] = Plain("start", L[i]) /\ B[2 * i] = Plain("health", L[i])
    <3> SUFFICES ASSUME NEW i \in 1..n
                 PROVE  /\ A[2 * i - 1] = Create(L[i]) /\ A[2 * i] = Plain("record", L[i])
                        /\ B[2 * i - 1] = Plain("start", L[i]) /\ B[2 * i] = Plain("health", L[i])
      OBVIOUS
    <3>1. /\ 2 * i - 1 \in 1..2 * n /\ ((2 * i - 1) + 1) \div 2 = i /\ (2 * i - 1) % 2 = 1
          /\ 2 * i \in 1..2 * n /\ (2 * i + 1) \div 2 = i /\ (2 * i) % 2 # 1
      BY <2>2, DoubleOf
    <3>2. A[2 * i - 1] = CreateLlmServer(L[i])[1] /\ A[2 * i] = CreateLlmServer(L[i])[2]
      BY <3>1
    <3>3. B[2 * i - 1] = Started(L[i])[1] /\ B[2 * i] = Started(L[i])[2]
      BY <3>1
    <3> QED
      BY <2>2, <3>2, <3>3, ServerCalls
  <2>4. \A k \in 1..2 * n : \E i \in 1..n : k = 2 * i - 1 \/ k = 2 * i
    BY <2>2, HalfOf
  <2>5. A \in Seq(Call) /\ B \in Seq(Call) /\ E \in Seq(Call)
        /\ Len(A) = 2 * n /\ Len(B) = 2 * n /\ Len(E) = 1 /\ E[1] = Plain("extend", L[1])
    <3>1. \A k \in 1..2 * n : A[k] \in Call /\ B[k] \in Call
      <4> TAKE k \in 1..2 * n
      <4>1. PICK i \in 1..n : k = 2 * i - 1 \/ k = 2 * i
        BY <2>4
      <4> HIDE DEF A, B
      <4>2. A[k] \in {Create(L[i]), Plain("record", L[i])}
        BY <2>3, <4>1
      <4>3. B[k] \in {Plain("start", L[i]), Plain("health", L[i])}
        BY <2>3, <4>1
      <4> QED
        BY <2>2, <4>2, <4>3, ServerCalls
    <3>2. 2 * n \in Nat
      BY <2>2
    <3>3. A \in [1..2 * n -> Call] /\ B \in [1..2 * n -> Call]
      BY <3>1
    <3>4. A \in Seq(Call) /\ B \in Seq(Call)
      <4> HIDE DEF A, B
      <4>1. [1..2 * n -> Call] \in {[1..j -> Call] : j \in Nat}
        BY <3>2
      <4>2. Seq(Call) = UNION {[1..j -> Call] : j \in Nat}
        BY SeqDef
      <4> QED
        BY <3>3, <4>1, <4>2
    <3>5. Len(A) = 2 * n /\ Len(B) = 2 * n
      BY <3>2
    <3>6. 1 \in 1..n /\ L[1] \in Members(AllContainers)
      BY <2>2, ContainerNames
    <3>7. E \in Seq(Call) /\ Len(E) = 1 /\ E[1] = Plain("extend", L[1])
      BY <3>6, OneCall DEF Lifecycle!Operation, Plain
    <3> QED
      BY <3>4, <3>5, <3>7
  <2> DEFINE p == A \o E \o B
             m == 2 * n + 1
  <2> HIDE DEF A, B, E
  <2>6. /\ p \in Seq(Call) /\ DOMAIN p = 1..m + 2 * n
        /\ \A k \in 1..2 * n : p[k] = A[k]
        /\ p[m] = Plain("extend", L[1])
        /\ \A k \in 1..2 * n : p[m + k] = B[k]
    <3>0. A \in Seq(Call) /\ B \in Seq(Call) /\ E \in Seq(Call)
      BY <2>5
    <3> DEFINE ae == A \o E
    <3>1. /\ ae \in Seq(Call) /\ Len(ae) = Len(A) + Len(E)
          /\ \A k \in 1..Len(A) : ae[k] = A[k]
          /\ \A k \in 1..Len(E) : ae[Len(A) + k] = E[k]
      BY <3>0, Parts
    <3>2. Len(ae) = m /\ \A k \in 1..2 * n : ae[k] = A[k]
      BY <2>5, <3>1
    <3>3. ae[m] = E[1]
      <4>1. \A k \in 1..1 : ae[2 * n + k] = E[k]
        BY <2>5, <3>1
      <4>2. 1 \in 1..1
        OBVIOUS
      <4>3. ae[2 * n + 1] = E[1]
        BY <4>1, <4>2
      <4> QED
        BY <4>3
    <3> HIDE DEF ae
    <3>4. ae \in Seq(Call)
      BY <3>1
    <3>5. /\ ae \o B \in Seq(Call) /\ DOMAIN (ae \o B) = 1..Len(ae) + Len(B)
          /\ \A k \in 1..Len(ae) : (ae \o B)[k] = ae[k]
          /\ \A k \in 1..Len(B) : (ae \o B)[Len(ae) + k] = B[k]
      BY <3>0, <3>4, Parts
    <3>6. m \in 1..m /\ \A k \in 1..2 * n : k \in 1..m
      BY <2>2
    <3>7. p = ae \o B
      BY DEF ae
    <3> HIDE DEF p, m
    <3> QED
      BY <2>5, <3>2, <3>3, <3>5, <3>6, <3>7
  <2> HIDE DEF p
  <2>7. \A i \in 1..n :
          /\ 2 * i - 1 \in DOMAIN p /\ p[2 * i - 1] = Create(L[i])
          /\ 2 * i \in DOMAIN p /\ p[2 * i] = Plain("record", L[i])
          /\ m + (2 * i - 1) \in DOMAIN p /\ p[m + (2 * i - 1)] = Plain("start", L[i])
          /\ m + 2 * i \in DOMAIN p /\ p[m + 2 * i] = Plain("health", L[i])
    BY <2>2, <2>3, <2>6
  <2>8. m \in DOMAIN p /\ \A k \in DOMAIN p :
          \/ k = m
          \/ \E i \in 1..n : k \in {2 * i - 1, 2 * i, m + (2 * i - 1), m + 2 * i}
    <3>1. m \in DOMAIN p
      BY <2>2, <2>6
    <3>2. ASSUME NEW k \in DOMAIN p
          PROVE  \/ k = m
                 \/ \E i \in 1..n : k \in {2 * i - 1, 2 * i, m + (2 * i - 1), m + 2 * i}
      <4>1. k \in 1..2 * n \/ k = m \/ (k - m \in 1..2 * n /\ k = m + (k - m))
        BY <2>2, <2>6
      <4>2. CASE k \in 1..2 * n
        BY <2>4, <4>2
      <4>3. CASE k - m \in 1..2 * n /\ k = m + (k - m)
        <5>1. PICK i \in 1..n : k - m = 2 * i - 1 \/ k - m = 2 * i
          BY <2>4, <4>3
        <5> QED
          BY <4>3, <5>1
      <4> QED
        BY <4>1, <4>2, <4>3
    <3> QED
      BY <3>1, <3>2
  <2>9. Members(p) =
          {Plain("extend", L[1])}
            \cup UNION { {Create(L[i])} \cup {Plain("record", L[i])} \cup Starting(L[i]) : i \in 1..n }
    <3>1. ASSUME NEW k \in DOMAIN p
          PROVE  p[k] = Plain("extend", L[1]) \/
                 \E i \in 1..n : p[k] \in {Create(L[i]), Plain("record", L[i])} \cup Starting(L[i])
      <4>1. CASE k = m
        BY <2>6, <4>1
      <4>2. ASSUME NEW i \in 1..n, k \in {2 * i - 1, 2 * i, m + (2 * i - 1), m + 2 * i}
            PROVE  p[k] \in {Create(L[i]), Plain("record", L[i])} \cup Starting(L[i])
        BY <2>7, <4>2 DEF Starting
      <4> QED
        BY <2>8, <4>1, <4>2
    <3>2. ASSUME NEW i \in 1..n
          PROVE  {Create(L[i])} \cup {Plain("record", L[i])} \cup Starting(L[i]) \subseteq Members(p)
      BY <2>7 DEF Starting, Members
    <3>3. Plain("extend", L[1]) \in Members(p)
      BY <2>6, <2>8 DEF Members
    <3> HIDE DEF Create
    <3> QED
      BY <3>1, <3>2, <3>3 DEF Members
  <2>a. \A i \in 1..n : /\ p[2 * i - 1].op = "create" /\ p[2 * i - 1].on = L[i]
                        /\ p[2 * i].op = "record" /\ p[2 * i].on = L[i]
                        /\ p[m + (2 * i - 1)].op = "start" /\ p[m + (2 * i - 1)].on = L[i]
                        /\ p[m + 2 * i].op = "health" /\ p[m + 2 * i].on = L[i]
                        /\ 2 * i - 1 \in DOMAIN p /\ 2 * i \in DOMAIN p
                        /\ m + (2 * i - 1) \in DOMAIN p /\ m + 2 * i \in DOMAIN p
    <3> HIDE DEF m
    <3> TAKE i \in 1..n
    <3>1. p[2 * i - 1].op = "create" /\ p[2 * i - 1].on = L[i]
      <4>1. p[2 * i - 1] = Create(L[i])
        BY <2>7
      <4> QED
        BY <4>1
    <3>2. p[2 * i].op = "record" /\ p[2 * i].on = L[i]
      <4>1. p[2 * i] = Plain("record", L[i])
        BY <2>7
      <4> QED
        BY <4>1 DEF Plain
    <3>3. p[m + (2 * i - 1)].op = "start" /\ p[m + (2 * i - 1)].on = L[i]
      <4>1. p[m + (2 * i - 1)] = Plain("start", L[i])
        BY <2>7
      <4> QED
        BY <4>1 DEF Plain
    <3>4. p[m + 2 * i].op = "health" /\ p[m + 2 * i].on = L[i]
      <4>1. p[m + 2 * i] = Plain("health", L[i])
        BY <2>7
      <4> QED
        BY <4>1 DEF Plain
    <3> QED
      BY <2>7, <3>1, <3>2, <3>3, <3>4
  <2>10. Orderly(p)
    <3> SUFFICES ASSUME NEW k \in DOMAIN p PROVE Backed(p, k) /\ Closed(p, k) /\ Listed(p, k)
      BY <2>6 DEF Orderly
    <3>1. CASE k = m
      BY <2>6, <3>1 DEF Plain, Backed, Closed, Listed
    <3>2. CASE \E i \in 1..n : k = 2 * i - 1
      <4>1. PICK i \in 1..n : k = 2 * i - 1
        BY <3>2
      <4>2. p[k].op = "create" /\ p[k].on = L[i]
        BY <2>a, <4>1
      <4>3. p[2 * i].op = "record" /\ p[2 * i].on = L[i] /\ 2 * i \in DOMAIN p
        BY <2>a
      <4>4. k < 2 * i /\ \A l \in k..2 * i : l = k \/ l = 2 * i
        BY <4>1
      <4>5. Backed(p, k)
        BY <4>2 DEF Backed
      <4>6. Closed(p, k)
        BY <4>2, <4>3, <4>4 DEF Closed, Lifecycle!Creation
      <4>7. Listed(p, k)
        <5>1. p[m].op = "extend"
          BY <2>6 DEF Plain
        <5>2. \A l \in k..m : l = m \/ \E j \in 1..n : l = 2 * j - 1 \/ l = 2 * j
          <6> TAKE l \in k..m
          <6>1. l = m \/ l \in 1..2 * n
            BY <2>2, <4>1 DEF m
          <6> QED
            BY <2>4, <6>1
        <5>3. \A j \in 1..n : p[2 * j - 1].op = "create" /\ p[2 * j].op = "record"
          BY <2>a
        <5>4. k < m
          BY <2>2, <4>1 DEF m
        <5> QED
          BY <2>8, <5>1, <5>2, <5>3, <5>4 DEF Listed, Lifecycle!Creation
      <4> QED
        BY <4>5, <4>6, <4>7
    <3>3. CASE \E i \in 1..n : k = 2 * i
      <4>1. PICK i \in 1..n : k = 2 * i
        BY <3>3
      <4>2. p[k].op = "record" /\ p[k].on = L[i]
        BY <2>a, <4>1
      <4>3. p[2 * i - 1].op = "create" /\ p[2 * i - 1].on = L[i] /\ 2 * i - 1 \in DOMAIN p
        BY <2>a
      <4>4. 2 * i - 1 < k
        BY <4>1
      <4> QED
        BY <4>2, <4>3, <4>4 DEF Backed, Closed, Listed
    <3>4. CASE \E i \in 1..n : k = m + (2 * i - 1)
      <4>1. PICK i \in 1..n : k = m + (2 * i - 1)
        BY <3>4
      <4>2. p[k].op = "start" /\ p[k].on = L[i]
        BY <2>a, <4>1
      <4>3. p[2 * i - 1].op = "create" /\ p[2 * i - 1].on = L[i] /\ 2 * i - 1 \in DOMAIN p
        BY <2>a
      <4>4. 2 * i - 1 < k
        BY <2>2, <4>1 DEF m
      <4> QED
        BY <4>2, <4>3, <4>4 DEF Backed, Closed, Listed
    <3>5. CASE \E i \in 1..n : k = m + 2 * i
      <4>1. PICK i \in 1..n : k = m + 2 * i
        BY <3>5
      <4>2. p[k].op = "health" /\ p[k].on = L[i]
        BY <2>a, <4>1
      <4>3. /\ p[m + (2 * i - 1)].op = "start" /\ p[m + (2 * i - 1)].on = L[i]
            /\ m + (2 * i - 1) \in DOMAIN p
        BY <2>a
      <4>4. m + (2 * i - 1) < k
        BY <2>2, <4>1 DEF m
      <4> QED
        BY <4>2, <4>3, <4>4 DEF Backed, Closed, Listed
    <3> QED
      BY <2>8, <3>1, <3>2, <3>3, <3>4, <3>5
  <2>11. Once(p)
    <3> SUFFICES ASSUME NEW k \in DOMAIN p, NEW l \in DOMAIN p, p[k] = p[l]
                 PROVE  k = l
      BY DEF Once
    <3> DEFINE At(i) == {2 * i - 1, 2 * i, m + (2 * i - 1), m + 2 * i}
    <3>1. p[m].op = "extend"
      BY <2>6 DEF Plain
    <3>2. \A i \in 1..n : /\ p[2 * i - 1].op = "create" /\ p[2 * i].op = "record"
                          /\ p[m + (2 * i - 1)].op = "start" /\ p[m + 2 * i].op = "health"
                          /\ p[2 * i - 1].on = L[i] /\ p[2 * i].on = L[i]
                          /\ p[m + (2 * i - 1)].on = L[i] /\ p[m + 2 * i].on = L[i]
      BY <2>a
    <3>3. CASE k = m \/ l = m
      BY <2>8, <3>1, <3>2, <3>3
    <3>4. CASE k # m /\ l # m
      <4>1. PICK i \in 1..n : k \in At(i)
        BY <2>8, <3>4
      <4>2. PICK j \in 1..n : l \in At(j)
        BY <2>8, <3>4
      <4>3. p[k].on = L[i] /\ p[l].on = L[j]
        BY <3>2, <4>1, <4>2
      <4>4. i = j
        BY <2>2, <4>3
      <4> QED
        BY <3>2, <4>1, <4>2, <4>4
    <3> QED
      BY <3>3, <3>4
  <2>12. ASSUME NEW s \in Members(p)
         PROVE  /\ s.on \in Members(LlmServers) /\ s.op # "network"
                /\ Fits(s, Members(p), d, g)
    <3>1. ASSUME NEW c \in Members(LlmServers)
          PROVE  /\ c # W /\ Wanted(c, d) /\ Nets(c, d) = BackendOnly
                 /\ Nets(c, d)[1] = "backend" /\ Later(Nets(c, d)) = {}
      <4>1. c \notin Members(FixedContainers)
        BY ServerNames
      <4>2. Wanted(c, d)
        BY <1>2, <4>1, FixedNames DEF Wanted, W
      <4>3. Nets(c, d) = <<"backend">>
        BY <4>1, FixedNames DEF Nets, W, BackendOnly
      <4>4. "backend" \in NetName
        BY NetworkNames DEF NetName
      <4> QED
        BY <4>1, <4>2, <4>3, <4>4, FixedNames, OneNetwork DEF W, BackendOnly
    <3>2. CASE s = Plain("extend", L[1])
      <4>1. s.op = "extend" /\ s.on \in Members(LlmServers) /\ s.net = Offline
        BY <2>2, <3>2 DEF Plain
      <4> QED
        BY <3>1, <4>1 DEF Fits
    <3>3. ASSUME NEW i \in 1..n, s \in {Create(L[i])} \cup {Plain("record", L[i])} \cup Starting(L[i])
          PROVE  /\ s.on \in Members(LlmServers) /\ s.op # "network"
                 /\ Fits(s, Members(p), d, g)
      <4>1. L[i] \in Members(LlmServers)
        BY <2>2
      <4>2. CASE s = Create(L[i])
        <5>1. s.op = "create" /\ s.on = L[i] /\ s.net = "backend"
          BY <4>2
        <5>2. Plain("record", L[i]) \in Members(p) /\ Starting(L[i]) \subseteq Members(p)
          BY <2>9
        <5> QED
          BY <3>1, <4>1, <5>1, <5>2 DEF Fits
      <4>3. CASE s \in {Plain("record", L[i])} \cup Starting(L[i])
        <5>1. s.op \in {"record", "start", "health"} /\ s.on = L[i] /\ s.net = Offline
          BY <4>3 DEF Plain, Starting
        <5> QED
          BY <3>1, <4>1, <5>1 DEF Fits
      <4> QED
        BY <3>3, <4>2, <4>3
    <3> HIDE DEF Create
    <3> QED
      BY <2>9, <3>2, <3>3
  <2>13. LlmServerPlan(d) = p
    BY <2>1 DEF p
  <2>14. ASSUME NEW c \in Members(LlmServers)
         PROVE  Brought(c, Members(p), g)
    <3>1. PICK i \in 1..n : c = L[i]
      BY <2>2 DEF Members
    <3>2. Create(c) \in Members(p)
      BY <2>9, <3>1
    <3>3. Create(c).op = "create" /\ Create(c).on = c
      OBVIOUS
    <3>4. c \notin Keyed
      BY ServerNames, FixedNames DEF Keyed
    <3>5. ~Refused(c, g)
      BY ServerNames, FixedNames DEF Refused, Table
    <3> HIDE DEF Create
    <3> QED
      BY <3>2, <3>3, <3>4, <3>5 DEF Brought
  <2> QED
    BY <2>10, <2>11, <2>12, <2>13, <2>14 DEF Block
<1> QED
  BY <1>1, <1>2

-----------------------------------------------------------------------------
(* The sidecars, each in its own way.                                      *)

LEMMA Blocks ==
  ASSUME NEW d, NEW g
  PROVE  /\ Block(SquidProxyPlan(d, g), {"squid_proxy"}, d, g)
         /\ Block(LlmBrokerPlan(d, g), {"llm_broker"}, d, g)
         /\ Block(JinaReaderPlan(d), {"jina_reader"}, d, g)
         /\ Block(CodeExecutionPlan(d), {"code_execution"}, d, g)
         /\ Block(McpServerPlan(d, g), {"mcp_server"}, d, g)
         /\ Block(DoclingPlan(d, g), {"docling"}, d, g)
         /\ Block(DocumentsPlan(d, g), {"documents"}, d, g)
         /\ Block(HaproxyPlan(d, g), {"haproxy"}, d, g)
         /\ Block(QdrantPlan(d, g), {"qdrant"}, d, g)
         /\ Block(EmbeddingsPlan(d, g), {"embeddings"}, d, g)
         /\ Block(OtelCollectorPlan(d), {"otel_collector"}, d, g)
         /\ Block(PostgresPlan(d, g), {"postgres"}, d, g)
         /\ Block(AgentMemoryPlan(d, g), {"agent_memory"}, d, g)
         /\ Block(GuardsPlan(d), {"prompt_guard", "entity_guard"}, d, g)
<1>0. \A c \in Members(FixedContainers) : c \notin Members(LlmServers)
  BY ServerNames
<1>1. Block(SquidProxyPlan(d, g), {"squid_proxy"}, d, g)
  <2>1. /\ "squid_proxy" \in Members(FixedContainers) /\ "squid_proxy" # W /\ "squid_proxy" \notin Keyed
        /\ Nets("squid_proxy", d) = SquidNetworks(d) /\ (Wanted("squid_proxy", d) <=> "internet" \in d)
        /\ Refused("squid_proxy", g) <=> "squid_proxy" \notin g
        /\ ~Refused("squid_proxy", g \cup {"squid_proxy"})
    BY <1>0, FixedNames DEF Nets, Wanted, W, Keyed, Refused, Table
  <2>2. CASE "internet" \in d
    BY <2>1, <2>2, RefusableBlocks DEF SquidProxyPlan, When, CreateSquidProxy
  <2>3. CASE ~("internet" \in d)
    BY <2>1, <2>3, EmptyBlock DEF SquidProxyPlan, When
  <2> QED
    BY <2>2, <2>3
<1>2. Block(LlmBrokerPlan(d, g), {"llm_broker"}, d, g)
  <2>1. /\ "llm_broker" \in Members(FixedContainers) /\ "llm_broker" # W
        /\ Nets("llm_broker", d) = <<"backend", "workload">> /\ (Wanted("llm_broker", d) <=> "llm_broker" \in d)
        /\ Refused("llm_broker", g) <=> "llm_broker" \notin g
        /\ ~Refused("llm_broker", g \cup {"llm_broker"})
    BY <1>0, FixedNames DEF Nets, Wanted, W, Keyed, Refused, Table
  <2>2. CASE "llm_broker" \in d
    BY <2>1, <2>2, RefusableBlocks DEF LlmBrokerPlan, When, CreateLlmBroker
  <2>3. CASE ~("llm_broker" \in d)
    BY <2>1, <2>3, EmptyBlock DEF LlmBrokerPlan, When
  <2> QED
    BY <2>2, <2>3
<1>3. Block(JinaReaderPlan(d), {"jina_reader"}, d, g)
  <2>1. /\ "jina_reader" \in Members(FixedContainers) /\ "jina_reader" # W /\ "jina_reader" \notin Keyed
        /\ Nets("jina_reader", d) = BackendOnly /\ (Wanted("jina_reader", d) <=> "jina_reader" \in d)
        /\ ~Refused("jina_reader", g)
    BY <1>0, FixedNames DEF Nets, Wanted, W, Keyed, Refused, Table
  <2>2. CASE "jina_reader" \in d
    BY <2>1, <2>2, SidecarBlocks DEF JinaReaderPlan, When, CreateJinaReader
  <2>3. CASE ~("jina_reader" \in d)
    BY <2>1, <2>3, EmptyBlock DEF JinaReaderPlan, When
  <2> QED
    BY <2>2, <2>3
<1>4. Block(CodeExecutionPlan(d), {"code_execution"}, d, g)
  <2>1. /\ "code_execution" \in Members(FixedContainers) /\ "code_execution" # W /\ "code_execution" \notin Keyed
        /\ Nets("code_execution", d) = BackendOnly /\ (Wanted("code_execution", d) <=> "code_execution" \in d)
        /\ ~Refused("code_execution", g)
    BY <1>0, FixedNames DEF Nets, Wanted, W, Keyed, Refused, Table
  <2>2. CASE "code_execution" \in d
    BY <2>1, <2>2, SidecarBlocks DEF CodeExecutionPlan, When, CreateCodeExecution
  <2>3. CASE ~("code_execution" \in d)
    BY <2>1, <2>3, EmptyBlock DEF CodeExecutionPlan, When
  <2> QED
    BY <2>2, <2>3
<1>5. Block(McpServerPlan(d, g), {"mcp_server"}, d, g)
  <2>1. /\ "mcp_server" \in Members(FixedContainers) /\ "mcp_server" # W
        /\ Nets("mcp_server", d) = <<"workload", "backend">> /\ (Wanted("mcp_server", d) <=> "mcp_server" \in d)
        /\ Refused("mcp_server", g) <=> "mcp_server" \notin g
        /\ ~Refused("mcp_server", g \cup {"mcp_server"})
    BY <1>0, FixedNames DEF Nets, Wanted, W, Keyed, Refused, Table
  <2>2. CASE "mcp_server" \in d
    BY <2>1, <2>2, RefusableBlocks DEF McpServerPlan, When, CreateMcpServer
  <2>3. CASE ~("mcp_server" \in d)
    BY <2>1, <2>3, EmptyBlock DEF McpServerPlan, When
  <2> QED
    BY <2>2, <2>3
<1>6. Block(DoclingPlan(d, g), {"docling"}, d, g)
  <2>1. /\ "docling" \in Members(FixedContainers) /\ "docling" # W /\ "docling" \notin Keyed
        /\ Nets("docling", d) = BackendOnly /\ (Wanted("docling", d) <=> "docling" \in d)
        /\ Refused("docling", g) <=> "docling" \notin g
        /\ ~Refused("docling", g \cup {"docling"})
    BY <1>0, FixedNames DEF Nets, Wanted, W, Keyed, Refused, Table
  <2>2. CASE "docling" \in d
    BY <2>1, <2>2, RefusableBlocks DEF DoclingPlan, When, CreateDocling
  <2>3. CASE ~("docling" \in d)
    BY <2>1, <2>3, EmptyBlock DEF DoclingPlan, When
  <2> QED
    BY <2>2, <2>3
<1>7. Block(DocumentsPlan(d, g), {"documents"}, d, g)
  <2>1. /\ "documents" \in Members(FixedContainers) /\ "documents" # W /\ "documents" \notin Keyed
        /\ Nets("documents", d) = BackendOnly /\ (Wanted("documents", d) <=> "documents" \in d)
        /\ Refused("documents", g) <=> "documents" \notin g
        /\ ~Refused("documents", g \cup {"documents"})
    BY <1>0, FixedNames DEF Nets, Wanted, W, Keyed, Refused, Table
  <2>2. CASE "documents" \in d
    BY <2>1, <2>2, RefusableBlocks DEF DocumentsPlan, When, CreateDocuments
  <2>3. CASE ~("documents" \in d)
    BY <2>1, <2>3, EmptyBlock DEF DocumentsPlan, When
  <2> QED
    BY <2>2, <2>3
<1>8. Block(HaproxyPlan(d, g), {"haproxy"}, d, g)
  <2>1. /\ "haproxy" \in Members(FixedContainers) /\ "haproxy" # W /\ "haproxy" \notin Keyed
        /\ Nets("haproxy", d) = HaproxyNetworks(d) /\ (Wanted("haproxy", d) <=> "localnet" \in d)
        /\ Refused("haproxy", g) <=> "haproxy" \notin g
        /\ ~Refused("haproxy", g \cup {"haproxy"})
    BY <1>0, FixedNames DEF Nets, Wanted, W, Keyed, Refused, Table
  <2>2. CASE "localnet" \in d
    BY <2>1, <2>2, RefusableBlocks DEF HaproxyPlan, When, CreateHaproxy
  <2>3. CASE ~("localnet" \in d)
    BY <2>1, <2>3, EmptyBlock DEF HaproxyPlan, When
  <2> QED
    BY <2>2, <2>3
<1>9. Block(QdrantPlan(d, g), {"qdrant"}, d, g)
  <2>1. /\ "qdrant" \in Members(FixedContainers) /\ "qdrant" # W /\ "qdrant" \notin Keyed
        /\ Nets("qdrant", d) = BackendOnly /\ (Wanted("qdrant", d) <=> "qdrant" \in d)
        /\ Refused("qdrant", g) <=> "qdrant" \notin g
        /\ ~Refused("qdrant", g \cup {"qdrant"})
    BY <1>0, FixedNames DEF Nets, Wanted, W, Keyed, Refused, Table
  <2>2. CASE "qdrant" \in d
    BY <2>1, <2>2, RefusableBlocks DEF QdrantPlan, When, CreateQdrant
  <2>3. CASE ~("qdrant" \in d)
    BY <2>1, <2>3, EmptyBlock DEF QdrantPlan, When
  <2> QED
    BY <2>2, <2>3
<1>10. Block(EmbeddingsPlan(d, g), {"embeddings"}, d, g)
  <2>1. /\ "embeddings" \in Members(FixedContainers) /\ "embeddings" # W /\ "embeddings" \notin Keyed
        /\ Nets("embeddings", d) = BackendOnly /\ (Wanted("embeddings", d) <=> "embeddings" \in d)
        /\ Refused("embeddings", g) <=> "docling" \notin g
        /\ ~Refused("embeddings", g \cup {"docling"})
    BY <1>0, FixedNames DEF Nets, Wanted, W, Keyed, Refused, Table
  <2>2. CASE "embeddings" \in d
    BY <2>1, <2>2, RefusableBlocks DEF EmbeddingsPlan, When, CreateEmbeddings
  <2>3. CASE ~("embeddings" \in d)
    BY <2>1, <2>3, EmptyBlock DEF EmbeddingsPlan, When
  <2> QED
    BY <2>2, <2>3
<1>11. Block(OtelCollectorPlan(d), {"otel_collector"}, d, g)
  <2>1. /\ "otel_collector" \in Members(FixedContainers) /\ "otel_collector" # W /\ "otel_collector" \notin Keyed
        /\ Nets("otel_collector", d) = <<"workload">> /\ (Wanted("otel_collector", d) <=> "otel_collector" \in d)
        /\ ~Refused("otel_collector", g)
    BY <1>0, FixedNames DEF Nets, Wanted, W, Keyed, Refused, Table
  <2>2. CASE "otel_collector" \in d
    BY <2>1, <2>2, SidecarBlocks DEF OtelCollectorPlan, When, CreateOtelCollector
  <2>3. CASE ~("otel_collector" \in d)
    BY <2>1, <2>3, EmptyBlock DEF OtelCollectorPlan, When
  <2> QED
    BY <2>2, <2>3
<1>12. Block(PostgresPlan(d, g), {"postgres"}, d, g)
  <2>1. /\ "postgres" \in Members(FixedContainers) /\ "postgres" # W /\ "postgres" \notin Keyed
        /\ Nets("postgres", d) = BackendOnly /\ (Wanted("postgres", d) <=> "postgres" \in d)
        /\ Refused("postgres", g) <=> "postgres" \notin g
        /\ ~Refused("postgres", g \cup {"postgres"})
    BY <1>0, FixedNames DEF Nets, Wanted, W, Keyed, Refused, Table
  <2>2. CASE "postgres" \in d
    BY <2>1, <2>2, RefusableBlocks DEF PostgresPlan, When, CreatePostgres
  <2>3. CASE ~("postgres" \in d)
    BY <2>1, <2>3, EmptyBlock DEF PostgresPlan, When
  <2> QED
    BY <2>2, <2>3
<1>13. Block(AgentMemoryPlan(d, g), {"agent_memory"}, d, g)
  <2>1. /\ "agent_memory" \in Members(FixedContainers) /\ "agent_memory" # W
        /\ Nets("agent_memory", d) = <<"workload", "backend">> /\ (Wanted("agent_memory", d) <=> "agent_memory" \in d)
        /\ Refused("agent_memory", g) <=> "agent_memory" \notin g
        /\ ~Refused("agent_memory", g \cup {"agent_memory"})
    BY <1>0, FixedNames DEF Nets, Wanted, W, Keyed, Refused, Table
  <2>2. CASE "agent_memory" \in d
    BY <2>1, <2>2, RefusableBlocks DEF AgentMemoryPlan, When, CreateAgentMemory
  <2>3. CASE ~("agent_memory" \in d)
    BY <2>1, <2>3, EmptyBlock DEF AgentMemoryPlan, When
  <2> QED
    BY <2>2, <2>3
<1>14. Block(GuardsPlan(d), {"prompt_guard", "entity_guard"}, d, g)
  <2>1. \A c \in {"prompt_guard", "entity_guard"} :
          /\ c \in Members(FixedContainers) /\ c # W /\ c \notin Keyed
          /\ Nets(c, d) = BackendOnly /\ (Wanted(c, d) <=> GuardsRequired(d))
          /\ ~Refused(c, g)
    BY <1>0, FixedNames DEF Nets, Wanted, W, Keyed, Refused, Table
  <2>2. CASE GuardsRequired(d)
    <3> DEFINE p == CreatePromptGuard \o Started("prompt_guard")
               e == CreateEntityGuard
               f == Started("entity_guard")
    <3>1. Block(p, {"prompt_guard"}, d, g) /\ Block(e \o f, {"entity_guard"}, d, g)
      BY <2>1, <2>2, SidecarBlocks DEF CreatePromptGuard, CreateEntityGuard
    <3>2. p \in Seq(Call) /\ e \in Seq(Call) /\ f \in Seq(Call)
      <4>1. p \in Seq(Call)
        BY <3>1 DEF Block, Orderly
      <4>2. IsNets(BackendOnly)
        BY <2>1, NetsAreNets
      <4>3. "entity_guard" \in Members(FixedContainers) /\ "entity_guard" \in Members(AllContainers)
        BY <2>1, ContainerNames
      <4>4. e \in Seq(Call)
        BY <4>2, <4>3, GoodMaking DEF CreateEntityGuard, Good, Orderly
      <4>5. On("start", "entity_guard") \in Seq(Call) /\ On("health", "entity_guard") \in Seq(Call)
        BY <4>3, OneCall DEF Lifecycle!Operation
      <4>6. f \in Seq(Call)
        BY <4>5, MembersOfConcat DEF Started
      <4> QED
        BY <4>1, <4>4, <4>6
    <3> HIDE DEF p, e, f
    <3>3. Block(p \o (e \o f), {"prompt_guard"} \cup {"entity_guard"}, d, g)
      BY <3>1, BlockConcat
    <3>4. GuardsPlan(d) = p \o e \o f
      BY <2>2 DEF GuardsPlan, When, p, e, f
    <3>5. p \o e \o f = p \o (e \o f)
      BY <3>2, ConcatAssociative
    <3>6. {"prompt_guard"} \cup {"entity_guard"} = {"prompt_guard", "entity_guard"}
      OBVIOUS
    <3> QED
      BY <3>3, <3>4, <3>5, <3>6
  <2>3. CASE ~GuardsRequired(d)
    BY <2>1, <2>3, EmptyBlock DEF GuardsPlan, When
  <2> QED
    BY <2>2, <2>3
<1> QED
  BY <1>1, <1>2, <1>3, <1>4, <1>5, <1>6, <1>7, <1>8, <1>9, <1>10, <1>11, <1>12, <1>13, <1>14

-----------------------------------------------------------------------------
(* The networks a specification asks for come first.                       *)

Network(n) == [op |-> "network", on |-> W, net |-> n]

Required(d) ==
  {n \in {"workload", "backend", "egress"} :
     /\ n = "workload" => WorkloadNetworkRequired(d)
     /\ n = "backend" => BackendNetworkRequired(d)
     /\ n = "egress" => EgressNetworkRequired(d)}

LEMMA LaterAreRequired ==
  ASSUME NEW d, ValidSpecification(d), NEW c, Wanted(c, d)
  PROVE  Later(Nets(c, d)) \subseteq Required(d)
<1>0. /\ "internet" \in d => "network" \in d
      /\ "localnet" \in d => "network" \in d
      /\ "mcp_server" \in d => "network" \in d
      /\ "llm_broker" \in d => "network" \in d
  BY DEF ValidSpecification, ValidSquidProxy, ValidHaproxy, ValidMcpServer,
         ValidLlmBroker, Needs
<1>1. {"workload", "backend", "egress", Offline} \subseteq NetName
  BY NetworkNames DEF NetName
<1>2. \A n \in {"workload", "backend", Offline} : Later(<<n>>) = {}
  BY <1>1, OneNetwork
<1>3. Later(<<"workload", "backend">>) = {"backend"} /\ Later(<<"backend", "workload">>) = {"workload"}
  <2>1. "workload" # "backend"
    OBVIOUS
  <2> QED
    BY <1>1, <2>1, TwoNetworks
<1>4. CASE c = W
  <2>1. Nets(c, d) = WorkloadNetworks(d)
    BY <1>4 DEF Nets, W
  <2>2. WorkloadNetworks(d) = <<"workload">> \/ WorkloadNetworks(d) = <<Offline>>
    BY DEF WorkloadNetworks
  <2> QED
    BY <1>2, <2>1, <2>2
<1>5. CASE c = "squid_proxy"
  <2>1. Nets(c, d) = SquidNetworks(d) /\ "internet" \in d
    BY <1>5, ServerNames, FixedNames DEF Nets, Wanted, W
  <2> QED
    BY <1>0, <2>1, ProxyNetworks DEF Required, WorkloadNetworkRequired
<1>6. CASE c = "haproxy"
  <2>1. Nets(c, d) = HaproxyNetworks(d) /\ "localnet" \in d
    BY <1>6, ServerNames, FixedNames DEF Nets, Wanted, W
  <2> QED
    BY <1>0, <2>1, ProxyNetworks DEF Required, WorkloadNetworkRequired
<1>7. CASE c \in {"mcp_server", "agent_memory"}
  <2>1. Nets(c, d) = <<"workload", "backend">> /\ c \in d
    BY <1>7, ServerNames, FixedNames DEF Nets, Wanted, W
  <2> QED
    BY <1>3, <1>7, <2>1 DEF Required, BackendNetworkRequired
<1>8. CASE c = "llm_broker"
  <2>1. Nets(c, d) = <<"backend", "workload">> /\ c \in d
    BY <1>8, ServerNames, FixedNames DEF Nets, Wanted, W
  <2> QED
    BY <1>0, <1>3, <1>8, <2>1 DEF Required, WorkloadNetworkRequired
<1>9. CASE c \notin {W, "squid_proxy", "haproxy", "mcp_server", "agent_memory", "llm_broker"}
  <2>1. Nets(c, d) \in {<<"workload">>, <<"backend">>}
    BY <1>9 DEF Nets, BackendOnly
  <2> QED
    BY <1>2, <2>1
<1> QED
  BY <1>4, <1>5, <1>6, <1>7, <1>8, <1>9

(* What is known of a plan for d once the calls for the named containers   *)
(* have been added to it.                                                  *)
Front(p, names, d, g) ==
  /\ Orderly(p) /\ Once(p)
  /\ \A n \in Required(d) : Network(n) \in Members(p)
  /\ \A s \in Members(p) :
       \/ \E n \in Required(d) : s = Network(n)
       \/ s.on \in names /\ s.op # "network" /\ Fits(s, Members(p), d, g)
  /\ \A c \in names \ {W} : Wanted(c, d) => Brought(c, Members(p), g)
  /\ \A i \in DOMAIN p :
       p[i].op = "connect" => \E j \in DOMAIN p : j < i /\ p[j] = Network(p[i].net)
  /\ \A i \in DOMAIN p :
       p[i].op = "create" /\ p[i].on = "haproxy" /\ "mcp_server" \in d =>
         \E j \in DOMAIN p : j < i /\ p[j] = Plain("verify", "mcp_server")
  /\ \A i, j \in DOMAIN p : p[i].op = "network" /\ p[j].op # "network" => i < j

LEMMA NetworksFirst ==
  ASSUME NEW d, NEW g
  PROVE  Front(NetworkPlan(d), {}, d, g)
<1> DEFINE piece(n) == When(n \in Required(d), NetworkStep(n))
           only(n)  == IF n \in Required(d) THEN {Network(n)} ELSE {}
<1>1. ASSUME NEW n \in {"workload", "backend", "egress"}
      PROVE  Orderly(piece(n)) /\ Once(piece(n)) /\ Members(piece(n)) = only(n)
  <2>1. Network(n) \in Call
    <3>1. n \in NetName /\ W \in Members(AllContainers)
      BY NetworkNames, ContainerNames, FixedNames DEF NetName, W
    <3> QED
      BY <3>1 DEF Call, Lifecycle!Step, Lifecycle!Operation, NetName, Network
  <2> DEFINE s == Network(n)
  <2>2. s.op = "network"
    BY DEF Network
  <2> HIDE DEF s
  <2>3. <<s>> \in Seq(Call) /\ DOMAIN <<s>> = {1} /\ <<s>>[1] = s
    BY <2>1 DEF s
  <2>4. Orderly(<<s>>) /\ Once(<<s>>) /\ Members(<<s>>) = {s}
    BY <2>2, <2>3 DEF Orderly, Backed, Closed, Listed, Once, Members
  <2>5. <<>> \in Seq(Call) /\ DOMAIN <<>> = {}
    OBVIOUS
  <2>6. Orderly(<<>>) /\ Once(<<>>) /\ Members(<<>>) = {}
    BY <2>5 DEF Orderly, Once, Members
  <2>7. NetworkStep(n) = <<s>>
    BY DEF NetworkStep, Network, W, s
  <2> QED
    BY <2>4, <2>6, <2>7 DEF When, s
<1> DEFINE wl == piece("workload")
           be == piece("backend")
           eg == piece("egress")
<1>2. NetworkPlan(d) = wl \o be \o eg
  BY DEF NetworkPlan, Required, When
<1>3. /\ Orderly(wl) /\ Once(wl) /\ Members(wl) = only("workload")
      /\ Orderly(be) /\ Once(be) /\ Members(be) = only("backend")
      /\ Orderly(eg) /\ Once(eg) /\ Members(eg) = only("egress")
  BY <1>1
<1>4. wl \in Seq(Call) /\ be \in Seq(Call) /\ eg \in Seq(Call)
  BY <1>3 DEF Orderly
<1>5. \A m, n : m # n => Network(m) # Network(n)
  BY DEF Network
<1> HIDE DEF wl, be, eg, piece
<1>6. Orderly(wl \o be) /\ Once(wl \o be) /\ Members(wl \o be) = only("workload") \cup only("backend")
  <2>1. Members(wl) \cap Members(be) = {}
    BY <1>3, <1>5
  <2> QED
    BY <1>3, <1>4, <2>1, OrderlyConcat, OnceConcat, MembersOfConcat
<1>7. wl \o be \in Seq(Call)
  BY <1>6 DEF Orderly
<1> DEFINE p == wl \o be \o eg
<1>8. /\ Orderly(p) /\ Once(p)
      /\ Members(p) = only("workload") \cup only("backend") \cup only("egress")
  <2> DEFINE x == wl \o be
  <2>1. Members(x) \cap Members(eg) = {}
    BY <1>3, <1>5, <1>6
  <2>2. Orderly(x) /\ Once(x) /\ x \in Seq(Call) /\ Members(x) = only("workload") \cup only("backend")
    BY <1>6, <1>7
  <2> HIDE DEF x, only
  <2>3. Orderly(x \o eg) /\ Once(x \o eg) /\ Members(x \o eg) = Members(x) \cup Members(eg)
    BY <1>3, <1>4, <2>1, <2>2, OrderlyConcat, OnceConcat, MembersOfConcat
  <2> QED
    BY <1>3, <2>2, <2>3 DEF x
<1> HIDE DEF p
<1>9. Members(p) = {Network(n) : n \in Required(d)}
  <2>1. Required(d) \subseteq {"workload", "backend", "egress"}
    BY DEF Required
  <2> QED
    BY <1>8, <2>1
<1>10. \A n : Network(n).op = "network"
  BY DEF Network
<1>11. \A i \in DOMAIN p : p[i].op = "network"
  BY <1>9, <1>10 DEF Members
<1> QED
  BY <1>2, <1>8, <1>9, <1>11 DEF Front, p

LEMMA FrontTakes ==
  ASSUME NEW p, NEW q, NEW C, NEW D, NEW d, NEW g, ValidSpecification(d),
         Front(p, C, d, g), Block(q, D, d, g), Members(p) \cap Members(q) = {},
         "haproxy" \in D /\ "mcp_server" \in d => Plain("verify", "mcp_server") \in Members(p),
         NEW r, r = p \o q, NEW E, E = C \cup D
  PROVE  Front(r, E, d, g)
<1>1. /\ Orderly(p) /\ Orderly(q) /\ Once(p) /\ Once(q)
      /\ p \in Seq(Call) /\ q \in Seq(Call)
  BY DEF Front, Block, Orderly
<1>4. Orderly(r) /\ Once(r) /\ Members(r) = Members(p) \cup Members(q)
  BY <1>1, OrderlyConcat, OnceConcat, MembersOfConcat
<1>5. /\ Len(p) \in Nat /\ DOMAIN p = 1..Len(p)
      /\ Len(q) \in Nat /\ DOMAIN q = 1..Len(q) /\ DOMAIN r = 1..Len(p) + Len(q)
      /\ \A i \in 1..Len(p) : r[i] = p[i]
      /\ \A i \in 1..Len(q) : r[Len(p) + i] = q[i]
  BY <1>1, Parts
<1>6. ASSUME NEW s \in Members(r)
      PROVE  \/ \E n \in Required(d) : s = Network(n)
             \/ s.on \in E /\ s.op # "network" /\ Fits(s, Members(r), d, g)
  <2>1. CASE s \in Members(p)
    BY <1>4, <2>1, MoreCallsFit DEF Front
  <2>2. CASE s \in Members(q)
    BY <1>4, <2>2, MoreCallsFit DEF Block
  <2> QED
    BY <1>4, <2>1, <2>2
<1>7. \A i \in DOMAIN p : i \in DOMAIN r /\ r[i] = p[i]
  BY <1>5
<1>8. ASSUME NEW i \in DOMAIN r, i \notin DOMAIN p
      PROVE  /\ r[i] \in Members(q)
             /\ \A s \in Members(p) : \E j \in DOMAIN r : j < i /\ r[j] = s
  <2>1. i - Len(p) \in 1..Len(q) /\ Len(p) + (i - Len(p)) = i
    BY <1>5, <1>8
  <2>2. r[i] = q[i - Len(p)]
    BY <1>5, <2>1
  <2>3. \A j \in DOMAIN p : j < i
    BY <1>5, <1>8
  <2> QED
    BY <1>5, <1>7, <2>1, <2>2, <2>3 DEF Members
<1>9. ASSUME NEW i \in DOMAIN r, r[i].op = "connect"
      PROVE  \E j \in DOMAIN r : j < i /\ r[j] = Network(r[i].net)
  <2>1. CASE i \in DOMAIN p
    BY <1>7, <1>9, <2>1 DEF Front
  <2>2. CASE i \notin DOMAIN p
    <3>1. Fits(r[i], Members(q), d, g)
      BY <1>8, <2>2 DEF Block
    <3>2. r[i].net \in Required(d)
      BY <1>9, <3>1, LaterAreRequired DEF Fits
    <3>3. Network(r[i].net) \in Members(p)
      BY <3>2 DEF Front
    <3> QED
      BY <1>8, <2>2, <3>3
  <2> QED
    BY <2>1, <2>2
<1>10. ASSUME NEW i \in DOMAIN r, r[i].op = "create", r[i].on = "haproxy", "mcp_server" \in d
       PROVE  \E j \in DOMAIN r : j < i /\ r[j] = Plain("verify", "mcp_server")
  <2>1. CASE i \in DOMAIN p
    BY <1>7, <1>10, <2>1 DEF Front
  <2>2. CASE i \notin DOMAIN p
    <3>1. "haproxy" \in D
      BY <1>8, <1>10, <2>2 DEF Block
    <3> QED
      BY <1>8, <1>10, <2>2, <3>1
  <2> QED
    BY <2>1, <2>2
<1>11. \A n \in Required(d) : Network(n) \in Members(r)
  BY <1>4 DEF Front
<1>12. ASSUME NEW c \in E \ {W}, Wanted(c, d)
       PROVE  Brought(c, Members(r), g)
  BY <1>4, <1>12, MoreBring DEF Front, Block
<1>13. ASSUME NEW i \in DOMAIN r, NEW j \in DOMAIN r,
              r[i].op = "network", r[j].op # "network"
       PROVE  i < j
  <2>1. i \in DOMAIN p
    BY <1>8, <1>13 DEF Block
  <2>2. CASE j \in DOMAIN p
    BY <1>7, <1>13, <2>1, <2>2 DEF Front
  <2>3. CASE j \notin DOMAIN p
    BY <1>5, <2>1, <2>3
  <2> QED
    BY <2>2, <2>3
<1>14. Front(r, E, d, g)
  BY <1>4, <1>6, <1>9, <1>10, <1>11, <1>12, <1>13 DEF Front
<1> QED
  BY <1>14

LEMMA FrontGrows ==
  ASSUME NEW p, NEW q, NEW C, NEW D, NEW d, NEW g, ValidSpecification(d),
         Front(p, C, d, g), Block(q, D, d, g), C \cap D = {},
         "haproxy" \in D /\ "mcp_server" \in d => Plain("verify", "mcp_server") \in Members(p),
         NEW r, r = p \o q, NEW E, E = C \cup D
  PROVE  Front(r, E, d, g)
<1>1. \A n : Network(n).op = "network"
  BY DEF Network
<1>2. Members(p) \cap Members(q) = {}
  BY <1>1 DEF Front, Block
<1> QED
  BY <1>2, FrontTakes

LEMMA McpServerIsVerified ==
  ASSUME NEW d, NEW g, "mcp_server" \in d
  PROVE  Plain("verify", "mcp_server") \in Members(McpServerPlan(d, g))
<1> DEFINE c == "mcp_server"
           made  == SealedAndCreated(c, <<"workload", "backend">>)
           front == CreateMcpServer(g) \o Started(c)
<1>1. c \in Members(FixedContainers) /\ c \in Members(AllContainers)
  BY FixedNames, ContainerNames
<1>2. IsNets(<<"workload", "backend">>)
  <2>1. Nets(c, d) = <<"workload", "backend">>
    BY DEF Nets, W
  <2> QED
    BY <2>1, NetsAreNets
<1> HIDE DEF c
<1>3. made \in Seq(Call) /\ Started(c) \in Seq(Call) /\ Without("mcp_server", g, c) \in Seq(Call)
  <2>1. made \in Seq(Call)
    BY <1>1, <1>2, GoodMaking DEF Good, Orderly
  <2>2. \A op \in {"refuse", "start", "health"} : On(op, c) \in Seq(Call)
    BY <1>1, OneCall DEF Lifecycle!Operation
  <2>3. <<>> \in Seq(Call)
    OBVIOUS
  <2> QED
    BY <2>1, <2>2, <2>3, MembersOfConcat DEF Started, Without, When
<1>4. front \in Seq(Call)
  <2>1. front = Without("mcp_server", g, c) \o made \o Started(c)
    BY DEF CreateMcpServer, c
  <2> HIDE DEF made
  <2> QED
    BY <1>3, <2>1, MembersOfConcat
<1>5. /\ On("verify", c) \in Seq(Call) /\ Members(On("verify", c)) = {Plain("verify", c)}
      /\ On("provision", c) \in Seq(Call)
  BY <1>1, OneCall DEF Lifecycle!Operation
<1> HIDE DEF front
<1> DEFINE more == front \o On("verify", c)
<1>6. more \in Seq(Call) /\ Plain("verify", c) \in Members(more)
  BY <1>4, <1>5, MembersOfConcat
<1> HIDE DEF more
<1>7. Plain("verify", c) \in Members(more \o On("provision", c))
  BY <1>5, <1>6, MembersOfConcat
<1>8. McpServerPlan(d, g) = (front \o On("verify", c)) \o On("provision", c)
  BY DEF McpServerPlan, When, front, c
<1> QED
  BY <1>7, <1>8 DEF c, more

Sidecars == Members(AllContainers) \ {W}

(* The calls up to the creation of the workload's container.               *)
SidecarCalls(d, g) ==
  NetworkPlan(d)
    \o SquidProxyPlan(d, g) \o LlmBrokerPlan(d, g) \o LlmServerPlan(d)
    \o JinaReaderPlan(d) \o CodeExecutionPlan(d) \o McpServerPlan(d, g)
    \o DoclingPlan(d, g) \o DocumentsPlan(d, g) \o GuardsPlan(d)
    \o HaproxyPlan(d, g) \o QdrantPlan(d, g) \o EmbeddingsPlan(d, g)
    \o OtelCollectorPlan(d) \o PostgresPlan(d, g) \o AgentMemoryPlan(d, g)

LEMMA SidecarsFront ==
  ASSUME NEW d, NEW g, ValidSpecification(d)
  PROVE  Front(SidecarCalls(d, g), Sidecars, d, g)
<1> DEFINE P0 == NetworkPlan(d)
           N0 == {}
           Q1 == SquidProxyPlan(d, g)  P1 == P0 \o Q1
           D1 == {"squid_proxy"}  N1 == N0 \cup D1
           Q2 == LlmBrokerPlan(d, g)  P2 == P1 \o Q2
           D2 == {"llm_broker"}  N2 == N1 \cup D2
           Q3 == LlmServerPlan(d)  P3 == P2 \o Q3
           D3 == Members(LlmServers)  N3 == N2 \cup D3
           Q4 == JinaReaderPlan(d)  P4 == P3 \o Q4
           D4 == {"jina_reader"}  N4 == N3 \cup D4
           Q5 == CodeExecutionPlan(d)  P5 == P4 \o Q5
           D5 == {"code_execution"}  N5 == N4 \cup D5
           Q6 == McpServerPlan(d, g)  P6 == P5 \o Q6
           D6 == {"mcp_server"}  N6 == N5 \cup D6
           Q7 == DoclingPlan(d, g)  P7 == P6 \o Q7
           D7 == {"docling"}  N7 == N6 \cup D7
           Q8 == DocumentsPlan(d, g)  P8 == P7 \o Q8
           D8 == {"documents"}  N8 == N7 \cup D8
           Q9 == GuardsPlan(d)  P9 == P8 \o Q9
           D9 == {"prompt_guard", "entity_guard"}  N9 == N8 \cup D9
           Q10 == HaproxyPlan(d, g)  P10 == P9 \o Q10
           D10 == {"haproxy"}  N10 == N9 \cup D10
           Q11 == QdrantPlan(d, g)  P11 == P10 \o Q11
           D11 == {"qdrant"}  N11 == N10 \cup D11
           Q12 == EmbeddingsPlan(d, g)  P12 == P11 \o Q12
           D12 == {"embeddings"}  N12 == N11 \cup D12
           Q13 == OtelCollectorPlan(d)  P13 == P12 \o Q13
           D13 == {"otel_collector"}  N13 == N12 \cup D13
           Q14 == PostgresPlan(d, g)  P14 == P13 \o Q14
           D14 == {"postgres"}  N14 == N13 \cup D14
           Q15 == AgentMemoryPlan(d, g)  P15 == P14 \o Q15
           D15 == {"agent_memory"}  N15 == N14 \cup D15
<1>0. Members(LlmServers) \cap
        { "metisa_workload", "squid_proxy", "haproxy", "mcp_server",
          "jina_reader", "code_execution", "llm_broker", "prompt_guard",
          "entity_guard", "docling", "documents", "qdrant", "embeddings",
          "otel_collector", "postgres", "agent_memory" } = {}
  BY ServerNames, FixedNames
<1>a. Front(P0, N0, d, g)
  BY NetworksFirst
<1>1. Front(P1, N1, d, g)
  <2>1. /\ Block(Q1, D1, d, g) /\ N0 \cap D1 = {} /\ "haproxy" \notin D1
        /\ P1 = P0 \o Q1 /\ N1 = N0 \cup D1
    BY <1>0, Blocks
  <2> HIDE DEF P0, P1, Q1, N0, N1, D1
  <2> QED
    BY <1>a, <2>1, FrontGrows
<1>2. Front(P2, N2, d, g)
  <2>1. /\ Block(Q2, D2, d, g) /\ N1 \cap D2 = {} /\ "haproxy" \notin D2
        /\ P2 = P1 \o Q2 /\ N2 = N1 \cup D2
    BY <1>0, Blocks
  <2> HIDE DEF P1, P2, Q2, N1, N2, D2
  <2> QED
    BY <1>1, <2>1, FrontGrows
<1>3. Front(P3, N3, d, g)
  <2>1. /\ Block(Q3, D3, d, g) /\ N2 \cap D3 = {} /\ "haproxy" \notin D3
        /\ P3 = P2 \o Q3 /\ N3 = N2 \cup D3
    BY <1>0, ServersBlock
  <2> HIDE DEF P2, P3, Q3, N2, N3, D3
  <2> QED
    BY <1>2, <2>1, FrontGrows
<1>4. Front(P4, N4, d, g)
  <2>1. /\ Block(Q4, D4, d, g) /\ N3 \cap D4 = {} /\ "haproxy" \notin D4
        /\ P4 = P3 \o Q4 /\ N4 = N3 \cup D4
    BY <1>0, Blocks
  <2> HIDE DEF P3, P4, Q4, N3, N4, D4
  <2> QED
    BY <1>3, <2>1, FrontGrows
<1>5. Front(P5, N5, d, g)
  <2>1. /\ Block(Q5, D5, d, g) /\ N4 \cap D5 = {} /\ "haproxy" \notin D5
        /\ P5 = P4 \o Q5 /\ N5 = N4 \cup D5
    BY <1>0, Blocks
  <2> HIDE DEF P4, P5, Q5, N4, N5, D5
  <2> QED
    BY <1>4, <2>1, FrontGrows
<1>6. Front(P6, N6, d, g) /\ ("mcp_server" \in d => Plain("verify", "mcp_server") \in Members(P6))
  <2>1. /\ Block(Q6, D6, d, g) /\ N5 \cap D6 = {} /\ "haproxy" \notin D6
        /\ P6 = P5 \o Q6 /\ N6 = N5 \cup D6
    BY <1>0, Blocks
  <2>2. "mcp_server" \in d => Plain("verify", "mcp_server") \in Members(Q6)
    BY McpServerIsVerified
  <2> HIDE DEF P5, P6, Q6, N5, N6, D6
  <2>3. Front(P6, N6, d, g)
    BY <1>5, <2>1, FrontGrows
  <2>4. Members(P6) = Members(P5) \cup Members(Q6)
    BY <1>5, <2>1, MembersOfConcat DEF Front, Block, Orderly
  <2> QED
    BY <2>2, <2>3, <2>4
<1>7. Front(P7, N7, d, g) /\ ("mcp_server" \in d => Plain("verify", "mcp_server") \in Members(P7))
  <2>1. /\ Block(Q7, D7, d, g) /\ N6 \cap D7 = {} /\ "haproxy" \notin D7
        /\ P7 = P6 \o Q7 /\ N7 = N6 \cup D7
    BY <1>0, Blocks
  <2> HIDE DEF P6, P7, Q7, N6, N7, D7
  <2>3. Front(P7, N7, d, g)
    BY <1>6, <2>1, FrontGrows
  <2>4. Members(P7) = Members(P6) \cup Members(Q7)
    BY <1>6, <2>1, MembersOfConcat DEF Front, Block, Orderly
  <2> QED
    BY <1>6, <2>3, <2>4
<1>8. Front(P8, N8, d, g) /\ ("mcp_server" \in d => Plain("verify", "mcp_server") \in Members(P8))
  <2>1. /\ Block(Q8, D8, d, g) /\ N7 \cap D8 = {} /\ "haproxy" \notin D8
        /\ P8 = P7 \o Q8 /\ N8 = N7 \cup D8
    BY <1>0, Blocks
  <2> HIDE DEF P7, P8, Q8, N7, N8, D8
  <2>3. Front(P8, N8, d, g)
    BY <1>7, <2>1, FrontGrows
  <2>4. Members(P8) = Members(P7) \cup Members(Q8)
    BY <1>7, <2>1, MembersOfConcat DEF Front, Block, Orderly
  <2> QED
    BY <1>7, <2>3, <2>4
<1>9. Front(P9, N9, d, g) /\ ("mcp_server" \in d => Plain("verify", "mcp_server") \in Members(P9))
  <2>1. /\ Block(Q9, D9, d, g) /\ N8 \cap D9 = {} /\ "haproxy" \notin D9
        /\ P9 = P8 \o Q9 /\ N9 = N8 \cup D9
    BY <1>0, Blocks
  <2> HIDE DEF P8, P9, Q9, N8, N9, D9
  <2>3. Front(P9, N9, d, g)
    BY <1>8, <2>1, FrontGrows
  <2>4. Members(P9) = Members(P8) \cup Members(Q9)
    BY <1>8, <2>1, MembersOfConcat DEF Front, Block, Orderly
  <2> QED
    BY <1>8, <2>3, <2>4
<1>10. Front(P10, N10, d, g)
  <2>1. /\ Block(Q10, D10, d, g) /\ N9 \cap D10 = {}
        /\ P10 = P9 \o Q10 /\ N10 = N9 \cup D10
    BY <1>0, Blocks
  <2> HIDE DEF P9, P10, Q10, N9, N10, D10
  <2> QED
    BY <1>9, <2>1, FrontGrows
<1>11. Front(P11, N11, d, g)
  <2>1. /\ Block(Q11, D11, d, g) /\ N10 \cap D11 = {} /\ "haproxy" \notin D11
        /\ P11 = P10 \o Q11 /\ N11 = N10 \cup D11
    BY <1>0, Blocks
  <2> HIDE DEF P10, P11, Q11, N10, N11, D11
  <2> QED
    BY <1>10, <2>1, FrontGrows
<1>12. Front(P12, N12, d, g)
  <2>1. /\ Block(Q12, D12, d, g) /\ N11 \cap D12 = {} /\ "haproxy" \notin D12
        /\ P12 = P11 \o Q12 /\ N12 = N11 \cup D12
    BY <1>0, Blocks
  <2> HIDE DEF P11, P12, Q12, N11, N12, D12
  <2> QED
    BY <1>11, <2>1, FrontGrows
<1>13. Front(P13, N13, d, g)
  <2>1. /\ Block(Q13, D13, d, g) /\ N12 \cap D13 = {} /\ "haproxy" \notin D13
        /\ P13 = P12 \o Q13 /\ N13 = N12 \cup D13
    BY <1>0, Blocks
  <2> HIDE DEF P12, P13, Q13, N12, N13, D13
  <2> QED
    BY <1>12, <2>1, FrontGrows
<1>14. Front(P14, N14, d, g)
  <2>1. /\ Block(Q14, D14, d, g) /\ N13 \cap D14 = {} /\ "haproxy" \notin D14
        /\ P14 = P13 \o Q14 /\ N14 = N13 \cup D14
    BY <1>0, Blocks
  <2> HIDE DEF P13, P14, Q14, N13, N14, D14
  <2> QED
    BY <1>13, <2>1, FrontGrows
<1>15. Front(P15, N15, d, g)
  <2>1. /\ Block(Q15, D15, d, g) /\ N14 \cap D15 = {} /\ "haproxy" \notin D15
        /\ P15 = P14 \o Q15 /\ N15 = N14 \cup D15
    BY <1>0, Blocks
  <2> HIDE DEF P14, P15, Q15, N14, N15, D15
  <2> QED
    BY <1>14, <2>1, FrontGrows
<1>b. Sidecars = N15
  <2>1. N15 = { "squid_proxy", "haproxy", "mcp_server",
          "jina_reader", "code_execution", "llm_broker", "prompt_guard",
          "entity_guard", "docling", "documents", "qdrant", "embeddings",
          "otel_collector", "postgres", "agent_memory" } \cup Members(LlmServers)
    OBVIOUS
  <2> HIDE DEF N15
  <2> QED
    BY <1>0, <2>1, ContainerNames, FixedNames DEF Sidecars, W
<1>c. SidecarCalls(d, g) = P15
  BY DEF SidecarCalls
<1> HIDE DEF N15, P15
<1> QED
  BY <1>15, <1>b, <1>c

(* The workload's container is made last, and then started by the attached *)
(* client.                                                                 *)
LaunchCalls == On("attach", W) \o On("await", W) \o On("provision", W)

LEMMA WorkloadIsMade ==
  ASSUME NEW d, NEW g
  PROVE  /\ Block(CreateMetisaWorkload(d), {W}, d, g)
         /\ \A s \in Members(CreateMetisaWorkload(d)) : s.op \in Lifecycle!Creation
         /\ \E s \in Members(CreateMetisaWorkload(d)) : s.op = "create" /\ s.on = W
<1> DEFINE q == CreateMetisaWorkload(d)
           calls == {Plain("stage", W), Plain("seal", W)} \cup Making(W, Nets(W, d))
<1>1. W \in Members(FixedContainers) /\ W \notin Members(LlmServers)
  BY FixedNames, ServerNames DEF W
<1>2. Nets(W, d) = WorkloadNetworks(d)
  BY DEF Nets, W
<1>3. Good(q, calls)
  BY <1>1, <1>2, NetsAreNets, GoodMaking DEF CreateMetisaWorkload, W
<1>4. Orderly(q) /\ Once(q) /\ Members(q) = calls
  BY <1>3 DEF Good
<1> HIDE DEF q
<1>5. ASSUME NEW s \in calls
      PROVE  s.on \in {W} /\ s.op # "network" /\ Fits(s, calls, d, g)
  <2>0. Wanted(W, d)
    BY <1>1 DEF Wanted, W
  <2>1. CASE s = [op |-> "create", on |-> W, net |-> Nets(W, d)[1]]
    <3>1. s.op = "create" /\ s.on = W /\ s.net = Nets(W, d)[1]
      BY <2>1
    <3>2. /\ \A n \in Later(Nets(W, d)) : Joining(W, n) \in calls
          /\ Plain("record", W) \in calls
      BY DEF Making, Joining, Later
    <3> HIDE DEF calls
    <3> QED
      BY <2>0, <3>1, <3>2 DEF Fits
  <2>2. CASE s \in {Joining(W, n) : n \in Later(Nets(W, d))}
    <3>1. PICK n \in Later(Nets(W, d)) : s = Joining(W, n)
      BY <2>2
    <3>2. s.op = "connect" /\ s.on = W /\ s.net = n
      BY <3>1 DEF Joining
    <3> QED
      BY <2>0, <3>1, <3>2 DEF Fits
  <2>3. CASE s \in {Plain(op, W) : op \in {"stage", "seal", "record"}}
    <3>1. s.op \in {"stage", "seal", "record"} /\ s.on = W /\ s.net = Offline
      BY <2>3 DEF Plain
    <3> QED
      BY <1>1, <2>0, <3>1 DEF Fits
  <2> QED
    BY <2>1, <2>2, <2>3 DEF Making, Joining, Later
<1>6. \A s \in calls : s.op \in Lifecycle!Creation
  BY DEF Making, Plain, Lifecycle!Creation
<1>7. \E s \in calls : s.op = "create" /\ s.on = W
  <2>1. [op |-> "create", on |-> W, net |-> Nets(W, d)[1]] \in calls
    BY DEF Making
  <2> HIDE DEF calls
  <2> QED
    BY <2>1
<1> HIDE DEF calls
<1> QED
  BY <1>4, <1>5, <1>6, <1>7 DEF Block, q

LEMMA LaunchIsABlock ==
  ASSUME NEW d, NEW g
  PROVE  /\ Block(LaunchCalls, {W}, d, g) /\ Len(LaunchCalls) = 3
         /\ LaunchCalls[1] = Plain("attach", W)
         /\ LaunchCalls[2] = Plain("await", W)
         /\ LaunchCalls[3] = Plain("provision", W)
<1> DEFINE a == Plain("attach", W)
           b == Plain("await", W)
           e == Plain("provision", W)
           t == <<a, b, e>>
<1>0. W \in Members(AllContainers)
  BY FixedNames, ContainerNames DEF W
<1>1. a \in Call /\ b \in Call /\ e \in Call
  BY <1>0, OneCall DEF Lifecycle!Operation
<1>2. /\ a.op = "attach" /\ b.op = "await" /\ e.op = "provision"
      /\ a.on = W /\ b.on = W /\ e.on = W
      /\ a.net = Offline /\ b.net = Offline /\ e.net = Offline
  BY DEF Plain
<1>3. LaunchCalls = <<a>> \o <<b>> \o <<e>>
  BY DEF LaunchCalls, On, Plain
<1> HIDE DEF a, b, e
<1>4. LaunchCalls = t
  <2>1. <<a>> \in Seq(Call) /\ <<b>> \in Seq(Call) /\ <<e>> \in Seq(Call)
    BY <1>1
  <2>2. /\ <<a>> \o <<b>> \in Seq(Call) /\ Len(<<a>> \o <<b>>) = 2
        /\ (<<a>> \o <<b>>)[1] = a /\ (<<a>> \o <<b>>)[2] = b
    BY <2>1, ConcatProperties
  <2> DEFINE ab == <<a>> \o <<b>>
  <2> HIDE DEF ab
  <2>3. ab \in Seq(Call) /\ Len(ab) = 2 /\ ab[1] = a /\ ab[2] = b
    BY <2>2 DEF ab
  <2>4. /\ ab \o <<e>> \in Seq(Call) /\ Len(ab \o <<e>>) = 3
        /\ (ab \o <<e>>)[1] = a /\ (ab \o <<e>>)[2] = b /\ (ab \o <<e>>)[3] = e
    BY <2>1, <2>3, ConcatProperties
  <2>5. t \in Seq(Call) /\ Len(t) = 3
    BY <1>1
  <2>6. \A i \in 1..3 : (ab \o <<e>>)[i] = t[i]
    BY <2>4
  <2>7. ab \o <<e>> = t
    BY <2>4, <2>5, <2>6, SeqEqual
  <2> QED
    BY <1>3, <2>7 DEF ab
<1>5. t \in Seq(Call) /\ Len(t) = 3 /\ DOMAIN t = {1, 2, 3} /\ t[1] = a /\ t[2] = b /\ t[3] = e
  BY <1>1
<1> HIDE DEF t
<1>6. Members(t) = {a, b, e}
  BY <1>5 DEF Members
<1>7. Orderly(t) /\ Once(t)
  BY <1>2, <1>5 DEF Orderly, Once, Backed, Closed, Listed
<1>8. Wanted(W, d)
  BY FixedNames, ServerNames DEF Wanted, W
<1>9. \A s \in {a, b, e} : s.on \in {W} /\ s.op # "network" /\ Fits(s, {a, b, e}, d, g)
  BY <1>2, <1>8 DEF Fits
<1>10. Block(t, {W}, d, g)
  BY <1>6, <1>7, <1>9 DEF Block
<1> QED
  BY <1>4, <1>5, <1>10 DEF a, b, e

(* Whatever concerns the other containers, and the creation of the         *)
(* workload's, comes before the attached start.                            *)
BeforeLaunch(s) ==
  ~(s.op \in {"attach", "await"}) /\ ~(s.op = "provision" /\ s.on = W)

LEMMA PlanShape ==
  ASSUME NEW d, NEW g, ValidSpecification(d), NEW p, p = SetupSequence(d, g)
  PROVE  /\ Front(p, Members(AllContainers), d, g)
         /\ Plain("attach", W) \in Members(p)
         /\ \A c \in Members(AllContainers) : Wanted(c, d) => Brought(c, Members(p), g)
         /\ \A i, j \in DOMAIN p : p[i].op = "attach" => (j < i <=> BeforeLaunch(p[j]))
         /\ Len(p) \in DOMAIN p /\ p[Len(p)] = Plain("provision", W)
<1> DEFINE F == SidecarCalls(d, g)
           M == CreateMetisaWorkload(d)
           T == LaunchCalls
           Names == Members(AllContainers)
<1>1. /\ Front(F, Sidecars, d, g) /\ Block(M, {W}, d, g) /\ Block(T, {W}, d, g)
      /\ Len(T) = 3 /\ T[1] = Plain("attach", W)
      /\ T[2] = Plain("await", W) /\ T[3] = Plain("provision", W)
  BY SidecarsFront, WorkloadIsMade, LaunchIsABlock
<1>2. F \in Seq(Call) /\ M \in Seq(Call) /\ T \in Seq(Call)
  BY <1>1 DEF Front, Block, Orderly
<1>3. p = (F \o M) \o T
  <2>1. SetupSequence(d, g) = F \o WorkloadPlan(d)
    BY DEF SetupSequence, SidecarCalls
  <2>2. /\ On("attach", W) \in Seq(Call) /\ On("await", W) \in Seq(Call)
        /\ On("provision", W) \in Seq(Call)
    BY FixedNames, ContainerNames, OneCall DEF Lifecycle!Operation, W
  <2> DEFINE A == On("attach", W)
             B == On("await", W)
             E == On("provision", W)
  <2>3. WorkloadPlan(d) = M \o A \o B \o E
    BY DEF WorkloadPlan, W
  <2>4. T = A \o B \o E
    BY DEF LaunchCalls
  <2> HIDE DEF A, B, E, F, M, T
  <2>5. A \in Seq(Call) /\ B \in Seq(Call) /\ E \in Seq(Call)
    BY <2>2 DEF A, B, E
  <2>6. (M \o A) \o B = M \o (A \o B) /\ A \o B \in Seq(Call)
    BY <1>2, <2>5, ConcatAssociative, ConcatProperties
  <2>7. (M \o (A \o B)) \o E = M \o ((A \o B) \o E)
    <3> DEFINE AB == A \o B
    <3>1. AB \in Seq(Call)
      BY <2>6
    <3> HIDE DEF AB
    <3>2. (M \o AB) \o E = M \o (AB \o E)
      BY <1>2, <2>5, <3>1, ConcatAssociative
    <3> QED
      BY <3>2 DEF AB
  <2>8. WorkloadPlan(d) = M \o T
    BY <2>3, <2>4, <2>6, <2>7
  <2>9. F \o (M \o T) = (F \o M) \o T
    BY <1>2, ConcatAssociative
  <2> QED
    BY <2>1, <2>8, <2>9
<1> HIDE DEF F, M, T
<1> DEFINE FM == F \o M
<1>4. Front(FM, Names, d, g) /\ Members(FM) = Members(F) \cup Members(M)
  <2>1. Names = Sidecars \cup {W} /\ Sidecars \cap {W} = {}
    BY FixedNames, ContainerNames DEF Sidecars, W
  <2>2. "haproxy" \notin {W}
    BY DEF W
  <2>3. Members(FM) = Members(F) \cup Members(M)
    BY <1>2, MembersOfConcat
  <2> HIDE DEF Names
  <2> QED
    BY <1>1, <2>1, <2>2, <2>3, FrontGrows
<1>5. \A s \in Members(FM) : BeforeLaunch(s) /\ s.op # "attach"
  <2>1. ASSUME NEW s \in Members(F)
        PROVE  BeforeLaunch(s) /\ s.op # "attach"
    <3>1. CASE \E n \in Required(d) : s = Network(n)
      BY <3>1 DEF BeforeLaunch, Network
    <3>2. CASE s.on \in Sidecars /\ Fits(s, Members(F), d, g)
      BY <3>2 DEF BeforeLaunch, Fits, Sidecars
    <3> QED
      BY <1>1, <3>1, <3>2 DEF Front
  <2>2. ASSUME NEW s \in Members(M)
        PROVE  BeforeLaunch(s) /\ s.op # "attach"
    BY WorkloadIsMade DEF BeforeLaunch, Lifecycle!Creation, M
  <2> QED
    BY <1>4, <2>1, <2>2
<1>6. FM \in Seq(Call)
  BY <1>4 DEF Front, Orderly
<1>7. p = FM \o T
  BY <1>3
<1> HIDE DEF FM
<1>8. Members(T) = {Plain("attach", W), Plain("await", W), Plain("provision", W)}
  <2>1. DOMAIN T = {1, 2, 3}
    BY <1>1, <1>2, LenProperties
  <2> QED
    BY <1>1, <2>1 DEF Members
<1>9. /\ Plain("attach", W).op = "attach" /\ Plain("await", W).op = "await"
      /\ Plain("provision", W).op = "provision" /\ Plain("provision", W).on = W
  BY DEF Plain
<1>10. /\ p \in Seq(Call) /\ Members(p) = Members(FM) \cup Members(T)
       /\ Len(FM) \in Nat /\ DOMAIN FM = 1..Len(FM)
       /\ DOMAIN p = 1..Len(FM) + Len(T)
       /\ \A i \in 1..Len(FM) : p[i] = FM[i]
       /\ \A i \in 1..Len(T) : p[Len(FM) + i] = T[i]
  BY <1>2, <1>6, <1>7, Parts, MembersOfConcat
<1>11. Front(p, Names, d, g)
  <2>1. Members(FM) \cap Members(T) = {}
    BY <1>5, <1>8, <1>9 DEF BeforeLaunch
  <2>2. "haproxy" \notin {W} /\ Names = Names \cup {W}
    BY FixedNames, ContainerNames DEF W
  <2> HIDE DEF Names
  <2> QED
    BY <1>1, <1>4, <1>7, <2>1, <2>2, FrontTakes
<1>12. ASSUME NEW i \in DOMAIN p, NEW j \in DOMAIN p, p[i].op = "attach"
       PROVE  j < i <=> BeforeLaunch(p[j])
  <2>1. ASSUME NEW k \in DOMAIN p, ~(k <= Len(FM))
        PROVE  p[k] \in Members(T)
    <3>1. k - Len(FM) \in 1..Len(T) /\ Len(FM) + (k - Len(FM)) = k
      BY <1>1, <1>10, <2>1
    <3>2. p[k] = T[k - Len(FM)]
      BY <1>10, <3>1
    <3> QED
      BY <1>2, <3>1, <3>2, LenProperties DEF Members
  <2>2. ASSUME NEW k \in DOMAIN p, k <= Len(FM)
        PROVE  BeforeLaunch(p[k]) /\ p[k].op # "attach"
    <3>1. k \in DOMAIN FM /\ p[k] = FM[k]
      BY <1>10, <2>2
    <3>2. p[k] \in Members(FM)
      BY <3>1 DEF Members
    <3> QED
      BY <1>5, <3>2
  <2>3. ASSUME NEW k \in DOMAIN p, ~(k <= Len(FM))
        PROVE  ~BeforeLaunch(p[k])
    BY <1>8, <1>9, <2>1, <2>3 DEF BeforeLaunch
  <2>4. i = Len(FM) + 1
    <3>1. i - Len(FM) \in 1..3 /\ Len(FM) + (i - Len(FM)) = i
      BY <1>1, <1>10, <1>12, <2>2
    <3>2. p[i] = T[i - Len(FM)]
      BY <1>1, <1>10, <3>1
    <3>3. T[2].op # "attach" /\ T[3].op # "attach"
      BY <1>1, <1>9
    <3>4. i - Len(FM) = 1 \/ i - Len(FM) = 2 \/ i - Len(FM) = 3
      BY <3>1
    <3> QED
      BY <1>12, <3>1, <3>2, <3>3, <3>4
  <2> QED
    BY <1>10, <2>2, <2>3, <2>4
<1>13. Len(p) \in DOMAIN p /\ p[Len(p)] = Plain("provision", W)
  <2>1. Len(p) = Len(FM) + 3
    BY <1>1, <1>10, LenProperties
  <2> QED
    BY <1>1, <1>10, <2>1
<1>14. ASSUME NEW c \in Names, Wanted(c, d)
       PROVE  Brought(c, Members(p), g)
  <2>1. CASE c # W
    BY <1>11, <1>14, <2>1 DEF Front
  <2>2. CASE c = W
    <3>1. \E s \in Members(M) : s.op = "create" /\ s.on = W
      BY WorkloadIsMade DEF M
    <3>2. W \notin Keyed /\ ~Refused(W, g)
      BY DEF Keyed, W, Refused, Table
    <3> QED
      BY <1>4, <1>10, <2>2, <3>1, <3>2 DEF Brought
  <2> QED
    BY <2>1, <2>2
<1> QED
  BY <1>8, <1>10, <1>11, <1>12, <1>13, <1>14

-----------------------------------------------------------------------------
(* The shape of the plans.                                                 *)

LEMMA PlansHaveTheirShape ==
  ASSUME NEW d, NEW g, ValidSpecification(d), NEW p, p = SetupSequence(d, g)
  PROVE  /\ p \in Seq(Call) /\ p # <<>>
         /\ Lifecycle!AttachComesLast(p)
         /\ Lifecycle!EverySidecarIsChecked(p)
         /\ Lifecycle!RecordsFollowCreation(p)
         /\ Lifecycle!CreationsAreRecorded(p)
         /\ Lifecycle!ConnectionsArePrepared(p)
         /\ Lifecycle!LlmServersAreListed(p)
         /\ AddressPrecedesHaproxy(p)
<1>1. /\ Front(p, Members(AllContainers), d, g) /\ Plain("attach", W) \in Members(p)
      /\ \A i, j \in DOMAIN p : p[i].op = "attach" => (j < i <=> BeforeLaunch(p[j]))
  BY PlanShape
<1>2. p \in Seq(Call) /\ \A i \in DOMAIN p : Backed(p, i) /\ Closed(p, i) /\ Listed(p, i)
  BY <1>1 DEF Front, Orderly
<1>3. p # <<>>
  BY <1>1, <1>2, EmptySeq DEF Members
<1>4. \A i \in DOMAIN p :
        (p[i].op = "network" /\ p[i].on = W) \/ (p[i].op # "network" /\ Fits(p[i], Members(p), d, g))
  <2>1. \A n : Network(n).op = "network" /\ Network(n).on = W
    BY DEF Network
  <2>2. ASSUME NEW s \in Members(p)
        PROVE  (s.op = "network" /\ s.on = W) \/ (s.op # "network" /\ Fits(s, Members(p), d, g))
    <3>1. Front(p, Members(AllContainers), d, g)
      BY <1>1
    <3>2. \/ \E n \in Required(d) : s = Network(n)
          \/ s.on \in Members(AllContainers) /\ s.op # "network" /\ Fits(s, Members(p), d, g)
      BY <3>1 DEF Front
    <3> QED
      BY <2>1, <3>2
  <2> QED
    BY <2>2 DEF Members
<1>5. Lifecycle!AttachComesLast(p)
  <2>1. ASSUME NEW i \in DOMAIN p, p[i].op = "start" PROVE p[i].on # "metisa_workload"
    BY <1>4, <2>1 DEF Fits, W
  <2>2. ASSUME NEW i \in DOMAIN p, NEW j \in DOMAIN p, p[i].op = "attach",
               p[j].op \in {"health", "provision"}, p[j].on # "metisa_workload"
        PROVE  j < i
    BY <1>1, <2>2 DEF BeforeLaunch, W
  <2> QED
    BY <2>1, <2>2 DEF Lifecycle!AttachComesLast
<1>6. Lifecycle!EverySidecarIsChecked(p)
  <2> SUFFICES ASSUME NEW i \in DOMAIN p, p[i].on # W
               PROVE  /\ p[i].op = "create" =>
                           \E j \in DOMAIN p : p[j].op = "health" /\ p[j].on = p[i].on
                      /\ p[i].op = "seal" =>
                           \E j \in DOMAIN p : p[j].op = "provision" /\ p[j].on = p[i].on
    BY DEF Lifecycle!EverySidecarIsChecked, W
  <2>1. \A op, c : Plain(op, c) \in Members(p) => \E j \in DOMAIN p : p[j].op = op /\ p[j].on = c
    BY DEF Plain, Members
  <2> QED
    BY <1>4, <2>1 DEF Fits, Starting
<1>7. Lifecycle!RecordsFollowCreation(p)
  BY <1>2 DEF Backed, Lifecycle!RecordsFollowCreation
<1>8. Lifecycle!CreationsAreRecorded(p)
  BY <1>2 DEF Closed, Lifecycle!CreationsAreRecorded
<1>9. Lifecycle!ConnectionsArePrepared(p)
  <2> SUFFICES ASSUME NEW i \in DOMAIN p, p[i].op = "connect"
               PROVE  /\ \E j \in DOMAIN p : j < i /\ p[j].op = "create" /\ p[j].on = p[i].on
                      /\ \E j \in DOMAIN p : j < i /\ p[j].op = "network" /\ p[j].net = p[i].net
    BY DEF Lifecycle!ConnectionsArePrepared
  <2>1. \E j \in DOMAIN p : j < i /\ p[j].op = "create" /\ p[j].on = p[i].on
    BY <1>2 DEF Backed
  <2>2. PICK j \in DOMAIN p : j < i /\ p[j] = Network(p[i].net)
    BY <1>1 DEF Front
  <2>3. p[j].op = "network" /\ p[j].net = p[i].net
    BY <2>2 DEF Network
  <2> QED
    BY <2>1, <2>2, <2>3
<1>10. Lifecycle!LlmServersAreListed(p)
  BY <1>2, <1>4 DEF Listed, Fits, Lifecycle!LlmServersAreListed
<1>11. AddressPrecedesHaproxy(p)
  <2> SUFFICES ASSUME NEW i \in DOMAIN p, p[i].op = "create", p[i].on = "haproxy",
                      NEW k \in DOMAIN p, p[k].op = "create", p[k].on = "mcp_server"
               PROVE  \E j \in DOMAIN p : p[j].op = "verify" /\ p[j].on = "mcp_server" /\ j < i
    BY DEF AddressPrecedesHaproxy, Index
  <2>1. "mcp_server" \in d
    <3>1. Wanted("mcp_server", d)
      BY <1>4 DEF Fits
    <3> QED
      BY <3>1, FixedNames, ServerNames DEF Wanted, W
  <2>2. PICK j \in DOMAIN p : j < i /\ p[j] = Plain("verify", "mcp_server")
    BY <1>1, <2>1 DEF Front
  <2>3. p[j].op = "verify" /\ p[j].on = "mcp_server"
    BY <2>2 DEF Plain
  <2> QED
    BY <2>2, <2>3
<1> QED
  BY <1>2, <1>3, <1>5, <1>6, <1>7, <1>8, <1>9, <1>10, <1>11

-----------------------------------------------------------------------------
(* SandboxRun as an instance of SandboxLifecycle.                          *)

LEMMA LifecycleConstants ==
  /\ Lifecycle!ContainersAssumption
  /\ Lifecycle!OrdersAssumption
  /\ Lifecycle!PlansAssumption
<1>1. Lifecycle!ContainersAssumption
  BY FixedNames, ContainerNames, ServerNames, NetworkNames
  DEF Lifecycle!ContainersAssumption, Offline
<1>2. Once(AllContainers)
  <2>1. Once(FixedContainers)
    BY DEF Once, FixedContainers
  <2>2. FixedContainers \in Seq(Members(AllContainers))
    <3>1. FixedContainers \in [1..16 -> Members(AllContainers)]
      BY FixedNames, ContainerNames DEF FixedContainers
    <3> QED
      BY <3>1, SeqDef
  <2>3. LlmServers \in Seq(Members(AllContainers))
    BY ServerNames, ContainerNames, SeqMonotonic
  <2>4. Once(LlmServers)
    BY ServerNames DEF Once
  <2> QED
    BY <2>1, <2>2, <2>3, <2>4, ServerNames, OnceConcat DEF AllContainers
<1>3. AllNetworks \in Seq(Members(AllNetworks)) /\ AllNetworks # <<>>
  BY NetworkNames DEF AllNetworks
<1>4. AllContainers # <<>>
  <2>1. "haproxy" \in Members(AllContainers)
    BY FixedNames, ContainerNames
  <2>2. Members(<<>>) = {}
    BY DEF Members
  <2> QED
    BY <2>1, <2>2
<1>5. Lifecycle!OrdersAssumption
  BY <1>2, <1>3, <1>4, ContainerNames DEF Lifecycle!OrdersAssumption, Once, Members
<1>6. Lifecycle!PlansAssumption
  <2> SUFFICES ASSUME NEW p \in PlannedRuns
               PROVE  /\ p \in Seq(Call) /\ p # <<>>
                      /\ Lifecycle!AttachComesLast(p)
                      /\ Lifecycle!EverySidecarIsChecked(p)
                      /\ Lifecycle!RecordsFollowCreation(p)
                      /\ Lifecycle!CreationsAreRecorded(p)
                      /\ Lifecycle!ConnectionsArePrepared(p)
                      /\ Lifecycle!LlmServersAreListed(p)
    BY DEF Lifecycle!PlansAssumption, Call
  <2>1. PICK m \in Declarations :
          ValidSpecification(m.caps) /\ p = SetupSequence(m.caps, m.given)
    BY DEF PlannedRuns
  <2> QED
    BY <2>1, PlansHaveTheirShape
<1> QED
  BY <1>1, <1>5, <1>6

-----------------------------------------------------------------------------
(* The run follows the plan for its specification, which never changes.    *)

ForCaps ==
  /\ \E m \in Declarations : caps = m.caps /\ given = m.given
  /\ ValidSpecification(caps)
  /\ plan = SetupSequence(caps, given)

LEMMA PlanIsKept == Spec => []ForCaps
<1>1. Init => ForCaps
  BY DEF Init, ForCaps
<1>2. ForCaps /\ [Next]_vars => ForCaps'
  <2>1. ASSUME Run!SetUp PROVE plan' = plan
    BY <2>1
    DEF Run!SetUp, Run!CreateNetwork, Run!StageSource, Run!SealSecrets, Run!CreateContainer,
        Run!ConnectContainer, Run!SetCreated, Run!ExtendContainers, Run!StartContainer,
        Run!CheckHealth, Run!Verify, Run!ProvisionSecrets, Run!StartAttached,
        Run!AwaitRunning, Run!SetUpRaises, Run!ProceedOrRaise, Run!Proceed, Run!Raise
  <2>2. ASSUME Run!Environment PROVE plan' = plan
    BY <2>2
    DEF Run!Environment, Run!AttachedStart, Run!AttachedStartFails, Run!AttachedEnds,
        Run!ContainerExits, Run!OtherRun, Run!control
  <2> QED
    BY <2>1, <2>2 DEF Next, SetUpIsOver, vars, ForCaps
<1>3. QED
  BY <1>1, <1>2, PTL DEF Spec

(* Every specification the validator accepts has a plan of the shape that  *)
(* the theorems about SandboxLifecycle assume.                             *)
THEOREM EveryPlanIsWellFormed == Spec => []PlansAreWellFormed
<1>1. ASSUME ForCaps PROVE PlansAreWellFormed
  <2>1. ValidSpecification(caps) /\ plan = SetupSequence(caps, given)
    BY <1>1 DEF ForCaps
  <2>2. /\ Lifecycle!AttachComesLast(plan)
        /\ Lifecycle!EverySidecarIsChecked(plan)
        /\ Lifecycle!RecordsFollowCreation(plan)
        /\ Lifecycle!CreationsAreRecorded(plan)
        /\ Lifecycle!ConnectionsArePrepared(plan)
        /\ Lifecycle!LlmServersAreListed(plan)
        /\ AddressPrecedesHaproxy(plan)
    BY <2>1, PlansHaveTheirShape
  <2> QED
    BY <2>2
    DEF PlansAreWellFormed,
        Run!AttachComesLast, Lifecycle!AttachComesLast,
        Run!EverySidecarIsChecked, Lifecycle!EverySidecarIsChecked,
        Run!RecordsFollowCreation, Lifecycle!RecordsFollowCreation,
        Run!CreationsAreRecorded, Lifecycle!CreationsAreRecorded,
        Run!ConnectionsArePrepared, Lifecycle!ConnectionsArePrepared,
        Run!LlmServersAreListed, Lifecycle!LlmServersAreListed,
        Run!Creation, Lifecycle!Creation
<1>2. QED
  BY <1>1, PlanIsKept, PTL

-----------------------------------------------------------------------------
(* SandboxRun implements SandboxLifecycle: its plans are plans, its calls  *)
(* are calls of the try body, and its end is a stutter.                    *)
THEOREM RunIsALifecycle == Spec => Lifecycle!Spec
<1>1. Init => Lifecycle!Init
  BY DEF Init, Lifecycle!Init, PlannedRuns, Run!NothingCalled, Lifecycle!NothingCalled
<1>2. Run!SetUp => Lifecycle!SetUp
  <2> USE DEF Run!Calling, Lifecycle!Calling, Run!Subject, Lifecycle!Subject, Run!Net,
              Lifecycle!Net, Run!Exists, Lifecycle!Exists, Run!Fault, Lifecycle!Fault,
              Run!Interrupt, Lifecycle!Interrupt, Run!Raise, Lifecycle!Raise,
              Run!Proceed, Lifecycle!Proceed, Run!ProceedOrRaise,
              Lifecycle!ProceedOrRaise, Run!CanSucceed, Lifecycle!CanSucceed,
              Run!cleaning, Lifecycle!cleaning, Run!bookkeeping, Lifecycle!bookkeeping,
              Run!daemon, Lifecycle!daemon, Run!files, Lifecycle!files
  <2>1. Run!CreateNetwork => Lifecycle!CreateNetwork
    BY DEF Run!CreateNetwork, Lifecycle!CreateNetwork
  <2>2. Run!StageSource => Lifecycle!StageSource
    BY DEF Run!StageSource, Lifecycle!StageSource
  <2>3. Run!SealSecrets => Lifecycle!SealSecrets
    BY DEF Run!SealSecrets, Lifecycle!SealSecrets
  <2>4. Run!CreateContainer => Lifecycle!CreateContainer
    BY DEF Run!CreateContainer, Lifecycle!CreateContainer
  <2>5. Run!ConnectContainer => Lifecycle!ConnectContainer
    BY DEF Run!ConnectContainer, Lifecycle!ConnectContainer
  <2>6. Run!SetCreated => Lifecycle!SetCreated
    BY DEF Run!SetCreated, Lifecycle!SetCreated
  <2>7. Run!ExtendContainers => Lifecycle!ExtendContainers
    BY DEF Run!ExtendContainers, Lifecycle!ExtendContainers
  <2>8. Run!StartContainer => Lifecycle!StartContainer
    BY DEF Run!StartContainer, Lifecycle!StartContainer
  <2>9. Run!CheckHealth => Lifecycle!CheckHealth
    BY DEF Run!CheckHealth, Lifecycle!CheckHealth
  <2>10. Run!Verify => Lifecycle!Verify
    BY DEF Run!Verify, Lifecycle!Verify
  <2>11. Run!ProvisionSecrets => Lifecycle!ProvisionSecrets
    BY DEF Run!ProvisionSecrets, Lifecycle!ProvisionSecrets
  <2>12. Run!StartAttached => Lifecycle!StartAttached
    BY DEF Run!StartAttached, Lifecycle!StartAttached
  <2>13. Run!AwaitRunning => Lifecycle!AwaitRunning
    BY DEF Run!AwaitRunning, Lifecycle!AwaitRunning
  <2>14. Run!SetUpRaises => Lifecycle!SetUpRaises
    BY DEF Run!SetUpRaises, Lifecycle!SetUpRaises
  <2> QED
    BY <2>1, <2>2, <2>3, <2>4, <2>5, <2>6, <2>7, <2>8, <2>9, <2>10, <2>11, <2>12, <2>13, <2>14 DEF Run!SetUp, Lifecycle!SetUp
<1>3. Run!Environment => Lifecycle!Environment
  <2> USE DEF Run!Fault, Lifecycle!Fault, Run!control, Lifecycle!control, Run!cleaning,
              Lifecycle!cleaning, Run!bookkeeping, Lifecycle!bookkeeping, Run!files,
              Lifecycle!files
  <2>1. Run!AttachedStart => Lifecycle!AttachedStart
    BY DEF Run!AttachedStart, Lifecycle!AttachedStart
  <2>2. Run!AttachedStartFails => Lifecycle!AttachedStartFails
    BY DEF Run!AttachedStartFails, Lifecycle!AttachedStartFails
  <2>3. Run!AttachedEnds => Lifecycle!AttachedEnds
    BY DEF Run!AttachedEnds, Lifecycle!AttachedEnds
  <2>4. Run!ContainerExits => Lifecycle!ContainerExits
    BY DEF Run!ContainerExits, Lifecycle!ContainerExits
  <2>5. Run!OtherRun => Lifecycle!OtherRun
    BY DEF Run!OtherRun, Lifecycle!OtherRun
  <2> QED
    BY <2>1, <2>2, <2>3, <2>4, <2>5 DEF Run!Environment, Lifecycle!Environment
<1>4. [Next]_vars => [Lifecycle!Next]_Lifecycle!vars
  BY <1>2, <1>3 DEF Next, SetUpIsOver, vars, Lifecycle!Next, Lifecycle!vars,
    Lifecycle!control, Lifecycle!cleaning, Lifecycle!bookkeeping, Lifecycle!daemon,
    Lifecycle!files
<1>5. QED
  BY <1>1, <1>4, PTL DEF Spec, Lifecycle!Spec

(* Hence the theorems about SandboxLifecycle hold of SandboxRun.           *)
LEMMA RunTypes == Spec => []Lifecycle!TypeOK
<1>1. Lifecycle!Spec => []Lifecycle!TypeOK
  BY Lifecycle!TypeCorrect, LifecycleConstants
  DEF Lifecycle!ContainersAssumption, Lifecycle!OrdersAssumption, Lifecycle!PlansAssumption
<1>2. QED
  BY <1>1, RunIsALifecycle, PTL

-----------------------------------------------------------------------------
(* While the set-up makes its calls, and after it has stopped, what exists *)
(* is what the calls behind the call index have made, neither more nor     *)
(* less.                                                                   *)

Behind == {plan[i] : i \in {j \in DOMAIN plan : j < at}}

Subjects(op) == {s.on : s \in {x \in Behind : x.op = op}}
MadeNets     == {s.net : s \in {x \in Behind : x.op = "network"}}
Joined(c)    ==
  {s.net : s \in {x \in Behind : x.op \in {"create", "connect"} /\ x.on = c}} \ {Offline}

ContainersFollowCalls ==
  \A c \in Members(AllContainers) :
    /\ attached[c] = Joined(c)
    /\ attached[c] \subseteq networks /\ (docker[c] = "absent" => attached[c] = {})
    /\ docker[c] # "absent" <=> c \in Subjects("create")
    /\ c # W => docker[c] # "exited" /\ (docker[c] = "running" <=> c \in Subjects("start"))

ClientFollowsCalls ==
  /\ attachCli # "idle" <=> W \in Subjects("attach")
  /\ docker[W] \in {"running", "exited"} => attachCli # "idle"

StateFollowsCalls ==
  /\ faults = 0 /\ foreign = {}
  /\ pc \in {"setup", "wait", "copy"}
  /\ networks = MadeNets
  /\ ContainersFollowCalls
  /\ started = Subjects("health") \cup Subjects("await")
  /\ published = Subjects("provision")
  /\ ClientFollowsCalls
  /\ Subjects("refuse") = {}

LEMMA BehindGrows ==
  ASSUME Lifecycle!TypeOK, pc = "setup", plan' = plan, at' = at + 1
  PROVE  /\ plan[at] \in Call /\ Behind' = Behind \cup {plan[at]}
         /\ \A op : Subjects(op)' = Subjects(op) \cup (IF plan[at].op = op THEN {plan[at].on} ELSE {})
         /\ MadeNets' = MadeNets \cup (IF plan[at].op = "network" THEN {plan[at].net} ELSE {})
         /\ \A c : Joined(c)' = IF plan[at].op \in {"create", "connect"} /\ plan[at].on = c
                                 THEN Joined(c) \cup ({plan[at].net} \ {Offline}) ELSE Joined(c)
<1>1. plan \in Seq(Call) /\ at \in DOMAIN plan /\ DOMAIN plan = 1..Len(plan) /\ Len(plan) \in Nat
  BY LifecycleConstants, LenProperties DEF Lifecycle!TypeOK, Lifecycle!PlansAssumption, Call
<1>2. Behind' = Behind \cup {plan[at]}
  BY <1>1 DEF Behind
<1>3. plan[at] \in Call
  BY <1>1
<1> QED
  BY <1>2, <1>3 DEF Subjects, MadeNets, Joined

LEMMA CallsFit ==
  ASSUME ForCaps, NEW s \in Members(plan)
  PROVE  \/ \E n \in Required(caps) : s = Network(n)
         \/ s.op # "network" /\ Fits(s, Members(plan), caps, given)
<1>1. Front(plan, Members(AllContainers), caps, given)
  BY PlanShape DEF ForCaps
<1> QED
  BY <1>1 DEF Front

(* Without faults a call of the set-up goes through, or it raises because  *)
(* it cannot succeed.                                                      *)
LEMMA SetUpGoesOn ==
  ASSUME Lifecycle!TypeOK, faults = 0, Run!SetUp
  PROVE  /\ pc = "setup" /\ faults' = 0 /\ plan' = plan /\ UNCHANGED foreign
         /\ \/ /\ ~Run!CanSucceed /\ at' = at /\ pc' = "copy" /\ outcome' = "raised"
               /\ UNCHANGED <<started, docker, attached, networks, attachCli, published>>
            \/ /\ at' = at + 1 /\ pc' \in {"setup", "wait"} /\ UNCHANGED outcome
               /\ \/ Run!CreateNetwork \/ Run!StageSource \/ Run!SealSecrets
                  \/ Run!CreateContainer \/ Run!ConnectContainer \/ Run!SetCreated
                  \/ Run!ExtendContainers \/ Run!StartContainer \/ Run!CheckHealth
                  \/ Run!Verify \/ Run!ProvisionSecrets \/ Run!StartAttached
                  \/ Run!AwaitRunning
<1> USE DEF Run!Fault, Run!Interrupt, Run!Raise, Run!Proceed, Run!ProceedOrRaise, Run!Calling,
            Run!daemon, Run!bookkeeping, Run!cleaning, Run!files
<1>1. CASE Run!SetUpRaises
  BY <1>1 DEF Run!SetUpRaises
<1>2. CASE Run!CreateNetwork \/ Run!StageSource \/ Run!SealSecrets \/ Run!CreateContainer
  BY <1>2 DEF Run!CreateNetwork, Run!StageSource, Run!SealSecrets, Run!CreateContainer
<1>3. CASE Run!ConnectContainer \/ Run!SetCreated \/ Run!ExtendContainers \/ Run!StartContainer
  BY <1>3 DEF Run!ConnectContainer, Run!SetCreated, Run!ExtendContainers, Run!StartContainer
<1>4. CASE Run!CheckHealth \/ Run!Verify \/ Run!ProvisionSecrets \/ Run!StartAttached
             \/ Run!AwaitRunning
  BY <1>4
  DEF Run!CheckHealth, Run!Verify, Run!ProvisionSecrets, Run!StartAttached, Run!AwaitRunning
<1> QED
  BY <1>1, <1>2, <1>3, <1>4 DEF Run!SetUp

(* What a call that goes through does to the sandbox.                      *)
LEMMA CallEffect ==
  ASSUME Lifecycle!TypeOK, faults = 0, foreign = {}, Run!SetUp, at' = at + 1,
         NEW s, s = plan[at]
  PROVE  /\ s.op # "refuse"
         /\ networks' = networks \cup (IF s.op = "network" THEN {s.net} ELSE {})
         /\ s.op \in {"create", "connect"} => s.net \in networks \cup {Offline}
         /\ s.op = "create" => docker[s.on] = "absent" /\ attached'[s.on] = {s.net} \ {Offline}
         /\ s.op = "connect" => /\ docker[s.on] # "absent" /\ s.net \in networks
                                /\ attached'[s.on] = attached[s.on] \cup {s.net}
         /\ \A c \in Members(AllContainers) :
              ~(s.op \in {"create", "connect"} /\ s.on = c) => attached'[c] = attached[c]
         /\ s.op = "create" => docker'[s.on] = "created"
         /\ s.op = "start" => docker[s.on] = "created" /\ docker'[s.on] = "running"
         /\ \A c \in Members(AllContainers) :
              ~(s.op \in {"create", "start"} /\ s.on = c) => docker'[c] = docker[c]
         /\ started' = started \cup (IF s.op \in {"health", "await"} THEN {s.on} ELSE {})
         /\ published' = published \cup (IF s.op = "provision" THEN {s.on} ELSE {})
         /\ attachCli' = IF s.op = "attach" THEN "pending" ELSE attachCli
<1> USE DEF Run!Calling, Run!Subject, Run!Net, Run!Exists,
            Run!daemon, Run!bookkeeping, Run!cleaning, Run!files
<1>1. /\ docker \in [Members(AllContainers) -> {"absent", "created", "running", "exited"}]
      /\ attached \in [Members(AllContainers) -> SUBSET Members(AllNetworks)]
  BY DEF Lifecycle!TypeOK
<1>2. at \in Nat /\ ~(at = at + 1)
  <2>1. at \in Nat
    BY LifecycleConstants, LenProperties DEF Lifecycle!TypeOK, Lifecycle!PlansAssumption
  <2> QED
    BY <2>1
<1>3. s \in Call
  BY SetUpGoesOn, BehindGrows
<1>4. s.on \in Members(AllContainers)
  BY <1>3 DEF Call, Lifecycle!Step
<1>5. CASE Run!CreateNetwork
  BY <1>1, <1>4, <1>5 DEF Run!CreateNetwork
<1>6. CASE Run!StageSource
  BY <1>1, <1>4, <1>6 DEF Run!StageSource
<1>7. CASE Run!SealSecrets
  BY <1>1, <1>4, <1>7 DEF Run!SealSecrets
<1>8. CASE Run!CreateContainer
  BY <1>1, <1>4, <1>8 DEF Run!CreateContainer
<1>9. CASE Run!ConnectContainer
  BY <1>1, <1>4, <1>9 DEF Run!ConnectContainer
<1>10. CASE Run!SetCreated
  BY <1>1, <1>4, <1>10 DEF Run!SetCreated
<1>11. CASE Run!ExtendContainers
  BY <1>1, <1>4, <1>11 DEF Run!ExtendContainers
<1>12. CASE Run!StartContainer
  BY <1>1, <1>4, <1>12 DEF Run!StartContainer
<1>13. CASE Run!CheckHealth
  BY <1>1, <1>4, <1>13 DEF Run!CheckHealth
<1>14. CASE Run!Verify
  BY <1>1, <1>4, <1>14 DEF Run!Verify
<1>15. CASE Run!ProvisionSecrets
  BY <1>1, <1>4, <1>15 DEF Run!ProvisionSecrets
<1>16. CASE Run!StartAttached
  BY <1>1, <1>4, <1>16 DEF Run!StartAttached
<1>17. CASE Run!AwaitRunning
  BY <1>1, <1>4, <1>17 DEF Run!AwaitRunning
<1> QED
  BY <1>2, SetUpGoesOn, <1>5, <1>6, <1>7, <1>8, <1>9, <1>10, <1>11, <1>12, <1>13, <1>14, <1>15, <1>16, <1>17

LEMMA StateInvariance == Spec => []StateFollowsCalls
<1> DEFINE Names == Members(AllContainers)
           Typed ==
             /\ docker \in [Names -> {"absent", "created", "running", "exited"}]
             /\ attached \in [Names -> SUBSET Members(AllNetworks)]
             /\ networks \subseteq Members(AllNetworks)
             /\ attachCli \in {"idle", "pending", "streaming", "ended"}
<1>0. W \in Names /\ W = "metisa_workload" /\ Offline \notin Members(AllNetworks)
  BY FixedNames, ContainerNames, NetworkNames DEF W, Offline
<1>1. Init => StateFollowsCalls
  <2> SUFFICES ASSUME Init PROVE StateFollowsCalls
    OBVIOUS
  <2>1. Behind = {}
    <3>1. plan \in Seq(Call) /\ at = 1
      BY PlansHaveTheirShape DEF Init, Run!NothingCalled
    <3> QED
      BY <3>1 DEF Behind
  <2>2. /\ MadeNets = {} /\ \A op : Subjects(op) = {}
        /\ \A c : Joined(c) = {}
    BY <2>1 DEF MadeNets, Subjects, Joined
  <2> QED
    BY <1>0, <2>2
    DEF Init, Run!NothingCalled, StateFollowsCalls, ContainersFollowCalls, ClientFollowsCalls
<1>2. Lifecycle!TypeOK /\ ForCaps /\ StateFollowsCalls /\ [Next]_vars => StateFollowsCalls'
  <2> SUFFICES ASSUME Lifecycle!TypeOK, ForCaps, StateFollowsCalls, [Next]_vars
               PROVE  StateFollowsCalls'
    OBVIOUS
  <2>1. Typed
    BY <1>0 DEF Lifecycle!TypeOK
  <2>2. ASSUME UNCHANGED <<plan, at>>
        PROVE  /\ \A op : Subjects(op)' = Subjects(op)
               /\ MadeNets' = MadeNets /\ \A c : Joined(c)' = Joined(c)
    BY <2>2 DEF Behind, Subjects, MadeNets, Joined
  <2>3. CASE UNCHANGED vars
    BY <2>2, <2>3 DEF vars, StateFollowsCalls, ContainersFollowCalls, ClientFollowsCalls
  <2>4. CASE Run!Environment
    <3>1. /\ UNCHANGED <<plan, at, pc, attached, networks, started, published, foreign>>
          /\ faults' = 0
          /\ \A c \in Names \ {W} : docker'[c] = docker[c]
          /\ docker'[W] = "absent" <=> docker[W] = "absent"
          /\ attachCli' = "idle" <=> attachCli = "idle"
          /\ docker'[W] \in {"running", "exited"} => attachCli # "idle"
      BY <1>0, <2>1, <2>4
      DEF StateFollowsCalls, ClientFollowsCalls, Run!Environment, Run!AttachedStart,
          Run!AttachedStartFails, Run!AttachedEnds, Run!ContainerExits, Run!OtherRun,
          Run!Fault, Run!control, Run!bookkeeping
    <3> HIDE DEF Names
    <3>2. ContainersFollowCalls'
      BY <2>2, <3>1 DEF StateFollowsCalls, ContainersFollowCalls, Names
    <3>3. ClientFollowsCalls'
      BY <2>2, <3>1 DEF StateFollowsCalls, ClientFollowsCalls
    <3> QED
      BY <2>2, <3>1, <3>2, <3>3 DEF StateFollowsCalls
  <2>5. CASE Run!SetUp
    <3> DEFINE s == plan[at]
    <3>1. /\ pc = "setup" /\ faults' = 0 /\ plan' = plan /\ foreign' = foreign
          /\ pc' \in {"setup", "wait", "copy"}
      BY <2>5, SetUpGoesOn DEF StateFollowsCalls
    <3>2. CASE /\ at' = at
               /\ UNCHANGED <<started, docker, attached, networks, attachCli, published>>
      BY <2>2, <3>1, <3>2 DEF StateFollowsCalls, ContainersFollowCalls, ClientFollowsCalls
    <3>3. CASE at' = at + 1
      <4>1. /\ s \in Call /\ s \in Members(plan)
            /\ \A op : Subjects(op)' = Subjects(op) \cup (IF s.op = op THEN {s.on} ELSE {})
            /\ MadeNets' = MadeNets \cup (IF s.op = "network" THEN {s.net} ELSE {})
            /\ \A c : Joined(c)' = IF s.op \in {"create", "connect"} /\ s.on = c
                                    THEN Joined(c) \cup ({s.net} \ {Offline}) ELSE Joined(c)
        <5>1. plan \in Seq(Call) /\ at \in DOMAIN plan
          BY <3>1, LifecycleConstants DEF Lifecycle!TypeOK, Lifecycle!PlansAssumption, Call
        <5>2. s \in Members(plan)
          BY <5>1 DEF Members
        <5> QED
          BY <3>1, <3>3, <5>2, BehindGrows
      <4>2. /\ s.op \in {"start", "health", "verify"} => s.on # W
            /\ s.op \in {"attach", "await"} => s.on = W
        BY <4>1, CallsFit DEF Fits, Network
      <4>3. s.on \in Names /\ s.on \in Members(AllContainers)
        BY <4>1 DEF Call, Lifecycle!Step
      <4> DEFINE Effect ==
             /\ s.op # "refuse"
             /\ networks' = networks \cup (IF s.op = "network" THEN {s.net} ELSE {})
             /\ s.op \in {"create", "connect"} => s.net \in networks \cup {Offline}
             /\ s.op = "create" => docker[s.on] = "absent" /\ attached'[s.on] = {s.net} \ {Offline}
             /\ s.op = "connect" => /\ docker[s.on] # "absent" /\ s.net \in networks
                                    /\ attached'[s.on] = attached[s.on] \cup {s.net}
             /\ \A c \in Names :
                  ~(s.op \in {"create", "connect"} /\ s.on = c) => attached'[c] = attached[c]
             /\ s.op = "create" => docker'[s.on] = "created"
             /\ s.op = "start" => docker[s.on] = "created" /\ docker'[s.on] = "running"
             /\ \A c \in Names :
                  ~(s.op \in {"create", "start"} /\ s.on = c) => docker'[c] = docker[c]
             /\ started' = started \cup (IF s.op \in {"health", "await"} THEN {s.on} ELSE {})
             /\ published' = published \cup (IF s.op = "provision" THEN {s.on} ELSE {})
             /\ attachCli' = IF s.op = "attach" THEN "pending" ELSE attachCli
      <4>4. Effect
        BY <2>5, <3>3, CallEffect DEF StateFollowsCalls
      <4> HIDE DEF s, Names
      <4>5. networks' = MadeNets'
        BY <4>1, <4>4 DEF StateFollowsCalls
      <4>6. started' = Subjects("health")' \cup Subjects("await")'
        BY <4>1, <4>4 DEF StateFollowsCalls
      <4>7. published' = Subjects("provision")'
        BY <4>1, <4>4 DEF StateFollowsCalls
      <4>8. ClientFollowsCalls'
        BY <1>0, <4>1, <4>2, <4>4 DEF StateFollowsCalls, ClientFollowsCalls
      <4>9. ASSUME NEW c \in Names
            PROVE  /\ attached'[c] = Joined(c)' /\ attached'[c] \subseteq networks'
                   /\ docker'[c] = "absent" => attached'[c] = {}
                   /\ docker'[c] # "absent" <=> c \in Subjects("create")'
                   /\ c # W => /\ docker'[c] # "exited"
                               /\ docker'[c] = "running" <=> c \in Subjects("start")'
        <5>1. /\ attached[c] = Joined(c) /\ attached[c] \subseteq networks
              /\ docker[c] = "absent" => attached[c] = {}
              /\ docker[c] # "absent" <=> c \in Subjects("create")
              /\ c # W => docker[c] # "exited" /\ (docker[c] = "running" <=> c \in Subjects("start"))
          BY DEF StateFollowsCalls, ContainersFollowCalls, Names
        <5>2. /\ networks \subseteq networks' /\ Offline \notin networks
              /\ Joined(c)' = IF s.op \in {"create", "connect"} /\ s.on = c
                              THEN Joined(c) \cup ({s.net} \ {Offline}) ELSE Joined(c)
              /\ Subjects("create")' = Subjects("create") \cup (IF s.op = "create" THEN {s.on} ELSE {})
              /\ Subjects("start")' = Subjects("start") \cup (IF s.op = "start" THEN {s.on} ELSE {})
          BY <1>0, <2>1, <4>1, <4>4
        <5>3. CASE s.op = "create" /\ s.on = c
          BY <4>4, <5>1, <5>2, <5>3
        <5>4. CASE s.op = "connect" /\ s.on = c
          BY <4>4, <5>1, <5>2, <5>4
        <5>5. CASE s.op = "start" /\ s.on = c
          BY <4>4, <5>1, <5>2, <5>5
        <5>6. CASE ~(s.op \in {"create", "connect", "start"} /\ s.on = c)
          BY <4>4, <5>1, <5>2, <5>6
        <5> QED
          BY <5>3, <5>4, <5>5, <5>6
      <4>10. ContainersFollowCalls'
        BY <4>9 DEF ContainersFollowCalls, Names
      <4>11. Subjects("refuse")' = {}
        BY <4>1, <4>4 DEF StateFollowsCalls
      <4> QED
        BY <3>1, <4>5, <4>6, <4>7, <4>8, <4>10, <4>11 DEF StateFollowsCalls
    <3> QED
      BY <2>5, <3>2, <3>3, SetUpGoesOn DEF StateFollowsCalls
  <2> QED
    BY <2>3, <2>4, <2>5 DEF Next, SetUpIsOver
<1>3. QED
  BY <1>1, <1>2, RunTypes, PlanIsKept, PTL DEF Spec

-----------------------------------------------------------------------------
(* Who can be on which network.                                            *)

(* The networks a container is to be a member of.                          *)
Home(c, d) == Members(Nets(c, d)) \ {Offline}

LEMMA Homes ==
  ASSUME NEW d
  PROVE  /\ Home(W, d) = IF WorkloadNetworkRequired(d) THEN {"workload"} ELSE {}
         /\ Home("squid_proxy", d) =
              {"egress"} \cup (IF BackendNetworkRequired(d) THEN {"backend"} ELSE {})
                \cup (IF WorkloadNeedsSquidProxy(d) \/ ~BackendNetworkRequired(d)
                      THEN {"workload"} ELSE {})
         /\ Home("haproxy", d) =
              {"egress", IF BackendNetworkRequired(d) THEN "backend" ELSE "workload"}
         /\ \A c \in {"mcp_server", "agent_memory", "llm_broker"} :
              Home(c, d) = {"workload", "backend"}
         /\ Home("otel_collector", d) = {"workload"}
         /\ \A c : c \notin FrontServices => Home(c, d) = {"backend"}
<1>1. {"workload", "backend", "egress", Offline} \subseteq NetName
  BY NetworkNames DEF NetName
<1>2. Offline \notin {"workload", "backend", "egress"}
  BY DEF Offline
<1>3. /\ Members(<<"workload">>) = {"workload"} /\ Members(<<"backend">>) = {"backend"}
      /\ Members(<<Offline>>) = {Offline}
  BY <1>1, OneNetwork
<1>4. /\ Members(<<"workload", "backend">>) = {"workload", "backend"}
      /\ Members(<<"backend", "workload">>) = {"workload", "backend"}
  BY <1>1, TwoNetworks
<1>5. Home(W, d) = IF WorkloadNetworkRequired(d) THEN {"workload"} ELSE {}
  <2>1. Nets(W, d) = IF WorkloadNetworkRequired(d) THEN <<"workload">> ELSE <<Offline>>
    BY DEF Nets, WorkloadNetworks, W
  <2> QED
    BY <1>2, <1>3, <2>1 DEF Home
<1>6. /\ Home("squid_proxy", d) =
           {"egress"} \cup (IF BackendNetworkRequired(d) THEN {"backend"} ELSE {})
             \cup (IF WorkloadNeedsSquidProxy(d) \/ ~BackendNetworkRequired(d)
                   THEN {"workload"} ELSE {})
      /\ Home("haproxy", d) =
           {"egress", IF BackendNetworkRequired(d) THEN "backend" ELSE "workload"}
  <2>1. Nets("squid_proxy", d) = SquidNetworks(d) /\ Nets("haproxy", d) = HaproxyNetworks(d)
    BY DEF Nets, W
  <2> QED
    BY <1>2, <2>1, ProxyNetworks DEF Home
<1>7. ASSUME NEW c \in {"mcp_server", "agent_memory", "llm_broker"}
      PROVE  Home(c, d) = {"workload", "backend"}
  <2>1. Nets(c, d) \in {<<"workload", "backend">>, <<"backend", "workload">>}
    BY DEF Nets, W
  <2> QED
    BY <1>2, <1>4, <2>1 DEF Home
<1>8. Home("otel_collector", d) = {"workload"}
  <2>1. Nets("otel_collector", d) = <<"workload">>
    BY DEF Nets, W
  <2> QED
    BY <1>2, <1>3, <2>1 DEF Home
<1>9. ASSUME NEW c, c \notin FrontServices
      PROVE  Home(c, d) = {"backend"}
  <2>1. Nets(c, d) = <<"backend">>
    BY <1>9 DEF Nets, W, FrontServices, BackendOnly
  <2> QED
    BY <1>2, <1>3, <2>1 DEF Home
<1> QED
  BY <1>5, <1>6, <1>7, <1>8, <1>9

(* No container is ever on a network its specification does not give it.   *)
LEMMA AttachedAtHome ==
  ASSUME ForCaps, StateFollowsCalls, NEW c \in Members(AllContainers)
  PROVE  attached[c] \subseteq Home(c, caps)
<1> SUFFICES ASSUME NEW n \in attached[c] PROVE n \in Home(c, caps)
  OBVIOUS
<1>1. n \in Joined(c) /\ n # Offline
  BY DEF StateFollowsCalls, ContainersFollowCalls, Joined
<1>2. PICK s \in Behind : s.op \in {"create", "connect"} /\ s.on = c /\ s.net = n
  BY <1>1 DEF Joined
<1>3. s \in Members(plan)
  BY DEF Behind, Members
<1>4. Fits(s, Members(plan), caps, given)
  BY <1>2, <1>3, CallsFit DEF Network
<1>5. n = Nets(c, caps)[1] \/ n \in Later(Nets(c, caps))
  BY <1>2, <1>4 DEF Fits
<1> QED
  BY <1>1, <1>5, NetsAreNets DEF Home

(* Whatever the capabilities and at every moment of the set-up, the        *)
(* workload shares no network with a service behind the front ones, is     *)
(* not on the egress network, and has no way to Squid beside the broker.   *)
THEOREM WorkloadConfinement == Spec => []WorkloadIsConfined
<1>1. ForCaps /\ StateFollowsCalls => WorkloadIsConfined
  <2> SUFFICES ASSUME ForCaps, StateFollowsCalls PROVE WorkloadIsConfined
    OBVIOUS
  <2>1. W = "metisa_workload" /\ {W, "squid_proxy"} \subseteq Members(AllContainers)
    BY FixedNames, ContainerNames DEF W
  <2>2. \A c \in Members(AllContainers) : attached[c] \subseteq Home(c, caps)
    BY AttachedAtHome
  <2>3. attached[W] \subseteq {"workload"}
    BY <2>1, <2>2, Homes
  <2>4. ASSUME NEW c \in Members(AllContainers), c \notin FrontServices
        PROVE  attached[c] \subseteq {"backend"}
    BY <2>2, <2>4, Homes
  <2>5. ASSUME "llm_broker" \in caps
        PROVE  "workload" \notin attached["squid_proxy"]
    BY <2>1, <2>2, <2>5, Homes DEF WorkloadNeedsSquidProxy, BackendNetworkRequired
  <2> QED
    BY <2>1, <2>3, <2>4, <2>5 DEF WorkloadIsConfined, SharesNetwork
<1>2. QED
  BY <1>1, PlanIsKept, StateInvariance, PTL

-----------------------------------------------------------------------------
(* Which calls can fail.                                                   *)

(* A network is missing exactly when some container that is wanted belongs *)
(* on a network that is not made.                                          *)
LEMMA HomesAreRequired ==
  ASSUME ForCaps
  PROVE  NetworkMissing <=>
           \E c \in Members(AllContainers) :
             Wanted(c, caps) /\ ~(Home(c, caps) \subseteq Required(caps))
<1> DEFINE Names == Members(AllContainers)
<1>0. /\ Members(FixedContainers) \subseteq Names /\ Members(LlmServers) \subseteq Names
      /\ \A c \in Names : c \in Members(FixedContainers) \/ c \in Members(LlmServers)
      /\ \A c \in Members(LlmServers) : c \notin Members(FixedContainers)
  BY ContainerNames, ServerNames
<1>1. /\ "workload" \in Required(caps) <=> WorkloadNetworkRequired(caps)
      /\ "backend" \in Required(caps) <=> BackendNetworkRequired(caps)
      /\ "egress" \in Required(caps) <=> EgressNetworkRequired(caps)
  BY DEF Required
<1>2. /\ Wanted("otel_collector", caps) <=> "otel_collector" \in caps
      /\ Wanted("agent_memory", caps) <=> "agent_memory" \in caps
      /\ Wanted("squid_proxy", caps) <=> "internet" \in caps
      /\ Wanted("haproxy", caps) <=> "localnet" \in caps
      /\ Wanted("mcp_server", caps) <=> "mcp_server" \in caps
      /\ Wanted("llm_broker", caps) <=> "llm_broker" \in caps
      /\ \A c \in {"documents", "qdrant", "postgres", "jina_reader", "code_execution",
                    "docling", "embeddings"} : Wanted(c, caps) <=> c \in caps
      /\ \A c \in {"prompt_guard", "entity_guard"} : Wanted(c, caps) <=> GuardsRequired(caps)
      /\ \A c \in Members(LlmServers) : Wanted(c, caps) <=> "llm_server" \in caps
  BY <1>0, FixedNames DEF Wanted, W
<1> HIDE DEF Names
<1>3. ASSUME NetworkMissing
      PROVE  \E c \in Names : Wanted(c, caps) /\ ~(Home(c, caps) \subseteq Required(caps))
  <2>1. CASE caps \cap {"otel_collector", "agent_memory"} # {} /\ ~WorkloadNetworkRequired(caps)
    <3>1. PICK c \in {"otel_collector", "agent_memory"} : c \in caps
      BY <2>1
    <3>2. c \in Names /\ Wanted(c, caps) /\ "workload" \in Home(c, caps)
      BY <1>0, <1>2, <3>1, FixedNames, Homes
    <3> QED
      BY <1>1, <2>1, <3>2
  <2>2. CASE /\ caps \cap {"documents", "qdrant", "postgres"} # {}
             /\ ~BackendNetworkRequired(caps)
    <3>1. PICK c \in {"documents", "qdrant", "postgres"} : c \in caps
      BY <2>2
    <3>2. c \in Names /\ Wanted(c, caps)
      BY <1>0, <1>2, <3>1, FixedNames
    <3>3. c \notin FrontServices
      BY DEF FrontServices
    <3>4. Home(c, caps) = {"backend"}
      BY <3>3, Homes
    <3> QED
      BY <1>1, <2>2, <3>2, <3>4
  <2>3. CASE "llm_server" \in caps /\ LlmServers # <<>> /\ ~BackendNetworkRequired(caps)
    <3>1. PICK c : c \in Members(LlmServers)
      <4>1. 1 \in DOMAIN LlmServers
        BY <2>3, ServerNames, EmptySeq, LenProperties
      <4> QED
        BY <4>1 DEF Members
    <3>2. c \in Names /\ Wanted(c, caps)
      BY <1>0, <1>2, <2>3, <3>1
    <3>3. c \notin FrontServices
      BY <1>0, <3>1, FixedNames DEF FrontServices
    <3>4. Home(c, caps) = {"backend"}
      BY <3>3, Homes
    <3> QED
      BY <1>1, <2>3, <3>2, <3>4
  <2> QED
    BY <1>3, <2>1, <2>2, <2>3 DEF NetworkMissing
<1>4. ASSUME ~NetworkMissing, NEW c \in Names, Wanted(c, caps)
      PROVE  Home(c, caps) \subseteq Required(caps)
  <2>1. /\ "internet" \in caps \/ "localnet" \in caps \/ "mcp_server" \in caps \/ "llm_broker" \in caps
             => "network" \in caps
        /\ caps \cap {"jina_reader", "code_execution", "docling"} # {} => "mcp_server" \in caps
        /\ "embeddings" \in caps => "docling" \in caps
    BY DEF ForCaps, ValidSpecification, ValidSquidProxy, ValidHaproxy, ValidMcpServer,
           ValidLlmBroker, ValidJinaReader, ValidCodeExecution, ValidDocling,
           ValidEmbeddings, Needs
  <2>2. CASE c \in Members(LlmServers)
    <3>1. LlmServers # <<>>
      BY <2>2 DEF Members
    <3>2. Home(c, caps) = {"backend"}
      BY <1>0, <2>2, FixedNames, Homes DEF FrontServices
    <3> QED
      BY <1>1, <1>2, <1>4, <2>2, <3>1, <3>2 DEF NetworkMissing
  <2>3. CASE c \in {"prompt_guard", "entity_guard"}
    <3>1. Home(c, caps) = {"backend"}
      BY <2>3, Homes DEF FrontServices
    <3> QED
      BY <1>1, <1>2, <1>4, <2>3, <3>1 DEF GuardsRequired, BackendNetworkRequired
  <2>4. CASE c \in {"documents", "qdrant", "postgres", "jina_reader", "code_execution",
                    "docling", "embeddings"}
    <3>1. Home(c, caps) = {"backend"}
      BY <2>4, Homes DEF FrontServices
    <3> QED
      BY <1>1, <1>2, <1>4, <2>1, <2>4, <3>1 DEF NetworkMissing, BackendNetworkRequired
  <2>5. CASE c \in {"mcp_server", "llm_broker", "agent_memory", "otel_collector"}
    BY <1>1, <1>2, <1>4, <2>1, <2>5, Homes
    DEF NetworkMissing, BackendNetworkRequired, WorkloadNetworkRequired
  <2>6. CASE c \in {"squid_proxy", "haproxy"}
    BY <1>1, <1>2, <1>4, <2>1, <2>6, Homes
    DEF EgressNetworkRequired, WorkloadNetworkRequired
  <2>7. CASE c = W
    BY <1>1, <2>7, Homes
  <2> QED
    BY <1>0, <2>2, <2>3, <2>4, <2>5, <2>6, <2>7, FixedNames DEF W
<1> QED
  BY <1>3, <1>4 DEF Names

LEMMA SameCall ==
  ASSUME NEW a \in Call, NEW b \in Call, a.op = b.op, a.on = b.on, a.net = b.net
  PROVE  a = b
BY DEF Call, Lifecycle!Step

(* What the position of a call in the plan says of the calls behind it.    *)
LEMMA CallsInOrder ==
  ASSUME Lifecycle!TypeOK, ForCaps, pc = "setup"
  PROVE  /\ at \in DOMAIN plan /\ plan[at] \in Call /\ plan[at] \in Members(plan)
         /\ plan[at] \notin Behind /\ Behind \subseteq Members(plan) \cap Call
         /\ plan[at].op # "network" => Required(caps) \subseteq MadeNets
         /\ plan[at].op \in {"connect", "start"} => plan[at].on \in Subjects("create")
         /\ plan[at].op \in {"health", "verify", "provision"} /\ plan[at].on # W =>
              plan[at].on \in Subjects("start")
         /\ W \notin Subjects("attach") => plan[at] = Plain("attach", W) \/ BeforeLaunch(plan[at])
<1>1. plan \in Seq(Call) /\ at \in DOMAIN plan /\ at \in 1..Len(plan)
  BY LifecycleConstants DEF Lifecycle!TypeOK, Lifecycle!PlansAssumption, Call
<1>2. /\ Front(plan, Members(AllContainers), caps, given)
      /\ Plain("attach", W) \in Members(plan)
      /\ \A i, j \in DOMAIN plan : plan[i].op = "attach" => (j < i <=> BeforeLaunch(plan[j]))
  BY PlanShape DEF ForCaps
<1>3. /\ Once(plan) /\ Backed(plan, at)
      /\ \A n \in Required(caps) : Network(n) \in Members(plan)
      /\ \A i, j \in DOMAIN plan : plan[i].op = "network" /\ plan[j].op # "network" => i < j
  BY <1>1, <1>2 DEF Front, Orderly
<1>4. \A j \in DOMAIN plan : j < at => plan[j] \in Behind
  BY DEF Behind
<1>5. \A s \in Behind : \E j \in DOMAIN plan : j < at /\ s = plan[j]
  BY DEF Behind
<1>6. plan[at] \in Call /\ plan[at] \in Members(plan) /\ DOMAIN plan \subseteq Nat /\ at \in Nat
  BY <1>1 DEF Members
<1>7. plan[at] \notin Behind /\ Behind \subseteq Members(plan) \cap Call
  BY <1>1, <1>3, <1>5, <1>6 DEF Once, Members
<1>8. ASSUME plan[at].op # "network", NEW n \in Required(caps)
      PROVE  n \in MadeNets
  <2>1. PICK j \in DOMAIN plan : plan[j] = Network(n)
    BY <1>3 DEF Members
  <2>2. j < at
    BY <1>1, <1>3, <1>8, <2>1 DEF Network
  <2>3. Network(n) \in Behind
    BY <1>4, <2>1, <2>2
  <2> QED
    BY <2>3 DEF MadeNets, Network
<1>9. /\ plan[at].op \in {"connect", "start"} => plan[at].on \in Subjects("create")
      /\ plan[at].op \in {"health", "verify", "provision"} /\ plan[at].on # W =>
           plan[at].on \in Subjects("start")
  BY <1>3, <1>4 DEF Backed, Subjects
<1>10. ASSUME W \notin Subjects("attach")
       PROVE  plan[at] = Plain("attach", W) \/ BeforeLaunch(plan[at])
  <2>1. PICK j \in DOMAIN plan : plan[j] = Plain("attach", W)
    BY <1>2 DEF Members
  <2>2. ~(j < at)
    BY <1>4, <1>10, <2>1 DEF Subjects, Plain
  <2>3. j = at \/ at < j
    BY <1>6, <2>2
  <2>4. plan[j].op = "attach"
    BY <2>1 DEF Plain
  <2> QED
    BY <1>1, <1>2, <2>1, <2>3, <2>4
<1> QED
  BY <1>1, <1>6, <1>7, <1>8, <1>9, <1>10

(* A table is missing where a container that is wanted is refused.         *)
LEMMA MissingTables ==
  TableMissing <=>
    \E c \in Members(AllContainers) \ {W} : Wanted(c, caps) /\ Refused(c, given)
<1>1. \A c \in Table \cup {"embeddings"} :
        /\ c \in Members(AllContainers) \ {W}
        /\ Wanted(c, caps) <=> CASE c = "squid_proxy" -> "internet" \in caps
                                [] c = "haproxy"     -> "localnet" \in caps
                                [] OTHER             -> c \in caps
  BY FixedNames, ContainerNames, ServerNames DEF Table, W, Wanted
<1>2. ASSUME TableMissing
      PROVE  \E c \in Members(AllContainers) \ {W} : Wanted(c, caps) /\ Refused(c, given)
  <2>1. PICK t \in Table : t \in TablesNeeded(caps) /\ t \notin given
    BY <1>2 DEF TableMissing, TablesNeeded
  <2>2. CASE t # "docling"
    BY <1>1, <2>1, <2>2 DEF TablesNeeded, Refused
  <2>3. CASE t = "docling"
    BY <1>1, <2>1, <2>3 DEF TablesNeeded, Refused, Table
  <2> QED
    BY <2>2, <2>3
<1>3. ASSUME NEW c \in Members(AllContainers) \ {W}, Wanted(c, caps), Refused(c, given)
      PROVE  TableMissing
  <2>1. CASE c \in Table \ given
    BY <1>1, <1>3, <2>1 DEF TableMissing, TablesNeeded
  <2>2. CASE c = "embeddings" /\ "docling" \notin given
    BY <1>1, <1>3, <2>2 DEF TableMissing, TablesNeeded, Table
  <2> QED
    BY <1>3, <2>1, <2>2 DEF Refused
<1> QED
  BY <1>2, <1>3

(* Until the workload is started a call fails for nothing but a missing    *)
(* network or table.                                                       *)
LEMMA CallsSucceed ==
  ASSUME Lifecycle!TypeOK, ForCaps, StateFollowsCalls, pc = "setup", attachCli = "idle",
         ~NetworkMissing, ~TableMissing
  PROVE  Run!CanSucceed
<1> DEFINE s == plan[at]
<1>1. /\ s \in Call /\ s \in Members(plan) /\ s \notin Behind
      /\ Behind \subseteq Members(plan) \cap Call
      /\ s.op # "network" => Required(caps) \subseteq MadeNets
      /\ s.op \in {"connect", "start"} => s.on \in Subjects("create")
      /\ s.op \in {"health", "verify", "provision"} /\ s.on # W => s.on \in Subjects("start")
      /\ W \notin Subjects("attach") => s = Plain("attach", W) \/ BeforeLaunch(s)
  BY CallsInOrder
<1>2. /\ foreign = {} /\ networks = MadeNets /\ published = Subjects("provision")
      /\ W \notin Subjects("attach")
      /\ \A c \in Members(AllContainers) :
           /\ attached[c] \subseteq networks
           /\ docker[c] # "absent" <=> c \in Subjects("create")
           /\ c # W => docker[c] # "exited" /\ (docker[c] = "running" <=> c \in Subjects("start"))
  BY DEF StateFollowsCalls, ContainersFollowCalls, ClientFollowsCalls
<1>3. docker \in [Members(AllContainers) -> {"absent", "created", "running", "exited"}]
  BY DEF Lifecycle!TypeOK
<1>4. s.on \in Members(AllContainers) /\ s.op \in Lifecycle!Operation
  BY <1>1 DEF Call, Lifecycle!Step
<1>5. \/ \E n \in Required(caps) : s = Network(n)
      \/ s.op # "network" /\ Fits(s, Members(plan), caps, given)
  BY <1>1, CallsFit
<1>6. ASSUME NEW x \in Behind, x.op = s.op, x.on = s.on, x.op \notin {"network", "connect"}
      PROVE  FALSE
  <2>1. x \in Call /\ x \in Members(plan)
    BY <1>1
  <2>2. Fits(x, Members(plan), caps, given) /\ Fits(s, Members(plan), caps, given)
    <3>1. x.op # "network" /\ s.op # "network"
      BY <1>6
    <3>2. \A n : Network(n).op = "network"
      BY DEF Network
    <3>3. Fits(x, Members(plan), caps, given)
      BY <2>1, <3>1, <3>2, CallsFit
    <3>4. Fits(s, Members(plan), caps, given)
      BY <1>5, <3>1, <3>2
    <3> QED
      BY <3>3, <3>4
  <2>3. x.net = s.net
    BY <1>6, <2>2 DEF Fits
  <2>4. x = s
    BY <1>1, <1>6, <2>1, <2>3, SameCall
  <2> QED
    BY <1>1, <2>4
<1>7. \A op \in {"create", "start", "provision"} : s.op = op => s.on \notin Subjects(op)
  BY <1>6 DEF Subjects
<1>8. CASE \E n \in Required(caps) : s = Network(n)
  <2>1. PICK n \in Required(caps) : s = Network(n)
    BY <1>8
  <2>2. s.op = "network" /\ s.net = n /\ n \in Members(AllNetworks)
    BY <2>1, NetworkNames DEF Network, Required
  <2>3. n \notin MadeNets
    <3> SUFFICES ASSUME n \in MadeNets PROVE FALSE
      OBVIOUS
    <3>1. PICK x \in Behind : x.op = "network" /\ x.net = n
      BY DEF MadeNets
    <3>2. x \in Members(plan)
      BY <1>1
    <3>3. PICK m \in Required(caps) : x = Network(m)
      BY <3>1, <3>2, CallsFit
    <3>4. x = s
      BY <2>1, <3>1, <3>3 DEF Network
    <3> QED
      BY <1>1, <3>4
  <2> HIDE DEF s
  <2>4. n \in Members(AllNetworks) \ networks
    BY <1>2, <2>2, <2>3
  <2> QED
    BY <2>2, <2>4 DEF Run!CanSucceed, Run!Net, s
<1>9. CASE s.op # "network" /\ Fits(s, Members(plan), caps, given)
  <2>1. Wanted(s.on, caps) /\ Home(s.on, caps) \subseteq networks
    <3>1. Wanted(s.on, caps)
      BY <1>9 DEF Fits
    <3>2. Home(s.on, caps) \subseteq Required(caps)
      BY <1>4, <3>1, HomesAreRequired
    <3> QED
      BY <1>1, <1>2, <1>9, <3>1, <3>2
  <2>2. /\ Members(Nets(s.on, caps)) = {Nets(s.on, caps)[1]} \cup Later(Nets(s.on, caps))
        /\ IsNets(Nets(s.on, caps))
    BY NetsAreNets
  <2>3. s.op \in {"create", "connect"} => s.net \in networks \cup {Offline}
    BY <1>9, <2>1, <2>2 DEF Fits, Home
  <2>4. s.op = "connect" => s.net \in networks
    <3>1. s.op = "connect" => s.net \in Required(caps)
      BY <1>9, <2>1, LaterAreRequired DEF Fits, ForCaps
    <3> QED
      BY <1>1, <1>2, <3>1
  <2>5. /\ s.op \in {"start", "health", "verify"} => s.on # W
        /\ s.op # "await" /\ (s.op = "provision" => s.on # W)
    BY <1>1, <1>2, <1>9 DEF Fits, BeforeLaunch, Plain
  <2>7. s.op # "refuse"
    BY <1>4, <1>9, MissingTables DEF Fits
  <2> HIDE DEF s
  <2>6. /\ s.op = "create" => docker[s.on] = "absent" /\ s.on \notin foreign
        /\ s.op = "connect" => docker[s.on] # "absent"
        /\ s.op = "start" => docker[s.on] = "created" /\ attached[s.on] \subseteq networks
        /\ s.op \in {"health", "verify", "provision"} => docker[s.on] = "running"
        /\ s.op = "provision" => s.on \notin published
    BY <1>1, <1>2, <1>3, <1>4, <1>7, <2>5
  <2> QED
    BY <1>9, <2>3, <2>4, <2>5, <2>6, <2>7 DEF Run!CanSucceed, Run!Net, Run!Subject, Run!Exists, s
<1> QED
  BY <1>5, <1>8, <1>9

-----------------------------------------------------------------------------
(* The sandbox when the workload is started.                               *)

(* Every container the specification asks for runs, seen healthy, on all   *)
(* of its networks and with its key, and there is no other container.      *)
SandboxIsComplete ==
  \A c \in Members(AllContainers) :
    /\ docker[c] # "absent" <=> Wanted(c, caps)
    /\ attached[c] = IF Wanted(c, caps) THEN Home(c, caps) ELSE {}
    /\ Wanted(c, caps) /\ c # W => docker[c] = "running" /\ c \in started
    /\ Wanted(c, caps) /\ c \in Keyed => c \in published

LEMMA WhenLaunched ==
  ASSUME Lifecycle!TypeOK, ForCaps, StateFollowsCalls, attachCli # "idle"
  PROVE  SandboxIsComplete /\ ~NetworkMissing /\ ~TableMissing
<1>1. plan \in Seq(Call) /\ at \in Nat /\ DOMAIN plan \subseteq Nat
  BY LifecycleConstants, LenProperties DEF Lifecycle!TypeOK, Lifecycle!PlansAssumption, Call
<1>2. /\ \A c \in Members(AllContainers) : Wanted(c, caps) => Brought(c, Members(plan), given)
      /\ \A i, j \in DOMAIN plan : plan[i].op = "attach" => (j < i <=> BeforeLaunch(plan[j]))
  BY PlanShape DEF ForCaps
<1>3. PICK i \in DOMAIN plan : i < at /\ plan[i].op = "attach"
  BY DEF StateFollowsCalls, ClientFollowsCalls, Subjects, Behind
<1>4. ASSUME NEW s \in Members(plan), BeforeLaunch(s)
      PROVE  s \in Behind
  <2>1. PICK j \in DOMAIN plan : s = plan[j]
    BY DEF Members
  <2>2. j < i
    BY <1>2, <1>3, <1>4, <2>1
  <2>3. j < at
    BY <1>1, <1>3, <2>2
  <2> QED
    BY <2>1, <2>3 DEF Behind
<1>5. Behind \subseteq Members(plan)
  BY DEF Behind, Members
<1>6. W \notin Keyed
  BY DEF W, Keyed
<1>7. ASSUME NEW c \in Members(AllContainers)
      PROVE  /\ attached[c] = Joined(c) /\ attached[c] \subseteq networks
             /\ docker[c] = "absent" => attached[c] = {}
             /\ docker[c] # "absent" <=> c \in Subjects("create")
             /\ c # W => (docker[c] = "running" <=> c \in Subjects("start"))
             /\ networks = MadeNets /\ Subjects("health") \subseteq started
             /\ published = Subjects("provision")
  BY DEF StateFollowsCalls, ContainersFollowCalls
<1>8. ASSUME NEW c \in Members(AllContainers), Wanted(c, caps)
      PROVE  /\ docker[c] # "absent" /\ Home(c, caps) \subseteq attached[c]
             /\ c # W => docker[c] = "running" /\ c \in started
             /\ c \in Keyed => c \in published
  <2>1. PICK x \in Members(plan) : x.op = "create" /\ x.on = c
    BY <1>2, <1>8 DEF Brought
  <2>2. x \in Behind
    BY <1>4, <2>1 DEF BeforeLaunch
  <2>3. Fits(x, Members(plan), caps, given)
    <3>1. \A n : Network(n).op = "network"
      BY DEF Network
    <3> QED
      BY <2>1, <3>1, CallsFit
  <2>4. /\ x.net = Nets(c, caps)[1]
        /\ \A n \in Later(Nets(c, caps)) : Joining(c, n) \in Members(plan)
        /\ c # W => Starting(c) \subseteq Members(plan)
    BY <2>1, <2>3 DEF Fits
  <2>5. c \in Subjects("create")
    BY <2>1, <2>2 DEF Subjects
  <2>6. ASSUME NEW n \in Home(c, caps)
        PROVE  n \in Joined(c)
    <3>1. n = Nets(c, caps)[1] \/ n \in Later(Nets(c, caps))
      BY NetsAreNets DEF Home
    <3>2. n # Offline
      BY DEF Home
    <3>3. CASE n = Nets(c, caps)[1]
      BY <2>1, <2>2, <2>4, <3>2, <3>3 DEF Joined
    <3>4. CASE n \in Later(Nets(c, caps))
      <4>1. Joining(c, n) \in Behind
        BY <1>4, <2>4, <3>4 DEF BeforeLaunch, Joining
      <4> QED
        BY <3>2, <4>1 DEF Joined, Joining
    <3> QED
      BY <3>1, <3>3, <3>4
  <2>7. ASSUME c # W
        PROVE  c \in Subjects("start") /\ c \in Subjects("health")
    <3>1. Plain("start", c) \in Behind /\ Plain("health", c) \in Behind
      BY <1>4, <2>4, <2>7 DEF Starting, BeforeLaunch, Plain
    <3> QED
      BY <3>1 DEF Subjects, Plain
  <2>8. ASSUME c \in Keyed
        PROVE  c \in Subjects("provision")
    <3>1. Plain("provision", c) \in Members(plan)
      BY <1>2, <1>8, <2>8 DEF Brought
    <3>2. Plain("provision", c) \in Behind
      BY <1>4, <1>6, <2>8, <3>1 DEF BeforeLaunch, Plain
    <3> QED
      BY <3>2 DEF Subjects, Plain
  <2> QED
    BY <1>7, <2>5, <2>6, <2>7, <2>8
<1>9. ASSUME NEW c \in Members(AllContainers), ~Wanted(c, caps)
      PROVE  docker[c] = "absent" /\ attached[c] = {}
  <2>1. ASSUME NEW x \in Behind, x.op = "create", x.on = c
        PROVE  FALSE
    <3>1. \A n : Network(n).op = "network"
      BY DEF Network
    <3>2. Fits(x, Members(plan), caps, given)
      BY <1>5, <2>1, <3>1, CallsFit
    <3> QED
      BY <1>9, <2>1, <3>2 DEF Fits
  <2>2. c \notin Subjects("create")
    BY <2>1 DEF Subjects
  <2> QED
    BY <1>7, <2>2
<1>10. SandboxIsComplete
  <2>1. \A c \in Members(AllContainers) : attached[c] \subseteq Home(c, caps)
    BY AttachedAtHome
  <2> QED
    BY <1>8, <1>9, <2>1 DEF SandboxIsComplete
<1>11. MadeNets \subseteq Required(caps)
  <2> SUFFICES ASSUME NEW x \in Behind, x.op = "network" PROVE x.net \in Required(caps)
    BY DEF MadeNets
  <2>1. PICK n \in Required(caps) : x = Network(n)
    BY <1>5, CallsFit
  <2> QED
    BY <2>1 DEF Network
<1>12. \A c \in Members(AllContainers) : Wanted(c, caps) => Home(c, caps) \subseteq Required(caps)
  BY <1>7, <1>8, <1>11
<1>13. ~TableMissing
  <2> SUFFICES ASSUME NEW c \in Members(AllContainers) \ {W},
                      Wanted(c, caps), Refused(c, given)
               PROVE  FALSE
    BY MissingTables
  <2>1. Plain("refuse", c) \in Members(plan)
    BY <1>2 DEF Brought
  <2>2. Plain("refuse", c) \in Behind
    BY <1>4, <2>1 DEF BeforeLaunch, Plain
  <2> QED
    BY <2>2 DEF StateFollowsCalls, Subjects, Plain
<1> QED
  BY <1>10, <1>12, <1>13, HomesAreRequired

(* A workload is started in a complete sandbox or not at all.              *)
THEOREM LaunchedSandboxIsComplete == Spec => [](attachCli # "idle" => SandboxIsComplete)
<1>1. Lifecycle!TypeOK /\ ForCaps /\ StateFollowsCalls
        => (attachCli # "idle" => SandboxIsComplete)
  BY WhenLaunched
<1> QED
  BY <1>1, RunTypes, PlanIsKept, StateInvariance, PTL

(* As far as it lies in the specification, the set-up of a valid one fails *)
(* before the workload is started only for a network that nobody asked for *)
(* or a table that was not given, and when either is missing it never      *)
(* comes to the workload.                                                  *)
THEOREM SetUpSucceeds == Spec => []SetUpFailsOnlyForGapsInSpecification
<1> DEFINE Raised == outcome = "raised" /\ attachCli = "idle" => NetworkMissing \/ TableMissing
<1>1. Init => Raised
  BY DEF Init, Run!NothingCalled
<1>2. ASSUME Lifecycle!TypeOK, ForCaps, StateFollowsCalls, Raised, [Next]_vars
      PROVE  Raised'
  <2>1. CASE UNCHANGED vars
    BY <1>2, <2>1 DEF vars, NetworkMissing, TableMissing
  <2>2. CASE Run!Environment /\ UNCHANGED <<caps, given>>
    <3>1. UNCHANGED outcome /\ (attachCli' = "idle" <=> attachCli = "idle")
      BY <1>2, <2>2
      DEF StateFollowsCalls, Run!Environment, Run!AttachedStart, Run!AttachedStartFails,
          Run!AttachedEnds, Run!ContainerExits, Run!OtherRun, Run!control
    <3> QED
      BY <1>2, <2>2, <3>1 DEF NetworkMissing, TableMissing
  <2>3. CASE Run!SetUp /\ UNCHANGED <<caps, given>>
    <3>1. faults = 0 /\ foreign = {}
      BY <1>2 DEF StateFollowsCalls
    <3>2. pc = "setup" /\ NetworkMissing' = NetworkMissing /\ TableMissing' = TableMissing
      BY <1>2, <2>3, <3>1, SetUpGoesOn DEF NetworkMissing, TableMissing
    <3>3. CASE ~Run!CanSucceed /\ UNCHANGED attachCli
      BY <1>2, <3>2, <3>3, CallsSucceed
    <3>4. CASE at' = at + 1 /\ UNCHANGED outcome
      <4>1. attachCli' = "idle" => attachCli = "idle"
        BY <1>2, <2>3, <3>1, <3>4, CallEffect
      <4> QED
        BY <1>2, <3>2, <3>4, <4>1
    <3> QED
      BY <1>2, <2>3, <3>1, <3>3, <3>4, SetUpGoesOn
  <2> QED
    BY <1>2, <2>1, <2>2, <2>3 DEF Next, SetUpIsOver
<1>3. Lifecycle!TypeOK /\ ForCaps /\ StateFollowsCalls /\ Raised
        => SetUpFailsOnlyForGapsInSpecification
  BY WhenLaunched DEF SetUpFailsOnlyForGapsInSpecification
<1> QED
  BY <1>1, <1>2, <1>3, RunTypes, PlanIsKept, StateInvariance, PTL DEF Spec

(* Whoever is called when the workload is started is healthy and on a      *)
(* network of its caller.                                                  *)
THEOREM CalledServicesAreReachable == Spec => []ServicesAreReachable
<1> DEFINE Names == Members(AllContainers)
<1>0. /\ Members(FixedContainers) \subseteq Names /\ Members(LlmServers) \subseteq Names
      /\ \A c \in Members(LlmServers) : c \notin Members(FixedContainers)
  BY ContainerNames, ServerNames
<1>1. ASSUME NEW a, NEW b, <<a, b>> \in Calls
      PROVE  a \in Names /\ b \in Names /\ b # W
  <2> DEFINE Callees == (Members(FixedContainers) \ {"metisa_workload"}) \cup Members(LlmServers)
  <2>1. /\ WorkloadCalls \subseteq Callees /\ McpServerCalls \subseteq Callees
        /\ LlmBrokerCalls \subseteq Callees /\ DoclingCalls \subseteq Callees
        /\ EmbeddingsCalls \subseteq Callees /\ AgentMemoryCalls \subseteq Callees
    BY FixedNames
    DEF WorkloadCalls, McpServerCalls, LlmBrokerCalls, DoclingCalls, EmbeddingsCalls,
        AgentMemoryCalls
  <2>2. {"metisa_workload", "mcp_server", "llm_broker", "docling", "embeddings", "agent_memory"}
          \subseteq Members(FixedContainers)
    BY FixedNames
  <2>3. b \in Callees /\ a \in Members(FixedContainers)
    <3> HIDE DEF Callees
    <3> QED
      BY <1>1, <2>1, <2>2 DEF Calls
  <2>4. "metisa_workload" \in Members(FixedContainers)
    BY FixedNames
  <2> HIDE DEF Names
  <2> QED
    BY <1>0, <2>3, <2>4 DEF W
<1>2. ASSUME ForCaps, ~NetworkMissing, NEW a, NEW b, <<a, b>> \in Calls,
             Wanted(a, caps), Wanted(b, caps)
      PROVE  Home(a, caps) \cap Home(b, caps) # {}
  <2> HIDE DEF Names
  <2>0. W = "metisa_workload"
    BY DEF W
  <2>1. ASSUME NEW c \in { "prompt_guard", "entity_guard", "jina_reader", "documents",
                           "docling", "embeddings", "code_execution", "qdrant", "postgres" }
        PROVE  Home(c, caps) = {"backend"}
    <3>1. c \notin FrontServices
      BY DEF FrontServices
    <3> QED
      BY <1>0, <2>0, <3>1, FixedNames, Homes
  <2>2. ASSUME NEW c \in Members(LlmServers)
        PROVE  Home(c, caps) = {"backend"}
    <3>1. c \notin FrontServices
      BY <1>0, FixedNames DEF FrontServices
    <3> QED
      BY <1>0, <2>0, <3>1, FixedNames, Homes
  <2>3. ASSUME NEW c \in WorkloadCalls
        PROVE  Home(c, caps) = {"workload", "backend"}
    BY <1>0, <2>0, FixedNames, Homes DEF WorkloadCalls
  <2>4. CASE a = W /\ b \in WorkloadCalls
    <3>1. Wanted(b, caps) <=> b \in caps
      BY <1>0, <2>4, FixedNames DEF Wanted, W, WorkloadCalls
    <3>2. WorkloadNetworkRequired(caps)
      BY <1>2, <2>4, <3>1
      DEF WorkloadCalls, ForCaps, ValidSpecification, ValidMcpServer, ValidLlmBroker, Needs,
          NetworkMissing, WorkloadNetworkRequired
    <3> QED
      BY <1>0, <2>0, <2>3, <2>4, <3>2, FixedNames, Homes
  <2>5. CASE a = "mcp_server" /\ b \in McpServerCalls \ {"haproxy"}
    BY <2>1, <2>3, <2>5 DEF McpServerCalls, WorkloadCalls
  <2>6. CASE a = "mcp_server" /\ b = "haproxy"
    <3>1. BackendNetworkRequired(caps)
      BY <1>2, <2>6, <1>0, FixedNames DEF Wanted, W, BackendNetworkRequired
    <3>2. "backend" \in Home("haproxy", caps)
      BY <3>1, Homes
    <3> QED
      BY <1>0, <2>0, <2>3, <2>6, <3>2, FixedNames DEF WorkloadCalls
  <2>7. CASE a = "llm_broker" /\ b \in LlmBrokerCalls \ {"squid_proxy"}
    BY <2>1, <2>2, <2>3, <2>7 DEF LlmBrokerCalls, WorkloadCalls
  <2>8. CASE a = "llm_broker" /\ b = "squid_proxy"
    <3>1. BackendNetworkRequired(caps)
      BY <1>2, <2>8, <1>0, FixedNames DEF Wanted, W, BackendNetworkRequired
    <3>2. "backend" \in Home("squid_proxy", caps)
      BY <3>1, Homes
    <3> QED
      BY <1>0, <2>0, <2>3, <2>8, <3>2, FixedNames DEF WorkloadCalls
  <2>9. CASE \/ a = "docling" /\ b \in DoclingCalls
             \/ a = "embeddings" /\ b \in EmbeddingsCalls
             \/ a = "agent_memory" /\ b \in AgentMemoryCalls
    BY <2>1, <2>3, <2>9 DEF DoclingCalls, EmbeddingsCalls, AgentMemoryCalls, WorkloadCalls
  <2> QED
    BY <1>2, <2>0, <2>4, <2>5, <2>6, <2>7, <2>8, <2>9 DEF Calls
<1>3. Lifecycle!TypeOK /\ ForCaps /\ StateFollowsCalls => ServicesAreReachable
  <2> SUFFICES ASSUME Lifecycle!TypeOK, ForCaps, StateFollowsCalls, attachCli = "pending",
                      NEW call \in Calls, docker[call[1]] # "absent", docker[call[2]] # "absent"
               PROVE  SharesNetwork(call[1], call[2]) /\ call[2] \in started
    BY DEF ServicesAreReachable
  <2>1. PICK a, b : call = <<a, b>>
    BY DEF Calls
  <2>2. SandboxIsComplete /\ ~NetworkMissing
    BY WhenLaunched
  <2>3. a \in Names /\ b \in Names
    BY <1>1, <2>1
  <2>4. Wanted(a, caps) /\ Wanted(b, caps)
    BY <2>1, <2>2, <2>3 DEF SandboxIsComplete
  <2>5. b # W /\ Home(a, caps) \cap Home(b, caps) # {}
    BY <1>1, <1>2, <2>1, <2>2, <2>4
  <2> QED
    BY <2>1, <2>2, <2>3, <2>4, <2>5 DEF SandboxIsComplete, SharesNetwork
<1> QED
  BY <1>3, RunTypes, PlanIsKept, StateInvariance, PTL

-----------------------------------------------------------------------------
(* The probes.                                                             *)

(* A probed sandbox is a sandbox set up by SandboxRun: probes only look.   *)
THEOREM ProbesOnlyLook == ProbedSpec => Spec
<1>1. ProbedInit => Init
  BY DEF ProbedInit
<1>2. [ProbedNext]_<<vars, probeVars>> => [Next]_vars
  BY DEF ProbedNext, LoadSpecification, RunGroup, ExecuteWorkload
<1> QED
  BY <1>1, <1>2, PTL DEF ProbedSpec, Spec

(* Once the workload has its key the calls are over, and the workload has  *)
(* been started.                                                           *)
LEMMA KeyComesLast ==
  ASSUME Lifecycle!TypeOK, ForCaps, StateFollowsCalls, W \in published
  PROVE  pc # "setup" /\ attachCli # "idle"
<1>1. /\ plan \in Seq(Call) /\ at \in Nat /\ DOMAIN plan \subseteq Nat
      /\ pc = "setup" => at \in DOMAIN plan /\ at \in 1..Len(plan)
  BY LifecycleConstants, LenProperties DEF Lifecycle!TypeOK, Lifecycle!PlansAssumption, Call
<1>2. /\ Plain("attach", W) \in Members(plan)
      /\ \A i, j \in DOMAIN plan : plan[i].op = "attach" => (j < i <=> BeforeLaunch(plan[j]))
      /\ Len(plan) \in DOMAIN plan /\ plan[Len(plan)] = Plain("provision", W)
      /\ Front(plan, Members(AllContainers), caps, given)
  BY PlanShape DEF ForCaps
<1>3. PICK k \in DOMAIN plan : k < at /\ plan[k].op = "provision" /\ plan[k].on = W
  BY DEF StateFollowsCalls, Subjects, Behind
<1>4. plan[k] \in Call /\ plan[k] \in Members(plan)
  BY <1>1 DEF Members
<1>5. plan[k] = Plain("provision", W)
  <2>1. plan[k].op # "network"
    BY <1>3
  <2>2. \A n : Network(n).op = "network"
    BY DEF Network
  <2>3. Fits(plan[k], Members(plan), caps, given)
    BY <1>4, <2>1, <2>2, CallsFit
  <2>4. plan[k].net = Offline
    BY <1>3, <2>3 DEF Fits
  <2>5. Plain("provision", W) \in Call
    BY <1>2, <1>1
  <2> QED
    BY <1>3, <1>4, <2>4, <2>5, SameCall DEF Plain
<1>6. k = Len(plan)
  BY <1>2, <1>5 DEF Front, Once
<1>7. pc # "setup"
  BY <1>1, <1>3, <1>6
<1>8. PICK i \in DOMAIN plan : plan[i] = Plain("attach", W)
  BY <1>2 DEF Members
<1>9. plan[i].op = "attach" /\ plan[i].on = W
  BY <1>8 DEF Plain
<1>10. ~BeforeLaunch(plan[k])
  BY <1>3 DEF BeforeLaunch
<1>11. i \in 1..Len(plan)
  BY <1>1, LenProperties
<1>12. i < at
  BY <1>1, <1>3, <1>6, <1>11
<1>13. W \in Subjects("attach")
  BY <1>9, <1>12 DEF Subjects, Behind
<1> QED
  BY <1>7, <1>13 DEF StateFollowsCalls, ClientFollowsCalls

(* What the probes found is still the case: after the key is provisioned   *)
(* nothing changes but the state of the workload itself.                   *)
LEMMA KeyedSandboxIsStable ==
  ASSUME Lifecycle!TypeOK, ForCaps, StateFollowsCalls, W \in published, [Next]_vars
  PROVE  /\ UNCHANGED <<caps, attached, started, published>>
         /\ \A c \in Members(AllContainers) \ {W} : docker'[c] = docker[c]
<1>1. pc # "setup"
  BY KeyComesLast
<1>2. ~Run!SetUp
  BY <1>1, SetUpGoesOn DEF StateFollowsCalls
<1>3. CASE UNCHANGED vars
  BY <1>3 DEF vars
<1>4. CASE Run!Environment /\ UNCHANGED <<caps, given>>
  BY <1>4
  DEF Lifecycle!TypeOK, W, Run!Environment, Run!AttachedStart, Run!AttachedStartFails,
      Run!AttachedEnds, Run!ContainerExits, Run!OtherRun, Run!bookkeeping
<1> QED
  BY <1>2, <1>3, <1>4 DEF Next, SetUpIsOver

(* A probe group looks at nothing else.                                    *)
LEMMA PassIsStable ==
  ASSUME UNCHANGED <<caps, attached, started, published, tables, answers, slip>>,
         \A c \in { "squid_proxy", "haproxy", "otel_collector", "mcp_server", "llm_broker" } :
           docker'[c] = docker[c],
         NEW g \in Group
  PROVE  Pass(g)' <=> Pass(g)
<1> USE DEF Has, DirectInternet, DirectLocalnet
<1>1. /\ \A c : Wired(c)' = Wired(c)
      /\ \A a, b : SharedAliases(a, b)' = SharedAliases(a, b)
  BY DEF Wired, SharedAliases
<1>2. \A c \in { "squid_proxy", "haproxy", "otel_collector", "mcp_server", "llm_broker" } :
        Resolves(c)' <=> Resolves(c)
  BY <1>1 DEF Resolves
<1>3. HasProxy' <=> HasProxy
  BY DEF HasProxy, PlannedProxy
<1>4. \A site : Fetch(site)' = Fetch(site)
  BY <1>1, <1>2, <1>3 DEF Fetch
<1>5. NetworkProbesPass' <=> NetworkProbesPass
  <2>1. /\ OwnAliasResolves' <=> OwnAliasResolves
        /\ DockerDnsWorks' <=> DockerDnsWorks
        /\ OnlyLoopbackExists' <=> OnlyLoopbackExists
        /\ OnlyDockerDnsListens' <=> OnlyDockerDnsListens
        /\ NoDefaultRoute' <=> NoDefaultRoute
    BY <1>1
    DEF OwnAliasResolves, DockerDnsWorks, OnlyLoopbackExists, OnlyDockerDnsListens, NoDefaultRoute
  <2>2. /\ ProxyConfigurationIsAbsent' <=> ProxyConfigurationIsAbsent
        /\ ProxyConfigurationExists' <=> ProxyConfigurationExists
    BY <1>3 DEF ProxyConfigurationIsAbsent, ProxyConfigurationExists
  <2>3. /\ ExternalIsBlocked' <=> ExternalIsBlocked
        /\ ExternalIsAllowed' <=> ExternalIsAllowed
        /\ DisallowedIsDenied' <=> DisallowedIsDenied
    BY <1>4 DEF ExternalIsBlocked, ExternalIsAllowed, DisallowedIsDenied
  <2>4. /\ HaproxyAliasResolves' <=> HaproxyAliasResolves
        /\ HaproxyAliasIsAbsent' <=> HaproxyAliasIsAbsent
        /\ HaproxyListenersAreReachable' <=> HaproxyListenersAreReachable
        /\ HaproxyListenersAreUnavailable' <=> HaproxyListenersAreUnavailable
        /\ UndeclaredPortIsRefused' <=> UndeclaredPortIsRefused
        /\ HealthEndpointIsPrivate' <=> HealthEndpointIsPrivate
    BY <1>2
    DEF HaproxyAliasResolves, HaproxyAliasIsAbsent, HaproxyListenersAreReachable,
        HaproxyListenersAreUnavailable, UndeclaredPortIsRefused, HealthEndpointIsPrivate
  <2>5. /\ CollectorIsReachable' <=> CollectorIsReachable
        /\ CollectorIsAbsent' <=> CollectorIsAbsent
    BY <1>2 DEF CollectorIsReachable, CollectorIsAbsent
  <2> QED
    BY <2>1, <2>2, <2>3, <2>4, <2>5 DEF NetworkProbesPass
<1>6. McpProbesPass' <=> McpProbesPass
  <2>1. /\ McpServerAnswers' <=> McpServerAnswers
        /\ \A c : McpServerReaches(c)' <=> McpServerReaches(c)
        /\ OfferedTools' = OfferedTools /\ OfferedResources' = OfferedResources
    BY <1>1, <1>2 DEF McpServerAnswers, McpServerReaches, OfferedTools, OfferedResources
  <2>2. /\ McpAliasResolves' <=> McpAliasResolves
        /\ CredentialsAreRequired' <=> CredentialsAreRequired
        /\ Greeting1Works' <=> Greeting1Works
        /\ GreetingsMatchDeclaration' <=> GreetingsMatchDeclaration
        /\ ResourcesMatchDeclaration' <=> ResourcesMatchDeclaration
    BY <1>2, <2>1
    DEF McpAliasResolves, CredentialsAreRequired, Greeting1Works, GreetingsMatchDeclaration,
        ResourcesMatchDeclaration
  <2>3. /\ ScreeningWorks' <=> ScreeningWorks
        /\ ReadContentWorks' <=> ReadContentWorks
        /\ ClassificationWorks' <=> ClassificationWorks
        /\ ModerationWorks' <=> ModerationWorks
        /\ AnonymizationWorks' <=> AnonymizationWorks
        /\ StarlarkWorks' <=> StarlarkWorks
    BY <1>1, <2>1
    DEF ScreeningWorks, ReadContentWorks, ClassificationWorks, ModerationWorks,
        AnonymizationWorks, StarlarkWorks
  <2> QED
    BY <2>2, <2>3 DEF McpProbesPass
<1>7. LlmProbesPass' <=> LlmProbesPass
  <2>1. \A m : LocalServerIsReady(m)' <=> LocalServerIsReady(m)
    BY <1>1 DEF LocalServerIsReady
  <2> QED
    BY <1>2, <2>1 DEF LlmProbesPass, BrokerAliasResolves, LlmServersAreReady, LlmModelsAreAvailable
<1> QED
  BY <1>5, <1>6, <1>7 DEF Group, Pass

(* A verdict is never out of date, and stands for what its group looks at. *)
VerdictsStand ==
  /\ verdict \in [Group -> {"pending", "passed", "failed"}]
  /\ runner \in {"waiting", "probing", "workload"}
  /\ runner = "waiting" => \A g \in Group : Pending(g)
  /\ runner = "workload" => ProbesPassed
  /\ runner # "waiting" => W \in published
  /\ \A g \in Group : ~Pending(g) => (verdict[g] = "passed" <=> Pass(g))

LEMMA VerdictInvariance == ProbedSpec => []VerdictsStand
<1>1. ProbedInit => VerdictsStand
  BY DEF ProbedInit, VerdictsStand, Pending
<1>2. ASSUME Lifecycle!TypeOK, ForCaps, StateFollowsCalls, VerdictsStand,
             [ProbedNext]_<<vars, probeVars>>
      PROVE  VerdictsStand'
  <2>1. CASE UNCHANGED probeVars /\ [Next]_vars
    <3>1. UNCHANGED <<verdict, runner, tables, answers, slip>>
      BY <2>1 DEF probeVars
    <3>2. CASE W \in published
      <4>1. /\ UNCHANGED <<caps, attached, started, published>>
            /\ \A c \in Members(AllContainers) \ {W} : docker'[c] = docker[c]
        BY <1>2, <2>1, <3>2, KeyedSandboxIsStable
      <4>2. \A c \in { "squid_proxy", "haproxy", "otel_collector", "mcp_server", "llm_broker" } :
              c \in Members(AllContainers) \ {W}
        BY ContainerNames, FixedNames DEF W
      <4>3. \A g \in Group : Pass(g)' <=> Pass(g)
        BY <3>1, <4>1, <4>2, PassIsStable
      <4>4. /\ \A g \in Group : Pending(g)' <=> Pending(g)
            /\ ProbesPassed' <=> ProbesPassed
        BY <3>1 DEF Pending, ProbesPassed
      <4> QED
        BY <1>2, <3>1, <4>1, <4>3, <4>4 DEF VerdictsStand
    <3>3. CASE W \notin published
      <4>1. runner = "waiting"
        BY <1>2, <3>3 DEF VerdictsStand
      <4>2. runner' = "waiting" /\ \A g \in Group : Pending(g)'
        BY <1>2, <3>1, <4>1 DEF VerdictsStand, Pending
      <4> QED
        BY <1>2, <3>1, <4>2 DEF VerdictsStand
    <3> QED
      BY <3>2, <3>3
  <2>2. CASE LoadSpecification
    <3>1. /\ runner = "waiting" /\ runner' = "probing" /\ W \in published
          /\ UNCHANGED <<published, verdict>>
      BY <2>2 DEF LoadSpecification, ProbesRun, vars
    <3>2. \A g \in Group : Pending(g)'
      BY <1>2, <3>1 DEF VerdictsStand, Pending
    <3> QED
      BY <1>2, <3>1, <3>2 DEF VerdictsStand
  <2>3. ASSUME NEW h \in Group, RunGroup(h)
        PROVE  VerdictsStand'
    <3>1. /\ runner = "probing" /\ runner' = "probing" /\ W \in published
          /\ Pending(h)
          /\ UNCHANGED << caps, attached, started, published, docker, tables, answers, slip >>
          /\ verdict' = [verdict EXCEPT ![h] = IF Pass(h) THEN "passed" ELSE "failed"]
      BY <2>3 DEF RunGroup, ProbesRun, vars
    <3>2. \A g \in Group : Pass(g)' <=> Pass(g)
      BY <3>1, PassIsStable
    <3>3. /\ verdict'[h] = IF Pass(h) THEN "passed" ELSE "failed"
          /\ \A g \in Group \ {h} : verdict'[g] = verdict[g]
          /\ verdict' \in [Group -> {"pending", "passed", "failed"}]
      BY <1>2, <3>1 DEF VerdictsStand
    <3>4. \A g \in Group : ~Pending(g)' => (verdict'[g] = "passed" <=> Pass(g)')
      BY <1>2, <3>2, <3>3 DEF VerdictsStand, Pending
    <3> QED
      BY <3>1, <3>3, <3>4 DEF VerdictsStand
  <2>4. CASE ExecuteWorkload
    <3>1. /\ runner = "probing" /\ runner' = "workload" /\ W \in published /\ ProbesPassed
          /\ UNCHANGED << caps, attached, started, published, docker, tables, answers, slip,
                          verdict >>
      BY <2>4 DEF ExecuteWorkload, ProbesRun, vars
    <3>2. \A g \in Group : Pass(g)' <=> Pass(g)
      BY <3>1, PassIsStable
    <3>3. ProbesPassed' /\ \A g \in Group : Pending(g)' <=> Pending(g)
      BY <3>1 DEF ProbesPassed, Pending
    <3> QED
      BY <1>2, <3>1, <3>2, <3>3 DEF VerdictsStand
  <2> QED
    BY <1>2, <2>1, <2>2, <2>3, <2>4 DEF ProbedNext
<1> QED
  BY <1>1, <1>2, ProbesOnlyLook, RunTypes, PlanIsKept, StateInvariance, PTL DEF ProbedSpec

(* A workload that the probes let run has the network access its           *)
(* specification declares, however its sandbox differs from the plan.      *)
THEOREM ProbesEnforceDeclaration == ProbedSpec => []WorkloadRunsAsDeclared
<1>1. Lifecycle!TypeOK /\ ForCaps /\ StateFollowsCalls /\ VerdictsStand
        => WorkloadRunsAsDeclared
  <2> SUFFICES ASSUME Lifecycle!TypeOK, ForCaps, StateFollowsCalls, VerdictsStand,
                      runner = "workload"
               PROVE  /\ "egress" \notin Wired(W)
                      /\ Has("network") <=> Wired(W) # {}
                      /\ DirectLocalnet <=> Resolves("haproxy")
                      /\ Has("otel_collector") <=> Resolves("otel_collector")
                      /\ DirectInternet <=> Fetch("example.com") = "ok"
    BY DEF WorkloadRunsAsDeclared
  <2>1. "network" \in Group /\ verdict["network"] = "passed" /\ W \in published
    BY DEF VerdictsStand, ProbesPassed, Group
  <2>2. NetworkProbesPass
    BY <2>1 DEF VerdictsStand, Pending, Pass
  <2>3. ~NetworkMissing
    BY <2>1, KeyComesLast, WhenLaunched
  <2>4. /\ Has("otel_collector") => Has("network")
        /\ DirectLocalnet => Has("network")
        /\ DirectInternet => Has("network")
    BY <2>3
    DEF NetworkMissing, WorkloadNetworkRequired, Has, DirectLocalnet, DirectInternet, ForCaps,
        ValidSpecification, ValidSquidProxy, ValidHaproxy, Needs
  <2>5. ~Has("network") => Wired(W) = {} /\ \A c : ~Resolves(c)
    BY <2>2 DEF NetworkProbesPass, OnlyLoopbackExists, Resolves, SharedAliases
  <2>6. "egress" \notin Wired(W) /\ (Has("network") <=> Wired(W) # {})
    BY <2>2, <2>5 DEF NetworkProbesPass, NoDefaultRoute, OwnAliasResolves
  <2>7. DirectLocalnet <=> Resolves("haproxy")
    BY <2>2, <2>4, <2>5 DEF NetworkProbesPass, HaproxyAliasResolves, HaproxyAliasIsAbsent
  <2>8. Has("otel_collector") <=> Resolves("otel_collector")
    BY <2>2, <2>4, <2>5 DEF NetworkProbesPass, CollectorIsReachable, CollectorIsAbsent
  <2>9. DirectInternet <=> Fetch("example.com") = "ok"
    BY <2>2 DEF NetworkProbesPass, ExternalIsBlocked, ExternalIsAllowed
  <2> QED
    BY <2>6, <2>7, <2>8, <2>9
<1> QED
  BY <1>1, ProbesOnlyLook, RunTypes, PlanIsKept, StateInvariance, VerdictInvariance, PTL

(* What the workload reaches in a complete sandbox as planned.             *)
CompleteAsPlanned ==
  ForCaps /\ SandboxIsComplete /\ ~NetworkMissing /\ AsPlanned /\ W \in published

LEMMA WiredAsPlanned ==
  ASSUME CompleteAsPlanned
  PROVE  /\ \A c \in Members(AllContainers) :
              Wired(c) = IF Wanted(c, caps) THEN Home(c, caps) ELSE {}
         /\ Wired(W) = IF Has("network") THEN {"workload"} ELSE {}
         /\ slip.on # "proxy_environment"
<1>1. slip.on = "nothing"
  BY DEF CompleteAsPlanned, AsPlanned, NoSlip
<1>2. \A c \in Members(AllContainers) : c # slip.on
  BY <1>1, SlipAssumption
<1>3. W \in Members(AllContainers) /\ Wanted(W, caps)
  <2>1. W \in Members(AllContainers)
    BY ContainerNames, FixedNames DEF W
  <2>2. Wanted(W, caps)
    BY ServerNames, FixedNames DEF Wanted, W
  <2> QED
    BY <2>1, <2>2
<1>4. \A c \in Members(AllContainers) :
        Wired(c) = IF Wanted(c, caps) THEN Home(c, caps) ELSE {}
  BY <1>2 DEF Wired, CompleteAsPlanned, SandboxIsComplete
<1> QED
  BY <1>1, <1>3, <1>4, Homes DEF Has, WorkloadNetworkRequired

LEMMA ResolvedAsPlanned ==
  ASSUME CompleteAsPlanned
  PROVE  /\ Resolves("squid_proxy") <=> DirectInternet
         /\ Resolves("haproxy") <=> Has("localnet") /\ ~BackendNetworkRequired(caps)
         /\ Resolves("otel_collector") <=> Has("otel_collector")
         /\ Resolves("mcp_server") <=> Has("mcp_server")
         /\ Resolves("llm_broker") <=> Has("llm_broker")
         /\ HasProxy <=> DirectInternet
<1> DEFINE Named == {"squid_proxy", "haproxy", "otel_collector", "mcp_server", "llm_broker"}
<1>1. \A c \in Named : c \in Members(AllContainers) /\ c # W
  BY ContainerNames, FixedNames DEF W
<1>2. /\ Wanted("squid_proxy", caps) <=> Has("internet")
      /\ Wanted("haproxy", caps) <=> Has("localnet")
      /\ Wanted("otel_collector", caps) <=> Has("otel_collector")
      /\ Wanted("mcp_server", caps) <=> Has("mcp_server")
      /\ Wanted("llm_broker", caps) <=> Has("llm_broker")
  BY ServerNames, FixedNames DEF Wanted, W, Has
<1>3. /\ Has("internet") \/ Has("localnet") \/ Has("mcp_server") \/ Has("llm_broker")
           \/ Has("otel_collector") => Has("network")
  BY DEF CompleteAsPlanned, NetworkMissing, WorkloadNetworkRequired, Has, ForCaps,
         ValidSpecification, ValidSquidProxy, ValidHaproxy, ValidMcpServer, ValidLlmBroker, Needs
<1>4. ASSUME NEW c \in Named
      PROVE  Resolves(c) <=> /\ Wanted(c, caps) /\ Has("network")
                             /\ "workload" \in Home(c, caps)
  <2>1. docker[c] = "running" <=> Wanted(c, caps)
    BY <1>1 DEF CompleteAsPlanned, SandboxIsComplete
  <2>2. Wired(c) = IF Wanted(c, caps) THEN Home(c, caps) ELSE {}
    BY <1>1, WiredAsPlanned
  <2>3. Wired(W) = IF Has("network") THEN {"workload"} ELSE {}
    BY WiredAsPlanned
  <2> HIDE DEF Named
  <2> QED
    BY <2>1, <2>2, <2>3 DEF Resolves, SharedAliases
<1>5. /\ "workload" \in Home("squid_proxy", caps) <=>
           WorkloadNeedsSquidProxy(caps) \/ ~BackendNetworkRequired(caps)
      /\ "workload" \in Home("haproxy", caps) <=> ~BackendNetworkRequired(caps)
      /\ \A c \in {"otel_collector", "mcp_server", "llm_broker"} : "workload" \in Home(c, caps)
  BY Homes
<1>6. Resolves("squid_proxy") <=> DirectInternet
  BY <1>2, <1>3, <1>4, <1>5
  DEF DirectInternet, WorkloadNeedsSquidProxy, BackendNetworkRequired, Has
<1>7. HasProxy <=> DirectInternet
  <2>1. slip.on # "proxy_environment"
    BY WiredAsPlanned
  <2>2. PlannedProxy <=> DirectInternet
    BY <1>3 DEF PlannedProxy, DirectInternet, WorkloadNeedsSquidProxy, WorkloadNetworkRequired, Has
  <2>3. PlannedProxy \in BOOLEAN
    BY DEF PlannedProxy, WorkloadNetworkRequired, WorkloadNeedsSquidProxy
  <2> QED
    BY <2>1, <2>2, <2>3 DEF HasProxy
<1> QED
  BY <1>2, <1>3, <1>4, <1>5, <1>6, <1>7

LEMMA NetworkProbesAsPlanned ==
  ASSUME CompleteAsPlanned
  PROVE  NetworkProbesPass <=>
           /\ ~(DirectLocalnet /\ BackendNetworkRequired(caps))
           /\ ~(DirectLocalnet /\ HealthPort \in tables.ports)
           /\ ~(DirectInternet /\ "example.com" \notin tables.allowed)
           /\ ~(DirectInternet /\ "example.invalid" \in tables.allowed)
<1>1. /\ Resolves("squid_proxy") <=> DirectInternet
      /\ Resolves("haproxy") <=> Has("localnet") /\ ~BackendNetworkRequired(caps)
      /\ Resolves("otel_collector") <=> Has("otel_collector")
      /\ HasProxy <=> DirectInternet
  BY ResolvedAsPlanned
<1>2. Wired(W) = IF Has("network") THEN {"workload"} ELSE {}
  BY WiredAsPlanned
<1>3. /\ Has("mcp_server") => BackendNetworkRequired(caps)
      /\ DirectLocalnet <=> Has("localnet") /\ ~Has("mcp_server")
  BY DEF Has, BackendNetworkRequired, DirectLocalnet
<1>4. answers = TRUE
  BY DEF CompleteAsPlanned, AsPlanned
<1>5. /\ OwnAliasResolves /\ DockerDnsWorks /\ OnlyLoopbackExists /\ OnlyDockerDnsListens
      /\ NoDefaultRoute
  BY <1>2
  DEF OwnAliasResolves, DockerDnsWorks, OnlyLoopbackExists, OnlyDockerDnsListens, NoDefaultRoute,
      Has
<1>6. ProxyConfigurationIsAbsent /\ ProxyConfigurationExists
  BY <1>1 DEF ProxyConfigurationIsAbsent, ProxyConfigurationExists
<1>7. ExternalIsBlocked
  BY <1>1, <1>2 DEF ExternalIsBlocked, Fetch
<1>8. DirectInternet => "egress" \in Wired("squid_proxy")
  <2>1. Wanted("squid_proxy", caps) <=> "internet" \in caps
    BY ServerNames, FixedNames DEF Wanted, W
  <2>2. "squid_proxy" \in Members(AllContainers)
    BY ContainerNames, FixedNames
  <2> QED
    BY <2>1, <2>2, WiredAsPlanned, Homes DEF DirectInternet, Has
<1>9. ExternalIsAllowed <=> ~(DirectInternet /\ "example.com" \notin tables.allowed)
  <2>1. CASE DirectInternet
    <3>1. HasProxy /\ Resolves("squid_proxy") /\ "egress" \in Wired("squid_proxy")
      BY <1>1, <1>8, <2>1
    <3>2. CASE "example.com" \in tables.allowed
      <4>1. Fetch("example.com") = "ok"
        BY <1>4, <3>1, <3>2 DEF Fetch
      <4> QED
        BY <3>2, <4>1 DEF ExternalIsAllowed
    <3>3. CASE "example.com" \notin tables.allowed
      <4>1. Fetch("example.com") = "denied"
        BY <3>1, <3>3 DEF Fetch
      <4> QED
        BY <2>1, <3>3, <4>1 DEF ExternalIsAllowed
    <3> QED
      BY <3>2, <3>3
  <2>2. CASE ~DirectInternet
    BY <2>2 DEF ExternalIsAllowed
  <2> QED
    BY <2>1, <2>2
<1>10. DisallowedIsDenied <=> ~(DirectInternet /\ "example.invalid" \in tables.allowed)
  <2>1. CASE DirectInternet
    <3>1. HasProxy /\ Resolves("squid_proxy")
      BY <1>1, <2>1
    <3>2. CASE "example.invalid" \in tables.allowed
      <4>1. Fetch("example.invalid") = "error"
        BY <3>1, <3>2 DEF Fetch
      <4> QED
        BY <2>1, <3>2, <4>1 DEF DisallowedIsDenied
    <3>3. CASE "example.invalid" \notin tables.allowed
      <4>1. Fetch("example.invalid") = "denied"
        BY <3>1, <3>3 DEF Fetch
      <4> QED
        BY <3>3, <4>1 DEF DisallowedIsDenied
    <3> QED
      BY <3>2, <3>3
  <2>2. CASE ~DirectInternet
    BY <2>2 DEF DisallowedIsDenied
  <2> QED
    BY <2>1, <2>2
<1>11. HaproxyAliasResolves <=> ~(DirectLocalnet /\ BackendNetworkRequired(caps))
  BY <1>1, <1>3 DEF HaproxyAliasResolves
<1>12. /\ HaproxyAliasIsAbsent /\ HaproxyListenersAreUnavailable
       /\ CollectorIsReachable /\ CollectorIsAbsent
  BY <1>1, <1>3
  DEF HaproxyAliasIsAbsent, HaproxyListenersAreUnavailable, CollectorIsReachable, CollectorIsAbsent
<1>13. HaproxyAliasResolves =>
         /\ HaproxyListenersAreReachable /\ UndeclaredPortIsRefused
         /\ HealthEndpointIsPrivate <=> ~(DirectLocalnet /\ HealthPort \in tables.ports)
  BY DEF HaproxyAliasResolves, HaproxyListenersAreReachable, UndeclaredPortIsRefused,
         HealthEndpointIsPrivate
<1> QED
  BY <1>5, <1>6, <1>7, <1>9, <1>10, <1>11, <1>12, <1>13 DEF NetworkProbesPass

LEMMA McpProbesAsPlanned ==
  ASSUME CompleteAsPlanned
  PROVE  McpProbesPass <=>
           /\ ~(Has("jina_reader") /\ "example.com" \notin tables.allowed)
           /\ ~(Has("jina_reader") /\ "read_content_from_url" \notin tables.tools)
<1>1. CASE ~Has("mcp_server")
  <2>1. ~Has("jina_reader")
    BY <1>1
    DEF Has, CompleteAsPlanned, ForCaps, ValidSpecification, ValidJinaReader, Needs
  <2> QED
    BY <1>1, <2>1 DEF McpProbesPass
<1>2. CASE Has("mcp_server")
  <2> DEFINE Inner == {"prompt_guard", "entity_guard", "jina_reader", "code_execution"}
  <2>0. /\ GuardsRequired(caps) /\ BackendNetworkRequired(caps)
        /\ Has("jina_reader") => Has("internet")
    BY <1>2
    DEF Has, GuardsRequired, BackendNetworkRequired, CompleteAsPlanned, ForCaps,
        ValidSpecification, ValidJinaReader, Needs
  <2>1. /\ \A c \in {"prompt_guard", "entity_guard"} : Wanted(c, caps)
        /\ Wanted("jina_reader", caps) <=> Has("jina_reader")
        /\ Wanted("code_execution", caps) <=> Has("code_execution")
        /\ Wanted("mcp_server", caps)
        /\ Wanted("squid_proxy", caps) <=> Has("internet")
    BY <1>2, <2>0, ServerNames, FixedNames DEF Wanted, W, Has
  <2>2. ASSUME NEW c \in Inner
        PROVE  c \in Members(AllContainers) /\ c # W /\ Home(c, caps) = {"backend"}
    <3>1. c \notin FrontServices
      BY DEF FrontServices
    <3> QED
      BY <3>1, ContainerNames, FixedNames, Homes DEF W
  <2>3. {"mcp_server", "squid_proxy"} \subseteq Members(AllContainers) \ {W}
    BY ContainerNames, FixedNames DEF W
  <2>4. Wired("mcp_server") = {"workload", "backend"}
    BY <2>1, <2>3, WiredAsPlanned, Homes
  <2>5. answers = TRUE
    BY DEF CompleteAsPlanned, AsPlanned
  <2>6. ASSUME NEW c \in Inner, Wanted(c, caps)
        PROVE  Wired(c) = {"backend"} /\ McpServerReaches(c)
    <3>1. Wired(c) = {"backend"}
      BY <2>2, <2>6, WiredAsPlanned
    <3>2. c \in started
      BY <2>2, <2>6 DEF CompleteAsPlanned, SandboxIsComplete
    <3> QED
      BY <2>4, <2>5, <3>1, <3>2 DEF McpServerReaches, SharedAliases
  <2>7. McpServerAnswers /\ McpAliasResolves
    <3>1. "mcp_server" \in published
      BY <2>1, <2>3 DEF CompleteAsPlanned, SandboxIsComplete, Keyed
    <3> QED
      BY <1>2, <2>5, <3>1, ResolvedAsPlanned
      DEF CompleteAsPlanned, McpServerAnswers, McpAliasResolves
  <2>8. /\ CredentialsAreRequired /\ Greeting1Works
        /\ GreetingsMatchDeclaration /\ ResourcesMatchDeclaration
    BY <2>7
    DEF CredentialsAreRequired, Greeting1Works, GreetingsMatchDeclaration,
        ResourcesMatchDeclaration, OfferedTools, OfferedResources, RequiredTools, OptionalTools
  <2>9. McpServerReaches("prompt_guard") /\ McpServerReaches("entity_guard")
    BY <2>1, <2>6
  <2>10. ScreeningWorks /\ ClassificationWorks /\ ModerationWorks /\ AnonymizationWorks
    BY <2>9 DEF ScreeningWorks, ClassificationWorks, ModerationWorks, AnonymizationWorks
  <2>11. StarlarkWorks
    BY <2>1, <2>6 DEF StarlarkWorks
  <2>12. "read_content_from_url" \in OfferedTools <=> "read_content_from_url" \in tables.tools
    BY DEF OfferedTools, RequiredTools, OptionalTools
  <2>13. ASSUME Has("jina_reader")
         PROVE  /\ McpServerReaches("jina_reader")
                /\ SharedAliases("jina_reader", "squid_proxy") # {}
    <3>1. Wired("jina_reader") = {"backend"} /\ McpServerReaches("jina_reader")
      BY <2>1, <2>6, <2>13
    <3>2. "backend" \in Wired("squid_proxy")
      BY <2>0, <2>1, <2>3, <2>13, WiredAsPlanned, Homes
    <3> QED
      BY <3>1, <3>2 DEF SharedAliases
  <2>14. ReadContentWorks <=>
           /\ ~(Has("jina_reader") /\ "example.com" \notin tables.allowed)
           /\ ~(Has("jina_reader") /\ "read_content_from_url" \notin tables.tools)
    BY <2>12, <2>13 DEF ReadContentWorks
  <2> QED
    BY <1>2, <2>7, <2>8, <2>10, <2>11, <2>14 DEF McpProbesPass
<1> QED
  BY <1>1, <1>2

LEMMA LlmProbesAsPlanned ==
  ASSUME CompleteAsPlanned
  PROVE  LlmProbesPass <=>
           ~(/\ Has("llm_broker")
             /\ ~(tables.local \subseteq IF Has("llm_server") THEN Members(LlmServers) ELSE {}))
<1>1. CASE ~Has("llm_broker")
  BY <1>1 DEF LlmProbesPass
<1>2. CASE Has("llm_broker")
  <2>1. Wanted("llm_broker", caps) /\ "llm_broker" \in Members(AllContainers) \ {W}
    <3>1. Wanted("llm_broker", caps)
      BY <1>2, ServerNames, FixedNames DEF Wanted, W, Has
    <3> QED
      BY <3>1, ContainerNames, FixedNames DEF W
  <2>2. Wired("llm_broker") = {"workload", "backend"}
    BY <2>1, WiredAsPlanned, Homes
  <2>3. answers = TRUE
    BY DEF CompleteAsPlanned, AsPlanned
  <2>4. "llm_broker" \in published
    BY <2>1 DEF CompleteAsPlanned, SandboxIsComplete, Keyed
  <2>5. ASSUME NEW m \in Members(LlmServers)
        PROVE  LocalServerIsReady(m) <=> Has("llm_server")
    <3>1. m \in Members(AllContainers) /\ m # W /\ m \notin Members(FixedContainers)
      BY ContainerNames, ServerNames, FixedNames DEF W
    <3>2. Wanted(m, caps) <=> Has("llm_server")
      BY <3>1, FixedNames DEF Wanted, W, Has
    <3>3. Home(m, caps) = {"backend"}
      <4>1. m \notin FrontServices
        BY <3>1, FixedNames DEF FrontServices
      <4> QED
        BY <4>1, Homes
    <3>4. Wired(m) = IF Has("llm_server") THEN {"backend"} ELSE {}
      BY <3>1, <3>2, <3>3, WiredAsPlanned
    <3>5. Has("llm_server") => m \in started
      BY <3>1, <3>2 DEF CompleteAsPlanned, SandboxIsComplete
    <3> QED
      BY <2>2, <3>4, <3>5 DEF LocalServerIsReady, SharedAliases
  <2>6. LlmServersAreReady <=>
          tables.local \subseteq IF Has("llm_server") THEN Members(LlmServers) ELSE {}
    <3>1. \A m : LocalServerIsReady(m) <=> m \in Members(LlmServers) /\ Has("llm_server")
      BY <2>5 DEF LocalServerIsReady
    <3> HIDE DEF Members
    <3> QED
      BY <2>3, <3>1 DEF LlmServersAreReady
  <2> QED
    BY <1>2, <2>3, <2>4, <2>6, ResolvedAsPlanned
    DEF LlmProbesPass, BrokerAliasResolves, LlmModelsAreAvailable
<1> QED
  BY <1>1, <1>2

(* In a sandbox as planned the probes refuse exactly the specifications of *)
(* the list, whatever the capabilities and the tables.                     *)
THEOREM PlanAndProbesAgree == ProbedSpec => []ProbesAgreeWithPlan
<1>1. Lifecycle!TypeOK /\ ForCaps /\ StateFollowsCalls /\ VerdictsStand
        => ProbesAgreeWithPlan
  <2> SUFFICES ASSUME Lifecycle!TypeOK, ForCaps, StateFollowsCalls, VerdictsStand,
                      ProbesAreOver, AsPlanned
               PROVE  ProbesPassed <=> ~RefusedByItsProbes
    BY DEF ProbesAgreeWithPlan
  <2>1. W \in published
    BY DEF VerdictsStand, ProbesAreOver, Group
  <2>2. CompleteAsPlanned
    BY <2>1, KeyComesLast, WhenLaunched DEF CompleteAsPlanned
  <2>3. ProbesPassed <=> NetworkProbesPass /\ McpProbesPass /\ LlmProbesPass
    <3>1. \A g \in Group : verdict[g] = "passed" <=> Pass(g)
      BY DEF VerdictsStand, ProbesAreOver
    <3>2. ProbesPassed <=> Pass("network") /\ Pass("mcp") /\ Pass("llm")
      BY <3>1 DEF ProbesPassed, Group
    <3> QED
      BY <3>2 DEF Pass
  <2> QED
    BY <2>2, <2>3, NetworkProbesAsPlanned, McpProbesAsPlanned, LlmProbesAsPlanned
    DEF RefusedByItsProbes
<1> QED
  BY <1>1, ProbesOnlyLook, RunTypes, PlanIsKept, StateInvariance, VerdictInvariance, PTL

=============================================================================
