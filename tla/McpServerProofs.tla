--------------------------- MODULE McpServerProofs ---------------------------
(***************************************************************************)
(* Theorems about McpServer for all requests, tools, texts, answers of     *)
(* back ends, failures and clients that give up.                           *)
(***************************************************************************)
EXTENDS McpServer, TLAPS

(* The two properties as they say of one reply r to a request q, when the  *)
(* guards have found the pairs of cl clean for it.                         *)
Screened(r, q, cl) ==
  r.status = "ok" /\ q.kind = "call" /\ q.name \in ScreenedTools =>
    \A i \in DOMAIN r.content :
       r.content[i] \in Blank \/ <<"classify", r.content[i]>> \in cl

Accepted(r, q, cl) ==
  /\ r.status = "accepted" =>
       \/ q.text \in Blank /\ r.content = <<q.text>>
       \/ /\ {<<"classify", q.text>>, <<"moderate", q.text>>} \subseteq cl
          /\ r.content = <<Anonymized(q.text)>>
  /\ r.status = "rejected" => r.content = << >>

Good(r, q, cl) == Screened(r, q, cl) /\ Accepted(r, q, cl)

RepliesInv == \A c \in Calls : Good(reply[c], request[c], cleared[c])

(* A screened tool is past no part that is neither blank nor found clean.  *)
ScreenInv ==
  loop # NoCall =>
    /\ Called.name \in ScreenedTools => stage \in {"fetch", "screen"}
    /\ stage = "screen" =>
         \A i \in DOMAIN parts : i < at =>
           parts[i] \in Blank \/ <<"classify", parts[i]>> \in cleared[loop]

(* No reason against an input means that the guards asked so far cleared it.*)
InputInv ==
  IsUserInput =>
    /\ stage = "moderate" /\ reasons = {} => <<"classify", Called.text>> \in cleared[loop]
    /\ stage = "anonymize" /\ reasons = {} =>
         {<<"classify", Called.text>>, <<"moderate", Called.text>>} \subseteq cleared[loop]

McpInv == TypeOK /\ ScreenInv /\ InputInv /\ RepliesInv

Statuses == {"none", "ok", "accepted", "rejected", "error", "unauthenticated"}
PCs == {"idle", "sent", "running", "ended"}

-----------------------------------------------------------------------------
(* Types.                                                                  *)

LEMMA TextsAreContents ==
  /\ << >> \in Seq(Contents)
  /\ \A t \in Texts : <<t>> \in Seq(Contents) /\ <<Anonymized(t)>> \in Seq(Contents)
  /\ \A s \in Seq(Texts) : s \in Seq(Contents)
  BY DEF Contents

LEMMA RequestTypes ==
  ASSUME TypeOK, NEW c \in Calls
  PROVE  request[c] \in Requests /\ request[c].text \in Texts
  BY MenuAssumption DEF MenuAssumption, TypeOK, Requests

LEMMA EndTypes ==
  ASSUME TypeOK, NEW c \in Calls, NEW status \in Statuses, NEW content \in Seq(Contents),
         End(c, status, content)
  PROVE  /\ pc' \in [Calls -> PCs] /\ pc'[c] = "ended"
         /\ reply' \in [Calls -> [status : Statuses, content : Seq(Contents)]]
         /\ \A d \in Calls : d # c => pc'[d] = pc[d] /\ reply'[d] = reply[d]
         /\ reply'[c] \in {reply[c], Reply(status, content)}
  BY DEF TypeOK, End, Reply, Statuses, PCs

LEMMA ReturnTypes ==
  ASSUME TypeOK, loop # NoCall, NEW status \in Statuses, NEW content \in Seq(Contents),
         Return(status, content), UNCHANGED <<request, waiting, expired, stage, parts, reasons>>,
         cleared' \in [Calls -> SUBSET ({"classify", "moderate"} \X Texts)],
         faults' \in Nat, at' = at
  PROVE  TypeOK'
<1>1. loop \in Calls /\ loop' = NoCall
  BY DEF TypeOK, Return
<1>2. /\ pc' \in [Calls -> PCs] /\ pc'[loop] = "ended"
      /\ reply' \in [Calls -> [status : Statuses, content : Seq(Contents)]]
      /\ \A d \in Calls : d # loop => pc'[d] = pc[d]
  BY <1>1, EndTypes DEF Return
<1>3. \A c \in Calls : pc'[c] = "running" <=> loop' = c
  BY <1>1, <1>2, MenuAssumption DEF TypeOK, MenuAssumption
<1> QED
  BY <1>1, <1>2, <1>3 DEF TypeOK, Statuses, PCs

LEMMA TypeInit == Init => TypeOK
<1> SUFFICES ASSUME Init PROVE TypeOK
  OBVIOUS
<1>1. NoReply \in [status : Statuses, content : Seq(Contents)]
  BY TextsAreContents DEF NoReply, Statuses
<1>2. reply \in [Calls -> [status : Statuses, content : Seq(Contents)]]
  BY <1>1 DEF Init
<1>3. parts \in Seq(Texts) /\ at \in Nat /\ faults \in Nat
  BY DEF Init
<1>4. \A c \in Calls : pc[c] = "running" <=> loop = c
  BY MenuAssumption DEF MenuAssumption, Init
<1>5. cleared \in [Calls -> SUBSET ({"classify", "moderate"} \X Texts)]
  BY DEF Init
<1>6. /\ request \in [Calls -> Menu] /\ pc \in [Calls -> {"idle", "sent", "running", "ended"}]
      /\ waiting \in [Calls -> BOOLEAN] /\ expired \in BOOLEAN
      /\ loop = NoCall /\ stage = "fetch" /\ reasons = {}
  BY DEF Init
<1> QED
  BY <1>2, <1>3, <1>4, <1>5, <1>6 DEF TypeOK, Statuses

LEMMA FaultTypes == TypeOK /\ Fault => faults' \in Nat
  BY DEF Fault, TypeOK

LEMMA ClearTypes ==
  ASSUME TypeOK, loop \in Calls, NEW guard \in {"classify", "moderate"}, NEW text \in Texts,
         Clear(guard, text)
  PROVE  cleared' \in [Calls -> SUBSET ({"classify", "moderate"} \X Texts)]
  BY DEF Clear, TypeOK

LEMMA ImmediateTypes ==
  ASSUME TypeOK, NEW c \in Calls
  PROVE  /\ Immediate(request[c]).status \in {"ok", "accepted", "error", "unauthenticated"}
         /\ Immediate(request[c]).content \in Seq(Contents)
         /\ Immediate(request[c]).status = "accepted" =>
              /\ request[c].text \in Blank
              /\ Immediate(request[c]).content = <<request[c].text>>
         /\ Immediate(request[c]).status # "accepted" => Immediate(request[c]).content = << >>
<1>1. request[c].kind \in {"health", "list", "read", "call"} /\ request[c].text \in Texts
  BY RequestTypes DEF Requests
<1>2. <<request[c].text>> \in Seq(Contents) /\ << >> \in Seq(Contents)
  BY <1>1, TextsAreContents
<1> QED
  BY <1>1, <1>2 DEF Immediate, Reply, IsBlankInput, IsToolCall

LEMMA TypeStep == TypeOK /\ [Next]_vars => TypeOK'
<1> SUFFICES ASSUME TypeOK, [Next]_vars PROVE TypeOK'
  OBVIOUS
<1> USE DEF tool
<1> DEFINE Clears == cleared' \in [Calls -> SUBSET ({"classify", "moderate"} \X Texts)]
<1>0. cleared \in [Calls -> SUBSET ({"classify", "moderate"} \X Texts)] /\ faults \in Nat
  BY DEF TypeOK
<1>1. ASSUME NEW c \in Calls, Send(c) \/ GiveUp(c) PROVE TypeOK'
  BY <1>1, MenuAssumption DEF Send, GiveUp, TypeOK, MenuAssumption
<1>2. CASE Expire
  BY <1>2 DEF Expire, TypeOK
<1>3. ASSUME NEW c \in Calls, Answer(c) PROVE TypeOK'
  <2>1. /\ pc' \in [Calls -> PCs] /\ pc'[c] = "ended"
        /\ reply' \in [Calls -> [status : Statuses, content : Seq(Contents)]]
        /\ \A d \in Calls : d # c => pc'[d] = pc[d]
    BY <1>3, EndTypes, ImmediateTypes DEF Answer, Statuses
  <2> QED
    BY <1>3, <2>1 DEF Answer, Free, TypeOK, PCs, Statuses
<1>4. ASSUME NEW c \in Calls, Run(c) PROVE TypeOK'
  <2>1. FirstStage(request[c].name) \in {"fetch", "classify", "moderate", "anonymize"}
    BY <1>4 DEF Run, Contacts, FirstStage, GuardTools
  <2>2. stage' \in {"fetch", "classify", "moderate", "anonymize"}
    BY <1>4, <2>1 DEF Run
  <2> QED
    BY <1>4, <2>2, MenuAssumption DEF Run, Free, TypeOK, MenuAssumption
<1>5. ASSUME NEW c \in Calls, Drop(c) PROVE TypeOK'
  BY <1>5 DEF Drop, Free, TypeOK
<1>6. ASSUME ToolStep PROVE TypeOK'
  <2>1. loop \in Calls /\ loop # NoCall /\ Called.text \in Texts
    BY <1>6, RequestTypes DEF ToolStep, FetchFails, FetchToScreen, FetchToReturn, ScreenBlankPart,
       ScreenCleanPart, ScreenBlockedPart, ClassifyInput, ModerateInput, AnonymizeInput,
       AnonymizeInputFails, GuardToolAnswers, GuardFails, IsUserInput, Called, TypeOK
  <2>2. CASE FetchFails
    <3>1. faults' \in Nat
      BY <2>2, FaultTypes DEF FetchFails
    <3>2. \E content \in Seq(Contents) : Return("error", content)
      BY <2>2, TextsAreContents DEF FetchFails
    <3> QED
      BY <1>0, <2>1, <2>2, <3>1, <3>2, ReturnTypes DEF FetchFails, Statuses
  <2>3. CASE FetchToScreen
    <3>1. parts' \in Seq(Texts) /\ 1 \in DOMAIN parts'
      BY <2>3, FetchedAssumption DEF FetchToScreen, FetchedAssumption
    <3> QED
      BY <2>1, <2>3, <3>1 DEF FetchToScreen, TypeOK
  <2>4. CASE FetchToReturn
    <3>1. \E content \in Seq(Contents) : Return("ok", content)
      BY <2>4, FetchedAssumption, TextsAreContents DEF FetchToReturn, FetchedAssumption
    <3> QED
      BY <1>0, <2>1, <2>4, <3>1, ReturnTypes DEF FetchToReturn, Statuses
  <2>5. ASSUME ScreenBlankPart \/ ScreenCleanPart PROVE TypeOK'
    <3>1. at \in DOMAIN parts /\ parts \in Seq(Texts) /\ Len(parts) \in Nat /\ at \in Nat
      BY <2>1, <2>5 DEF ScreenBlankPart, ScreenCleanPart, TypeOK
    <3>2. parts[at] \in Texts /\ DOMAIN parts = 1..Len(parts)
      BY <3>1
    <3>3. Clears
      BY <1>0, <2>1, <2>5, <3>2, ClearTypes DEF ScreenBlankPart, ScreenCleanPart
    <3>4. CASE at < Len(parts) /\ at' = at + 1 /\ UNCHANGED <<pc, loop, reply>>
      <4>1. at + 1 \in DOMAIN parts /\ at + 1 \in Nat
        BY <3>1, <3>2, <3>4
      <4> QED
        BY <2>5, <3>3, <3>4, <4>1 DEF ScreenBlankPart, ScreenCleanPart, TypeOK
    <3>5. CASE Return("ok", parts) /\ UNCHANGED at
      BY <1>0, <2>1, <2>5, <3>1, <3>3, <3>5, ReturnTypes, TextsAreContents
         DEF ScreenBlankPart, ScreenCleanPart, Statuses
    <3> QED
      BY <2>5, <3>4, <3>5 DEF ScreenBlankPart, ScreenCleanPart, NextPart
  <2>6. CASE ScreenBlockedPart
    <3>1. faults' \in Nat
      BY <1>0, <2>6, FaultTypes DEF ScreenBlockedPart, Finds
    <3> QED
      BY <1>0, <2>1, <2>6, <3>1, ReturnTypes, TextsAreContents DEF ScreenBlockedPart, Statuses
  <2>7. CASE ClassifyInput
    <3>1. faults' \in Nat
      BY <1>0, <2>7, FaultTypes DEF ClassifyInput, Finds
    <3>2. Clears
      BY <1>0, <2>1, <2>7, ClearTypes DEF ClassifyInput
    <3> QED
      BY <2>7, <3>1, <3>2 DEF ClassifyInput, TypeOK
  <2>8. CASE ModerateInput
    <3>1. faults' \in Nat
      BY <1>0, <2>8, FaultTypes DEF ModerateInput, Finds
    <3>2. Clears
      BY <1>0, <2>1, <2>8, ClearTypes DEF ModerateInput
    <3> QED
      BY <2>8, <3>1, <3>2 DEF ModerateInput, TypeOK
  <2>9. CASE AnonymizeInput
    <3>1. \E status \in Statuses : \E content \in Seq(Contents) : Return(status, content)
      BY <2>1, <2>9, TextsAreContents DEF AnonymizeInput, Statuses
    <3> QED
      BY <1>0, <2>1, <2>9, <3>1, ReturnTypes DEF AnonymizeInput
  <2>10. CASE AnonymizeInputFails
    <3>1. faults' \in Nat
      BY <2>10, FaultTypes DEF AnonymizeInputFails
    <3> QED
      BY <1>0, <2>1, <2>10, <3>1, ReturnTypes, TextsAreContents DEF AnonymizeInputFails, Statuses
  <2>11. CASE GuardToolAnswers
    <3>1. \E content \in Seq(Contents) : Return("ok", content)
      BY <2>1, <2>11, TextsAreContents DEF GuardToolAnswers
    <3> QED
      BY <1>0, <2>1, <2>11, <3>1, ReturnTypes DEF GuardToolAnswers, Statuses
  <2>12. CASE GuardFails
    <3>1. faults' \in Nat
      BY <2>12, FaultTypes DEF GuardFails
    <3> QED
      BY <1>0, <2>1, <2>12, <3>1, ReturnTypes, TextsAreContents DEF GuardFails, Statuses
  <2> QED
    BY <1>6, <2>2, <2>3, <2>4, <2>5, <2>6, <2>7, <2>8, <2>9, <2>10, <2>11, <2>12 DEF ToolStep
<1>7. CASE UNCHANGED vars
  BY <1>7 DEF vars, TypeOK
<1> QED
  BY <1>1, <1>2, <1>3, <1>4, <1>5, <1>6, <1>7 DEF Next, LoopStep, Finished

-----------------------------------------------------------------------------
(* Replies.                                                                *)

LEMMA ReplyFields ==
  ASSUME NEW status, NEW content
  PROVE  Reply(status, content).status = status /\ Reply(status, content).content = content
  BY DEF Reply

LEMMA GoodGrows ==
  ASSUME NEW r, NEW q, NEW cl, NEW more, Good(r, q, cl), cl \subseteq more
  PROVE  Good(r, q, more)
  BY DEF Good, Screened, Accepted

LEMMA GoodStays ==
  ASSUME RepliesInv, UNCHANGED <<request, reply>>, \A d \in Calls : cleared[d] \subseteq cleared'[d]
  PROVE  RepliesInv'
  BY GoodGrows DEF RepliesInv

(* A step that ends one call with a good reply keeps all replies good.     *)
LEMMA EndKeepsReplies ==
  ASSUME TypeOK, RepliesInv, NEW c \in Calls, NEW status \in Statuses,
         NEW content \in Seq(Contents), End(c, status, content),
         UNCHANGED request, \A d \in Calls : cleared[d] \subseteq cleared'[d],
         Good(Reply(status, content), request[c], cleared'[c])
  PROVE  RepliesInv'
<1>1. /\ \A d \in Calls : d # c => reply'[d] = reply[d]
      /\ reply'[c] \in {reply[c], Reply(status, content)}
  BY EndTypes
<1>2. \A d \in Calls : Good(reply[d], request[d], cleared'[d])
  BY GoodGrows DEF RepliesInv
<1>3. \A d \in Calls : Good(reply'[d], request[d], cleared'[d])
  <2> TAKE d \in Calls
  <2>1. reply'[d] = reply[d] \/ (d = c /\ reply'[d] = Reply(status, content))
    BY <1>1
  <2> QED
    BY <1>2, <2>1
<1> QED
  BY <1>3 DEF RepliesInv

LEMMA RepliesInit == Init => RepliesInv
<1> SUFFICES ASSUME Init, NEW c \in Calls PROVE Good(reply[c], request[c], cleared[c])
  BY DEF RepliesInv
<1>1. reply[c].status = "none"
  BY DEF Init, NoReply
<1> QED
  BY <1>1 DEF Good, Screened, Accepted

LEMMA ClearGrows ==
  ASSUME TypeOK, NEW guard, NEW text, Clear(guard, text), loop \in Calls
  PROVE  /\ \A d \in Calls : cleared[d] \subseteq cleared'[d]
         /\ <<guard, text>> \in cleared'[loop]
  BY DEF Clear, TypeOK

(* An error says nothing, or only what a failing back end said.            *)
LEMMA ErrorsAreGood ==
  ASSUME NEW content, NEW q, NEW cl
  PROVE  Good(Reply("error", content), q, cl) /\ Good(Reply("rejected", << >>), q, cl)
  BY ReplyFields DEF Good, Screened, Accepted

LEMMA RepliesStep == McpInv /\ [Next]_vars => RepliesInv'
<1> SUFFICES ASSUME McpInv, [Next]_vars PROVE RepliesInv'
  OBVIOUS
<1>0. TypeOK /\ RepliesInv /\ ScreenInv /\ InputInv
  BY DEF McpInv
<1> USE DEF tool
<1>1. CASE UNCHANGED <<request, reply, cleared>>
  BY <1>0, <1>1, GoodStays
<1>2. ASSUME NEW c \in Calls, Answer(c) PROVE RepliesInv'
  <2> DEFINE r == Immediate(request[c])
  <2>1. /\ r.status \in Statuses /\ r.content \in Seq(Contents) /\ UNCHANGED <<request, cleared>>
        /\ r.status = "accepted" =>
              request[c].text \in Blank /\ r.content = <<request[c].text>>
        /\ r.status # "accepted" => r.content = << >>
        /\ r.status # "rejected"
    BY <1>0, <1>2, ImmediateTypes DEF Answer, Statuses
  <2> HIDE DEF r
  <2>2. Good(Reply(r.status, r.content), request[c], cleared'[c])
    BY <2>1, ReplyFields DEF Good, Screened, Accepted
  <2>3. End(c, r.status, r.content)
    BY <1>2 DEF Answer, r
  <2> QED
    BY <1>0, <2>1, <2>2, <2>3, EndKeepsReplies
<1>3. ASSUME ToolStep PROVE RepliesInv'
  <2>1. loop \in Calls /\ loop # NoCall /\ Called.text \in Texts
    BY <1>0, <1>3, RequestTypes DEF ToolStep, FetchFails, FetchToScreen, FetchToReturn,
       ScreenBlankPart, ScreenCleanPart, ScreenBlockedPart, ClassifyInput, ModerateInput,
       AnonymizeInput, AnonymizeInputFails, GuardToolAnswers, GuardFails, IsUserInput, Called, TypeOK
  <2>2. ASSUME UNCHANGED <<request, cleared>>, NEW content \in Seq(Contents), Return("error", content)
        PROVE  RepliesInv'
    BY <1>0, <2>1, <2>2, ErrorsAreGood, EndKeepsReplies DEF Return, Statuses
  <2>3. CASE FetchFails
    <3>1. \E content \in Seq(Contents) : Return("error", content)
      BY <2>3, TextsAreContents DEF FetchFails
    <3> QED
      BY <2>2, <2>3, <3>1 DEF FetchFails
  <2>4. ASSUME ScreenBlockedPart \/ GuardFails PROVE RepliesInv'
    BY <2>2, <2>4, TextsAreContents DEF ScreenBlockedPart, GuardFails
  <2>5. CASE FetchToScreen
    BY <1>1, <2>5 DEF FetchToScreen
  <2>6. CASE FetchToReturn
    <3>1. PICK answer \in Fetched : (Called.name \in ScreenedTools => answer = << >>) /\ Return("ok", answer)
      BY <2>6 DEF FetchToReturn
    <3>2. answer \in Seq(Contents) /\ UNCHANGED <<request, cleared>>
      BY <2>6, FetchedAssumption, TextsAreContents DEF FetchToReturn, FetchedAssumption
    <3>3. Good(Reply("ok", answer), request[loop], cleared'[loop])
      BY <3>1, <3>2, ReplyFields DEF Good, Screened, Accepted, Called
    <3> QED
      BY <1>0, <2>1, <3>1, <3>2, <3>3, EndKeepsReplies DEF Return, Statuses
  <2>7. ASSUME ScreenBlankPart \/ ScreenCleanPart PROVE RepliesInv'
    <3>1. /\ at \in DOMAIN parts /\ parts \in Seq(Texts) /\ stage = "screen" /\ UNCHANGED request
          /\ at \in Nat /\ DOMAIN parts = 1..Len(parts) /\ Len(parts) \in Nat
      BY <1>0, <2>1, <2>7 DEF ScreenBlankPart, ScreenCleanPart, TypeOK
    <3>2. \A d \in Calls : cleared[d] \subseteq cleared'[d]
      BY <1>0, <2>1, <2>7, ClearGrows DEF ScreenBlankPart, ScreenCleanPart
    <3>3. parts[at] \in Blank \/ <<"classify", parts[at]>> \in cleared'[loop]
      BY <1>0, <2>1, <2>7, ClearGrows DEF ScreenBlankPart, ScreenCleanPart
    <3>4. CASE UNCHANGED reply
      BY <1>0, <3>1, <3>2, <3>4, GoodStays
    <3>5. CASE at = Len(parts) /\ Return("ok", parts)
      <4>1. \A i \in DOMAIN parts : i < at \/ i = at
        BY <3>1, <3>5
      <4>2. \A i \in DOMAIN parts : parts[i] \in Blank \/ <<"classify", parts[i]>> \in cleared'[loop]
        BY <1>0, <2>1, <3>1, <3>2, <3>3, <4>1 DEF ScreenInv
      <4>3. Good(Reply("ok", parts), request[loop], cleared'[loop])
        BY <4>2, ReplyFields DEF Good, Screened, Accepted
      <4> QED
        BY <1>0, <2>1, <3>1, <3>2, <3>5, <4>3, TextsAreContents, EndKeepsReplies DEF Return, Statuses
    <3> QED
      BY <2>7, <3>4, <3>5 DEF ScreenBlankPart, ScreenCleanPart, NextPart
  <2>8. ASSUME ClassifyInput \/ ModerateInput PROVE RepliesInv'
    <3>1. /\ \A d \in Calls : cleared[d] \subseteq cleared'[d]
          /\ UNCHANGED <<request, reply>>
      BY <1>0, <2>1, <2>8, ClearGrows DEF ClassifyInput, ModerateInput
    <3> QED
      BY <1>0, <3>1, GoodStays
  <2>9. ASSUME AnonymizeInput \/ AnonymizeInputFails PROVE RepliesInv'
    <3>1. UNCHANGED <<request, cleared>> /\ IsUserInput /\ stage = "anonymize"
      BY <2>9 DEF AnonymizeInput, AnonymizeInputFails
    <3>2. CASE Return("rejected", << >>)
      BY <1>0, <2>1, <3>1, <3>2, ErrorsAreGood, TextsAreContents, EndKeepsReplies DEF Return, Statuses
    <3>3. CASE reasons = {} /\ Return("accepted", <<Anonymized(Called.text)>>)
      <4>1. {<<"classify", Called.text>>, <<"moderate", Called.text>>} \subseteq cleared'[loop]
        BY <1>0, <3>1, <3>3 DEF InputInv
      <4>2. Good(Reply("accepted", <<Anonymized(Called.text)>>), request[loop], cleared'[loop])
        BY <4>1, ReplyFields DEF Good, Screened, Accepted, Called
      <4> QED
        BY <1>0, <2>1, <3>1, <3>3, <4>2, TextsAreContents, EndKeepsReplies DEF Return, Statuses
    <3> QED
      BY <2>9, <3>2, <3>3 DEF AnonymizeInput, AnonymizeInputFails
  <2>10. CASE GuardToolAnswers
    <3>1. PICK content \in Seq(Contents) : Return("ok", content)
      BY <2>1, <2>10, TextsAreContents DEF GuardToolAnswers
    <3>2. UNCHANGED <<request, cleared>> /\ Called.name \notin ScreenedTools
      BY <2>10 DEF GuardToolAnswers, GuardTools, ScreenedTools
    <3>3. Good(Reply("ok", content), request[loop], cleared'[loop])
      BY <3>2, ReplyFields DEF Good, Screened, Accepted, Called
    <3> QED
      BY <1>0, <2>1, <3>1, <3>2, <3>3, EndKeepsReplies DEF Return, Statuses
  <2> QED
    BY <1>3, <2>3, <2>4, <2>5, <2>6, <2>7, <2>8, <2>9, <2>10 DEF ToolStep
<1> QED
  BY <1>1, <1>2, <1>3 DEF Next, LoopStep, Finished, Send, GiveUp, Expire, Run, Drop, vars

-----------------------------------------------------------------------------
(* What the running tool knows.                                            *)

(* Neither invariant speaks of a loop that no tool holds.                  *)
LEMMA FreeLoop == loop' = NoCall => ScreenInv' /\ InputInv'
  BY DEF ScreenInv, InputInv, IsUserInput

LEMMA ToolStays ==
  ASSUME ScreenInv, InputInv, UNCHANGED <<request, loop, tool, cleared>>
  PROVE  ScreenInv' /\ InputInv'
  BY DEF ScreenInv, InputInv, IsUserInput, Called, tool

LEMMA KnowledgeStep == McpInv /\ [Next]_vars => ScreenInv' /\ InputInv'
<1> SUFFICES ASSUME McpInv, [Next]_vars PROVE ScreenInv' /\ InputInv'
  OBVIOUS
<1> USE DEF tool
<1>0. TypeOK /\ ScreenInv /\ InputInv
  BY DEF McpInv
<1>1. CASE UNCHANGED <<request, loop, tool, cleared>>
  BY <1>0, <1>1, ToolStays
<1>2. ASSUME NEW c \in Calls, Run(c) PROVE ScreenInv' /\ InputInv'
  <2>1. /\ loop' = c /\ request' = request /\ stage' = FirstStage(request[c].name)
        /\ Contacts(request[c])
    BY <1>2 DEF Run
  <2>2. /\ stage' \in {"fetch", "classify", "moderate", "anonymize"}
        /\ request[c].name \in ScreenedTools => stage' = "fetch"
        /\ request[c].name = "screen_user_input" => stage' = "classify"
    BY <2>1 DEF FirstStage, Contacts, ScreenedTools, UnscreenedTools, GuardTools
  <2> QED
    BY <2>1, <2>2 DEF ScreenInv, InputInv, IsUserInput, Called
<1>3. CASE loop' = NoCall
  BY <1>3, FreeLoop
<1>4. CASE FetchToScreen
  <2>1. /\ stage' = "screen" /\ at' = 1 /\ request' = request /\ loop' = loop
        /\ Called.name \in ScreenedTools
    BY <1>4 DEF FetchToScreen
  <2>2. parts' \in Seq(Texts)
    BY <1>4, FetchedAssumption DEF FetchToScreen, FetchedAssumption
  <2>3. \A i \in DOMAIN parts' : ~ i < 1
    BY <2>2
  <2>4. Called.name # "screen_user_input"
    BY <2>1 DEF ScreenedTools
  <2> QED
    BY <2>1, <2>3, <2>4 DEF ScreenInv, InputInv, IsUserInput, Called
<1>5. ASSUME ScreenBlankPart \/ ScreenCleanPart, at' = at + 1, UNCHANGED <<pc, loop, reply>>
      PROVE  ScreenInv' /\ InputInv'
  <2>1. /\ loop # NoCall /\ loop \in Calls /\ stage = "screen"
        /\ UNCHANGED <<request, stage, parts, reasons>>
    BY <1>0, <1>5 DEF ScreenBlankPart, ScreenCleanPart, TypeOK
  <2>2. at \in Nat /\ parts \in Seq(Texts)
    BY <1>0 DEF TypeOK
  <2>3. cleared[loop] \subseteq cleared'[loop]
    BY <1>0, <1>5, <2>1, ClearGrows DEF ScreenBlankPart, ScreenCleanPart
  <2>4. parts[at] \in Blank \/ <<"classify", parts[at]>> \in cleared'[loop]
    BY <1>0, <1>5, <2>1, ClearGrows DEF ScreenBlankPart, ScreenCleanPart
  <2>5. \A i \in DOMAIN parts : i < at' => i < at \/ i = at
    BY <1>5, <2>2
  <2>6. \A i \in DOMAIN parts : i < at' =>
          parts[i] \in Blank \/ <<"classify", parts[i]>> \in cleared'[loop]
    BY <1>0, <2>1, <2>3, <2>4, <2>5 DEF ScreenInv
  <2>7. ScreenInv'
    BY <1>0, <1>5, <2>1, <2>6 DEF ScreenInv, Called
  <2> QED
    BY <1>5, <2>1, <2>7 DEF InputInv, IsUserInput
<1>6. CASE ClassifyInput
  <2>1. /\ IsUserInput /\ stage' = "moderate" /\ UNCHANGED <<request, loop>>
        /\ loop \in Calls /\ Called' = Called
    BY <1>0, <1>6 DEF ClassifyInput, IsUserInput, TypeOK, Called
  <2>2. reasons' = {} => <<"classify", Called.text>> \in cleared'[loop]
    BY <1>0, <1>6, <2>1, ClearGrows DEF ClassifyInput
  <2>3. Called.name \notin ScreenedTools
    BY <2>1 DEF IsUserInput, ScreenedTools
  <2> QED
    BY <2>1, <2>2, <2>3 DEF ScreenInv, InputInv
<1>7. CASE ModerateInput
  <2>1. /\ IsUserInput /\ stage = "moderate" /\ stage' = "anonymize" /\ UNCHANGED <<request, loop>>
        /\ loop \in Calls /\ Called' = Called
    BY <1>0, <1>7 DEF ModerateInput, IsUserInput, TypeOK, Called
  <2>2. CASE reasons' = {}
    <3>1. reasons = {} /\ Clear("moderate", Called.text)
      BY <1>7, <2>2 DEF ModerateInput
    <3>2. <<"classify", Called.text>> \in cleared[loop]
      BY <1>0, <2>1, <3>1 DEF InputInv
    <3> QED
      BY <1>0, <2>1, <3>1, <3>2, ClearGrows DEF ScreenInv, InputInv, IsUserInput, ScreenedTools
  <2>3. CASE reasons' # {}
    BY <2>1, <2>3 DEF ScreenInv, InputInv, IsUserInput, ScreenedTools
  <2> QED
    BY <2>2, <2>3
<1> QED
  BY <1>1, <1>2, <1>3, <1>4, <1>5, <1>6, <1>7 DEF Next, LoopStep, Finished, Send, GiveUp, Expire,
     Answer, Drop, vars, ToolStep, FetchFails, FetchToReturn, ScreenBlankPart, ScreenCleanPart,
     NextPart, ScreenBlockedPart, AnonymizeInput, AnonymizeInputFails, GuardToolAnswers,
     GuardFails, Return

-----------------------------------------------------------------------------
(* The inductive invariant, and what it gives.                             *)

THEOREM McpInvariant == Spec => []McpInv
<1>1. Init => McpInv
  <2>1. Init => loop = NoCall
    BY DEF Init
  <2>2. Init => ScreenInv /\ InputInv
    BY <2>1 DEF ScreenInv, InputInv, IsUserInput
  <2> QED
    BY <2>2, TypeInit, RepliesInit DEF McpInv
<1>2. McpInv /\ [Next]_vars => McpInv'
  BY TypeStep, RepliesStep, KnowledgeStep DEF McpInv
<1> QED
  BY <1>1, <1>2, PTL DEF Spec

(* The variables of the server keep their types, the tool that runs is the *)
(* one that holds the loop, and it screens a part that exists.             *)
THEOREM McpTypes == Spec => []TypeOK
<1>1. McpInv => TypeOK
  BY DEF McpInv
<1> QED
  BY <1>1, McpInvariant, PTL

(* Every part that is not blank of what a screened tool returns was found  *)
(* clean during the call.                                                  *)
THEOREM ScreenedResults == Spec => []ResultsAreScreened
<1>1. McpInv => ResultsAreScreened
  BY DEF McpInv, RepliesInv, Good, Screened, ResultsAreScreened
<1> QED
  BY <1>1, McpInvariant, PTL

(* No failure lets an input pass that both models did not find clean, and  *)
(* an accepted input is returned anonymized.                               *)
THEOREM CleanInputs == Spec => []AcceptedInputIsClean
<1>1. McpInv => AcceptedInputIsClean
  BY DEF McpInv, RepliesInv, Good, Accepted, AcceptedInputIsClean
<1> QED
  BY <1>1, McpInvariant, PTL
=============================================================================
