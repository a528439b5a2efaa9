------------------------------ MODULE McpServer ------------------------------
(***************************************************************************)
(* The MCP server: one event loop, whose tools are plain functions, so     *)
(* that a tool call holds the loop until it returns, up to several guard   *)
(* time-outs of 240 s.  Every other request waits, the health check too,   *)
(* and a client may have given up (300 s) long before its answer.  Content *)
(* a tool fetched is classified part by part; user input is classified,    *)
(* moderated and anonymized.  A text is represented by what is true of it. *)
(***************************************************************************)
EXTENDS Naturals, Sequences

CONSTANTS
  Calls,               \* HTTP requests
  NoCall,
  Menu,                \* what they may ask for
  DeclaredTools,       \* tools and resources of metisa.json
  DeclaredResources,
  Texts,
  Blank,               \* texts without a visible character,
  Injected,            \* with indicators of prompt injection,
  Labelled,            \* and with moderation labels
  Fetched,             \* what a back end may answer, part by part
  MaxFaults            \* failing back ends and guards

RequiredTools == {"screen_user_input", "test_greeting_1"}
ScreenedTools == {"read_content_from_url", "retrieve_content_from_document",
                  "convert_document_to_markdown", "get_matching_chunks_from_document"}
UnscreenedTools == {"get_title_from_url", "execute_starlark_code",
                    "get_active_items_from_database"}
GuardTools == {"get_classification_indicators", "get_moderation_labels",
               "anonymize_entities_in_text"}
OptionalTools == ScreenedTools \cup UnscreenedTools \cup GuardTools
                   \cup {"test_greeting_2", "test_greeting_3"}

TOOL_REGISTRY == RequiredTools \cup (OptionalTools \cap DeclaredTools)
RESOURCE_REGISTRY ==
  {"test_resource_1"} \cup ({"test_resource_2", "test_resource_3"} \cap DeclaredResources)

(* arguments: the schema rejects "malformed" ones, the tool "refused" ones.*)
Requests ==
  [kind : {"health", "list", "read", "call"}, token : {"run", "other"}, name : STRING,
   arguments : {"fine", "malformed", "refused"}, text : Texts]

Anonymized(t) == <<"anonymized", t>>
Contents == Texts \cup {Anonymized(t) : t \in Texts}

ASSUME MenuAssumption == Menu \subseteq Requests /\ NoCall \notin Calls
ASSUME FetchedAssumption == Fetched \subseteq Seq(Texts)

VARIABLES
  request, pc,
  waiting,   \* whether the client still waits
  expired,   \* the run token's hour is over
  loop,      \* the call whose tool holds the event loop
  stage,     \* what that tool does next,
  parts,     \* what it has fetched,
  at,        \* the part it screens,
  reasons,   \* and why it rejects user input
  reply,
  cleared,   \* what the guards found clean for a call, kept for the properties
  faults

tool == <<stage, parts, at, reasons>>
vars == <<request, pc, waiting, expired, loop, tool, reply, cleared, faults>>

NoReply == [status |-> "none", content |-> << >>]
Reply(status, content) == [status |-> status, content |-> content]

TypeOK ==
  /\ request \in [Calls -> Menu]
  /\ pc \in [Calls -> {"idle", "sent", "running", "ended"}]
  /\ waiting \in [Calls -> BOOLEAN] /\ expired \in BOOLEAN
  /\ loop \in Calls \cup {NoCall}
  /\ \A c \in Calls : pc[c] = "running" <=> loop = c
  /\ stage \in {"fetch", "screen", "classify", "moderate", "anonymize"}
  /\ parts \in Seq(Texts) /\ at \in Nat
  /\ loop # NoCall /\ stage = "screen" => at \in DOMAIN parts
  /\ reasons \in SUBSET {"indicators", "labels"}
  /\ reply \in [Calls -> [status : {"none", "ok", "accepted", "rejected", "error", "unauthenticated"},
                          content : Seq(Contents)]]
  /\ cleared \in [Calls -> SUBSET ({"classify", "moderate"} \X Texts)]
  /\ faults \in Nat

Init ==
  /\ request \in [Calls -> Menu]
  /\ pc = [c \in Calls |-> "idle"]
  /\ waiting = [c \in Calls |-> TRUE]
  /\ expired = FALSE
  /\ loop = NoCall
  /\ stage = "fetch" /\ parts = << >> /\ at = 0 /\ reasons = {}
  /\ reply = [c \in Calls |-> NoReply]
  /\ cleared = [c \in Calls |-> {}]
  /\ faults = 0

-----------------------------------------------------------------------------
(* Clients and the clock.                                                  *)

Send(c) ==
  /\ pc[c] = "idle"
  /\ pc' = [pc EXCEPT ![c] = "sent"]
  /\ UNCHANGED <<request, waiting, expired, loop, tool, reply, cleared, faults>>

(* The client's time-out; the server goes on.                              *)
GiveUp(c) ==
  /\ pc[c] \in {"sent", "running"} /\ waiting[c]
  /\ waiting' = [waiting EXCEPT ![c] = FALSE]
  /\ UNCHANGED <<request, pc, expired, loop, tool, reply, cleared, faults>>

Expire ==
  /\ ~expired
  /\ expired' = TRUE
  /\ UNCHANGED <<request, pc, waiting, loop, tool, reply, cleared, faults>>

-----------------------------------------------------------------------------
(* The event loop.                                                         *)

(* Nobody reads an answer after the client has left.                       *)
End(c, status, content) ==
  /\ pc' = [pc EXCEPT ![c] = "ended"]
  /\ reply' = IF waiting[c] THEN [reply EXCEPT ![c] = Reply(status, content)] ELSE reply

Authenticated(r) == r.token = "run" /\ ~expired

IsBlankInput(r) == r.name = "screen_user_input" /\ r.text \in Blank

IsToolCall(r) ==
  /\ r.kind = "call" /\ r.name \in TOOL_REGISTRY /\ r.arguments = "fine"

(* A tool that calls no other service returns at once.                     *)
Contacts(r) ==
  /\ r.name \in ScreenedTools \cup UnscreenedTools \cup GuardTools \cup {"screen_user_input"}
  /\ ~IsBlankInput(r)

Immediate(r) ==
  IF r.kind = "health" THEN Reply("ok", << >>)
  ELSE IF ~Authenticated(r) THEN Reply("unauthenticated", << >>)
  ELSE CASE r.kind = "list" -> Reply("ok", << >>)
         [] r.kind = "read" -> Reply(IF r.name \in RESOURCE_REGISTRY THEN "ok" ELSE "error", << >>)
         [] r.kind = "call" /\ ~IsToolCall(r) -> Reply("error", << >>)
         [] IsToolCall(r) /\ IsBlankInput(r) -> Reply("accepted", <<r.text>>)
         [] IsToolCall(r) /\ ~IsBlankInput(r) -> Reply("ok", << >>)

Free(c) == loop = NoCall /\ pc[c] = "sent"

(* RunTokenMiddleware and _call_tool, up to the tool's function.           *)
Answer(c) ==
  /\ Free(c)
  /\ ~(Authenticated(request[c]) /\ IsToolCall(request[c]) /\ Contacts(request[c]))
  /\ End(c, Immediate(request[c]).status, Immediate(request[c]).content)
  /\ UNCHANGED <<request, waiting, expired, loop, tool, cleared, faults>>

FirstStage(name) ==
  CASE name \in ScreenedTools \cup UnscreenedTools -> "fetch"
    [] name \in {"screen_user_input", "get_classification_indicators"} -> "classify"
    [] name = "get_moderation_labels" -> "moderate"
    [] name = "anonymize_entities_in_text" -> "anonymize"

Run(c) ==
  /\ Free(c)
  /\ Authenticated(request[c]) /\ IsToolCall(request[c]) /\ Contacts(request[c])
  /\ pc' = [pc EXCEPT ![c] = "running"]
  /\ loop' = c
  /\ stage' = FirstStage(request[c].name)
  /\ parts' = << >> /\ at' = 0 /\ reasons' = {}
  /\ UNCHANGED <<request, waiting, expired, reply, cleared, faults>>

(* The body of a request whose client has left cannot be read any more.    *)
Drop(c) ==
  /\ Free(c) /\ ~waiting[c]
  /\ pc' = [pc EXCEPT ![c] = "ended"]
  /\ UNCHANGED <<request, waiting, expired, loop, tool, reply, cleared, faults>>

-----------------------------------------------------------------------------
(* The tool that holds the loop.                                           *)

Called == request[loop]

Fault ==
  /\ faults < MaxFaults
  /\ faults' = faults + 1

Return(status, content) ==
  /\ loop' = NoCall
  /\ End(loop, status, content)

Clear(guard, text) == cleared' = [cleared EXCEPT ![loop] = @ \cup {<<guard, text>>}]

(* What these tools say of a failing back end quotes its answer.           *)
QuotingTools == {"retrieve_content_from_document", "convert_document_to_markdown",
                 "get_matching_chunks_from_document", "execute_starlark_code"}

FetchFails ==
  /\ loop # NoCall /\ stage = "fetch"
  /\ Fault
  /\ \/ Return("error", << >>)
     \/ \E body \in Texts : Called.name \in QuotingTools /\ Return("error", <<body>>)
  /\ UNCHANGED <<request, waiting, expired, tool, cleared>>

(* Only a search answers with a list, which may be empty.                  *)
CanAnswer(answer) == Len(answer) = 1 \/ Called.name = "get_matching_chunks_from_document"

FetchToScreen ==
  /\ loop # NoCall /\ stage = "fetch" /\ Called.name \in ScreenedTools
  /\ \E answer \in Fetched :
       /\ CanAnswer(answer) /\ answer # << >>
       /\ parts' = answer
  /\ at' = 1 /\ stage' = "screen"
  /\ UNCHANGED <<request, pc, waiting, expired, loop, reasons, reply, cleared, faults>>

FetchToReturn ==
  /\ loop # NoCall /\ stage = "fetch"
  /\ \E answer \in Fetched :
       /\ CanAnswer(answer)
       /\ Called.name \in ScreenedTools => answer = << >>
       /\ Return("ok", answer)
  /\ UNCHANGED <<request, waiting, expired, tool, cleared, faults>>

NextPart ==
  \/ /\ at < Len(parts)
     /\ at' = at + 1
     /\ UNCHANGED <<pc, loop, reply>>
  \/ /\ at = Len(parts)
     /\ Return("ok", parts)
     /\ UNCHANGED at

ScreenBlankPart ==
  /\ loop # NoCall /\ stage = "screen"
  /\ parts[at] \in Blank
  /\ NextPart
  /\ UNCHANGED <<request, waiting, expired, stage, parts, reasons, cleared, faults>>

(* Mutation: the first part speaks for all of them.                        *)
ScreenFirstPart ==
  /\ loop # NoCall /\ stage = "screen"
  /\ parts[at] \notin Blank \cup Injected
  /\ Clear("classify", parts[at])
  /\ Return("ok", parts)
  /\ UNCHANGED <<request, waiting, expired, tool, faults>>

ScreenCleanPart ==
  /\ loop # NoCall /\ stage = "screen"
  /\ parts[at] \notin Blank \cup Injected
  /\ Clear("classify", parts[at])
  /\ NextPart
  /\ UNCHANGED <<request, waiting, expired, stage, parts, reasons, faults>>

(* The prompt guard also reports its own exceptions as findings.           *)
Finds(found) == (found /\ UNCHANGED faults) \/ Fault

ScreenBlockedPart ==
  /\ loop # NoCall /\ stage = "screen"
  /\ parts[at] \notin Blank
  /\ Finds(parts[at] \in Injected)
  /\ Return("error", << >>)
  /\ UNCHANGED <<request, waiting, expired, tool, cleared>>

IsUserInput == loop # NoCall /\ Called.name = "screen_user_input"

(* _has_indicators, _has_labels: a finding is a reason, and the next guard *)
(* is asked all the same.                                                  *)
ClassifyInput ==
  /\ IsUserInput /\ stage = "classify"
  /\ stage' = "moderate"
  /\ \/ /\ Called.text \notin Injected
        /\ Clear("classify", Called.text)
        /\ UNCHANGED <<reasons, faults>>
     \/ /\ Finds(Called.text \in Injected)
        /\ reasons' = reasons \cup {"indicators"}
        /\ UNCHANGED cleared
  /\ UNCHANGED <<request, pc, waiting, expired, loop, parts, at, reply>>

ModerateInput ==
  /\ IsUserInput /\ stage = "moderate"
  /\ stage' = "anonymize"
  /\ \/ /\ Called.text \notin Labelled
        /\ Clear("moderate", Called.text)
        /\ UNCHANGED <<reasons, faults>>
     \/ /\ Finds(Called.text \in Labelled)
        /\ reasons' = reasons \cup {"labels"}
        /\ UNCHANGED cleared
  /\ UNCHANGED <<request, pc, waiting, expired, loop, parts, at, reply>>

AnonymizeInput ==
  /\ IsUserInput /\ stage = "anonymize"
  /\ \/ reasons = {} /\ Return("accepted", <<Anonymized(Called.text)>>)
     \/ reasons # {} /\ Return("rejected", << >>)
  /\ UNCHANGED <<request, waiting, expired, tool, cleared, faults>>

(* Mutation: the input is good enough as it is.                            *)
AnonymizeInputOrNot ==
  /\ IsUserInput /\ stage = "anonymize"
  /\ Fault
  /\ \/ reasons = {} /\ Return("accepted", <<Called.text>>)
     \/ reasons # {} /\ Return("rejected", << >>)
  /\ UNCHANGED <<request, waiting, expired, tool, cleared>>

(* This failure, and no other, is caught and becomes a reason.             *)
AnonymizeInputFails ==
  /\ IsUserInput /\ stage = "anonymize"
  /\ Fault
  /\ Return("rejected", << >>)
  /\ UNCHANGED <<request, waiting, expired, tool, cleared>>

(* A tool that is nothing but a guard returns what the guard says.         *)
GuardToolAnswers ==
  /\ loop # NoCall /\ Called.name \in GuardTools
  /\ Return("ok", IF stage = "anonymize" THEN <<Anonymized(Called.text)>> ELSE << >>)
  /\ UNCHANGED <<request, waiting, expired, tool, cleared, faults>>

AsksGuard ==
  \/ stage = "screen" /\ parts[at] \notin Blank
  \/ stage \in {"classify", "moderate"}
  \/ stage = "anonymize" /\ Called.name \in GuardTools

(* Mutation: the exception takes the answer with it.                       *)
GuardFailsUnanswered ==
  /\ loop # NoCall /\ AsksGuard
  /\ Fault
  /\ loop' = NoCall
  /\ pc' = [pc EXCEPT ![loop] = "ended"]
  /\ UNCHANGED <<request, waiting, expired, tool, reply, cleared>>

(* A guard that times out or answers nonsense is a RuntimeError.           *)
GuardFails ==
  /\ loop # NoCall /\ AsksGuard
  /\ Fault
  /\ Return("error", << >>)
  /\ UNCHANGED <<request, waiting, expired, tool, cleared>>

-----------------------------------------------------------------------------
LoopStep == \E c \in Calls : Answer(c) \/ Run(c) \/ Drop(c)

ToolStep ==
  \/ FetchFails \/ FetchToScreen \/ FetchToReturn
  \/ ScreenBlankPart \/ ScreenCleanPart \/ ScreenBlockedPart
  \/ ClassifyInput \/ ModerateInput \/ AnonymizeInput \/ AnonymizeInputFails
  \/ GuardToolAnswers \/ GuardFails

Finished == (\A c \in Calls : pc[c] = "ended") /\ UNCHANGED vars

Next ==
  \/ \E c \in Calls : Send(c) \/ GiveUp(c)
  \/ Expire \/ LoopStep \/ ToolStep \/ Finished

(* The loop takes up the requests it has read, and every call of a back    *)
(* end or a guard is answered, fails or times out.                         *)
Fairness == WF_vars(LoopStep) /\ WF_vars(ToolStep)

Spec == Init /\ [][Next]_vars
LiveSpec == Spec /\ Fairness

-----------------------------------------------------------------------------
(* What a screened tool returns was found clean during this very call,     *)
(* every part that is not blank, whatever fails or is given up meanwhile.  *)
(* An error is no such result: what a quoting tool says of a failing back  *)
(* end carries that back end's words to the workload, and none of them was *)
(* screened.                                                               *)
ResultsAreScreened ==
  \A c \in Calls :
    reply[c].status = "ok" /\ request[c].kind = "call" /\ request[c].name \in ScreenedTools =>
      \A i \in DOMAIN reply[c].content :
        LET part == reply[c].content[i]
        IN part \in Blank \/ <<"classify", part>> \in cleared[c]

(* screen_user_input accepts an input only after both models found it      *)
(* clean, returns nothing but its anonymized form, and returns no text of  *)
(* one it rejects: a failing guard never lets an input pass.               *)
AcceptedInputIsClean ==
  \A c \in Calls :
    LET r == reply[c]
        text == request[c].text
    IN /\ r.status = "accepted" =>
            \/ text \in Blank /\ r.content = <<text>>
            \/ /\ {<<"classify", text>>, <<"moderate", text>>} \subseteq cleared[c]
               /\ r.content = <<Anonymized(text)>>
       /\ r.status = "rejected" => r.content = << >>

(* A request is answered unless its client gives up first, also behind     *)
(* calls whose clients have left and whose tools still hold the loop.      *)
CallsEnd ==
  \A c \in Calls : (pc[c] = "sent") ~> (reply[c] # NoReply \/ ~waiting[c])
=============================================================================
