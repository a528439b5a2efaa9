----------------------------- MODULE PromptGuard -----------------------------
(***************************************************************************)
(* The prompt guard sidecar: a thread per request.  /classify runs the     *)
(* heuristic checks on overlapping windows of words and then a model on    *)
(* overlapping windows of tokens, /moderate only a model.  Each model has  *)
(* one lock, held for all windows of a text.  A model may raise at any     *)
(* window.  The models are represented by what they find in each window.   *)
(***************************************************************************)
EXTENDS PhraseChecks

CONSTANTS
  Handlers,     \* threads, one for each request
  Arrivals,     \* the requests that may arrive together, one at each thread
  Categories,   \* the models' labels apart from the benign one
  ChunkSize,    \* words of a window,
  Overlap       \* and those it shares with the next one

Paths == {"classify", "moderate"}

(* A request: its path, which also names the model it needs, the text as   *)
(* normalized words, and what the model finds in each window of tokens.    *)
(* A text without windows is blank.                                        *)
Requests ==
  {r \in [path : Paths, text : Seq(Words), windows : Seq(SUBSET Categories)] :
     r.windows = << >> => r.text = << >>}

ASSUME ArrivalsAssumption == Arrivals \subseteq [Handlers -> Requests]
ASSUME ChunksAssumption ==
  /\ ChunkSize \in Nat /\ Overlap \in Nat /\ Overlap < ChunkSize
  /\ "UNKNOWN" \notin Categories /\ Categories \cap Indicators = {}

VARIABLES
  path,      \* the requests
  text,
  windows,
  pc,
  start,     \* number of words before the next window of words
  window,    \* number of the current token window
  found,     \* the indicators or labels so far
  lock,      \* whether a classifier is in use
  raised     \* the model has raised, kept for the properties

request == <<path, text, windows>>
vars == <<request, pc, start, window, found, lock, raised>>

ModelFinding == "meta_llama_prompt_guard"
Exceptional(p) == IF p = "classify" THEN "checker_exception" ELSE "UNKNOWN"
Step == ChunkSize - Overlap

TypeOK ==
  /\ path \in [Handlers -> Paths] /\ text \in [Handlers -> Seq(Words)]
  /\ windows \in [Handlers -> Seq(SUBSET Categories)]
  /\ pc \in [Handlers -> {"received", "chunks", "acquire", "windows", "answered", "refused"}]
  /\ start \in [Handlers -> Nat]
  /\ window \in [Handlers -> Nat]
  /\ \A h \in Handlers : pc[h] = "windows" => window[h] \in DOMAIN windows[h]
  /\ found \in [Handlers -> SUBSET (Indicators \cup Categories
                                     \cup {ModelFinding, "checker_exception", "UNKNOWN"})]
  /\ lock \in [Paths -> BOOLEAN]
  /\ raised \in [Handlers -> BOOLEAN]

Init ==
  /\ \E arriving \in Arrivals :
       /\ path = [h \in Handlers |-> arriving[h].path]
       /\ text = [h \in Handlers |-> arriving[h].text]
       /\ windows = [h \in Handlers |-> arriving[h].windows]
  /\ pc = [h \in Handlers |-> "received"]
  /\ start = [h \in Handlers |-> 0]
  /\ window = [h \in Handlers |-> 0]
  /\ found = [h \in Handlers |-> {}]
  /\ lock = [p \in Paths |-> FALSE]
  /\ raised = [h \in Handlers |-> FALSE]

-----------------------------------------------------------------------------
Goes(h, from, to) ==
  /\ pc[h] = from
  /\ pc' = [pc EXCEPT ![h] = to]

(* A model has nothing to do for a blank text.                             *)
ModelStage(h) == IF windows[h] = << >> THEN "answered" ELSE "acquire"

(* do_POST: media type, length, UTF-8, JSON or "text" is wrong.            *)
Refuse(h) ==
  /\ Goes(h, "received", "refused")
  /\ UNCHANGED <<request, start, window, found, lock, raised>>

Receive(h) ==
  /\ Goes(h, "received",
          IF path[h] = "classify" /\ text[h] # << >> THEN "chunks" ELSE ModelStage(h))
  /\ UNCHANGED <<request, start, window, found, lock, raised>>

Chunk(words, first) ==
  SubSeq(words, first + 1, IF first + ChunkSize < Len(words) THEN first + ChunkSize ELSE Len(words))

(* Mutation: the windows do not overlap.                                   *)
CheckChunkWithoutOverlap(h) ==
  /\ Goes(h, "chunks", IF start[h] + ChunkSize >= Len(text[h]) THEN ModelStage(h) ELSE "chunks")
  /\ start' = [start EXCEPT ![h] = @ + ChunkSize]
  /\ \E words \in {Chunk(text[h], start[h])} :
       found' = [found EXCEPT ![h] = @ \cup Attempts(words)]
  /\ UNCHANGED <<request, window, lock, raised>>

(* One round of the loop over range(0, n, step); it ends early with the    *)
(* first window that reaches the last word.                                *)
CheckChunk(h) ==
  /\ Goes(h, "chunks", IF start[h] + ChunkSize >= Len(text[h]) THEN ModelStage(h) ELSE "chunks")
  /\ start' = [start EXCEPT ![h] = @ + Step]
  /\ \E words \in {Chunk(text[h], start[h])} :
       found' = [found EXCEPT ![h] = @ \cup Attempts(words)]
  /\ UNCHANGED <<request, window, lock, raised>>

-----------------------------------------------------------------------------
Acquire(h) ==
  /\ Goes(h, "acquire", "windows")
  /\ ~lock[path[h]]
  /\ lock' = [lock EXCEPT ![path[h]] = TRUE]
  /\ window' = [window EXCEPT ![h] = 1]
  /\ UNCHANGED <<request, start, found, raised>>

Release(h) == lock' = [lock EXCEPT ![path[h]] = FALSE]

IsLast(h) == window[h] = Len(windows[h])

NextWindow(h) ==
  /\ pc[h] = "windows" /\ ~IsLast(h)
  /\ window' = [window EXCEPT ![h] = @ + 1]
  /\ UNCHANGED <<request, pc, start, lock, raised>>

(* Llama: a malicious window ends the classification,                      *)
ClassifyMalicious(h) ==
  /\ path[h] = "classify"
  /\ Goes(h, "windows", "answered")
  /\ windows[h][window[h]] # {}
  /\ found' = [found EXCEPT ![h] = @ \cup {ModelFinding}]
  /\ Release(h)
  /\ UNCHANGED <<request, start, window, raised>>

(* Mutation: a benign window ends the classification too.                  *)
ClassifyOneWindow(h) ==
  /\ path[h] = "classify"
  /\ Goes(h, "windows", "answered")
  /\ windows[h][window[h]] = {}
  /\ Release(h)
  /\ UNCHANGED <<request, start, window, found, raised>>

(* a benign one does so if it is the last.                                 *)
ClassifyBenign(h) ==
  /\ path[h] = "classify" /\ pc[h] = "windows"
  /\ windows[h][window[h]] = {}
  /\ \/ NextWindow(h) /\ UNCHANGED found
     \/ /\ IsLast(h)
        /\ Goes(h, "windows", "answered")
        /\ Release(h)
        /\ UNCHANGED <<request, start, window, found, raised>>

(* Koala: every label over the threshold, of every window.                 *)
ModerateWindow(h) ==
  /\ path[h] = "moderate" /\ pc[h] = "windows"
  /\ found' = [found EXCEPT ![h] = @ \cup windows[h][window[h]]]
  /\ \/ NextWindow(h)
     \/ /\ IsLast(h)
        /\ Goes(h, "windows", "answered")
        /\ Release(h)
        /\ UNCHANGED <<request, start, window, raised>>

(* Mutation: a raising model adds nothing to the answer.                   *)
RaisesUnnoticed(h) ==
  /\ Goes(h, "windows", "answered")
  /\ Release(h)
  /\ raised' = [raised EXCEPT ![h] = TRUE]
  /\ UNCHANGED <<request, start, window, found>>

(* Mutation: the lock is not handed back.                                  *)
RaisesWithLock(h) ==
  /\ Goes(h, "windows", "answered")
  /\ raised' = [raised EXCEPT ![h] = TRUE]
  /\ found' = [found EXCEPT ![h] = {Exceptional(path[h])}]
  /\ UNCHANGED <<request, start, window, lock>>

(* The model raises.  run_checks keeps what the heuristic checks found;    *)
(* the labels of earlier windows are lost with get_koala_labels.           *)
Raises(h) ==
  /\ Goes(h, "windows", "answered")
  /\ Release(h)
  /\ raised' = [raised EXCEPT ![h] = TRUE]
  /\ found' = [found EXCEPT ![h] =
                 IF path[h] = "classify" THEN @ \cup {Exceptional(path[h])}
                 ELSE {Exceptional(path[h])}]
  /\ UNCHANGED <<request, start, window>>

-----------------------------------------------------------------------------
ModelStep(h) ==
  \/ ClassifyMalicious(h) \/ ClassifyBenign(h) \/ ModerateWindow(h) \/ Raises(h)

HandlerStep(h) ==
  \/ Refuse(h) \/ Receive(h) \/ CheckChunk(h) \/ Acquire(h) \/ ModelStep(h)

Finished ==
  /\ \A h \in Handlers : pc[h] \in {"answered", "refused"}
  /\ UNCHANGED vars

Next == (\E h \in Handlers : HandlerStep(h)) \/ Finished

(* Threads are scheduled and inference ends.  A free lock goes to one of   *)
(* the threads that wait for it, not to a given one.                       *)
Fairness == WF_vars(\E h \in Handlers : HandlerStep(h))

Spec == Init /\ [][Next]_vars /\ Fairness

-----------------------------------------------------------------------------
Answered(h) == pc[h] = "answered"

(* An attempt whose words span at most Overlap + 1 positions lies within   *)
(* one window, wherever in the text it begins, and is reported: run_checks *)
(* cuts the text without cutting such a phrase in two.                     *)
ShortAttemptsAreFound ==
  \A h \in Handlers : Answered(h) /\ path[h] = "classify" =>
    \A c \in Indicators : \A i \in 1..Len(text[h]) :
       Says(c, text[h], i, IF i + Overlap < Len(text[h]) THEN i + Overlap ELSE Len(text[h]))
         => c \in found[h]

(* Behind the previous property: wherever a span of Overlap + 1 words      *)
(* begins, some window that holds all of it, or all of its words up to the *)
(* end of the text, has been checked and what it shows is in the answer.   *)
EverySpanIsChecked ==
  \A h \in Handlers : Answered(h) /\ path[h] = "classify" =>
    \A i \in 1..Len(text[h]) : \E first \in 0..(i - 1) :
       /\ i + Overlap <= first + ChunkSize \/ Len(text[h]) <= first + ChunkSize
       /\ Attempts(Chunk(text[h], first)) \subseteq found[h]

(* Replacing, dropping and cutting invent no attempt: what a check reports *)
(* of a window stands in the text.                                         *)
FoundAttemptsExist ==
  \A h \in Handlers : \A c \in Indicators \cap found[h] :
    Says(c, text[h], 1, Len(text[h]))

(* An answer without indicators or labels means that every window of the   *)
(* text was seen and found clean: neither an early return nor an exception *)
(* of the model passes for a clean text.                                   *)
EmptyAnswersAreClean ==
  \A h \in Handlers : Answered(h) /\ found[h] = {} =>
    /\ ~raised[h]
    /\ \A i \in DOMAIN windows[h] : windows[h][i] = {}

(* Moderation without an exception reports the labels of all windows.      *)
LabelsAreComplete ==
  \A h \in Handlers : Answered(h) /\ path[h] = "moderate" /\ ~raised[h] =>
    found[h] = UNION {windows[h][i] : i \in DOMAIN windows[h]}

(* What an answer says of the text is neither more nor less than what the  *)
(* windows showed.                                                         *)
AnswersReflectWindows == EmptyAnswersAreClean /\ LabelsAreComplete

(* A classifier serves one text at a time, and its lock is taken exactly   *)
(* as long as a thread is between its windows: no way out of the model     *)
(* keeps it.                                                               *)
LockFollowsInference ==
  \A p \in Paths :
    LET inside == {h \in Handlers : path[h] = p /\ pc[h] = "windows"}
    IN /\ lock[p] <=> inside # {}
       /\ \A g, h \in inside : g = h

(* Every request gets an answer, also behind one whose model raised.       *)
HandlersEnd == <>(\A h \in Handlers : pc[h] \in {"answered", "refused"})
=============================================================================
