--------------------------- MODULE DocumentSearch ---------------------------
(***************************************************************************)
(* The tool get_matching_chunks_from_document from the MCP server down to  *)
(* Qdrant.  The embeddings sidecar ingests a document at its first search: *)
(* Docling converts it into chunks, their points go into one collection,   *)
(* and a manifest in a second collection marks the document as complete.   *)
(* The MCP server calls one tool at a time, but gives up after 240 s while *)
(* the handler thread goes on, so that handlers of several calls meet at   *)
(* the ingestion lock.  Every call to Docling or Qdrant may raise, and     *)
(* Qdrant may apply a write whose client has stopped waiting.              *)
(***************************************************************************)
EXTENDS Naturals

CONSTANTS
  Calls,        \* tool calls of one run
  Documents,    \* staged files; they do not change during a run
  Chunks,
  ChunksOf,     \* what Docling makes of a document, perhaps nothing
  MaxFaults     \* bound on the calls to Docling and Qdrant that raise

ASSUME ChunksAssumption == ChunksOf \in [Documents -> SUBSET Chunks]
ASSUME FaultsAssumption == MaxFaults \in Nat

VARIABLES
  document,     \* the filename of each call
  blank,        \* its prompt consists of white space
  tool,         \* the tool function in the MCP server
  thread,       \* the handler thread in the embeddings sidecar
  lock,         \* _INGESTION_LOCK is taken
  points,       \* the chunks of each document in document_chunks
  manifests,    \* the documents in document_manifests
  lateWrites,   \* documents with an abandoned upsert of points
  lateManifests,\* documents with an abandoned upsert of their manifest
  searched,     \* the points a call's query has ranked, kept for the properties
  conversions,  \* how often Docling was asked for a document, and
  failures,     \* how often an ingestion has failed since: for the properties
  faults

qdrant == <<points, manifests, lateWrites, lateManifests>>
counts == <<conversions, failures>>
vars   == <<document, blank, tool, thread, lock, qdrant, searched, counts, faults>>

Ingesting == {"lookup", "convert", "store", "complete"}

TypeOK ==
  /\ document \in [Calls -> Documents] /\ blank \in [Calls -> BOOLEAN]
  /\ tool \in [Calls -> {"idle", "waiting", "chunks", "empty", "error"}]
  /\ thread \in [Calls -> {"idle", "started", "query", "done"} \cup Ingesting]
  /\ lock \in BOOLEAN
  /\ points \in [Documents -> SUBSET Chunks]
  /\ \A d \in Documents : points[d] \subseteq ChunksOf[d]
  /\ manifests \subseteq Documents
  /\ lateWrites \subseteq Documents /\ lateManifests \subseteq Documents
  /\ searched \in [Calls -> SUBSET Chunks]
  /\ conversions \in [Documents -> Nat] /\ failures \in [Documents -> Nat]
  /\ faults \in 0..MaxFaults

Init ==
  /\ document \in [Calls -> Documents] /\ blank \in [Calls -> BOOLEAN]
  /\ tool = [c \in Calls |-> "idle"] /\ thread = [c \in Calls |-> "idle"]
  /\ lock = FALSE
  /\ points = [d \in Documents |-> {}] /\ manifests = {}
  /\ lateWrites = {} /\ lateManifests = {}
  /\ searched = [c \in Calls |-> {}]
  /\ conversions = [d \in Documents |-> 0] /\ failures = [d \in Documents |-> 0]
  /\ faults = 0

-----------------------------------------------------------------------------
(* The MCP server.  Its one event loop runs a tool function to its end, so *)
(* that no tool starts while another one waits.                            *)

CallTool(c) ==
  /\ tool[c] = "idle"
  /\ \A e \in Calls : tool[e] # "waiting"
  /\ tool' = [tool EXCEPT ![c] = "waiting"]
  /\ thread' = [thread EXCEPT ![c] = "started"]
  /\ UNCHANGED <<document, blank, lock, qdrant, searched, counts, faults>>

ToolTimesOut(c) ==
  /\ tool[c] = "waiting"
  /\ tool' = [tool EXCEPT ![c] = "error"]
  /\ UNCHANGED <<document, blank, thread, lock, qdrant, searched, counts, faults>>

-----------------------------------------------------------------------------
(* The handler thread: _ensure_document_indexed, then the query.           *)

Goes(c, from, to) ==
  /\ thread[c] = from
  /\ thread' = [thread EXCEPT ![c] = to]

(* An answer reaches the tool if it still waits.                           *)
Answers(c, from, result) ==
  /\ Goes(c, from, "done")
  /\ tool' = [tool EXCEPT ![c] = IF @ = "waiting" THEN result ELSE @]

(* Mutation: ingestions do not exclude each other.                         *)
AcquireUnlocked(c) ==
  /\ Goes(c, "started", "lookup")
  /\ lock' = TRUE
  /\ UNCHANGED <<document, blank, tool, qdrant, searched, counts, faults>>

Acquire(c) ==
  /\ Goes(c, "started", "lookup")
  /\ ~lock
  /\ lock' = TRUE
  /\ UNCHANGED <<document, blank, tool, qdrant, searched, counts, faults>>

(* Mutation: a stored point counts as a stored document.                   *)
FindAnyPoint(c) ==
  /\ Goes(c, "lookup", "query")
  /\ points[document[c]] # {}
  /\ lock' = FALSE
  /\ UNCHANGED <<document, blank, tool, qdrant, searched, counts, faults>>

(* The collection of manifests is created here if it does not exist.       *)
FindManifest(c) ==
  /\ Goes(c, "lookup", "query")
  /\ document[c] \in manifests
  /\ lock' = FALSE
  /\ UNCHANGED <<document, blank, tool, qdrant, searched, counts, faults>>

MissManifest(c) ==
  /\ Goes(c, "lookup", "convert")
  /\ document[c] \notin manifests
  /\ UNCHANGED <<document, blank, tool, lock, qdrant, searched, counts, faults>>

(* Mutation: the manifest is written before the points.                    *)
ConvertMarksDocument(c) ==
  /\ Goes(c, "convert", "store")
  /\ ChunksOf[document[c]] # {}
  /\ manifests' = manifests \cup {document[c]}
  /\ conversions' = [conversions EXCEPT ![document[c]] = @ + 1]
  /\ UNCHANGED <<document, blank, tool, lock, points, lateWrites, lateManifests,
                 searched, failures, faults>>

Convert(c) ==
  /\ Goes(c, "convert", "store")
  /\ ChunksOf[document[c]] # {}
  /\ conversions' = [conversions EXCEPT ![document[c]] = @ + 1]
  /\ UNCHANGED <<document, blank, tool, lock, qdrant, searched, failures, faults>>

(* A document without text gets no manifest and is converted every time.   *)
ConvertEmpty(c) ==
  /\ Answers(c, "convert", "empty")
  /\ ChunksOf[document[c]] = {}
  /\ conversions' = [conversions EXCEPT ![document[c]] = @ + 1]
  /\ lock' = FALSE
  /\ UNCHANGED <<document, blank, qdrant, searched, failures, faults>>

(* One upsert of all points, whose identifiers derive from filename, model *)
(* and index; the collection is created before it if it does not exist.    *)
StorePoints(c) ==
  /\ Goes(c, "store", "complete")
  /\ points' = [points EXCEPT ![document[c]] = ChunksOf[document[c]]]
  /\ UNCHANGED <<document, blank, tool, lock, manifests, lateWrites, lateManifests,
                 searched, counts, faults>>

StoreManifest(c) ==
  /\ Goes(c, "complete", "query")
  /\ manifests' = manifests \cup {document[c]}
  /\ lock' = FALSE
  /\ UNCHANGED <<document, blank, tool, points, lateWrites, lateManifests,
                 searched, counts, faults>>

Query(c) ==
  /\ Answers(c, "query", "chunks")
  /\ ~blank[c]
  /\ searched' = [searched EXCEPT ![c] = points[document[c]]]
  /\ UNCHANGED <<document, blank, lock, qdrant, counts, faults>>

(* The prompt is examined only after the ingestion.                        *)
RejectPrompt(c) ==
  /\ Answers(c, "query", "error")
  /\ blank[c]
  /\ UNCHANGED <<document, blank, lock, qdrant, searched, counts, faults>>

-----------------------------------------------------------------------------
(* Failures: an exception leaves the `with` block and answers 500.         *)

Raises(c, from) ==
  /\ Answers(c, from, "error")
  /\ faults < MaxFaults
  /\ faults' = faults + 1
  /\ UNCHANGED <<document, blank, manifests, searched>>

(* The embedding model, the look-up or the query.                          *)
CallRaises(c) ==
  /\ \E from \in {"started", "lookup", "query"} : Raises(c, from)
  /\ lock' = (lock /\ thread[c] # "lookup")
  /\ UNCHANGED <<points, lateWrites, lateManifests, counts>>

ConvertRaises(c) ==
  /\ Raises(c, "convert")
  /\ lock' = FALSE
  /\ conversions' = [conversions EXCEPT ![document[c]] = @ + 1]
  /\ failures' = [failures EXCEPT ![document[c]] = @ + 1]
  /\ UNCHANGED <<points, lateWrites, lateManifests>>

(* Qdrant has stored some of the points, and may store the rest later.     *)
StorePointsRaises(c) ==
  /\ Raises(c, "store")
  /\ lock' = FALSE
  /\ \E some \in SUBSET ChunksOf[document[c]] :
       points' = [points EXCEPT ![document[c]] = @ \cup some]
  /\ lateWrites' \in {lateWrites, lateWrites \cup {document[c]}}
  /\ failures' = [failures EXCEPT ![document[c]] = @ + 1]
  /\ UNCHANGED <<lateManifests, conversions>>

(* Mutation: the lock is released in the normal course only.               *)
StoreManifestRaisesLocked(c) ==
  /\ Raises(c, "complete")
  /\ lateManifests' \in {lateManifests, lateManifests \cup {document[c]}}
  /\ failures' = [failures EXCEPT ![document[c]] = @ + 1]
  /\ UNCHANGED <<lock, points, lateWrites, conversions>>

StoreManifestRaises(c) ==
  /\ Raises(c, "complete")
  /\ lock' = FALSE
  /\ lateManifests' \in {lateManifests, lateManifests \cup {document[c]}}
  /\ failures' = [failures EXCEPT ![document[c]] = @ + 1]
  /\ UNCHANGED <<points, lateWrites, conversions>>

LateWrite(d) ==
  /\ d \in lateWrites
  /\ lateWrites' = lateWrites \ {d}
  /\ points' = [points EXCEPT ![d] = ChunksOf[d]]
  /\ UNCHANGED <<document, blank, tool, thread, lock, manifests, lateManifests,
                 searched, counts, faults>>

LateManifest(d) ==
  /\ d \in lateManifests
  /\ lateManifests' = lateManifests \ {d}
  /\ manifests' = manifests \cup {d}
  /\ UNCHANGED <<document, blank, tool, thread, lock, points, lateWrites,
                 searched, counts, faults>>

-----------------------------------------------------------------------------
ThreadStep(c) ==
  \/ Acquire(c) \/ FindManifest(c) \/ MissManifest(c)
  \/ Convert(c) \/ ConvertEmpty(c) \/ StorePoints(c) \/ StoreManifest(c)
  \/ Query(c) \/ RejectPrompt(c)
  \/ CallRaises(c) \/ ConvertRaises(c) \/ StorePointsRaises(c) \/ StoreManifestRaises(c)

Finished ==
  /\ \A c \in Calls : thread[c] = "done"
  /\ UNCHANGED vars

Next ==
  \/ \E c \in Calls : CallTool(c) \/ ToolTimesOut(c) \/ ThreadStep(c)
  \/ \E d \in Documents : LateWrite(d) \/ LateManifest(d)
  \/ Finished

Spec == Init /\ [][Next]_vars

(* Docling and Qdrant answer or time out, and a free lock is given to some *)
(* thread that waits for it; nothing says to which.                        *)
LiveSpec == Spec /\ WF_vars(\E c \in Calls : ThreadStep(c))

-----------------------------------------------------------------------------
(* Whatever failed, was abandoned or was stored late: a document with a    *)
(* manifest has all of its chunks in the collection.                       *)
ManifestMeansStored ==
  \A d \in manifests : points[d] = ChunksOf[d] /\ points[d] # {}

(* A caller that gets chunks gets the best of the whole document, never of *)
(* the part that an interrupted or a running ingestion has stored; only a  *)
(* document without text is answered without a query.                      *)
AnswersAreOfWholeDocuments ==
  \A c \in Calls :
    /\ tool[c] = "chunks" => searched[c] = ChunksOf[document[c]] /\ searched[c] # {}
    /\ tool[c] = "empty" => ChunksOf[document[c]] = {}

(* Calls that give up and call again while the first ingestion still runs  *)
(* cost no second conversion: a document with text is converted again only *)
(* after an ingestion of it has failed.                                    *)
ConvertedAgainOnlyAfterFailure ==
  \A d \in Documents : ChunksOf[d] # {} => conversions[d] <= failures[d] + 1

(* Every handler ends, with the lock handed on by whoever has held it,     *)
(* however its predecessor ended.                                          *)
HandlersEnd ==
  \A c \in Calls : thread[c] = "started" ~> thread[c] = "done"

=============================================================================
