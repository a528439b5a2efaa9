------------------------ MODULE DocumentSearchProofs ------------------------
(***************************************************************************)
(* Theorems about DocumentSearch for all calls, documents and numbers of   *)
(* faults: the manifest's promise, the answers and the number of           *)
(* conversions, from one inductive invariant.                              *)
(***************************************************************************)
EXTENDS DocumentSearch, TLAPS

(* Who ingests holds the lock and nobody else does; a thread has a call.   *)
LockInv ==
  /\ \A c \in Calls : tool[c] = "idle" => thread[c] = "idle"
  /\ \A c \in Calls : thread[c] \in Ingesting => lock
  /\ \A c, e \in Calls : thread[c] \in Ingesting /\ thread[e] \in Ingesting => c = e

(* A manifest, written or still on its way, is preceded by the points.     *)
StoreInv ==
  /\ \A d \in manifests \cup lateManifests : points[d] = ChunksOf[d] /\ ChunksOf[d] # {}
  /\ \A c \in Calls :
       /\ thread[c] \in {"store", "complete"} => ChunksOf[document[c]] # {}
       /\ thread[c] = "complete" => points[document[c]] = ChunksOf[document[c]]
       /\ thread[c] = "query" => document[c] \in manifests

(* A conversion is in use, has led to a manifest, or its ingestion failed. *)
Converted(d) ==
  d \in manifests \/ \E c \in Calls : document[c] = d /\ thread[c] \in {"store", "complete"}

CountInv ==
  /\ \A d \in Documents : ChunksOf[d] # {} =>
       /\ conversions[d] <= failures[d] + 1
       /\ ~Converted(d) => conversions[d] <= failures[d]
  /\ \A c \in Calls : thread[c] = "convert" /\ ChunksOf[document[c]] # {} =>
       conversions[document[c]] <= failures[document[c]]

SearchInv == TypeOK /\ LockInv /\ StoreInv /\ AnswersAreOfWholeDocuments /\ CountInv

LEMMA TypeInit == Init => TypeOK
<1> SUFFICES ASSUME Init PROVE TypeOK
  OBVIOUS
<1>1. faults \in 0..MaxFaults
  BY FaultsAssumption DEF Init, FaultsAssumption
<1>2. conversions \in [Documents -> Nat] /\ failures \in [Documents -> Nat]
  BY DEF Init
<1>3. /\ points \in [Documents -> SUBSET Chunks]
      /\ \A d \in Documents : points[d] \subseteq ChunksOf[d]
  BY DEF Init
<1> QED
  BY <1>1, <1>2, <1>3 DEF Init, TypeOK

(* What an answer, given or failed, changes.                               *)
LEMMA AnswerTypes ==
  ASSUME TypeOK, NEW c \in Calls, NEW from, NEW result \in {"chunks", "empty", "error"},
         Answers(c, from, result)
  PROVE  /\ tool' \in [Calls -> {"idle", "waiting", "chunks", "empty", "error"}]
         /\ thread' \in [Calls -> {"idle", "started", "query", "done"} \cup Ingesting]
  BY DEF Answers, Goes, TypeOK

LEMMA FailureTypes ==
  ASSUME TypeOK, NEW c \in Calls, NEW from, Raises(c, from)
  PROVE  /\ tool' \in [Calls -> {"idle", "waiting", "chunks", "empty", "error"}]
         /\ thread' \in [Calls -> {"idle", "started", "query", "done"} \cup Ingesting]
         /\ faults' \in 0..MaxFaults
<1>1. faults' \in 0..MaxFaults
  BY FaultsAssumption DEF Raises, TypeOK, FaultsAssumption
<1> QED
  BY <1>1, AnswerTypes DEF Raises

LEMMA CountTypes ==
  ASSUME NEW f \in [Documents -> Nat], NEW d \in Documents
  PROVE  [f EXCEPT ![d] = @ + 1] \in [Documents -> Nat]
  OBVIOUS

LEMMA TypeStep == TypeOK /\ [Next]_vars => TypeOK'
<1> SUFFICES ASSUME TypeOK, [Next]_vars PROVE TypeOK'
  OBVIOUS
<1> USE ChunksAssumption, FaultsAssumption DEF ChunksAssumption, FaultsAssumption
<1>1. ASSUME NEW c \in Calls, CallTool(c) PROVE TypeOK'
  BY <1>1 DEF CallTool, TypeOK, qdrant, counts
<1>2. ASSUME NEW c \in Calls, ToolTimesOut(c) PROVE TypeOK'
  BY <1>2 DEF ToolTimesOut, TypeOK, qdrant, counts
<1>3. ASSUME NEW c \in Calls, ThreadStep(c) PROVE TypeOK'
  <2>1. CASE Acquire(c)
    BY <2>1 DEF Acquire, Goes, TypeOK, Ingesting, qdrant, counts
  <2>2. CASE FindManifest(c)
    BY <2>2 DEF FindManifest, Goes, TypeOK, Ingesting, qdrant, counts
  <2>3. CASE MissManifest(c)
    BY <2>3 DEF MissManifest, Goes, TypeOK, Ingesting, qdrant, counts
  <2>4. CASE Convert(c)
    BY <2>4 DEF Convert, Goes, TypeOK, Ingesting, qdrant, counts
  <2>5. CASE ConvertEmpty(c)
    BY <2>5, AnswerTypes, CountTypes DEF ConvertEmpty, TypeOK, qdrant, counts
  <2>6. CASE StorePoints(c)
    BY <2>6 DEF StorePoints, Goes, TypeOK, Ingesting, qdrant, counts
  <2>7. CASE StoreManifest(c)
    BY <2>7 DEF StoreManifest, Goes, TypeOK, Ingesting, qdrant, counts
  <2>8. CASE Query(c)
    BY <2>8 DEF Query, Answers, Goes, TypeOK, Ingesting, qdrant, counts
  <2>9. CASE RejectPrompt(c)
    BY <2>9 DEF RejectPrompt, Answers, Goes, TypeOK, Ingesting, qdrant, counts
  <2>10. CASE CallRaises(c)
    BY <2>10 DEF CallRaises, Raises, Answers, Goes, TypeOK, Ingesting, qdrant, counts
  <2>11. CASE ConvertRaises(c)
    BY <2>11, FailureTypes, CountTypes DEF ConvertRaises, Raises, TypeOK, qdrant, counts
  <2>12. CASE StorePointsRaises(c)
    <3>1. PICK some \in SUBSET ChunksOf[document[c]] :
            points' = [points EXCEPT ![document[c]] = @ \cup some]
      BY <2>12 DEF StorePointsRaises
    <3>2. /\ points' \in [Documents -> SUBSET Chunks]
          /\ \A d \in Documents : points'[d] \subseteq ChunksOf[d]
      BY <3>1 DEF TypeOK
    <3>3. lateWrites' \subseteq Documents
      BY <2>12 DEF StorePointsRaises, TypeOK
    <3>4. conversions' \in [Documents -> Nat] /\ failures' \in [Documents -> Nat]
      BY <2>12, CountTypes DEF StorePointsRaises, TypeOK
    <3> QED
      BY <2>12, <3>2, <3>3, <3>4, FailureTypes DEF StorePointsRaises, Raises, TypeOK
  <2>13. CASE StoreManifestRaises(c)
    BY <2>13, FailureTypes, CountTypes DEF StoreManifestRaises, Raises, TypeOK, qdrant, counts
  <2> QED
    BY <1>3, <2>1, <2>2, <2>3, <2>4, <2>5, <2>6, <2>7, <2>8, <2>9, <2>10, <2>11,
       <2>12, <2>13 DEF ThreadStep
<1>4. ASSUME NEW d \in Documents, LateWrite(d) PROVE TypeOK'
  BY <1>4 DEF LateWrite, TypeOK, qdrant, counts
<1>5. ASSUME NEW d \in Documents, LateManifest(d) PROVE TypeOK'
  BY <1>5 DEF LateManifest, TypeOK, qdrant, counts
<1>6. CASE Finished \/ UNCHANGED vars
  BY <1>6 DEF Finished, TypeOK, vars, qdrant, counts
<1> QED
  BY <1>1, <1>2, <1>3, <1>4, <1>5, <1>6 DEF Next

LEMMA LockStep == SearchInv /\ [Next]_vars => LockInv'
<1> SUFFICES ASSUME SearchInv, [Next]_vars PROVE LockInv'
  OBVIOUS
<1> USE ChunksAssumption DEF ChunksAssumption, SearchInv, TypeOK, LockInv, Ingesting
<1>1. ASSUME NEW c \in Calls, CallTool(c) PROVE LockInv'
  BY <1>1 DEF CallTool, qdrant, counts
<1>2. ASSUME NEW c \in Calls, ToolTimesOut(c) PROVE LockInv'
  BY <1>2 DEF ToolTimesOut, qdrant, counts
<1>3. ASSUME NEW c \in Calls, Acquire(c) PROVE LockInv'
  BY <1>3 DEF Acquire, Goes, qdrant, counts
<1>4. ASSUME NEW c \in Calls, FindManifest(c) PROVE LockInv'
  BY <1>4 DEF FindManifest, Goes, qdrant, counts
<1>5. ASSUME NEW c \in Calls, MissManifest(c) PROVE LockInv'
  BY <1>5 DEF MissManifest, Goes, qdrant, counts
<1>6. ASSUME NEW c \in Calls, Convert(c) PROVE LockInv'
  BY <1>6 DEF Convert, Goes, qdrant, counts
<1>7. ASSUME NEW c \in Calls, ConvertEmpty(c) PROVE LockInv'
  BY <1>7 DEF ConvertEmpty, Answers, Goes, qdrant, counts
<1>8. ASSUME NEW c \in Calls, StorePoints(c) PROVE LockInv'
  BY <1>8 DEF StorePoints, Goes, qdrant, counts
<1>9. ASSUME NEW c \in Calls, StoreManifest(c) PROVE LockInv'
  BY <1>9 DEF StoreManifest, Goes, qdrant, counts
<1>10. ASSUME NEW c \in Calls, Query(c) PROVE LockInv'
  BY <1>10 DEF Query, Answers, Goes, qdrant, counts
<1>11. ASSUME NEW c \in Calls, RejectPrompt(c) PROVE LockInv'
  BY <1>11 DEF RejectPrompt, Answers, Goes, qdrant, counts
<1>12. ASSUME NEW c \in Calls, CallRaises(c) PROVE LockInv'
  BY <1>12 DEF CallRaises, Raises, Answers, Goes, qdrant, counts
<1>13. ASSUME NEW c \in Calls, ConvertRaises(c) PROVE LockInv'
  BY <1>13 DEF ConvertRaises, Raises, Answers, Goes, qdrant, counts
<1>14. ASSUME NEW c \in Calls, StorePointsRaises(c) PROVE LockInv'
  BY <1>14 DEF StorePointsRaises, Raises, Answers, Goes, qdrant, counts
<1>15. ASSUME NEW c \in Calls, StoreManifestRaises(c) PROVE LockInv'
  BY <1>15 DEF StoreManifestRaises, Raises, Answers, Goes, qdrant, counts
<1>16. ASSUME NEW d \in Documents, LateWrite(d) PROVE LockInv'
  BY <1>16 DEF LateWrite, qdrant, counts
<1>17. ASSUME NEW d \in Documents, LateManifest(d) PROVE LockInv'
  BY <1>17 DEF LateManifest, qdrant, counts
<1>18. CASE Finished \/ UNCHANGED vars
  BY <1>18 DEF Finished, vars, qdrant, counts
<1> QED
  BY <1>1, <1>2, <1>3, <1>4, <1>5, <1>6, <1>7, <1>8, <1>9, <1>10, <1>11, <1>12, <1>13, <1>14, <1>15, <1>16, <1>17, <1>18 DEF Next, ThreadStep

LEMMA StoreStep == SearchInv /\ [Next]_vars => StoreInv'
<1> SUFFICES ASSUME SearchInv, [Next]_vars PROVE StoreInv'
  OBVIOUS
<1> USE ChunksAssumption DEF ChunksAssumption, SearchInv, TypeOK, LockInv, StoreInv, Ingesting
<1>1. ASSUME NEW c \in Calls, CallTool(c) PROVE StoreInv'
  BY <1>1 DEF CallTool, qdrant, counts
<1>2. ASSUME NEW c \in Calls, ToolTimesOut(c) PROVE StoreInv'
  BY <1>2 DEF ToolTimesOut, qdrant, counts
<1>3. ASSUME NEW c \in Calls, Acquire(c) PROVE StoreInv'
  BY <1>3 DEF Acquire, Goes, qdrant, counts
<1>4. ASSUME NEW c \in Calls, FindManifest(c) PROVE StoreInv'
  BY <1>4 DEF FindManifest, Goes, qdrant, counts
<1>5. ASSUME NEW c \in Calls, MissManifest(c) PROVE StoreInv'
  BY <1>5 DEF MissManifest, Goes, qdrant, counts
<1>6. ASSUME NEW c \in Calls, Convert(c) PROVE StoreInv'
  BY <1>6 DEF Convert, Goes, qdrant, counts
<1>7. ASSUME NEW c \in Calls, ConvertEmpty(c) PROVE StoreInv'
  BY <1>7 DEF ConvertEmpty, Answers, Goes, qdrant, counts
<1>8. ASSUME NEW c \in Calls, StorePoints(c) PROVE StoreInv'
  BY <1>8 DEF StorePoints, Goes, qdrant, counts
<1>9. ASSUME NEW c \in Calls, StoreManifest(c) PROVE StoreInv'
  BY <1>9 DEF StoreManifest, Goes, qdrant, counts
<1>10. ASSUME NEW c \in Calls, Query(c) PROVE StoreInv'
  BY <1>10 DEF Query, Answers, Goes, qdrant, counts
<1>11. ASSUME NEW c \in Calls, RejectPrompt(c) PROVE StoreInv'
  BY <1>11 DEF RejectPrompt, Answers, Goes, qdrant, counts
<1>12. ASSUME NEW c \in Calls, CallRaises(c) PROVE StoreInv'
  BY <1>12 DEF CallRaises, Raises, Answers, Goes, qdrant, counts
<1>13. ASSUME NEW c \in Calls, ConvertRaises(c) PROVE StoreInv'
  BY <1>13 DEF ConvertRaises, Raises, Answers, Goes, qdrant, counts
<1>14. ASSUME NEW c \in Calls, StorePointsRaises(c) PROVE StoreInv'
  <2>1. PICK some \in SUBSET ChunksOf[document[c]] :
          points' = [points EXCEPT ![document[c]] = @ \cup some]
    BY <1>14 DEF StorePointsRaises
  <2>2. \A d \in Documents : points[d] = ChunksOf[d] => points'[d] = ChunksOf[d]
    BY <2>1
  <2>3. /\ manifests' = manifests /\ lateManifests' = lateManifests /\ document' = document
        /\ thread' = [thread EXCEPT ![c] = "done"]
    BY <1>14 DEF StorePointsRaises, Raises, Answers, Goes
  <2> QED
    BY <2>2, <2>3
<1>15. ASSUME NEW c \in Calls, StoreManifestRaises(c) PROVE StoreInv'
  BY <1>15 DEF StoreManifestRaises, Raises, Answers, Goes, qdrant, counts
<1>16. ASSUME NEW d \in Documents, LateWrite(d) PROVE StoreInv'
  BY <1>16 DEF LateWrite, qdrant, counts
<1>17. ASSUME NEW d \in Documents, LateManifest(d) PROVE StoreInv'
  BY <1>17 DEF LateManifest, qdrant, counts
<1>18. CASE Finished \/ UNCHANGED vars
  BY <1>18 DEF Finished, vars, qdrant, counts
<1> QED
  BY <1>1, <1>2, <1>3, <1>4, <1>5, <1>6, <1>7, <1>8, <1>9, <1>10, <1>11, <1>12, <1>13, <1>14, <1>15, <1>16, <1>17, <1>18 DEF Next, ThreadStep

LEMMA AnswerStep == SearchInv /\ [Next]_vars => AnswersAreOfWholeDocuments'
<1> SUFFICES ASSUME SearchInv, [Next]_vars PROVE AnswersAreOfWholeDocuments'
  OBVIOUS
<1> USE ChunksAssumption DEF ChunksAssumption, SearchInv, TypeOK, LockInv, StoreInv, AnswersAreOfWholeDocuments, Ingesting
<1>1. ASSUME NEW c \in Calls, CallTool(c) PROVE AnswersAreOfWholeDocuments'
  BY <1>1 DEF CallTool, qdrant, counts
<1>2. ASSUME NEW c \in Calls, ToolTimesOut(c) PROVE AnswersAreOfWholeDocuments'
  BY <1>2 DEF ToolTimesOut, qdrant, counts
<1>3. ASSUME NEW c \in Calls, Acquire(c) PROVE AnswersAreOfWholeDocuments'
  BY <1>3 DEF Acquire, Goes, qdrant, counts
<1>4. ASSUME NEW c \in Calls, FindManifest(c) PROVE AnswersAreOfWholeDocuments'
  BY <1>4 DEF FindManifest, Goes, qdrant, counts
<1>5. ASSUME NEW c \in Calls, MissManifest(c) PROVE AnswersAreOfWholeDocuments'
  BY <1>5 DEF MissManifest, Goes, qdrant, counts
<1>6. ASSUME NEW c \in Calls, Convert(c) PROVE AnswersAreOfWholeDocuments'
  BY <1>6 DEF Convert, Goes, qdrant, counts
<1>7. ASSUME NEW c \in Calls, ConvertEmpty(c) PROVE AnswersAreOfWholeDocuments'
  BY <1>7 DEF ConvertEmpty, Answers, Goes, qdrant, counts
<1>8. ASSUME NEW c \in Calls, StorePoints(c) PROVE AnswersAreOfWholeDocuments'
  BY <1>8 DEF StorePoints, Goes, qdrant, counts
<1>9. ASSUME NEW c \in Calls, StoreManifest(c) PROVE AnswersAreOfWholeDocuments'
  BY <1>9 DEF StoreManifest, Goes, qdrant, counts
<1>10. ASSUME NEW c \in Calls, Query(c) PROVE AnswersAreOfWholeDocuments'
  BY <1>10 DEF Query, Answers, Goes, qdrant, counts
<1>11. ASSUME NEW c \in Calls, RejectPrompt(c) PROVE AnswersAreOfWholeDocuments'
  BY <1>11 DEF RejectPrompt, Answers, Goes, qdrant, counts
<1>12. ASSUME NEW c \in Calls, CallRaises(c) PROVE AnswersAreOfWholeDocuments'
  BY <1>12 DEF CallRaises, Raises, Answers, Goes, qdrant, counts
<1>13. ASSUME NEW c \in Calls, ConvertRaises(c) PROVE AnswersAreOfWholeDocuments'
  BY <1>13 DEF ConvertRaises, Raises, Answers, Goes, qdrant, counts
<1>14. ASSUME NEW c \in Calls, StorePointsRaises(c) PROVE AnswersAreOfWholeDocuments'
  BY <1>14 DEF StorePointsRaises, Raises, Answers, Goes, qdrant, counts
<1>15. ASSUME NEW c \in Calls, StoreManifestRaises(c) PROVE AnswersAreOfWholeDocuments'
  BY <1>15 DEF StoreManifestRaises, Raises, Answers, Goes, qdrant, counts
<1>16. ASSUME NEW d \in Documents, LateWrite(d) PROVE AnswersAreOfWholeDocuments'
  BY <1>16 DEF LateWrite, qdrant, counts
<1>17. ASSUME NEW d \in Documents, LateManifest(d) PROVE AnswersAreOfWholeDocuments'
  BY <1>17 DEF LateManifest, qdrant, counts
<1>18. CASE Finished \/ UNCHANGED vars
  BY <1>18 DEF Finished, vars, qdrant, counts
<1> QED
  BY <1>1, <1>2, <1>3, <1>4, <1>5, <1>6, <1>7, <1>8, <1>9, <1>10, <1>11, <1>12, <1>13, <1>14, <1>15, <1>16, <1>17, <1>18 DEF Next, ThreadStep

LEMMA CountStep == SearchInv /\ [Next]_vars => CountInv'
<1> SUFFICES ASSUME SearchInv, [Next]_vars PROVE CountInv'
  OBVIOUS
<1> USE ChunksAssumption DEF ChunksAssumption, SearchInv, TypeOK, LockInv, StoreInv, CountInv, Converted, Ingesting
<1>1. ASSUME NEW c \in Calls, CallTool(c) PROVE CountInv'
  <2>1. /\ \A e \in Calls : thread'[e] = thread[e] \/ thread'[e] = "started"
        /\ \A e \in Calls : thread[e] \in {"store", "complete"} => thread'[e] = thread[e]
    BY <1>1 DEF CallTool
  <2>2. UNCHANGED <<document, manifests, conversions, failures>>
    BY <1>1 DEF CallTool, qdrant, counts
  <2> QED
    BY <2>1, <2>2
<1>2. ASSUME NEW c \in Calls, ToolTimesOut(c) PROVE CountInv'
  BY <1>2 DEF ToolTimesOut, qdrant, counts
<1>3. ASSUME NEW c \in Calls, Acquire(c) PROVE CountInv'
  BY <1>3 DEF Acquire, Goes, qdrant, counts
<1>4. ASSUME NEW c \in Calls, FindManifest(c) PROVE CountInv'
  BY <1>4 DEF FindManifest, Goes, qdrant, counts
<1>5. ASSUME NEW c \in Calls, MissManifest(c) PROVE CountInv'
  BY <1>5 DEF MissManifest, Goes, qdrant, counts
<1>6. ASSUME NEW c \in Calls, Convert(c) PROVE CountInv'
  BY <1>6 DEF Convert, Goes, qdrant, counts
<1>7. ASSUME NEW c \in Calls, ConvertEmpty(c) PROVE CountInv'
  BY <1>7 DEF ConvertEmpty, Answers, Goes, qdrant, counts
<1>8. ASSUME NEW c \in Calls, StorePoints(c) PROVE CountInv'
  BY <1>8 DEF StorePoints, Goes, qdrant, counts
<1>9. ASSUME NEW c \in Calls, StoreManifest(c) PROVE CountInv'
  BY <1>9 DEF StoreManifest, Goes, qdrant, counts
<1>10. ASSUME NEW c \in Calls, Query(c) PROVE CountInv'
  BY <1>10 DEF Query, Answers, Goes, qdrant, counts
<1>11. ASSUME NEW c \in Calls, RejectPrompt(c) PROVE CountInv'
  BY <1>11 DEF RejectPrompt, Answers, Goes, qdrant, counts
<1>12. ASSUME NEW c \in Calls, CallRaises(c) PROVE CountInv'
  BY <1>12 DEF CallRaises, Raises, Answers, Goes, qdrant, counts
<1>13. ASSUME NEW c \in Calls, ConvertRaises(c) PROVE CountInv'
  BY <1>13 DEF ConvertRaises, Raises, Answers, Goes, qdrant, counts
<1>14. ASSUME NEW c \in Calls, StorePointsRaises(c) PROVE CountInv'
  BY <1>14 DEF StorePointsRaises, Raises, Answers, Goes, qdrant, counts
<1>15. ASSUME NEW c \in Calls, StoreManifestRaises(c) PROVE CountInv'
  BY <1>15 DEF StoreManifestRaises, Raises, Answers, Goes, qdrant, counts
<1>16. ASSUME NEW d \in Documents, LateWrite(d) PROVE CountInv'
  BY <1>16 DEF LateWrite, qdrant, counts
<1>17. ASSUME NEW d \in Documents, LateManifest(d) PROVE CountInv'
  BY <1>17 DEF LateManifest, qdrant, counts
<1>18. CASE Finished \/ UNCHANGED vars
  BY <1>18 DEF Finished, vars, qdrant, counts
<1> QED
  BY <1>1, <1>2, <1>3, <1>4, <1>5, <1>6, <1>7, <1>8, <1>9, <1>10, <1>11, <1>12, <1>13, <1>14, <1>15, <1>16, <1>17, <1>18 DEF Next, ThreadStep

(* Types, and that no document gets points of another one.                 *)
THEOREM SearchTypes == Spec => []TypeOK
  BY TypeInit, TypeStep, PTL DEF Spec

LEMMA SearchInvariant == Spec => []SearchInv
<1>1. Init => SearchInv
  <2> SUFFICES ASSUME Init PROVE SearchInv
    OBVIOUS
  <2>1. TypeOK
    BY TypeInit
  <2>2. LockInv /\ StoreInv /\ AnswersAreOfWholeDocuments
    BY DEF Init, LockInv, StoreInv, AnswersAreOfWholeDocuments, Ingesting
  <2>3. CountInv
    BY DEF Init, CountInv, Converted
  <2> QED
    BY <2>1, <2>2, <2>3 DEF SearchInv
<1>2. SearchInv /\ [Next]_vars => SearchInv'
  BY TypeStep, LockStep, StoreStep, AnswerStep, CountStep DEF SearchInv
<1> QED
  BY <1>1, <1>2, PTL DEF Spec

(* A manifest stands for all points of its document.                       *)
THEOREM ManifestIsTrue == Spec => []ManifestMeansStored
<1>1. SearchInv => ManifestMeansStored
  BY DEF SearchInv, StoreInv, ManifestMeansStored
<1> QED
  BY <1>1, SearchInvariant, PTL

(* Whoever is answered with chunks was answered from the whole document.   *)
THEOREM AnswersAreWhole == Spec => []AnswersAreOfWholeDocuments
  BY SearchInvariant, PTL DEF SearchInv

(* Abandoned and repeated calls cost no conversion of their own.           *)
THEOREM NoNeedlessConversion == Spec => []ConvertedAgainOnlyAfterFailure
<1>1. SearchInv => ConvertedAgainOnlyAfterFailure
  BY DEF SearchInv, CountInv, ConvertedAgainOnlyAfterFailure
<1> QED
  BY <1>1, SearchInvariant, PTL

=============================================================================
