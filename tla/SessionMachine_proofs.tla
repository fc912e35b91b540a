----------------------- MODULE SessionMachine_proofs -----------------------
(***************************************************************************)
(* What holds of a session for every number of rounds, attempts, decisions *)
(* and evidence, and for every order of the calls.                         *)
(*                                                                         *)
(* Inv and GroundedInv are the inductive invariants: a good session, with  *)
(* a history that follows from its issuing identities in order, and a      *)
(* grounded one besides.  That every call keeps the session good and       *)
(* grounded is what the lemmas of SessionCalls_proofs say.                 *)
(***************************************************************************)
EXTENDS SessionMachine, SessionCalls_proofs

-----------------------------------------------------------------------------
(* Identities.                                                             *)

\* What is live was issued, and what is retired was issued and is not live.  A
\* retired identity of the retrieval phase may live on as that of its
\* understanding.
History(s, R) ==
  /\ Numbered(s)
  /\ R \subseteq ({"round", "context", "adr"} \cup DeepPhases) \X Nat
  /\ \A n \in Nat :
       /\ <<"round", n>> \in R => n < s.nextRound /\ \A r \in s.round : r.id # n
       /\ <<"context", n>> \in R => n < s.nextContext /\ \A b \in s.context : b.id # n
       /\ <<"adr", n>> \in R => n < s.nextAdr /\ \A b \in s.adr : b.id # n
       /\ <<"KNOWLEDGE_UNDERSTANDING", n>> \in R =>
            n < s.nextDeep /\ \A a \in s.deep : a.id # n
       /\ <<"DEEP_KNOWLEDGE_RETRIEVAL", n>> \in R =>
            n < s.nextDeep /\ \A a \in s.deep : a.id = n => a.phase = "KNOWLEDGE_UNDERSTANDING"

\* An identity names something live, in the notation of its kind.
LEMMA LiveIdentity ==
  ASSUME NEW s, NEW k, NEW n
  PROVE  <<k, n>> \in LiveIdentities(s) <=>
           \/ k = "round" /\ \E r \in s.round : r.id = n
           \/ \E a \in s.deep : a.phase = k /\ a.id = n
           \/ k = "context" /\ \E b \in s.context : b.id = n
           \/ k = "adr" /\ \E b \in s.adr : b.id = n
BY DEF LiveIdentities

\* The identities of a session have the type of retired ones.
LEMMA LiveIdentitiesType ==
  ASSUME NEW s, WellFormed(s)
  PROVE  LiveIdentities(s) \subseteq ({"round", "context", "adr"} \cup DeepPhases) \X Nat
BY DEF LiveIdentities, WellFormed, IsSession, Rounds, DeepAttempts, BuildAttempts

\* A step that issues identities in order retires them for good.
LEMMA HistoryStep ==
  ASSUME NEW s, WellFormed(s), NEW t, WellFormed(t), Issues(s, t),
         NEW R, History(s, R),
         NEW Q, Q = R \cup (LiveIdentities(s) \ LiveIdentities(t))
  PROVE  History(t, Q)
<1>0. \A i \in Q : i \in R \/ (i \in LiveIdentities(s) /\ i \notin LiveIdentities(t))
  OBVIOUS
<1>1. /\ s.nextRound \in Nat /\ t.nextRound \in Nat /\ s.nextDeep \in Nat /\ t.nextDeep \in Nat
      /\ s.nextContext \in Nat /\ t.nextContext \in Nat /\ s.nextAdr \in Nat /\ t.nextAdr \in Nat
      /\ \A r \in s.round \cup t.round : r.id \in Nat
      /\ \A b \in s.context \cup t.context : b.id \in Nat
      /\ \A b \in s.adr \cup t.adr : b.id \in Nat
      /\ \A a \in s.deep \cup t.deep : a.id \in Nat /\ a.phase \in DeepPhases
  BY DEF WellFormed, IsSession, Rounds, DeepAttempts, BuildAttempts
<1>2. /\ \A x, y \in s.round : x = y
      /\ \A x, y \in s.context : x = y
      /\ \A x, y \in s.adr : x = y
      /\ \A x, y \in s.deep : x = y
  BY DEF WellFormed, AtMostOne
<1>3. Numbered(t)
  BY <1>1 DEF Issues, History, Numbered
<1>4. Q \subseteq ({"round", "context", "adr"} \cup DeepPhases) \X Nat
  BY LiveIdentitiesType DEF History
<1>5. ASSUME NEW n \in Nat, <<"round", n>> \in Q
      PROVE  n < t.nextRound /\ \A r \in t.round : r.id # n
  <2>1. CASE <<"round", n>> \in R
    <3>1. n < s.nextRound /\ \A r \in s.round : r.id # n
      BY <2>1 DEF History
    <3> QED
      BY <3>1, <1>1 DEF Issues
  <2>2. CASE <<"round", n>> \in LiveIdentities(s) /\ <<"round", n>> \notin LiveIdentities(t)
    <3>1. (\E r \in s.round : r.id = n) /\ ~\E r \in t.round : r.id = n
      BY <2>2, <1>1, LiveIdentity DEF DeepPhases
    <3> QED
      BY <3>1, <1>1 DEF History, Numbered, Issues
  <2> QED
    BY <1>0, <1>5, <2>1, <2>2
<1>6. ASSUME NEW n \in Nat, <<"context", n>> \in Q
      PROVE  n < t.nextContext /\ \A b \in t.context : b.id # n
  <2>1. CASE <<"context", n>> \in R
    <3>1. n < s.nextContext /\ \A b \in s.context : b.id # n
      BY <2>1 DEF History
    <3> QED
      BY <3>1, <1>1 DEF Issues
  <2>2. CASE <<"context", n>> \in LiveIdentities(s) /\ <<"context", n>> \notin LiveIdentities(t)
    <3>1. (\E b \in s.context : b.id = n) /\ ~\E b \in t.context : b.id = n
      BY <2>2, <1>1, LiveIdentity DEF DeepPhases
    <3> QED
      BY <3>1, <1>1 DEF History, Numbered, Issues
  <2> QED
    BY <1>0, <1>6, <2>1, <2>2
<1>7. ASSUME NEW n \in Nat, <<"adr", n>> \in Q
      PROVE  n < t.nextAdr /\ \A b \in t.adr : b.id # n
  <2>1. CASE <<"adr", n>> \in R
    <3>1. n < s.nextAdr /\ \A b \in s.adr : b.id # n
      BY <2>1 DEF History
    <3> QED
      BY <3>1, <1>1 DEF Issues
  <2>2. CASE <<"adr", n>> \in LiveIdentities(s) /\ <<"adr", n>> \notin LiveIdentities(t)
    <3>1. (\E b \in s.adr : b.id = n) /\ ~\E b \in t.adr : b.id = n
      BY <2>2, <1>1, LiveIdentity DEF DeepPhases
    <3> QED
      BY <3>1, <1>1 DEF History, Numbered, Issues
  <2> QED
    BY <1>0, <1>7, <2>1, <2>2
<1>8. ASSUME NEW n \in Nat, <<"KNOWLEDGE_UNDERSTANDING", n>> \in Q
      PROVE  n < t.nextDeep /\ \A a \in t.deep : a.id # n
  <2>1. CASE <<"KNOWLEDGE_UNDERSTANDING", n>> \in R
    <3>1. n < s.nextDeep /\ \A a \in s.deep : a.id # n
      BY <2>1 DEF History
    <3> QED
      BY <3>1, <1>1 DEF Issues
  <2>2. CASE /\ <<"KNOWLEDGE_UNDERSTANDING", n>> \in LiveIdentities(s)
             /\ <<"KNOWLEDGE_UNDERSTANDING", n>> \notin LiveIdentities(t)
    <3>1. /\ \E a \in s.deep : a.phase = "KNOWLEDGE_UNDERSTANDING" /\ a.id = n
          /\ ~\E a \in t.deep : a.phase = "KNOWLEDGE_UNDERSTANDING" /\ a.id = n
      BY <2>2, LiveIdentity
    <3> QED
      BY <3>1, <1>1, <1>2 DEF History, Numbered, Issues
  <2> QED
    BY <1>0, <1>8, <2>1, <2>2
<1>9. ASSUME NEW n \in Nat, <<"DEEP_KNOWLEDGE_RETRIEVAL", n>> \in Q
      PROVE  /\ n < t.nextDeep
             /\ \A a \in t.deep : a.id = n => a.phase = "KNOWLEDGE_UNDERSTANDING"
  <2>1. CASE <<"DEEP_KNOWLEDGE_RETRIEVAL", n>> \in R
    <3>1. /\ n < s.nextDeep
          /\ \A a \in s.deep : a.id = n => a.phase = "KNOWLEDGE_UNDERSTANDING"
      BY <2>1 DEF History
    <3> QED
      BY <3>1, <1>1 DEF Issues, DeepPhases
  <2>2. CASE /\ <<"DEEP_KNOWLEDGE_RETRIEVAL", n>> \in LiveIdentities(s)
             /\ <<"DEEP_KNOWLEDGE_RETRIEVAL", n>> \notin LiveIdentities(t)
    <3>1. /\ \E a \in s.deep : a.phase = "DEEP_KNOWLEDGE_RETRIEVAL" /\ a.id = n
          /\ ~\E a \in t.deep : a.phase = "DEEP_KNOWLEDGE_RETRIEVAL" /\ a.id = n
      BY <2>2, LiveIdentity
    <3> QED
      BY <3>1, <1>1 DEF History, Numbered, Issues, DeepPhases
  <2> QED
    BY <1>0, <1>9, <2>1, <2>2
<1> QED
  BY <1>3, <1>4, <1>5, <1>6, <1>7, <1>8, <1>9 DEF History

\* A member of a product is a pair.
LEMMA PairOf ==
  ASSUME NEW A, NEW B, NEW i \in A \X B
  PROVE  \E k \in A, n \in B : i = <<k, n>>
OBVIOUS

\* What is retired is not live.
LEMMA HistorySeparates ==
  ASSUME NEW s, WellFormed(s), NEW R, History(s, R)
  PROVE  LiveIdentities(s) \cap R = {}
<1> SUFFICES ASSUME NEW i \in LiveIdentities(s), i \in R
             PROVE  FALSE
  OBVIOUS
<1> DEFINE Kinds == {"round", "context", "adr"} \cup DeepPhases
<1>1. PICK k \in Kinds, n \in Nat : i = <<k, n>>
  <2>1. i \in Kinds \X Nat
    BY LiveIdentitiesType
  <2> HIDE DEF Kinds
  <2> QED
    BY <2>1, PairOf
<1>2. \/ k = "round" /\ \E r \in s.round : r.id = n
      \/ \E a \in s.deep : a.phase = k /\ a.id = n
      \/ k = "context" /\ \E b \in s.context : b.id = n
      \/ k = "adr" /\ \E b \in s.adr : b.id = n
  BY <1>1, LiveIdentity
<1>3. \A a \in s.deep : a.phase \in DeepPhases
  BY DEF WellFormed, IsSession, DeepAttempts
<1>4. CASE k \in {"round", "context", "adr"}
  BY <1>1, <1>2, <1>3, <1>4 DEF History, DeepPhases
<1>5. CASE k \in DeepPhases
  <2>1. PICK a \in s.deep : a.phase = k /\ a.id = n
    BY <1>2, <1>5 DEF DeepPhases
  <2> QED
    BY <1>1, <1>5, <2>1 DEF History, DeepPhases
<1> QED
  BY <1>1, <1>4, <1>5

-----------------------------------------------------------------------------
(* The specification.                                                      *)

Inv == Good(session) /\ History(session, retired)

\* A call that is a step of a good session keeps the invariant.
LEMMA CallKeepsInv ==
  ASSUME Inv, NEW t, Step(session, t), Call(t)
  PROVE  Inv'
<1>1. session' = t /\ retired' = retired \cup (LiveIdentities(session) \ LiveIdentities(t))
  BY DEF Call
<1>2. Good(t) /\ Issues(session, t)
  BY DEF Step
<1>3. WellFormed(session) /\ WellFormed(t) /\ History(session, retired)
  BY <1>2 DEF Inv, Good
<1>4. History(t, retired')
  BY <1>1, <1>2, <1>3, HistoryStep
<1> QED
  BY <1>1, <1>2, <1>4 DEF Inv

\* A new object satisfies the invariant.
LEMMA InitInv == Init => Inv
<1> SUFFICES ASSUME Init PROVE Inv
  OBVIOUS
<1>1. Good(NewSession)
  BY NewSessionGood
<1>2. History(NewSession, {})
  BY DEF History, Numbered, NewSession
<1> QED
  BY <1>1, <1>2 DEF Init, Inv

\* Every call keeps the invariant.
LEMMA NextInv == Inv /\ [Next]_vars => Inv'
<1> SUFFICES ASSUME Inv, [Next]_vars PROVE Inv'
  OBVIOUS
<1> USE DEF Inv
<1>1. CASE CallBeginIntent
  BY <1>1, BeginIntentStep, CallKeepsInv DEF CallBeginIntent
<1>2. CASE CallBeginLightDiscovery
  BY <1>2, BeginLightDiscoveryStep, CallKeepsInv DEF CallBeginLightDiscovery
<1>3. CASE CallBeginGrill
  BY <1>3, BeginGrillStep, CallKeepsInv DEF CallBeginGrill
<1>4. CASE CallStartGrillRound
  BY <1>4, StartGrillRoundStep, CallKeepsInv DEF CallStartGrillRound
<1>5. CASE CallRecordCompletionOmission
  BY <1>5, RecordCompletionOmissionStep, CallKeepsInv DEF CallRecordCompletionOmission
<1>6. CASE CallRetryGrillRound
  BY <1>6, RetryGrillRoundStep, CallKeepsInv DEF CallRetryGrillRound
<1>7. CASE CallRecordEvidenceFetch
  BY <1>7, RecordEvidenceFetchStep, CallKeepsInv DEF CallRecordEvidenceFetch
<1>8. CASE CallRequireWaitUser
  <2>1. PICK q \in Posable(session) : CanRequireWaitUser(session, q) /\ Call(RequireWaitUser(session, q))
    BY <1>8 DEF CallRequireWaitUser
  <2>2. /\ q \in Questions
        /\ q.kind \in {"grill_confirmation", "relevance_clarification"}
    BY <2>1 DEF Good, WellFormed, IsSession, Posable, CurrentRoundId, Rounds, Questions,
                QuestionKinds, AllDecisionIds, RuntimeIds
  <2> QED
    BY <2>1, <2>2, RequireWaitUserStep, CallKeepsInv
<1>9. CASE CallRecordAnswer
  BY <1>9, RecordAnswerStep, CallKeepsInv, AnswersAssumption DEF CallRecordAnswer, Telling
<1>10. CASE CallConfirm
  BY <1>10, ConfirmStep, CallKeepsInv DEF CallConfirm
<1>11. CASE CallReject
  BY <1>11, RejectStep, CallKeepsInv DEF CallReject
<1>12. CASE CallBeginDeepKnowledge
  BY <1>12, BeginDeepKnowledgeStep, CallKeepsInv DEF CallBeginDeepKnowledge
<1>13. CASE CallConsumeDeepSearchBudget
  BY <1>13, ConsumeSearchStep, CallKeepsInv DEF CallConsumeDeepSearchBudget
<1>14. CASE CallRecordDeepSupplementalEvidence
  BY <1>14, RecordDeepSupplementalEvidenceStep, CallKeepsInv
  DEF CallRecordDeepSupplementalEvidence
<1>15. CASE CallCompleteDeepRetrieval
  BY <1>15, CompleteDeepRetrievalStep, CallKeepsInv DEF CallCompleteDeepRetrieval
<1>16. CASE CallCompleteDeepKnowledge
  BY <1>16, CompleteDeepKnowledgeStep, CallKeepsInv DEF CallCompleteDeepKnowledge
<1>17. CASE CallNeedDecision
  BY <1>17, NeedDecisionStep, CallKeepsInv DEF CallNeedDecision, AllDecisionIds
<1>18. CASE CallNeedDiscovery
  BY <1>18, NeedDiscoveryStep, CallKeepsInv DEF CallNeedDiscovery
<1>19. CASE CallCompleteUnderstanding
  BY <1>19, CompleteUnderstandingStep, CallKeepsInv DEF CallCompleteUnderstanding
<1>20. CASE CallCancelDeepKnowledge
  BY <1>20, CancelDeepKnowledgeStep, CallKeepsInv DEF CallCancelDeepKnowledge
<1>21. CASE CallRetryDeepKnowledge
  BY <1>21, RetryDeepKnowledgeStep, CallKeepsInv DEF CallRetryDeepKnowledge
<1>22. CASE CallContextAmbiguous
  BY <1>22, ContextAmbiguousStep, CallKeepsInv DEF CallContextAmbiguous
<1>23. CASE CallCompleteContextBuild
  BY <1>23, CompleteContextBuildStep, CallKeepsInv DEF CallCompleteContextBuild
<1>24. CASE CallPrepareAdrBuild
  BY <1>24, PrepareAdrBuildStep, CallKeepsInv DEF CallPrepareAdrBuild
<1>25. CASE CallRequireAdrDecision
  BY <1>25, RequireAdrDecisionStep, CallKeepsInv DEF CallRequireAdrDecision
<1>26. CASE CallFinalizeAdrBuild
  BY <1>26, FinalizeAdrBuildStep, CallKeepsInv DEF CallFinalizeAdrBuild
<1>27. CASE CallReset
  BY <1>27, ResetStep, CallKeepsInv DEF CallReset
<1>28. CASE UNCHANGED vars
  BY <1>28 DEF vars
<1> QED
  BY <1>1, <1>2, <1>3, <1>4, <1>5, <1>6, <1>7, <1>8, <1>9, <1>10, <1>11, <1>12, <1>13, <1>14,
     <1>15, <1>16, <1>17, <1>18, <1>19, <1>20, <1>21, <1>22, <1>23, <1>24, <1>25, <1>26,
     <1>27, <1>28 DEF Next

\* The inductive invariant holds of every session.
THEOREM InductiveInvariant == Spec => []Inv
BY InitInv, NextInv, PTL DEF Spec

\* The fields of a session keep their types, and optional values their one
\* member at most, whatever is called.
THEOREM TypeCorrect == Spec => []TypeOK
<1>1. Inv => TypeOK
  BY DEF Inv, Good, History, TypeOK
<1> QED
  BY <1>1, InductiveInvariant, PTL

\* recordAnswer never meets its assertion: WAIT_USER and a pending question go
\* together.
THEOREM QuestionsWait == Spec => []QuestionIffWaiting
<1>1. Inv => QuestionIffWaiting
  BY DEF Inv, Good, Waiting, QuestionIffWaiting
<1> QED
  BY <1>1, InductiveInvariant, PTL

\* An identity that a call could name no longer cannot become live again, so
\* late completions stay stale for the life of the object.
THEOREM StaleForEver == Spec => []NoIdentityReturns
<1>1. Inv => NoIdentityReturns
  BY HistorySeparates DEF Inv, Good, NoIdentityReturns
<1> QED
  BY <1>1, InductiveInvariant, PTL

\* startGrillRound ends the Deep attempt of the round before.
THEOREM AttemptsOfTheRound == Spec => []DeepAttemptOfCurrentRound
<1>1. Inv => DeepAttemptOfCurrentRound
  BY DEF Inv, Good, OfCurrentRound, DeepAttemptOfCurrentRound
<1> QED
  BY <1>1, InductiveInvariant, PTL

\* A component that waits for the user's decision has no attempt live.
THEOREM AskingEndsAttempts == Spec => []AskingEndsTheAttempt
<1>1. Inv => AskingEndsTheAttempt
  BY DEF Inv, Good, Asked, AskingEndsTheAttempt
<1> QED
  BY <1>1, InductiveInvariant, PTL

\* The Context and the ADR candidate that finalizeAdrBuild lets through are of
\* one Knowledge package.
THEOREM OnePackageThroughout == Spec => []OnePackageBehindContextAndAdr
<1>1. Inv => OnePackageBehindContextAndAdr
  BY DEF Inv, Good, OnePackage, OnePackageBehindContextAndAdr
<1> QED
  BY <1>1, InductiveInvariant, PTL

\* No order of searches, retries, cancels and rounds exceeds the budget.
THEOREM BudgetKept == Spec => []SearchesWithinLimit
<1>1. Inv => SearchesWithinLimit
  BY DEF Inv, Good, InBudget, SearchesWithinLimit
<1> QED
  BY <1>1, InductiveInvariant, PTL

-----------------------------------------------------------------------------
(* What a session builds on, and what no call undoes.                      *)

GroundedInv == Inv /\ Grounded(session)

\* Every call is a grounded step of a grounded session.
LEMMA NextGrounded ==
  ASSUME GroundedInv, Next
  PROVE  GroundedStep(session, session')
<1> DEFINE s == session
<1>1. Good(s) /\ Grounded(s)
  BY DEF GroundedInv, Inv
<1>2. \A t : QuietCall(s, t) => GroundedStep(s, t)
  BY <1>1, QuietStep
<1>3. \A t : Call(t) => session' = t
  BY DEF Call
<1>4. CASE CallBeginIntent
  BY <1>1, <1>2, <1>3, <1>4, QuietInGrill DEF CallBeginIntent
<1>5. CASE CallBeginLightDiscovery
  BY <1>1, <1>2, <1>3, <1>5, QuietInGrill DEF CallBeginLightDiscovery
<1>6. CASE CallBeginGrill
  BY <1>1, <1>2, <1>3, <1>6, QuietInGrill DEF CallBeginGrill
<1>7. CASE CallStartGrillRound
  BY <1>1, <1>2, <1>3, <1>7, StartGrillRoundGrounded DEF CallStartGrillRound
<1>8. CASE CallRecordCompletionOmission
  BY <1>1, <1>2, <1>3, <1>8, QuietInGrill DEF CallRecordCompletionOmission
<1>9. CASE CallRetryGrillRound
  BY <1>1, <1>2, <1>3, <1>9, QuietInGrill DEF CallRetryGrillRound
<1>10. CASE CallRecordEvidenceFetch
  BY <1>1, <1>2, <1>3, <1>10, QuietInGrill DEF CallRecordEvidenceFetch
<1>11. CASE CallRequireWaitUser
  BY <1>1, <1>2, <1>3, <1>11, QuietRequireWaitUser DEF CallRequireWaitUser
<1>12. CASE CallRecordAnswer
  BY <1>1, <1>2, <1>3, <1>12, RecordAnswerGrounded, AnswersAssumption DEF CallRecordAnswer, Telling
<1>13. CASE CallConfirm
  BY <1>1, <1>2, <1>3, <1>13, QuietInGrill DEF CallConfirm
<1>14. CASE CallReject
  BY <1>1, <1>2, <1>3, <1>14, QuietInGrill DEF CallReject
<1>15. CASE CallBeginDeepKnowledge
  BY <1>1, <1>2, <1>3, <1>15, QuietDeepKnowledge DEF CallBeginDeepKnowledge
<1>16. CASE CallConsumeDeepSearchBudget
  BY <1>1, <1>2, <1>3, <1>16, ConsumeSearchGrounded DEF CallConsumeDeepSearchBudget
<1>17. CASE CallRecordDeepSupplementalEvidence
  BY <1>1, <1>2, <1>3, <1>17, QuietInGrill DEF CallRecordDeepSupplementalEvidence
<1>18. CASE CallCompleteDeepRetrieval
  BY <1>1, <1>2, <1>3, <1>18, CompleteDeepRetrievalGrounded DEF CallCompleteDeepRetrieval
<1>19. CASE CallCompleteDeepKnowledge
  BY <1>1, <1>2, <1>3, <1>19, QuietDeepKnowledge DEF CallCompleteDeepKnowledge
<1>20. CASE CallNeedDecision
  BY <1>1, <1>2, <1>3, <1>20, QuietDeepResult DEF CallNeedDecision, AllDecisionIds
<1>21. CASE CallNeedDiscovery
  BY <1>1, <1>2, <1>3, <1>21, QuietDeepResult DEF CallNeedDiscovery
<1>22. CASE CallCompleteUnderstanding
  BY <1>1, <1>2, <1>3, <1>22, CompleteUnderstandingGrounded DEF CallCompleteUnderstanding
<1>23. CASE CallCancelDeepKnowledge
  BY <1>1, <1>2, <1>3, <1>23, QuietDeepKnowledge DEF CallCancelDeepKnowledge
<1>24. CASE CallRetryDeepKnowledge
  BY <1>1, <1>2, <1>3, <1>24, QuietDeepKnowledge DEF CallRetryDeepKnowledge
<1>25. CASE CallContextAmbiguous
  BY <1>1, <1>2, <1>3, <1>25, QuietBuilds DEF CallContextAmbiguous
<1>26. CASE CallCompleteContextBuild
  BY <1>1, <1>2, <1>3, <1>26, QuietBuilds DEF CallCompleteContextBuild
<1>27. CASE CallPrepareAdrBuild
  BY <1>1, <1>2, <1>3, <1>27, QuietBuilds DEF CallPrepareAdrBuild
<1>28. CASE CallRequireAdrDecision
  BY <1>1, <1>2, <1>3, <1>28, QuietBuilds DEF CallRequireAdrDecision
<1>29. CASE CallFinalizeAdrBuild
  BY <1>1, <1>2, <1>3, <1>29, QuietBuilds DEF CallFinalizeAdrBuild
<1>30. CASE CallReset
  BY <1>1, <1>2, <1>3, <1>30, ResetGrounded DEF CallReset
<1> QED
  BY <1>4, <1>5, <1>6, <1>7, <1>8, <1>9, <1>10, <1>11, <1>12, <1>13, <1>14, <1>15, <1>16,
     <1>17, <1>18, <1>19, <1>20, <1>21, <1>22, <1>23, <1>24, <1>25, <1>26, <1>27, <1>28,
     <1>29, <1>30 DEF Next

\* What the session builds on is grounded, whatever is called.
THEOREM GroundedInvariant == Spec => []GroundedInv
<1>1. Init => GroundedInv
  BY InitInv, NewSessionGrounded DEF Init, GroundedInv
<1>2. GroundedInv /\ [Next]_vars => GroundedInv'
  <2> SUFFICES ASSUME GroundedInv, [Next]_vars PROVE GroundedInv'
    OBVIOUS
  <2>1. Inv'
    BY NextInv DEF GroundedInv
  <2>2. CASE Next
    BY <2>1, <2>2, NextGrounded DEF GroundedInv, GroundedStep
  <2>3. CASE UNCHANGED vars
    BY <2>1, <2>3 DEF GroundedInv, vars
  <2> QED
    BY <2>2, <2>3
<1> QED
  BY <1>1, <1>2, PTL DEF Spec

\* The premises of a completed Grill, the evidence that completeDeepRetrieval
\* locks and the Knowledge package are of the current snapshot.
THEOREM BuiltOnOneSnapshot == Spec => []NothingFromAnOldSnapshot
<1>1. GroundedInv => NothingFromAnOldSnapshot
  BY DEF GroundedInv, Grounded, BuiltOnSnapshot, OnSnapshot, NothingFromAnOldSnapshot
<1> QED
  BY <1>1, GroundedInvariant, PTL

\* Every step keeps answers, searches and the pending question.
LEMMA StepsKeep ==
  GroundedInv /\ [Next]_vars => session' = session \/ Keeps(session, session')
BY NextGrounded DEF GroundedStep, vars

\* recordAnswer keeps the first answer to a decision id for as long as the
\* snapshot lasts, and no other call takes an answer away.
THEOREM FirstAnswersStay == Spec => FirstAnswerStays
<1>1. ASSUME GroundedInv, GroundedInv', [Next]_vars
      PROVE  [SameSnapshot =>
                /\ session.decisions \subseteq session'.decisions
                /\ \A d, e \in session'.decisions : d.id = e.id => d = e]_vars
  <2>1. session.decisions \subseteq session'.decisions \/ ~SameSnapshot
    BY <1>1, StepsKeep DEF Keeps, KeepsAnswers, SameSnapshot
  <2>2. \A d, e \in session'.decisions : d.id = e.id => d = e
    BY <1>1 DEF GroundedInv, Grounded, OneAnswerEach
  <2> QED
    BY <2>1, <2>2
<1> QED
  BY <1>1, GroundedInvariant, PTL DEF Spec, FirstAnswerStays

\* A retry, a cancellation or a new Deep attempt does not renew the search
\* budget of a Grill round.
THEOREM SearchesStaySpent == Spec => SearchesAreNeverRefunded
<1>1. ASSUME GroundedInv, [Next]_vars
      PROVE  [\A r \in session.round \cap session'.round :
                SearchesUsed(session', [round |-> r.id])
                  >= SearchesUsed(session, [round |-> r.id])]_vars
  <2>1. CASE session' = session
    <3>1. \A r : SearchesUsed(session', [round |-> r.id]) = SearchesUsed(session, [round |-> r.id])
      BY <2>1
    <3>2. \A r : SearchesUsed(session, [round |-> r.id]) \in Nat
      BY <1>1 DEF SearchesUsed, GroundedInv, Inv, Good, WellFormed, IsSession
    <3> QED
      BY <3>1, <3>2
  <2>2. CASE Keeps(session, session')
    BY <2>2 DEF Keeps, KeepsSearches
  <2> QED
    BY <1>1, <2>1, <2>2, StepsKeep
<1> QED
  BY <1>1, GroundedInvariant, PTL DEF Spec, SearchesAreNeverRefunded

\* No call puts another question in the place of a pending one, except the
\* recordAnswer that answers it and leads to the checkpoint of its round.
THEOREM QuestionsStay == Spec => PendingQuestionStays
<1>1. ASSUME GroundedInv, [Next]_vars
      PROVE  [\A q \in session.waitUser, p \in session'.waitUser :
                \/ p = q
                \/ /\ q.kind = "grill_confirmation" /\ p.kind = "grill_checkpoint"
                   /\ p.round = q.round /\ q \in session'.answered]_vars
  <2>1. \A x, y \in session.waitUser : x = y
    BY <1>1 DEF GroundedInv, Inv, Good, WellFormed, AtMostOne
  <2> QED
    BY <1>1, <2>1, StepsKeep DEF Keeps, KeepsQuestion
<1> QED
  BY <1>1, GroundedInvariant, PTL DEF Spec, PendingQuestionStays

=============================================================================
