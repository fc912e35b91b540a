------------------------ MODULE SessionCalls_proofs ------------------------
(***************************************************************************)
(* What the methods of a session keep, as lemmas about the operators of    *)
(* SessionState: for every session s, whoever holds it.  The specifica-    *)
(* tions that have a session, alone or among other things, build on them.  *)
(*                                                                         *)
(* Good(s) is what every method keeps by itself: the properties of         *)
(* SessionMachine, strengthened where a call needs to know more (while an  *)
(* ADR question is pending, the Context is that of the package, because    *)
(* the answer resumes the ADR build).  Issues(s, t) says that the step     *)
(* from s to t gives no identity out that it does not take from the        *)
(* counters.  There is one lemma per operator: a call whose guard holds    *)
(* leads from a good session to a good one, and issues identities in order.*)
(*                                                                         *)
(* Grounded(s) is kept besides: round numbers grow within a snapshot, so   *)
(* what was said or built on the snapshot lies between its first round and *)
(* the current one; and only a reset leaves a session without a round, so  *)
(* that nobody is asked and nothing is decided or being built there.       *)
(* Keeps(s, t) is that the step from s to t takes back neither answers nor *)
(* searches nor questions.  Most calls touch none of this: they are QuietCall, *)
(* and one lemma does for all of them.  The six others have a lemma each.  *)
(***************************************************************************)
EXTENDS SessionState, TLAPS

-----------------------------------------------------------------------------
(* The inductive invariant.                                                *)

Waiting(s) == (s.waitUser # {}) <=> (s.orch = "WAIT_USER")

OfCurrentRound(s) == \A a \in s.deep : a.round \in CurrentRoundId(s)

Asked(s) ==
  \A q \in s.waitUser :
    /\ q.kind \in {"deep_decision", "deep_discovery_fallback"} => s.deep = {}
    /\ q.kind = "context_ambiguity" => s.context = {}
    /\ q.kind = "adr_ambiguity" =>
         s.adr = {} /\ s.adrCandidate = {} /\ s.contextCandidate = s.package

OnePackage(s) ==
  /\ s.orch \in {"ADR_BUILD", "TO_SPEC"} => s.contextCandidate = s.package
  /\ s.orch = "ADR_BUILD" => s.adrCandidate \subseteq s.package
  /\ s.orch = "TO_SPEC" => s.adrCandidate = s.package

InBudget(s) == s.searches <= SearchLimit

\* Identities that are live were issued before.
Numbered(s) ==
  /\ \A r \in s.round : r.id < s.nextRound
  /\ \A a \in s.deep : a.id < s.nextDeep
  /\ \A b \in s.context : b.id < s.nextContext
  /\ \A b \in s.adr : b.id < s.nextAdr

Good(s) ==
  /\ WellFormed(s)
  /\ Waiting(s) /\ OfCurrentRound(s) /\ Asked(s) /\ OnePackage(s) /\ InBudget(s)

\* A step keeps the live identities, issues the next numbers, or takes a Deep
\* attempt on to the understanding phase.
Issues(s, t) ==
  /\ s.nextRound <= t.nextRound /\ s.nextDeep <= t.nextDeep
  /\ s.nextContext <= t.nextContext /\ s.nextAdr <= t.nextAdr
  /\ \A r \in t.round : r \in s.round \/ (s.nextRound <= r.id /\ r.id < t.nextRound)
  /\ \A b \in t.context : b \in s.context \/ (s.nextContext <= b.id /\ b.id < t.nextContext)
  /\ \A b \in t.adr : b \in s.adr \/ (s.nextAdr <= b.id /\ b.id < t.nextAdr)
  /\ \A a \in t.deep :
       \/ \E b \in s.deep : /\ b.id = a.id
                            /\ (a.phase = b.phase \/ a.phase = "KNOWLEDGE_UNDERSTANDING")
       \/ (s.nextDeep <= a.id /\ a.id < t.nextDeep)

\* What a call has to show.
Step(s, t) == Good(t) /\ Issues(s, t)

-----------------------------------------------------------------------------
(* Facts about the stages and about optional values.                       *)

\* The domain of LEGAL_TRANSITIONS, one by one.
LEMMA StagesEnumerated ==
  Stages = {"RECEIVE", "INTENT_UNDERSTANDING", "LIGHT_DISCOVERY", "GRILL", "WAIT_USER",
            "USER_CONFIRMED", "DEEP_KNOWLEDGE_RETRIEVAL", "KNOWLEDGE_UNDERSTANDING",
            "CONTEXT_BUILD", "ADR_BUILD", "TO_SPEC", "TO_TICKET", "PLANNING",
            "IMPLEMENT_GATE", "TDD", "FAN_OUT_EXECUTION", "VALIDATION", "REVIEW", "JUDGE",
            "COMPLETE", "ROOT_CAUSE", "REPAIR_ORCHESTRATOR"}
BY DEF Stages, LegalTransitions

\* A workflow that waits for the user is confirmed or stays.
LEMMA MovesFromWaitUser == \A x : CanMove("WAIT_USER", x) => x = "USER_CONFIRMED"
BY DEF CanMove, LegalTransitions

\* The value of an optional field that is present.
LEMMA TheMember ==
  ASSUME NEW S, S # {}
  PROVE  The(S) \in S
BY DEF The

\* A new object is good.
LEMMA NewSessionGood == Good(NewSession)
BY StagesEnumerated, LimitsAssumption
DEF Good, WellFormed, NewSession, IsSession, AtMostOne, PanelStages, RepairNotes,
    Waiting, OfCurrentRound, Asked, OnePackage, InBudget

-----------------------------------------------------------------------------
(* One lemma per call.                                                     *)

\* beginIntent keeps a session good.
LEMMA BeginIntentStep ==
  ASSUME NEW s, Good(s), CanBeginIntent(s)
  PROVE  Step(s, BeginIntent(s))
<1>1. WellFormed(BeginIntent(s))
  BY StagesEnumerated
  DEF Good, WellFormed, IsSession, NewSession, AtMostOne, MoveTo, BeginIntent,
      PanelStages
<1>2. /\ Waiting(BeginIntent(s)) /\ OfCurrentRound(BeginIntent(s))
      /\ Asked(BeginIntent(s)) /\ OnePackage(BeginIntent(s))
      /\ InBudget(BeginIntent(s)) /\ Issues(s, BeginIntent(s))
  BY MovesFromWaitUser, LimitsAssumption
  DEF Good, WellFormed, IsSession, NewSession, AtMostOne, MoveTo, Waiting,
      OfCurrentRound, Asked, OnePackage, InBudget, Issues, CurrentRoundId, Rounds,
      BuildAttempts, DeepAttempts, BeginIntent, CanBeginIntent
<1> QED
  BY <1>1, <1>2 DEF Step, Good

\* beginLightDiscovery keeps a session good.
LEMMA BeginLightDiscoveryStep ==
  ASSUME NEW s, Good(s), CanBeginLightDiscovery(s)
  PROVE  Step(s, BeginLightDiscovery(s))
<1>1. WellFormed(BeginLightDiscovery(s))
  BY StagesEnumerated
  DEF Good, WellFormed, IsSession, NewSession, AtMostOne, MoveTo, BeginLightDiscovery,
      PanelStages
<1>2. /\ Waiting(BeginLightDiscovery(s)) /\ OfCurrentRound(BeginLightDiscovery(s))
      /\ Asked(BeginLightDiscovery(s)) /\ OnePackage(BeginLightDiscovery(s))
      /\ InBudget(BeginLightDiscovery(s)) /\ Issues(s, BeginLightDiscovery(s))
  BY MovesFromWaitUser, LimitsAssumption
  DEF Good, WellFormed, IsSession, NewSession, AtMostOne, MoveTo, Waiting,
      OfCurrentRound, Asked, OnePackage, InBudget, Issues, CurrentRoundId, Rounds,
      BuildAttempts, DeepAttempts, BeginLightDiscovery, CanBeginLightDiscovery
<1> QED
  BY <1>1, <1>2 DEF Step, Good

\* beginGrill keeps a session good.
LEMMA BeginGrillStep ==
  ASSUME NEW s, Good(s), CanBeginGrill(s)
  PROVE  Step(s, BeginGrill(s))
<1>1. WellFormed(BeginGrill(s))
  BY StagesEnumerated
  DEF Good, WellFormed, IsSession, NewSession, AtMostOne, MoveTo, BeginGrill,
      PanelStages
<1>2. /\ Waiting(BeginGrill(s)) /\ OfCurrentRound(BeginGrill(s))
      /\ Asked(BeginGrill(s)) /\ OnePackage(BeginGrill(s))
      /\ InBudget(BeginGrill(s)) /\ Issues(s, BeginGrill(s))
  BY MovesFromWaitUser, LimitsAssumption
  DEF Good, WellFormed, IsSession, NewSession, AtMostOne, MoveTo, Waiting,
      OfCurrentRound, Asked, OnePackage, InBudget, Issues, CurrentRoundId, Rounds,
      BuildAttempts, DeepAttempts, BeginGrill, CanBeginGrill
<1> QED
  BY <1>1, <1>2 DEF Step, Good

\* recordCompletionOmission keeps a session good.
LEMMA RecordCompletionOmissionStep ==
  ASSUME NEW s, Good(s)
  PROVE  Step(s, RecordCompletionOmission(s))
<1>1. WellFormed(RecordCompletionOmission(s))
  BY StagesEnumerated
  DEF Good, WellFormed, IsSession, NewSession, AtMostOne, MoveTo,
      RecordCompletionOmission, RepairNotes, PanelStages
<1>2. /\ Waiting(RecordCompletionOmission(s)) /\ OfCurrentRound(RecordCompletionOmission(s))
      /\ Asked(RecordCompletionOmission(s)) /\ OnePackage(RecordCompletionOmission(s))
      /\ InBudget(RecordCompletionOmission(s)) /\ Issues(s, RecordCompletionOmission(s))
  BY MovesFromWaitUser, LimitsAssumption
  DEF Good, WellFormed, IsSession, NewSession, AtMostOne, MoveTo, Waiting,
      OfCurrentRound, Asked, OnePackage, InBudget, Issues, CurrentRoundId, Rounds,
      BuildAttempts, DeepAttempts, RecordCompletionOmission
<1> QED
  BY <1>1, <1>2 DEF Step, Good

\* retryGrillRound keeps a session good.
LEMMA RetryGrillRoundStep ==
  ASSUME NEW s, Good(s)
  PROVE  Step(s, RetryGrillRound(s))
<1>1. WellFormed(RetryGrillRound(s))
  BY StagesEnumerated
  DEF Good, WellFormed, IsSession, NewSession, AtMostOne, MoveTo, RetryGrillRound,
      RepairNotes, PanelStages
<1>2. /\ Waiting(RetryGrillRound(s)) /\ OfCurrentRound(RetryGrillRound(s))
      /\ Asked(RetryGrillRound(s)) /\ OnePackage(RetryGrillRound(s))
      /\ InBudget(RetryGrillRound(s)) /\ Issues(s, RetryGrillRound(s))
  BY MovesFromWaitUser, LimitsAssumption
  DEF Good, WellFormed, IsSession, NewSession, AtMostOne, MoveTo, Waiting,
      OfCurrentRound, Asked, OnePackage, InBudget, Issues, CurrentRoundId, Rounds,
      BuildAttempts, DeepAttempts, RetryGrillRound
<1> QED
  BY <1>1, <1>2 DEF Step, Good

\* recordEvidenceFetch keeps a session good.
LEMMA RecordEvidenceFetchStep ==
  ASSUME NEW s, Good(s), NEW e \in EvidenceIds
  PROVE  Step(s, RecordEvidenceFetch(s, e))
<1>1. WellFormed(RecordEvidenceFetch(s, e))
  BY StagesEnumerated
  DEF Good, WellFormed, IsSession, NewSession, AtMostOne, MoveTo, RecordEvidenceFetch
<1>2. /\ Waiting(RecordEvidenceFetch(s, e)) /\ OfCurrentRound(RecordEvidenceFetch(s, e))
      /\ Asked(RecordEvidenceFetch(s, e)) /\ OnePackage(RecordEvidenceFetch(s, e))
      /\ InBudget(RecordEvidenceFetch(s, e)) /\ Issues(s, RecordEvidenceFetch(s, e))
  BY MovesFromWaitUser, LimitsAssumption
  DEF Good, WellFormed, IsSession, NewSession, AtMostOne, MoveTo, Waiting,
      OfCurrentRound, Asked, OnePackage, InBudget, Issues, CurrentRoundId, Rounds,
      BuildAttempts, DeepAttempts, RecordEvidenceFetch
<1> QED
  BY <1>1, <1>2 DEF Step, Good

\* requireWaitUser keeps a session good.
LEMMA RequireWaitUserStep ==
  ASSUME NEW s, Good(s), NEW q \in Questions, CanRequireWaitUser(s, q),
         q.kind \in {"grill_confirmation", "relevance_clarification"}
  PROVE  Step(s, RequireWaitUser(s, q))
<1>1. WellFormed(RequireWaitUser(s, q))
  BY StagesEnumerated
  DEF Good, WellFormed, IsSession, NewSession, AtMostOne, MoveTo, RequireWaitUser, Ask,
      RepairNotes, PanelStages
<1>2. /\ Waiting(RequireWaitUser(s, q)) /\ OfCurrentRound(RequireWaitUser(s, q))
      /\ Asked(RequireWaitUser(s, q)) /\ OnePackage(RequireWaitUser(s, q))
      /\ InBudget(RequireWaitUser(s, q)) /\ Issues(s, RequireWaitUser(s, q))
  BY MovesFromWaitUser, LimitsAssumption
  DEF Good, WellFormed, IsSession, NewSession, AtMostOne, MoveTo, Waiting,
      OfCurrentRound, Asked, OnePackage, InBudget, Issues, CurrentRoundId, Rounds,
      BuildAttempts, DeepAttempts, RequireWaitUser, CanRequireWaitUser, Ask
<1> QED
  BY <1>1, <1>2 DEF Step, Good

\* confirm keeps a session good.
LEMMA ConfirmStep ==
  ASSUME NEW s, Good(s)
  PROVE  Step(s, Confirm(s))
<1>1. WellFormed(Confirm(s))
  BY StagesEnumerated
  DEF Good, WellFormed, IsSession, NewSession, AtMostOne, MoveTo, Confirm, PanelStages
<1>2. /\ Waiting(Confirm(s)) /\ OfCurrentRound(Confirm(s))
      /\ Asked(Confirm(s)) /\ OnePackage(Confirm(s))
      /\ InBudget(Confirm(s)) /\ Issues(s, Confirm(s))
  BY MovesFromWaitUser, LimitsAssumption
  DEF Good, WellFormed, IsSession, NewSession, AtMostOne, MoveTo, Waiting,
      OfCurrentRound, Asked, OnePackage, InBudget, Issues, CurrentRoundId, Rounds,
      BuildAttempts, DeepAttempts, Confirm
<1> QED
  BY <1>1, <1>2 DEF Step, Good

\* reject keeps a session good.
LEMMA RejectStep ==
  ASSUME NEW s, Good(s)
  PROVE  Step(s, Reject(s))
<1>1. WellFormed(Reject(s))
  BY StagesEnumerated
  DEF Good, WellFormed, IsSession, NewSession, AtMostOne, MoveTo, Reject, RepairNotes,
      PanelStages
<1>2. /\ Waiting(Reject(s)) /\ OfCurrentRound(Reject(s))
      /\ Asked(Reject(s)) /\ OnePackage(Reject(s))
      /\ InBudget(Reject(s)) /\ Issues(s, Reject(s))
  BY MovesFromWaitUser, LimitsAssumption
  DEF Good, WellFormed, IsSession, NewSession, AtMostOne, MoveTo, Waiting,
      OfCurrentRound, Asked, OnePackage, InBudget, Issues, CurrentRoundId, Rounds,
      BuildAttempts, DeepAttempts, Reject
<1> QED
  BY <1>1, <1>2 DEF Step, Good

\* consumeDeepSearchBudget keeps a session good.
LEMMA ConsumeSearchStep ==
  ASSUME NEW s, Good(s), NEW id \in s.deep, CanSearch(s, id)
  PROVE  Step(s, ConsumeSearch(s, id))
<1>1. WellFormed(ConsumeSearch(s, id))
  BY StagesEnumerated
  DEF Good, WellFormed, IsSession, NewSession, AtMostOne, MoveTo, ConsumeSearch,
      SearchesUsed, DeepAttempts
<1>2. /\ Waiting(ConsumeSearch(s, id)) /\ OfCurrentRound(ConsumeSearch(s, id))
      /\ Asked(ConsumeSearch(s, id)) /\ OnePackage(ConsumeSearch(s, id))
      /\ InBudget(ConsumeSearch(s, id)) /\ Issues(s, ConsumeSearch(s, id))
  BY MovesFromWaitUser, LimitsAssumption
  DEF Good, WellFormed, IsSession, NewSession, AtMostOne, MoveTo, Waiting,
      OfCurrentRound, Asked, OnePackage, InBudget, Issues, CurrentRoundId, Rounds,
      BuildAttempts, DeepAttempts, ConsumeSearch, CanSearch, SearchesUsed
<1> QED
  BY <1>1, <1>2 DEF Step, Good

\* recordDeepSupplementalEvidence keeps a session good.
LEMMA RecordDeepSupplementalEvidenceStep ==
  ASSUME NEW s, Good(s), NEW e \in EvidenceIds
  PROVE  Step(s, RecordDeepSupplementalEvidence(s, e))
<1>1. WellFormed(RecordDeepSupplementalEvidence(s, e))
  BY StagesEnumerated
  DEF Good, WellFormed, IsSession, NewSession, AtMostOne, MoveTo,
      RecordDeepSupplementalEvidence
<1>2. /\ Waiting(RecordDeepSupplementalEvidence(s, e)) /\ OfCurrentRound(RecordDeepSupplementalEvidence(s, e))
      /\ Asked(RecordDeepSupplementalEvidence(s, e)) /\ OnePackage(RecordDeepSupplementalEvidence(s, e))
      /\ InBudget(RecordDeepSupplementalEvidence(s, e)) /\ Issues(s, RecordDeepSupplementalEvidence(s, e))
  BY MovesFromWaitUser, LimitsAssumption
  DEF Good, WellFormed, IsSession, NewSession, AtMostOne, MoveTo, Waiting,
      OfCurrentRound, Asked, OnePackage, InBudget, Issues, CurrentRoundId, Rounds,
      BuildAttempts, DeepAttempts, RecordDeepSupplementalEvidence
<1> QED
  BY <1>1, <1>2 DEF Step, Good

\* completeDeepKnowledge keeps a session good.
LEMMA CompleteDeepKnowledgeStep ==
  ASSUME NEW s, Good(s), NEW id \in s.deep, CanCompleteDeepKnowledge(s, id)
  PROVE  Step(s, CompleteDeepKnowledge(s, id))
<1>1. WellFormed(CompleteDeepKnowledge(s, id))
  BY StagesEnumerated
  DEF Good, WellFormed, IsSession, NewSession, AtMostOne, MoveTo,
      CompleteDeepKnowledge, DeepAttempts, DeepPhases, PanelStages
<1>2. /\ Waiting(CompleteDeepKnowledge(s, id)) /\ OfCurrentRound(CompleteDeepKnowledge(s, id))
      /\ Asked(CompleteDeepKnowledge(s, id)) /\ OnePackage(CompleteDeepKnowledge(s, id))
      /\ InBudget(CompleteDeepKnowledge(s, id)) /\ Issues(s, CompleteDeepKnowledge(s, id))
  BY MovesFromWaitUser, LimitsAssumption
  DEF Good, WellFormed, IsSession, NewSession, AtMostOne, MoveTo, Waiting,
      OfCurrentRound, Asked, OnePackage, InBudget, Issues, CurrentRoundId, Rounds,
      BuildAttempts, DeepAttempts, CompleteDeepKnowledge, CanCompleteDeepKnowledge
<1> QED
  BY <1>1, <1>2 DEF Step, Good

\* handleDeepResult, needs_decision keeps a session good.
LEMMA NeedDecisionStep ==
  ASSUME NEW s, Good(s), NEW id \in s.deep, NEW d \in AllDecisionIds, CanNeedDecision(s, id)
  PROVE  Step(s, NeedDecision(s, id, d))
<1>1. WellFormed(NeedDecision(s, id, d))
  BY StagesEnumerated
  DEF Good, WellFormed, IsSession, NewSession, AtMostOne, MoveTo, NeedDecision, Ask,
      DeepAttempts, Questions, QuestionKinds, AllDecisionIds, PanelStages
<1> DEFINE q == [kind |-> "deep_decision", round |-> id.id, id |-> d]
           t == NeedDecision(s, id, d)
<1>2. q.kind = "deep_decision"
  OBVIOUS
<1> HIDE DEF q
<1>3. /\ t.orch = "WAIT_USER" /\ t.waitUser = {q} /\ t.round = s.round
      /\ t.deep = {} /\ t.context = s.context /\ t.adr = s.adr
      /\ t.package = s.package /\ t.contextCandidate = s.contextCandidate
      /\ t.adrCandidate = s.adrCandidate /\ t.searches = s.searches
      /\ t.nextRound = s.nextRound /\ t.nextDeep = s.nextDeep
      /\ t.nextContext = s.nextContext /\ t.nextAdr = s.nextAdr
  BY DEF Good, WellFormed, IsSession, NewSession, NeedDecision, Ask, MoveTo, q
<1> HIDE DEF t
<1>4. /\ Waiting(t) /\ OfCurrentRound(t) /\ Asked(t)
      /\ OnePackage(t) /\ InBudget(t) /\ Issues(s, t)
  BY <1>2, <1>3, LimitsAssumption
  DEF Good, WellFormed, IsSession, Waiting, OfCurrentRound, Asked, OnePackage, InBudget,
      Issues, CurrentRoundId, CanBuildContext, CanBuildAdr
<1> QED
  BY <1>1, <1>4 DEF Step, Good, t

\* handleDeepResult, needs_discovery, keeps a session good: back to Light
\* Discovery, the fallback question, or nothing but the count.
LEMMA NeedDiscoveryStep ==
  ASSUME NEW s, Good(s), NEW id \in s.deep
  PROVE  Step(s, NeedDiscovery(s, id))
<1> DEFINE q == [kind |-> "deep_discovery_fallback", round |-> id.round,
                 id |-> <<"fallback", id.id>>]
           t == NeedDiscovery(s, id)
<1>1. WellFormed(t)
  BY StagesEnumerated
  DEF Good, WellFormed, IsSession, NewSession, AtMostOne, MoveTo, NeedDiscovery, Ask,
      DeepAttempts, Questions, QuestionKinds, AllDecisionIds, RuntimeIds, PanelStages
<1>2. q.kind = "deep_discovery_fallback"
  OBVIOUS
<1> HIDE DEF q
<1>3. /\ \/ t.orch = s.orch /\ t.waitUser = s.waitUser /\ t.deep = s.deep
         \/ t.orch = "WAIT_USER" /\ t.waitUser = {q} /\ t.deep = {}
         \/ t.orch = "LIGHT_DISCOVERY" /\ t.waitUser = {} /\ t.deep = {}
      /\ t.round = s.round /\ t.context = s.context /\ t.adr = s.adr
      /\ t.package = s.package /\ t.contextCandidate = s.contextCandidate
      /\ t.adrCandidate = s.adrCandidate /\ t.searches = s.searches
      /\ t.nextRound = s.nextRound /\ t.nextDeep = s.nextDeep
      /\ t.nextContext = s.nextContext /\ t.nextAdr = s.nextAdr
  BY DEF Good, WellFormed, IsSession, NewSession, NeedDiscovery, Ask, MoveTo, q
<1> HIDE DEF t
<1>4. /\ Waiting(t) /\ OfCurrentRound(t) /\ Asked(t)
      /\ OnePackage(t) /\ InBudget(t) /\ Issues(s, t)
  BY <1>2, <1>3, LimitsAssumption
  DEF Good, WellFormed, IsSession, Waiting, OfCurrentRound, Asked, OnePackage, InBudget,
      Issues, CurrentRoundId
<1> QED
  BY <1>1, <1>4 DEF Step, Good, t

\* handleDeepResult, completed keeps a session good.
LEMMA CompleteUnderstandingStep ==
  ASSUME NEW s, Good(s), NEW id \in s.deep, CanCompleteUnderstanding(s, id)
  PROVE  Step(s, CompleteUnderstanding(s, id))
<1>1. WellFormed(CompleteUnderstanding(s, id))
  BY StagesEnumerated
  DEF Good, WellFormed, IsSession, NewSession, AtMostOne, MoveTo,
      CompleteUnderstanding, DeepAttempts, Packages, BuildAttempts, PanelStages
<1>2. /\ Waiting(CompleteUnderstanding(s, id)) /\ OfCurrentRound(CompleteUnderstanding(s, id))
      /\ Asked(CompleteUnderstanding(s, id)) /\ OnePackage(CompleteUnderstanding(s, id))
      /\ InBudget(CompleteUnderstanding(s, id)) /\ Issues(s, CompleteUnderstanding(s, id))
  BY MovesFromWaitUser, LimitsAssumption
  DEF Good, WellFormed, IsSession, NewSession, AtMostOne, MoveTo, Waiting,
      OfCurrentRound, Asked, OnePackage, InBudget, Issues, CurrentRoundId, Rounds,
      BuildAttempts, DeepAttempts, CompleteUnderstanding, CanCompleteUnderstanding
<1> QED
  BY <1>1, <1>2 DEF Step, Good

\* completeContextBuild, ambiguous keeps a session good.
LEMMA ContextAmbiguousStep ==
  ASSUME NEW s, Good(s), NEW id \in s.context, NEW d \in DecisionIds, CanBuildContext(s, id)
  PROVE  Step(s, ContextAmbiguous(s, id, d))
<1>1. WellFormed(ContextAmbiguous(s, id, d))
  BY StagesEnumerated
  DEF Good, WellFormed, IsSession, NewSession, AtMostOne, MoveTo, ContextAmbiguous,
      Ask, BuildAttempts, Questions, QuestionKinds, AllDecisionIds, PanelStages
<1> DEFINE q == [kind |-> "context_ambiguity", round |-> id.round, id |-> d]
           t == ContextAmbiguous(s, id, d)
<1>2. q.kind = "context_ambiguity"
  OBVIOUS
<1> HIDE DEF q
<1>3. /\ t.orch = "WAIT_USER" /\ t.waitUser = {q} /\ t.round = s.round
      /\ t.deep = s.deep /\ t.context = {} /\ t.adr = s.adr
      /\ t.package = s.package /\ t.contextCandidate = s.contextCandidate
      /\ t.adrCandidate = s.adrCandidate /\ t.searches = s.searches
      /\ t.nextRound = s.nextRound /\ t.nextDeep = s.nextDeep
      /\ t.nextContext = s.nextContext /\ t.nextAdr = s.nextAdr
  BY DEF Good, WellFormed, IsSession, NewSession, ContextAmbiguous, Ask, MoveTo, q
<1> HIDE DEF t
<1>4. /\ Waiting(t) /\ OfCurrentRound(t) /\ Asked(t)
      /\ OnePackage(t) /\ InBudget(t) /\ Issues(s, t)
  BY <1>2, <1>3, LimitsAssumption
  DEF Good, WellFormed, IsSession, Waiting, OfCurrentRound, Asked, OnePackage, InBudget,
      Issues, CurrentRoundId, CanBuildContext, CanBuildAdr
<1> QED
  BY <1>1, <1>4 DEF Step, Good, t

\* completeContextBuild keeps a session good.
LEMMA CompleteContextBuildStep ==
  ASSUME NEW s, Good(s), NEW id \in s.context, CanBuildContext(s, id)
  PROVE  Step(s, CompleteContextBuild(s, id))
<1>1. WellFormed(CompleteContextBuild(s, id))
  BY StagesEnumerated
  DEF Good, WellFormed, IsSession, NewSession, AtMostOne, MoveTo, CompleteContextBuild,
      BuildAttempts, PanelStages
<1>2. /\ Waiting(CompleteContextBuild(s, id)) /\ OfCurrentRound(CompleteContextBuild(s, id))
      /\ Asked(CompleteContextBuild(s, id)) /\ OnePackage(CompleteContextBuild(s, id))
      /\ InBudget(CompleteContextBuild(s, id)) /\ Issues(s, CompleteContextBuild(s, id))
  BY MovesFromWaitUser, LimitsAssumption
  DEF Good, WellFormed, IsSession, NewSession, AtMostOne, MoveTo, Waiting,
      OfCurrentRound, Asked, OnePackage, InBudget, Issues, CurrentRoundId, Rounds,
      BuildAttempts, DeepAttempts, CompleteContextBuild, CanBuildContext
<1> QED
  BY <1>1, <1>2 DEF Step, Good

\* prepareAdrBuild keeps a session good.
LEMMA PrepareAdrBuildStep ==
  ASSUME NEW s, Good(s), NEW id \in s.adr, CanBuildAdr(s, id)
  PROVE  Step(s, PrepareAdrBuild(s))
<1>1. WellFormed(PrepareAdrBuild(s))
  BY StagesEnumerated
  DEF Good, WellFormed, IsSession, NewSession, AtMostOne, MoveTo, PrepareAdrBuild
<1>2. /\ Waiting(PrepareAdrBuild(s)) /\ OfCurrentRound(PrepareAdrBuild(s))
      /\ Asked(PrepareAdrBuild(s)) /\ OnePackage(PrepareAdrBuild(s))
      /\ InBudget(PrepareAdrBuild(s)) /\ Issues(s, PrepareAdrBuild(s))
  BY MovesFromWaitUser, LimitsAssumption
  DEF Good, WellFormed, IsSession, NewSession, AtMostOne, MoveTo, Waiting,
      OfCurrentRound, Asked, OnePackage, InBudget, Issues, CurrentRoundId, Rounds,
      BuildAttempts, DeepAttempts, PrepareAdrBuild, CanBuildAdr
<1> QED
  BY <1>1, <1>2 DEF Step, Good

\* requireAdrDecision keeps a session good.
LEMMA RequireAdrDecisionStep ==
  ASSUME NEW s, Good(s), NEW id \in s.adr, NEW d \in DecisionIds, CanBuildAdr(s, id)
  PROVE  Step(s, RequireAdrDecision(s, id, d))
<1>1. WellFormed(RequireAdrDecision(s, id, d))
  BY StagesEnumerated
  DEF Good, WellFormed, IsSession, NewSession, AtMostOne, MoveTo, RequireAdrDecision,
      Ask, BuildAttempts, Questions, QuestionKinds, AllDecisionIds, PanelStages
<1> DEFINE q == [kind |-> "adr_ambiguity", round |-> id.round, id |-> d]
           t == RequireAdrDecision(s, id, d)
<1>2. q.kind = "adr_ambiguity"
  OBVIOUS
<1> HIDE DEF q
<1>3. /\ t.orch = "WAIT_USER" /\ t.waitUser = {q} /\ t.round = s.round
      /\ t.deep = s.deep /\ t.context = s.context /\ t.adr = {}
      /\ t.package = s.package /\ t.contextCandidate = s.contextCandidate
      /\ t.adrCandidate = {} /\ t.searches = s.searches
      /\ t.nextRound = s.nextRound /\ t.nextDeep = s.nextDeep
      /\ t.nextContext = s.nextContext /\ t.nextAdr = s.nextAdr
  BY DEF Good, WellFormed, IsSession, NewSession, RequireAdrDecision, Ask, MoveTo, q
<1> HIDE DEF t
<1>4. /\ Waiting(t) /\ OfCurrentRound(t) /\ Asked(t)
      /\ OnePackage(t) /\ InBudget(t) /\ Issues(s, t)
  BY <1>2, <1>3, LimitsAssumption
  DEF Good, WellFormed, IsSession, Waiting, OfCurrentRound, Asked, OnePackage, InBudget,
      Issues, CurrentRoundId, CanBuildContext, CanBuildAdr
<1> QED
  BY <1>1, <1>4 DEF Step, Good, t

\* finalizeAdrBuild keeps a session good: the candidate that is written out
\* can only be that of the package.
LEMMA FinalizeAdrBuildStep ==
  ASSUME NEW s, Good(s), NEW id \in s.adr, CanFinalizeAdrBuild(s, id)
  PROVE  Step(s, FinalizeAdrBuild(s))
<1>1. WellFormed(FinalizeAdrBuild(s))
  BY StagesEnumerated
  DEF Good, WellFormed, IsSession, NewSession, AtMostOne, MoveTo, FinalizeAdrBuild, PanelStages
<1>2. s.adrCandidate = s.package
  <2>1. s.adrCandidate \subseteq s.package /\ s.adrCandidate # {}
    BY DEF Good, OnePackage, CanFinalizeAdrBuild
  <2>2. \A x, y \in s.package : x = y
    BY DEF Good, WellFormed, AtMostOne
  <2> QED
    BY <2>1, <2>2
<1>3. /\ Waiting(FinalizeAdrBuild(s)) /\ OfCurrentRound(FinalizeAdrBuild(s))
      /\ Asked(FinalizeAdrBuild(s)) /\ OnePackage(FinalizeAdrBuild(s))
      /\ InBudget(FinalizeAdrBuild(s)) /\ Issues(s, FinalizeAdrBuild(s))
  BY <1>2, MovesFromWaitUser, LimitsAssumption
  DEF Good, WellFormed, IsSession, NewSession, MoveTo, Waiting, OfCurrentRound, Asked,
      OnePackage, InBudget, Issues, CurrentRoundId, Rounds, BuildAttempts, DeepAttempts,
      FinalizeAdrBuild, CanFinalizeAdrBuild
<1> QED
  BY <1>1, <1>3 DEF Step, Good

\* A new snapshot leaves the rest of the session as it is.
LEMMA ForgetSnapshotWellFormed ==
  ASSUME NEW s, WellFormed(s)
  PROVE  WellFormed(ForgetSnapshot(s))
BY DEF WellFormed, IsSession, NewSession, AtMostOne, ForgetSnapshot

\* startGrillRound keeps a session good, on a new snapshot and on the old one.
LEMMA StartGrillRoundStep ==
  ASSUME NEW s, Good(s), NEW fresh \in BOOLEAN
  PROVE  Step(s, StartGrillRound(s, fresh))
<1> DEFINE first    == fresh \/ s.round = {}
           base     == IF first THEN ForgetSnapshot(s) ELSE s
           snapshot == IF first THEN s.nextRound ELSE The(s.round).snapshot
           t        == StartGrillRound(s, fresh)
<1>1. snapshot \in Nat
  BY TheMember DEF Good, WellFormed, IsSession, Rounds
<1>2. WellFormed(base)
  BY ForgetSnapshotWellFormed DEF Good
<1>3. /\ base.orch = s.orch /\ base.waitUser = s.waitUser /\ base.nextRound = s.nextRound
      /\ base.nextDeep = s.nextDeep /\ base.nextContext = s.nextContext
      /\ base.nextAdr = s.nextAdr
      /\ base.context \subseteq s.context /\ base.adr \subseteq s.adr
      /\ Asked(base) /\ OnePackage(base)
  BY DEF Good, WellFormed, IsSession, NewSession, ForgetSnapshot, Asked, OnePackage
<1>4. t = [base EXCEPT !.omitted = FALSE, !.searchRound = {}, !.searches = 0, !.deep = {},
                       !.round = {[id |-> s.nextRound, snapshot |-> snapshot]},
                       !.nextRound = base.nextRound + 1]
  BY DEF StartGrillRound
<1> HIDE DEF first, base, snapshot, t
<1>5. WellFormed(t)
  BY <1>1, <1>2, <1>3, <1>4 DEF WellFormed, IsSession, NewSession, AtMostOne, Rounds
<1>6. /\ Waiting(t) /\ OfCurrentRound(t) /\ Asked(t)
      /\ OnePackage(t) /\ InBudget(t) /\ Issues(s, t)
  BY <1>1, <1>2, <1>3, <1>4, LimitsAssumption
  DEF Good, WellFormed, IsSession, NewSession, Waiting, OfCurrentRound, Asked, OnePackage,
      InBudget, Issues
<1> QED
  BY <1>5, <1>6 DEF Step, Good, t

\* A new Deep attempt, once the session is at its phase without a question.
LEMMA NewDeepAttemptStep ==
  ASSUME NEW s, Good(s), NEW phase \in DeepPhases, s.round # {},
         NEW u, u = [MoveTo(s, phase) EXCEPT !.waitUser = {}]
  PROVE  Step(s, NewDeepAttempt(u, phase))
<1>1. The(s.round).id \in Nat /\ The(s.round).id \in CurrentRoundId(s)
  BY TheMember DEF Good, WellFormed, IsSession, Rounds, CurrentRoundId
<1>2. u.round = s.round /\ u.nextDeep = s.nextDeep
  BY DEF Good, WellFormed, IsSession, NewSession, MoveTo
<1>3. WellFormed(u)
  BY StagesEnumerated
  DEF Good, WellFormed, IsSession, NewSession, AtMostOne, MoveTo, PanelStages, DeepPhases
<1>4. WellFormed(NewDeepAttempt(u, phase))
  BY <1>1, <1>2, <1>3
  DEF WellFormed, IsSession, NewSession, AtMostOne, NewDeepAttempt, DeepAttempts
<1>5. /\ Waiting(NewDeepAttempt(u, phase)) /\ OfCurrentRound(NewDeepAttempt(u, phase))
      /\ Asked(NewDeepAttempt(u, phase)) /\ OnePackage(NewDeepAttempt(u, phase))
      /\ InBudget(NewDeepAttempt(u, phase)) /\ Issues(s, NewDeepAttempt(u, phase))
  BY <1>1, <1>2, LimitsAssumption
  DEF Good, WellFormed, IsSession, NewSession, MoveTo, DeepPhases, NewDeepAttempt, Waiting,
      OfCurrentRound, Asked, OnePackage, InBudget, Issues, CurrentRoundId
<1> QED
  BY <1>4, <1>5 DEF Step, Good

\* beginDeepKnowledge keeps a session good.
LEMMA BeginDeepKnowledgeStep ==
  ASSUME NEW s, Good(s), NEW phase \in DeepPhases, CanBeginDeepKnowledge(s, phase)
  PROVE  Step(s, BeginDeepKnowledge(s, phase))
BY NewDeepAttemptStep DEF BeginDeepKnowledge, CanBeginDeepKnowledge

\* A call that changes nothing.
LEMMA NoStep ==
  ASSUME NEW s, Good(s)
  PROVE  Step(s, s)
BY DEF Step, Issues, Good, WellFormed, IsSession

\* retryDeepKnowledge keeps a session good.
LEMMA RetryDeepKnowledgeStep ==
  ASSUME NEW s, Good(s)
  PROVE  Step(s, RetryDeepKnowledge(s))
<1>1. CASE s.round = {} \/ RetryPhase(s) = {}
  BY <1>1, NoStep DEF RetryDeepKnowledge
<1>2. CASE s.round # {} /\ RetryPhase(s) # {}
  <2>1. The(RetryPhase(s)) \in DeepPhases
    BY <1>2, TheMember DEF Good, WellFormed, IsSession, RetryPhase
  <2> QED
    BY <1>2, <2>1, NewDeepAttemptStep DEF RetryDeepKnowledge
<1> QED
  BY <1>1, <1>2

\* cancelDeepKnowledge keeps a session good.
LEMMA CancelDeepKnowledgeStep ==
  ASSUME NEW s, Good(s)
  PROVE  Step(s, CancelDeepKnowledge(s))
<1> DEFINE phases == {a.phase : a \in s.deep}
           phase  == IF phases # {} THEN The(phases)
                     ELSE IF s.retryPhase # {} THEN The(s.retryPhase)
                     ELSE IF s.stage = "KNOWLEDGE_UNDERSTANDING"
                            THEN "KNOWLEDGE_UNDERSTANDING"
                            ELSE "DEEP_KNOWLEDGE_RETRIEVAL"
           t      == CancelDeepKnowledge(s)
<1>1. phase \in DeepPhases
  <2>1. phases \subseteq DeepPhases
    BY DEF Good, WellFormed, IsSession, DeepAttempts
  <2>2. phases # {} => The(phases) \in DeepPhases
    BY <2>1, TheMember
  <2>3. s.retryPhase # {} => The(s.retryPhase) \in DeepPhases
    BY TheMember DEF Good, WellFormed, IsSession
  <2> QED
    BY <2>2, <2>3 DEF DeepPhases
<1>2. t = [MoveTo(s, phase) EXCEPT !.waitUser = {}, !.deep = {}, !.retryPhase = {},
                                   !.resumePhase = {phase}, !.discoveries = 0,
                                   !.package = {}]
  BY DEF CancelDeepKnowledge
<1> HIDE DEF phases, phase, t
<1>3. WellFormed(t)
  BY <1>1, <1>2, StagesEnumerated
  DEF Good, WellFormed, IsSession, NewSession, AtMostOne, MoveTo, DeepPhases, PanelStages
<1>4. /\ Waiting(t) /\ OfCurrentRound(t) /\ Asked(t)
      /\ OnePackage(t) /\ InBudget(t) /\ Issues(s, t)
  BY <1>1, <1>2, LimitsAssumption
  DEF Good, WellFormed, IsSession, NewSession, MoveTo, DeepPhases, Waiting, OfCurrentRound,
      Asked, OnePackage, InBudget, Issues
<1> QED
  BY <1>3, <1>4 DEF Step, Good, t

\* completeDeepRetrieval locks the evidence of a completed retrieval, and no more.
LEMMA CompleteDeepRetrievalStep ==
  ASSUME NEW s, Good(s), NEW id \in s.deep, NEW inherited \in SUBSET s.fetched,
         CanCompleteDeepKnowledge(s, id)
  PROVE  Step(s, CompleteDeepRetrieval(s, id, inherited))
<1> DEFINE u == CompleteDeepKnowledge(s, id)
           t == CompleteDeepRetrieval(s, id, inherited)
<1>1. Step(s, u)
  BY CompleteDeepKnowledgeStep
<1>2. t = [u EXCEPT !.locked = {[inherited |-> inherited, supplemental |-> s.supplemental]}]
  BY DEF CompleteDeepRetrieval
<1>3. inherited \subseteq EvidenceIds /\ s.supplemental \subseteq EvidenceIds
  BY DEF Good, WellFormed, IsSession
<1> HIDE DEF u, t
<1>4. WellFormed(t)
  BY <1>1, <1>2, <1>3 DEF Step, Good, WellFormed, IsSession, NewSession, AtMostOne
<1>5. /\ Waiting(t) /\ OfCurrentRound(t) /\ Asked(t)
      /\ OnePackage(t) /\ InBudget(t) /\ Issues(s, t)
  BY <1>1, <1>2, LimitsAssumption
  DEF Step, Good, WellFormed, IsSession, NewSession, Waiting, OfCurrentRound, Asked,
      OnePackage, InBudget, Issues, CurrentRoundId
<1> QED
  BY <1>4, <1>5 DEF Step, Good, t

\* reset keeps the numbers, and nothing else.
LEMMA ResetStep ==
  ASSUME NEW s, Good(s)
  PROVE  Step(s, Reset(s))
<1> DEFINE t == Reset(s)
<1>1. t = [NewSession EXCEPT !.nextRound = s.nextRound, !.nextDeep = s.nextDeep,
                             !.nextContext = s.nextContext, !.nextAdr = s.nextAdr]
  BY DEF Reset
<1>2. Good(NewSession)
  BY NewSessionGood
<1>3. /\ s.nextRound \in Nat /\ s.nextDeep \in Nat /\ s.nextContext \in Nat /\ s.nextAdr \in Nat
  BY DEF Good, WellFormed, IsSession
<1>4. /\ t.nextRound = s.nextRound /\ t.nextDeep = s.nextDeep
      /\ t.nextContext = s.nextContext /\ t.nextAdr = s.nextAdr
      /\ t.round = {} /\ t.deep = {} /\ t.context = {} /\ t.adr = {}
  BY <1>1 DEF NewSession
<1>5. WellFormed(t)
  BY <1>3, StagesEnumerated
  DEF Reset, WellFormed, IsSession, NewSession, AtMostOne, PanelStages, RepairNotes
<1>6. /\ Waiting(t) /\ OfCurrentRound(t) /\ Asked(t) /\ OnePackage(t) /\ InBudget(t)
  BY <1>1, LimitsAssumption
  DEF NewSession, Waiting, OfCurrentRound, Asked, OnePackage, InBudget
<1>7. Issues(s, t)
  BY <1>3, <1>4 DEF Issues
<1> QED
  BY <1>5, <1>6, <1>7 DEF Step, Good, t

\* Remember keeps the answer, and changes nothing else.
LEMMA RememberKeeps ==
  ASSUME NEW s, WellFormed(s), NEW q \in Questions, NEW answer \in Answers
  PROVE  LET t == Remember(s, q, answer)
         IN  /\ WellFormed(t)
             /\ t.orch = s.orch /\ t.waitUser = s.waitUser /\ t.round = s.round
             /\ t.deep = s.deep /\ t.context = s.context /\ t.adr = s.adr
             /\ t.package = s.package /\ t.contextCandidate = s.contextCandidate
             /\ t.adrCandidate = s.adrCandidate /\ t.searches = s.searches
             /\ t.nextRound = s.nextRound /\ t.nextDeep = s.nextDeep
             /\ t.nextContext = s.nextContext /\ t.nextAdr = s.nextAdr
<1> DEFINE decisions == IF q.id \in DecidedIds(s) THEN s.decisions
                        ELSE s.decisions \cup {[id |-> q.id, answer |-> answer]}
           premises  == IF q.kind = "grill_confirmation" THEN s.premises \cup {q} ELSE s.premises
           answers   == IF q.kind = "grill_confirmation" THEN s.answers + 1 ELSE s.answers
           t         == Remember(s, q, answer)
<1>1. decisions \subseteq Decisions /\ premises \subseteq Questions /\ answers \in Nat
  BY DEF WellFormed, IsSession, Decisions, Questions
<1>2. t = [s EXCEPT !.answered = s.answered \cup {q}, !.decisions = decisions,
                    !.premises = premises, !.answers = answers]
  BY DEF Remember
<1> HIDE DEF decisions, premises, answers, t
<1> QED
  BY <1>1, <1>2 DEF WellFormed, IsSession, NewSession, AtMostOne, t

\* Where an answer takes a session that waits for it.
LEMMA ProceedStep ==
  ASSUME NEW s, Good(s), s.orch = "WAIT_USER", NEW q \in s.waitUser,
         q.kind = "grill_confirmation" => s.round # {}
  PROVE  Step(s, Proceed(s, q))
<1> DEFINE t == Proceed(s, q)
<1>0. q \in Questions /\ q.round \in Nat /\ \A p \in s.waitUser : p = q
  BY DEF Good, WellFormed, IsSession, AtMostOne, Questions
<1>1. CASE q.kind = "grill_confirmation" /\ (s.answers = AnswerLimit \/ s.continueOne)
  <2> DEFINE c == Checkpoint(s)
  <2>1. c \in Questions /\ c.kind = "grill_checkpoint"
    <3>1. The(s.round).id \in Nat
      BY <1>1, TheMember DEF Good, WellFormed, IsSession, Rounds
    <3> QED
      BY <3>1 DEF Checkpoint, Questions, QuestionKinds, AllDecisionIds, RuntimeIds
  <2>2. t = [Ask(s, c) EXCEPT !.continueOne = FALSE]
    BY <1>1 DEF Proceed, Ask, MoveTo
  <2> HIDE DEF c, t
  <2>3. WellFormed(t)
    BY <2>1, <2>2, StagesEnumerated
    DEF Good, WellFormed, IsSession, NewSession, AtMostOne, Ask, MoveTo, PanelStages
  <2>4. /\ Waiting(t) /\ OfCurrentRound(t) /\ Asked(t)
        /\ OnePackage(t) /\ InBudget(t) /\ Issues(s, t)
    BY <2>1, <2>2, LimitsAssumption
    DEF Good, WellFormed, IsSession, NewSession, Ask, MoveTo, Waiting, OfCurrentRound, Asked,
        OnePackage, InBudget, Issues, CurrentRoundId
  <2> QED
    BY <2>3, <2>4 DEF Step, Good, t
<1>2. CASE q.kind = "context_ambiguity"
  <2>1. t = [MoveTo([s EXCEPT !.waitUser = {}], "CONTEXT_BUILD") EXCEPT
               !.context = {[id |-> s.nextContext, round |-> q.round]},
               !.nextContext = s.nextContext + 1]
    BY <1>2 DEF Good, WellFormed, IsSession, NewSession, Proceed, MoveTo
  <2> HIDE DEF t
  <2>2. WellFormed(t)
    BY <1>0, <2>1, StagesEnumerated
    DEF Good, WellFormed, IsSession, NewSession, AtMostOne, MoveTo, PanelStages, BuildAttempts
  <2>3. /\ Waiting(t) /\ OfCurrentRound(t) /\ Asked(t)
        /\ OnePackage(t) /\ InBudget(t) /\ Issues(s, t)
    BY <2>1, LimitsAssumption
    DEF Good, WellFormed, IsSession, NewSession, MoveTo, Waiting, OfCurrentRound, Asked,
        OnePackage, InBudget, Issues, CurrentRoundId
  <2> QED
    BY <2>2, <2>3 DEF Step, Good, t
<1>3. CASE q.kind = "adr_ambiguity"
  <2>1. t = [MoveTo([s EXCEPT !.waitUser = {}], "ADR_BUILD") EXCEPT
               !.adr = {[id |-> s.nextAdr, round |-> q.round]}, !.nextAdr = s.nextAdr + 1]
    BY <1>3 DEF Good, WellFormed, IsSession, NewSession, Proceed, MoveTo
  <2>2. s.adrCandidate = {} /\ s.contextCandidate = s.package
    BY <1>3 DEF Good, Asked
  <2> HIDE DEF t
  <2>3. WellFormed(t)
    BY <1>0, <2>1, StagesEnumerated
    DEF Good, WellFormed, IsSession, NewSession, AtMostOne, MoveTo, PanelStages, BuildAttempts
  <2>4. /\ Waiting(t) /\ OfCurrentRound(t) /\ Asked(t)
        /\ OnePackage(t) /\ InBudget(t) /\ Issues(s, t)
    BY <2>1, <2>2, LimitsAssumption
    DEF Good, WellFormed, IsSession, NewSession, MoveTo, Waiting, OfCurrentRound, Asked,
        OnePackage, InBudget, Issues, CurrentRoundId
  <2> QED
    BY <2>3, <2>4 DEF Step, Good, t
<1>4. CASE /\ ~(q.kind = "grill_confirmation" /\ (s.answers = AnswerLimit \/ s.continueOne))
           /\ q.kind # "context_ambiguity" /\ q.kind # "adr_ambiguity"
  <2>1. PICK stage \in {"GRILL", "USER_CONFIRMED"} :
          t = MoveTo([s EXCEPT !.waitUser = {}], stage)
    BY <1>4 DEF Proceed
  <2> HIDE DEF t
  <2>2. WellFormed(t)
    BY <2>1, StagesEnumerated
    DEF Good, WellFormed, IsSession, NewSession, AtMostOne, MoveTo, PanelStages
  <2>3. /\ Waiting(t) /\ OfCurrentRound(t) /\ Asked(t)
        /\ OnePackage(t) /\ InBudget(t) /\ Issues(s, t)
    BY <2>1, LimitsAssumption
    DEF Good, WellFormed, IsSession, NewSession, MoveTo, Waiting, OfCurrentRound, Asked,
        OnePackage, InBudget, Issues, CurrentRoundId
  <2> QED
    BY <2>2, <2>3 DEF Step, Good, t
<1> QED
  BY <1>1, <1>2, <1>3, <1>4

\* recordAnswer keeps a session good.
LEMMA RecordAnswerStep ==
  ASSUME NEW s, Good(s), NEW answer \in Answers
  PROVE  Step(s, RecordAnswer(s, answer))
<1> DEFINE q == The(s.waitUser)
           t == RecordAnswer(s, answer)
<1>1. CASE s.orch # "WAIT_USER"
  <2>1. t = [s EXCEPT !.stage = "REFUSED"]
    BY <1>1 DEF RecordAnswer
  <2> HIDE DEF t
  <2>2. WellFormed(t)
    BY <2>1 DEF Good, WellFormed, IsSession, NewSession, AtMostOne, PanelStages
  <2>3. /\ Waiting(t) /\ OfCurrentRound(t) /\ Asked(t)
        /\ OnePackage(t) /\ InBudget(t) /\ Issues(s, t)
    BY <2>1, LimitsAssumption
    DEF Good, WellFormed, IsSession, NewSession, Waiting, OfCurrentRound, Asked, OnePackage,
        InBudget, Issues, CurrentRoundId
  <2> QED
    BY <2>2, <2>3 DEF Step, Good, t
<1>2. CASE s.orch = "WAIT_USER" /\ ~Acceptable(s, q, answer)
  BY <1>2, NoStep DEF RecordAnswer
<1>3. CASE s.orch = "WAIT_USER" /\ Acceptable(s, q, answer)
  <2>1. q \in s.waitUser /\ q \in Questions /\ answer \in Answers
    <3>1. q \in s.waitUser
      BY <1>3, TheMember DEF Good, Waiting
    <3> QED
      BY <3>1 DEF Good, WellFormed, IsSession
  <2>2. CASE q.kind = "grill_checkpoint"
    <3>1. t = [MoveTo(s, "GRILL") EXCEPT !.waitUser = {},
                                         !.continueOne = (answer = "continue_one")]
      BY <1>3, <2>2 DEF RecordAnswer
    <3> HIDE DEF t
    <3>2. WellFormed(t)
      BY <3>1, StagesEnumerated
      DEF Good, WellFormed, IsSession, NewSession, AtMostOne, MoveTo, PanelStages
    <3>3. /\ Waiting(t) /\ OfCurrentRound(t) /\ Asked(t)
          /\ OnePackage(t) /\ InBudget(t) /\ Issues(s, t)
      BY <3>1, LimitsAssumption
      DEF Good, WellFormed, IsSession, NewSession, MoveTo, Waiting, OfCurrentRound, Asked,
          OnePackage, InBudget, Issues, CurrentRoundId
    <3> QED
      BY <3>2, <3>3 DEF Step, Good, t
  <2>3. CASE q.kind # "grill_checkpoint"
    <3> DEFINE u == Remember(s, q, answer)
    <3>1. t = Proceed(u, q)
      BY <1>3, <2>3 DEF RecordAnswer
    <3>2. /\ WellFormed(u)
          /\ u.orch = s.orch /\ u.waitUser = s.waitUser /\ u.round = s.round
          /\ u.deep = s.deep /\ u.context = s.context /\ u.adr = s.adr
          /\ u.package = s.package /\ u.contextCandidate = s.contextCandidate
          /\ u.adrCandidate = s.adrCandidate /\ u.searches = s.searches
          /\ u.nextRound = s.nextRound /\ u.nextDeep = s.nextDeep
          /\ u.nextContext = s.nextContext /\ u.nextAdr = s.nextAdr
      BY <2>1, RememberKeeps DEF Good
    <3>3. q.kind = "grill_confirmation" => s.round # {}
      BY <1>3 DEF Acceptable, CurrentRoundId
    <3> HIDE DEF u, t
    <3>4. Good(u)
      BY <3>2 DEF Good, Waiting, OfCurrentRound, Asked, OnePackage, InBudget, CurrentRoundId
    <3>5. Step(u, Proceed(u, q))
      BY <1>3, <2>1, <3>2, <3>3, <3>4, ProceedStep
    <3> QED
      BY <3>1, <3>2, <3>5 DEF Step, Issues, t
  <2> QED
    BY <2>2, <2>3
<1> QED
  BY <1>1, <1>2, <1>3

-----------------------------------------------------------------------------
(* The ground of a session, and what a step keeps.                         *)

\* The round n is one of the rounds on the current snapshot.
OnSnapshot(s, n) == \E r \in s.round : r.snapshot <= n /\ n <= r.id

RoundsInOrder(s) == \A r \in s.round : r.snapshot <= r.id /\ r.id < s.nextRound

BuiltOnSnapshot(s) ==
  /\ \A q \in s.premises : OnSnapshot(s, q.round) /\ q \in s.answered
  /\ \A p \in s.package : OnSnapshot(s, p.round)
  /\ \A l \in s.locked : l.inherited \subseteq s.fetched /\ l.supplemental \subseteq s.supplemental

NothingWithoutRound(s) ==
  s.round = {} => /\ s.waitUser = {} /\ s.decisions = {}
                  /\ s.deep = {} /\ s.context = {} /\ s.adr = {}

OneAnswerEach(s) == \A d, e \in s.decisions : d.id = e.id => d = e

Grounded(s) ==
  RoundsInOrder(s) /\ BuiltOnSnapshot(s) /\ NothingWithoutRound(s) /\ OneAnswerEach(s)

KeepsAnswers(s, t) ==
  {r.snapshot : r \in s.round} = {r.snapshot : r \in t.round} => s.decisions \subseteq t.decisions

KeepsSearches(s, t) ==
  \A r \in s.round \cap t.round :
    SearchesUsed(t, [round |-> r.id]) >= SearchesUsed(s, [round |-> r.id])

KeepsQuestion(s, t) ==
  \A q \in s.waitUser, p \in t.waitUser :
    \/ p = q
    \/ /\ q.kind = "grill_confirmation" /\ p.kind = "grill_checkpoint"
       /\ p.round = q.round /\ q \in t.answered

Keeps(s, t) == KeepsAnswers(s, t) /\ KeepsSearches(s, t) /\ KeepsQuestion(s, t)

GroundedStep(s, t) == Grounded(t) /\ Keeps(s, t)

\* A call that leaves the rounds, the answers and the searches alone, asks
\* only when nothing is asked, and asks, attempts and builds only in a round.
QuietCall(s, t) ==
  /\ t.round = s.round /\ t.nextRound = s.nextRound
  /\ t.answered = s.answered /\ t.decisions = s.decisions /\ t.premises = s.premises
  /\ t.searchRound = s.searchRound /\ t.searches = s.searches
  /\ s.fetched \subseteq t.fetched /\ s.supplemental \subseteq t.supplemental
  /\ t.locked = s.locked /\ t.package \subseteq s.package
  /\ s.waitUser = {} \/ t.waitUser \subseteq s.waitUser
  /\ s.round # {} \/ (t.waitUser = {} /\ t.deep = {} /\ t.context = {} /\ t.adr = {})

\* A new object is grounded.
LEMMA NewSessionGrounded == Grounded(NewSession)
BY DEF Grounded, RoundsInOrder, BuiltOnSnapshot, NothingWithoutRound, OneAnswerEach, NewSession

\* A quiet call keeps a session grounded.
LEMMA QuietStep ==
  ASSUME NEW s, Good(s), Grounded(s), NEW t, QuietCall(s, t)
  PROVE  GroundedStep(s, t)
<1>1. Grounded(t)
  BY DEF Grounded, RoundsInOrder, BuiltOnSnapshot, NothingWithoutRound, OneAnswerEach,
         OnSnapshot, QuietCall
<1>2. KeepsAnswers(s, t) /\ KeepsQuestion(s, t)
  BY DEF KeepsAnswers, KeepsQuestion, QuietCall, Good, WellFormed, AtMostOne
<1>3. KeepsSearches(s, t)
  <2>1. \A id : SearchesUsed(t, id) = SearchesUsed(s, id)
    BY DEF SearchesUsed, QuietCall
  <2>2. \A id : SearchesUsed(s, id) \in Nat
    BY DEF SearchesUsed, Good, WellFormed, IsSession
  <2> QED
    BY <2>1, <2>2 DEF KeepsSearches
<1> QED
  BY <1>1, <1>2, <1>3 DEF GroundedStep, Keeps

-----------------------------------------------------------------------------
(* The calls that are not quiet.                                           *)

\* startGrillRound issues the next round of the snapshot, or forgets with the
\* snapshot all that was said, read and built on it.
LEMMA StartGrillRoundGrounded ==
  ASSUME NEW s, Good(s), Grounded(s), NEW fresh \in BOOLEAN
  PROVE  GroundedStep(s, StartGrillRound(s, fresh))
<1> DEFINE t == StartGrillRound(s, fresh)
<1>0. s.nextRound \in Nat /\ \A r \in s.round : r.id \in Nat /\ r.snapshot \in Nat
  BY DEF Good, WellFormed, IsSession, Rounds
<1>1. CASE fresh \/ s.round = {}
  <2>1. t = [ForgetSnapshot(s) EXCEPT
               !.omitted = FALSE, !.searchRound = {}, !.searches = 0, !.deep = {},
               !.round = {[id |-> s.nextRound, snapshot |-> s.nextRound]},
               !.nextRound = s.nextRound + 1]
    BY <1>1 DEF StartGrillRound, ForgetSnapshot, Good, WellFormed, IsSession, NewSession
  <2> HIDE DEF t
  <2>2. /\ t.round = {[id |-> s.nextRound, snapshot |-> s.nextRound]}
        /\ t.nextRound = s.nextRound + 1 /\ t.waitUser = s.waitUser
        /\ t.decisions = {} /\ t.premises = {} /\ t.package = {} /\ t.locked = {}
    BY <2>1 DEF Good, WellFormed, IsSession, NewSession, ForgetSnapshot
  <2>3. Grounded(t)
    <3>1. RoundsInOrder(t)
      BY <1>0, <2>2 DEF RoundsInOrder
    <3> QED
      BY <2>2, <3>1 DEF Grounded, BuiltOnSnapshot, NothingWithoutRound, OneAnswerEach
  <2>4. KeepsAnswers(s, t)
    <3>1. CASE s.round = {}
      BY <3>1 DEF KeepsAnswers, Grounded, NothingWithoutRound
    <3>2. CASE s.round # {}
      <4>1. PICK r \in s.round : TRUE
        BY <3>2
      <4>2. r.snapshot # s.nextRound
        BY <1>0 DEF Grounded, RoundsInOrder
      <4> QED
        BY <2>2, <4>2 DEF KeepsAnswers
    <3> QED
      BY <3>1, <3>2
  <2>5. s.round \cap t.round = {}
    BY <1>0, <2>2 DEF Grounded, RoundsInOrder
  <2> QED
    BY <2>2, <2>3, <2>4, <2>5
    DEF GroundedStep, Keeps, KeepsSearches, KeepsQuestion, Good, WellFormed, AtMostOne, t
<1>2. CASE ~(fresh \/ s.round = {})
  <2>1. PICK r \in s.round : r = The(s.round) /\ \A x \in s.round : x = r
    BY <1>2, TheMember DEF Good, WellFormed, AtMostOne
  <2>2. t = [s EXCEPT !.omitted = FALSE, !.searchRound = {}, !.searches = 0, !.deep = {},
                      !.round = {[id |-> s.nextRound, snapshot |-> r.snapshot]},
                      !.nextRound = s.nextRound + 1]
    BY <1>2, <2>1 DEF StartGrillRound, Good, WellFormed, IsSession, NewSession
  <2> HIDE DEF t
  <2>3. /\ t.round = {[id |-> s.nextRound, snapshot |-> r.snapshot]}
        /\ t.nextRound = s.nextRound + 1 /\ t.waitUser = s.waitUser
        /\ t.decisions = s.decisions /\ t.premises = s.premises /\ t.answered = s.answered
        /\ t.package = s.package /\ t.locked = s.locked
        /\ t.fetched = s.fetched /\ t.supplemental = s.supplemental
    BY <2>2 DEF Good, WellFormed, IsSession, NewSession
  <2>4. r.snapshot \in Nat /\ r.id \in Nat /\ r.snapshot <= r.id /\ r.id < s.nextRound
    BY <1>0 DEF Grounded, RoundsInOrder
  <2>5. ASSUME NEW n \in Nat, OnSnapshot(s, n)
        PROVE  OnSnapshot(t, n)
    BY <1>0, <2>1, <2>3, <2>4, <2>5 DEF OnSnapshot
  <2>6. /\ \A q \in s.premises : q.round \in Nat
        /\ \A p \in s.package : p.round \in Nat
    BY DEF Good, WellFormed, IsSession, Questions, Packages
  <2>7. Grounded(t)
    <3>1. RoundsInOrder(t)
      BY <1>0, <2>3, <2>4 DEF RoundsInOrder
    <3>2. BuiltOnSnapshot(t)
      BY <2>3, <2>5, <2>6 DEF Grounded, BuiltOnSnapshot
    <3> QED
      BY <2>3, <3>1, <3>2 DEF Grounded, NothingWithoutRound, OneAnswerEach
  <2>8. s.round \cap t.round = {}
    BY <1>0, <2>3, <2>4, <2>1
  <2> QED
    BY <2>3, <2>7, <2>8
    DEF GroundedStep, Keeps, KeepsAnswers, KeepsSearches, KeepsQuestion,
        Good, WellFormed, AtMostOne, t
<1> QED
  BY <1>1, <1>2

\* consumeDeepSearchBudget counts one search more for the current round.
LEMMA ConsumeSearchGrounded ==
  ASSUME NEW s, Good(s), Grounded(s), NEW id \in s.deep, CanSearch(s, id)
  PROVE  GroundedStep(s, ConsumeSearch(s, id))
<1> DEFINE t == ConsumeSearch(s, id)
<1>1. /\ t.round = s.round /\ t.nextRound = s.nextRound /\ t.waitUser = s.waitUser
      /\ t.decisions = s.decisions /\ t.premises = s.premises /\ t.answered = s.answered
      /\ t.package = s.package /\ t.locked = s.locked
      /\ t.fetched = s.fetched /\ t.supplemental = s.supplemental
      /\ t.deep = s.deep /\ t.context = s.context /\ t.adr = s.adr
      /\ t.searchRound = {id.round} /\ t.searches = SearchesUsed(s, id) + 1
  BY DEF ConsumeSearch, Good, WellFormed, IsSession, NewSession
<1> HIDE DEF t
<1>2. Grounded(t)
  BY <1>1
  DEF Grounded, RoundsInOrder, BuiltOnSnapshot, NothingWithoutRound, OneAnswerEach, OnSnapshot
<1>3. \A r \in s.round : r.id = id.round
  BY DEF CanSearch, CurrentRoundId, Good, WellFormed, AtMostOne
<1>4. KeepsSearches(s, t)
  <2>1. SearchesUsed(s, id) \in Nat /\ SearchesUsed(s, id) + 1 >= SearchesUsed(s, id)
    BY DEF SearchesUsed, Good, WellFormed, IsSession
  <2>2. ASSUME NEW r \in s.round
        PROVE  /\ SearchesUsed(t, [round |-> r.id]) = SearchesUsed(s, id) + 1
               /\ SearchesUsed(s, [round |-> r.id]) = SearchesUsed(s, id)
    BY <1>1, <1>3 DEF SearchesUsed
  <2> QED
    BY <1>1, <2>1, <2>2 DEF KeepsSearches
<1> QED
  BY <1>1, <1>2, <1>4
  DEF GroundedStep, Keeps, KeepsAnswers, KeepsQuestion, Good, WellFormed, AtMostOne, t

\* completeDeepRetrieval locks what the Grill fetched and the searches added on
\* this snapshot.
LEMMA CompleteDeepRetrievalGrounded ==
  ASSUME NEW s, Good(s), Grounded(s), NEW id \in s.deep, NEW inherited \in SUBSET s.fetched
  PROVE  GroundedStep(s, CompleteDeepRetrieval(s, id, inherited))
<1> DEFINE t == CompleteDeepRetrieval(s, id, inherited)
<1>1. /\ t.round = s.round /\ t.nextRound = s.nextRound /\ t.waitUser = {}
      /\ t.decisions = s.decisions /\ t.premises = s.premises /\ t.answered = s.answered
      /\ t.package = s.package
      /\ t.locked = {[inherited |-> inherited, supplemental |-> s.supplemental]}
      /\ t.fetched = s.fetched /\ t.supplemental = s.supplemental
      /\ t.context = s.context /\ t.adr = s.adr
      /\ t.searchRound = s.searchRound /\ t.searches = s.searches
  BY DEF CompleteDeepRetrieval, CompleteDeepKnowledge, MoveTo,
         Good, WellFormed, IsSession, NewSession
<1>2. s.round # {}
  BY DEF Good, OfCurrentRound, CurrentRoundId
<1> HIDE DEF t
<1>3. Grounded(t)
  BY <1>1, <1>2
  DEF Grounded, RoundsInOrder, BuiltOnSnapshot, NothingWithoutRound, OneAnswerEach, OnSnapshot
<1>4. KeepsSearches(s, t)
  BY <1>1 DEF KeepsSearches, SearchesUsed, Good, WellFormed, IsSession
<1> QED
  BY <1>1, <1>3, <1>4 DEF GroundedStep, Keeps, KeepsAnswers, KeepsQuestion, t

\* A completed understanding leaves the package of the attempt, which worked for
\* the current round.
LEMMA CompleteUnderstandingGrounded ==
  ASSUME NEW s, Good(s), Grounded(s), NEW id \in s.deep
  PROVE  GroundedStep(s, CompleteUnderstanding(s, id))
<1> DEFINE t == CompleteUnderstanding(s, id)
<1>1. /\ t.round = s.round /\ t.nextRound = s.nextRound /\ t.waitUser = {}
      /\ t.decisions = s.decisions /\ t.premises = s.premises /\ t.answered = s.answered
      /\ t.package = {[id |-> id.id, round |-> id.round]} /\ t.locked = s.locked
      /\ t.fetched = s.fetched /\ t.supplemental = s.supplemental
      /\ t.searchRound = s.searchRound /\ t.searches = s.searches
  BY DEF CompleteUnderstanding, MoveTo, Good, WellFormed, IsSession, NewSession
<1>2. PICK r \in s.round : r.id = id.round /\ r.id \in Nat /\ r.snapshot <= r.id
  BY DEF Good, OfCurrentRound, CurrentRoundId, WellFormed, IsSession, Rounds,
         Grounded, RoundsInOrder
<1> HIDE DEF t
<1>3. Grounded(t)
  BY <1>1, <1>2
  DEF Grounded, RoundsInOrder, BuiltOnSnapshot, NothingWithoutRound, OneAnswerEach, OnSnapshot
<1>4. KeepsSearches(s, t)
  BY <1>1 DEF KeepsSearches, SearchesUsed, Good, WellFormed, IsSession
<1> QED
  BY <1>1, <1>3, <1>4 DEF GroundedStep, Keeps, KeepsAnswers, KeepsQuestion, t

\* reset leaves no round, and nothing that was said or built.
LEMMA ResetGrounded ==
  ASSUME NEW s, Good(s), Grounded(s)
  PROVE  GroundedStep(s, Reset(s))
<1> DEFINE t == Reset(s)
<1>1. /\ t.round = {} /\ t.waitUser = {} /\ t.decisions = {} /\ t.premises = {}
      /\ t.package = {} /\ t.locked = {} /\ t.deep = {} /\ t.context = {} /\ t.adr = {}
  BY DEF Reset, NewSession
<1> HIDE DEF t
<1>2. Grounded(t)
  BY <1>1 DEF Grounded, RoundsInOrder, BuiltOnSnapshot, NothingWithoutRound, OneAnswerEach
<1>3. KeepsAnswers(s, t)
  BY <1>1 DEF KeepsAnswers, Grounded, NothingWithoutRound
<1> QED
  BY <1>1, <1>2, <1>3 DEF GroundedStep, Keeps, KeepsSearches, KeepsQuestion, t

-----------------------------------------------------------------------------
(* Answers.                                                                *)

\* Remembering an answer adds it to what was answered, and to the decisions and
\* the premises if it belongs there; the first answer to a decision id stays.
LEMMA RememberAdds ==
  ASSUME NEW s, WellFormed(s), NEW q \in Questions, NEW answer \in Answers
  PROVE  LET u == Remember(s, q, answer)
         IN  /\ u.answered = s.answered \cup {q} /\ s.decisions \subseteq u.decisions
             /\ OneAnswerEach(s) => OneAnswerEach(u)
             /\ u.premises = s.premises \/ (/\ q.kind = "grill_confirmation"
                                            /\ u.premises = s.premises \cup {q})
             /\ u.searchRound = s.searchRound /\ u.locked = s.locked
             /\ u.fetched = s.fetched /\ u.supplemental = s.supplemental
<1> DEFINE decisions == IF q.id \in DecidedIds(s) THEN s.decisions
                        ELSE s.decisions \cup {[id |-> q.id, answer |-> answer]}
           premises  == IF q.kind = "grill_confirmation" THEN s.premises \cup {q} ELSE s.premises
           answers   == IF q.kind = "grill_confirmation" THEN s.answers + 1 ELSE s.answers
           u         == Remember(s, q, answer)
<1>1. u = [s EXCEPT !.answered = s.answered \cup {q}, !.decisions = decisions,
                    !.premises = premises, !.answers = answers]
  BY DEF Remember
<1>2. \A d, e \in decisions : OneAnswerEach(s) => (d.id = e.id => d = e)
  BY DEF OneAnswerEach, DecidedIds
<1>3. premises = s.premises \/ (q.kind = "grill_confirmation" /\ premises = s.premises \cup {q})
  OBVIOUS
<1>4. s.decisions \subseteq decisions
  OBVIOUS
<1> HIDE DEF decisions, premises, answers, u
<1>5. /\ u.answered = s.answered \cup {q} /\ u.decisions = decisions /\ u.premises = premises
      /\ u.searchRound = s.searchRound /\ u.locked = s.locked
      /\ u.fetched = s.fetched /\ u.supplemental = s.supplemental
  BY <1>1 DEF WellFormed, IsSession, NewSession
<1> QED
  BY <1>2, <1>3, <1>4, <1>5 DEF OneAnswerEach, u

\* Where an answer takes the workflow, it finds there what was said and read.
LEMMA ProceedLeaves ==
  ASSUME NEW u, WellFormed(u), NEW q
  PROVE  LET t == Proceed(u, q)
         IN  /\ t.round = u.round /\ t.nextRound = u.nextRound
             /\ t.answered = u.answered /\ t.decisions = u.decisions /\ t.premises = u.premises
             /\ t.searchRound = u.searchRound /\ t.searches = u.searches
             /\ t.fetched = u.fetched /\ t.supplemental = u.supplemental
             /\ t.locked = u.locked /\ t.package = u.package
             /\ t.waitUser = {} \/ (q.kind = "grill_confirmation" /\ t.waitUser = {Checkpoint(u)})
BY DEF Proceed, Ask, MoveTo, WellFormed, IsSession, NewSession

\* recordAnswer keeps a session grounded: a confirmation that it accepts is of
\* the current round, and so is the checkpoint that may follow.
LEMMA RecordAnswerGrounded ==
  ASSUME NEW s, Good(s), Grounded(s), NEW answer \in Answers
  PROVE  GroundedStep(s, RecordAnswer(s, answer))
<1> DEFINE q == The(s.waitUser)
           t == RecordAnswer(s, answer)
<1>1. CASE s.orch # "WAIT_USER"
  <2>1. QuietCall(s, t)
    BY <1>1 DEF RecordAnswer, QuietCall, Grounded, NothingWithoutRound,
                Good, WellFormed, IsSession, NewSession
  <2> QED
    BY <2>1, QuietStep
<1>2. CASE s.orch = "WAIT_USER" /\ ~Acceptable(s, q, answer)
  <2>1. QuietCall(s, t)
    BY <1>2 DEF RecordAnswer, QuietCall, Grounded, NothingWithoutRound
  <2> QED
    BY <2>1, QuietStep
<1>3. CASE s.orch = "WAIT_USER" /\ Acceptable(s, q, answer)
  <2>1. q \in s.waitUser /\ q \in Questions /\ q.round \in Nat /\ \A p \in s.waitUser : p = q
    BY <1>3, TheMember DEF Good, Waiting, WellFormed, IsSession, AtMostOne, Questions
  <2>2. PICK r \in s.round : \A x \in s.round : x = r
    BY <2>1 DEF Grounded, NothingWithoutRound, Good, WellFormed, AtMostOne
  <2>3. r.id \in Nat /\ r.snapshot \in Nat /\ r.snapshot <= r.id
    BY DEF Grounded, RoundsInOrder, Good, WellFormed, IsSession, Rounds
  <2>4. q.kind = "grill_confirmation" => q.round = r.id
    BY <1>3, <2>2 DEF Acceptable, CurrentRoundId
  <2>5. CASE q.kind = "grill_checkpoint"
    <3>1. QuietCall(s, t)
      BY <1>3, <2>5, <2>2
      DEF RecordAnswer, MoveTo, QuietCall, Good, WellFormed, IsSession, NewSession
    <3> QED
      BY <3>1, QuietStep
  <2>6. CASE q.kind # "grill_checkpoint"
    <3> DEFINE u == Remember(s, q, answer)
    <3>1. t = Proceed(u, q)
      BY <1>3, <2>6 DEF RecordAnswer
    <3>2. /\ WellFormed(u) /\ u.round = s.round /\ u.nextRound = s.nextRound
          /\ u.searches = s.searches /\ u.package = s.package
      BY <2>1, RememberKeeps DEF Good
    <3>3. /\ u.answered = s.answered \cup {q} /\ s.decisions \subseteq u.decisions
          /\ OneAnswerEach(s) => OneAnswerEach(u)
          /\ u.premises = s.premises \/ (/\ q.kind = "grill_confirmation"
                                         /\ u.premises = s.premises \cup {q})
          /\ u.searchRound = s.searchRound /\ u.locked = s.locked
          /\ u.fetched = s.fetched /\ u.supplemental = s.supplemental
      BY <2>1, RememberAdds DEF Good
    <3> HIDE DEF u, q
    <3>4. /\ t.round = u.round /\ t.nextRound = u.nextRound
          /\ t.answered = u.answered /\ t.decisions = u.decisions /\ t.premises = u.premises
          /\ t.searchRound = u.searchRound /\ t.searches = u.searches
          /\ t.fetched = u.fetched /\ t.supplemental = u.supplemental
          /\ t.locked = u.locked /\ t.package = u.package
          /\ t.waitUser = {} \/ (q.kind = "grill_confirmation" /\ t.waitUser = {Checkpoint(u)})
      BY <3>1, <3>2, ProceedLeaves
    <3> HIDE DEF t
    <3>5. OnSnapshot(s, q.round) \/ q.kind # "grill_confirmation"
      BY <2>2, <2>3, <2>4 DEF OnSnapshot
    <3>6. BuiltOnSnapshot(t)
      BY <3>2, <3>3, <3>4, <3>5 DEF Grounded, BuiltOnSnapshot, OnSnapshot
    <3>7. Grounded(t)
      BY <2>2, <3>2, <3>3, <3>4, <3>6
      DEF Grounded, RoundsInOrder, NothingWithoutRound, OneAnswerEach
    <3>8. KeepsAnswers(s, t)
      BY <3>2, <3>3, <3>4 DEF KeepsAnswers
    <3>9. KeepsSearches(s, t)
      BY <3>2, <3>3, <3>4 DEF KeepsSearches, SearchesUsed, Good, WellFormed, IsSession
    <3>10. KeepsQuestion(s, t)
      <4>1. The(u.round) = r
        BY <2>2, <3>2, TheMember
      <4>2. Checkpoint(u).kind = "grill_checkpoint" /\ Checkpoint(u).round = r.id
        BY <4>1 DEF Checkpoint
      <4> QED
        BY <2>1, <2>4, <3>3, <3>4, <4>2 DEF KeepsQuestion
    <3> QED
      BY <3>7, <3>8, <3>9, <3>10 DEF GroundedStep, Keeps, t
  <2> QED
    BY <2>5, <2>6
<1> QED
  BY <1>1, <1>2, <1>3

-----------------------------------------------------------------------------
(* The quiet calls, in groups.                                             *)

\* The calls before a round's questions and around its evidence.
LEMMA QuietInGrill ==
  ASSUME NEW s, Good(s), Grounded(s), NEW e
  PROVE  /\ QuietCall(s, BeginIntent(s)) /\ QuietCall(s, BeginLightDiscovery(s))
         /\ QuietCall(s, BeginGrill(s)) /\ QuietCall(s, RecordCompletionOmission(s))
         /\ QuietCall(s, RetryGrillRound(s)) /\ QuietCall(s, RecordEvidenceFetch(s, e))
         /\ QuietCall(s, RecordDeepSupplementalEvidence(s, e))
         /\ QuietCall(s, Confirm(s)) /\ QuietCall(s, Reject(s))
BY DEF QuietCall, BeginIntent, BeginLightDiscovery, BeginGrill, RecordCompletionOmission,
       RetryGrillRound, RecordEvidenceFetch, RecordDeepSupplementalEvidence, Confirm, Reject,
       MoveTo, Grounded, NothingWithoutRound, Good, WellFormed, IsSession, NewSession

\* A question is put when none is pending, and for the current round.
LEMMA QuietRequireWaitUser ==
  ASSUME NEW s, Good(s), Grounded(s), NEW q, CanRequireWaitUser(s, q)
  PROVE  QuietCall(s, RequireWaitUser(s, q))
<1>1. CASE AnsweredBefore(s, q)
  BY <1>1 DEF RequireWaitUser, QuietCall, Grounded, NothingWithoutRound
<1>2. CASE ~AnsweredBefore(s, q)
  <2>1. s.round # {} /\ s.orch # "WAIT_USER"
    BY <1>2, MovesFromWaitUser DEF CanRequireWaitUser, CurrentRoundId
  <2>2. s.waitUser = {}
    BY <2>1 DEF Good, Waiting
  <2> QED
    BY <1>2, <2>1, <2>2
    DEF RequireWaitUser, Ask, MoveTo, QuietCall, Good, WellFormed, IsSession, NewSession
<1> QED
  BY <1>1, <1>2

\* A Deep attempt, its cancellation and its retry touch nothing said or read.
LEMMA QuietDeepKnowledge ==
  ASSUME NEW s, Good(s), Grounded(s)
  PROVE  /\ \A phase : CanBeginDeepKnowledge(s, phase) => QuietCall(s, BeginDeepKnowledge(s, phase))
         /\ \A id \in s.deep : QuietCall(s, CompleteDeepKnowledge(s, id))
         /\ QuietCall(s, CancelDeepKnowledge(s)) /\ QuietCall(s, RetryDeepKnowledge(s))
<1>1. ASSUME NEW phase, s.round # {}
      PROVE  QuietCall(s, NewDeepAttempt([MoveTo(s, phase) EXCEPT !.waitUser = {}], phase))
  BY <1>1 DEF QuietCall, NewDeepAttempt, MoveTo, Good, WellFormed, IsSession, NewSession
<1>2. ASSUME NEW phase, CanBeginDeepKnowledge(s, phase)
      PROVE  QuietCall(s, BeginDeepKnowledge(s, phase))
  BY <1>1, <1>2 DEF CanBeginDeepKnowledge, BeginDeepKnowledge
<1>3. QuietCall(s, RetryDeepKnowledge(s))
  <2>1. CASE s.round = {} \/ RetryPhase(s) = {}
    BY <2>1 DEF RetryDeepKnowledge, QuietCall, Grounded, NothingWithoutRound
  <2>2. CASE ~(s.round = {} \/ RetryPhase(s) = {})
    BY <1>1, <2>2 DEF RetryDeepKnowledge
  <2> QED
    BY <2>1, <2>2
<1>4. ASSUME NEW id \in s.deep
      PROVE  QuietCall(s, CompleteDeepKnowledge(s, id))
  BY DEF QuietCall, CompleteDeepKnowledge, MoveTo, OfCurrentRound, CurrentRoundId,
         Good, WellFormed, IsSession, NewSession
<1>5. QuietCall(s, CancelDeepKnowledge(s))
  BY DEF QuietCall, CancelDeepKnowledge, MoveTo, Grounded, NothingWithoutRound,
         Good, WellFormed, IsSession, NewSession
<1> QED
  BY <1>2, <1>3, <1>4, <1>5

\* An attempt that gives itself up asks when nothing is asked.
LEMMA QuietDeepResult ==
  ASSUME NEW s, Good(s), Grounded(s), NEW id \in s.deep
  PROVE  /\ \A d : CanNeedDecision(s, id) => QuietCall(s, NeedDecision(s, id, d))
         /\ QuietCall(s, NeedDiscovery(s, id))
<1>1. s.round # {}
  BY DEF Good, OfCurrentRound, CurrentRoundId
<1>2. CanMove(s.orch, "WAIT_USER") => s.waitUser = {}
  BY MovesFromWaitUser DEF Good, Waiting
<1>3. ASSUME NEW d, CanNeedDecision(s, id)
      PROVE  QuietCall(s, NeedDecision(s, id, d))
  BY <1>1, <1>2, <1>3
  DEF CanNeedDecision, NeedDecision, Ask, MoveTo, QuietCall, Good, WellFormed, IsSession, NewSession
<1>4. QuietCall(s, NeedDiscovery(s, id))
  BY <1>1, <1>2 DEF NeedDiscovery, Ask, MoveTo, QuietCall, Good, WellFormed, IsSession, NewSession
<1> QED
  BY <1>3, <1>4

\* The builds are begun, asked about and completed within a round.
LEMMA QuietBuilds ==
  ASSUME NEW s, Good(s), Grounded(s), NEW id, NEW d
  PROVE  /\ CanBuildContext(s, id) => /\ QuietCall(s, ContextAmbiguous(s, id, d))
                                      /\ QuietCall(s, CompleteContextBuild(s, id))
         /\ CanBuildAdr(s, id) => /\ QuietCall(s, PrepareAdrBuild(s))
                                  /\ QuietCall(s, RequireAdrDecision(s, id, d))
         /\ CanFinalizeAdrBuild(s, id) => QuietCall(s, FinalizeAdrBuild(s))
<1>1. CASE CanBuildContext(s, id) \/ CanBuildAdr(s, id) \/ CanFinalizeAdrBuild(s, id)
  <2>1. s.round # {} /\ s.waitUser = {}
    BY <1>1 DEF CanBuildContext, CanBuildAdr, CanFinalizeAdrBuild, Grounded, NothingWithoutRound,
                Good, Waiting
  <2> QED
    BY <2>1 DEF ContextAmbiguous, CompleteContextBuild, PrepareAdrBuild, RequireAdrDecision,
                FinalizeAdrBuild, Ask, MoveTo, QuietCall, Good, WellFormed, IsSession, NewSession
<1> QED
  BY <1>1

=============================================================================
