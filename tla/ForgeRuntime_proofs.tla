------------------------ MODULE ForgeRuntime_proofs ------------------------
(***************************************************************************)
(* What holds of the extension for every number of rounds, attempts,       *)
(* messages and requests, every set of decisions and answers, and every    *)
(* order in which the agent, the user and the host take their turns.       *)
(*                                                                         *)
(* The invariant, IInv, says of what the handlers share that the session   *)
(* is healthy, that the workflow is of the snapshot of the session's round *)
(* (WorkflowOfTheSnapshot), and that a Grill turn is on only in a round    *)
(* that needs no repair. A healthy session is good and grounded, as        *)
(* SessionCalls_proofs has it, and steady: its panel and its orchestrator  *)
(* differ only while a Grill or a refusal is shown, which the commands of  *)
(* the user bring about.                                                   *)
(*                                                                         *)
(* Three layers follow. The lemmas *Stays are about the calls of the       *)
(* session, *Kin about the changes of the handlers' own fields, and        *)
(* *Sound about the helpers that handlers share. Outcome is what one step  *)
(* of the extension comes to: the invariant again, no running workflow     *)
(* replaced, and nothing stale sent. There is a lemma for every action.    *)
(*                                                                         *)
(* The last three parts are invariants that need more: that an open panel  *)
(* shows the pending question, that the agent has the tools of what goes   *)
(* on (Armed), and that what opens the gate is under way (OnTrack). Each   *)
(* has its lemmas for the actions, named *Arms for the second and *Orderly *)
(* for the third, which rest on the first three layers.                    *)
(***************************************************************************)
EXTENDS ForgeRuntime, SessionCalls_proofs

-----------------------------------------------------------------------------
(* The inductive invariant.                                                *)

\* The panel follows the orchestrator but for a Grill or a refusal that is shown; a
\* repair is asked for only there, and only in a round; and the live Deep attempt
\* is in the phase of the orchestrator.
Steady(s) ==
  /\ s.stage \in {"GRILL", "REFUSED"} \/ s.stage = s.orch
  /\ s.orch = "WAIT_USER" => s.stage = "WAIT_USER"
  /\ s.repair = "RECOVERY_REQUIRED" => s.stage \in {"GRILL", "REFUSED"}
  /\ s.orch \in {"RECEIVE", "INTENT_UNDERSTANDING"} => s.round = {}
  /\ s.round = {} => s.repair = "none"
  /\ \A a \in s.deep : s.orch \in DeepPhases => a.phase = s.orch

\* What the calls of the extension keep of a session.
Healthy(s) == Good(s) /\ Grounded(s) /\ Steady(s)

\* Where a delivery may wait, or be remembered.
Slots(f) == {f.dueDeep, f.dueBuild, f.dueDiscovery, f.timerDeep, f.timerBuild,
             f.timerDiscovery, f.lastSent}

\* What the fields of the handlers may hold, the session apart.
Fields(f) ==
  /\ DOMAIN f = DOMAIN NewForge
  /\ f.workflow \subseteq Workflows /\ f.converge \subseteq Nat
  /\ f.grillRun \in BOOLEAN /\ f.request \in BOOLEAN /\ f.base \in BOOLEAN
  /\ f.active \in Tools /\ f.saved \subseteq Tools /\ f.replay \subseteq Invocations
  /\ \A o \in Slots(f) : o \subseteq Deliveries /\ AtMostOne(o)
  /\ AtMostOne(f.workflow) /\ AtMostOne(f.saved) /\ AtMostOne(f.replay)
  /\ f.replayed \subseteq Nat

\* WorkflowOfTheSnapshot, of any state of the handlers.
OfItsSnapshot(f) == {w.snapshot : w \in f.workflow} = {r.snapshot : r \in f.s.round}

\* The state of the handlers, as every handler leaves it.
Sound(f) ==
  /\ Fields(f) /\ Healthy(f.s) /\ OfItsSnapshot(f)
  /\ f.grillRun => f.s.round # {} /\ f.s.repair = "none"

\* The inductive invariant.
IInv ==
  /\ Sound(forge)
  /\ run \in {"idle", "starting", "working"} /\ inbox \in Seq(Invocations)
  /\ panels \subseteq [q: Questions, tool: BOOLEAN] /\ intents \in 0 .. MaxIntents
  /\ told \subseteq Attempts /\ refused \subseteq Invocations

-----------------------------------------------------------------------------
(* The session under the handlers.                                         *)

\* A call that leaves the round alone.
Stays(s, t) == Healthy(t) /\ t.round = s.round

\* A quiet call of a good session, once it is steady.
LEMMA QuietStays ==
  ASSUME NEW s, Healthy(s), NEW t, Step(s, t), QuietCall(s, t), Steady(t)
  PROVE  Stays(s, t)
BY QuietStep DEF Healthy, Step, GroundedStep, QuietCall, Stays

\* The orchestrator and the panel of a session whose stage is one of these.
LEMMA StageShown ==
  ASSUME NEW s, Healthy(s)
  PROVE  /\ s.waitUser # {} => s.orch = "WAIT_USER" /\ s.stage = "WAIT_USER"
         /\ s.stage \in DeepPhases => s.orch = s.stage /\ s.repair # "RECOVERY_REQUIRED"
         /\ s.stage = "WAIT_USER" => s.orch = "WAIT_USER" /\ s.repair # "RECOVERY_REQUIRED"
         /\ s.waitUser # {} \/ s.deep # {} => s.round # {}
BY DEF Healthy, Good, Grounded, Steady, Waiting, DeepPhases, NothingWithoutRound

\* The calls that begin a round.
LEMMA BeginIntentStays ==
  ASSUME NEW s, Healthy(s), CanBeginIntent(s)
  PROVE  LET t == BeginIntent(s)
         IN  Stays(s, t) /\ t.orch = "INTENT_UNDERSTANDING" /\ t.round = {} /\ t.repair = "none"
<1> DEFINE t == BeginIntent(s)
<1>1. s.orch \in {"RECEIVE", "INTENT_UNDERSTANDING"}
  BY StagesEnumerated DEF CanBeginIntent, CanMove, LegalTransitions, Healthy, Good, WellFormed,
                          IsSession
<1>2. s.round = {} /\ s.repair = "none" /\ s.deep = {}
  BY <1>1 DEF Healthy, Steady, Grounded, NothingWithoutRound
<1>3. t.orch = "INTENT_UNDERSTANDING" /\ t.round = {} /\ t.repair = "none" /\ Steady(t)
  BY <1>2 DEF BeginIntent, MoveTo, Steady, Healthy, Good, WellFormed, IsSession, NewSession
<1>4. Step(s, t) /\ QuietCall(s, t)
  BY BeginIntentStep, QuietInGrill DEF Healthy
<1> QED
  BY <1>3, <1>4, QuietStays

\* beginLightDiscovery, when no repair is asked for, keeps a session healthy.
LEMMA LightDiscoveryStays ==
  ASSUME NEW s, Healthy(s), CanBeginLightDiscovery(s), s.repair # "RECOVERY_REQUIRED"
  PROVE  LET t == BeginLightDiscovery(s)
         IN  Stays(s, t) /\ t.orch = "LIGHT_DISCOVERY" /\ t.repair # "RECOVERY_REQUIRED"
               /\ t.nextRound = s.nextRound
<1> DEFINE t == BeginLightDiscovery(s)
<1>3. /\ t.orch = "LIGHT_DISCOVERY" /\ Steady(t) /\ t.repair # "RECOVERY_REQUIRED"
      /\ t.nextRound = s.nextRound
  BY DEF BeginLightDiscovery, MoveTo, Steady, Healthy, Good, WellFormed, IsSession, NewSession,
         DeepPhases
<1>4. Step(s, t) /\ QuietCall(s, t)
  BY BeginLightDiscoveryStep, QuietInGrill DEF Healthy
<1> QED
  BY <1>3, <1>4, QuietStays

\* beginGrill shows the Grill of the round.
LEMMA BeginGrillStays ==
  ASSUME NEW s, Healthy(s), CanBeginGrill(s), s.round # {}
  PROVE  LET t == BeginGrill(s)
         IN  Stays(s, t) /\ t.stage = "GRILL" /\ t.orch = "GRILL" /\ t.repair = s.repair
<1> DEFINE t == BeginGrill(s)
<1>3. t.stage = "GRILL" /\ t.orch = "GRILL" /\ Steady(t) /\ t.repair = s.repair
  BY DEF BeginGrill, MoveTo, Steady, Healthy, Good, WellFormed, IsSession, NewSession, DeepPhases
<1>4. Step(s, t) /\ QuietCall(s, t)
  BY BeginGrillStep, QuietInGrill DEF Healthy
<1> QED
  BY <1>3, <1>4, QuietStays

\* A new Grill round is numbered next, on a new snapshot or on that of the round before.
LEMMA RoundHealthy ==
  ASSUME NEW s, Healthy(s), NEW fresh \in BOOLEAN,
         s.orch \notin {"RECEIVE", "INTENT_UNDERSTANDING"}
  PROVE  LET t == StartGrillRound(s, fresh)
         IN  /\ Healthy(t) /\ t.orch = s.orch /\ t.stage = s.stage /\ t.repair = s.repair
             /\ \E n \in Nat : t.round = {[id |-> s.nextRound, snapshot |-> n]}
                               /\ (fresh => n = s.nextRound)
                               /\ (~fresh => s.round = {} \/ n \in {r.snapshot : r \in s.round})
<1> DEFINE t == StartGrillRound(s, fresh)
           n == IF fresh \/ s.round = {} THEN s.nextRound ELSE The(s.round).snapshot
<1>1. Good(t) /\ Grounded(t)
  BY StartGrillRoundStep, StartGrillRoundGrounded DEF Healthy, Step, GroundedStep
<1>2. t.round = {[id |-> s.nextRound, snapshot |-> n]}
  BY DEF StartGrillRound, ForgetSnapshot, Healthy, Good, WellFormed, IsSession, NewSession
<1>3. /\ t.orch = s.orch /\ t.stage = s.stage /\ t.repair = s.repair /\ t.deep = {}
  BY DEF StartGrillRound, ForgetSnapshot, Healthy, Good, WellFormed, IsSession, NewSession
<1>4. n \in Nat /\ (fresh => n = s.nextRound)
      /\ (~fresh => s.round = {} \/ n \in {r.snapshot : r \in s.round})
  <2>1. s.round # {} => The(s.round) \in s.round
    BY TheMember
  <2> QED
    BY <2>1 DEF Healthy, Good, WellFormed, IsSession, Rounds
<1> HIDE DEF t, n
<1>5. Steady(t)
  BY <1>2, <1>3 DEF Steady, Healthy
<1> QED
  BY <1>1, <1>2, <1>3, <1>4, <1>5 DEF Healthy, t

\* A turn that ends without a completion asks for a repair, in the Grill.
LEMMA OmissionStays ==
  ASSUME NEW s, Healthy(s), s.round # {}, s.stage = "GRILL"
  PROVE  Stays(s, RecordCompletionOmission(s))
<1> DEFINE t == RecordCompletionOmission(s)
<1>1. Steady(t)
  BY DEF RecordCompletionOmission, Steady, Healthy, Good, WellFormed, IsSession, NewSession,
         DeepPhases
<1>2. Step(s, t) /\ QuietCall(s, t)
  BY RecordCompletionOmissionStep, QuietInGrill DEF Healthy
<1> QED
  BY <1>1, <1>2, QuietStays

\* The retry of a round settles the repair.
LEMMA RetryGrillRoundStays ==
  ASSUME NEW s, Healthy(s), CanRetryGrillRound(s)
  PROVE  LET t == RetryGrillRound(s) IN Stays(s, t) /\ t.repair = "none" /\ t.round # {}
<1> DEFINE t == RetryGrillRound(s)
<1>1. Steady(t) /\ t.repair = "none" /\ s.round # {}
  BY DEF RetryGrillRound, CanRetryGrillRound, Steady, Healthy, Good, WellFormed, IsSession,
         NewSession, DeepPhases
<1>2. Step(s, t) /\ QuietCall(s, t)
  BY RetryGrillRoundStep, QuietInGrill DEF Healthy
<1> QED
  BY <1>1, <1>2, QuietStays DEF Stays

\* The questions of the Grill.
LEMMA RequireWaitUserStays ==
  ASSUME NEW s, Healthy(s), NEW q \in Questions, CanRequireWaitUser(s, q),
         q.kind \in {"grill_confirmation", "relevance_clarification"},
         s.round # {}, s.repair = "none"
  PROVE  LET t == RequireWaitUser(s, q) IN Stays(s, t) /\ t.repair = "none"
<1> DEFINE t == RequireWaitUser(s, q)
<1>1. Steady(t) /\ t.repair = "none"
  BY DEF RequireWaitUser, Ask, MoveTo, Steady, Healthy, Good, WellFormed, IsSession, NewSession,
         DeepPhases
<1>2. Step(s, t) /\ QuietCall(s, t)
  BY RequireWaitUserStep, QuietRequireWaitUser DEF Healthy
<1> QED
  BY <1>1, <1>2, QuietStays

\* confirm and reject while nobody is asked.
LEMMA ConfirmNothingStays ==
  ASSUME NEW s, Healthy(s), s.stage # "WAIT_USER"
  PROVE  /\ Stays(s, Confirm(s)) /\ Confirm(s).repair = s.repair
         /\ Stays(s, Reject(s)) /\ Reject(s).repair = "none"
<1>1. s.orch # "WAIT_USER"
  BY DEF Healthy, Steady
<1>2. Steady(Confirm(s)) /\ Confirm(s).repair = s.repair
  BY <1>1 DEF Confirm, Steady, Healthy, Good, WellFormed, IsSession, NewSession, DeepPhases
<1>3. Steady(Reject(s)) /\ Reject(s).repair = "none"
  BY <1>1 DEF Reject, Steady, Healthy, Good, WellFormed, IsSession, NewSession, DeepPhases
<1>4. /\ Step(s, Confirm(s)) /\ QuietCall(s, Confirm(s))
      /\ Step(s, Reject(s)) /\ QuietCall(s, Reject(s))
  BY ConfirmStep, RejectStep, QuietInGrill DEF Healthy
<1> QED
  BY <1>2, <1>3, <1>4, QuietStays

\* beginDeepKnowledge leaves an attempt in the phase of the orchestrator.
LEMMA BeginDeepStays ==
  ASSUME NEW s, Healthy(s), NEW phase \in DeepPhases, CanBeginDeepKnowledge(s, phase),
         s.repair # "RECOVERY_REQUIRED"
  PROVE  LET t == BeginDeepKnowledge(s, phase) IN Stays(s, t) /\ t.repair = s.repair
<1> DEFINE t == BeginDeepKnowledge(s, phase)
<1>1. Steady(t) /\ t.repair = s.repair
  BY DEF BeginDeepKnowledge, NewDeepAttempt, CanBeginDeepKnowledge, MoveTo, Steady, Healthy,
         Good, WellFormed, IsSession, NewSession, DeepPhases
<1>2. Step(s, t) /\ QuietCall(s, t)
  BY BeginDeepKnowledgeStep, QuietDeepKnowledge DEF Healthy
<1> QED
  BY <1>1, <1>2, QuietStays

\* ... and so does the retry of Deep Knowledge.
LEMMA RetryDeepStays ==
  ASSUME NEW s, Healthy(s), s.repair # "RECOVERY_REQUIRED"
  PROVE  LET t == RetryDeepKnowledge(s) IN Stays(s, t) /\ t.repair = s.repair
<1> DEFINE t == RetryDeepKnowledge(s)
<1>1. Steady(t) /\ t.repair = s.repair
  <2>1. CASE s.round = {} \/ RetryPhase(s) = {}
    BY <2>1 DEF RetryDeepKnowledge, Healthy
  <2>2. CASE ~(s.round = {} \/ RetryPhase(s) = {})
    <3> DEFINE phase == The(RetryPhase(s))
    <3>1. phase \in DeepPhases
      BY <2>2, TheMember DEF RetryPhase, Healthy, Good, WellFormed, IsSession
    <3>2. t = NewDeepAttempt([MoveTo(s, phase) EXCEPT !.waitUser = {}], phase)
      BY <2>2 DEF RetryDeepKnowledge
    <3> HIDE DEF phase, t
    <3> QED
      BY <2>2, <3>1, <3>2 DEF NewDeepAttempt, MoveTo, Steady, Healthy, Good, WellFormed,
                              IsSession, NewSession, DeepPhases
  <2> QED
    BY <2>1, <2>2
<1>2. Step(s, t) /\ QuietCall(s, t)
  BY RetryDeepKnowledgeStep, QuietDeepKnowledge DEF Healthy
<1> QED
  BY <1>1, <1>2, QuietStays

\* The cancel of Deep Knowledge leaves a phase to resume.
LEMMA CancelDeepStays ==
  ASSUME NEW s, Healthy(s), s.repair # "RECOVERY_REQUIRED"
  PROVE  Stays(s, CancelDeepKnowledge(s))
<1> DEFINE phases == {a.phase : a \in s.deep}
           phase  == IF phases # {} THEN The(phases)
                     ELSE IF s.retryPhase # {} THEN The(s.retryPhase)
                     ELSE IF s.stage = "KNOWLEDGE_UNDERSTANDING" THEN "KNOWLEDGE_UNDERSTANDING"
                     ELSE "DEEP_KNOWLEDGE_RETRIEVAL"
           t == CancelDeepKnowledge(s)
<1>1. phase \in DeepPhases
  <2>1. phases # {} => The(phases) \in phases
    BY TheMember
  <2>2. s.retryPhase # {} => The(s.retryPhase) \in s.retryPhase
    BY TheMember
  <2>3. phases \subseteq DeepPhases /\ s.retryPhase \subseteq DeepPhases
    BY DEF Healthy, Good, WellFormed, IsSession, DeepAttempts
  <2> HIDE DEF phases
  <2> QED
    BY <2>1, <2>2, <2>3 DEF DeepPhases
<1>2. t = [MoveTo(s, phase) EXCEPT !.waitUser = {}, !.deep = {}, !.retryPhase = {},
                                   !.resumePhase = {phase}, !.discoveries = 0, !.package = {}]
  BY DEF CancelDeepKnowledge
<1>3. Step(s, t) /\ QuietCall(s, t)
  BY CancelDeepKnowledgeStep, QuietDeepKnowledge DEF Healthy
<1> HIDE DEF phase, t
<1>4. Steady(t)
  BY <1>1, <1>2 DEF MoveTo, Steady, Healthy, Good, WellFormed, IsSession, NewSession, DeepPhases
<1> QED
  BY <1>3, <1>4, QuietStays DEF t

\* The completions of a Deep attempt, whose gate is open.
LEMMA DeepResultStays ==
  ASSUME NEW s, Healthy(s), s.stage \in DeepPhases, NEW a \in s.deep
  PROVE  /\ Stays(s, CompleteDeepRetrieval(s, a, {}))
         /\ CompleteDeepRetrieval(s, a, {}).repair = s.repair
         /\ \A d \in AllDecisionIds : CanNeedDecision(s, a) =>
              Stays(s, NeedDecision(s, a, d)) /\ NeedDecision(s, a, d).repair = s.repair
         /\ CanCompleteUnderstanding(s, a) =>
              Stays(s, CompleteUnderstanding(s, a)) /\ CompleteUnderstanding(s, a).repair = s.repair
<1>1. s.orch = s.stage /\ s.repair # "RECOVERY_REQUIRED" /\ s.round # {}
  BY StageShown
<1>2. Stays(s, CompleteDeepRetrieval(s, a, {})) /\ CompleteDeepRetrieval(s, a, {}).repair = s.repair
  <2> DEFINE t == CompleteDeepRetrieval(s, a, {})
  <2>1. CanCompleteDeepKnowledge(s, a)
    BY <1>1 DEF CanCompleteDeepKnowledge, CanMove, LegalTransitions, DeepPhases
  <2>2. Step(s, t)
    BY <2>1, CompleteDeepRetrievalStep DEF Healthy
  <2>3. GroundedStep(s, t)
    BY CompleteDeepRetrievalGrounded DEF Healthy
  <2>4. Steady(t) /\ t.round = s.round /\ t.repair = s.repair
    BY <1>1 DEF CompleteDeepRetrieval, CompleteDeepKnowledge, MoveTo, Steady, Healthy, Good,
                WellFormed, IsSession, NewSession, DeepPhases, DeepAttempts
  <2> QED
    BY <2>2, <2>3, <2>4 DEF Stays, Healthy, Step, GroundedStep
<1>3. ASSUME NEW d \in AllDecisionIds, CanNeedDecision(s, a)
      PROVE  Stays(s, NeedDecision(s, a, d)) /\ NeedDecision(s, a, d).repair = s.repair
  <2>1. Step(s, NeedDecision(s, a, d)) /\ QuietCall(s, NeedDecision(s, a, d))
    BY <1>3, NeedDecisionStep, QuietDeepResult DEF Healthy
  <2>2. Steady(NeedDecision(s, a, d)) /\ NeedDecision(s, a, d).repair = s.repair
    BY <1>1 DEF NeedDecision, Ask, MoveTo, Steady, Healthy, Good, WellFormed, IsSession,
                NewSession, DeepPhases
  <2> QED
    BY <2>1, <2>2, QuietStays
<1>4. ASSUME CanCompleteUnderstanding(s, a)
      PROVE  Stays(s, CompleteUnderstanding(s, a)) /\ CompleteUnderstanding(s, a).repair = s.repair
  <2> DEFINE t == CompleteUnderstanding(s, a)
  <2>1. Step(s, t) /\ GroundedStep(s, t)
    BY <1>4, CompleteUnderstandingStep, CompleteUnderstandingGrounded DEF Healthy
  <2>2. Steady(t) /\ t.repair = s.repair /\ t.round = s.round
    BY <1>1 DEF CompleteUnderstanding, MoveTo, Steady, Healthy, Good, WellFormed, IsSession,
                NewSession, DeepPhases
  <2> QED
    BY <2>1, <2>2 DEF Stays, Healthy, Step, GroundedStep
<1> QED
  BY <1>2, <1>3, <1>4

\* The lack of sources leads to Light Discovery, or to a question.
LEMMA NeedDiscoveryStays ==
  ASSUME NEW s, Healthy(s), s.stage \in DeepPhases, NEW a \in s.deep
  PROVE  LET t == NeedDiscovery(s, a)
         IN  /\ Stays(s, t) /\ t.repair = s.repair /\ t.nextRound = s.nextRound
             /\ t.stage # "WAIT_USER" => t.orch = "LIGHT_DISCOVERY"
<1> DEFINE t == NeedDiscovery(s, a)
<1>1. s.orch = s.stage /\ s.repair # "RECOVERY_REQUIRED" /\ s.round # {}
  BY StageShown
<1>2. CanMove(s.orch, "WAIT_USER") /\ CanMove(s.orch, "LIGHT_DISCOVERY")
  BY <1>1 DEF CanMove, LegalTransitions, DeepPhases
<1>3. Step(s, t) /\ QuietCall(s, t)
  BY NeedDiscoveryStep, QuietDeepResult DEF Healthy
<1>4. \/ t.orch = "WAIT_USER" /\ t.stage = "WAIT_USER" /\ t.deep = {}
      \/ t.orch = "LIGHT_DISCOVERY" /\ t.stage = "LIGHT_DISCOVERY" /\ t.deep = {}
  BY <1>2 DEF NeedDiscovery, Ask, MoveTo, Healthy, Good, WellFormed, IsSession, NewSession
<1>5. t.repair = s.repair /\ t.round = s.round /\ t.nextRound = s.nextRound
  BY DEF NeedDiscovery, Ask, MoveTo, Healthy, Good, WellFormed, IsSession, NewSession
<1> HIDE DEF t
<1>6. Steady(t)
  BY <1>1, <1>4, <1>5 DEF Steady, Healthy
<1> QED
  BY <1>3, <1>4, <1>5, <1>6, QuietStays DEF t

\* The completions of a Context Build.
LEMMA BuildStays ==
  ASSUME NEW s, Healthy(s), NEW b \in s.context, CanBuildContext(s, b), s.stage = "CONTEXT_BUILD"
  PROVE  /\ \A d \in DecisionIds : /\ Stays(s, ContextAmbiguous(s, b, d))
                                   /\ ContextAmbiguous(s, b, d).repair = s.repair
         /\ Stays(s, CompleteContextBuild(s, b)) /\ CompleteContextBuild(s, b).repair = s.repair
<1>1. s.round # {}
  BY DEF Healthy, Grounded, NothingWithoutRound
<1>2. ASSUME NEW d \in DecisionIds
      PROVE  Stays(s, ContextAmbiguous(s, b, d)) /\ ContextAmbiguous(s, b, d).repair = s.repair
  <2>1. Step(s, ContextAmbiguous(s, b, d)) /\ QuietCall(s, ContextAmbiguous(s, b, d))
    BY ContextAmbiguousStep, QuietBuilds DEF Healthy
  <2>2. Steady(ContextAmbiguous(s, b, d)) /\ ContextAmbiguous(s, b, d).repair = s.repair
    BY <1>1 DEF ContextAmbiguous, Ask, MoveTo, Steady, Healthy, Good, WellFormed, IsSession,
                NewSession, DeepPhases
  <2> QED
    BY <2>1, <2>2, QuietStays
<1>3. Step(s, CompleteContextBuild(s, b)) /\ QuietCall(s, CompleteContextBuild(s, b))
  BY CompleteContextBuildStep, QuietBuilds DEF Healthy
<1>4. Steady(CompleteContextBuild(s, b)) /\ CompleteContextBuild(s, b).repair = s.repair
  BY <1>1 DEF CompleteContextBuild, MoveTo, Steady, Healthy, Good, WellFormed, IsSession,
              NewSession, DeepPhases
<1> QED
  BY <1>2, <1>3, <1>4, QuietStays

\* The completions of an ADR Build.
LEMMA AdrStays ==
  ASSUME NEW s, Healthy(s), s.stage = "ADR_BUILD", NEW b \in s.adr, CanBuildAdr(s, b)
  PROVE  /\ \A d \in DecisionIds : /\ Stays(s, RequireAdrDecision(s, b, d))
                                   /\ RequireAdrDecision(s, b, d).repair = s.repair
         /\ Stays(s, PrepareAdrBuild(s)) /\ PrepareAdrBuild(s).repair = s.repair
         /\ Stays(s, FinalizeAdrBuild(PrepareAdrBuild(s)))
         /\ FinalizeAdrBuild(PrepareAdrBuild(s)).repair = s.repair
<1>1. s.round # {} /\ s.orch = "ADR_BUILD" /\ s.package # {}
  BY DEF Healthy, Grounded, NothingWithoutRound, CanBuildAdr
<1>2. ASSUME NEW d \in DecisionIds
      PROVE  Stays(s, RequireAdrDecision(s, b, d)) /\ RequireAdrDecision(s, b, d).repair = s.repair
  <2>1. Step(s, RequireAdrDecision(s, b, d)) /\ QuietCall(s, RequireAdrDecision(s, b, d))
    BY RequireAdrDecisionStep, QuietBuilds DEF Healthy
  <2>2. Steady(RequireAdrDecision(s, b, d)) /\ RequireAdrDecision(s, b, d).repair = s.repair
    BY <1>1 DEF RequireAdrDecision, Ask, MoveTo, Steady, Healthy, Good, WellFormed, IsSession,
                NewSession, DeepPhases
  <2> QED
    BY <2>1, <2>2, QuietStays
<1> DEFINE u == PrepareAdrBuild(s)
<1>3. /\ u.orch = s.orch /\ u.stage = s.stage /\ u.round = s.round /\ u.repair = s.repair
      /\ u.deep = s.deep /\ u.adrCandidate # {} /\ u.adr = s.adr
  BY <1>1 DEF PrepareAdrBuild, Healthy, Good, WellFormed, IsSession, NewSession
<1>4. Step(s, u) /\ QuietCall(s, u)
  BY PrepareAdrBuildStep, QuietBuilds DEF Healthy
<1> HIDE DEF u
<1>5. Stays(s, u)
  <2>1. Steady(u)
    BY <1>3 DEF Steady, Healthy
  <2> QED
    BY <1>4, <2>1, QuietStays
<1>6. CanFinalizeAdrBuild(u, b)
  BY <1>1, <1>3 DEF CanFinalizeAdrBuild
<1>7. Healthy(u)
  BY <1>5 DEF Stays
<1>8. Step(u, FinalizeAdrBuild(u)) /\ QuietCall(u, FinalizeAdrBuild(u))
  BY <1>3, <1>6, <1>7, FinalizeAdrBuildStep, QuietBuilds DEF Healthy
<1>9. Steady(FinalizeAdrBuild(u)) /\ FinalizeAdrBuild(u).repair = u.repair
  BY <1>1, <1>3, <1>7 DEF FinalizeAdrBuild, MoveTo, Steady, Healthy, Good, WellFormed, IsSession,
                          NewSession, DeepPhases
<1>10. Stays(u, FinalizeAdrBuild(u))
  BY <1>7, <1>8, <1>9, QuietStays
<1> QED
  BY <1>2, <1>3, <1>5, <1>9, <1>10 DEF Stays, u

\* The end of a workflow leaves no round.
LEMMA ResetHealthy ==
  ASSUME NEW s, Healthy(s)
  PROVE  Healthy(Reset(s)) /\ Reset(s).round = {}
<1>1. Good(Reset(s)) /\ Grounded(Reset(s))
  BY ResetStep, ResetGrounded DEF Healthy, Step, GroundedStep
<1>2. Steady(Reset(s)) /\ Reset(s).round = {}
  BY DEF Reset, Steady, NewSession
<1> QED
  BY <1>1, <1>2 DEF Healthy

\* What the answer to the pending question leaves.
LEMMA AnswerStays ==
  ASSUME NEW s, Healthy(s), NEW answer \in Answers
  PROVE  LET t == RecordAnswer(s, answer)
         IN  /\ Stays(s, t) /\ t.repair = s.repair
             /\ t.stage = "GRILL" =>
                  t.orch = "GRILL" /\ t.round # {} /\ t.repair # "RECOVERY_REQUIRED"
             /\ t.stage = "USER_CONFIRMED" =>
                  /\ t.orch = "USER_CONFIRMED" /\ t.round # {} /\ t.repair # "RECOVERY_REQUIRED"
                  /\ \E q \in s.waitUser :
                       q.kind \in {"deep_discovery_fallback", "relevance_clarification"}
             /\ s.orch = "WAIT_USER" => t.repair # "RECOVERY_REQUIRED" /\ t.stage # "REFUSED"
             /\ \A q \in s.waitUser : q.kind = "deep_discovery_fallback" =>
                  t.stage \in {"WAIT_USER", "USER_CONFIRMED"}
<1> DEFINE q == The(s.waitUser)
           t == RecordAnswer(s, answer)
<1>1. Good(t) /\ Grounded(t)
  BY RecordAnswerStep, RecordAnswerGrounded DEF Healthy, Step, GroundedStep
<1>2. CASE s.orch # "WAIT_USER"
  <2>1. t = [s EXCEPT !.stage = "REFUSED"]
    BY <1>2 DEF RecordAnswer
  <2>2. s.waitUser = {}
    BY <1>2 DEF Healthy, Good, Waiting
  <2> HIDE DEF t
  <2>3. t.round = s.round /\ t.repair = s.repair /\ t.stage = "REFUSED" /\ Steady(t)
    BY <2>1, <1>2 DEF Steady, Healthy, Good, WellFormed, IsSession, NewSession
  <2> QED
    BY <1>1, <1>2, <2>2, <2>3 DEF t, Stays, Healthy
<1>3. CASE s.orch = "WAIT_USER"
  <2>1. q \in s.waitUser /\ q \in Questions /\ \A p \in s.waitUser : p = q
    BY <1>3, TheMember DEF Healthy, Good, Waiting, WellFormed, IsSession, AtMostOne
  <2>2. s.repair # "RECOVERY_REQUIRED" /\ s.stage = "WAIT_USER" /\ s.round # {}
    BY <1>3, <2>1, StageShown DEF Healthy, Steady
  <2>3. CASE ~Acceptable(s, q, answer)
    <3>1. t = s
      BY <1>3, <2>3 DEF RecordAnswer
    <3> QED
      BY <2>1, <2>2, <3>1, StageShown DEF Stays, Healthy
  <2>4. CASE Acceptable(s, q, answer) /\ q.kind = "grill_checkpoint"
    <3>1. t = [MoveTo(s, "GRILL") EXCEPT !.waitUser = {},
                                         !.continueOne = (answer = "continue_one")]
      BY <1>3, <2>4 DEF RecordAnswer
    <3> HIDE DEF t
    <3>2. /\ t.orch = "GRILL" /\ t.stage = "GRILL"
          /\ t.round = s.round /\ t.repair = s.repair /\ t.deep = s.deep
      BY <3>1 DEF MoveTo, Healthy, Good, WellFormed, IsSession, NewSession
    <3>3. Steady(t)
      BY <3>2, <2>2 DEF Steady, DeepPhases
    <3> QED
      BY <1>1, <2>1, <2>2, <2>4, <3>2, <3>3 DEF t, Stays, Healthy
  <2>5. CASE Acceptable(s, q, answer) /\ q.kind # "grill_checkpoint"
    <3> DEFINE u == Remember(s, q, answer)
    <3>1. t = Proceed(u, q)
      BY <1>3, <2>5 DEF RecordAnswer
    <3>2. WellFormed(u) /\ u.repair = s.repair /\ u.round = s.round /\ u.deep = s.deep
      <4>1. u.repair = s.repair
        BY DEF Remember, Healthy, Good, WellFormed, IsSession, NewSession
      <4> QED
        BY <4>1, <2>1, RememberKeeps DEF Healthy, Good
    <3> HIDE DEF u, t
    <3>3. /\ t.repair = u.repair /\ t.round = u.round /\ t.deep = u.deep
          /\ t.stage = t.orch
          /\ t.orch \in {"WAIT_USER", "GRILL", "CONTEXT_BUILD", "ADR_BUILD", "USER_CONFIRMED"}
          /\ t.orch = "USER_CONFIRMED" <=>
               q.kind \in {"deep_discovery_fallback", "relevance_clarification"}
      <4> DEFINE k == q.kind
      <4>1. k \in QuestionKinds
        BY <2>1 DEF Questions
      <4>2. CASE k = "grill_confirmation" /\ (u.answers = AnswerLimit \/ u.continueOne)
        <5>1. t = [Ask(u, Checkpoint(u)) EXCEPT !.continueOne = FALSE]
          BY <3>1, <4>2 DEF Proceed
        <5> QED
          BY <3>2, <4>2, <5>1 DEF Ask, MoveTo, WellFormed, IsSession, NewSession
      <4>3. CASE k = "grill_confirmation" /\ ~(u.answers = AnswerLimit \/ u.continueOne)
        <5>1. t = MoveTo([u EXCEPT !.waitUser = {}], "GRILL")
          BY <3>1, <4>3 DEF Proceed
        <5> QED
          BY <3>2, <4>3, <5>1 DEF MoveTo, WellFormed, IsSession, NewSession
      <4>4. CASE k = "context_ambiguity"
        <5>1. t = [MoveTo([u EXCEPT !.waitUser = {}], "CONTEXT_BUILD") EXCEPT
                     !.context = {[id |-> u.nextContext, round |-> q.round]},
                     !.nextContext = @ + 1]
          BY <3>1, <4>4 DEF Proceed
        <5> QED
          BY <3>2, <4>4, <5>1 DEF MoveTo, WellFormed, IsSession, NewSession
      <4>5. CASE k = "adr_ambiguity"
        <5>1. t = [MoveTo([u EXCEPT !.waitUser = {}], "ADR_BUILD") EXCEPT
                     !.adr = {[id |-> u.nextAdr, round |-> q.round]},
                     !.nextAdr = @ + 1]
          BY <3>1, <4>5 DEF Proceed
        <5> QED
          BY <3>2, <4>5, <5>1 DEF MoveTo, WellFormed, IsSession, NewSession
      <4>6. CASE k \in {"deep_discovery_fallback", "relevance_clarification"}
        <5>1. t = MoveTo([u EXCEPT !.waitUser = {}], "USER_CONFIRMED")
          BY <3>1, <4>6 DEF Proceed
        <5> QED
          BY <3>2, <4>6, <5>1 DEF MoveTo, WellFormed, IsSession, NewSession
      <4>7. CASE k = "deep_decision"
        <5>1. t = MoveTo([u EXCEPT !.waitUser = {}], "GRILL")
          BY <3>1, <4>7 DEF Proceed
        <5> QED
          BY <3>2, <4>7, <5>1 DEF MoveTo, WellFormed, IsSession, NewSession
      <4> QED
        BY <2>5, <4>1, <4>2, <4>3, <4>4, <4>5, <4>6, <4>7 DEF QuestionKinds
    <3>4. Steady(t)
      BY <2>2, <3>2, <3>3 DEF Steady, DeepPhases
    <3> QED
      BY <1>1, <2>1, <2>2, <3>2, <3>3, <3>4 DEF t, Stays, Healthy
  <2> QED
    BY <2>3, <2>4, <2>5
<1> QED
  BY <1>2, <1>3

-----------------------------------------------------------------------------
(* The handlers' own fields.                                               *)

\* A change of the fields that are neither the session nor the workflow.
Kin(f, g) ==
  /\ Fields(g) /\ g.s = f.s /\ g.workflow = f.workflow /\ g.request = f.request
  /\ g.grillRun => f.grillRun

\* A change of such fields keeps the state sound.
LEMMA KinSound ==
  ASSUME NEW f, Sound(f), NEW g, Kin(f, g)
  PROVE  Sound(g)
BY DEF Kin, Sound, OfItsSnapshot

\* Two such changes are one.
LEMMA KinTransitive ==
  ASSUME NEW f, NEW g, NEW h, Kin(f, g), Kin(g, h)
  PROVE  Kin(f, h)
BY DEF Kin

\* The change of the tools is such a change,
LEMMA ActivateKin ==
  ASSUME NEW f, Fields(f), NEW tools \in Tools
  PROVE  Kin(f, Activate(f, tools))
BY DEF Activate, Kin, Fields, NewForge, Slots, AtMostOne

\* so is the change that saves nothing,
LEMMA UnderstandingKin ==
  ASSUME NEW f, Fields(f)
  PROVE  Kin(f, ActivateUnderstanding(f))
BY DEF ActivateUnderstanding, Kin, Fields, NewForge, Slots, AtMostOne, Tools

\* the one by the live attempt,
LEMMA ActivateDeepKin ==
  ASSUME NEW f, Fields(f)
  PROVE  Kin(f, ActivateDeep(f))
<1>1. Kin(f, f)
  BY DEF Kin
<1>2. Kin(f, Activate(f, "retrieval"))
  BY ActivateKin DEF Tools
<1>3. Kin(f, ActivateUnderstanding(f))
  BY UnderstandingKin
<1>4. ActivateDeep(f) \in {f, Activate(f, "retrieval"), ActivateUnderstanding(f)}
  <2>1. CASE \E a \in f.s.deep : a.phase = "DEEP_KNOWLEDGE_RETRIEVAL"
    <3>1. CASE \E a \in f.s.deep : a.phase = "KNOWLEDGE_UNDERSTANDING"
      BY <2>1, <3>1 DEF ActivateDeep
    <3>2. CASE ~\E a \in f.s.deep : a.phase = "KNOWLEDGE_UNDERSTANDING"
      BY <2>1, <3>2 DEF ActivateDeep
    <3> QED
      BY <3>1, <3>2
  <2>2. CASE ~\E a \in f.s.deep : a.phase = "DEEP_KNOWLEDGE_RETRIEVAL"
    <3>1. CASE \E a \in f.s.deep : a.phase = "KNOWLEDGE_UNDERSTANDING"
      BY <2>2, <3>1 DEF ActivateDeep
    <3>2. CASE ~\E a \in f.s.deep : a.phase = "KNOWLEDGE_UNDERSTANDING"
      BY <2>2, <3>2 DEF ActivateDeep
    <3> QED
      BY <3>1, <3>2
  <2> QED
    BY <2>1, <2>2
<1> QED
  BY <1>1, <1>2, <1>3, <1>4

\* and the return to the tools that were saved.
LEMMA RestoreKin ==
  ASSUME NEW f, Fields(f)
  PROVE  Kin(f, Restore(f))
<1>1. f.saved # {} => The(f.saved) \in Tools
  BY TheMember DEF Fields
<1> QED
  BY <1>1 DEF Restore, Kin, Fields, NewForge, Slots, AtMostOne

\* clearPendingState ends the Grill turn and the request besides.
LEMMA ClearPendingKin ==
  ASSUME NEW f, Fields(f)
  PROVE  LET g == ClearPending(f)
         IN  Fields(g) /\ g.s = f.s /\ g.workflow = f.workflow /\ g.grillRun = FALSE
BY DEF ClearPending, Fields, NewForge, Slots, AtMostOne

\* What the input handler does to an invocation the extension sends.
LEMMA ReplayedKin ==
  ASSUME NEW f, Fields(f), NEW inv \in Invocations
  PROVE  Kin(f, Replayed(f, inv))
<1> DEFINE g == ActivateDeep(f)
<1>1. Kin(f, g)
  BY ActivateDeepKin
<1> HIDE DEF g
<1>2. Kin(g, [g EXCEPT !.replay = {inv}])
  BY <1>1 DEF Kin, Fields, NewForge, Slots, AtMostOne
<1> QED
  BY <1>1, <1>2, KinTransitive DEF Replayed, g

\* rememberSentContextBuildInvocation is such a change,
LEMMA RememberedKin ==
  ASSUME NEW f, Fields(f), NEW d \in Deliveries
  PROVE  Kin(f, Remembered(f, d))
BY DEF Remembered, Kin, Fields, NewForge, Slots, AtMostOne

\* so is its undoing,
LEMMA ForgetSentKin ==
  ASSUME NEW f, Fields(f)
  PROVE  Kin(f, ForgetSent(f))
BY DEF ForgetSent, Kin, Fields, NewForge, Slots, AtMostOne

\* what agent_settled sets on timers,
LEMMA SettledKin ==
  ASSUME NEW f, Fields(f)
  PROVE  Kin(f, AgentSettled(f))
BY DEF AgentSettled, Kin, Fields, NewForge, Slots, AtMostOne

\* and the opening of the gate.
LEMMA MessageStartKin ==
  ASSUME NEW f, Fields(f), NEW inv
  PROVE  Kin(f, MessageStart(f, inv))
BY DEF MessageStart, Kin, Fields, NewForge, Slots, AtMostOne

\* What waits for the agent to settle is at most one delivery.
LEMMA DueIsOne ==
  ASSUME NEW f, Fields(f), NEW invs, invs \subseteq Invocations, AtMostOne(invs)
  PROVE  Due(f, invs) \subseteq Deliveries /\ AtMostOne(Due(f, invs))
BY DEF Due, Fields, AtMostOne, Deliveries

\* Setting one field or several.
LEMMA SetFields ==
  ASSUME NEW f, Fields(f), NEW d, d \subseteq Deliveries, AtMostOne(d)
  PROVE  /\ Kin(f, [f EXCEPT !.dueDeep = d]) /\ Kin(f, [f EXCEPT !.dueBuild = d])
         /\ Kin(f, [f EXCEPT !.dueDiscovery = d])
         /\ Kin(f, [f EXCEPT !.base = TRUE, !.dueBuild = d])
         /\ Kin(f, [f EXCEPT !.dueBuild = {}])
         /\ Kin(f, [f EXCEPT !.timerDeep = {}]) /\ Kin(f, [f EXCEPT !.timerBuild = {}])
         /\ Kin(f, [f EXCEPT !.timerDiscovery = {}])
         /\ Kin(f, [f EXCEPT !.converge = {}]) /\ Kin(f, [f EXCEPT !.base = FALSE])
         /\ Kin(f, [f EXCEPT !.converge = {}, !.grillRun = FALSE])
BY DEF Kin, Fields, NewForge, Slots, AtMostOne

\* A step of the session alone.
LEMMA SessionStep ==
  ASSUME NEW f, Sound(f), NEW t, Stays(f.s, t), f.grillRun => t.repair = "none"
  PROVE  LET g == [f EXCEPT !.s = t]
         IN  /\ Sound(g) /\ g.s = t /\ g.workflow = f.workflow /\ g.request = f.request
             /\ g.grillRun = f.grillRun /\ g.base = f.base /\ g.converge = f.converge
             /\ g.active = f.active
<1> DEFINE g == [f EXCEPT !.s = t]
<1>1. /\ Fields(g) /\ g.s = t /\ g.workflow = f.workflow /\ g.request = f.request
      /\ g.grillRun = f.grillRun /\ g.base = f.base /\ g.converge = f.converge
      /\ g.active = f.active
  BY DEF Sound, Fields, NewForge, Slots
<1> HIDE DEF g
<1>2. Sound(g)
  BY <1>1 DEF Sound, Stays, OfItsSnapshot
<1> QED
  BY <1>1, <1>2 DEF g

\* The invocations of a session, each for one thing that is live.
LEMMA InvocationsOf ==
  ASSUME NEW s, Healthy(s)
  PROVE  /\ DeepInvocation(s) \subseteq Invocations /\ AtMostOne(DeepInvocation(s))
         /\ ContextInvocation(s) \subseteq Invocations /\ AtMostOne(ContextInvocation(s))
         /\ AdrInvocation(s) \subseteq Invocations /\ AtMostOne(AdrInvocation(s))
         /\ RoundInvocation(s) \subseteq Invocations /\ AtMostOne(RoundInvocation(s))
<1>1. DeepInvocation(s) \subseteq Invocations /\ AtMostOne(DeepInvocation(s))
  BY DEF Healthy, Good, WellFormed, IsSession, DeepAttempts, DeepInvocation, Invocations, AtMostOne
<1>2. ContextInvocation(s) \subseteq Invocations /\ AtMostOne(ContextInvocation(s))
  BY DEF Healthy, Good, WellFormed, IsSession, BuildAttempts, ContextInvocation, Invocations,
         AtMostOne
<1>3. AdrInvocation(s) \subseteq Invocations /\ AtMostOne(AdrInvocation(s))
  BY DEF Healthy, Good, WellFormed, IsSession, BuildAttempts, AdrInvocation, Invocations, AtMostOne
<1>4. RoundInvocation(s) \subseteq Invocations /\ AtMostOne(RoundInvocation(s))
  BY DEF Healthy, Good, WellFormed, IsSession, Rounds, RoundInvocation, Invocations, AtMostOne
<1> QED
  BY <1>1, <1>2, <1>3, <1>4

\* One of them set to wait.
LEMMA DueKin ==
  ASSUME NEW f, Sound(f)
  PROVE  /\ Kin(f, [f EXCEPT !.dueDeep = Due(f, DeepInvocation(f.s))])
         /\ Kin(f, [f EXCEPT !.dueBuild = Due(f, ContextInvocation(f.s))])
         /\ Kin(f, [f EXCEPT !.dueBuild = Due(f, AdrInvocation(f.s))])
         /\ Kin(f, [f EXCEPT !.dueDiscovery = Due(f, RoundInvocation(f.s))])
         /\ Kin(f, [f EXCEPT !.base = TRUE, !.dueBuild = Due(f, ContextInvocation(f.s))])
<1>1. Fields(f) /\ Healthy(f.s)
  BY DEF Sound
<1>2. /\ Due(f, DeepInvocation(f.s)) \subseteq Deliveries /\ AtMostOne(Due(f, DeepInvocation(f.s)))
      /\ Due(f, ContextInvocation(f.s)) \subseteq Deliveries
      /\ AtMostOne(Due(f, ContextInvocation(f.s)))
      /\ Due(f, AdrInvocation(f.s)) \subseteq Deliveries /\ AtMostOne(Due(f, AdrInvocation(f.s)))
      /\ Due(f, RoundInvocation(f.s)) \subseteq Deliveries
      /\ AtMostOne(Due(f, RoundInvocation(f.s)))
  BY <1>1, InvocationsOf, DueIsOne
<1> QED
  BY <1>1, <1>2, SetFields

-----------------------------------------------------------------------------
(* Ends and beginnings.                                                    *)

\* Cancelling ends the workflow or keeps it.
LEMMA CancelSound ==
  ASSUME NEW f, Sound(f)
  PROVE  Sound(Cancel(f)) /\ Cancel(f).workflow \in {{}, f.workflow}
<1> DEFINE e == [f EXCEPT !.converge = {}]
           c == ClearPending(e)
           g == Restore(c)
<1>1. /\ Fields(g) /\ g.s = f.s /\ g.workflow = f.workflow /\ g.grillRun = FALSE
  <2>1. Kin(f, e)
    BY DEF Kin, Sound, Fields, NewForge, Slots, AtMostOne
  <2> HIDE DEF e
  <2>2. Fields(c) /\ c.s = f.s /\ c.workflow = f.workflow /\ c.grillRun = FALSE
    BY <2>1, ClearPendingKin DEF Kin
  <2> HIDE DEF c
  <2>3. Kin(c, g)
    BY <2>2, RestoreKin
  <2>4. g.grillRun \in BOOLEAN
    BY <2>3 DEF Kin, Fields
  <2> HIDE DEF g
  <2> QED
    BY <2>2, <2>3, <2>4 DEF Kin
<1>2. Cancel(f) = IF f.s.stage \in DeepPhases \/ PendingKinds(f) = {"deep_decision"}
                    THEN [g EXCEPT !.s = CancelDeepKnowledge(g.s)]
                    ELSE [g EXCEPT !.s = Reset(g.s), !.workflow = {}]
  BY DEF Cancel
<1> HIDE DEF g
<1>3. Sound(g)
  BY <1>1 DEF Sound, OfItsSnapshot
<1>4. CASE f.s.stage \in DeepPhases \/ PendingKinds(f) = {"deep_decision"}
  <2>1. f.s.repair # "RECOVERY_REQUIRED"
    <3>1. f.s.waitUser # {} \/ f.s.stage \in DeepPhases
      BY <1>4 DEF PendingKinds
    <3> QED
      BY <3>1, StageShown DEF Sound
  <2>2. Stays(g.s, CancelDeepKnowledge(g.s))
    BY <1>1, <1>4, <2>1, CancelDeepStays DEF Sound
  <2> QED
    BY <1>1, <1>2, <1>3, <1>4, <2>2, SessionStep
<1>5. CASE ~(f.s.stage \in DeepPhases \/ PendingKinds(f) = {"deep_decision"})
  <2> DEFINE r == Reset(g.s)
             h == [g EXCEPT !.s = r, !.workflow = {}]
  <2>1. Healthy(r) /\ r.round = {}
    BY <1>1, ResetHealthy DEF Sound
  <2> HIDE DEF r
  <2>2. Fields(h) /\ h.s = r /\ h.workflow = {} /\ h.grillRun = FALSE
    BY <1>1 DEF Fields, NewForge, Slots, AtMostOne
  <2>3. Cancel(f) = h
    BY <1>2, <1>5 DEF r
  <2> HIDE DEF h
  <2> QED
    BY <2>1, <2>2, <2>3 DEF Sound, OfItsSnapshot
<1> QED
  BY <1>4, <1>5

\* A workflow on a new snapshot.
LEMMA OpenGrillSound ==
  ASSUME NEW f, Fields(f), Healthy(f.s), CanBeginLightDiscovery(f.s),
         f.s.repair # "RECOVERY_REQUIRED", NEW relevant \in BOOLEAN
  PROVE  LET g == OpenGrill(f, relevant)
         IN  Sound(g) /\ g.request = f.request /\ g.s.round # {}
<1> DEFINE l == BeginLightDiscovery(f.s)
           s == StartGrillRound(l, TRUE)
           w == [snapshot |-> The(s.round).id, relevant |-> relevant]
           t == BeginGrill(s)
           h == [f EXCEPT !.s = t, !.workflow = {w}, !.grillRun = TRUE]
<1>1. /\ Healthy(l) /\ l.orch = "LIGHT_DISCOVERY" /\ l.repair # "RECOVERY_REQUIRED"
      /\ l.nextRound \in Nat
  BY LightDiscoveryStays DEF Stays, Healthy, Good, WellFormed, IsSession
<1> HIDE DEF l
<1>2. /\ Healthy(s) /\ s.orch = "LIGHT_DISCOVERY" /\ s.repair # "RECOVERY_REQUIRED"
      /\ s.round = {[id |-> l.nextRound, snapshot |-> l.nextRound]}
  BY <1>1, RoundHealthy
<1> HIDE DEF s
<1>3. The(s.round) = [id |-> l.nextRound, snapshot |-> l.nextRound]
  BY <1>2, TheMember
<1>4. w \in Workflows /\ w.snapshot = l.nextRound
  BY <1>1, <1>3 DEF Workflows
<1>5. CanBeginGrill(s) /\ s.round # {}
  BY <1>2 DEF CanBeginGrill, CanMove, LegalTransitions
<1>6. Stays(s, t) /\ t.repair = "none"
  <2>1. Stays(s, t) /\ t.repair = s.repair
    BY <1>2, <1>5, BeginGrillStays
  <2> QED
    BY <1>2, <2>1 DEF Healthy, Good, WellFormed, IsSession, RepairNotes
<1> HIDE DEF t, w
<1>7. Fields(h) /\ h.s = t /\ h.workflow = {w} /\ h.request = f.request
  BY <1>4 DEF Fields, NewForge, Slots, AtMostOne
<1> HIDE DEF h
<1>8. Sound(h)
  <2>1. t.round = s.round /\ Healthy(t)
    BY <1>6 DEF Stays
  <2>2. {r.snapshot : r \in t.round} = {l.nextRound} /\ {v.snapshot : v \in {w}} = {l.nextRound}
    BY <1>2, <1>4, <2>1
  <2> QED
    BY <1>5, <1>6, <1>7, <2>1, <2>2 DEF Sound, OfItsSnapshot
<1>9. Kin(h, Activate(h, "grill"))
  BY <1>7, ActivateKin DEF Tools
<1>10. OpenGrill(f, relevant) = Activate(h, "grill")
  BY DEF OpenGrill, h, t, w, s, l
<1> QED
  BY <1>5, <1>6, <1>7, <1>8, <1>9, <1>10, KinSound DEF Kin, Stays

\* The next round on the same snapshot.
LEMMA NextGrillSound ==
  ASSUME NEW f, Sound(f), f.s.round # {}, f.s.orch \notin {"RECEIVE", "INTENT_UNDERSTANDING"},
         f.s.repair # "RECOVERY_REQUIRED"
  PROVE  LET g == NextGrill(f)
         IN  Sound(g) /\ g.workflow = f.workflow /\ g.request = f.request /\ g.s.round # {}
<1> DEFINE t == StartGrillRound(f.s, FALSE)
           h == [f EXCEPT !.s = t, !.grillRun = TRUE]
<1>1. PICK n \in Nat : /\ Healthy(t) /\ t.repair = f.s.repair
                       /\ t.round = {[id |-> f.s.nextRound, snapshot |-> n]}
                       /\ n \in {r.snapshot : r \in f.s.round}
  BY RoundHealthy DEF Sound
<1>2. t.repair = "none" /\ \A r \in f.s.round : r.snapshot = n
  BY <1>1 DEF Sound, Healthy, Good, WellFormed, IsSession, RepairNotes, AtMostOne
<1> HIDE DEF t
<1>3. Fields(h) /\ h.s = t /\ h.workflow = f.workflow /\ h.request = f.request
  BY DEF Sound, Fields, NewForge, Slots, AtMostOne
<1> HIDE DEF h
<1>4. {r.snapshot : r \in t.round} = {n} /\ {r.snapshot : r \in f.s.round} = {n}
  BY <1>1, <1>2
<1>5. Sound(h)
  BY <1>1, <1>2, <1>3, <1>4 DEF Sound, OfItsSnapshot
<1>6. Kin(h, Activate(h, "grill"))
  BY <1>3, ActivateKin DEF Tools
<1>7. NextGrill(f) = Activate(h, "grill")
  BY DEF NextGrill, h, t
<1> QED
  BY <1>1, <1>3, <1>5, <1>6, <1>7, KinSound DEF Kin

\* The way into Deep Knowledge keeps the workflow.
LEMMA EnterDeepSound ==
  ASSUME NEW f, Sound(f), CanBeginDeepKnowledge(f.s, "DEEP_KNOWLEDGE_RETRIEVAL"),
         f.s.repair # "RECOVERY_REQUIRED"
  PROVE  LET g == EnterDeep(f)
         IN  Sound(g) /\ g.workflow = f.workflow /\ g.request = f.request
<1> DEFINE t == BeginDeepKnowledge(f.s, "DEEP_KNOWLEDGE_RETRIEVAL")
           h == [f EXCEPT !.s = t]
<1>1. Stays(f.s, t) /\ t.repair = f.s.repair
  BY BeginDeepStays DEF Sound, DeepPhases
<1>2. f.grillRun => t.repair = "none"
  BY <1>1 DEF Sound
<1> HIDE DEF t
<1>3. Sound(h) /\ h.workflow = f.workflow /\ h.request = f.request
  BY <1>1, <1>2, SessionStep
<1> HIDE DEF h
<1>4. Kin(h, Activate(h, "retrieval"))
  BY <1>3, ActivateKin DEF Tools, Sound
<1>5. EnterDeep(f) = Activate(h, "retrieval")
  BY DEF EnterDeep, h, t
<1> QED
  BY <1>3, <1>4, <1>5, KinSound DEF Kin

-----------------------------------------------------------------------------
(* Answers.                                                                *)

\* A workflow gives way only to one for the same request, clarified.
Clarifies(f, g) ==
  \/ g.workflow \in {{}, f.workflow}
  \/ g.request = f.request /\ PendingKinds(f) = {"relevance_clarification"}

\* The kinds of the questions that are pending.
LEMMA OneKind ==
  ASSUME NEW f, Sound(f), NEW q \in f.s.waitUser
  PROVE  PendingKinds(f) = {q.kind} /\ q.kind \in QuestionKinds /\ f.s.orch = "WAIT_USER"
<1>1. \A p \in f.s.waitUser : p = q
  BY DEF Sound, Healthy, Good, WellFormed, AtMostOne
<1>2. q \in Questions /\ f.s.orch = "WAIT_USER"
  BY DEF Sound, Healthy, Good, WellFormed, IsSession, Waiting
<1>3. {p.kind : p \in f.s.waitUser} = {q.kind}
  BY <1>1
<1> QED
  BY <1>2, <1>3 DEF PendingKinds, Questions

\* The handlers with the answer recorded.
LEMMA AnswerSound ==
  ASSUME NEW f, Sound(f), NEW answer \in Answers
  PROVE  LET g == [f EXCEPT !.s = RecordAnswer(@, answer)]
         IN  /\ Sound(g) /\ g.s = RecordAnswer(f.s, answer) /\ g.workflow = f.workflow
             /\ g.request = f.request /\ g.grillRun = f.grillRun
<1> DEFINE t == RecordAnswer(f.s, answer)
<1>1. Stays(f.s, t) /\ t.repair = f.s.repair
  BY AnswerStays DEF Sound
<1>2. f.grillRun => t.repair = "none"
  BY <1>1 DEF Sound
<1> HIDE DEF t
<1>3. LET g == [f EXCEPT !.s = t]
      IN  Sound(g) /\ g.s = t /\ g.workflow = f.workflow /\ g.request = f.request
            /\ g.grillRun = f.grillRun
  BY <1>1, <1>2, SessionStep
<1>4. [f EXCEPT !.s = RecordAnswer(@, answer)] = [f EXCEPT !.s = t]
  BY DEF t
<1> QED
  BY <1>3, <1>4 DEF t

\* resumeGrillWithAnswer.
LEMMA ResumeGrillSound ==
  ASSUME NEW f, Sound(f), NEW answer \in Answers, NEW relevant \in BOOLEAN,
         PendingKinds(f) \cap (DeepKinds \cup BuildKinds) = {}
  PROVE  LET h == ResumeGrill(f, answer, relevant) IN Sound(h) /\ Clarifies(f, h)
<1> DEFINE t == RecordAnswer(f.s, answer)
           g == [f EXCEPT !.s = RecordAnswer(@, answer)]
           h == ResumeGrill(f, answer, relevant)
           cancelled  == PendingKinds(f) = {"grill_checkpoint"} /\ answer = "cancel"
           converging == \E q \in f.s.waitUser :
                           q.kind = "grill_confirmation" /\ q.round \in f.converge
<1>1. Sound(g) /\ g.s = t /\ g.workflow = f.workflow /\ g.request = f.request
  BY AnswerSound
<1>2. /\ t.stage = "GRILL" => t.orch = "GRILL" /\ t.round # {} /\ t.repair # "RECOVERY_REQUIRED"
      /\ t.stage = "USER_CONFIRMED" =>
           /\ t.orch = "USER_CONFIRMED" /\ t.repair # "RECOVERY_REQUIRED"
           /\ \E q \in f.s.waitUser :
                q.kind \in {"deep_discovery_fallback", "relevance_clarification"}
  BY AnswerStays DEF Sound
<1>3. h = CASE cancelled -> Cancel(f)
            [] g.s.stage = "USER_CONFIRMED"
                 -> OpenGrill(Restore([g EXCEPT !.converge = {}, !.grillRun = FALSE]), relevant)
            [] g.s.stage = "GRILL" /\ converging -> EnterDeep([g EXCEPT !.converge = {}])
            [] g.s.stage = "GRILL" /\ ~converging
                 -> LET n == NextGrill(g)
                    IN  IF PendingKinds(f) = {"grill_checkpoint"} /\ answer = "converge"
                          THEN [n EXCEPT !.converge = {The(n.s.round).id}] ELSE n
            [] OTHER -> g
  BY DEF ResumeGrill
<1>4. t.stage = "USER_CONFIRMED" => PendingKinds(f) = {"relevance_clarification"}
  BY <1>2, OneKind DEF DeepKinds
<1>5. cancelled => t.stage # "GRILL" /\ t.stage # "USER_CONFIRMED"
  <2> SUFFICES ASSUME cancelled PROVE t = f.s /\ f.s.stage = "WAIT_USER"
    BY <1>2
  <2>1. PICK q \in f.s.waitUser : q.kind = "grill_checkpoint"
    BY DEF PendingKinds
  <2>2. The(f.s.waitUser) = q /\ f.s.orch = "WAIT_USER" /\ f.s.stage = "WAIT_USER"
    BY <2>1, TheMember, StageShown DEF Sound, Healthy, Good, WellFormed, AtMostOne
  <2>3. ~Acceptable(f.s, q, answer)
    BY <2>1 DEF Acceptable
  <2> QED
    BY <2>2, <2>3 DEF RecordAnswer
<1> HIDE DEF cancelled, converging, t, g, h
<1>6. CASE cancelled
  <2>1. h = Cancel(f)
    BY <1>1, <1>3, <1>5, <1>6
  <2> QED
    BY <2>1, CancelSound DEF Clarifies, h
<1>7. CASE g.s.stage = "USER_CONFIRMED"
  <2> DEFINE u == [g EXCEPT !.converge = {}, !.grillRun = FALSE]
             v == Restore(u)
  <2>1. h = OpenGrill(v, relevant)
    BY <1>1, <1>3, <1>5, <1>7
  <2>2. Kin(g, u)
    BY <1>1, SetFields DEF Sound, AtMostOne
  <2> HIDE DEF u
  <2>3. Kin(u, v)
    BY <2>2, RestoreKin DEF Kin
  <2> HIDE DEF v
  <2>4. Kin(g, v)
    BY <2>2, <2>3, KinTransitive
  <2>5. Fields(v) /\ Healthy(v.s) /\ v.s = t /\ v.request = f.request
    BY <1>1, <2>4 DEF Kin, Sound
  <2>6. CanBeginLightDiscovery(v.s) /\ v.s.repair # "RECOVERY_REQUIRED"
    BY <1>1, <1>2, <1>7, <2>5 DEF CanBeginLightDiscovery, CanMove, LegalTransitions
  <2> QED
    BY <1>1, <1>4, <1>7, <2>1, <2>5, <2>6, OpenGrillSound DEF Clarifies, h
<1>8. CASE g.s.stage = "GRILL" /\ converging
  <2> DEFINE u == [g EXCEPT !.converge = {}]
  <2>1. h = EnterDeep(u)
    BY <1>1, <1>3, <1>5, <1>8
  <2>2. Kin(g, u)
    BY <1>1, SetFields DEF Sound, AtMostOne
  <2> HIDE DEF u
  <2>3. Sound(u) /\ u.s = t /\ u.workflow = f.workflow
    BY <1>1, <2>2, KinSound DEF Kin
  <2>4. CanBeginDeepKnowledge(u.s, "DEEP_KNOWLEDGE_RETRIEVAL") /\ u.s.repair # "RECOVERY_REQUIRED"
    BY <1>1, <1>2, <1>8, <2>3 DEF CanBeginDeepKnowledge, CanMove, LegalTransitions
  <2> QED
    BY <2>1, <2>3, <2>4, EnterDeepSound DEF Clarifies, h
<1>9. CASE g.s.stage = "GRILL" /\ ~converging
  <2> DEFINE n == NextGrill(g)
             m == [n EXCEPT !.converge = {The(n.s.round).id}]
  <2>1. h = n \/ h = m
    BY <1>1, <1>3, <1>5, <1>9
  <2>2. Sound(n) /\ n.workflow = f.workflow /\ n.s.round # {}
    BY <1>1, <1>2, <1>9, NextGrillSound
  <2> HIDE DEF n
  <2>3. The(n.s.round).id \in Nat
    BY <2>2, TheMember DEF Sound, Healthy, Good, WellFormed, IsSession, Rounds
  <2>4. Kin(n, m)
    BY <2>2, <2>3 DEF Kin, Sound, Fields, NewForge, Slots, AtMostOne
  <2> HIDE DEF m
  <2> QED
    BY <2>1, <2>2, <2>4, KinSound DEF Kin, Clarifies, h
<1>10. CASE ~cancelled /\ g.s.stage \notin {"USER_CONFIRMED", "GRILL"}
  <2>1. h = g
    BY <1>3, <1>10
  <2> QED
    BY <1>1, <2>1 DEF Clarifies, h
<1> QED
  BY <1>6, <1>7, <1>8, <1>9, <1>10 DEF h

\* prepareDeepKnowledgeAnswer keeps the workflow and its round.
LEMMA PrepareDeepSound ==
  ASSUME NEW f, Sound(f), NEW answer \in Answers, PendingKinds(f) \cap DeepKinds # {}
  PROVE  LET h == PrepareDeep(f, answer)
         IN  Sound(h) /\ h.workflow = f.workflow /\ h.s.round = f.s.round
<1> DEFINE t == RecordAnswer(f.s, answer)
           g == [f EXCEPT !.s = RecordAnswer(@, answer)]
           h == PrepareDeep(f, answer)
<1>1. Sound(g) /\ g.s = t /\ g.workflow = f.workflow
  BY AnswerSound
<1>2. PICK q \in f.s.waitUser : q.kind \in DeepKinds
  BY DEF PendingKinds
<1>3. PendingKinds(f) = {q.kind} /\ f.s.orch = "WAIT_USER"
  BY OneKind
<1>4. /\ t.repair # "RECOVERY_REQUIRED" /\ t.repair = f.s.repair /\ t.round = f.s.round
      /\ q.kind = "deep_discovery_fallback" => t.stage \in {"WAIT_USER", "USER_CONFIRMED"}
      /\ t.stage = "USER_CONFIRMED" => t.orch = "USER_CONFIRMED" /\ t.round # {}
  BY <1>3, AnswerStays DEF Sound, Stays
<1>5. h = CASE g.s.stage = "WAIT_USER" -> g
            [] g.s.stage # "WAIT_USER" /\ PendingKinds(f) = {"deep_decision"}
                 -> ActivateDeep([g EXCEPT !.s = RetryDeepKnowledge(@)])
            [] OTHER
                 -> ActivateDeep([g EXCEPT !.s = BeginDeepKnowledge(@, "KNOWLEDGE_UNDERSTANDING")])
  BY DEF PrepareDeep
<1> HIDE DEF g, h, t
<1>6. CASE g.s.stage = "WAIT_USER"
  <2>1. h = g
    BY <1>5, <1>6
  <2> QED
    BY <1>1, <1>4, <2>1 DEF h
<1>7. ASSUME NEW u, Stays(t, u), u.repair = t.repair,
             NEW v, v = [g EXCEPT !.s = u], h = ActivateDeep(v)
      PROVE  Sound(h) /\ h.workflow = f.workflow /\ h.s.round = f.s.round
  <2>1. g.grillRun => u.repair = "none"
    BY <1>1, <1>7 DEF Sound
  <2>2. Sound(v) /\ v.workflow = f.workflow /\ v.s = u
    BY <1>1, <1>7, <2>1, SessionStep
  <2>3. Kin(v, ActivateDeep(v))
    BY <2>2, ActivateDeepKin DEF Sound
  <2> QED
    BY <1>4, <1>7, <2>2, <2>3, KinSound DEF Kin, Stays
<1>8. CASE g.s.stage # "WAIT_USER" /\ q.kind = "deep_decision"
  <2>1. h = ActivateDeep([g EXCEPT !.s = RetryDeepKnowledge(t)])
    BY <1>1, <1>3, <1>5, <1>8
  <2>2. Stays(t, RetryDeepKnowledge(t)) /\ RetryDeepKnowledge(t).repair = t.repair
    BY <1>1, <1>4, RetryDeepStays DEF Sound
  <2> QED
    BY <1>7, <2>1, <2>2 DEF h
<1>9. CASE g.s.stage # "WAIT_USER" /\ q.kind # "deep_decision"
  <2>1. h = ActivateDeep([g EXCEPT !.s = BeginDeepKnowledge(t, "KNOWLEDGE_UNDERSTANDING")])
    BY <1>1, <1>3, <1>5, <1>9
  <2>2. t.stage = "USER_CONFIRMED"
    BY <1>1, <1>2, <1>4, <1>9 DEF DeepKinds
  <2>3. CanBeginDeepKnowledge(t, "KNOWLEDGE_UNDERSTANDING")
    BY <1>4, <2>2 DEF CanBeginDeepKnowledge, CanMove, LegalTransitions
  <2>4. /\ Stays(t, BeginDeepKnowledge(t, "KNOWLEDGE_UNDERSTANDING"))
        /\ BeginDeepKnowledge(t, "KNOWLEDGE_UNDERSTANDING").repair = t.repair
    BY <1>1, <1>4, <2>3, BeginDeepStays DEF Sound, DeepPhases
  <2> QED
    BY <1>7, <2>1, <2>4 DEF h
<1> QED
  BY <1>6, <1>8, <1>9 DEF h

\* resumeBuildAnswer keeps the workflow; what it has to send is of the session's attempt.
LEMMA ResumeBuildSound ==
  ASSUME NEW f, Sound(f), NEW answer \in Answers
  PROVE  LET h == ResumeBuild(f, answer)
         IN  /\ Sound(h) /\ h.workflow = f.workflow
             /\ \A d \in h.dueBuild :
                  d \in Deliveries /\ d.inv \in ContextInvocation(h.s) \cup AdrInvocation(h.s)
             /\ AtMostOne(h.dueBuild)
<1> DEFINE t == RecordAnswer(f.s, answer)
           e == [f EXCEPT !.s = RecordAnswer(@, answer)]
           g == [f EXCEPT !.s = RecordAnswer(@, answer),
                          !.dueBuild = {}, !.timerBuild = {}, !.replay = {}]
           h == ResumeBuild(f, answer)
<1>1. Sound(e) /\ e.s = t /\ e.workflow = f.workflow
  BY AnswerSound
<1>2. Kin(e, g) /\ g.dueBuild = {}
  <2>1. g = [e EXCEPT !.dueBuild = {}, !.timerBuild = {}, !.replay = {}]
    BY DEF Sound, Fields, NewForge
  <2> HIDE DEF e, g
  <2> QED
    BY <1>1, <2>1 DEF Kin, Sound, Fields, NewForge, Slots, AtMostOne
<1>3. h = CASE g.s.stage = "CONTEXT_BUILD" /\ g.base
                 -> [Activate(g, "context") EXCEPT !.dueBuild = Due(g, ContextInvocation(g.s))]
            [] g.s.stage = "ADR_BUILD" /\ g.base
                 -> [Activate(g, "adr") EXCEPT !.dueBuild = Due(g, AdrInvocation(g.s))]
            [] OTHER -> g
  BY DEF ResumeBuild
<1> HIDE DEF e, g, h, t
<1>4. Sound(g) /\ g.workflow = f.workflow
  BY <1>1, <1>2, KinSound DEF Kin
<1>5. ASSUME NEW tools \in Tools, NEW invs, invs \subseteq Invocations, AtMostOne(invs),
             invs \subseteq ContextInvocation(g.s) \cup AdrInvocation(g.s),
             h = [Activate(g, tools) EXCEPT !.dueBuild = Due(g, invs)]
      PROVE  /\ Sound(h) /\ h.workflow = f.workflow /\ AtMostOne(h.dueBuild)
             /\ \A d \in h.dueBuild :
                  d \in Deliveries /\ d.inv \in ContextInvocation(h.s) \cup AdrInvocation(h.s)
  <2> DEFINE a == Activate(g, tools)
             due == Due(g, invs)
  <2>1. Kin(g, a)
    BY <1>4, ActivateKin DEF Sound
  <2>2. due \subseteq Deliveries /\ AtMostOne(due) /\ \A d \in due : d.inv \in invs
    <3>1. due \subseteq Deliveries /\ AtMostOne(due)
      BY <1>4, <1>5, DueIsOne DEF Sound
    <3> QED
      BY <3>1 DEF Due
  <2> HIDE DEF a, due
  <2>3. h = [a EXCEPT !.dueBuild = due]
    BY <1>5 DEF a, due
  <2>4. Kin(a, h) /\ h.dueBuild = due
    <3>0. Fields(a)
      BY <2>1 DEF Kin
    <3>1. Kin(a, h)
      BY <2>2, <2>3, <3>0, SetFields
    <3> QED
      BY <2>1, <2>3, <3>1 DEF Kin, Fields, NewForge
  <2>5. Kin(g, h)
    BY <2>1, <2>4, KinTransitive
  <2> QED
    BY <1>4, <1>5, <2>2, <2>4, <2>5, KinSound DEF Kin
<1>6. CASE g.s.stage = "CONTEXT_BUILD" /\ g.base
  <2>1. h = [Activate(g, "context") EXCEPT !.dueBuild = Due(g, ContextInvocation(g.s))]
    BY <1>3, <1>6
  <2>2. ContextInvocation(g.s) \subseteq Invocations /\ AtMostOne(ContextInvocation(g.s))
    BY <1>4, InvocationsOf DEF Sound
  <2> QED
    BY <1>5, <2>1, <2>2 DEF h, Tools
<1>7. CASE g.s.stage = "ADR_BUILD" /\ g.base
  <2>1. h = [Activate(g, "adr") EXCEPT !.dueBuild = Due(g, AdrInvocation(g.s))]
    BY <1>3, <1>7
  <2>2. AdrInvocation(g.s) \subseteq Invocations /\ AtMostOne(AdrInvocation(g.s))
    BY <1>4, InvocationsOf DEF Sound
  <2> QED
    BY <1>5, <2>1, <2>2 DEF h, Tools
<1>8. CASE ~(g.s.stage = "CONTEXT_BUILD" /\ g.base) /\ ~(g.s.stage = "ADR_BUILD" /\ g.base)
  <2>1. h = g
    BY <1>3, <1>8
  <2> QED
    BY <1>2, <1>4, <2>1 DEF h, AtMostOne
<1> QED
  BY <1>6, <1>7, <1>8

-----------------------------------------------------------------------------
(* What is sent.                                                           *)

\* Invocations made of the session name what is current in it.
LEMMA Names ==
  ASSUME NEW s, Healthy(s)
  PROVE  /\ \A inv \in DeepInvocation(s) \cup ContextInvocation(s) \cup AdrInvocation(s)
                         \cup RoundInvocation(s) :
              inv \in Invocations /\ NamesTheCurrent(s, inv)
         /\ \A r \in s.round :
              <<"again", r.id>> \in Invocations /\ NamesTheCurrent(s, <<"again", r.id>>)
         /\ \A a \in s.deep :
              <<"batch", a.id>> \in Invocations /\ NamesTheCurrent(s, <<"batch", a.id>>)
         /\ <<"prompt", 0>> \in Invocations /\ NamesTheCurrent(s, <<"prompt", 0>>)
<1>1. ASSUME NEW inv \in DeepInvocation(s) PROVE inv \in Invocations /\ NamesTheCurrent(s, inv)
  <2>1. inv \in Invocations
    BY InvocationsOf
  <2>2. inv[1] \in DeepPhases
    BY DEF DeepInvocation, Healthy, Good, WellFormed, IsSession, DeepAttempts
  <2> QED
    BY <2>1, <2>2 DEF NamesTheCurrent, DeepPhases
<1>2. ASSUME NEW inv \in ContextInvocation(s) PROVE inv \in Invocations /\ NamesTheCurrent(s, inv)
  <2>1. inv \in Invocations
    BY InvocationsOf
  <2>2. inv[1] = "context"
    BY DEF ContextInvocation
  <2> QED
    BY <2>1, <2>2 DEF NamesTheCurrent
<1>3. ASSUME NEW inv \in AdrInvocation(s) PROVE inv \in Invocations /\ NamesTheCurrent(s, inv)
  <2>1. inv \in Invocations
    BY InvocationsOf
  <2>2. inv[1] = "adr"
    BY DEF AdrInvocation
  <2> QED
    BY <2>1, <2>2 DEF NamesTheCurrent
<1>4. ASSUME NEW inv \in RoundInvocation(s) PROVE inv \in Invocations /\ NamesTheCurrent(s, inv)
  <2>1. inv \in Invocations
    BY InvocationsOf
  <2>2. inv[1] = "round" /\ \E r \in s.round : r.id = inv[2]
    BY DEF RoundInvocation
  <2> QED
    BY <2>1, <2>2 DEF NamesTheCurrent
<1>5. ASSUME NEW r \in s.round
      PROVE  <<"again", r.id>> \in Invocations /\ NamesTheCurrent(s, <<"again", r.id>>)
  BY DEF Healthy, Good, WellFormed, IsSession, Rounds, Invocations, NamesTheCurrent
<1>6. ASSUME NEW a \in s.deep
      PROVE  <<"batch", a.id>> \in Invocations /\ NamesTheCurrent(s, <<"batch", a.id>>)
  BY DEF Healthy, Good, WellFormed, IsSession, DeepAttempts, Invocations, NamesTheCurrent
<1>7. <<"prompt", 0>> \in Invocations /\ NamesTheCurrent(s, <<"prompt", 0>>)
  BY DEF Invocations, NamesTheCurrent
<1> QED
  BY <1>1, <1>2, <1>3, <1>4, <1>5, <1>6, <1>7

\* A message that was sent names what is current.
Fresh == Len(inbox') > Len(inbox) => NamesTheCurrent(forge'.s, inbox'[Len(inbox')])

\* What a step leaves of the host.
Passes ==
  /\ run' \in {"idle", "starting", "working"} /\ inbox' \in Seq(Invocations)
  /\ told' \subseteq Attempts /\ refused' \subseteq Invocations /\ Fresh

\* A step that sends nothing.
LEMMA QuietPasses ==
  ASSUME IInv, Quiet
  PROVE  Passes
BY DEF IInv, Quiet, Passes, Fresh

\* A message that names what is current.
LEMMA PostPasses ==
  ASSUME IInv, NEW inv \in Invocations, NamesTheCurrent(forge'.s, inv), Enqueue(inv),
         refused' \in {refused, {}}
  PROVE  Passes
<1>1. inbox' = Append(inbox, inv) /\ inbox \in Seq(Invocations)
  BY DEF Enqueue, IInv
<1>2. inbox' \in Seq(Invocations) /\ inbox'[Len(inbox')] = inv
  BY <1>1
<1>3. /\ run' \in {"idle", "starting", "working"} /\ told' \subseteq Attempts
      /\ refused' \subseteq Invocations
  BY DEF Enqueue, IInv
<1> QED
  BY <1>2, <1>3 DEF Passes, Fresh

\* What the user types is such a message.
LEMMA TypedPasses ==
  ASSUME IInv, NEW inv \in Invocations, NamesTheCurrent(forge'.s, inv), Post(inv)
  PROVE  Passes
BY PostPasses DEF Post

\* An invocation that the extension sends.
LEMMA SendPasses ==
  ASSUME IInv, NEW f, Sound(f), NEW inv \in Invocations, NamesTheCurrent(f.s, inv),
         SendFollowUp(f, inv) \/ SendNow(f, inv)
  PROVE  /\ Sound(forge') /\ Passes /\ forge'.s = f.s
         /\ forge'.workflow = f.workflow /\ forge'.request = f.request
<1>1. /\ forge' = Replayed(f, inv)
      /\ \/ Enqueue(inv) /\ refused' = {}
         \/ refused' = {inv} /\ UNCHANGED <<run, inbox, told>>
  BY DEF SendFollowUp, SendNow, Becomes
<1>2. Kin(f, forge')
  BY <1>1, ReplayedKin DEF Sound
<1>3. forge'.s = f.s /\ forge'.workflow = f.workflow /\ forge'.request = f.request
  BY <1>2 DEF Kin
<1>4. refused' = {inv} /\ UNCHANGED <<run, inbox, told>> => Passes
  BY DEF IInv, Passes, Fresh
<1> QED
  BY <1>1, <1>2, <1>3, <1>4, KinSound, PostPasses

-----------------------------------------------------------------------------
(* The actions.                                                            *)

\* A workflow that is replaced, as RunningWorkflowIsNotReplaced has it.
Replaces ==
  forge.workflow # {} /\ forge'.workflow \notin {{}, forge.workflow} =>
    /\ intents' = intents /\ forge'.request = forge.request
    /\ PendingKinds(forge) = {"relevance_clarification"} \/ forge.s.deep # {}

\* What a step comes to.
Outcome == IInv' /\ Replaces /\ Fresh

\* What the handlers may make of what they share.
Follows(f) ==
  /\ Sound(f)
  /\ \/ f.workflow \in {{}, forge.workflow}
     \/ /\ f.request = forge.request
        /\ PendingKinds(forge) = {"relevance_clarification"} \/ forge.s.deep # {}

\* From what the handlers and the host are left with to the outcome.
LEMMA FollowsOutcome ==
  ASSUME IInv, Follows(forge'), Passes, intents' = intents,
         panels' \subseteq [q: Questions, tool: BOOLEAN]
  PROVE  Outcome
BY DEF IInv, Follows, Passes, Outcome, Replaces

\* Panels that are left alone.
LEMMA PanelsUnchanged ==
  ASSUME IInv, UNCHANGED panels
  PROVE  panels' \subseteq [q: Questions, tool: BOOLEAN]
BY DEF IInv

\* A handler that neither asks nor sends,
LEMMA DoesOutcome ==
  ASSUME IInv, NEW f, Follows(f), Does(f)
  PROVE  Outcome
<1>1. forge' = f /\ Quiet /\ UNCHANGED <<panels, intents>>
  BY DEF Does, Becomes
<1> QED
  BY <1>1, QuietPasses, PanelsUnchanged, FollowsOutcome

\* one that asks,
LEMMA AsksOutcome ==
  ASSUME IInv, NEW f, Follows(f), NEW waits \in BOOLEAN, Asks(f, waits)
  PROVE  Outcome
<1>1. forge' = f /\ Quiet /\ UNCHANGED intents /\ Show(f.s, waits)
  BY DEF Asks, Becomes
<1>2. f.s.waitUser \subseteq Questions
  BY DEF Follows, Sound, Healthy, Good, WellFormed, IsSession
<1>3. panels' \subseteq [q: Questions, tool: BOOLEAN]
  BY <1>1, <1>2 DEF Show, IInv
<1> QED
  BY <1>1, <1>3, QuietPasses, FollowsOutcome

\* and one that sends.
LEMMA SendOutcome ==
  ASSUME IInv, NEW f, Follows(f), NEW inv \in Invocations, NamesTheCurrent(f.s, inv),
         SendFollowUp(f, inv) \/ SendNow(f, inv), UNCHANGED <<panels, intents>>
  PROVE  Outcome
<1>1. /\ Sound(forge') /\ Passes
      /\ forge'.workflow = f.workflow /\ forge'.request = f.request
  BY SendPasses DEF Follows
<1> QED
  BY <1>1, PanelsUnchanged, FollowsOutcome DEF Follows

\* The session's own change, as a handler makes it.
LEMMA Session ==
  ASSUME IInv, NEW t, Stays(forge.s, t), t.repair = forge.s.repair \/ t.repair = "none"
  PROVE  LET g == [forge EXCEPT !.s = t]
         IN  Sound(g) /\ g.s = t /\ g.workflow = forge.workflow /\ g.request = forge.request
<1>1. Sound(forge) /\ (forge.grillRun => t.repair = "none")
  BY DEF IInv, Sound
<1> QED
  BY <1>1, SessionStep

\* A change of the handlers' own fields is no replacement,
LEMMA KinFollows ==
  ASSUME NEW f, Follows(f), NEW g, Kin(f, g)
  PROVE  Follows(g)
BY KinSound DEF Follows, Kin

\* be it the return of the tools,
LEMMA RestoreFollows ==
  ASSUME NEW f, Follows(f)
  PROVE  Follows(Restore(f))
BY RestoreKin, KinFollows DEF Follows, Sound

\* or their change;
LEMMA ActivateFollows ==
  ASSUME NEW f, Follows(f), NEW tools \in Tools
  PROVE  Follows(Activate(f, tools)) /\ Activate(f, tools).s = f.s
BY ActivateKin, KinFollows DEF Follows, Sound, Kin

\* and the same workflow is none either.
LEMMA SameFollows ==
  ASSUME NEW f, Sound(f), f.workflow = forge.workflow
  PROVE  Follows(f)
BY DEF Follows

\* A turn of the Grill is on: its round is the session's, and healthy.
LEMMA GrillIsLive ==
  ASSUME IInv, GrillLive(forge)
  PROVE  /\ Sound(forge) /\ forge.s.stage = "GRILL" /\ forge.s.repair = "none"
         /\ forge.s.round # {} /\ The(forge.s.round) \in forge.s.round
         /\ The(forge.s.round).id \in Nat /\ Healthy(forge.s)
BY TheMember DEF IInv, Sound, GrillLive, Healthy, Good, WellFormed, IsSession, Rounds

\* forge_grill_complete with a question.
LEMMA GrillAsksOutcome ==
  ASSUME IInv, NEW d \in DecisionIds, GrillAsks(d)
  PROVE  Outcome
<1> DEFINE q == [kind |-> "grill_confirmation", round |-> The(forge.s.round).id, id |-> d]
           s == IF CanRequireWaitUser(forge.s, q) THEN RequireWaitUser(forge.s, q) ELSE forge.s
           g == [forge EXCEPT !.s = s]
           h == [forge EXCEPT !.s = s, !.grillRun = s.stage \in {"GRILL", "WAIT_USER"}]
<1>1. GrillLive(forge) /\ Asks(h, FALSE)
  BY DEF GrillAsks
<1>2. /\ Sound(forge) /\ forge.s.repair = "none" /\ forge.s.round # {}
      /\ The(forge.s.round).id \in Nat /\ Healthy(forge.s)
  BY <1>1, GrillIsLive
<1>3. q \in Questions /\ q.kind = "grill_confirmation"
  BY <1>2 DEF Questions, QuestionKinds, AllDecisionIds
<1> HIDE DEF q
<1>4. Stays(forge.s, s) /\ s.repair = "none"
  <2>1. CASE CanRequireWaitUser(forge.s, q)
    BY <1>2, <1>3, <2>1, RequireWaitUserStays
  <2>2. CASE ~CanRequireWaitUser(forge.s, q)
    BY <1>2, <2>2 DEF Stays
  <2> QED
    BY <2>1, <2>2
<1> HIDE DEF s
<1>5. Sound(g) /\ g.s = s /\ g.workflow = forge.workflow /\ s.round = forge.s.round
  BY <1>4, Session DEF Stays
<1>6. /\ Fields(h) /\ h.s = s /\ h.workflow = forge.workflow
  BY <1>2 DEF Sound, Fields, NewForge, Slots
<1> HIDE DEF g, h
<1>7. Sound(h)
  BY <1>2, <1>4, <1>5, <1>6 DEF Sound, OfItsSnapshot
<1> QED
  BY <1>1, <1>6, <1>7, SameFollows, AsksOutcome

\* forge_grill_complete that is ready for Deep Knowledge.
LEMMA GrillReadyOutcome ==
  ASSUME IInv, NEW premised \in BOOLEAN, GrillReady(premised)
  PROVE  Outcome
<1> DEFINE r == The(forge.s.round).id
           f == [forge EXCEPT !.converge = {}]
           q == [kind |-> "relevance_clarification", round |-> r, id |-> <<"relevance", r>>]
           g == EnterDeep(f)
           h == [f EXCEPT !.s = RequireWaitUser(@, q)]
           due == [g EXCEPT !.dueDeep = Due(g, DeepInvocation(g.s))]
<1>1. /\ GrillLive(forge)
      /\ \/ CanBeginDeepKnowledge(forge.s, "DEEP_KNOWLEDGE_RETRIEVAL") /\ Does(due)
         \/ Does(f)
         \/ CanRequireWaitUser(forge.s, q) /\ Asks(h, TRUE)
  BY DEF GrillReady
<1>2. /\ Sound(forge) /\ forge.s.repair = "none" /\ forge.s.round # {}
      /\ r \in Nat /\ Healthy(forge.s)
  BY <1>1, GrillIsLive
<1>3. q \in Questions /\ q.kind = "relevance_clarification"
  BY <1>2 DEF Questions, QuestionKinds, AllDecisionIds, RuntimeIds
<1> HIDE DEF q, f
<1>4. Kin(forge, f)
  BY <1>2, SetFields DEF Sound, AtMostOne, f
<1>5. Sound(f) /\ f.s = forge.s /\ f.workflow = forge.workflow
  BY <1>2, <1>4, KinSound DEF Kin
<1>6. CASE CanBeginDeepKnowledge(forge.s, "DEEP_KNOWLEDGE_RETRIEVAL") /\ Does(due)
  <2>1. Sound(g) /\ g.workflow = forge.workflow
    BY <1>2, <1>5, <1>6, EnterDeepSound
  <2> HIDE DEF g
  <2>2. Kin(g, due)
    BY <2>1, DueKin
  <2> HIDE DEF due
  <2> QED
    BY <1>6, <2>1, <2>2, SameFollows, KinFollows, DoesOutcome
<1>7. CASE Does(f)
  BY <1>5, <1>7, SameFollows, DoesOutcome
<1>8. CASE CanRequireWaitUser(forge.s, q) /\ Asks(h, TRUE)
  <2> DEFINE t == RequireWaitUser(forge.s, q)
  <2>1. Stays(forge.s, t) /\ t.repair = "none"
    BY <1>2, <1>3, <1>8, RequireWaitUserStays
  <2>2. h = [f EXCEPT !.s = t]
    BY <1>5 
  <2> HIDE DEF t, h
  <2>3. Sound(h) /\ h.workflow = forge.workflow
    BY <1>5, <2>1, <2>2, SessionStep
  <2> QED
    BY <1>8, <2>3, SameFollows, AsksOutcome
<1> QED
  BY <1>1, <1>6, <1>7, <1>8

\* A turn without a completion.
LEMMA GrillOmittedOutcome ==
  ASSUME IInv, GrillOmitted
  PROVE  Outcome
<1> DEFINE t == RecordCompletionOmission(forge.s)
           g == [forge EXCEPT !.s = RecordCompletionOmission(@)]
           c == ClearPending(g)
<1>1. GrillLive(forge) /\ Does(Restore(c))
  BY DEF GrillOmitted
<1>2. Sound(forge) /\ forge.s.stage = "GRILL" /\ forge.s.round # {} /\ Healthy(forge.s)
  BY <1>1, GrillIsLive
<1>3. Stays(forge.s, t)
  BY <1>2, OmissionStays
<1> HIDE DEF t
<1>4. Fields(g) /\ g.s = t /\ g.workflow = forge.workflow
  BY <1>2 DEF t, Sound, Fields, NewForge, Slots
<1> HIDE DEF g
<1>5. Fields(c) /\ c.s = t /\ c.workflow = forge.workflow /\ c.grillRun = FALSE
  BY <1>4, ClearPendingKin
<1> HIDE DEF c
<1>6. Sound(c)
  BY <1>2, <1>3, <1>5 DEF Sound, Stays, OfItsSnapshot
<1> QED
  BY <1>1, <1>5, <1>6, SameFollows, RestoreFollows, DoesOutcome

\* The gate of the Deep tools is open.
LEMMA DeepIsLive ==
  ASSUME IInv, DeepGate(forge)
  PROVE  /\ Sound(forge) /\ Healthy(forge.s) /\ forge.s.deep # {}
         /\ forge.s.stage \in DeepPhases
BY DEF IInv, Sound, DeepGate, DeepLive

\* The last search of a batch tells the agent to go on.
LEMMA SearchBatchOutcome ==
  ASSUME IInv, SearchBatch
  PROVE  Outcome
<1>1. Follows(forge) /\ Healthy(forge.s)
  BY DEF IInv, Follows, Sound
<1>2. PICK a \in forge.s.deep :
        SendFollowUp(forge, <<"batch", a.id>>) /\ UNCHANGED <<panels, intents>>
  BY DEF SearchBatch
<1>3. <<"batch", a.id>> \in Invocations /\ NamesTheCurrent(forge.s, <<"batch", a.id>>)
  BY <1>1, Names
<1> QED
  BY <1>1, <1>2, <1>3, SendOutcome

\* A question of Deep Knowledge gives the tools back,
LEMMA DeepQuestionFollows ==
  ASSUME IInv, DeepGate(forge), NEW a \in forge.s.deep, NEW d \in AllDecisionIds,
         CanNeedDecision(forge.s, a)
  PROVE  Follows(Restore([forge EXCEPT !.s = NeedDecision(@, a, d)]))
<1> DEFINE t == NeedDecision(forge.s, a, d)
<1>1. Stays(forge.s, t) /\ t.repair = forge.s.repair
  BY DeepIsLive, DeepResultStays
<1> HIDE DEF t
<1>2. Follows([forge EXCEPT !.s = t])
  BY <1>1, Session, SameFollows
<1>3. [forge EXCEPT !.s = NeedDecision(@, a, d)] = [forge EXCEPT !.s = t]
  BY DEF t
<1> QED
  BY <1>2, <1>3, RestoreFollows

\* with a panel or without.
LEMMA DeepQuestionOutcome ==
  ASSUME IInv, TargetUnclear \/ \E d \in DecisionIds : DeepAsks(d)
  PROVE  Outcome
<1>1. CASE TargetUnclear
  <2>1. PICK a \in forge.s.deep :
          /\ CanNeedDecision(forge.s, a) /\ DeepGate(forge)
          /\ Does(Restore([forge EXCEPT !.s = NeedDecision(@, a, <<"target", a.id>>)]))
    BY <1>1 DEF TargetUnclear
  <2>2. <<"target", a.id>> \in AllDecisionIds
    BY DEF IInv, Sound, Healthy, Good, WellFormed, IsSession, DeepAttempts, AllDecisionIds,
           RuntimeIds
  <2> QED
    BY <2>1, <2>2, DeepQuestionFollows, DoesOutcome
<1>2. CASE \E d \in DecisionIds : DeepAsks(d)
  <2>1. PICK d \in DecisionIds, a \in forge.s.deep :
          /\ CanNeedDecision(forge.s, a) /\ DeepGate(forge)
          /\ Asks(Restore([forge EXCEPT !.s = NeedDecision(@, a, d)]), TRUE)
    BY <1>2 DEF DeepAsks
  <2> QED
    BY <2>1, DeepQuestionFollows, AsksOutcome DEF AllDecisionIds
<1> QED
  BY <1>1, <1>2

\* forge_deep_retrieval_complete.
LEMMA RetrievalCompleteOutcome ==
  ASSUME IInv, RetrievalComplete
  PROVE  Outcome
<1>1. PICK a \in forge.s.deep :
        LET f == ActivateUnderstanding([forge EXCEPT !.s = CompleteDeepRetrieval(@, a, {})])
        IN  DeepGate(forge) /\ Does([f EXCEPT !.dueDeep = Due(f, DeepInvocation(f.s))])
  BY DEF RetrievalComplete
<1> DEFINE t == CompleteDeepRetrieval(forge.s, a, {})
           g == [forge EXCEPT !.s = t]
           f == ActivateUnderstanding(g)
           due == [f EXCEPT !.dueDeep = Due(f, DeepInvocation(f.s))]
<1>2. Does(due) /\ DeepGate(forge)
  BY <1>1
<1>3. Stays(forge.s, t) /\ t.repair = forge.s.repair
  BY <1>2, DeepIsLive, DeepResultStays
<1> HIDE DEF t
<1>4. Follows(g)
  BY <1>3, Session, SameFollows
<1> HIDE DEF g
<1>5. Follows(f)
  BY <1>4, UnderstandingKin, KinFollows DEF Follows, Sound
<1> HIDE DEF f
<1>6. Follows(due)
  BY <1>5, DueKin, KinFollows DEF Follows
<1> HIDE DEF due
<1> QED
  BY <1>2, <1>6, DoesOutcome

\* A lack of sources: the one step of the agent that may bring another workflow.
LEMMA DeepNeedsDiscoveryOutcome ==
  ASSUME IInv, NEW relevant \in BOOLEAN, DeepNeedsDiscovery(relevant)
  PROVE  Outcome
<1>1. PICK a \in forge.s.deep :
        LET f == Restore([forge EXCEPT !.s = NeedDiscovery(@, a)])
            g == OpenGrill(f, relevant)
        IN  /\ DeepGate(forge)
            /\ IF f.s.stage = "WAIT_USER" THEN Asks(f, TRUE)
               ELSE Does([g EXCEPT !.dueDiscovery = Due(g, RoundInvocation(g.s))])
  BY DEF DeepNeedsDiscovery
<1> DEFINE t == NeedDiscovery(forge.s, a)
           e == [forge EXCEPT !.s = t]
           f == Restore(e)
           g == OpenGrill(f, relevant)
           due == [g EXCEPT !.dueDiscovery = Due(g, RoundInvocation(g.s))]
<1>2. /\ DeepGate(forge)
      /\ IF f.s.stage = "WAIT_USER" THEN Asks(f, TRUE) ELSE Does(due)
  BY <1>1
<1>3. /\ Stays(forge.s, t) /\ t.repair = forge.s.repair
      /\ t.stage # "WAIT_USER" => t.orch = "LIGHT_DISCOVERY"
  BY <1>2, DeepIsLive, NeedDiscoveryStays
<1>4. forge.s.repair # "RECOVERY_REQUIRED"
  BY <1>2, DeepIsLive, StageShown
<1> HIDE DEF t
<1>5. Sound(e) /\ e.s = t /\ e.workflow = forge.workflow /\ e.request = forge.request
  BY <1>3, Session
<1> HIDE DEF e
<1>6. Kin(e, f)
  BY <1>5, RestoreKin DEF Sound
<1>7. Sound(f) /\ f.s = t /\ f.workflow = forge.workflow /\ f.request = forge.request
  BY <1>5, <1>6, KinSound DEF Kin
<1> HIDE DEF f
<1>8. CASE f.s.stage = "WAIT_USER"
  BY <1>2, <1>7, <1>8, SameFollows, AsksOutcome
<1>9. CASE f.s.stage # "WAIT_USER"
  <2>1. CanBeginLightDiscovery(f.s) /\ f.s.repair # "RECOVERY_REQUIRED"
    BY <1>3, <1>4, <1>7, <1>9 DEF CanBeginLightDiscovery
  <2>2. Sound(g) /\ g.request = forge.request
    BY <1>7, <2>1, OpenGrillSound DEF Sound
  <2>3. Follows(g)
    BY <2>2 DEF Follows
  <2> HIDE DEF g
  <2>4. Kin(g, due)
    BY <2>2, DueKin
  <2> HIDE DEF due
  <2> QED
    BY <1>2, <1>9, <2>3, <2>4, KinFollows, DoesOutcome
<1> QED
  BY <1>8, <1>9

\* forge_deep_complete.
LEMMA UnderstandingCompleteOutcome ==
  ASSUME IInv, NEW captured \in BOOLEAN, UnderstandingComplete(captured)
  PROVE  Outcome
<1>1. PICK a \in forge.s.deep :
        LET f == Restore([forge EXCEPT !.s = CompleteUnderstanding(@, a)])
            g == Activate(f, "context")
        IN  /\ CanCompleteUnderstanding(forge.s, a) /\ DeepGate(forge)
            /\ IF captured
                 THEN Does([g EXCEPT !.base = TRUE, !.dueBuild = Due(g, ContextInvocation(g.s))])
                 ELSE Does(f)
  BY DEF UnderstandingComplete
<1> DEFINE t == CompleteUnderstanding(forge.s, a)
           e == [forge EXCEPT !.s = t]
           f == Restore(e)
           g == Activate(f, "context")
           due == [g EXCEPT !.base = TRUE, !.dueBuild = Due(g, ContextInvocation(g.s))]
<1>2. /\ CanCompleteUnderstanding(forge.s, a) /\ DeepGate(forge)
      /\ Does(due) \/ Does(f)
  BY <1>1
<1>3. Stays(forge.s, t) /\ t.repair = forge.s.repair
  BY <1>2, DeepIsLive, DeepResultStays
<1> HIDE DEF t
<1>4. Follows(e)
  BY <1>3, Session, SameFollows
<1> HIDE DEF e
<1>5. Follows(f)
  BY <1>4, RestoreFollows
<1> HIDE DEF f
<1>6. Follows(g)
  BY <1>5, ActivateFollows DEF Tools
<1> HIDE DEF g
<1>7. Follows(due)
  BY <1>6, DueKin, KinFollows DEF Follows
<1> HIDE DEF due
<1> QED
  BY <1>2, <1>5, <1>7, DoesOutcome

\* The gate of the build tools is open: the panel shows the stage of the build.
LEMMA BuildIsLive ==
  ASSUME IInv, BuildGate(forge)
  PROVE  /\ Sound(forge) /\ Healthy(forge.s)
         /\ \A b : CanBuildContext(forge.s, b) => forge.s.stage = "CONTEXT_BUILD"
         /\ \A b : CanBuildAdr(forge.s, b) => forge.s.stage = "ADR_BUILD"
BY DEF IInv, Sound, Healthy, Steady, BuildGate, BuildLive, CanBuildContext, CanBuildAdr

\* forge_context_complete under a stale identity.
LEMMA ContextStaleOutcome ==
  ASSUME IInv, ContextStale
  PROVE  Outcome
<1>1. PICK l \in forge.lastSent : Does([forge EXCEPT !.dueBuild = {l}, !.replayed = {l.inv[2]}])
  BY DEF ContextStale
<1> DEFINE g == [forge EXCEPT !.dueBuild = {l}, !.replayed = {l.inv[2]}]
<1>2. Sound(forge) /\ Fields(forge)
  BY DEF IInv, Sound
<1>3. l \in Deliveries /\ l.inv[2] \in Nat
  <2>1. l \in Deliveries
    BY <1>2 DEF Fields, Slots
  <2> QED
    BY <2>1 DEF Deliveries, Invocations
<1>4. Kin(forge, g)
  BY <1>2, <1>3 DEF Kin, Fields, NewForge, Slots, AtMostOne
<1> HIDE DEF g
<1> QED
  BY <1>1, <1>2, <1>4, SameFollows, KinFollows, DoesOutcome DEF g

\* The forgetting of what was sent.
LEMMA ForgetSentFollows ==
  ASSUME NEW f, Follows(f)
  PROVE  Follows(ForgetSent(f))
BY ForgetSentKin, KinFollows DEF Follows, Sound

\* forge_context_complete with a question,
LEMMA ContextAsksOutcome ==
  ASSUME IInv, NEW d \in DecisionIds, ContextAsks(d)
  PROVE  Outcome
<1>1. PICK b \in forge.s.context :
        /\ CanBuildContext(forge.s, b) /\ BuildGate(forge)
        /\ Asks(Restore(ForgetSent([forge EXCEPT !.s = ContextAmbiguous(@, b, d)])), TRUE)
  BY DEF ContextAsks
<1> DEFINE t == ContextAmbiguous(forge.s, b, d)
           e == [forge EXCEPT !.s = t]
<1>2. Asks(Restore(ForgetSent(e)), TRUE)
  BY <1>1
<1>3. Stays(forge.s, t) /\ t.repair = forge.s.repair
  BY <1>1, BuildIsLive, BuildStays
<1> HIDE DEF t
<1>4. Follows(e)
  BY <1>3, Session, SameFollows
<1> HIDE DEF e
<1> QED
  BY <1>2, <1>4, ForgetSentFollows, RestoreFollows, AsksOutcome

\* and with a candidate.
LEMMA ContextCompleteOutcome ==
  ASSUME IInv, ContextComplete
  PROVE  Outcome
<1>1. PICK b \in forge.s.context :
        LET f == ForgetSent([forge EXCEPT !.s = CompleteContextBuild(@, b)])
            g == Activate(f, "adr")
        IN  /\ CanBuildContext(forge.s, b) /\ BuildGate(forge)
            /\ Does(IF forge.base THEN [g EXCEPT !.dueBuild = Due(g, AdrInvocation(g.s))]
                                  ELSE Restore(f))
  BY DEF ContextComplete
<1> DEFINE t == CompleteContextBuild(forge.s, b)
           e == [forge EXCEPT !.s = t]
           f == ForgetSent(e)
           g == Activate(f, "adr")
           due == [g EXCEPT !.dueBuild = Due(g, AdrInvocation(g.s))]
<1>2. /\ CanBuildContext(forge.s, b) /\ BuildGate(forge)
      /\ Does(due) \/ Does(Restore(f))
  BY <1>1
<1>3. Stays(forge.s, t) /\ t.repair = forge.s.repair
  BY <1>2, BuildIsLive, BuildStays
<1> HIDE DEF t
<1>4. Follows(e)
  BY <1>3, Session, SameFollows
<1> HIDE DEF e
<1>5. Follows(f)
  BY <1>4, ForgetSentFollows
<1> HIDE DEF f
<1>6. Follows(g)
  BY <1>5, ActivateFollows DEF Tools
<1> HIDE DEF g
<1>7. Follows(due)
  BY <1>6, DueKin, KinFollows DEF Follows
<1> HIDE DEF due
<1> QED
  BY <1>2, <1>5, <1>7, RestoreFollows, DoesOutcome

\* forge_adr_complete with a question,
LEMMA AdrAsksOutcome ==
  ASSUME IInv, NEW d \in DecisionIds, AdrAsks(d)
  PROVE  Outcome
<1>1. PICK b \in forge.s.adr :
        /\ CanBuildAdr(forge.s, b) /\ BuildGate(forge)
        /\ Asks(Restore([forge EXCEPT !.s = RequireAdrDecision(@, b, d)]), TRUE)
  BY DEF AdrAsks
<1> DEFINE t == RequireAdrDecision(forge.s, b, d)
           e == [forge EXCEPT !.s = t]
<1>2. Asks(Restore(e), TRUE)
  BY <1>1
<1>3. Stays(forge.s, t) /\ t.repair = forge.s.repair
  BY <1>1, BuildIsLive, AdrStays
<1> HIDE DEF t
<1>4. Follows(e)
  BY <1>3, Session, SameFollows
<1> HIDE DEF e
<1> QED
  BY <1>2, <1>4, RestoreFollows, AsksOutcome

\* and with a candidate, committed or not.
LEMMA AdrCompleteOutcome ==
  ASSUME IInv, NEW committed \in BOOLEAN, AdrComplete(committed)
  PROVE  Outcome
<1>1. PICK b \in forge.s.adr :
        LET f == [forge EXCEPT !.s = PrepareAdrBuild(@)]
        IN  /\ CanBuildAdr(forge.s, b) /\ BuildGate(forge)
            /\ IF committed THEN Does(Restore([f EXCEPT !.s = FinalizeAdrBuild(@), !.base = FALSE]))
                            ELSE Does(f)
  BY DEF AdrComplete
<1> DEFINE t == PrepareAdrBuild(forge.s)
           u == FinalizeAdrBuild(t)
           f == [forge EXCEPT !.s = t]
           e == [forge EXCEPT !.s = u]
           g == [e EXCEPT !.base = FALSE]
<1>2. Sound(forge) /\ Fields(forge)
  BY DEF IInv, Sound
<1>3. [[forge EXCEPT !.s = PrepareAdrBuild(@)] EXCEPT !.s = FinalizeAdrBuild(@), !.base = FALSE] = g
  BY <1>2 DEF Fields, NewForge
<1>4. /\ CanBuildAdr(forge.s, b) /\ BuildGate(forge)
      /\ Does(Restore(g)) \/ Does(f)
  BY <1>1, <1>3
<1>5. /\ Stays(forge.s, t) /\ t.repair = forge.s.repair
      /\ Stays(forge.s, u) /\ u.repair = forge.s.repair
  BY <1>4, BuildIsLive, AdrStays
<1> HIDE DEF t, u
<1>6. Follows(f) /\ Follows(e)
  BY <1>5, Session, SameFollows
<1> HIDE DEF f, e
<1>7. Follows(g)
  <2>1. Kin(e, g)
    BY <1>6 DEF Follows, Sound, Kin, Fields, NewForge, Slots
  <2> QED
    BY <1>6, <2>1, KinFollows
<1> HIDE DEF g
<1> QED
  BY <1>4, <1>6, <1>7, RestoreFollows, DoesOutcome

\* What the agent's tools do.
LEMMA AgentOutcome ==
  ASSUME IInv, Agent
  PROVE  Outcome
<1>1. Relevances \subseteq BOOLEAN
  BY InterfaceAssumption
<1> QED
  BY <1>1, GrillAsksOutcome, GrillReadyOutcome, GrillOmittedOutcome, SearchBatchOutcome,
     DeepQuestionOutcome, RetrievalCompleteOutcome, DeepNeedsDiscoveryOutcome,
     UnderstandingCompleteOutcome, ContextStaleOutcome, ContextAsksOutcome,
     ContextCompleteOutcome, AdrAsksOutcome, AdrCompleteOutcome
  DEF Agent


-----------------------------------------------------------------------------
(* The user.                                                               *)

\* The answer to a question, given on a panel or by a command.
LEMMA ResumeAnswerResult ==
  ASSUME IInv, NEW answer \in Answers, NEW relevant \in BOOLEAN, ResumeAnswer(answer, relevant)
  PROVE  Sound(forge') /\ Passes /\ Clarifies(forge, forge')
<1> DEFINE kinds == PendingKinds(forge)
           deep  == PrepareDeep(forge, answer)
           grill == ResumeGrill(forge, answer, relevant)
<1>1. Sound(forge) /\ Healthy(forge.s)
  BY DEF IInv, Sound
<1>2. \E k : kinds \subseteq {k}
  <2>1. CASE forge.s.waitUser = {}
    <3>1. PendingKinds(forge) \subseteq {"none"}
      BY <2>1 DEF PendingKinds
    <3> HIDE DEF kinds
    <3> QED
      BY <3>1, Zenon DEF kinds
  <2>2. CASE forge.s.waitUser # {}
    BY <1>1, <2>2, OneKind
  <2> QED
    BY <2>1, <2>2
<1>3. CASE kinds \cap BuildKinds # {}
  <2>1. Becomes(ResumeBuild(forge, answer)) /\ Quiet
    <3>1. kinds # {"deep_discovery_fallback"} /\ kinds \cap DeepKinds = {}
      BY <1>2, <1>3 DEF BuildKinds, DeepKinds
    <3> QED
      BY <1>3, <3>1 DEF ResumeAnswer
  <2> DEFINE built == ResumeBuild(forge, answer)
  <2>2. Sound(built) /\ built.workflow = forge.workflow
    BY <1>1, ResumeBuildSound
  <2>3. forge' = built
    BY <2>1 DEF Becomes
  <2> HIDE DEF built
  <2> QED
    BY <2>1, <2>2, <2>3, QuietPasses DEF Clarifies
<1>4. CASE kinds = {"deep_discovery_fallback"} /\ answer = "cancel"
  <2>1. kinds \cap BuildKinds = {}
    BY <1>4 DEF BuildKinds
  <2>2. Becomes(Cancel(forge)) /\ Quiet
    BY <1>4, <2>1 DEF ResumeAnswer
  <2> QED
    BY <1>1, <2>2, CancelSound, QuietPasses DEF Becomes, Clarifies
<1>5. CASE kinds \cap DeepKinds # {} /\ ~(kinds = {"deep_discovery_fallback"} /\ answer = "cancel")
  <2> DEFINE new == Resumed(forge, deep)
             due == [deep EXCEPT !.dueDeep = Due(deep, new)]
  <2>1. kinds \cap BuildKinds = {}
    BY <1>2, <1>5 DEF BuildKinds, DeepKinds
  <2>2. Becomes(IF new = {} THEN deep ELSE due) /\ Quiet
    BY <1>5, <2>1 DEF ResumeAnswer
  <2>3. Sound(deep) /\ deep.workflow = forge.workflow
    BY <1>1, <1>5, PrepareDeepSound
  <2>4. new \subseteq Invocations /\ AtMostOne(new)
    <3>1. new \subseteq DeepInvocation(deep.s) \cup RoundInvocation(deep.s)
      BY DEF Resumed
    <3>2. RoundInvocation(deep.s) = RoundInvocation(forge.s)
      BY <1>1, <1>5, PrepareDeepSound DEF RoundInvocation
    <3>3. new \subseteq DeepInvocation(deep.s)
      BY <3>1, <3>2 DEF Resumed
    <3> QED
      BY <2>3, <3>3, InvocationsOf DEF Sound, AtMostOne
  <2> HIDE DEF new, deep
  <2>5. Kin(deep, due)
    BY <2>3, <2>4, DueIsOne, SetFields DEF Sound
  <2> HIDE DEF due
  <2>6. Sound(forge') /\ forge'.workflow = forge.workflow
    BY <2>2, <2>3, <2>5, KinSound DEF Becomes, Kin
  <2> QED
    BY <2>2, <2>6, QuietPasses DEF Clarifies
<1>6. CASE kinds \cap (BuildKinds \cup DeepKinds) = {}
  <2>1. kinds # {"deep_discovery_fallback"}
    BY <1>6 DEF DeepKinds
  <2>2. \/ Becomes(grill) /\ Quiet
        \/ \E inv \in Resumed(forge, grill) : SendFollowUp(grill, inv)
    <3>1. CASE Resumed(forge, grill) = {}
      BY <1>6, <2>1, <3>1 DEF ResumeAnswer
    <3>2. CASE Resumed(forge, grill) # {}
      BY <1>6, <2>1, <3>2 DEF ResumeAnswer
    <3> QED
      BY <3>1, <3>2
  <2>3. Sound(grill) /\ Clarifies(forge, grill)
    BY <1>1, <1>6, ResumeGrillSound
  <2>4. \A inv \in Resumed(forge, grill) : inv \in Invocations /\ NamesTheCurrent(grill.s, inv)
    BY <2>3, Names DEF Resumed, Sound
  <2> HIDE DEF grill
  <2>5. CASE Becomes(grill) /\ Quiet
    BY <2>3, <2>5, QuietPasses DEF Becomes
  <2>6. ASSUME NEW inv \in Resumed(forge, grill), SendFollowUp(grill, inv)
        PROVE  Sound(forge') /\ Passes /\ Clarifies(forge, forge')
    <3>1. /\ Sound(forge') /\ Passes
          /\ forge'.workflow = grill.workflow /\ forge'.request = grill.request
      BY <2>3, <2>4, <2>6, SendPasses
    <3> QED
      BY <2>3, <3>1 DEF Clarifies
  <2> QED
    BY <2>2, <2>5, <2>6
<1> QED
  BY <1>3, <1>4, <1>5, <1>6

\* From the answer to the outcome.
LEMMA ClarifiesOutcome ==
  ASSUME IInv, Sound(forge'), Passes, Clarifies(forge, forge'), intents' = intents,
         panels' \subseteq panels
  PROVE  Outcome
<1>1. panels' \subseteq [q: Questions, tool: BOOLEAN]
  BY DEF IInv
<1>2. Follows(forge')
  BY DEF Follows, Clarifies
<1> QED
  BY <1>1, <1>2, FollowsOutcome

\* The answers that are passed on are the session's.
LEMMA AnswersKnown ==
  /\ {"agree", "continue_one", "converge", "cancel", "other"} \subseteq Answers
  /\ \A kind : AnswersTo(kind) \subseteq Answers
<1>1. {"agree", "continue_one", "converge", "cancel", "other"} \subseteq Answers
  BY AnswersAssumption, InterfaceAssumption
<1>2. ASSUME NEW kind PROVE AnswersTo(kind) \subseteq Answers
  <2>1. CASE kind = "grill_checkpoint"
    BY <1>1, <2>1 DEF AnswersTo
  <2>2. CASE kind = "deep_discovery_fallback"
    BY <1>1, <2>2 DEF AnswersTo
  <2>3. CASE kind # "grill_checkpoint" /\ kind # "deep_discovery_fallback"
    BY <1>1, <2>3 DEF AnswersTo
  <2> QED
    BY <2>1, <2>2, <2>3
<1> QED
  BY <1>1, <1>2

\* An answer on a panel,
LEMMA AnswerPanelOutcome ==
  ASSUME IInv, NEW p \in panels, NEW answer \in AnswersTo(p.q.kind), NEW relevant \in BOOLEAN,
         AnswerPanel(p, answer, relevant)
  PROVE  Outcome
<1>1. answer \in Answers
  BY AnswersKnown
<1>2. ResumeAnswer(answer, relevant) /\ intents' = intents /\ panels' \subseteq panels
  BY DEF AnswerPanel, PanelsAfter
<1> QED
  BY <1>1, <1>2, ResumeAnswerResult, ClarifiesOutcome

\* by confirm or reject,
LEMMA CommandAnswerOutcome ==
  ASSUME IInv, NEW relevant \in BOOLEAN, ConfirmQuestion(relevant) \/ RejectQuestion(relevant)
  PROVE  Outcome
<1>1. PICK answer \in {"continue_one", "agree", "other"} :
        ResumeAnswer(answer, relevant) /\ UNCHANGED <<panels, intents>>
  BY DEF ConfirmQuestion, RejectQuestion
<1>2. answer \in Answers
  BY AnswersKnown
<1> QED
  BY <1>1, <1>2, ResumeAnswerResult, ClarifiesOutcome

\* or typed: the text becomes the invocation.
LEMMA TypeAnswerOutcome ==
  ASSUME IInv, NEW answer \in Answers, NEW relevant \in BOOLEAN, TypeAnswer(answer, relevant)
  PROVE  Outcome
<1> DEFINE kinds == PendingKinds(forge)
           built == ResumeBuild(forge, answer)
           f == CASE kinds \cap BuildKinds # {} -> [built EXCEPT !.dueBuild = {}]
                  [] kinds \cap DeepKinds # {}  -> PrepareDeep(forge, answer)
                  [] OTHER                      -> ResumeGrill(forge, answer, relevant)
           invs == IF kinds \cap BuildKinds # {} THEN {d.inv : d \in built.dueBuild}
                                                 ELSE Resumed(forge, f)
           g == IF built.dueBuild # {} /\ kinds \cap BuildKinds # {}
                  THEN Remembered(f, The(built.dueBuild)) ELSE f
<1>1. /\ UNCHANGED <<panels, intents>>
      /\ \/ Becomes(f) /\ Quiet
         \/ \E inv \in invs : Post(inv) /\ Becomes(g)
  BY DEF TypeAnswer
<1>2. Sound(forge) /\ Healthy(forge.s)
  BY DEF IInv, Sound
<1>3. /\ Sound(built) /\ built.workflow = forge.workflow
      /\ \A d \in built.dueBuild :
           d \in Deliveries /\ d.inv \in ContextInvocation(built.s) \cup AdrInvocation(built.s)
  BY <1>2, ResumeBuildSound
<1>4. kinds \cap BuildKinds # {} => kinds \cap DeepKinds = {}
  <2> SUFFICES ASSUME kinds \cap BuildKinds # {} PROVE kinds \cap DeepKinds = {}
    OBVIOUS
  <2>1. PICK q \in forge.s.waitUser : q.kind \in BuildKinds
    BY DEF PendingKinds
  <2> QED
    BY <1>2, <2>1, OneKind DEF BuildKinds, DeepKinds
<1>5. /\ Sound(f) /\ Clarifies(forge, f)
      /\ kinds \cap BuildKinds # {} => f.s = built.s
  <2>1. CASE kinds \cap BuildKinds # {}
    <3>1. f = [built EXCEPT !.dueBuild = {}]
      BY <1>4, <2>1
    <3> HIDE DEF built, f
    <3>2. Kin(built, f)
      BY <1>3, <3>1 DEF Sound, Kin, Fields, NewForge, Slots, AtMostOne
    <3> QED
      BY <1>3, <3>2, KinSound DEF Kin, Clarifies
  <2>2. CASE kinds \cap BuildKinds = {} /\ kinds \cap DeepKinds # {}
    <3>1. f = PrepareDeep(forge, answer)
      BY <2>2
    <3> QED
      BY <1>2, <2>2, <3>1, PrepareDeepSound DEF Clarifies
  <2>3. CASE kinds \cap BuildKinds = {} /\ kinds \cap DeepKinds = {}
    <3>1. f = ResumeGrill(forge, answer, relevant)
      BY <2>3
    <3>2. kinds \cap (DeepKinds \cup BuildKinds) = {}
      BY <2>3
    <3> QED
      BY <1>2, <2>3, <3>1, <3>2, ResumeGrillSound
  <2> QED
    BY <2>1, <2>2, <2>3
<1> HIDE DEF f, built
<1>6. Kin(f, g)
  <2>1. built.dueBuild # {} => The(built.dueBuild) \in Deliveries
    BY <1>3, TheMember
  <2>2. Fields(f) /\ Kin(f, f)
    BY <1>5 DEF Sound, Kin
  <2> QED
    BY <2>1, <2>2, RememberedKin
<1>7. \A inv \in invs : inv \in Invocations /\ NamesTheCurrent(f.s, inv)
  BY <1>3, <1>5, Names DEF Resumed, Sound
<1> HIDE DEF g, invs
<1>8. Sound(g) /\ Clarifies(forge, g) /\ g.s = f.s
  BY <1>5, <1>6, KinSound DEF Kin, Clarifies
<1>9. Sound(forge') /\ Passes /\ Clarifies(forge, forge')
  <2>1. CASE Becomes(f) /\ Quiet
    BY <1>5, <2>1, QuietPasses DEF Becomes
  <2>2. ASSUME NEW inv \in invs, Post(inv), Becomes(g)
        PROVE  Sound(forge') /\ Passes /\ Clarifies(forge, forge')
    BY <1>7, <1>8, <2>2, TypedPasses DEF Becomes
  <2> QED
    BY <1>1, <2>1, <2>2
<1> QED
  BY <1>1, <1>9, ClarifiesOutcome

\* A workflow begins, or the text is passed on.
LEMMA BeginResult ==
  ASSUME IInv, NEW relevant \in BOOLEAN, Begin(relevant)
  PROVE  /\ Sound(forge') /\ Passes
         /\ forge.workflow = {} \/ forge'.workflow = forge.workflow
         /\ forge.s.waitUser = {} \/ forge'.s = forge.s
<1> DEFINE t == BeginIntent(forge.s)
           e == [forge EXCEPT !.s = t]
           v == [e EXCEPT !.request = FALSE]
           f == OpenGrill(v, relevant)
           g == [forge EXCEPT !.request = FALSE]
<1>1. Sound(forge) /\ Healthy(forge.s) /\ Fields(forge)
  BY DEF IInv, Sound
<1>2. [forge EXCEPT !.s = BeginIntent(@), !.request = FALSE] = v
  BY <1>1 DEF Fields, NewForge
<1>3. \/ CanBeginIntent(forge.s) /\ forge' = f /\ Post(<<"round", The(f.s.round).id>>)
      \/ forge' = g /\ Post(<<"prompt", 0>>)
  BY <1>2 DEF Begin, Becomes
<1>4. CASE CanBeginIntent(forge.s) /\ forge' = f /\ Post(<<"round", The(f.s.round).id>>)
  <2>1. /\ Stays(forge.s, t) /\ t.orch = "INTENT_UNDERSTANDING" /\ t.repair = "none"
        /\ t.round = {}
    BY <1>1, <1>4, BeginIntentStays
  <2> HIDE DEF t
  <2>2. Sound(e) /\ e.s = t /\ e.workflow = forge.workflow
    BY <2>1, Session
  <2> HIDE DEF e
  <2>3. Fields(v) /\ v.s = t
    BY <2>2 DEF Sound, Fields, NewForge, Slots
  <2> HIDE DEF v
  <2>4. CanBeginLightDiscovery(v.s) /\ Healthy(v.s)
    BY <2>1, <2>3 DEF CanBeginLightDiscovery, CanMove, LegalTransitions, Stays
  <2>5. Sound(f) /\ f.s.round # {}
    BY <2>1, <2>3, <2>4, OpenGrillSound
  <2> HIDE DEF f
  <2>6. <<"round", The(f.s.round).id>> \in RoundInvocation(f.s)
    BY <2>5, TheMember DEF RoundInvocation
  <2>7. Passes
    BY <1>4, <2>5, <2>6, Names, TypedPasses DEF Sound
  <2>8. forge.s.round = {} /\ forge.s.waitUser = {}
    BY <1>1, <2>1 DEF Stays, Healthy, Grounded, NothingWithoutRound
  <2>9. forge.workflow = {}
    BY <1>1, <2>8 DEF Sound, OfItsSnapshot
  <2> QED
    BY <1>4, <2>5, <2>7, <2>8, <2>9
<1>5. CASE forge' = g /\ Post(<<"prompt", 0>>)
  <2>1. /\ Fields(g) /\ g.s = forge.s /\ g.workflow = forge.workflow
        /\ g.grillRun = forge.grillRun
    BY <1>1 DEF Fields, NewForge, Slots
  <2> HIDE DEF g
  <2>2. Sound(g)
    BY <1>1, <2>1 DEF Sound, OfItsSnapshot
  <2>3. Passes
    BY <1>1, <1>5, <2>1, Names, TypedPasses
  <2> QED
    BY <1>5, <2>1, <2>2, <2>3
<1> QED
  BY <1>3, <1>4, <1>5

\* A workflow that did not give way to another one.
LEMMA KeptOutcome ==
  ASSUME IInv, Sound(forge'), Passes, forge.workflow = {} \/ forge'.workflow = forge.workflow,
         intents' \in 0 .. MaxIntents, UNCHANGED panels
  PROVE  Outcome
BY PanelsUnchanged DEF IInv, Passes, Outcome, Replaces

\* A request, from the text to the round, and texts that are none.
LEMMA RequestOutcome ==
  ASSUME IInv, \/ TypeRequest \/ ReadOtherIntent \/ Prompt
               \/ \E relevant \in BOOLEAN :
                    \/ \E missing \in BOOLEAN : ReadIntent(missing, relevant)
                    \/ ApproveRequest(relevant)
  PROVE  Outcome
<1>1. /\ Sound(forge) /\ Healthy(forge.s) /\ Fields(forge)
      /\ intents \in 0 .. MaxIntents /\ MaxIntents \in Nat
  BY InterfaceAssumption DEF IInv, Sound
<1>2. CASE TypeRequest
  <2>1. Quiet /\ forge' = forge /\ panels' = panels /\ intents' \in 0 .. MaxIntents
    BY <1>1, <1>2 DEF TypeRequest, Quiet
  <2> QED
    BY <1>1, <2>1, QuietPasses, KeptOutcome
<1>3. CASE ReadOtherIntent \/ Prompt
  <2>1. /\ Post(<<"prompt", 0>>) /\ forge' = forge /\ panels' = panels
        /\ intents' \in 0 .. MaxIntents
    BY <1>1, <1>3 DEF ReadOtherIntent, Prompt
  <2> QED
    BY <1>1, <2>1, Names, TypedPasses, KeptOutcome
<1>4. ASSUME NEW relevant \in BOOLEAN, NEW missing \in BOOLEAN, ReadIntent(missing, relevant)
      PROVE  Outcome
  <2>1. /\ intents' \in 0 .. MaxIntents /\ panels' = panels
        /\ \/ Begin(relevant)
           \/ forge' = [forge EXCEPT !.request = TRUE] /\ Quiet
    BY <1>1, <1>4 DEF ReadIntent, Becomes
  <2>2. CASE Begin(relevant)
    BY <2>1, <2>2, BeginResult, KeptOutcome
  <2>3. CASE forge' = [forge EXCEPT !.request = TRUE] /\ Quiet
    <3>1. /\ Fields(forge') /\ forge'.s = forge.s /\ forge'.workflow = forge.workflow
          /\ forge'.grillRun = forge.grillRun
      BY <1>1, <2>3 DEF Fields, NewForge, Slots
    <3>2. Sound(forge')
      BY <1>1, <3>1 DEF Sound, OfItsSnapshot
    <3> QED
      BY <2>1, <2>3, <3>1, <3>2, QuietPasses, KeptOutcome
  <2> QED
    BY <2>1, <2>2, <2>3
<1>5. ASSUME NEW relevant \in BOOLEAN, ApproveRequest(relevant)
      PROVE  Outcome
  BY <1>1, <1>5, BeginResult, KeptOutcome DEF ApproveRequest
<1> QED
  BY <1>2, <1>3, <1>4, <1>5

\* A panel that is closed.
LEMMA DismissOutcome ==
  ASSUME IInv, NEW p \in panels, DismissPanel(p)
  PROVE  Outcome
<1>1. /\ forge' = forge /\ intents' = intents /\ panels' \subseteq panels
      /\ Quiet
  BY DEF DismissPanel, PanelsAfter, Quiet
<1>2. Sound(forge') /\ Clarifies(forge, forge')
  BY <1>1 DEF IInv, Clarifies
<1> QED
  BY <1>1, <1>2, QuietPasses, ClarifiesOutcome

\* /forge-runtime continue in a Context Build.
LEMMA ContinueContextOutcome ==
  ASSUME IInv, ContinueContext
  PROVE  Outcome
<1>1. PICK l \in forge.lastSent :
        /\ l.inv \in ContextInvocation(forge.s)
        /\ SendFollowUp(Activate(forge, "context"), l.inv)
        /\ UNCHANGED <<panels, intents>>
  BY DEF ContinueContext
<1>2. Follows(forge) /\ Healthy(forge.s)
  BY DEF IInv, Follows, Sound
<1> DEFINE f == Activate(forge, "context")
<1>3. Follows(f) /\ f.s = forge.s
  BY <1>2, ActivateFollows DEF Tools
<1> HIDE DEF f
<1>4. l.inv \in Invocations /\ NamesTheCurrent(f.s, l.inv)
  BY <1>1, <1>2, <1>3, Names
<1>5. SendFollowUp(f, l.inv)
  BY <1>1 DEF f
<1> QED
  BY <1>1, <1>3, <1>4, <1>5, SendOutcome

\* ... in Deep Knowledge, whose attempt begins once more.
LEMMA ContinueDeepOutcome ==
  ASSUME IInv, ContinueDeep
  PROVE  Outcome
<1> DEFINE phase == The(forge.s.deep).phase
           s == IF forge.s.deep # {} THEN BeginDeepKnowledge(forge.s, phase)
                                     ELSE RetryDeepKnowledge(forge.s)
           e == [forge EXCEPT !.s = s]
           f == ActivateDeep(e)
<1>1. /\ forge.s.repair # "RECOVERY_REQUIRED" /\ UNCHANGED <<panels, intents>>
      /\ forge.s.stage \in DeepPhases \/ PendingKinds(forge) = {"deep_decision"}
      /\ \E inv \in DeepInvocation(s) : SendFollowUp(f, inv)
  BY DEF ContinueDeep
<1>2. Sound(forge) /\ Healthy(forge.s)
  BY DEF IInv, Sound
<1>3. Stays(forge.s, s) /\ s.repair = forge.s.repair
  <2>1. CASE forge.s.deep = {}
    <3>1. s = RetryDeepKnowledge(forge.s)
      BY <2>1
    <3> QED
      BY <1>1, <1>2, <3>1, RetryDeepStays
  <2>2. CASE forge.s.deep # {}
    <3>1. s = BeginDeepKnowledge(forge.s, phase)
      BY <2>2
    <3>2. The(forge.s.deep) \in forge.s.deep
      BY <2>2, TheMember
    <3>3. phase \in DeepPhases
      BY <1>2, <3>2 DEF Healthy, Good, WellFormed, IsSession, DeepAttempts
    <3>4. forge.s.stage \in DeepPhases
      <4> SUFFICES ASSUME PendingKinds(forge) = {"deep_decision"} PROVE FALSE
        BY <1>1
      <4>1. PICK q \in forge.s.waitUser : q.kind = "deep_decision"
        BY DEF PendingKinds
      <4> QED
        BY <1>2, <2>2, <4>1 DEF Healthy, Good, Asked
    <3>5. forge.s.orch = forge.s.stage /\ forge.s.round # {}
      BY <1>2, <2>2, <3>4, StageShown
    <3>6. phase = forge.s.orch
      BY <1>2, <3>2, <3>4, <3>5 DEF Healthy, Steady
    <3>7. CanBeginDeepKnowledge(forge.s, phase)
      BY <3>5, <3>6 DEF CanBeginDeepKnowledge
    <3> HIDE DEF phase
    <3> QED
      BY <1>1, <1>2, <3>1, <3>3, <3>7, BeginDeepStays
  <2> QED
    BY <2>1, <2>2
<1> HIDE DEF s
<1>4. Sound(e) /\ e.s = s /\ e.workflow = forge.workflow
  BY <1>3, Session
<1> HIDE DEF e
<1>5. Kin(e, f)
  BY <1>4, ActivateDeepKin DEF Sound
<1>6. Follows(f) /\ f.s = s
  BY <1>4, <1>5, SameFollows, KinFollows DEF Kin
<1> HIDE DEF f
<1>7. PICK inv \in DeepInvocation(s) : SendFollowUp(f, inv)
  BY <1>1
<1>8. inv \in Invocations /\ NamesTheCurrent(f.s, inv)
  BY <1>3, <1>6, <1>7, Names DEF Stays
<1> QED
  BY <1>1, <1>6, <1>7, <1>8, SendOutcome

\* The Grill turn is on once more, by continue or by retry.
LEMMA AgainOutcome ==
  ASSUME IInv, NEW t, Stays(forge.s, t), t.repair = "none", NEW r \in forge.s.round,
         SendFollowUp(Activate([forge EXCEPT !.s = t, !.grillRun = TRUE], "grill"),
                      <<"again", r.id>>),
         UNCHANGED <<panels, intents>>
  PROVE  Outcome
<1> DEFINE e == [forge EXCEPT !.s = t, !.grillRun = TRUE]
           f == Activate(e, "grill")
<1>1. Sound(forge) /\ Fields(forge)
  BY DEF IInv, Sound
<1>2. Fields(e) /\ e.s = t /\ e.workflow = forge.workflow
  BY <1>1 DEF Fields, NewForge, Slots
<1> HIDE DEF e
<1>3. Sound(e)
  BY <1>1, <1>2 DEF Sound, Stays, OfItsSnapshot
<1>4. Follows(f) /\ f.s = t
  BY <1>2, <1>3, SameFollows, ActivateFollows DEF Tools
<1>5. SendFollowUp(f, <<"again", r.id>>)
  BY DEF e
<1> HIDE DEF f
<1>6. <<"again", r.id>> \in Invocations /\ NamesTheCurrent(f.s, <<"again", r.id>>)
  BY <1>4, Names DEF Stays
<1> QED
  BY <1>4, <1>5, <1>6, SendOutcome

\* /forge-runtime continue in a Grill, and retry.
LEMMA ContinueGrillOutcome ==
  ASSUME IInv, ContinueGrill \/ Retry
  PROVE  Outcome
<1>1. Sound(forge) /\ Healthy(forge.s) /\ Fields(forge)
  BY DEF IInv, Sound
<1>2. CASE ContinueGrill
  <2>1. PICK r \in forge.s.round :
          /\ SendFollowUp(Activate([forge EXCEPT !.grillRun = TRUE], "grill"), <<"again", r.id>>)
          /\ forge.s.repair # "RECOVERY_REQUIRED" /\ UNCHANGED <<panels, intents>>
    BY <1>2 DEF ContinueGrill
  <2> DEFINE t == forge.s
  <2>2. Stays(forge.s, t) /\ t.repair = "none"
    BY <1>1, <2>1 DEF Stays, Healthy, Good, WellFormed, IsSession, RepairNotes
  <2>3. [forge EXCEPT !.grillRun = TRUE] = [forge EXCEPT !.s = t, !.grillRun = TRUE]
    BY <1>1 DEF Fields, NewForge
  <2> QED
    BY <2>1, <2>2, <2>3, AgainOutcome
<1>3. CASE Retry
  <2>1. PICK r \in forge.s.round :
          /\ SendFollowUp(Activate([forge EXCEPT !.s = RetryGrillRound(@), !.grillRun = TRUE],
                                   "grill"), <<"again", r.id>>)
          /\ CanRetryGrillRound(forge.s) /\ UNCHANGED <<panels, intents>>
    BY <1>3 DEF Retry
  <2> DEFINE t == RetryGrillRound(forge.s)
  <2>2. Stays(forge.s, t) /\ t.repair = "none"
    BY <1>1, <2>1, RetryGrillRoundStays
  <2>3. [forge EXCEPT !.s = RetryGrillRound(@), !.grillRun = TRUE]
          = [forge EXCEPT !.s = t, !.grillRun = TRUE]
    BY DEF t
  <2> HIDE DEF t
  <2> QED
    BY <2>1, <2>2, <2>3, AgainOutcome
<1> QED
  BY <1>2, <1>3

\* /forge-runtime cancel.
LEMMA CancelOutcome ==
  ASSUME IInv, CancelWorkflow
  PROVE  Outcome
<1>1. Does(Cancel(forge))
  BY DEF CancelWorkflow
<1>2. Follows(Cancel(forge))
  BY CancelSound DEF IInv, Follows
<1> QED
  BY <1>1, <1>2, DoesOutcome

\* /forge-runtime confirm and reject when nothing is asked.
LEMMA NothingOutcome ==
  ASSUME IInv, ConfirmNothing \/ RejectNothing
  PROVE  Outcome
<1>1. PICK t \in {Confirm(forge.s), Reject(forge.s)} :
        forge.s.stage # "WAIT_USER" /\ Does([forge EXCEPT !.s = t])
  <2>1. CASE ConfirmNothing
    BY <2>1 DEF ConfirmNothing
  <2>2. CASE RejectNothing
    BY <2>2 DEF RejectNothing
  <2> QED
    BY <2>1, <2>2
<1>2. Stays(forge.s, t) /\ (t.repair = forge.s.repair \/ t.repair = "none")
  BY <1>1, ConfirmNothingStays DEF IInv, Sound
<1> QED
  BY <1>1, <1>2, Session, SameFollows, DoesOutcome

\* What the user does.
LEMMA UserOutcome ==
  ASSUME IInv, User
  PROVE  Outcome
<1>1. Relevances \subseteq BOOLEAN /\ AssetsMissing \subseteq BOOLEAN
  BY InterfaceAssumption
<1>2. ASSUME NEW relevant \in Relevances, NEW q \in forge.s.waitUser,
             NEW answer \in AnswersTo(q.kind), TypeAnswer(answer, relevant)
      PROVE  Outcome
  BY <1>1, <1>2, AnswersKnown, TypeAnswerOutcome
<1>3. ASSUME NEW relevant \in Relevances, NEW p \in panels, NEW answer \in AnswersTo(p.q.kind),
             AnswerPanel(p, answer, relevant)
      PROVE  Outcome
  BY <1>1, <1>3, AnswerPanelOutcome
<1>4. ASSUME NEW relevant \in Relevances,
             \/ \E missing \in AssetsMissing : ReadIntent(missing, relevant)
             \/ ApproveRequest(relevant)
      PROVE  Outcome
  BY <1>1, <1>4, RequestOutcome
<1>5. ASSUME NEW relevant \in Relevances, ConfirmQuestion(relevant) \/ RejectQuestion(relevant)
      PROVE  Outcome
  BY <1>1, <1>5, CommandAnswerOutcome
<1>6. ASSUME NEW p \in panels, DismissPanel(p) PROVE Outcome
  BY <1>6, DismissOutcome
<1>7. CASE TypeRequest \/ ReadOtherIntent \/ Prompt
  BY <1>7, RequestOutcome
<1>8. CASE ContinueContext \/ ContinueDeep \/ ContinueGrill \/ Retry
  BY <1>8, ContinueContextOutcome, ContinueDeepOutcome, ContinueGrillOutcome
<1>9. CASE CancelWorkflow \/ ConfirmNothing \/ RejectNothing
  BY <1>9, CancelOutcome, NothingOutcome
<1> QED
  BY <1>2, <1>3, <1>4, <1>5, <1>6, <1>7, <1>8, <1>9 DEF User

-----------------------------------------------------------------------------
(* The host.                                                               *)

\* The agent gets a message.
LEMMA DeliverOutcome ==
  ASSUME IInv, Deliver
  PROVE  Outcome
<1>1. /\ inbox # <<>> /\ forge' = MessageStart(forge, Head(inbox)) /\ inbox' = Tail(inbox)
      /\ run' = "working" /\ told' = told \cup ({Head(inbox)} \cap Attempts)
      /\ UNCHANGED <<panels, intents, refused>>
  BY DEF Deliver
<1>2. Kin(forge, forge')
  BY <1>1, MessageStartKin DEF IInv, Sound
<1>3. inbox' \in Seq(Invocations) /\ Len(inbox') <= Len(inbox)
  BY <1>1 DEF IInv
<1>4. Passes
  <2>1. Len(inbox) \in Nat /\ Len(inbox') \in Nat
    BY <1>3 DEF IInv
  <2>2. Fresh
    BY <1>3, <2>1 DEF Fresh
  <2> QED
    BY <1>1, <1>3, <2>2 DEF Passes, IInv
<1>5. Follows(forge')
  BY <1>2, KinFollows, SameFollows DEF IInv
<1> QED
  BY <1>1, <1>4, <1>5, PanelsUnchanged, FollowsOutcome

\* The agent settles, and what waited for it goes on a timer.
LEMMA SettleOutcome ==
  ASSUME IInv, Settle
  PROVE  Outcome
<1>1. /\ forge' = AgentSettled(forge) /\ run' = "idle"
      /\ UNCHANGED <<inbox, panels, intents, told, refused>>
  BY DEF Settle
<1>2. Kin(forge, forge')
  BY <1>1, SettledKin DEF IInv, Sound
<1>3. Passes
  BY <1>1 DEF Passes, Fresh, IInv
<1>4. Follows(forge')
  BY <1>2, KinFollows, SameFollows DEF IInv
<1> QED
  BY <1>1, <1>3, <1>4, PanelsUnchanged, FollowsOutcome

\* A timer that fires sends the invocation that is still wanted, or drops it.
LEMMA FireOutcome ==
  ASSUME IInv, NEW f, Follows(f), NEW g, Kin(f, g), NEW inv, UNCHANGED <<panels, intents>>,
         \/ inv \in Invocations /\ NamesTheCurrent(f.s, inv) /\ SendNow(g, inv)
         \/ Becomes(f) /\ Quiet
  PROVE  Outcome
<1>1. CASE inv \in Invocations /\ NamesTheCurrent(f.s, inv) /\ SendNow(g, inv)
  <2>1. Follows(g) /\ g.s = f.s
    BY KinFollows DEF Kin
  <2> QED
    BY <1>1, <2>1, SendOutcome
<1>2. CASE Becomes(f) /\ Quiet
  BY <1>2, DoesOutcome DEF Does
<1> QED
  BY <1>1, <1>2

\* The timers, once their delivery is taken.
LEMMA TimerTaken ==
  ASSUME IInv
  PROVE  \A f \in {[forge EXCEPT !.timerDeep = {}], [forge EXCEPT !.timerBuild = {}],
                   [forge EXCEPT !.timerDiscovery = {}]} :
           Follows(f) /\ Fields(f) /\ Healthy(f.s) /\ Kin(f, f)
<1>1. Fields(forge) /\ Follows(forge)
  BY DEF IInv, Sound, Follows
<1>2. ASSUME NEW f \in {[forge EXCEPT !.timerDeep = {}], [forge EXCEPT !.timerBuild = {}],
                        [forge EXCEPT !.timerDiscovery = {}]}
      PROVE  Kin(forge, f)
  BY <1>1, <1>2 DEF Kin, Fields, NewForge, Slots, AtMostOne
<1> QED
  BY <1>1, <1>2, KinFollows DEF Kin, Follows, Sound

\* The timer of Deep Knowledge,
LEMMA FireDeepOutcome ==
  ASSUME IInv, FireDeepTimer
  PROVE  Outcome
<1> DEFINE f == [forge EXCEPT !.timerDeep = {}]
<1>1. PICK d \in forge.timerDeep :
        IF DeepWanted(f, d) THEN SendNow(f, d.inv) ELSE Becomes(f) /\ Quiet
  BY DEF FireDeepTimer
<1>2. UNCHANGED <<panels, intents>>
  BY DEF FireDeepTimer
<1>3. Follows(f) /\ Healthy(f.s) /\ Kin(f, f)
  BY TimerTaken
<1> HIDE DEF f
<1>4. \/ DeepWanted(f, d) /\ SendNow(f, d.inv)
      \/ Becomes(f) /\ Quiet
  BY <1>1
<1>5. DeepWanted(f, d) => d.inv \in Invocations /\ NamesTheCurrent(f.s, d.inv)
  BY <1>3, Names DEF DeepWanted
<1> QED
  BY <1>2, <1>3, <1>4, <1>5, FireOutcome

\* of the builds,
LEMMA FireBuildOutcome ==
  ASSUME IInv, FireBuildTimer
  PROVE  Outcome
<1> DEFINE f == [forge EXCEPT !.timerBuild = {}]
           g(d) == Remembered(f, d)
<1>1. PICK d \in forge.timerBuild :
        \/ /\ d.inv \in ContextInvocation(f.s) \cup AdrInvocation(f.s)
           /\ SendNow(g(d), d.inv)
        \/ Becomes(f) /\ Quiet
  BY DEF FireBuildTimer
<1>2. UNCHANGED <<panels, intents>>
  BY DEF FireBuildTimer
<1>3. Follows(f) /\ Healthy(f.s) /\ Fields(f)
  BY TimerTaken
<1>4. d \in Deliveries
  BY DEF IInv, Sound, Fields, Slots
<1> HIDE DEF f
<1>5. Kin(f, g(d))
  BY <1>3, <1>4, RememberedKin
<1>6. \A inv \in ContextInvocation(f.s) \cup AdrInvocation(f.s) :
        inv \in Invocations /\ NamesTheCurrent(f.s, inv)
  BY <1>3, Names
<1> HIDE DEF g
<1> QED
  BY <1>1, <1>2, <1>3, <1>5, <1>6, FireOutcome

\* and of Light Discovery.
LEMMA FireDiscoveryOutcome ==
  ASSUME IInv, FireDiscoveryTimer
  PROVE  Outcome
<1> DEFINE f == [forge EXCEPT !.timerDiscovery = {}]
<1>1. PICK d \in forge.timerDiscovery :
        \/ d.inv \in RoundInvocation(f.s) /\ SendNow(f, d.inv)
        \/ Becomes(f) /\ Quiet
  BY DEF FireDiscoveryTimer
<1>2. UNCHANGED <<panels, intents>>
  BY DEF FireDiscoveryTimer
<1>3. Follows(f) /\ Healthy(f.s) /\ Kin(f, f)
  BY TimerTaken
<1> HIDE DEF f
<1>4. d.inv \in RoundInvocation(f.s) => d.inv \in Invocations /\ NamesTheCurrent(f.s, d.inv)
  BY <1>3, Names
<1> QED
  BY <1>1, <1>2, <1>3, <1>4, FireOutcome

\* What the host does.
LEMMA HostOutcome ==
  ASSUME IInv, Host
  PROVE  Outcome
BY DeliverOutcome, SettleOutcome, FireDeepOutcome, FireBuildOutcome, FireDiscoveryOutcome DEF Host

-----------------------------------------------------------------------------
(* The extension.                                                          *)

\* The extension begins sound.
LEMMA InitIInv ==
  ASSUME Init
  PROVE  IInv
<1>1. NewForge.s = NewSession /\ Fields(NewForge)
  BY DEF NewForge, Fields, Slots, AtMostOne, Tools
<1>2. Good(NewSession) /\ Grounded(NewSession) /\ Steady(NewSession)
  BY NewSessionGood, NewSessionGrounded DEF Steady, NewSession
<1>3. OfItsSnapshot(NewForge) /\ NewForge.grillRun = FALSE
  BY DEF OfItsSnapshot, NewForge, NewSession
<1>4. Sound(NewForge)
  BY <1>1, <1>2, <1>3 DEF Sound, Healthy
<1> QED
  BY <1>4, InterfaceAssumption DEF Init, IInv

\* Every step of it has the outcome.
LEMMA NextOutcome ==
  ASSUME IInv, [Next]_vars
  PROVE  Outcome
<1>1. CASE UNCHANGED vars
  BY <1>1 DEF vars, Outcome, IInv, Replaces, Fresh
<1> QED
  BY <1>1, AgentOutcome, UserOutcome, HostOutcome DEF Next

\* The invariant holds throughout.
THEOREM ForgeInvariant == Spec => []IInv
<1>1. Init => IInv
  BY InitIInv
<1>2. IInv /\ [Next]_vars => IInv'
  BY NextOutcome DEF Outcome
<1> QED
  BY <1>1, <1>2, PTL DEF Spec

\* The state of the extension is always of its type: in particular at most one
\* delivery waits, or is remembered, in each place, and at most one workflow, one
\* question and one Deep attempt are live.
THEOREM ForgeTypeOK == Spec => []TypeOK
<1>1. IInv => TypeOK
  BY DEF IInv, TypeOK, Sound, Fields, Slots, Healthy, Good, WellFormed
<1> QED
  BY <1>1, ForgeInvariant, PTL

\* activeWorkflow and the session's Grill round are of one snapshot, through next
\* rounds, clarified requests, cancels, Deep Knowledge that lacks sources and
\* requests that are read late.
THEOREM ForgeWorkflowOfTheSnapshot == Spec => []WorkflowOfTheSnapshot
<1>1. IInv => WorkflowOfTheSnapshot
  BY DEF IInv, Sound, OfItsSnapshot, WorkflowOfTheSnapshot
<1> QED
  BY <1>1, ForgeInvariant, PTL

\* A request that is read or agreed to late never replaces the workflow that runs:
\* Begin goes by beginIntent, which throws in every stage a workflow may be in.
THEOREM ForgeRunningWorkflowIsNotReplaced == Spec => RunningWorkflowIsNotReplaced
<1>1. ASSUME IInv, [Next]_vars
      PROVE  [forge.workflow # {} /\ forge'.workflow \notin {{}, forge.workflow} =>
               /\ intents' = intents /\ forge'.request = forge.request
               /\ PendingKinds(forge) = {"relevance_clarification"} \/ forge.s.deep # {}]_vars
  BY <1>1, NextOutcome DEF Outcome, Replaces
<1> QED
  BY <1>1, ForgeInvariant, PTL DEF Spec, RunningWorkflowIsNotReplaced

\* What the handlers and the timers send names the round or the attempt that is
\* current when it is sent, whatever was answered, cancelled or begun since it was
\* prepared.
THEOREM ForgeNothingStaleIsSent == Spec => NothingStaleIsSent
<1>1. ASSUME IInv, [Next]_vars
      PROVE  [Len(inbox') > Len(inbox) => NamesTheCurrent(forge'.s, inbox'[Len(inbox')])]_vars
  BY <1>1, NextOutcome DEF Outcome, Fresh
<1> QED
  BY <1>1, ForgeInvariant, PTL DEF Spec, NothingStaleIsSent

-----------------------------------------------------------------------------
(* The panels of a terminal.                                               *)

\* One panel at most is open, and it shows the question that is pending.
PanelOfTheQuestion == AtMostOne(panels) /\ PanelShowsPendingQuestion

\* A step that leaves the panel of the question that is pending then.
Shows ==
  \E waits \in BOOLEAN : panels' = {[q |-> q, tool |-> waits] : q \in forge'.s.waitUser}

\* Such a step leaves one panel at most.
LEMMA ShowsOneQuestion ==
  ASSUME IInv', panels' = {} \/ Shows
  PROVE  PanelOfTheQuestion'
<1>1. AtMostOne(forge'.s.waitUser)
  BY DEF IInv, Sound, Healthy, Good, WellFormed
<1> QED
  BY <1>1 DEF Shows, PanelOfTheQuestion, PanelShowsPendingQuestion, AtMostOne

\* The agent acts while no question is pending, so that it finds no panel open.
LEMMA AgentShows ==
  ASSUME IInv, PanelOfTheQuestion, Agent
  PROVE  panels' = {} \/ Shows
<1>1. forge.s.stage # "WAIT_USER"
  BY DEF Agent, GrillAsks, GrillReady, GrillOmitted, SearchBatch, TargetUnclear, DeepAsks,
         DeepNeedsDiscovery, RetrievalComplete, UnderstandingComplete, ContextStale, ContextAsks,
         ContextComplete, AdrAsks, AdrComplete, GrillLive, DeepGate, DeepLive, BuildGate,
         BuildLive, DeepPhases
<1>2. panels = {}
  <2>1. forge.s.waitUser = {}
    BY <1>1, StageShown DEF IInv, Sound
  <2> QED
    BY <2>1 DEF PanelOfTheQuestion, PanelShowsPendingQuestion
<1>3. panels' = panels \/ \E waits \in BOOLEAN : Show(forge'.s, waits)
  BY DEF Agent, GrillAsks, GrillReady, GrillOmitted, SearchBatch, TargetUnclear, DeepAsks,
         DeepNeedsDiscovery, RetrievalComplete, UnderstandingComplete, ContextStale, ContextAsks,
         ContextComplete, AdrAsks, AdrComplete, Asks, Does, Becomes
<1> QED
  BY <1>2, <1>3 DEF Show, Shows

\* In a terminal the user deals with the panel first; a request that is read
\* meanwhile leaves the pending question alone.
LEMMA UserShows ==
  ASSUME IInv, PanelOfTheQuestion, User, ModalPanels
  PROVE  \/ panels' = {} \/ Shows
         \/ panels' = panels /\ (forge.s.waitUser = {} \/ forge'.s = forge.s)
<1>1. CASE \/ \E p \in panels : DismissPanel(p)
           \/ \E relevant \in Relevances : \E p \in panels :
                \E answer \in AnswersTo(p.q.kind) : AnswerPanel(p, answer, relevant)
  BY <1>1 DEF DismissPanel, AnswerPanel, PanelsAfter, PanelOfTheQuestion, AtMostOne
<1>2. CASE ReadOtherIntent
  BY <1>2 DEF ReadOtherIntent
<1>3. ASSUME NEW relevant \in Relevances, NEW missing \in AssetsMissing,
             ReadIntent(missing, relevant)
      PROVE  panels' = panels /\ (forge.s.waitUser = {} \/ forge'.s = forge.s)
  <2>1. panels' = panels /\ (Begin(relevant) \/ forge' = [forge EXCEPT !.request = TRUE])
    BY <1>3 DEF ReadIntent, Becomes
  <2>2. CASE Begin(relevant)
    BY <2>1, <2>2, BeginResult, InterfaceAssumption
  <2>3. CASE forge' = [forge EXCEPT !.request = TRUE]
    BY <2>1, <2>3 DEF IInv, Sound, Fields, NewForge
  <2> QED
    BY <2>1, <2>2, <2>3
<1>4. CASE \/ TypeRequest \/ Prompt
           \/ \E relevant \in Relevances : ApproveRequest(relevant)
           \/ \E relevant \in Relevances : \E q \in forge.s.waitUser :
                \E answer \in AnswersTo(q.kind) : TypeAnswer(answer, relevant)
  <2>1. panels = {} /\ panels' = panels
    BY <1>4 DEF TypeRequest, Prompt, ApproveRequest, TypeAnswer, UserMayType
  <2> QED
    BY <2>1
<1>5. CASE \/ ContinueContext \/ ContinueDeep \/ ContinueGrill \/ Retry \/ CancelWorkflow
           \/ ConfirmNothing \/ RejectNothing
           \/ \E relevant \in Relevances : ConfirmQuestion(relevant) \/ RejectQuestion(relevant)
  <2>1. panels = {} /\ panels' = panels
    BY <1>5 DEF ContinueContext, ContinueDeep, ContinueGrill, Retry, CancelWorkflow,
                ConfirmNothing, RejectNothing, ConfirmQuestion, RejectQuestion, Knows,
                UserMayType, Does
  <2> QED
    BY <2>1
<1> QED
  BY <1>1, <1>2, <1>3, <1>4, <1>5 DEF User

\* The host leaves the session and the panels alone.
LEMMA HostShows ==
  ASSUME IInv, Host
  PROVE  panels' = panels /\ forge'.s = forge.s
<1>1. Fields(forge) /\ Sound(forge)
  BY DEF IInv, Sound
<1>2. CASE Deliver
  BY <1>1, <1>2, MessageStartKin DEF Deliver, Kin
<1>3. CASE Settle
  BY <1>1, <1>3, SettledKin DEF Settle, Kin
<1>4. ASSUME NEW f, Fields(f), f.s = forge.s, NEW g, Kin(f, g), NEW inv,
             \/ inv \in Invocations /\ SendNow(g, inv)
             \/ Becomes(f) /\ Quiet
      PROVE  forge'.s = forge.s
  BY <1>4, ReplayedKin DEF SendNow, SendFollowUp, Becomes, Kin
<1>5. \A f \in {[forge EXCEPT !.timerDeep = {}], [forge EXCEPT !.timerBuild = {}],
                [forge EXCEPT !.timerDiscovery = {}]} :
        Fields(f) /\ Kin(f, f) /\ f.s = forge.s
  BY <1>1, TimerTaken DEF Fields, NewForge
<1>6. \A o \in Slots(forge) : \A d \in o : d \in Deliveries /\ d.inv \in Invocations
  BY <1>1 DEF Fields, Deliveries
<1>7. CASE FireDeepTimer
  <2>1. PICK d \in forge.timerDeep :
          \/ SendNow([forge EXCEPT !.timerDeep = {}], d.inv)
          \/ Becomes([forge EXCEPT !.timerDeep = {}]) /\ Quiet
    BY <1>7 DEF FireDeepTimer
  <2>2. d.inv \in Invocations
    BY <1>6 DEF Slots
  <2>3. panels' = panels
    BY <1>7 DEF FireDeepTimer
  <2> QED
    BY <1>4, <1>5, <2>1, <2>2, <2>3
<1>8. CASE FireBuildTimer
  <2> DEFINE f == [forge EXCEPT !.timerBuild = {}]
             g(d) == Remembered(f, d)
  <2>1. PICK d \in forge.timerBuild :
          \/ SendNow(g(d), d.inv)
          \/ Becomes(f) /\ Quiet
    BY <1>8 DEF FireBuildTimer
  <2>2. d.inv \in Invocations /\ d \in Deliveries
    BY <1>6 DEF Slots
  <2>3. panels' = panels
    BY <1>8 DEF FireBuildTimer
  <2>4. Fields(f) /\ f.s = forge.s
    BY <1>5
  <2> HIDE DEF f
  <2>5. Kin(f, g(d))
    BY <2>2, <2>4, RememberedKin
  <2> HIDE DEF g
  <2> QED
    BY <1>4, <2>1, <2>2, <2>3, <2>4, <2>5
<1>9. CASE FireDiscoveryTimer
  <2>1. PICK d \in forge.timerDiscovery :
          \/ SendNow([forge EXCEPT !.timerDiscovery = {}], d.inv)
          \/ Becomes([forge EXCEPT !.timerDiscovery = {}]) /\ Quiet
    BY <1>9 DEF FireDiscoveryTimer
  <2>2. d.inv \in Invocations
    BY <1>6 DEF Slots
  <2>3. panels' = panels
    BY <1>9 DEF FireDiscoveryTimer
  <2> QED
    BY <1>4, <1>5, <2>1, <2>2, <2>3
<1> QED
  BY <1>2, <1>3, <1>7, <1>8, <1>9 DEF Host

\* In a terminal, where an open panel takes the keyboard, one panel at most is
\* open, and it shows the question that is pending,
THEOREM ForgePanelOfTheQuestion ==
  ASSUME ModalPanels
  PROVE  Spec => []PanelOfTheQuestion
<1>1. Init => PanelOfTheQuestion
  BY DEF Init, PanelOfTheQuestion, PanelShowsPendingQuestion, AtMostOne
<1>2. IInv /\ IInv' /\ PanelOfTheQuestion /\ [Next]_vars => PanelOfTheQuestion'
  <2> SUFFICES ASSUME IInv, IInv', PanelOfTheQuestion, [Next]_vars
               PROVE  PanelOfTheQuestion'
    OBVIOUS
  <2>1. ASSUME panels' = panels, forge.s.waitUser = {} \/ forge'.s = forge.s
        PROVE  PanelOfTheQuestion'
    BY <2>1 DEF PanelOfTheQuestion, PanelShowsPendingQuestion, AtMostOne
  <2>2. CASE Agent
    BY <2>2, AgentShows, ShowsOneQuestion
  <2>3. CASE User
    BY <2>1, <2>3, UserShows, ShowsOneQuestion
  <2>4. CASE Host
    BY <2>1, <2>4, HostShows
  <2>5. CASE UNCHANGED vars
    BY <2>1, <2>5 DEF vars
  <2> QED
    BY <2>2, <2>3, <2>4, <2>5 DEF Next
<1> QED
  BY <1>1, <1>2, ForgeInvariant, PTL DEF Spec

\* so that the answer given on a panel is an answer to that question.
THEOREM ForgePanelShowsPendingQuestion ==
  ASSUME ModalPanels
  PROVE  Spec => []PanelShowsPendingQuestion
<1>1. PanelOfTheQuestion => PanelShowsPendingQuestion
  BY DEF PanelOfTheQuestion
<1> QED
  BY <1>1, ForgePanelOfTheQuestion, PTL

-----------------------------------------------------------------------------
(* The tools of the agent.                                                 *)

\* The questions that belong to a Grill.
GrillKinds == {"grill_confirmation", "grill_checkpoint", "relevance_clarification"}

\* The tools of a phase of Deep Knowledge.
ToolsOf(phase) == IF phase = "DEEP_KNOWLEDGE_RETRIEVAL" THEN "retrieval" ELSE "understanding"

\* The stages of a session in which a Deep attempt, or a repair, may stand while
\* the command reject is not known.
Tidy(s) ==
  /\ s.stage \in {s.orch, "REFUSED"}
  /\ s.repair = "RECOVERY_REQUIRED" => s.orch = "GRILL"
  /\ s.deep # {} => s.orch \in DeepPhases

\* The user is asked a question of such a kind.
Asking(s, kinds) == s.orch = "WAIT_USER" /\ \A q \in s.waitUser : q.kind \in kinds

\* The agent has the tools of what goes on: of a turn of the Grill, of a Deep
\* attempt, or of a build with a base, each in the stages it belongs to.
Armed(f) ==
  /\ Tidy(f.s)
  /\ f.grillRun => f.active = "grill" /\ (f.s.orch = "GRILL" \/ Asking(f.s, GrillKinds))
  /\ \A a \in f.s.deep : f.active = ToolsOf(a.phase)
  /\ f.base => \/ f.s.orch = "CONTEXT_BUILD" /\ f.active = "context"
               \/ f.s.orch = "ADR_BUILD" /\ f.active = "adr"
               \/ Asking(f.s, BuildKinds)

\* Nothing goes on.
AtRest(f) == f.grillRun = FALSE /\ f.base = FALSE /\ f.s.deep = {}

\* Three cases: nothing goes on,
LEMMA RestArms ==
  ASSUME NEW f, AtRest(f), Tidy(f.s)
  PROVE  Armed(f)
BY DEF AtRest, Armed

\* a turn of the Grill,
LEMMA GrillArms ==
  ASSUME NEW f, Tidy(f.s), f.base = FALSE, f.s.deep = {}, f.active = "grill",
         f.s.orch = "GRILL" \/ Asking(f.s, GrillKinds)
  PROVE  Armed(f)
BY DEF Armed

\* or an attempt of Deep Knowledge.
LEMMA DeepArms ==
  ASSUME NEW f, Tidy(f.s), f.base = FALSE, f.grillRun = FALSE,
         \A a \in f.s.deep : f.active = ToolsOf(a.phase)
  PROVE  Armed(f)
BY DEF Armed

\* What is left alone stays armed.
LEMMA SameArms ==
  ASSUME NEW f, Armed(f), NEW g, g.s = f.s, g.active = f.active, g.base \in BOOLEAN,
         g.base => f.base, g.grillRun => f.grillRun
  PROVE  Armed(g)
BY DEF Armed

\* What goes on, by the stage.
LEMMA GrillTime ==
  ASSUME NEW f, Sound(f), Armed(f), f.s.orch = "GRILL" \/ Asking(f.s, GrillKinds)
  PROVE  f.base = FALSE /\ f.s.deep = {}
<1>1. f.base \in BOOLEAN /\ (f.s.orch = "WAIT_USER" => f.s.waitUser # {})
  BY DEF Sound, Fields, Healthy, Good, Waiting
<1> QED
  BY <1>1 DEF Armed, Tidy, Asking, DeepPhases, GrillKinds, BuildKinds

\* An attempt of Deep Knowledge is live only in its phases, and there nothing else goes on.
LEMMA DeepTime ==
  ASSUME NEW f, Sound(f), Armed(f), f.s.orch \in DeepPhases \/ f.s.deep # {}
  PROVE  f.s.orch \in DeepPhases /\ f.base = FALSE /\ f.grillRun = FALSE
BY DEF Sound, Fields, Armed, Tidy, Asking, DeepPhases

\* While a build goes on, or asks, there is neither an attempt nor a Grill turn.
LEMMA BuildTime ==
  ASSUME NEW f, Sound(f), Armed(f),
         f.s.orch \in {"CONTEXT_BUILD", "ADR_BUILD"} \/ Asking(f.s, BuildKinds)
  PROVE  f.s.deep = {} /\ f.grillRun = FALSE
<1>1. f.grillRun \in BOOLEAN /\ (f.s.orch = "WAIT_USER" => f.s.waitUser # {})
  BY DEF Sound, Fields, Healthy, Good, Waiting
<1> QED
  BY <1>1 DEF Armed, Tidy, Asking, DeepPhases, GrillKinds, BuildKinds

\* While a question is pending, no attempt is live.
LEMMA AskTime ==
  ASSUME NEW f, Sound(f), Armed(f), f.s.orch = "WAIT_USER"
  PROVE  f.s.deep = {}
BY DEF Armed, Tidy, DeepPhases

-----------------------------------------------------------------------------
(* The helpers.                                                            *)

\* What the changes of the tools do to what they change.
LEMMA ToolsShown ==
  ASSUME NEW f, Fields(f)
  PROVE  /\ \A tools : LET g == Activate(f, tools)
                       IN  /\ g.s = f.s /\ g.active = tools /\ g.base = f.base
                           /\ g.grillRun = (f.grillRun /\ tools # "retrieval")
         /\ LET g == ActivateUnderstanding(f)
            IN  /\ g.s = f.s /\ g.active = "understanding" /\ g.base = f.base
                /\ g.grillRun = f.grillRun
         /\ LET g == Restore(f) IN g.s = f.s /\ g.base = f.base /\ g.grillRun = f.grillRun
         /\ LET g == ClearPending(f) IN g.s = f.s /\ g.base = FALSE /\ g.grillRun = FALSE
BY DEF Fields, NewForge, Activate, ActivateUnderstanding, Restore, ClearPending

\* The tools of the live attempt are those of its phase.
LEMMA ActivateDeepArms ==
  ASSUME NEW f, Sound(f), Tidy(f.s), f.base = FALSE, f.grillRun = FALSE
  PROVE  Armed(ActivateDeep(f))
<1>1. CASE f.s.deep = {}
  <2>1. ActivateDeep(f) = f
    BY <1>1 DEF ActivateDeep
  <2> QED
    BY <1>1, <2>1, RestArms DEF AtRest
<1>2. CASE f.s.deep # {}
  <2>1. PICK a \in f.s.deep : \A b \in f.s.deep : b = a
    BY <1>2 DEF Sound, Healthy, Good, WellFormed, AtMostOne
  <2>2. a.phase \in DeepPhases
    BY DEF Sound, Healthy, Good, WellFormed, IsSession, DeepAttempts
  <2>3. CASE a.phase = "DEEP_KNOWLEDGE_RETRIEVAL"
    <3> DEFINE g == Activate(f, "retrieval")
    <3>1. ActivateDeep(f) = g
      BY <2>1, <2>3 DEF ActivateDeep
    <3>2. g.s = f.s /\ g.active = "retrieval" /\ g.base = FALSE /\ g.grillRun = FALSE
      BY DEF Activate, Sound, Fields, NewForge
    <3> HIDE DEF g
    <3> QED
      BY <2>1, <2>3, <3>1, <3>2, DeepArms DEF ToolsOf
  <2>4. CASE a.phase = "KNOWLEDGE_UNDERSTANDING"
    <3> DEFINE g == ActivateUnderstanding(f)
    <3>1. ActivateDeep(f) = g
      BY <2>1, <2>4 DEF ActivateDeep
    <3>2. g.s = f.s /\ g.active = "understanding" /\ g.base = FALSE /\ g.grillRun = FALSE
      BY ToolsShown DEF Sound
    <3> QED
      BY <2>1, <2>4, <3>1, <3>2, DeepArms DEF ToolsOf
  <2> QED
    BY <2>2, <2>3, <2>4 DEF DeepPhases
<1> QED
  BY <1>1, <1>2

\* The input handler of the extension leaves a well armed agent as it is.
LEMMA ReplayedArms ==
  ASSUME NEW f, Sound(f), Armed(f), NEW inv
  PROVE  Armed(Replayed(f, inv))
<1> DEFINE g == ActivateDeep(f)
<1>1. Armed(g)
  <2>1. CASE f.s.deep = {}
    BY <2>1 DEF ActivateDeep
  <2>2. CASE f.s.deep # {}
    BY <2>2, DeepTime, ActivateDeepArms DEF Armed
  <2> QED
    BY <2>1, <2>2
<1>2. Fields(g)
  BY ActivateDeepKin DEF Sound, Kin
<1> HIDE DEF g
<1>3. LET h == [g EXCEPT !.replay = {inv}]
      IN  h.s = g.s /\ h.active = g.active /\ h.base = g.base /\ h.grillRun = g.grillRun
  BY <1>2 DEF Fields, NewForge
<1> QED
  BY <1>1, <1>2, <1>3, SameArms DEF Replayed, g, Fields

\* Sending arms nothing that is not armed already.
LEMMA SendArms ==
  ASSUME NEW f, Sound(f), Armed(f), NEW inv, SendFollowUp(f, inv) \/ SendNow(f, inv)
  PROVE  Armed(forge')
BY ReplayedArms DEF SendFollowUp, SendNow, Becomes

-----------------------------------------------------------------------------
(* The session.                                                            *)

\* A session that asks a question of this kind, and no attempt goes on.
AsksOnly(t, kind) ==
  /\ t.orch = "WAIT_USER" /\ t.stage = "WAIT_USER" /\ t.deep = {}
  /\ t.repair # "RECOVERY_REQUIRED" /\ \A q \in t.waitUser : q.kind = kind

\* A session that asks is tidy, and asks a question of its kind.
LEMMA AsksTidy ==
  ASSUME NEW t, NEW kind, AsksOnly(t, kind)
  PROVE  Tidy(t) /\ \A kinds : kind \in kinds => Asking(t, kinds)
BY DEF AsksOnly, Tidy, Asking

\* The calls of the Grill,
LEMMA GrillCallsTidy ==
  ASSUME NEW s, Healthy(s), Tidy(s), s.deep = {}
  PROVE  /\ s.orch = "GRILL" =>
              Tidy(RecordCompletionOmission(s)) /\ RecordCompletionOmission(s).deep = {}
         /\ \A q : LET t == RequireWaitUser(s, q) IN t = s \/ AsksOnly(t, q.kind)
         /\ CanRetryGrillRound(s) => LET t == RetryGrillRound(s)
                                     IN  Tidy(t) /\ t.deep = {} /\ t.orch = "GRILL"
<1> USE DEF Healthy, Good, WellFormed, IsSession, NewSession, Tidy
<1>1. s.orch = "GRILL" =>
        Tidy(RecordCompletionOmission(s)) /\ RecordCompletionOmission(s).deep = {}
  BY DEF RecordCompletionOmission
<1>2. ASSUME NEW q
      PROVE  LET t == RequireWaitUser(s, q) IN t = s \/ AsksOnly(t, q.kind)
  BY DEF RequireWaitUser, Ask, MoveTo, AsksOnly
<1>3. CanRetryGrillRound(s) => LET t == RetryGrillRound(s)
                               IN  Tidy(t) /\ t.deep = {} /\ t.orch = "GRILL"
  BY DEF CanRetryGrillRound, RetryGrillRound
<1> QED
  BY <1>1, <1>2, <1>3

\* the beginnings of Deep Knowledge,
LEMMA DeepBegunTidy ==
  ASSUME NEW s, Healthy(s), s.repair # "RECOVERY_REQUIRED"
  PROVE  /\ \A phase \in DeepPhases :
              LET t == BeginDeepKnowledge(s, phase)
              IN  Tidy(t) /\ \A a \in t.deep : a.phase = phase
         /\ Tidy(s) => Tidy(RetryDeepKnowledge(s))
         /\ LET t == CancelDeepKnowledge(s) IN Tidy(t) /\ t.deep = {}
<1> USE DEF Healthy, Good, WellFormed, IsSession, NewSession, Tidy, MoveTo
<1>1. ASSUME NEW phase \in DeepPhases
      PROVE  LET t == BeginDeepKnowledge(s, phase)
             IN  Tidy(t) /\ \A a \in t.deep : a.phase = phase
  BY DEF BeginDeepKnowledge, NewDeepAttempt
<1>2. Tidy(s) => Tidy(RetryDeepKnowledge(s))
  <2>1. CASE s.round = {} \/ RetryPhase(s) = {}
    BY <2>1 DEF RetryDeepKnowledge
  <2>2. CASE ~(s.round = {} \/ RetryPhase(s) = {})
    <3> DEFINE phase == The(RetryPhase(s))
    <3>1. phase \in DeepPhases
      BY <2>2, TheMember DEF RetryPhase
    <3>2. RetryDeepKnowledge(s) = NewDeepAttempt([MoveTo(s, phase) EXCEPT !.waitUser = {}], phase)
      BY <2>2 DEF RetryDeepKnowledge
    <3> HIDE DEF phase
    <3> QED
      BY <3>1, <3>2 DEF NewDeepAttempt
  <2> QED
    BY <2>1, <2>2
<1>3. LET t == CancelDeepKnowledge(s) IN Tidy(t) /\ t.deep = {}
  BY DEF CancelDeepKnowledge
<1> QED
  BY <1>1, <1>2, <1>3

\* its results,
LEMMA DeepResultTidy ==
  ASSUME NEW s, Healthy(s), s.repair # "RECOVERY_REQUIRED", NEW a \in s.deep
  PROVE  /\ \A d : AsksOnly(NeedDecision(s, a, d), "deep_decision")
         /\ LET t == CompleteDeepRetrieval(s, a, {})
            IN  Tidy(t) /\ \A b \in t.deep : b.phase = "KNOWLEDGE_UNDERSTANDING"
         /\ LET t == CompleteUnderstanding(s, a)
            IN  Tidy(t) /\ t.deep = {} /\ t.orch = "CONTEXT_BUILD"
<1> USE DEF Healthy, Good, WellFormed, IsSession, NewSession, Tidy, MoveTo, Ask
<1>1. ASSUME NEW d PROVE AsksOnly(NeedDecision(s, a, d), "deep_decision")
  BY DEF NeedDecision, AsksOnly
<1>2. LET t == CompleteDeepRetrieval(s, a, {})
      IN  Tidy(t) /\ \A b \in t.deep : b.phase = "KNOWLEDGE_UNDERSTANDING"
  BY DEF CompleteDeepRetrieval, CompleteDeepKnowledge, DeepPhases, DeepAttempts
<1>3. LET t == CompleteUnderstanding(s, a)
      IN  Tidy(t) /\ t.deep = {} /\ t.orch = "CONTEXT_BUILD"
  BY DEF CompleteUnderstanding
<1> QED
  BY <1>1, <1>2, <1>3

\* and the builds.
LEMMA BuildCallsTidy ==
  ASSUME NEW s, Healthy(s), Tidy(s), s.deep = {}, s.repair # "RECOVERY_REQUIRED"
  PROVE  /\ \A a, d : /\ AsksOnly(ContextAmbiguous(s, a, d), "context_ambiguity")
                      /\ AsksOnly(RequireAdrDecision(s, a, d), "adr_ambiguity")
         /\ \A a : LET t == CompleteContextBuild(s, a)
                   IN  Tidy(t) /\ t.deep = {} /\ t.orch = "ADR_BUILD"
         /\ LET t == PrepareAdrBuild(s)
            IN  /\ Tidy(t) /\ t.deep = {} /\ t.orch = s.orch
                /\ Tidy(FinalizeAdrBuild(t)) /\ FinalizeAdrBuild(t).deep = {}
<1> USE DEF Healthy, Good, WellFormed, IsSession, NewSession, Tidy, MoveTo, Ask
<1>1. ASSUME NEW a, NEW d
      PROVE  /\ AsksOnly(ContextAmbiguous(s, a, d), "context_ambiguity")
             /\ AsksOnly(RequireAdrDecision(s, a, d), "adr_ambiguity")
  BY DEF ContextAmbiguous, RequireAdrDecision, AsksOnly
<1>2. ASSUME NEW a
      PROVE  LET t == CompleteContextBuild(s, a)
             IN  Tidy(t) /\ t.deep = {} /\ t.orch = "ADR_BUILD"
  BY DEF CompleteContextBuild
<1>3. LET t == PrepareAdrBuild(s)
      IN  /\ Tidy(t) /\ t.deep = {} /\ t.orch = s.orch
          /\ Tidy(FinalizeAdrBuild(t)) /\ FinalizeAdrBuild(t).deep = {}
  BY DEF PrepareAdrBuild, FinalizeAdrBuild
<1> QED
  BY <1>1, <1>2, <1>3

\* Where an answer takes the session.
Answered(s, t, q) ==
  \/ t = s
  \/ q.kind = "grill_confirmation" /\ AsksOnly(t, "grill_checkpoint")
  \/ /\ t.stage = t.orch
     /\ \/ /\ q.kind \in {"grill_confirmation", "grill_checkpoint", "deep_decision"}
           /\ t.orch = "GRILL"
        \/ q.kind = "context_ambiguity" /\ t.orch = "CONTEXT_BUILD"
        \/ q.kind = "adr_ambiguity" /\ t.orch = "ADR_BUILD"
        \/ /\ q.kind \in {"deep_discovery_fallback", "relevance_clarification"}
           /\ t.orch = "USER_CONFIRMED"

\* An answer while none is asked for is refused; no other changes the attempts.
LEMMA AnswerTidy ==
  ASSUME NEW s, Healthy(s), Tidy(s), NEW answer \in Answers
  PROVE  LET t == RecordAnswer(s, answer)
         IN  /\ Tidy(t) /\ t.deep = s.deep
             /\ s.orch # "WAIT_USER" =>
                  t.orch = s.orch /\ t.waitUser = s.waitUser /\ t.stage = "REFUSED"
             /\ \A q \in s.waitUser : Answered(s, t, q)
<1> DEFINE q == The(s.waitUser)
           t == RecordAnswer(s, answer)
<1>1. CASE s.orch # "WAIT_USER"
  <2>1. t = [s EXCEPT !.stage = "REFUSED"]
    BY <1>1 DEF RecordAnswer
  <2>2. s.waitUser = {}
    BY <1>1 DEF Healthy, Good, Waiting
  <2> HIDE DEF t
  <2> QED
    BY <1>1, <2>1, <2>2 DEF Tidy, Healthy, Good, WellFormed, IsSession, NewSession, t
<1>2. CASE s.orch = "WAIT_USER"
  <2>1. q \in s.waitUser /\ q \in Questions /\ \A p \in s.waitUser : p = q
    BY <1>2, TheMember DEF Healthy, Good, Waiting, WellFormed, IsSession, AtMostOne
  <2>2. s.repair # "RECOVERY_REQUIRED" /\ s.deep = {}
    BY <1>2 DEF Tidy, DeepPhases
  <2>3. SUFFICES Tidy(t) /\ t.deep = {} /\ Answered(s, t, q)
    BY <1>2, <2>1, <2>2
  <2>4. CASE ~Acceptable(s, q, answer)
    BY <1>2, <2>2, <2>4 DEF RecordAnswer, Answered
  <2>5. CASE Acceptable(s, q, answer) /\ q.kind = "grill_checkpoint"
    <3>1. t = [MoveTo(s, "GRILL") EXCEPT !.waitUser = {},
                                         !.continueOne = (answer = "continue_one")]
      BY <1>2, <2>5 DEF RecordAnswer
    <3> HIDE DEF t
    <3> QED
      BY <2>2, <2>5, <3>1 DEF MoveTo, Tidy, Answered, Healthy, Good,
            WellFormed, IsSession, NewSession
  <2>6. CASE Acceptable(s, q, answer) /\ q.kind # "grill_checkpoint"
    <3> DEFINE u == Remember(s, q, answer)
    <3>1. t = Proceed(u, q)
      BY <1>2, <2>6 DEF RecordAnswer
    <3>2. WellFormed(u) /\ u.repair = s.repair /\ u.deep = {}
      <4>1. u.repair = s.repair
        BY DEF Remember, Healthy, Good, WellFormed, IsSession, NewSession
      <4> QED
        BY <4>1, <2>1, <2>2, RememberKeeps DEF Healthy, Good
    <3> HIDE DEF u, t
    <3> DEFINE k == q.kind
    <3>3. k \in QuestionKinds
      BY <2>1 DEF Questions
    <3> USE DEF Tidy, Answered, MoveTo, WellFormed, IsSession, NewSession
    <3>4. CASE k = "grill_confirmation" /\ (u.answers = AnswerLimit \/ u.continueOne)
      <4>1. t = [Ask(u, Checkpoint(u)) EXCEPT !.continueOne = FALSE]
        BY <3>1, <3>4 DEF Proceed
      <4>2. Checkpoint(u).kind = "grill_checkpoint"
        BY DEF Checkpoint
      <4> QED
        BY <2>2, <3>2, <3>4, <4>1, <4>2 DEF Ask, AsksOnly
    <3>5. CASE k = "grill_confirmation" /\ ~(u.answers = AnswerLimit \/ u.continueOne)
      <4>1. t = MoveTo([u EXCEPT !.waitUser = {}], "GRILL")
        BY <3>1, <3>5 DEF Proceed
      <4> QED
        BY <2>2, <3>2, <3>5, <4>1
    <3>6. CASE k = "context_ambiguity"
      <4>1. t = [MoveTo([u EXCEPT !.waitUser = {}], "CONTEXT_BUILD") EXCEPT
                   !.context = {[id |-> u.nextContext, round |-> q.round]},
                   !.nextContext = @ + 1]
        BY <3>1, <3>6 DEF Proceed
      <4> QED
        BY <2>2, <3>2, <3>6, <4>1
    <3>7. CASE k = "adr_ambiguity"
      <4>1. t = [MoveTo([u EXCEPT !.waitUser = {}], "ADR_BUILD") EXCEPT
                   !.adr = {[id |-> u.nextAdr, round |-> q.round]},
                   !.nextAdr = @ + 1]
        BY <3>1, <3>7 DEF Proceed
      <4> QED
        BY <2>2, <3>2, <3>7, <4>1
    <3>8. CASE k \in {"deep_discovery_fallback", "relevance_clarification"}
      <4>1. t = MoveTo([u EXCEPT !.waitUser = {}], "USER_CONFIRMED")
        BY <3>1, <3>8 DEF Proceed
      <4> QED
        BY <2>2, <3>2, <3>8, <4>1
    <3>9. CASE k = "deep_decision"
      <4>1. t = MoveTo([u EXCEPT !.waitUser = {}], "GRILL")
        BY <3>1, <3>9 DEF Proceed
      <4> QED
        BY <2>2, <3>2, <3>9, <4>1
    <3> QED
      BY <2>6, <3>3, <3>4, <3>5, <3>6, <3>7, <3>8, <3>9 DEF QuestionKinds
  <2> QED
    BY <2>4, <2>5, <2>6
<1> QED
  BY <1>1, <1>2

-----------------------------------------------------------------------------
(* What handlers share.                                                    *)

\* A cancel leaves nothing going on.
LEMMA CancelArms ==
  ASSUME NEW f, Sound(f)
  PROVE  Armed(Cancel(f))
<1> DEFINE e == [f EXCEPT !.converge = {}]
           g == Restore(ClearPending(e))
<1>1. Fields(g) /\ g.s = f.s /\ g.base = FALSE /\ g.grillRun = FALSE
  <2>1. Fields(e) /\ e.s = f.s
    BY DEF Sound, Fields, NewForge, Slots, AtMostOne
  <2> HIDE DEF e
  <2> DEFINE c == ClearPending(e)
  <2>2. Fields(c) /\ c.s = f.s /\ c.base = FALSE /\ c.grillRun = FALSE
    BY <2>1, ClearPendingKin, ToolsShown
  <2> HIDE DEF c
  <2>3. Fields(Restore(c))
    BY <2>2, RestoreKin DEF Kin
  <2>4. LET r == Restore(c) IN r.s = c.s /\ r.base = c.base /\ r.grillRun = c.grillRun
    BY <2>2, ToolsShown
  <2> QED
    BY <2>2, <2>3, <2>4 DEF c
<1>2. Cancel(f) = IF f.s.stage \in DeepPhases \/ PendingKinds(f) = {"deep_decision"}
                    THEN [g EXCEPT !.s = CancelDeepKnowledge(g.s)]
                    ELSE [g EXCEPT !.s = Reset(g.s), !.workflow = {}]
  BY DEF Cancel
<1> HIDE DEF g
<1>3. CASE f.s.stage \in DeepPhases \/ PendingKinds(f) = {"deep_decision"}
  <2>1. f.s.repair # "RECOVERY_REQUIRED"
    <3>1. f.s.waitUser # {} \/ f.s.stage \in DeepPhases
      BY <1>3 DEF PendingKinds
    <3> QED
      BY <3>1, StageShown DEF Sound
  <2> DEFINE t == CancelDeepKnowledge(f.s)
             h == [g EXCEPT !.s = t]
  <2>2. Tidy(t) /\ t.deep = {}
    BY <2>1, DeepBegunTidy DEF Sound
  <2>3. Cancel(f) = h
    BY <1>1, <1>2, <1>3
  <2> HIDE DEF t
  <2>4. h.s = t /\ h.base = FALSE /\ h.grillRun = FALSE
    BY <1>1 DEF Fields, NewForge
  <2> QED
    BY <2>2, <2>3, <2>4, RestArms DEF AtRest
<1>4. CASE ~(f.s.stage \in DeepPhases \/ PendingKinds(f) = {"deep_decision"})
  <2> DEFINE t == Reset(f.s)
             h == [g EXCEPT !.s = t, !.workflow = {}]
  <2>1. Tidy(t) /\ t.deep = {}
    BY DEF Reset, NewSession, Tidy
  <2>2. Cancel(f) = h
    BY <1>1, <1>2, <1>4
  <2> HIDE DEF t
  <2>3. h.s = t /\ h.base = FALSE /\ h.grillRun = FALSE
    BY <1>1 DEF Fields, NewForge
  <2> QED
    BY <2>1, <2>2, <2>3, RestArms DEF AtRest
<1> QED
  BY <1>3, <1>4

\* A Grill that begins, on a new snapshot or the same, gets its tools,
LEMMA GrillBegunArms ==
  ASSUME NEW f, Fields(f), Healthy(f.s), f.base = FALSE
  PROVE  /\ \A relevant \in BOOLEAN : Armed(OpenGrill(f, relevant))
         /\ f.s.orch = "GRILL" /\ f.s.stage = "GRILL" => Armed(NextGrill(f))
<1>1. ASSUME NEW relevant \in BOOLEAN
      PROVE  Armed(OpenGrill(f, relevant))
  <2> DEFINE s == StartGrillRound(BeginLightDiscovery(f.s), TRUE)
             w == [snapshot |-> The(s.round).id, relevant |-> relevant]
             t == BeginGrill(s)
             h == [f EXCEPT !.s = t, !.workflow = {w}, !.grillRun = TRUE]
  <2>1. t.orch = "GRILL" /\ t.stage = "GRILL" /\ t.deep = {}
    BY DEF StartGrillRound, ForgetSnapshot, BeginLightDiscovery, BeginGrill, MoveTo, Healthy,
           Good, WellFormed, IsSession, NewSession
  <2>2. Tidy(t)
    BY <2>1 DEF Tidy
  <2>3. OpenGrill(f, relevant) = Activate(h, "grill")
    BY DEF OpenGrill
  <2> HIDE DEF t, w
  <2>4. LET g == Activate(h, "grill") IN g.s = t /\ g.base = FALSE /\ g.active = "grill"
    BY DEF Activate, Fields, NewForge
  <2> HIDE DEF h
  <2> QED
    BY <2>1, <2>2, <2>3, <2>4, GrillArms
<1>2. ASSUME f.s.orch = "GRILL" /\ f.s.stage = "GRILL"
      PROVE  Armed(NextGrill(f))
  <2> DEFINE t == StartGrillRound(f.s, FALSE)
             h == [f EXCEPT !.s = t, !.grillRun = TRUE]
  <2>1. t.orch = "GRILL" /\ t.stage = "GRILL" /\ t.deep = {}
    BY <1>2 DEF StartGrillRound, ForgetSnapshot, Healthy, Good, WellFormed, IsSession, NewSession
  <2>2. Tidy(t)
    BY <2>1 DEF Tidy
  <2>3. NextGrill(f) = Activate(h, "grill")
    BY DEF NextGrill
  <2> HIDE DEF t
  <2>4. LET g == Activate(h, "grill") IN g.s = t /\ g.base = FALSE /\ g.active = "grill"
    BY DEF Activate, Fields, NewForge
  <2> HIDE DEF h
  <2> QED
    BY <2>1, <2>2, <2>3, <2>4, GrillArms
<1> QED
  BY <1>1, <1>2

\* and Deep Knowledge those of the retrieval.
LEMMA EnterDeepArms ==
  ASSUME NEW f, Fields(f), Healthy(f.s), f.base = FALSE, f.s.repair # "RECOVERY_REQUIRED"
  PROVE  Armed(EnterDeep(f))
<1> DEFINE t == BeginDeepKnowledge(f.s, "DEEP_KNOWLEDGE_RETRIEVAL")
           h == [f EXCEPT !.s = t]
<1>1. Tidy(t) /\ \A a \in t.deep : a.phase = "DEEP_KNOWLEDGE_RETRIEVAL"
  BY DeepBegunTidy DEF DeepPhases
<1>2. EnterDeep(f) = Activate(h, "retrieval")
  BY DEF EnterDeep
<1> HIDE DEF t
<1>3. LET g == Activate(h, "retrieval")
      IN  g.s = t /\ g.base = FALSE /\ g.active = "retrieval" /\ g.grillRun = FALSE
  BY DEF Activate, Fields, NewForge
<1> HIDE DEF h
<1> QED
  BY <1>1, <1>2, <1>3, DeepArms DEF ToolsOf

-----------------------------------------------------------------------------
(* What an answer arms.                                                    *)

\* The handlers with the answer recorded.
LEMMA RecordedArms ==
  ASSUME NEW f, Sound(f), Armed(f), NEW answer \in Answers
  PROVE  LET t == RecordAnswer(f.s, answer)
             g == [f EXCEPT !.s = RecordAnswer(@, answer)]
         IN  /\ g.s = t /\ g.active = f.active /\ g.base = f.base /\ g.grillRun = f.grillRun
             /\ Tidy(t) /\ t.deep = f.s.deep
             /\ f.s.orch # "WAIT_USER" => Armed(g)
             /\ \A q \in f.s.waitUser : Answered(f.s, t, q)
<1> DEFINE t == RecordAnswer(f.s, answer)
           g == [f EXCEPT !.s = t]
<1>1. /\ Tidy(t) /\ t.deep = f.s.deep /\ \A q \in f.s.waitUser : Answered(f.s, t, q)
      /\ f.s.orch # "WAIT_USER" =>
           t.orch = f.s.orch /\ t.waitUser = f.s.waitUser /\ t.stage = "REFUSED"
  BY AnswerTidy DEF Sound, Armed
<1>2. [f EXCEPT !.s = RecordAnswer(@, answer)] = g
  BY DEF t
<1>3. g.s = t /\ g.active = f.active /\ g.base = f.base /\ g.grillRun = f.grillRun
  BY DEF Sound, Fields, NewForge
<1> HIDE DEF g
<1>4. f.s.orch # "WAIT_USER" => Armed(g)
  BY <1>1, <1>3 DEF Armed, Asking
<1> QED
  BY <1>1, <1>2, <1>3, <1>4

\* resumeGrillWithAnswer.
LEMMA ResumeGrillArms ==
  ASSUME NEW f, Sound(f), Armed(f), NEW answer \in Answers, NEW relevant \in BOOLEAN,
         PendingKinds(f) \cap (DeepKinds \cup BuildKinds) = {}
  PROVE  Armed(ResumeGrill(f, answer, relevant))
<1> DEFINE t == RecordAnswer(f.s, answer)
           g == [f EXCEPT !.s = RecordAnswer(@, answer)]
           h == ResumeGrill(f, answer, relevant)
           cancelled  == PendingKinds(f) = {"grill_checkpoint"} /\ answer = "cancel"
           converging == \E q \in f.s.waitUser :
                           q.kind = "grill_confirmation" /\ q.round \in f.converge
<1>1. /\ Sound(g) /\ g.s = t /\ g.active = f.active /\ g.base = f.base
      /\ g.grillRun = f.grillRun /\ Tidy(t) /\ t.deep = f.s.deep
      /\ f.s.orch # "WAIT_USER" => Armed(g)
      /\ \A q \in f.s.waitUser : Answered(f.s, t, q)
  BY AnswerSound, RecordedArms
<1>2. h = CASE cancelled -> Cancel(f)
            [] g.s.stage = "USER_CONFIRMED"
                 -> OpenGrill(Restore([g EXCEPT !.converge = {}, !.grillRun = FALSE]), relevant)
            [] g.s.stage = "GRILL" /\ converging -> EnterDeep([g EXCEPT !.converge = {}])
            [] g.s.stage = "GRILL" /\ ~converging
                 -> LET n == NextGrill(g)
                    IN  IF PendingKinds(f) = {"grill_checkpoint"} /\ answer = "converge"
                          THEN [n EXCEPT !.converge = {The(n.s.round).id}] ELSE n
            [] OTHER -> g
  BY DEF ResumeGrill
<1>3. f.s.orch # "WAIT_USER" => t.stage = "REFUSED" /\ f.s.waitUser = {}
  BY AnswerTidy DEF Sound, Armed, Healthy, Good, Waiting
<1>4. f.s.orch = "WAIT_USER" => f.base = FALSE /\ Asking(f.s, GrillKinds)
  <2> SUFFICES ASSUME f.s.orch = "WAIT_USER" PROVE f.base = FALSE /\ Asking(f.s, GrillKinds)
    OBVIOUS
  <2>1. \A q \in f.s.waitUser : q.kind \in QuestionKinds
    BY OneKind
  <2>2. \A q \in f.s.waitUser : q.kind \notin DeepKinds \cup BuildKinds
    BY DEF PendingKinds
  <2>3. \A q \in f.s.waitUser : q.kind \in GrillKinds
    BY <2>1, <2>2 DEF GrillKinds, DeepKinds, BuildKinds, QuestionKinds
  <2>4. Asking(f.s, GrillKinds)
    BY <2>3 DEF Asking
  <2> QED
    BY <2>4, GrillTime
<1>5. f.s.orch = "WAIT_USER" =>
        \/ t = f.s \/ AsksOnly(t, "grill_checkpoint")
        \/ t.stage = t.orch /\ t.orch \in {"GRILL", "USER_CONFIRMED"}
  <2> SUFFICES ASSUME f.s.orch = "WAIT_USER"
               PROVE  \/ t = f.s \/ AsksOnly(t, "grill_checkpoint")
                      \/ t.stage = t.orch /\ t.orch \in {"GRILL", "USER_CONFIRMED"}
    OBVIOUS
  <2>1. PICK q \in f.s.waitUser : q.kind \in GrillKinds
    BY <1>4 DEF Sound, Healthy, Good, Waiting, Asking
  <2>2. Answered(f.s, t, q)
    BY <1>1
  <2> HIDE DEF t
  <2> QED
    BY <2>1, <2>2 DEF Answered, GrillKinds
<1>6. t.stage \in {"USER_CONFIRMED", "GRILL"} => f.s.orch = "WAIT_USER"
  BY <1>3
<1>7. cancelled => t.stage # "GRILL" /\ t.stage # "USER_CONFIRMED"
  <2> SUFFICES ASSUME cancelled PROVE t = f.s /\ f.s.stage = "WAIT_USER"
    OBVIOUS
  <2>1. PICK q \in f.s.waitUser : q.kind = "grill_checkpoint"
    BY DEF PendingKinds
  <2>2. The(f.s.waitUser) = q /\ f.s.orch = "WAIT_USER" /\ f.s.stage = "WAIT_USER"
    BY <2>1, TheMember, StageShown DEF Sound, Healthy, Good, WellFormed, AtMostOne
  <2>3. ~Acceptable(f.s, q, answer)
    BY <2>1 DEF Acceptable
  <2> QED
    BY <2>2, <2>3 DEF RecordAnswer
<1> HIDE DEF cancelled, converging, t, g, h
<1>8. CASE cancelled
  <2>1. h = Cancel(f)
    BY <1>1, <1>2, <1>7, <1>8
  <2> QED
    BY <2>1, CancelArms DEF h
<1>9. t.stage \in {"USER_CONFIRMED", "GRILL"} =>
        t.orch = t.stage /\ f.base = FALSE /\ t.repair # "RECOVERY_REQUIRED"
  BY <1>4, <1>6, AnswerStays DEF Sound, t
<1>10. CASE g.s.stage = "USER_CONFIRMED"
  <2> DEFINE u == [g EXCEPT !.converge = {}, !.grillRun = FALSE]
             v == Restore(u)
  <2>1. h = OpenGrill(v, relevant)
    BY <1>1, <1>2, <1>7, <1>10
  <2>2. Fields(u) /\ u.s = t /\ u.base = FALSE
    BY <1>1, <1>9, <1>10 DEF Sound, Fields, NewForge, Slots, AtMostOne
  <2> HIDE DEF u
  <2>3. Fields(v) /\ v.s = t /\ v.base = FALSE
    BY <2>2, RestoreKin, ToolsShown DEF Kin
  <2> HIDE DEF v
  <2> QED
    BY <1>1, <2>1, <2>3, GrillBegunArms DEF Sound, h
<1>11. CASE g.s.stage = "GRILL" /\ converging
  <2> DEFINE u == [g EXCEPT !.converge = {}]
  <2>1. h = EnterDeep(u)
    BY <1>1, <1>2, <1>7, <1>11
  <2>2. Fields(u) /\ u.s = t /\ u.base = FALSE
    BY <1>1, <1>9, <1>11 DEF Sound, Fields, NewForge, Slots, AtMostOne
  <2> HIDE DEF u
  <2> QED
    BY <1>1, <1>9, <1>11, <2>1, <2>2, EnterDeepArms DEF Sound, h
<1>12. CASE g.s.stage = "GRILL" /\ ~converging
  <2> DEFINE n == NextGrill(g)
             m == [n EXCEPT !.converge = {The(n.s.round).id}]
  <2>1. h = n \/ h = m
    BY <1>1, <1>2, <1>7, <1>12
  <2>2. Armed(n)
    BY <1>1, <1>9, <1>12, GrillBegunArms DEF Sound
  <2>3. Fields(n)
    <3>1. t.round # {}
      BY <1>1, <1>12, AnswerStays DEF Sound, t
    <3> QED
      BY <1>1, <1>9, <1>12, <3>1, NextGrillSound DEF Sound
  <2> HIDE DEF n
  <2>4. m.s = n.s /\ m.active = n.active /\ m.base = n.base /\ m.grillRun = n.grillRun
    BY <2>3 DEF Fields, NewForge
  <2> HIDE DEF m
  <2> QED
    BY <2>1, <2>2, <2>3, <2>4, SameArms DEF Fields, h
<1>13. CASE ~cancelled /\ g.s.stage \notin {"USER_CONFIRMED", "GRILL"}
  <2>1. h = g
    BY <1>2, <1>13
  <2>2. CASE f.s.orch # "WAIT_USER"
    BY <1>1, <2>1, <2>2 DEF h
  <2>3. CASE f.s.orch = "WAIT_USER"
    <3>1. t = f.s \/ AsksOnly(t, "grill_checkpoint")
      BY <1>1, <1>5, <1>13, <2>3
    <3>2. Asking(t, GrillKinds)
      BY <1>4, <2>3, <3>1 DEF Asking, AsksOnly, GrillKinds
    <3>3. f.base = FALSE
      BY <1>4, <2>3
    <3> QED
      BY <1>1, <2>1, <3>2, <3>3 DEF Armed, h
  <2> QED
    BY <2>2, <2>3
<1> QED
  BY <1>8, <1>10, <1>11, <1>12, <1>13 DEF h

\* What goes on while a question of Deep Knowledge or of a build is pending.
LEMMA QuestionTime ==
  ASSUME NEW f, Sound(f), Armed(f), NEW q \in f.s.waitUser
  PROVE  /\ PendingKinds(f) = {q.kind} /\ f.s.orch = "WAIT_USER" /\ f.s.deep = {}
         /\ f.s.stage = "WAIT_USER" /\ f.s.repair # "RECOVERY_REQUIRED"
         /\ q.kind \in DeepKinds => f.base = FALSE /\ f.grillRun = FALSE
         /\ q.kind \in BuildKinds => f.grillRun = FALSE /\ Asking(f.s, BuildKinds)
         /\ q.kind \in GrillKinds => f.base = FALSE /\ Asking(f.s, GrillKinds)
<1>1. PendingKinds(f) = {q.kind} /\ f.s.orch = "WAIT_USER" /\ f.s.deep = {}
  BY OneKind, AskTime
<1>2. f.s.stage = "WAIT_USER" /\ f.s.repair # "RECOVERY_REQUIRED"
  BY <1>1, StageShown DEF Sound
<1>3. f.base \in BOOLEAN /\ f.grillRun \in BOOLEAN
  BY DEF Sound, Fields
<1>4. \A kinds : Asking(f.s, kinds) <=> q.kind \in kinds
  BY <1>1 DEF Asking, PendingKinds
<1> QED
  BY <1>1, <1>2, <1>3, <1>4 DEF Armed, DeepKinds, BuildKinds, GrillKinds

\* prepareDeepKnowledgeAnswer.
LEMMA PrepareDeepArms ==
  ASSUME NEW f, Sound(f), Armed(f), NEW answer \in Answers, PendingKinds(f) \cap DeepKinds # {}
  PROVE  Armed(PrepareDeep(f, answer))
<1> DEFINE t == RecordAnswer(f.s, answer)
           g == [f EXCEPT !.s = RecordAnswer(@, answer)]
           h == PrepareDeep(f, answer)
<1>1. PICK q \in f.s.waitUser : q.kind \in DeepKinds
  BY DEF PendingKinds
<1>2. /\ PendingKinds(f) = {q.kind} /\ f.s.orch = "WAIT_USER" /\ f.s.deep = {}
      /\ f.base = FALSE /\ f.grillRun = FALSE
  BY <1>1, QuestionTime
<1>3. /\ Sound(g) /\ g.s = t /\ g.base = FALSE /\ g.grillRun = FALSE
      /\ Tidy(t) /\ t.deep = {} /\ Answered(f.s, t, q)
  BY <1>2, AnswerSound, RecordedArms
<1>4. /\ t.repair # "RECOVERY_REQUIRED"
      /\ q.kind = "deep_discovery_fallback" => t.stage \in {"WAIT_USER", "USER_CONFIRMED"}
      /\ t.stage = "USER_CONFIRMED" => t.orch = "USER_CONFIRMED" /\ t.round # {}
  BY <1>2, AnswerStays DEF Sound
<1>5. h = CASE g.s.stage = "WAIT_USER" -> g
            [] g.s.stage # "WAIT_USER" /\ PendingKinds(f) = {"deep_decision"}
                 -> ActivateDeep([g EXCEPT !.s = RetryDeepKnowledge(@)])
            [] OTHER
                 -> ActivateDeep([g EXCEPT !.s = BeginDeepKnowledge(@, "KNOWLEDGE_UNDERSTANDING")])
  BY DEF PrepareDeep
<1> HIDE DEF g, h, t
<1>6. CASE g.s.stage = "WAIT_USER"
  <2>1. h = g
    BY <1>5, <1>6
  <2> QED
    BY <1>3, <2>1, RestArms DEF AtRest, h
<1>7. ASSUME NEW u, Stays(t, u), Tidy(u), NEW v, v = [g EXCEPT !.s = u], h = ActivateDeep(v)
      PROVE  Armed(h)
  <2>1. Sound(v) /\ v.s = u /\ v.base = FALSE /\ v.grillRun = FALSE
    BY <1>3, <1>7, SessionStep
  <2> QED
    BY <1>7, <2>1, ActivateDeepArms
<1>8. CASE g.s.stage # "WAIT_USER" /\ q.kind = "deep_decision"
  <2>1. h = ActivateDeep([g EXCEPT !.s = RetryDeepKnowledge(t)])
    BY <1>2, <1>3, <1>5, <1>8
  <2>2. Stays(t, RetryDeepKnowledge(t)) /\ Tidy(RetryDeepKnowledge(t))
    BY <1>3, <1>4, RetryDeepStays, DeepBegunTidy DEF Sound
  <2> QED
    BY <1>7, <2>1, <2>2 DEF h
<1>9. CASE g.s.stage # "WAIT_USER" /\ q.kind # "deep_decision"
  <2>1. h = ActivateDeep([g EXCEPT !.s = BeginDeepKnowledge(t, "KNOWLEDGE_UNDERSTANDING")])
    BY <1>2, <1>3, <1>5, <1>9
  <2>2. t.stage = "USER_CONFIRMED"
    BY <1>1, <1>3, <1>4, <1>9 DEF DeepKinds
  <2>3. CanBeginDeepKnowledge(t, "KNOWLEDGE_UNDERSTANDING")
    BY <1>4, <2>2 DEF CanBeginDeepKnowledge, CanMove, LegalTransitions
  <2>4. /\ Stays(t, BeginDeepKnowledge(t, "KNOWLEDGE_UNDERSTANDING"))
        /\ Tidy(BeginDeepKnowledge(t, "KNOWLEDGE_UNDERSTANDING"))
    BY <1>3, <1>4, <2>3, BeginDeepStays, DeepBegunTidy DEF Sound, DeepPhases
  <2> QED
    BY <1>7, <2>1, <2>4 DEF h
<1> QED
  BY <1>6, <1>8, <1>9 DEF h

\* resumeBuildAnswer: without a base the build comes to a halt.
LEMMA ResumeBuildArms ==
  ASSUME NEW f, Sound(f), Armed(f), NEW answer \in Answers, PendingKinds(f) \cap BuildKinds # {}
  PROVE  Armed(ResumeBuild(f, answer))
<1> DEFINE t == RecordAnswer(f.s, answer)
           e == [f EXCEPT !.s = RecordAnswer(@, answer)]
           g == [f EXCEPT !.s = RecordAnswer(@, answer),
                          !.dueBuild = {}, !.timerBuild = {}, !.replay = {}]
           h == ResumeBuild(f, answer)
<1>1. PICK q \in f.s.waitUser : q.kind \in BuildKinds
  BY DEF PendingKinds
<1>2. /\ f.s.deep = {} /\ f.grillRun = FALSE /\ Asking(f.s, BuildKinds)
      /\ f.s.stage = "WAIT_USER"
  BY <1>1, QuestionTime
<1>3. Tidy(t) /\ t.deep = {} /\ Answered(f.s, t, q)
  BY <1>2, RecordedArms
<1>4. Fields(g) /\ g.s = t /\ g.grillRun = FALSE /\ g.base = f.base
  <2>1. Sound(e) /\ e.s = t /\ e.base = f.base /\ e.grillRun = f.grillRun
    BY AnswerSound, RecordedArms
  <2>2. g = [e EXCEPT !.dueBuild = {}, !.timerBuild = {}, !.replay = {}]
    BY DEF Sound, Fields, NewForge
  <2> HIDE DEF e, g
  <2> QED
    BY <1>2, <2>1, <2>2 DEF Sound, Fields, NewForge, Slots, AtMostOne
<1>5. h = CASE g.s.stage = "CONTEXT_BUILD" /\ g.base
                 -> [Activate(g, "context") EXCEPT !.dueBuild = Due(g, ContextInvocation(g.s))]
            [] g.s.stage = "ADR_BUILD" /\ g.base
                 -> [Activate(g, "adr") EXCEPT !.dueBuild = Due(g, AdrInvocation(g.s))]
            [] OTHER -> g
  BY DEF ResumeBuild
<1> SUFFICES Armed(h)
  OBVIOUS
<1> HIDE DEF e, g, h, t
<1>6. t = f.s \/ (t.stage = t.orch /\ t.orch \in {"CONTEXT_BUILD", "ADR_BUILD"})
  BY <1>1, <1>3 DEF Answered, BuildKinds
<1>7. ASSUME NEW tools \in {"context", "adr"}, NEW due,
             h = [Activate(g, tools) EXCEPT !.dueBuild = due],
             t.orch = IF tools = "context" THEN "CONTEXT_BUILD" ELSE "ADR_BUILD"
      PROVE  Armed(h)
  <2> DEFINE a == Activate(g, tools)
  <2>1. Fields(a) /\ a.s = t /\ a.active = tools /\ a.grillRun = FALSE
    <3>1. Fields(a)
      BY <1>4, <1>7, ActivateKin DEF Kin, Tools
    <3> QED
      BY <1>4, <3>1 DEF Activate, Fields, NewForge
  <2>2. h = [a EXCEPT !.dueBuild = due]
    BY <1>7
  <2> HIDE DEF a
  <2>3. h.s = t /\ h.active = tools /\ h.grillRun = FALSE
    BY <2>1, <2>2 DEF Fields, NewForge
  <2> QED
    BY <1>3, <1>7, <2>3 DEF Armed
<1>8. CASE t = f.s
  <2>1. h = g
    BY <1>2, <1>4, <1>5, <1>8
  <2> QED
    BY <1>2, <1>3, <1>4, <1>8, <2>1 DEF Armed
<1>9. CASE t # f.s /\ ~g.base
  <2>1. h = g
    BY <1>5, <1>9
  <2> QED
    BY <1>3, <1>4, <1>9, <2>1, RestArms DEF AtRest, Fields
<1>10. CASE t # f.s /\ g.base
  <2>1. CASE t.orch = "CONTEXT_BUILD"
    <3>1. h = [Activate(g, "context") EXCEPT !.dueBuild = Due(g, ContextInvocation(g.s))]
      BY <1>4, <1>5, <1>6, <1>10, <2>1
    <3> QED
      BY <1>7, <2>1, <3>1
  <2>2. CASE t.orch = "ADR_BUILD"
    <3>1. h = [Activate(g, "adr") EXCEPT !.dueBuild = Due(g, AdrInvocation(g.s))]
      BY <1>4, <1>5, <1>6, <1>10, <2>2
    <3> QED
      BY <1>7, <2>2, <3>1
  <2> QED
    BY <1>6, <1>10, <2>1, <2>2
<1> QED
  BY <1>8, <1>9, <1>10

\* Changes that leave alone what the tools depend on.
SameTools(f, g) ==
  g.s = f.s /\ g.active = f.active /\ g.base = f.base /\ g.grillRun = f.grillRun

\* A step that leaves session, tools, base and Grill turn alone keeps the agent armed.
LEMMA SameToolsArm ==
  ASSUME NEW f, Fields(f), Armed(f), NEW g, SameTools(f, g)
  PROVE  Armed(g)
BY DEF Armed, SameTools

\* The fields that have no part in it: deliveries, panels, messages and the gate.
LEMMA OtherFields ==
  ASSUME NEW f, Fields(f), NEW d
  PROVE  /\ SameTools(f, [f EXCEPT !.dueDeep = d]) /\ SameTools(f, [f EXCEPT !.dueBuild = d])
         /\ SameTools(f, [f EXCEPT !.dueDiscovery = d])
         /\ SameTools(f, [f EXCEPT !.timerDeep = d]) /\ SameTools(f, [f EXCEPT !.timerBuild = d])
         /\ SameTools(f, [f EXCEPT !.timerDiscovery = d])
         /\ SameTools(f, [f EXCEPT !.converge = d]) /\ SameTools(f, [f EXCEPT !.request = d])
         /\ \A r : SameTools(f, [f EXCEPT !.dueBuild = d, !.replayed = r])
         /\ SameTools(f, Remembered(f, d)) /\ SameTools(f, ForgetSent(f))
         /\ SameTools(f, AgentSettled(f)) /\ SameTools(f, MessageStart(f, d))
BY DEF Fields, NewForge, SameTools, Remembered, ForgetSent, AgentSettled, MessageStart

-----------------------------------------------------------------------------
(* The actions, and the tools.                                             *)

\* The answer to a question, given on a panel or by a command,
LEMMA ResumeAnswerArms ==
  ASSUME IInv, Armed(forge), NEW answer \in Answers, NEW relevant \in BOOLEAN,
         ResumeAnswer(answer, relevant)
  PROVE  Armed(forge')
<1> DEFINE kinds == PendingKinds(forge)
           deep  == PrepareDeep(forge, answer)
           grill == ResumeGrill(forge, answer, relevant)
<1>1. Sound(forge)
  BY DEF IInv
<1>2. \A q \in forge.s.waitUser : kinds = {q.kind}
  BY <1>1, OneKind
<1>3. CASE kinds \cap BuildKinds # {}
  <2>1. PICK q \in forge.s.waitUser : q.kind \in BuildKinds
    BY <1>3 DEF PendingKinds
  <2>2. kinds = {q.kind}
    BY <1>2
  <2>3. kinds # {"deep_discovery_fallback"} /\ kinds \cap DeepKinds = {}
    BY <2>1, <2>2 DEF BuildKinds, DeepKinds
  <2>4. forge' = ResumeBuild(forge, answer)
    BY <1>3, <2>3 DEF ResumeAnswer, Becomes
  <2> QED
    BY <1>1, <1>3, <2>4, ResumeBuildArms
<1>4. CASE kinds = {"deep_discovery_fallback"} /\ answer = "cancel"
  <2>1. kinds \cap BuildKinds = {}
    BY <1>4 DEF BuildKinds
  <2>2. forge' = Cancel(forge)
    BY <1>4, <2>1 DEF ResumeAnswer, Becomes
  <2> QED
    BY <1>1, <2>2, CancelArms
<1>5. CASE kinds \cap DeepKinds # {} /\ ~(kinds = {"deep_discovery_fallback"} /\ answer = "cancel")
  <2> DEFINE due == [deep EXCEPT !.dueDeep = Due(deep, Resumed(forge, deep))]
  <2>1. PICK q \in forge.s.waitUser : q.kind \in DeepKinds
    BY <1>5 DEF PendingKinds
  <2>2. kinds = {q.kind}
    BY <1>2
  <2>3. kinds \cap BuildKinds = {}
    BY <2>1, <2>2 DEF BuildKinds, DeepKinds
  <2>4. forge' = deep \/ forge' = due
    BY <1>5, <2>3 DEF ResumeAnswer, Becomes
  <2>5. Armed(deep) /\ Fields(deep)
    BY <1>1, <1>5, PrepareDeepArms, PrepareDeepSound DEF Sound
  <2> HIDE DEF deep
  <2>6. Armed(due)
    BY <2>5, OtherFields, SameToolsArm
  <2> QED
    BY <2>4, <2>5, <2>6
<1>6. CASE kinds \cap (DeepKinds \cup BuildKinds) = {}
  <2>1. kinds # {"deep_discovery_fallback"}
    BY <1>6 DEF DeepKinds
  <2>2. forge' = grill \/ \E inv \in Resumed(forge, grill) : SendFollowUp(grill, inv)
    <3>1. CASE Resumed(forge, grill) = {}
      BY <1>6, <2>1, <3>1 DEF ResumeAnswer, Becomes
    <3>2. CASE Resumed(forge, grill) # {}
      BY <1>6, <2>1, <3>2 DEF ResumeAnswer
    <3> QED
      BY <3>1, <3>2
  <2>3. Sound(grill) /\ Armed(grill)
    BY <1>1, <1>6, ResumeGrillSound, ResumeGrillArms
  <2> HIDE DEF grill
  <2> QED
    BY <2>2, <2>3, SendArms
<1> QED
  BY <1>3, <1>4, <1>5, <1>6

\* or typed.
LEMMA TypeAnswerArms ==
  ASSUME IInv, Armed(forge), NEW answer \in Answers, NEW relevant \in BOOLEAN,
         TypeAnswer(answer, relevant)
  PROVE  Armed(forge')
<1> DEFINE kinds == PendingKinds(forge)
           built == ResumeBuild(forge, answer)
           f == CASE kinds \cap BuildKinds # {} -> [built EXCEPT !.dueBuild = {}]
                  [] kinds \cap DeepKinds # {}  -> PrepareDeep(forge, answer)
                  [] OTHER                      -> ResumeGrill(forge, answer, relevant)
           g == Remembered(f, The(built.dueBuild))
<1>1. forge' = f \/ forge' = g
  BY DEF TypeAnswer, Becomes
<1>2. Sound(forge)
  BY DEF IInv
<1>3. kinds \cap BuildKinds # {} => kinds \cap DeepKinds = {}
  <2> SUFFICES ASSUME kinds \cap BuildKinds # {} PROVE kinds \cap DeepKinds = {}
    OBVIOUS
  <2>1. PICK q \in forge.s.waitUser : q.kind \in BuildKinds
    BY DEF PendingKinds
  <2> QED
    BY <1>2, <2>1, OneKind DEF BuildKinds, DeepKinds
<1>4. Fields(f) /\ Armed(f)
  <2>1. CASE kinds \cap BuildKinds # {}
    <3>1. f = [built EXCEPT !.dueBuild = {}]
      BY <1>3, <2>1
    <3>2. Fields(built) /\ Armed(built)
      BY <1>2, <2>1, ResumeBuildSound, ResumeBuildArms DEF Sound
    <3> HIDE DEF built, f
    <3>3. Fields(f)
      BY <3>1, <3>2 DEF Fields, NewForge, Slots, AtMostOne
    <3> QED
      BY <3>1, <3>2, <3>3, OtherFields, SameToolsArm
  <2>2. CASE kinds \cap BuildKinds = {} /\ kinds \cap DeepKinds # {}
    <3>1. f = PrepareDeep(forge, answer)
      BY <2>2
    <3> QED
      BY <1>2, <2>2, <3>1, PrepareDeepSound, PrepareDeepArms DEF Sound
  <2>3. CASE kinds \cap BuildKinds = {} /\ kinds \cap DeepKinds = {}
    <3>1. f = ResumeGrill(forge, answer, relevant)
      BY <2>3
    <3>2. kinds \cap (DeepKinds \cup BuildKinds) = {}
      BY <2>3
    <3> QED
      BY <1>2, <2>3, <3>1, <3>2, ResumeGrillSound, ResumeGrillArms DEF Sound
  <2> QED
    BY <2>1, <2>2, <2>3
<1> HIDE DEF f
<1>5. Armed(g)
  BY <1>4, OtherFields, SameToolsArm
<1> QED
  BY <1>1, <1>4, <1>5

\* The session alone changes.
LEMMA SessionSet ==
  ASSUME NEW f, Fields(f), NEW t
  PROVE  LET g == [f EXCEPT !.s = t]
         IN  /\ Fields(g) /\ g.s = t /\ g.active = f.active
             /\ g.base = f.base /\ g.grillRun = f.grillRun
BY DEF Fields, NewForge, Slots, AtMostOne

\* The tools are given back.
LEMMA GivenBack ==
  ASSUME NEW f, Fields(f)
  PROVE  LET g == Restore(f)
         IN  Fields(g) /\ g.s = f.s /\ g.base = f.base /\ g.grillRun = f.grillRun
BY RestoreKin, ToolsShown DEF Kin

\* A turn of the Grill, an attempt of Deep Knowledge and a build, as the agent finds them.
LEMMA GrillTurn ==
  ASSUME IInv, Armed(forge), GrillLive(forge)
  PROVE  /\ Sound(forge) /\ forge.s.orch = "GRILL" /\ forge.s.deep = {} /\ forge.base = FALSE
         /\ forge.active = "grill" /\ forge.s.repair = "none" /\ Tidy(forge.s)
         /\ Healthy(forge.s) /\ Fields(forge)
<1>1. Sound(forge) /\ Tidy(forge.s) /\ forge.active = "grill" /\ forge.s.repair = "none"
  BY GrillIsLive DEF Armed, GrillLive
<1>2. forge.s.orch = "GRILL"
  BY <1>1 DEF Tidy, GrillLive
<1> QED
  BY <1>1, <1>2, GrillTime DEF Sound

\* In an attempt of Deep Knowledge nothing else goes on, and panel and orchestrator agree.
LEMMA DeepTurn ==
  ASSUME IInv, Armed(forge), DeepGate(forge)
  PROVE  /\ Sound(forge) /\ Healthy(forge.s) /\ Fields(forge) /\ Tidy(forge.s)
         /\ forge.base = FALSE /\ forge.grillRun = FALSE
         /\ forge.s.orch = forge.s.stage /\ forge.s.stage \in DeepPhases
         /\ forge.s.repair # "RECOVERY_REQUIRED"
<1>1. Sound(forge) /\ Healthy(forge.s) /\ forge.s.deep # {} /\ forge.s.stage \in DeepPhases
  BY DeepIsLive
<1> QED
  BY <1>1, DeepTime, StageShown DEF Sound, Armed

\* In a build too.
LEMMA BuildTurn ==
  ASSUME IInv, Armed(forge), BuildGate(forge)
  PROVE  /\ Sound(forge) /\ Healthy(forge.s) /\ Fields(forge) /\ Tidy(forge.s)
         /\ forge.s.deep = {} /\ forge.grillRun = FALSE
         /\ forge.s.repair # "RECOVERY_REQUIRED"
<1>1. Sound(forge) /\ Tidy(forge.s) /\ forge.s.stage \in {"CONTEXT_BUILD", "ADR_BUILD"}
  BY DEF IInv, Armed, BuildGate, BuildLive
<1>2. forge.s.orch = forge.s.stage
  BY <1>1 DEF Tidy
<1> QED
  BY <1>1, <1>2, BuildTime DEF Sound, Tidy

\* The Grill: a question leaves the tools, for the answer begins the next turn,
LEMMA GrillAsksArms ==
  ASSUME IInv, Armed(forge), NEW d, GrillAsks(d)
  PROVE  Armed(forge')
<1> DEFINE q == [kind |-> "grill_confirmation", round |-> The(forge.s.round).id, id |-> d]
           s == IF CanRequireWaitUser(forge.s, q) THEN RequireWaitUser(forge.s, q) ELSE forge.s
           h == [forge EXCEPT !.s = s, !.grillRun = s.stage \in {"GRILL", "WAIT_USER"}]
<1>1. GrillLive(forge) /\ forge' = h
  BY DEF GrillAsks, Asks, Becomes
<1>2. /\ Healthy(forge.s) /\ Fields(forge) /\ Tidy(forge.s) /\ forge.s.deep = {}
      /\ forge.s.orch = "GRILL" /\ forge.base = FALSE /\ forge.active = "grill"
  BY <1>1, GrillTurn
<1>3. q.kind = "grill_confirmation"
  OBVIOUS
<1> HIDE DEF q
<1>4. s = forge.s \/ AsksOnly(s, "grill_confirmation")
  BY <1>2, <1>3, GrillCallsTidy
<1> HIDE DEF s
<1>5. Tidy(s) /\ s.deep = {} /\ (s.orch = "GRILL" \/ Asking(s, GrillKinds))
  BY <1>2, <1>4, AsksTidy DEF GrillKinds, AsksOnly
<1>6. h.s = s /\ h.base = FALSE /\ h.active = "grill"
  BY <1>2 DEF Fields, NewForge
<1> HIDE DEF h
<1> QED
  BY <1>1, <1>5, <1>6, GrillArms

\* the way into Deep Knowledge changes them,
LEMMA GrillReadyArms ==
  ASSUME IInv, Armed(forge), NEW premised, GrillReady(premised)
  PROVE  Armed(forge')
<1> DEFINE r == The(forge.s.round).id
           f == [forge EXCEPT !.converge = {}]
           q == [kind |-> "relevance_clarification", round |-> r, id |-> <<"relevance", r>>]
           g == EnterDeep(f)
           h == [f EXCEPT !.s = RequireWaitUser(@, q)]
           due == [g EXCEPT !.dueDeep = Due(g, DeepInvocation(g.s))]
<1>1. /\ GrillLive(forge)
      /\ \/ CanBeginDeepKnowledge(forge.s, "DEEP_KNOWLEDGE_RETRIEVAL") /\ forge' = due
         \/ forge' = f
         \/ forge' = h
  BY DEF GrillReady, Does, Asks, Becomes
<1>2. /\ Healthy(forge.s) /\ Fields(forge) /\ Tidy(forge.s) /\ forge.s.deep = {}
      /\ forge.s.orch = "GRILL" /\ forge.base = FALSE /\ forge.active = "grill"
      /\ forge.s.repair = "none" /\ Sound(forge)
  BY <1>1, GrillTurn
<1>3. q.kind = "relevance_clarification"
  OBVIOUS
<1> HIDE DEF q
<1>4. SameTools(forge, f) /\ Sound(f)
  <2>1. Kin(forge, f)
    BY <1>2 DEF Kin, Fields, NewForge, Slots, AtMostOne
  <2> QED
    BY <1>2, <2>1, OtherFields, KinSound
<1> HIDE DEF f
<1>5. Fields(f) /\ f.s = forge.s /\ f.base = FALSE /\ f.active = "grill"
  BY <1>2, <1>4 DEF Sound, SameTools
<1>6. CASE CanBeginDeepKnowledge(forge.s, "DEEP_KNOWLEDGE_RETRIEVAL") /\ forge' = due
  <2>1. Fields(g) /\ Armed(g)
    BY <1>2, <1>4, <1>5, <1>6, EnterDeepSound, EnterDeepArms DEF Sound
  <2> HIDE DEF g
  <2> QED
    BY <1>6, <2>1, OtherFields, SameToolsArm
<1>7. CASE forge' = f
  BY <1>2, <1>4, <1>7, SameToolsArm
<1>8. CASE forge' = h
  <2> DEFINE t == RequireWaitUser(forge.s, q)
  <2>1. t = forge.s \/ AsksOnly(t, "relevance_clarification")
    BY <1>2, <1>3, GrillCallsTidy
  <2>2. h = [f EXCEPT !.s = t]
    BY <1>5
  <2> HIDE DEF t, h
  <2>3. Tidy(t) /\ t.deep = {} /\ (t.orch = "GRILL" \/ Asking(t, GrillKinds))
    BY <1>2, <2>1, AsksTidy DEF GrillKinds, AsksOnly
  <2>4. h.s = t /\ h.base = FALSE /\ h.active = "grill"
    BY <1>5, <2>2, SessionSet
  <2> QED
    BY <1>8, <2>3, <2>4, GrillArms
<1> QED
  BY <1>1, <1>6, <1>7, <1>8

\* and a turn without a completion gives them back.
LEMMA GrillOmittedArms ==
  ASSUME IInv, Armed(forge), GrillOmitted
  PROVE  Armed(forge')
<1> DEFINE t == RecordCompletionOmission(forge.s)
           g == [forge EXCEPT !.s = RecordCompletionOmission(@)]
           c == ClearPending(g)
<1>1. GrillLive(forge) /\ forge' = Restore(c)
  BY DEF GrillOmitted, Does, Becomes
<1>2. /\ Healthy(forge.s) /\ Fields(forge) /\ Tidy(forge.s) /\ forge.s.deep = {}
      /\ forge.s.orch = "GRILL"
  BY <1>1, GrillTurn
<1>3. Tidy(t) /\ t.deep = {}
  BY <1>2, GrillCallsTidy
<1>4. Fields(g) /\ g.s = t
  BY <1>2, SessionSet
<1> HIDE DEF t, g
<1>5. Fields(c) /\ c.s = t /\ c.base = FALSE /\ c.grillRun = FALSE
  BY <1>4, ClearPendingKin, ToolsShown
<1> HIDE DEF c
<1>6. LET h == Restore(c) IN h.s = t /\ h.base = FALSE /\ h.grillRun = FALSE
  BY <1>5, GivenBack
<1> QED
  BY <1>1, <1>3, <1>6, RestArms DEF AtRest

\* Deep Knowledge: a batch of searches and the questions,
LEMMA DeepQuestionArms ==
  ASSUME IInv, Armed(forge), SearchBatch \/ TargetUnclear \/ \E d \in DecisionIds : DeepAsks(d)
  PROVE  Armed(forge')
<1>1. CASE SearchBatch
  BY <1>1, SendArms DEF SearchBatch, IInv
<1>2. CASE TargetUnclear \/ \E d \in DecisionIds : DeepAsks(d)
  <2>1. PICK a \in forge.s.deep : \E d :
          DeepGate(forge) /\ forge' = Restore([forge EXCEPT !.s = NeedDecision(@, a, d)])
    BY <1>2 DEF TargetUnclear, DeepAsks, Does, Asks, Becomes
  <2>2. PICK d : forge' = Restore([forge EXCEPT !.s = NeedDecision(@, a, d)])
    BY <2>1
  <2>3. /\ Healthy(forge.s) /\ Fields(forge) /\ forge.base = FALSE /\ forge.grillRun = FALSE
        /\ forge.s.repair # "RECOVERY_REQUIRED"
    BY <2>1, DeepTurn
  <2> DEFINE t == NeedDecision(forge.s, a, d)
             e == [forge EXCEPT !.s = t]
  <2>4. AsksOnly(t, "deep_decision") /\ forge' = Restore(e)
    BY <2>2, <2>3, DeepResultTidy
  <2>5. Tidy(t) /\ t.deep = {}
    BY <2>4, AsksTidy DEF AsksOnly
  <2> HIDE DEF t
  <2>6. Fields(e) /\ e.s = t /\ e.base = FALSE /\ e.grillRun = FALSE
    BY <2>3, SessionSet
  <2> HIDE DEF e
  <2>7. LET h == Restore(e) IN h.s = t /\ h.base = FALSE /\ h.grillRun = FALSE
    BY <2>6, GivenBack
  <2> QED
    BY <2>4, <2>5, <2>7, RestArms DEF AtRest
<1> QED
  BY <1>1, <1>2

\* the completion of the retrieval,
LEMMA RetrievalCompleteArms ==
  ASSUME IInv, Armed(forge), RetrievalComplete
  PROVE  Armed(forge')
<1>1. PICK a \in forge.s.deep :
        LET f == ActivateUnderstanding([forge EXCEPT !.s = CompleteDeepRetrieval(@, a, {})])
        IN  DeepGate(forge) /\ forge' = [f EXCEPT !.dueDeep = Due(f, DeepInvocation(f.s))]
  BY DEF RetrievalComplete, Does, Becomes
<1> DEFINE t == CompleteDeepRetrieval(forge.s, a, {})
           g == [forge EXCEPT !.s = t]
           f == ActivateUnderstanding(g)
           due == [f EXCEPT !.dueDeep = Due(f, DeepInvocation(f.s))]
<1>2. forge' = due /\ DeepGate(forge)
  BY <1>1
<1>3. /\ Healthy(forge.s) /\ Fields(forge) /\ forge.base = FALSE /\ forge.grillRun = FALSE
      /\ forge.s.repair # "RECOVERY_REQUIRED"
  BY <1>2, DeepTurn
<1>4. Tidy(t) /\ \A b \in t.deep : b.phase = "KNOWLEDGE_UNDERSTANDING"
  BY <1>3, DeepResultTidy
<1> HIDE DEF t
<1>5. Fields(g) /\ g.s = t /\ g.base = FALSE /\ g.grillRun = FALSE
  BY <1>3, SessionSet
<1> HIDE DEF g
<1>6. Fields(f) /\ f.s = t /\ f.active = "understanding" /\ f.base = FALSE /\ f.grillRun = FALSE
  BY <1>5, UnderstandingKin, ToolsShown DEF Kin
<1> HIDE DEF f
<1>7. Armed(f)
  BY <1>4, <1>6, DeepArms DEF ToolsOf
<1> QED
  BY <1>2, <1>6, <1>7, OtherFields, SameToolsArm

\* the lack of sources,
LEMMA DeepNeedsDiscoveryArms ==
  ASSUME IInv, Armed(forge), NEW relevant \in BOOLEAN, DeepNeedsDiscovery(relevant)
  PROVE  Armed(forge')
<1>1. PICK a \in forge.s.deep :
        LET f == Restore([forge EXCEPT !.s = NeedDiscovery(@, a)])
            g == OpenGrill(f, relevant)
        IN  /\ DeepGate(forge)
            /\ IF f.s.stage = "WAIT_USER" THEN forge' = f
               ELSE forge' = [g EXCEPT !.dueDiscovery = Due(g, RoundInvocation(g.s))]
  BY DEF DeepNeedsDiscovery, Asks, Does, Becomes
<1> DEFINE t == NeedDiscovery(forge.s, a)
           e == [forge EXCEPT !.s = t]
           f == Restore(e)
           g == OpenGrill(f, relevant)
           due == [g EXCEPT !.dueDiscovery = Due(g, RoundInvocation(g.s))]
<1>2. /\ DeepGate(forge)
      /\ IF f.s.stage = "WAIT_USER" THEN forge' = f ELSE forge' = due
  BY <1>1
<1>3. /\ Sound(forge) /\ Healthy(forge.s) /\ Fields(forge) /\ forge.base = FALSE
      /\ forge.grillRun = FALSE /\ forge.s.repair # "RECOVERY_REQUIRED"
      /\ forge.s.orch = forge.s.stage /\ forge.s.stage \in DeepPhases
  BY <1>2, DeepTurn
<1>4. Stays(forge.s, t) /\ t.repair = forge.s.repair /\ t.nextRound = forge.s.nextRound
      /\ (t.stage # "WAIT_USER" => t.orch = "LIGHT_DISCOVERY")
  BY <1>3, NeedDiscoveryStays
<1>5. t.stage = t.orch /\ t.deep = {}
  <2>1. CanMove(forge.s.orch, "WAIT_USER") /\ CanMove(forge.s.orch, "LIGHT_DISCOVERY")
    BY <1>3 DEF CanMove, LegalTransitions, DeepPhases
  <2> QED
    BY <1>3, <2>1 DEF NeedDiscovery, Ask, MoveTo, Healthy, Good, WellFormed, IsSession, NewSession
<1>6. Tidy(t) /\ Healthy(t)
  BY <1>3, <1>4, <1>5 DEF Tidy, Stays
<1> HIDE DEF t
<1>7. Fields(e) /\ e.s = t /\ e.base = FALSE /\ e.grillRun = FALSE
  BY <1>3, SessionSet
<1> HIDE DEF e
<1>8. Fields(f) /\ f.s = t /\ f.base = FALSE /\ f.grillRun = FALSE
  BY <1>7, GivenBack
<1> HIDE DEF f
<1>9. CASE f.s.stage = "WAIT_USER"
  BY <1>2, <1>5, <1>6, <1>8, <1>9, RestArms DEF AtRest
<1>10. CASE f.s.stage # "WAIT_USER"
  <2>1. CanBeginLightDiscovery(f.s) /\ f.s.repair # "RECOVERY_REQUIRED"
    BY <1>3, <1>4, <1>8, <1>10 DEF CanBeginLightDiscovery
  <2>2. Fields(g) /\ Armed(g)
    BY <1>6, <1>8, <2>1, OpenGrillSound, GrillBegunArms DEF Sound
  <2> HIDE DEF g
  <2> QED
    BY <1>2, <1>10, <2>2, OtherFields, SameToolsArm
<1> QED
  BY <1>9, <1>10

\* and the completion of the understanding, with the documents captured or not.
LEMMA UnderstandingCompleteArms ==
  ASSUME IInv, Armed(forge), NEW captured, UnderstandingComplete(captured)
  PROVE  Armed(forge')
<1>1. PICK a \in forge.s.deep :
        LET f == Restore([forge EXCEPT !.s = CompleteUnderstanding(@, a)])
            g == Activate(f, "context")
        IN  /\ DeepGate(forge)
            /\ \/ forge' = [g EXCEPT !.base = TRUE, !.dueBuild = Due(g, ContextInvocation(g.s))]
               \/ forge' = f
  BY DEF UnderstandingComplete, Does, Becomes
<1> DEFINE t == CompleteUnderstanding(forge.s, a)
           e == [forge EXCEPT !.s = t]
           f == Restore(e)
           g == Activate(f, "context")
           due == [g EXCEPT !.base = TRUE, !.dueBuild = Due(g, ContextInvocation(g.s))]
<1>2. DeepGate(forge) /\ (forge' = due \/ forge' = f)
  BY <1>1
<1>3. /\ Healthy(forge.s) /\ Fields(forge) /\ forge.base = FALSE /\ forge.grillRun = FALSE
      /\ forge.s.repair # "RECOVERY_REQUIRED"
  BY <1>2, DeepTurn
<1>4. Tidy(t) /\ t.deep = {} /\ t.orch = "CONTEXT_BUILD"
  BY <1>3, DeepResultTidy
<1> HIDE DEF t
<1>5. Fields(e) /\ e.s = t /\ e.base = FALSE /\ e.grillRun = FALSE
  BY <1>3, SessionSet
<1> HIDE DEF e
<1>6. Fields(f) /\ f.s = t /\ f.base = FALSE /\ f.grillRun = FALSE
  BY <1>5, GivenBack
<1> HIDE DEF f
<1>7. CASE forge' = f
  BY <1>4, <1>6, <1>7, RestArms DEF AtRest
<1>8. CASE forge' = due
  <2>1. Fields(g)
    BY <1>6, ActivateKin DEF Kin, Tools
  <2>2. g.s = t /\ g.active = "context" /\ g.grillRun = FALSE
    BY <1>6, <2>1 DEF Activate, Fields, NewForge
  <2> HIDE DEF g
  <2>3. due.s = t /\ due.active = "context" /\ due.grillRun = FALSE
    BY <2>1, <2>2 DEF Fields, NewForge
  <2> QED
    BY <1>4, <1>8, <2>3 DEF Armed
<1> QED
  BY <1>2, <1>7, <1>8

\* The builds: their questions,
LEMMA BuildQuestionArms ==
  ASSUME IInv, Armed(forge), NEW d, ContextAsks(d) \/ AdrAsks(d)
  PROVE  Armed(forge')
<1>1. BuildGate(forge)
  BY DEF ContextAsks, AdrAsks
<1>2. /\ Healthy(forge.s) /\ Fields(forge) /\ Tidy(forge.s) /\ forge.s.deep = {}
      /\ forge.grillRun = FALSE /\ forge.s.repair # "RECOVERY_REQUIRED"
  BY <1>1, BuildTurn
<1>3. PICK b :
        \/ forge' = Restore(ForgetSent([forge EXCEPT !.s = ContextAmbiguous(@, b, d)]))
        \/ forge' = Restore([forge EXCEPT !.s = RequireAdrDecision(@, b, d)])
  BY DEF ContextAsks, AdrAsks, Asks, Becomes
<1>4. ASSUME NEW t, NEW kind \in BuildKinds, AsksOnly(t, kind),
             \/ forge' = Restore(ForgetSent([forge EXCEPT !.s = t]))
             \/ forge' = Restore([forge EXCEPT !.s = t])
      PROVE  Armed(forge')
  <2> DEFINE e == [forge EXCEPT !.s = t]
  <2>1. PICK f \in {e, ForgetSent(e)} : forge' = Restore(f)
    BY <1>4
  <2>2. Fields(e) /\ e.s = t /\ e.grillRun = FALSE
    BY <1>2, SessionSet
  <2> HIDE DEF e
  <2>3. Fields(f) /\ f.s = t /\ f.grillRun = FALSE
    BY <2>2, ForgetSentKin, OtherFields DEF Kin, SameTools
  <2>4. forge'.s = t /\ forge'.grillRun = FALSE
    BY <2>1, <2>3, GivenBack
  <2>5. Tidy(t) /\ t.deep = {} /\ Asking(t, BuildKinds)
    BY <1>4, AsksTidy DEF AsksOnly
  <2> QED
    BY <2>4, <2>5 DEF Armed
<1>5. /\ AsksOnly(ContextAmbiguous(forge.s, b, d), "context_ambiguity")
      /\ AsksOnly(RequireAdrDecision(forge.s, b, d), "adr_ambiguity")
  BY <1>2, BuildCallsTidy
<1> QED
  BY <1>3, <1>4, <1>5 DEF BuildKinds

\* their completions, of the Context
LEMMA ContextCompleteArms ==
  ASSUME IInv, Armed(forge), ContextComplete
  PROVE  Armed(forge')
<1>1. PICK b \in forge.s.context :
        LET f == ForgetSent([forge EXCEPT !.s = CompleteContextBuild(@, b)])
            g == Activate(f, "adr")
        IN  /\ BuildGate(forge)
            /\ IF forge.base THEN forge' = [g EXCEPT !.dueBuild = Due(g, AdrInvocation(g.s))]
                             ELSE forge' = Restore(f)
  BY DEF ContextComplete, Does, Becomes
<1> DEFINE t == CompleteContextBuild(forge.s, b)
           e == [forge EXCEPT !.s = t]
           f == ForgetSent(e)
           g == Activate(f, "adr")
           due == [g EXCEPT !.dueBuild = Due(g, AdrInvocation(g.s))]
<1>2. BuildGate(forge) /\ IF forge.base THEN forge' = due ELSE forge' = Restore(f)
  BY <1>1
<1>3. /\ Healthy(forge.s) /\ Fields(forge) /\ Tidy(forge.s) /\ forge.s.deep = {}
      /\ forge.grillRun = FALSE /\ forge.s.repair # "RECOVERY_REQUIRED"
  BY <1>2, BuildTurn
<1>4. Tidy(t) /\ t.deep = {} /\ t.orch = "ADR_BUILD"
  BY <1>3, BuildCallsTidy
<1> HIDE DEF t
<1>5. Fields(e) /\ e.s = t /\ e.base = forge.base /\ e.grillRun = FALSE
  BY <1>3, SessionSet
<1> HIDE DEF e
<1>6. Fields(f) /\ f.s = t /\ f.base = forge.base /\ f.grillRun = FALSE
  BY <1>5, ForgetSentKin, OtherFields DEF Kin, SameTools
<1> HIDE DEF f
<1>7. CASE forge.base
  <2>1. Fields(g)
    BY <1>6, ActivateKin DEF Kin, Tools
  <2>2. g.s = t /\ g.active = "adr" /\ g.grillRun = FALSE
    BY <1>6, <2>1 DEF Activate, Fields, NewForge
  <2> HIDE DEF g
  <2>3. due.s = t /\ due.active = "adr" /\ due.grillRun = FALSE
    BY <2>1, <2>2 DEF Fields, NewForge
  <2> HIDE DEF due
  <2> QED
    BY <1>2, <1>4, <1>7, <2>3 DEF Armed
<1>8. CASE ~forge.base
  <2>1. LET h == Restore(f) IN h.s = t /\ h.base = FALSE /\ h.grillRun = FALSE
    BY <1>3, <1>6, <1>8, GivenBack DEF Fields
  <2> QED
    BY <1>2, <1>4, <1>8, <2>1, RestArms DEF AtRest
<1> QED
  BY <1>7, <1>8

\* and of the ADR,
LEMMA AdrCompleteArms ==
  ASSUME IInv, Armed(forge), NEW committed, AdrComplete(committed)
  PROVE  Armed(forge')
<1> DEFINE t == PrepareAdrBuild(forge.s)
           u == FinalizeAdrBuild(t)
           f == [forge EXCEPT !.s = t]
           g == [forge EXCEPT !.s = u, !.base = FALSE]
<1>1. BuildGate(forge)
  BY DEF AdrComplete
<1>2. /\ Sound(forge) /\ Healthy(forge.s) /\ Fields(forge) /\ Tidy(forge.s)
      /\ forge.s.deep = {} /\ forge.grillRun = FALSE /\ forge.s.repair # "RECOVERY_REQUIRED"
  BY <1>1, BuildTurn
<1>3. [[forge EXCEPT !.s = PrepareAdrBuild(@)] EXCEPT !.s = FinalizeAdrBuild(@), !.base = FALSE] = g
  BY <1>2 DEF Fields, NewForge
<1>4. forge' = Restore(g) \/ forge' = f
  BY <1>3 DEF AdrComplete, Does, Becomes
<1>5. Tidy(t) /\ t.deep = {} /\ t.orch = forge.s.orch /\ Tidy(u) /\ u.deep = {}
  BY <1>2, BuildCallsTidy
<1>6. t.waitUser = forge.s.waitUser
  BY <1>2 DEF PrepareAdrBuild, Healthy, Good, WellFormed, IsSession, NewSession
<1> HIDE DEF t, u
<1>7. CASE forge' = f
  <2>1. f.s = t /\ f.active = forge.active /\ f.base = forge.base /\ f.grillRun = FALSE
    BY <1>2, SessionSet
  <2> HIDE DEF f
  <2> QED
    BY <1>5, <1>6, <1>7, <2>1 DEF Armed, Asking
<1>8. CASE forge' = Restore(g)
  <2>1. Fields(g) /\ g.s = u /\ g.base = FALSE /\ g.grillRun = FALSE
    BY <1>2 DEF Fields, NewForge, Slots, AtMostOne
  <2> HIDE DEF g
  <2>2. LET h == Restore(g) IN h.s = u /\ h.base = FALSE /\ h.grillRun = FALSE
    BY <2>1, GivenBack
  <2> QED
    BY <1>5, <1>8, <2>2, RestArms DEF AtRest
<1> QED
  BY <1>4, <1>7, <1>8

\* and an identity that is stale.
LEMMA ContextStaleArms ==
  ASSUME IInv, Armed(forge), ContextStale
  PROVE  Armed(forge')
<1>1. PICK l : forge' = [forge EXCEPT !.dueBuild = {l}, !.replayed = {l.inv[2]}]
  BY DEF ContextStale, Does, Becomes
<1> QED
  BY <1>1, OtherFields, SameToolsArm DEF IInv, Sound

\* So every step of the agent keeps it armed.
LEMMA AgentArms ==
  ASSUME IInv, Armed(forge), Agent
  PROVE  Armed(forge')
<1>1. Relevances \subseteq BOOLEAN
  BY InterfaceAssumption
<1> QED
  BY <1>1, GrillAsksArms, GrillReadyArms, GrillOmittedArms, DeepQuestionArms,
     RetrievalCompleteArms, DeepNeedsDiscoveryArms, UnderstandingCompleteArms,
     ContextStaleArms, BuildQuestionArms, ContextCompleteArms, AdrCompleteArms
  DEF Agent

\* The host leaves the tools alone.
LEMMA HostArms ==
  ASSUME IInv, Armed(forge), Host
  PROVE  Armed(forge')
<1>1. Sound(forge) /\ Fields(forge)
  BY DEF IInv, Sound
<1>2. CASE Deliver \/ Settle
  BY <1>1, <1>2, OtherFields, SameToolsArm DEF Deliver, Settle
<1>3. \A f \in {[forge EXCEPT !.timerDeep = {}], [forge EXCEPT !.timerBuild = {}],
                [forge EXCEPT !.timerDiscovery = {}]} :
        Sound(f) /\ Fields(f) /\ Armed(f)
  <2>1. ASSUME NEW f \in {[forge EXCEPT !.timerDeep = {}], [forge EXCEPT !.timerBuild = {}],
                          [forge EXCEPT !.timerDiscovery = {}]}
        PROVE  Armed(f)
    BY <1>1, <2>1, OtherFields, SameToolsArm
  <2> QED
    BY <2>1, TimerTaken DEF Follows
<1>4. CASE FireDeepTimer
  <2> DEFINE f == [forge EXCEPT !.timerDeep = {}]
  <2>1. forge' = f \/ \E inv : SendNow(f, inv)
    BY <1>4 DEF FireDeepTimer, Becomes
  <2>2. Sound(f) /\ Armed(f)
    BY <1>3
  <2> HIDE DEF f
  <2> QED
    BY <2>1, <2>2, SendArms
<1>5. CASE FireBuildTimer
  <2> DEFINE f == [forge EXCEPT !.timerBuild = {}]
             g(d) == Remembered(f, d)
  <2>1. forge' = f \/ \E d \in forge.timerBuild : \E inv : SendNow(g(d), inv)
    BY <1>5 DEF FireBuildTimer, Becomes
  <2>2. Sound(f) /\ Fields(f) /\ Armed(f)
    BY <1>3
  <2>3. forge.timerBuild \subseteq Deliveries
    BY <1>1 DEF Fields, Slots
  <2> HIDE DEF f
  <2>4. \A d \in forge.timerBuild : Sound(g(d)) /\ Armed(g(d))
    BY <2>2, <2>3, RememberedKin, KinSound, OtherFields, SameToolsArm
  <2> HIDE DEF g
  <2> QED
    BY <2>1, <2>2, <2>4, SendArms
<1>6. CASE FireDiscoveryTimer
  <2> DEFINE f == [forge EXCEPT !.timerDiscovery = {}]
  <2>1. forge' = f \/ \E inv : SendNow(f, inv)
    BY <1>6 DEF FireDiscoveryTimer, Becomes
  <2>2. Sound(f) /\ Armed(f)
    BY <1>3
  <2> HIDE DEF f
  <2> QED
    BY <2>1, <2>2, SendArms
<1> QED
  BY <1>2, <1>4, <1>5, <1>6 DEF Host

\* A request begins a workflow while none runs,
LEMMA BeginArms ==
  ASSUME IInv, Armed(forge), NEW relevant \in BOOLEAN, Begin(relevant)
  PROVE  Armed(forge')
<1> DEFINE t == BeginIntent(forge.s)
           v == [forge EXCEPT !.s = t, !.request = FALSE]
           g == [forge EXCEPT !.request = FALSE]
<1>1. Sound(forge) /\ Healthy(forge.s) /\ Fields(forge)
  BY DEF IInv, Sound
<1>2. \/ CanBeginIntent(forge.s) /\ forge' = OpenGrill(v, relevant)
      \/ forge' = g
  BY DEF Begin, Becomes
<1>3. CASE CanBeginIntent(forge.s) /\ forge' = OpenGrill(v, relevant)
  <2>1. forge.s.orch \in {"RECEIVE", "INTENT_UNDERSTANDING"}
    BY <1>1, <1>3, StagesEnumerated DEF CanBeginIntent, CanMove, LegalTransitions, Healthy, Good,
                                        WellFormed, IsSession
  <2>2. forge.base = FALSE
    BY <1>1, <2>1 DEF Armed, Asking, Fields
  <2>3. Healthy(t)
    BY <1>1, <1>3, BeginIntentStays DEF Stays
  <2> HIDE DEF t
  <2>4. Fields(v) /\ v.s = t /\ v.base = FALSE
    BY <1>1, <2>2 DEF Fields, NewForge, Slots, AtMostOne
  <2> HIDE DEF v
  <2> QED
    BY <1>3, <2>3, <2>4, GrillBegunArms
<1>4. CASE forge' = g
  BY <1>1, <1>4, OtherFields, SameToolsArm
<1> QED
  BY <1>2, <1>3, <1>4

\* and waits for its intent, or for the user, before that.
LEMMA RequestArms ==
  ASSUME IInv, Armed(forge), \/ TypeRequest \/ ReadOtherIntent \/ Prompt
                             \/ \E p \in panels : DismissPanel(p)
                             \/ \E relevant \in BOOLEAN :
                                  \/ \E missing \in BOOLEAN : ReadIntent(missing, relevant)
                                  \/ ApproveRequest(relevant)
  PROVE  Armed(forge')
<1>1. CASE \/ TypeRequest \/ ReadOtherIntent \/ Prompt
           \/ \E p \in panels : DismissPanel(p)
  BY <1>1 DEF TypeRequest, ReadOtherIntent, Prompt, DismissPanel
<1>2. ASSUME NEW relevant \in BOOLEAN, Begin(relevant)
      PROVE  Armed(forge')
  BY <1>2, BeginArms
<1>3. CASE forge' = [forge EXCEPT !.request = TRUE]
  BY <1>3, OtherFields, SameToolsArm DEF IInv, Sound
<1> QED
  BY <1>1, <1>2, <1>3 DEF ReadIntent, ApproveRequest, Becomes

\* /forge-runtime continue: the tools of the Context Build,
LEMMA ContinueContextArms ==
  ASSUME IInv, Armed(forge), ContinueContext
  PROVE  Armed(forge')
<1> DEFINE f == Activate(forge, "context")
<1>1. forge.s.stage = "CONTEXT_BUILD" /\ \E inv : SendFollowUp(f, inv)
  BY DEF ContinueContext
<1>2. Sound(forge) /\ Fields(forge) /\ Tidy(forge.s)
  BY DEF IInv, Sound, Armed
<1>3. forge.s.orch = "CONTEXT_BUILD"
  BY <1>1, <1>2 DEF Tidy
<1>4. forge.s.deep = {} /\ forge.grillRun = FALSE
  BY <1>2, <1>3, BuildTime
<1>5. Sound(f)
  BY <1>2, ActivateKin, KinSound DEF Tools
<1>6. f.s = forge.s /\ f.active = "context" /\ f.grillRun = FALSE
  BY <1>2, <1>4 DEF Activate, Fields, NewForge
<1> HIDE DEF f
<1>7. Armed(f)
  BY <1>2, <1>3, <1>4, <1>6 DEF Armed
<1> QED
  BY <1>1, <1>5, <1>7, SendArms

\* of the Deep attempt that begins once more,
LEMMA ContinueDeepArms ==
  ASSUME IInv, Armed(forge), ContinueDeep
  PROVE  Armed(forge')
<1> DEFINE phase == The(forge.s.deep).phase
           s == IF forge.s.deep # {} THEN BeginDeepKnowledge(forge.s, phase)
                                     ELSE RetryDeepKnowledge(forge.s)
           e == [forge EXCEPT !.s = s]
           f == ActivateDeep(e)
<1>1. /\ forge.s.repair # "RECOVERY_REQUIRED"
      /\ forge.s.stage \in DeepPhases \/ PendingKinds(forge) = {"deep_decision"}
      /\ \E inv \in DeepInvocation(s) : SendFollowUp(f, inv)
  BY DEF ContinueDeep
<1>2. Sound(forge) /\ Healthy(forge.s) /\ Fields(forge) /\ Tidy(forge.s)
  BY DEF IInv, Sound, Armed
<1>3. forge.base = FALSE /\ forge.grillRun = FALSE
  <2>1. CASE forge.s.stage \in DeepPhases
    <3>1. forge.s.orch \in DeepPhases
      BY <1>2, <2>1, StageShown
    <3> QED
      BY <1>2, <3>1, DeepTime
  <2>2. CASE PendingKinds(forge) = {"deep_decision"}
    <3>1. PICK q \in forge.s.waitUser : q.kind = "deep_decision"
      BY <2>2 DEF PendingKinds
    <3> QED
      BY <1>2, <3>1, QuestionTime DEF DeepKinds
  <2> QED
    BY <1>1, <2>1, <2>2
<1>4. Stays(forge.s, s) /\ Tidy(s)
  <2>1. CASE forge.s.deep = {}
    <3>1. s = RetryDeepKnowledge(forge.s)
      BY <2>1
    <3> QED
      BY <1>1, <1>2, <3>1, RetryDeepStays, DeepBegunTidy
  <2>2. CASE forge.s.deep # {}
    <3>1. s = BeginDeepKnowledge(forge.s, phase)
      BY <2>2
    <3>2. The(forge.s.deep) \in forge.s.deep
      BY <2>2, TheMember
    <3>3. phase \in DeepPhases /\ forge.s.orch \in DeepPhases /\ forge.s.round # {}
      BY <1>2, <2>2, <3>2, StageShown DEF Tidy, Healthy, Good, WellFormed, IsSession, DeepAttempts
    <3>4. phase = forge.s.orch
      BY <1>2, <3>2, <3>3 DEF Healthy, Steady
    <3>5. CanBeginDeepKnowledge(forge.s, phase)
      BY <3>3, <3>4 DEF CanBeginDeepKnowledge
    <3> HIDE DEF phase
    <3> QED
      BY <1>1, <1>2, <3>1, <3>3, <3>5, BeginDeepStays, DeepBegunTidy
  <2> QED
    BY <2>1, <2>2
<1> HIDE DEF s
<1>5. Sound(e) /\ e.s = s /\ e.base = FALSE /\ e.grillRun = FALSE
  BY <1>2, <1>3, <1>4, SessionStep
<1> HIDE DEF e
<1>6. Armed(f) /\ Sound(f)
  BY <1>4, <1>5, ActivateDeepArms, ActivateDeepKin, KinSound DEF Sound
<1> QED
  BY <1>1, <1>6, SendArms

\* and, by continue or retry, of the Grill turn.
LEMMA AgainArms ==
  ASSUME IInv, Armed(forge), ContinueGrill \/ Retry
  PROVE  Armed(forge')
<1>1. Sound(forge) /\ Healthy(forge.s) /\ Fields(forge) /\ Tidy(forge.s)
  BY DEF IInv, Sound, Armed
<1>2. ASSUME NEW t, Stays(forge.s, t), Tidy(t), t.repair = "none", t.deep = {},
             forge.s.round # {}, forge.base = FALSE, t.orch = "GRILL" \/ Asking(t, GrillKinds),
             NEW inv,
             SendFollowUp(Activate([forge EXCEPT !.s = t, !.grillRun = TRUE], "grill"), inv)
      PROVE  Armed(forge')
  <2> DEFINE e == [forge EXCEPT !.s = t, !.grillRun = TRUE]
             f == Activate(e, "grill")
  <2>1. /\ Fields(e) /\ e.s = t /\ e.base = FALSE /\ e.workflow = forge.workflow
    BY <1>1, <1>2 DEF Fields, NewForge, Slots
  <2>2. SendFollowUp(f, inv)
    BY <1>2
  <2> HIDE DEF e
  <2>3. Sound(e)
    BY <1>1, <1>2, <2>1 DEF Sound, Stays, OfItsSnapshot
  <2>4. Sound(f)
    BY <2>1, <2>3, ActivateKin, KinSound DEF Tools
  <2>5. f.s = t /\ f.active = "grill" /\ f.base = FALSE
    BY <2>1 DEF Activate, Fields, NewForge
  <2> HIDE DEF f
  <2>6. Armed(f)
    BY <1>2, <2>5, GrillArms
  <2> QED
    BY <2>2, <2>4, <2>6, SendArms
<1>3. CASE ContinueGrill
  <2> DEFINE t == forge.s
  <2>1. PICK r \in forge.s.round :
          SendFollowUp(Activate([forge EXCEPT !.grillRun = TRUE], "grill"), <<"again", r.id>>)
    BY <1>3 DEF ContinueGrill
  <2>2. t.orch = "GRILL" \/ Asking(t, GrillKinds)
    <3>1. CASE forge.s.stage = "GRILL"
      BY <1>1, <3>1 DEF Tidy
    <3>2. CASE forge.grillRun
      BY <3>2 DEF Armed
    <3> QED
      BY <1>3, <3>1, <3>2 DEF ContinueGrill
  <2>3. forge.base = FALSE /\ t.deep = {}
    BY <1>1, <2>2, GrillTime
  <2>4. Stays(forge.s, t) /\ t.repair = "none"
    BY <1>1, <1>3 DEF ContinueGrill, Stays, Healthy, Good, WellFormed, IsSession, RepairNotes
  <2>5. [forge EXCEPT !.grillRun = TRUE] = [forge EXCEPT !.s = t, !.grillRun = TRUE]
    BY <1>1 DEF Fields, NewForge
  <2> QED
    BY <1>1, <1>2, <2>1, <2>2, <2>3, <2>4, <2>5
<1>4. CASE Retry
  <2>1. PICK r \in forge.s.round :
          /\ SendFollowUp(Activate([forge EXCEPT !.s = RetryGrillRound(@), !.grillRun = TRUE],
                                   "grill"), <<"again", r.id>>)
          /\ CanRetryGrillRound(forge.s)
    BY <1>4 DEF Retry
  <2> DEFINE t == RetryGrillRound(forge.s)
  <2>2. forge.s.orch = "GRILL"
    BY <1>1, <2>1 DEF CanRetryGrillRound, Tidy
  <2>3. forge.base = FALSE /\ forge.s.deep = {}
    BY <1>1, <2>2, GrillTime
  <2>4. Stays(forge.s, t) /\ t.repair = "none" /\ Tidy(t) /\ t.deep = {} /\ t.orch = "GRILL"
    BY <1>1, <2>1, <2>3, RetryGrillRoundStays, GrillCallsTidy
  <2>5. [forge EXCEPT !.s = RetryGrillRound(@), !.grillRun = TRUE]
          = [forge EXCEPT !.s = t, !.grillRun = TRUE]
    BY DEF t
  <2> HIDE DEF t
  <2> QED
    BY <1>2, <2>1, <2>3, <2>4, <2>5
<1> QED
  BY <1>3, <1>4

\* A confirm that nobody asked for is refused, and shown as that.
LEMMA ConfirmNothingArms ==
  ASSUME IInv, Armed(forge), ConfirmNothing
  PROVE  Armed(forge')
<1> DEFINE t == Confirm(forge.s)
           g == [forge EXCEPT !.s = t]
<1>1. forge' = g /\ forge.s.stage # "WAIT_USER"
  BY DEF ConfirmNothing, Does, Becomes
<1>2. Sound(forge) /\ Healthy(forge.s) /\ Fields(forge) /\ Tidy(forge.s)
  BY DEF IInv, Sound, Armed
<1>3. forge.s.orch # "WAIT_USER"
  BY <1>1, <1>2 DEF Healthy, Steady
<1>4. /\ t.orch = forge.s.orch /\ t.stage = "REFUSED" /\ t.deep = forge.s.deep
      /\ t.repair = forge.s.repair /\ t.waitUser = forge.s.waitUser
  BY <1>2, <1>3 DEF Confirm, Healthy, Good, WellFormed, IsSession, NewSession
<1> HIDE DEF t
<1>5. /\ g.s = t /\ g.active = forge.active
      /\ g.base = forge.base /\ g.grillRun = forge.grillRun
  BY <1>2, SessionSet
<1> HIDE DEF g
<1> QED
  BY <1>1, <1>4, <1>5 DEF Armed, Tidy, Asking

\* So every step of the user, who does not know reject, keeps the agent armed.
LEMMA UserArms ==
  ASSUME IInv, Armed(forge), User, "reject" \notin Commands
  PROVE  Armed(forge')
<1>1. Relevances \subseteq BOOLEAN /\ AssetsMissing \subseteq BOOLEAN
  BY InterfaceAssumption
<1>2. ASSUME NEW relevant \in Relevances, NEW q \in forge.s.waitUser,
             NEW answer \in AnswersTo(q.kind), TypeAnswer(answer, relevant)
      PROVE  Armed(forge')
  BY <1>1, <1>2, AnswersKnown, TypeAnswerArms
<1>3. ASSUME NEW relevant \in Relevances, NEW p \in panels, NEW answer \in AnswersTo(p.q.kind),
             AnswerPanel(p, answer, relevant)
      PROVE  Armed(forge')
  BY <1>1, <1>3, AnswersKnown, ResumeAnswerArms DEF AnswerPanel
<1>4. ASSUME NEW relevant \in Relevances, ConfirmQuestion(relevant)
      PROVE  Armed(forge')
  BY <1>1, <1>4, AnswersKnown, ResumeAnswerArms DEF ConfirmQuestion
<1>5. CASE \/ TypeRequest \/ ReadOtherIntent \/ Prompt
           \/ \E p \in panels : DismissPanel(p)
           \/ \E relevant \in Relevances :
                \/ \E missing \in AssetsMissing : ReadIntent(missing, relevant)
                \/ ApproveRequest(relevant)
  BY <1>1, <1>5, RequestArms
<1>6. CASE ContinueContext \/ ContinueDeep \/ ContinueGrill \/ Retry \/ ConfirmNothing
  BY <1>6, ContinueContextArms, ContinueDeepArms, AgainArms, ConfirmNothingArms
<1>7. CASE CancelWorkflow
  BY <1>7, CancelArms DEF CancelWorkflow, Does, Becomes, IInv
<1>8. ~RejectNothing /\ \A relevant : ~RejectQuestion(relevant)
  BY DEF RejectNothing, RejectQuestion, Knows
<1> QED
  BY <1>2, <1>3, <1>4, <1>5, <1>6, <1>7, <1>8 DEF User

\* While an attempt or a turn of the Grill is live, the agent has the tools of
\* that very phase, whatever is answered, cancelled, continued or retried, unless
\* the user knows the command reject: it shows a Grill while the rest stays as it is.
THEOREM ForgeLiveAttemptHasItsTools ==
  ASSUME "reject" \notin Commands
  PROVE  Spec => []LiveAttemptHasItsTools
<1>1. Init => Armed(forge)
  <2> SUFFICES ASSUME Init PROVE Armed(forge)
    OBVIOUS
  <2>1. AtRest(forge) /\ Tidy(forge.s)
    BY DEF Init, NewForge, NewSession, AtRest, Tidy
  <2> QED
    BY <2>1, RestArms
<1>2. IInv /\ Armed(forge) /\ [Next]_vars => Armed(forge)'
  <2> SUFFICES ASSUME IInv, Armed(forge), [Next]_vars PROVE Armed(forge')
    OBVIOUS
  <2>1. CASE UNCHANGED vars
    BY <2>1 DEF vars
  <2> QED
    BY <2>1, AgentArms, UserArms, HostArms DEF Next
<1>3. IInv /\ Armed(forge) => LiveAttemptHasItsTools
  <2> SUFFICES ASSUME IInv, Armed(forge) PROVE LiveAttemptHasItsTools
    OBVIOUS
  <2>1. BuildLive(forge) => forge.s.orch = forge.s.stage
    BY DEF Armed, Tidy, BuildLive
  <2>2. BuildLive(forge) /\ forge.base =>
          forge.active = IF forge.s.stage = "CONTEXT_BUILD" THEN "context" ELSE "adr"
    BY <2>1 DEF Armed, Asking, BuildLive
  <2> QED
    BY <2>2 DEF Armed, ToolsOf, GrillLive, LiveAttemptHasItsTools
<1> QED
  BY <1>1, <1>2, <1>3, ForgeInvariant, PTL DEF Spec

-----------------------------------------------------------------------------
(* The gate.                                                               *)

\* What must be so while no tool of a live attempt is let through: the marked
\* invocation is in the queue, or the host has refused it; what waits for the
\* end of a run waits while there is one; and so does a question of Deep
\* Knowledge or of a build, whose answer makes an invocation wait.
OnTrack ==
  /\ \A inv \in forge.replay : OnItsWay(inv) \/ inv \in refused
  /\ forge.dueDeep \cup forge.dueBuild # {} => run # "idle"
  /\ \A p \in panels : /\ p.tool => run # "idle"
                       /\ p.q.kind \in DeepKinds \cup BuildKinds => p.tool

\* A change of what the handlers share that marks no other invocation,
Unmarked(f, g) == DOMAIN g = DOMAIN f /\ g.replay \subseteq f.replay

\* and one that makes none wait either.
Leaves(f, g) ==
  /\ Unmarked(f, g)
  /\ g.dueDeep \subseteq f.dueDeep /\ g.dueBuild \subseteq f.dueBuild

\* All the fields are there.
Whole(f) == DOMAIN f = DOMAIN NewForge

\* Two such changes are one.
LEMMA LeavesTransitive ==
  ASSUME NEW f, NEW g, NEW h, Leaves(f, g)
  PROVE  (Leaves(g, h) => Leaves(f, h)) /\ (Unmarked(g, h) => Unmarked(f, h))
BY DEF Leaves, Unmarked

\* The other fields are such changes,
LEMMA OwnFieldsLeave ==
  ASSUME NEW f, Whole(f), NEW d
  PROVE  /\ Leaves(f, f) /\ Leaves(f, [f EXCEPT !.s = d])
         /\ Leaves(f, [f EXCEPT !.converge = d]) /\ Leaves(f, [f EXCEPT !.request = d])
         /\ Leaves(f, [f EXCEPT !.grillRun = d]) /\ Leaves(f, [f EXCEPT !.dueDiscovery = d])
         /\ Leaves(f, [f EXCEPT !.timerDeep = d]) /\ Leaves(f, [f EXCEPT !.timerBuild = d])
         /\ Leaves(f, [f EXCEPT !.timerDiscovery = d])
         /\ \A e : /\ Leaves(f, [f EXCEPT !.s = d, !.workflow = e])
                   /\ Leaves(f, [f EXCEPT !.s = d, !.request = e])
                   /\ Leaves(f, [f EXCEPT !.s = d, !.grillRun = e])
                   /\ Leaves(f, [f EXCEPT !.converge = d, !.grillRun = e])
                   /\ Leaves(f, [f EXCEPT !.s = d, !.base = e])
                   /\ \A b : Leaves(f, [f EXCEPT !.s = d, !.workflow = e, !.grillRun = b])
BY DEF Whole, NewForge, Leaves, Unmarked

\* and one that waits is not marked by that.
LEMMA WaitingUnmarked ==
  ASSUME NEW f, Whole(f), NEW d, NEW e
  PROVE  /\ Unmarked(f, [f EXCEPT !.dueDeep = d]) /\ Unmarked(f, [f EXCEPT !.dueBuild = d])
         /\ Unmarked(f, [f EXCEPT !.dueBuild = d, !.replayed = e])
         /\ Unmarked(f, [f EXCEPT !.base = e, !.dueBuild = d])
BY DEF Whole, NewForge, Unmarked

\* The tools are such a change, and what is forgotten or remembered.
LEMMA ToolsLeave ==
  ASSUME NEW f, Whole(f)
  PROVE  /\ \A tools : Leaves(f, Activate(f, tools))
         /\ Leaves(f, ActivateUnderstanding(f)) /\ Leaves(f, ActivateDeep(f))
         /\ Leaves(f, Restore(f)) /\ Leaves(f, ClearPending(f)) /\ Leaves(f, ForgetSent(f))
         /\ \A d : Leaves(f, Remembered(f, d))
<1>1. \A tools : Leaves(f, Activate(f, tools))
  BY DEF Whole, NewForge, Leaves, Unmarked, Activate
<1>2. Leaves(f, ActivateUnderstanding(f))
  BY DEF Whole, NewForge, Leaves, Unmarked, ActivateUnderstanding
<1>3. Leaves(f, ActivateDeep(f))
  <2>1. ActivateDeep(f) \in {f, Activate(f, "retrieval"), ActivateUnderstanding(f)}
    BY DEF ActivateDeep
  <2> QED
    BY <1>1, <1>2, <2>1, OwnFieldsLeave
<1>4. Leaves(f, Restore(f)) /\ Leaves(f, ClearPending(f)) /\ Leaves(f, ForgetSent(f))
  BY DEF Whole, NewForge, Leaves, Unmarked, Restore, ClearPending, ForgetSent
<1>5. \A d : Leaves(f, Remembered(f, d))
  BY DEF Whole, NewForge, Leaves, Unmarked, Remembered
<1> QED
  BY <1>1, <1>2, <1>3, <1>4, <1>5

\* A change that leaves them leaves all the fields.
LEMMA WholeLeft ==
  ASSUME NEW f, Whole(f), NEW g, Leaves(f, g)
  PROVE  Whole(g)
BY DEF Whole, Leaves, Unmarked

\* Ends and beginnings are such changes.
LEMMA BeginningsLeave ==
  ASSUME NEW f, Whole(f)
  PROVE  /\ Leaves(f, Cancel(f)) /\ Leaves(f, NextGrill(f)) /\ Leaves(f, EnterDeep(f))
         /\ \A relevant : Leaves(f, OpenGrill(f, relevant))
<1>1. Leaves(f, Cancel(f))
  <2> DEFINE c == [f EXCEPT !.converge = {}]
             d == ClearPending(c)
             g == Restore(d)
  <2>1. Leaves(f, c) /\ Whole(c)
    BY OwnFieldsLeave, WholeLeft
  <2> HIDE DEF c
  <2>2. Leaves(c, d) /\ Whole(d)
    BY <2>1, ToolsLeave, WholeLeft
  <2> HIDE DEF d
  <2>3. Leaves(d, g) /\ Whole(g)
    BY <2>2, ToolsLeave, WholeLeft
  <2>4. \/ Cancel(f) = [g EXCEPT !.s = CancelDeepKnowledge(g.s)]
        \/ Cancel(f) = [g EXCEPT !.s = Reset(g.s), !.workflow = {}]
    BY DEF Cancel, c, d
  <2> HIDE DEF g
  <2>5. /\ Leaves(g, [g EXCEPT !.s = CancelDeepKnowledge(g.s)])
        /\ Leaves(g, [g EXCEPT !.s = Reset(g.s), !.workflow = {}])
    BY <2>3, OwnFieldsLeave
  <2>6. Leaves(g, Cancel(f))
    BY <2>4, <2>5
  <2> QED
    BY <2>1, <2>2, <2>3, <2>6, LeavesTransitive
<1>2. ASSUME NEW g, Leaves(f, g), NEW tools
      PROVE  Leaves(f, Activate(g, tools))
  BY <1>2, WholeLeft, ToolsLeave, LeavesTransitive
<1>3. Leaves(f, NextGrill(f)) /\ Leaves(f, EnterDeep(f))
  BY <1>2, OwnFieldsLeave DEF NextGrill, EnterDeep
<1>4. ASSUME NEW relevant
      PROVE  Leaves(f, OpenGrill(f, relevant))
  <2>1. PICK t, w, b : OpenGrill(f, relevant)
          = Activate([f EXCEPT !.s = t, !.workflow = w, !.grillRun = b], "grill")
    BY DEF OpenGrill
  <2>2. Leaves(f, [f EXCEPT !.s = t, !.workflow = w, !.grillRun = b])
    BY OwnFieldsLeave
  <2> QED
    BY <1>2, <2>1, <2>2
<1> QED
  BY <1>1, <1>3, <1>4

\* The answers to the questions of a Grill and of Deep Knowledge are such
\* changes; that to a question of a build may make an invocation wait.
LEMMA AnswersLeave ==
  ASSUME NEW f, Whole(f), NEW answer, NEW relevant
  PROVE  /\ Leaves(f, ResumeGrill(f, answer, relevant)) /\ Leaves(f, PrepareDeep(f, answer))
         /\ Unmarked(f, ResumeBuild(f, answer)) /\ Whole(ResumeBuild(f, answer))
         /\ Leaves(f, [ResumeBuild(f, answer) EXCEPT !.dueBuild = {}])
<1> DEFINE g == [f EXCEPT !.s = RecordAnswer(@, answer)]
<1>1. Leaves(f, g) /\ Whole(g)
  BY OwnFieldsLeave, WholeLeft
<1>2. Leaves(f, ResumeGrill(f, answer, relevant))
  <2> DEFINE c == [g EXCEPT !.converge = {}]
             b == [g EXCEPT !.converge = {}, !.grillRun = FALSE]
             h == ResumeGrill(f, answer, relevant)
             n == NextGrill(g)
  <2>1. \/ h \in {Cancel(f), OpenGrill(Restore(b), relevant), EnterDeep(c), n, g}
        \/ \E e : h = [n EXCEPT !.converge = e]
    BY DEF ResumeGrill
  <2> HIDE DEF g, h
  <2>2. /\ Leaves(g, b) /\ Whole(b) /\ Leaves(g, c) /\ Whole(c) /\ Leaves(g, n) /\ Whole(n)
    BY <1>1, OwnFieldsLeave, BeginningsLeave, WholeLeft
  <2> HIDE DEF b, c, n
  <2>3. Leaves(b, Restore(b)) /\ Whole(Restore(b))
    BY <2>2, ToolsLeave, WholeLeft
  <2>4. Leaves(Restore(b), OpenGrill(Restore(b), relevant)) /\ Leaves(c, EnterDeep(c))
        /\ \A e : Leaves(n, [n EXCEPT !.converge = e])
    BY <2>2, <2>3, BeginningsLeave, OwnFieldsLeave
  <2>5. /\ Leaves(f, OpenGrill(Restore(b), relevant)) /\ Leaves(f, EnterDeep(c)) /\ Leaves(f, n)
        /\ \A e : Leaves(f, [n EXCEPT !.converge = e])
    <3>1. Leaves(f, b) /\ Leaves(f, c) /\ Leaves(f, n)
      BY <1>1, <2>2, LeavesTransitive
    <3>2. Leaves(f, Restore(b))
      BY <2>3, <3>1, LeavesTransitive
    <3> QED
      BY <2>4, <3>1, <3>2, LeavesTransitive
  <2>6. CASE h \in {Cancel(f), OpenGrill(Restore(b), relevant), EnterDeep(c), n, g}
    BY <1>1, <2>5, <2>6, BeginningsLeave DEF h
  <2>7. ASSUME NEW e, h = [n EXCEPT !.converge = e]
        PROVE  Leaves(f, h)
    BY <2>5, <2>7
  <2> QED
    BY <2>1, <2>6, <2>7 DEF h
<1>3. Leaves(f, PrepareDeep(f, answer))
  <2>1. \/ PrepareDeep(f, answer) = g
        \/ \E t : PrepareDeep(f, answer) = ActivateDeep([g EXCEPT !.s = t])
    BY DEF PrepareDeep
  <2> HIDE DEF g
  <2>2. ASSUME NEW t
        PROVE  Leaves(g, [g EXCEPT !.s = t]) /\ Whole([g EXCEPT !.s = t])
    BY <1>1, OwnFieldsLeave, WholeLeft
  <2>3. ASSUME NEW t
        PROVE  Leaves([g EXCEPT !.s = t], ActivateDeep([g EXCEPT !.s = t]))
    BY <2>2, ToolsLeave
  <2> QED
    BY <1>1, <2>1, <2>2, <2>3, LeavesTransitive
<1>4. /\ Unmarked(f, ResumeBuild(f, answer)) /\ Whole(ResumeBuild(f, answer))
      /\ Leaves(f, [ResumeBuild(f, answer) EXCEPT !.dueBuild = {}])
  <2> DEFINE t == RecordAnswer(f.s, answer)
             b == [f EXCEPT !.s = RecordAnswer(@, answer),
                            !.dueBuild = {}, !.timerBuild = {}, !.replay = {}]
  <2>1. Leaves(f, b) /\ Whole(b)
    BY DEF Whole, NewForge, Leaves, Unmarked
  <2>2. \/ ResumeBuild(f, answer) = b
        \/ \E tools, d : ResumeBuild(f, answer) = [Activate(b, tools) EXCEPT !.dueBuild = d]
    BY DEF ResumeBuild
  <2> HIDE DEF b
  <2>3. ASSUME NEW a, Leaves(f, a), Whole(a), NEW d
        PROVE  /\ Unmarked(f, [a EXCEPT !.dueBuild = d]) /\ Whole([a EXCEPT !.dueBuild = d])
               /\ Leaves(f, [[a EXCEPT !.dueBuild = d] EXCEPT !.dueBuild = {}])
    BY <2>3 DEF Whole, NewForge, Leaves, Unmarked
  <2>4. Leaves(f, [b EXCEPT !.dueBuild = {}])
    BY <2>1 DEF Whole, NewForge, Leaves, Unmarked
  <2>5. \A tools : Leaves(f, Activate(b, tools)) /\ Whole(Activate(b, tools))
    BY <2>1, ToolsLeave, LeavesTransitive, WholeLeft
  <2>6. CASE ResumeBuild(f, answer) = b
    BY <2>1, <2>4, <2>6 DEF Leaves
  <2>7. ASSUME NEW tools, NEW d, ResumeBuild(f, answer) = [Activate(b, tools) EXCEPT !.dueBuild = d]
        PROVE  /\ Unmarked(f, ResumeBuild(f, answer)) /\ Whole(ResumeBuild(f, answer))
               /\ Leaves(f, [ResumeBuild(f, answer) EXCEPT !.dueBuild = {}])
    <3> DEFINE a == Activate(b, tools)
    <3>1. Leaves(f, a) /\ Whole(a)
      BY <2>5
    <3> HIDE DEF a
    <3> QED
      BY <2>3, <2>7, <3>1 DEF a
  <2> QED
    BY <2>2, <2>6, <2>7
<1> QED
  BY <1>2, <1>3, <1>4

-----------------------------------------------------------------------------
(* The steps, and the gate.                                                *)

\* A step other than the two of the host's run: the marked invocation goes in
\* the queue or is refused, if it is another one; and none begins to wait while
\* the agent is idle.
Orderly ==
  /\ \/ /\ forge'.replay \subseteq forge.replay /\ refused' = refused
        /\ inbox' = inbox \/ \E inv : inbox' = Append(inbox, inv)
     \/ \E inv : forge'.replay = {inv} /\ (inbox' = Append(inbox, inv) \/ inv \in refused')
  /\ run = "idle" => /\ forge'.dueDeep \subseteq forge.dueDeep
                     /\ forge'.dueBuild \subseteq forge.dueBuild
  /\ run # "idle" => run' # "idle"

\* The queue keeps what it has, and gets what is put into it.
LEMMA QueueGrows ==
  ASSUME IInv, NEW inv, inbox' = Append(inbox, inv)
  PROVE  OnItsWay(inv)' /\ \A i : OnItsWay(i) => OnItsWay(i)'
<1>1. inbox \in Seq(Invocations)
  BY DEF IInv
<1>2. /\ DOMAIN inbox' = 1 .. Len(inbox) + 1 /\ DOMAIN inbox = 1 .. Len(inbox) /\ Len(inbox) \in Nat
      /\ inbox'[Len(inbox) + 1] = inv /\ \A n \in 1 .. Len(inbox) : inbox'[n] = inbox[n]
  BY <1>1
<1>3. \A n \in 1 .. Len(inbox) : n \in 1 .. Len(inbox) + 1
  BY <1>2
<1>4. Len(inbox) + 1 \in 1 .. Len(inbox) + 1
  BY <1>2
<1> QED
  BY <1>2, <1>3, <1>4 DEF OnItsWay

\* Such a step keeps the first two parts of it.
LEMMA OrderlyOnTrack ==
  ASSUME IInv, OnTrack, Orderly
  PROVE  /\ \A inv \in forge'.replay : OnItsWay(inv)' \/ inv \in refused'
         /\ forge'.dueDeep \cup forge'.dueBuild # {} => run' # "idle"
<1>1. ASSUME NEW i \in forge'.replay
      PROVE  OnItsWay(i)' \/ i \in refused'
  <2>1. CASE /\ forge'.replay \subseteq forge.replay /\ refused' = refused
             /\ inbox' = inbox \/ \E inv : inbox' = Append(inbox, inv)
    <3>1. OnItsWay(i) \/ i \in refused
      BY <1>1, <2>1 DEF OnTrack
    <3>2. CASE inbox' = inbox
      BY <2>1, <3>1, <3>2 DEF OnItsWay
    <3>3. ASSUME NEW inv, inbox' = Append(inbox, inv)
          PROVE  OnItsWay(i)' \/ i \in refused'
      BY <2>1, <3>1, <3>3, QueueGrows
    <3> QED
      BY <2>1, <3>2, <3>3
  <2>2. ASSUME NEW inv, forge'.replay = {inv}, inbox' = Append(inbox, inv) \/ inv \in refused'
        PROVE  OnItsWay(i)' \/ i \in refused'
    BY <1>1, <2>2, QueueGrows
  <2> QED
    BY <2>1, <2>2 DEF Orderly
<1>2. forge'.dueDeep \cup forge'.dueBuild # {} => run' # "idle"
  BY DEF OnTrack, Orderly
<1> QED
  BY <1>1, <1>2

\* A step that sends nothing,
LEMMA QuietOrderly ==
  ASSUME Leaves(forge, forge') \/ (Unmarked(forge, forge') /\ run # "idle"), Quiet
  PROVE  Orderly
BY DEF Leaves, Unmarked, Quiet, Orderly

\* one with a message of the user,
LEMMA PostOrderly ==
  ASSUME Leaves(forge, forge'), NEW inv, Post(inv)
  PROVE  Orderly
BY DEF Leaves, Unmarked, Post, Enqueue, Orderly

\* and one with an invocation.
LEMMA SendOrderly ==
  ASSUME Whole(forge), NEW f, Leaves(forge, f), NEW inv, SendFollowUp(f, inv) \/ SendNow(f, inv)
  PROVE  Orderly
<1> DEFINE a == ActivateDeep(f)
<1>1. Whole(f)
  BY WholeLeft
<1>2. Leaves(forge, a) /\ Whole(a)
  BY <1>1, ToolsLeave, LeavesTransitive, WholeLeft
<1>3. /\ forge' = [a EXCEPT !.replay = {inv}]
      /\ \/ Enqueue(inv)
         \/ refused' = {inv} /\ run' = run
  BY DEF SendFollowUp, SendNow, Becomes, Replayed
<1> HIDE DEF a
<1>4. forge'.replay = {inv} /\ forge'.dueDeep = a.dueDeep /\ forge'.dueBuild = a.dueBuild
  BY <1>2, <1>3 DEF Whole, NewForge
<1>5. run # "idle" => run' # "idle"
  BY <1>3 DEF Enqueue
<1>6. inbox' = Append(inbox, inv) \/ inv \in refused'
  BY <1>3 DEF Enqueue
<1> QED
  BY <1>2, <1>4, <1>5, <1>6 DEF Leaves, Orderly

\* The agent acts while it works: what it makes wait, waits for the end of its run.
LEMMA AgentOrderly ==
  ASSUME IInv, Agent
  PROVE  Orderly /\ run = "working" /\ run' # "idle"
<1>1. Whole(forge)
  BY DEF IInv, Sound, Fields, Whole
<1>2. run = "working"
  BY DEF Agent, GrillAsks, GrillReady, GrillOmitted, SearchBatch, TargetUnclear, DeepAsks,
         DeepNeedsDiscovery, RetrievalComplete, UnderstandingComplete, ContextStale, ContextAsks,
         ContextComplete, AdrAsks, AdrComplete, AgentMayCall, Working
<1>3. ASSUME NEW f, Unmarked(forge, f), Does(f) \/ Asks(f, TRUE) \/ Asks(f, FALSE)
      PROVE  Orderly
  BY <1>2, <1>3, QuietOrderly DEF Does, Asks, Becomes
<1>4. \A t : Leaves(forge, [forge EXCEPT !.s = t]) /\ Whole([forge EXCEPT !.s = t])
  BY <1>1, OwnFieldsLeave, WholeLeft
<1>5. ASSUME NEW d, GrillAsks(d)
      PROVE  Orderly
  <2>1. PICK t, b : Asks([forge EXCEPT !.s = t, !.grillRun = b], FALSE)
    BY <1>5 DEF GrillAsks
  <2>2. Unmarked(forge, [forge EXCEPT !.s = t, !.grillRun = b])
    BY <1>1, OwnFieldsLeave DEF Leaves
  <2> QED
    BY <1>3, <2>1, <2>2
<1>6. ASSUME NEW b \in BOOLEAN, GrillReady(b)
      PROVE  Orderly
  <2> DEFINE f == [forge EXCEPT !.converge = {}]
             g == EnterDeep(f)
  <2>1. Leaves(forge, f) /\ Whole(f)
    BY <1>1, OwnFieldsLeave, WholeLeft
  <2>2. \/ Does([g EXCEPT !.dueDeep = Due(g, DeepInvocation(g.s))]) \/ Does(f)
        \/ \E t : Asks([f EXCEPT !.s = t], TRUE)
    BY <1>6 DEF GrillReady
  <2> HIDE DEF f
  <2>3. Leaves(f, g) /\ Whole(g)
    BY <2>1, BeginningsLeave, WholeLeft
  <2> HIDE DEF g
  <2>4. \A d : Unmarked(forge, [g EXCEPT !.dueDeep = d])
    BY <2>1, <2>3, WaitingUnmarked, LeavesTransitive
  <2>5. \A t : Unmarked(forge, [f EXCEPT !.s = t])
    BY <2>1, OwnFieldsLeave, LeavesTransitive DEF Leaves
  <2>6. Unmarked(forge, f)
    BY <2>1 DEF Leaves
  <2> QED
    BY <1>3, <2>2, <2>4, <2>5, <2>6
<1>7. ASSUME GrillOmitted
      PROVE  Orderly
  <2> DEFINE f(t) == [forge EXCEPT !.s = t]
  <2>1. PICK t : Does(Restore(ClearPending(f(t))))
    BY <1>7 DEF GrillOmitted
  <2>2. Leaves(forge, f(t)) /\ Whole(f(t))
    BY <1>4
  <2> HIDE DEF f
  <2>3. Leaves(forge, ClearPending(f(t))) /\ Whole(ClearPending(f(t)))
    BY <2>2, ToolsLeave, WholeLeft, LeavesTransitive
  <2>4. Leaves(forge, Restore(ClearPending(f(t))))
    BY <2>3, ToolsLeave, LeavesTransitive
  <2> QED
    BY <1>3, <2>1, <2>4 DEF Leaves
<1>8. ASSUME SearchBatch
      PROVE  Orderly
  <2>1. PICK inv : SendFollowUp(forge, inv)
    BY <1>8 DEF SearchBatch
  <2>2. Leaves(forge, forge)
    BY DEF Leaves, Unmarked
  <2> QED
    BY <1>1, <2>1, <2>2, SendOrderly
<1>9. ASSUME NEW d, TargetUnclear \/ DeepAsks(d)
      PROVE  Orderly
  <2>1. PICK t : LET g == Restore([forge EXCEPT !.s = t]) IN Does(g) \/ Asks(g, TRUE)
    BY <1>9 DEF TargetUnclear, DeepAsks
  <2>2. Leaves(forge, Restore([forge EXCEPT !.s = t]))
    BY <1>4, ToolsLeave, LeavesTransitive
  <2> QED
    BY <1>3, <2>1, <2>2 DEF Leaves
<1>10. ASSUME RetrievalComplete
       PROVE  Orderly
  <2> DEFINE f(t) == [forge EXCEPT !.s = t]
             g(t) == ActivateUnderstanding(f(t))
  <2>1. PICK t : Does([g(t) EXCEPT !.dueDeep = Due(g(t), DeepInvocation(g(t).s))])
    BY <1>10 DEF RetrievalComplete
  <2>2. Leaves(forge, f(t)) /\ Whole(f(t))
    BY <1>4
  <2> HIDE DEF f
  <2>3. Leaves(forge, g(t)) /\ Whole(g(t))
    BY <2>2, ToolsLeave, LeavesTransitive, WholeLeft
  <2> HIDE DEF g
  <2>4. \A d : Unmarked(forge, [g(t) EXCEPT !.dueDeep = d])
    BY <2>3, WaitingUnmarked, LeavesTransitive
  <2> QED
    BY <1>3, <2>1, <2>4
<1>11. ASSUME NEW relevant, DeepNeedsDiscovery(relevant)
       PROVE  Orderly
  <2> DEFINE f(t) == Restore([forge EXCEPT !.s = t])
             g(t) == OpenGrill(f(t), relevant)
  <2>1. PICK t : \/ Asks(f(t), TRUE)
                 \/ Does([g(t) EXCEPT !.dueDiscovery = Due(g(t), RoundInvocation(g(t).s))])
    BY <1>11 DEF DeepNeedsDiscovery
  <2>2. Leaves(forge, f(t)) /\ Whole(f(t))
    BY <1>4, ToolsLeave, LeavesTransitive, WholeLeft
  <2> HIDE DEF f
  <2>3. Leaves(forge, g(t)) /\ Whole(g(t))
    BY <2>2, BeginningsLeave, LeavesTransitive, WholeLeft
  <2> HIDE DEF g
  <2>4. \A d : Leaves(forge, [g(t) EXCEPT !.dueDiscovery = d])
    BY <2>3, OwnFieldsLeave, LeavesTransitive
  <2> QED
    BY <1>3, <2>1, <2>2, <2>4 DEF Leaves
<1>12. ASSUME NEW b, UnderstandingComplete(b)
       PROVE  Orderly
  <2> DEFINE f(t) == Restore([forge EXCEPT !.s = t])
             g(t) == Activate(f(t), "context")
  <2>1. PICK t : \/ Does(f(t))
                 \/ Does([g(t) EXCEPT !.base = TRUE,
                                      !.dueBuild = Due(g(t), ContextInvocation(g(t).s))])
    BY <1>12 DEF UnderstandingComplete
  <2>2. Leaves(forge, f(t)) /\ Whole(f(t))
    BY <1>4, ToolsLeave, LeavesTransitive, WholeLeft
  <2> HIDE DEF f
  <2>3. Leaves(forge, g(t)) /\ Whole(g(t))
    BY <2>2, ToolsLeave, LeavesTransitive, WholeLeft
  <2> HIDE DEF g
  <2>4. ASSUME NEW d
        PROVE  Unmarked(forge, [g(t) EXCEPT !.base = TRUE, !.dueBuild = d])
    <3>1. Unmarked(g(t), [g(t) EXCEPT !.base = TRUE, !.dueBuild = d])
      BY <2>3, WaitingUnmarked
    <3> QED
      BY <2>3, <3>1, LeavesTransitive
  <2> QED
    BY <1>3, <2>1, <2>2, <2>4 DEF Leaves
<1>13. ASSUME ContextStale
       PROVE  Orderly
  <2>1. PICK d, e : Does([forge EXCEPT !.dueBuild = d, !.replayed = e])
    BY <1>13 DEF ContextStale
  <2>2. Unmarked(forge, [forge EXCEPT !.dueBuild = d, !.replayed = e])
    BY <1>1, WaitingUnmarked
  <2> QED
    BY <1>3, <2>1, <2>2
<1>14. ASSUME NEW d, ContextAsks(d) \/ ContextComplete
       PROVE  Orderly
  <2> DEFINE f(t) == ForgetSent([forge EXCEPT !.s = t])
             g(t) == Activate(f(t), "adr")
  <2>1. PICK t : \/ Asks(Restore(f(t)), TRUE) \/ Does(Restore(f(t)))
                 \/ Does([g(t) EXCEPT !.dueBuild = Due(g(t), AdrInvocation(g(t).s))])
    BY <1>14 DEF ContextAsks, ContextComplete
  <2>2. Leaves(forge, f(t)) /\ Whole(f(t))
    BY <1>4, ToolsLeave, LeavesTransitive, WholeLeft
  <2> HIDE DEF f
  <2>3. Leaves(forge, g(t)) /\ Whole(g(t)) /\ Leaves(forge, Restore(f(t)))
    BY <2>2, ToolsLeave, LeavesTransitive, WholeLeft
  <2> HIDE DEF g
  <2>4. \A e : Unmarked(forge, [g(t) EXCEPT !.dueBuild = e])
    BY <2>3, WaitingUnmarked, LeavesTransitive
  <2> QED
    BY <1>3, <2>1, <2>3, <2>4 DEF Leaves
<1>15. ASSUME NEW d, AdrAsks(d)
       PROVE  Orderly
  <2>1. PICK t : Asks(Restore([forge EXCEPT !.s = t]), TRUE)
    BY <1>15 DEF AdrAsks
  <2>2. Leaves(forge, Restore([forge EXCEPT !.s = t]))
    BY <1>4, ToolsLeave, LeavesTransitive
  <2> QED
    BY <1>3, <2>1, <2>2 DEF Leaves
<1>16. ASSUME NEW b, AdrComplete(b)
       PROVE  Orderly
  <2> DEFINE f(t) == [forge EXCEPT !.s = t]
             g(t, u) == [f(t) EXCEPT !.s = u, !.base = FALSE]
  <2>1. PICK t, u : Does(f(t)) \/ Does(Restore(g(t, u)))
    BY <1>16 DEF AdrComplete
  <2>2. Leaves(forge, f(t)) /\ Whole(f(t))
    BY <1>4
  <2> HIDE DEF f
  <2>3. Leaves(f(t), g(t, u))
    BY <2>2, OwnFieldsLeave
  <2> HIDE DEF g
  <2>4. Leaves(forge, g(t, u)) /\ Whole(g(t, u))
    BY <2>2, <2>3, LeavesTransitive, WholeLeft
  <2>5. Leaves(forge, Restore(g(t, u)))
    BY <2>4, ToolsLeave, LeavesTransitive
  <2> QED
    BY <1>3, <2>1, <2>2, <2>5 DEF Leaves
<1>17. Orderly
  BY <1>5, <1>6, <1>7, <1>8, <1>9, <1>10, <1>11, <1>12, <1>13, <1>14, <1>15, <1>16 DEF Agent
<1> QED
  BY <1>2, <1>17 DEF Orderly

\* The answer on a panel may make an invocation wait, but the tool call that
\* asked waits for it then, in a run.
LEMMA AnswerPanelOrderly ==
  ASSUME IInv, PanelOfTheQuestion, OnTrack, NEW p \in panels, NEW answer, NEW relevant,
         AnswerPanel(p, answer, relevant)
  PROVE  Orderly
<1> DEFINE kinds == PendingKinds(forge)
           deep  == PrepareDeep(forge, answer)
           grill == ResumeGrill(forge, answer, relevant)
           built == ResumeBuild(forge, answer)
<1>1. Whole(forge) /\ Sound(forge)
  BY DEF IInv, Sound, Fields, Whole
<1>2. ResumeAnswer(answer, relevant)
  BY DEF AnswerPanel
<1>3. kinds = {p.q.kind}
  BY <1>1, OneKind DEF PanelOfTheQuestion, PanelShowsPendingQuestion
<1>4. p.q.kind \in DeepKinds \cup BuildKinds => run # "idle"
  BY DEF OnTrack
<1>5. /\ Leaves(forge, grill) /\ Leaves(forge, deep) /\ Unmarked(forge, built)
      /\ Leaves(forge, Cancel(forge)) /\ Whole(deep)
  BY <1>1, AnswersLeave, BeginningsLeave, WholeLeft
<1>6. CASE kinds \cap BuildKinds # {}
  <2>1. forge' = built /\ Quiet
    BY <1>2, <1>3, <1>6 DEF ResumeAnswer, Becomes, BuildKinds, DeepKinds
  <2>2. run # "idle"
    BY <1>3, <1>4, <1>6
  <2> HIDE DEF built
  <2> QED
    BY <1>5, <2>1, <2>2, QuietOrderly
<1>7. CASE kinds \cap BuildKinds = {} /\ kinds \cap DeepKinds # {}
  <2> DEFINE due == [deep EXCEPT !.dueDeep = Due(deep, Resumed(forge, deep))]
  <2>1. forge' \in {Cancel(forge), deep, due} /\ Quiet
    BY <1>2, <1>7 DEF ResumeAnswer, Becomes
  <2>2. run # "idle"
    BY <1>3, <1>4, <1>7
  <2> HIDE DEF deep
  <2>3. Unmarked(deep, due)
    BY <1>5, WaitingUnmarked
  <2>4. Unmarked(forge, due)
    BY <1>5, <2>3, LeavesTransitive
  <2> HIDE DEF due
  <2>5. Unmarked(forge, forge')
    BY <1>5, <2>1, <2>4 DEF Leaves
  <2> QED
    BY <2>1, <2>2, <2>5, QuietOrderly
<1>8. CASE kinds \cap (BuildKinds \cup DeepKinds) = {}
  <2>1. (forge' = grill /\ Quiet) \/ \E inv : SendFollowUp(grill, inv)
    <3>1. kinds # {"deep_discovery_fallback"}
      BY <1>8 DEF DeepKinds
    <3> QED
      BY <1>2, <1>8, <3>1 DEF ResumeAnswer, Becomes
  <2> HIDE DEF grill
  <2> QED
    BY <1>1, <1>5, <2>1, QuietOrderly, SendOrderly
<1> QED
  BY <1>6, <1>7, <1>8

\* An answer that is typed makes none wait: it is itself the message.
LEMMA TypeAnswerOrderly ==
  ASSUME IInv, NEW answer, NEW relevant, TypeAnswer(answer, relevant)
  PROVE  Orderly
<1> DEFINE kinds == PendingKinds(forge)
           built == ResumeBuild(forge, answer)
           f == CASE kinds \cap BuildKinds # {} -> [built EXCEPT !.dueBuild = {}]
                  [] kinds \cap DeepKinds # {}  -> PrepareDeep(forge, answer)
                  [] OTHER                      -> ResumeGrill(forge, answer, relevant)
           g == Remembered(f, The(built.dueBuild))
<1>1. (forge' = f \/ forge' = g) /\ (Quiet \/ \E inv : Post(inv))
  BY DEF TypeAnswer, Becomes
<1>2. Whole(forge) /\ Sound(forge)
  BY DEF IInv, Sound, Fields, Whole
<1>3. kinds \cap BuildKinds # {} => kinds \cap DeepKinds = {}
  <2> SUFFICES ASSUME kinds \cap BuildKinds # {} PROVE kinds \cap DeepKinds = {}
    OBVIOUS
  <2>1. PICK q \in forge.s.waitUser : q.kind \in BuildKinds
    BY DEF PendingKinds
  <2> QED
    BY <1>2, <2>1, OneKind DEF BuildKinds, DeepKinds
<1>4. f \in {[built EXCEPT !.dueBuild = {}], PrepareDeep(forge, answer),
             ResumeGrill(forge, answer, relevant)}
  BY <1>3
<1>5. Leaves(forge, f)
  BY <1>2, <1>4, AnswersLeave
<1> HIDE DEF f
<1>6. Whole(f)
  BY <1>2, <1>5, WholeLeft
<1>7. Leaves(forge, g)
  BY <1>5, <1>6, ToolsLeave, LeavesTransitive
<1> HIDE DEF g
<1>8. Leaves(forge, forge')
  BY <1>1, <1>5, <1>7
<1> QED
  BY <1>1, <1>8, QuietOrderly, PostOrderly

\* A request begins a workflow with a message of the user.
LEMMA BeginOrderly ==
  ASSUME IInv, NEW relevant, Begin(relevant)
  PROVE  Orderly
<1> DEFINE v(t) == [forge EXCEPT !.s = t, !.request = FALSE]
<1>1. Whole(forge)
  BY DEF IInv, Sound, Fields, Whole
<1>2. \/ \E t : forge' = OpenGrill(v(t), relevant)
      \/ forge' = [forge EXCEPT !.request = FALSE]
  BY DEF Begin, Becomes
<1>3. PICK inv : Post(inv)
  BY DEF Begin
<1>4. ASSUME NEW t
      PROVE  Leaves(forge, OpenGrill(v(t), relevant))
  <2>1. Leaves(forge, v(t)) /\ Whole(v(t))
    BY <1>1, OwnFieldsLeave, WholeLeft
  <2> HIDE DEF v
  <2> QED
    BY <2>1, BeginningsLeave, LeavesTransitive
<1>5. Leaves(forge, [forge EXCEPT !.request = FALSE])
  BY <1>1, OwnFieldsLeave
<1> HIDE DEF v
<1>6. Leaves(forge, forge')
  BY <1>2, <1>4, <1>5
<1> QED
  BY <1>3, <1>6, PostOrderly

\* The commands that send an invocation once more.
LEMMA ContinueOrderly ==
  ASSUME IInv, ContinueContext \/ ContinueDeep \/ ContinueGrill \/ Retry
  PROVE  Orderly
<1>1. Whole(forge)
  BY DEF IInv, Sound, Fields, Whole
<1>2. CASE ContinueContext
  <2>1. PICK inv : SendFollowUp(Activate(forge, "context"), inv)
    BY <1>2 DEF ContinueContext
  <2>2. Leaves(forge, Activate(forge, "context"))
    BY <1>1, ToolsLeave
  <2> QED
    BY <1>1, <2>1, <2>2, SendOrderly
<1>3. CASE ContinueDeep
  <2> DEFINE e(t) == [forge EXCEPT !.s = t]
  <2>1. PICK t, inv : SendFollowUp(ActivateDeep(e(t)), inv)
    BY <1>3 DEF ContinueDeep
  <2>2. Leaves(forge, e(t)) /\ Whole(e(t))
    BY <1>1, OwnFieldsLeave, WholeLeft
  <2> HIDE DEF e
  <2>3. Leaves(forge, ActivateDeep(e(t)))
    BY <2>2, ToolsLeave, LeavesTransitive
  <2> QED
    BY <1>1, <2>1, <2>3, SendOrderly
<1>4. CASE ContinueGrill \/ Retry
  <2> DEFINE e(t) == [forge EXCEPT !.s = t, !.grillRun = TRUE]
             v == [forge EXCEPT !.grillRun = TRUE]
  <2>1. \/ \E inv : SendFollowUp(Activate(v, "grill"), inv)
        \/ \E t, inv : SendFollowUp(Activate(e(t), "grill"), inv)
    BY <1>4 DEF ContinueGrill, Retry
  <2>2. /\ Leaves(forge, v) /\ Whole(v)
        /\ \A t : Leaves(forge, e(t)) /\ Whole(e(t))
    BY <1>1, OwnFieldsLeave, WholeLeft
  <2> HIDE DEF e, v
  <2>3. /\ Leaves(forge, Activate(v, "grill"))
        /\ \A t : Leaves(forge, Activate(e(t), "grill"))
    BY <2>2, ToolsLeave, LeavesTransitive
  <2> QED
    BY <1>1, <2>1, <2>3, SendOrderly
<1> QED
  BY <1>2, <1>3, <1>4

\* What the user does in a terminal, without confirm and reject.
LEMMA UserOrderly ==
  ASSUME IInv, PanelOfTheQuestion, OnTrack, User, Commands \cap {"confirm", "reject"} = {}
  PROVE  Orderly
<1>1. Whole(forge)
  BY DEF IInv, Sound, Fields, Whole
<1>2. ASSUME forge' = forge, Quiet \/ \E inv : Post(inv)
      PROVE  Orderly
  <2>1. Leaves(forge, forge')
    BY <1>2 DEF Leaves, Unmarked
  <2> QED
    BY <1>2, <2>1, QuietOrderly, PostOrderly
<1>3. CASE TypeRequest \/ ReadOtherIntent \/ Prompt \/ \E p \in panels : DismissPanel(p)
  BY <1>2, <1>3 DEF TypeRequest, ReadOtherIntent, Prompt, DismissPanel, Quiet
<1>4. ASSUME NEW relevant, NEW p \in panels, NEW answer, AnswerPanel(p, answer, relevant)
      PROVE  Orderly
  BY <1>4, AnswerPanelOrderly
<1>5. ASSUME NEW relevant, NEW answer, TypeAnswer(answer, relevant)
      PROVE  Orderly
  BY <1>5, TypeAnswerOrderly
<1>6. ASSUME NEW relevant, NEW missing \in BOOLEAN, ReadIntent(missing, relevant)
      PROVE  Orderly
  <2>1. Begin(relevant) \/ (forge' = [forge EXCEPT !.request = TRUE] /\ Quiet)
    BY <1>6 DEF ReadIntent, Becomes
  <2>2. Leaves(forge, [forge EXCEPT !.request = TRUE])
    BY <1>1, OwnFieldsLeave
  <2> QED
    BY <2>1, <2>2, BeginOrderly, QuietOrderly
<1>7. ASSUME NEW relevant, ApproveRequest(relevant)
      PROVE  Orderly
  BY <1>7, BeginOrderly DEF ApproveRequest
<1>8. ASSUME CancelWorkflow
      PROVE  Orderly
  <2>1. Leaves(forge, forge') /\ Quiet
    BY <1>1, <1>8, BeginningsLeave DEF CancelWorkflow, Does, Becomes
  <2> QED
    BY <2>1, QuietOrderly
<1>9. AssetsMissing \subseteq BOOLEAN
  BY InterfaceAssumption
<1>10. /\ ~ConfirmNothing /\ ~RejectNothing
       /\ \A relevant : ~ConfirmQuestion(relevant) /\ ~RejectQuestion(relevant)
  BY DEF ConfirmNothing, RejectNothing, ConfirmQuestion, RejectQuestion, Knows
<1> QED
  BY <1>3, <1>4, <1>5, <1>6, <1>7, <1>8, <1>9, <1>10, ContinueOrderly DEF User

\* The timers send the invocation, or see it refused, or drop it.
LEMMA FireOrderly ==
  ASSUME IInv, FireDeepTimer \/ FireBuildTimer \/ FireDiscoveryTimer
  PROVE  Orderly
<1>1. Whole(forge)
  BY DEF IInv, Sound, Fields, Whole
<1>2. ASSUME NEW f, Leaves(forge, f), NEW g, Leaves(f, g), NEW inv,
             SendNow(g, inv) \/ (Becomes(f) /\ Quiet)
      PROVE  Orderly
  <2>1. Leaves(forge, g)
    BY <1>2, LeavesTransitive
  <2>2. CASE SendNow(g, inv)
    BY <1>1, <2>1, <2>2, SendOrderly
  <2>3. CASE Becomes(f) /\ Quiet
    BY <1>2, <2>3, QuietOrderly DEF Becomes
  <2> QED
    BY <1>2, <2>2, <2>3
<1>3. CASE FireDeepTimer
  <2> DEFINE f == [forge EXCEPT !.timerDeep = {}]
  <2>1. PICK d \in forge.timerDeep : SendNow(f, d.inv) \/ (Becomes(f) /\ Quiet)
    BY <1>3 DEF FireDeepTimer
  <2>2. Leaves(forge, f)
    BY <1>1, OwnFieldsLeave
  <2> HIDE DEF f
  <2>3. Leaves(f, f)
    BY DEF Leaves, Unmarked
  <2> QED
    BY <1>2, <2>1, <2>2, <2>3
<1>4. CASE FireBuildTimer
  <2> DEFINE f == [forge EXCEPT !.timerBuild = {}]
             g(d) == Remembered(f, d)
  <2>1. PICK d \in forge.timerBuild : SendNow(g(d), d.inv) \/ (Becomes(f) /\ Quiet)
    BY <1>4 DEF FireBuildTimer
  <2>2. Leaves(forge, f) /\ Whole(f)
    BY <1>1, OwnFieldsLeave, WholeLeft
  <2> HIDE DEF f
  <2>3. Leaves(f, g(d))
    BY <2>2, ToolsLeave
  <2> HIDE DEF g
  <2> QED
    BY <1>2, <2>1, <2>2, <2>3
<1>5. CASE FireDiscoveryTimer
  <2> DEFINE f == [forge EXCEPT !.timerDiscovery = {}]
  <2>1. PICK d \in forge.timerDiscovery : SendNow(f, d.inv) \/ (Becomes(f) /\ Quiet)
    BY <1>5 DEF FireDiscoveryTimer
  <2>2. Leaves(forge, f)
    BY <1>1, OwnFieldsLeave
  <2> HIDE DEF f
  <2>3. Leaves(f, f)
    BY DEF Leaves, Unmarked
  <2> QED
    BY <1>2, <2>1, <2>2, <2>3
<1> QED
  BY <1>3, <1>4, <1>5

\* The agent gets a message: if it is the marked one, the gate opens.
LEMMA DeliverOnTrack ==
  ASSUME IInv, OnTrack, Deliver
  PROVE  OnTrack'
<1>1. /\ inbox # <<>> /\ forge' = MessageStart(forge, Head(inbox)) /\ inbox' = Tail(inbox)
      /\ run # "idle" /\ run' = "working" /\ panels' = panels /\ refused' = refused
  BY DEF Deliver
<1>2. Whole(forge) /\ AtMostOne(forge.replay) /\ inbox \in Seq(Invocations)
  BY DEF IInv, Sound, Fields, Whole
<1>3. /\ forge'.replay = IF forge.replay = {Head(inbox)} THEN {} ELSE forge.replay
      /\ forge'.dueDeep = forge.dueDeep /\ forge'.dueBuild = forge.dueBuild
  BY <1>1, <1>2 DEF MessageStart, Whole, NewForge
<1>4. ASSUME NEW i \in forge'.replay
      PROVE  OnItsWay(i)' \/ i \in refused'
  <2>1. i \in forge.replay /\ i # Head(inbox)
    BY <1>2, <1>3, <1>4 DEF AtMostOne
  <2>2. CASE i \in refused
    BY <1>1, <2>2
  <2>3. CASE i \notin refused
    <3>1. PICK n \in DOMAIN inbox : inbox[n] = i
      BY <2>1, <2>3 DEF OnTrack, OnItsWay
    <3>2. n - 1 \in DOMAIN inbox' /\ inbox'[n - 1] = i
      BY <1>1, <1>2, <2>1, <3>1
    <3> QED
      BY <3>2 DEF OnItsWay
  <2> QED
    BY <2>2, <2>3
<1> QED
  BY <1>1, <1>3, <1>4 DEF OnTrack

\* The run ends: nothing is in the queue, no tool call waits, and what waited
\* for it goes on a timer.
LEMMA SettleOnTrack ==
  ASSUME IInv, OnTrack, Settle
  PROVE  OnTrack'
<1>1. /\ forge' = AgentSettled(forge) /\ inbox' = inbox /\ panels' = panels /\ refused' = refused
      /\ forge.timerDeep = {} /\ forge.timerBuild = {} /\ \A p \in panels : ~p.tool
  BY DEF Settle, Working, ToolWaits, TimerSet
<1>2. Whole(forge)
  BY DEF IInv, Sound, Fields, Whole
<1>3. forge'.replay = forge.replay /\ forge'.dueDeep = {} /\ forge'.dueBuild = {}
  BY <1>1, <1>2 DEF AgentSettled, Whole, NewForge
<1> QED
  BY <1>1, <1>3 DEF OnTrack, OnItsWay

\* The panels that the agent opens: a tool call waits, or a Grill goes on
\* without an answer.
LEMMA AgentPanels ==
  ASSUME IInv, PanelOfTheQuestion, Agent
  PROVE  \A p \in panels' : p.q.kind \in DeepKinds \cup BuildKinds => p.tool
<1>1. panels = {}
  <2>1. forge.s.stage # "WAIT_USER"
    BY DEF Agent, GrillAsks, GrillReady, GrillOmitted, SearchBatch, TargetUnclear, DeepAsks,
           DeepNeedsDiscovery, RetrievalComplete, UnderstandingComplete, ContextStale,
           ContextAsks, ContextComplete, AdrAsks, AdrComplete, GrillLive, DeepGate, DeepLive,
           BuildGate, BuildLive, DeepPhases
  <2>2. forge.s.waitUser = {}
    BY <2>1, StageShown DEF IInv, Sound
  <2> QED
    BY <2>2 DEF PanelOfTheQuestion, PanelShowsPendingQuestion
<1>2. ASSUME NEW d, GrillAsks(d)
      PROVE  \A p \in panels' : p.q.kind \notin DeepKinds \cup BuildKinds
  <2> DEFINE q == [kind |-> "grill_confirmation", round |-> The(forge.s.round).id, id |-> d]
             t == IF CanRequireWaitUser(forge.s, q) THEN RequireWaitUser(forge.s, q) ELSE forge.s
  <2>1. panels' = panels \cup {[q |-> x, tool |-> FALSE] : x \in t.waitUser}
    <3>1. Show([forge EXCEPT !.s = t, !.grillRun = t.stage \in {"GRILL", "WAIT_USER"}].s, FALSE)
      BY <1>2 DEF GrillAsks, Asks
    <3>2. [forge EXCEPT !.s = t, !.grillRun = t.stage \in {"GRILL", "WAIT_USER"}].s = t
      BY DEF IInv, Sound, Fields, NewForge
    <3> QED
      BY <3>1, <3>2 DEF Show
  <2>2. forge.s.waitUser = {}
    <3>1. forge.s.stage = "GRILL"
      BY <1>2 DEF GrillAsks, GrillLive
    <3> QED
      BY <3>1, StageShown DEF IInv, Sound
  <2>3. \A x \in t.waitUser : x.kind = "grill_confirmation"
    BY <2>2 DEF RequireWaitUser, Ask, IInv, Sound, Healthy, Good, WellFormed, IsSession, NewSession
  <2> HIDE DEF t
  <2> QED
    BY <1>1, <2>1, <2>3 DEF DeepKinds, BuildKinds
<1>3. \/ panels' = panels \/ \E d : GrillAsks(d) \/ \E s : Show(s, TRUE)
  BY DEF Agent, GrillAsks, GrillReady, GrillOmitted, SearchBatch, TargetUnclear, DeepAsks,
         DeepNeedsDiscovery, RetrievalComplete, UnderstandingComplete, ContextStale, ContextAsks,
         ContextComplete, AdrAsks, AdrComplete, Asks, Does
<1> QED
  BY <1>1, <1>2, <1>3 DEF Show

\* Nobody else opens one.
LEMMA UserPanels ==
  ASSUME User
  PROVE  panels' \subseteq panels
BY DEF User, AnswerPanel, PanelsAfter, TypeAnswer, ReadIntent, ApproveRequest, ConfirmQuestion,
       RejectQuestion, DismissPanel, TypeRequest, ReadOtherIntent, Prompt, ContinueContext,
       ContinueDeep, ContinueGrill, Retry, CancelWorkflow, ConfirmNothing, RejectNothing, Does

\* Every step keeps to it.
LEMMA NextOnTrack ==
  ASSUME IInv, PanelOfTheQuestion, OnTrack, [Next]_vars, Commands \cap {"confirm", "reject"} = {}
  PROVE  OnTrack'
<1>1. ASSUME Orderly,
             \A p \in panels' : /\ p.tool => p \in panels \/ run # "idle"
                                /\ p.q.kind \in DeepKinds \cup BuildKinds => p.tool
      PROVE  OnTrack'
  <2>1. \A p \in panels' : p.tool => run' # "idle"
    BY <1>1 DEF OnTrack, Orderly
  <2> QED
    BY <1>1, <2>1, OrderlyOnTrack DEF OnTrack
<1>2. \A p \in panels : p.q.kind \in DeepKinds \cup BuildKinds => p.tool
  BY DEF OnTrack
<1>3. CASE Agent
  BY <1>1, <1>3, AgentOrderly, AgentPanels
<1>4. CASE User
  BY <1>1, <1>2, <1>4, UserOrderly, UserPanels
<1>5. CASE FireDeepTimer \/ FireBuildTimer \/ FireDiscoveryTimer
  <2>1. panels' = panels
    BY <1>5 DEF FireDeepTimer, FireBuildTimer, FireDiscoveryTimer
  <2> QED
    BY <1>1, <1>2, <1>5, <2>1, FireOrderly
<1>6. CASE UNCHANGED vars
  <2>1. forge' = forge /\ Quiet /\ panels' = panels
    BY <1>6 DEF vars, Quiet
  <2>2. Leaves(forge, forge')
    BY <2>1 DEF Leaves, Unmarked
  <2> QED
    BY <1>1, <1>2, <2>1, <2>2, QuietOrderly
<1> QED
  BY <1>3, <1>4, <1>5, <1>6, DeliverOnTrack, SettleOnTrack DEF Next, Host

\* In a terminal whose user answers questions, and neither confirms nor rejects
\* them by a command, the gate that keeps the agent from the tools of its live
\* attempt opens by something that is under way, unless the host has refused to
\* take the invocation that would open it.
THEOREM ForgeClosedGateWillOpen ==
  ASSUME ModalPanels, Commands \cap {"confirm", "reject"} = {}
  PROVE  Spec => []ClosedGateWillOpen
<1>1. Init => OnTrack
  BY DEF Init, OnTrack, NewForge
<1>2. IInv /\ PanelOfTheQuestion /\ OnTrack /\ [Next]_vars => OnTrack'
  BY NextOnTrack
<1>3. IInv /\ OnTrack => ClosedGateWillOpen
  BY DEF OnTrack, ClosedGateWillOpen, GateClosed, DeepGate, BuildGate
<1> QED
  BY <1>1, <1>2, <1>3, ForgeInvariant, ForgePanelOfTheQuestion, PTL DEF Spec

=============================================================================
