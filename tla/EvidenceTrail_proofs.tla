------------------------ MODULE EvidenceTrail_proofs ------------------------
(***************************************************************************)
(* What holds of the evidence for every set of documents and snapshots,    *)
(* every number of rounds, attempts and decisions, and every order of the  *)
(* agent's calls, the user's answers and the commands.                     *)
(*                                                                         *)
(* The invariant has five parts. Base is what a store may hold: the        *)
(* session is good and grounded, what is kept was read, found or said, and *)
(* EverythingTracesBack and NoDocumentNoClaim hold. Rested and Founded     *)
(* follow the documents a claim rests on: the first question of a snapshot *)
(* cites one unless there is none, so that a premise has one behind it,    *)
(* and Deep Knowledge begins with one; NoDocumentNoClaim needs both.       *)
(* Forward and Straight are about a workflow that was never sent back: no  *)
(* evidence is read after the lock, and what the user's decisions cite is  *)
(* on offer when the package is made. HonestCompletionPasses follows from  *)
(* them.                                                                   *)
(*                                                                         *)
(* The session's own steps come from SessionCalls_proofs; here is, for     *)
(* each, what it does to the fields the invariant reads.                   *)
(***************************************************************************)
EXTENDS EvidenceTrail, SessionCalls_proofs

-----------------------------------------------------------------------------
(* The inductive invariant.                                                *)

\* The panel shows the stage of the workflow, or the Grill after a rejection.
Shown == session.stage = session.orch \/ session.stage = "GRILL"

\* Questions of the Grill that are pending are of the current round and undecided.
Undecided ==
  \A q \in session.waitUser :
    q.kind \in {"grill_confirmation", "relevance_clarification"} =>
      ~AnsweredBefore(session, q) /\ q.round \in CurrentRoundId(session)

\* The trail holds what it may.
Trailed ==
  /\ DOMAIN trail = DOMAIN NewTrail
  /\ trail.manifest \in Manifests \cup {{}}
  /\ {trail.relevant, trail.grillRun, trail.consent, sentBack} \subseteq BOOLEAN
  /\ trail.fallback \subseteq Questions
  /\ {d.id : d \in trail.citedBy} \subseteq AllDecisionIds
  /\ \A p \in trail.package : p.level \in {"none", "given", "exploratory"}

\* What is stored was read or found, or said.
Gathered ==
  /\ session.fetched \cup session.supplemental \cup trail.keptGrill \cup trail.keptDeep \subseteq seen
  /\ seen \subseteq EvidenceIds \cap (Documents \X {"snapshot", "search"})
  /\ trail.fallback \subseteq session.answered

Base == /\ Good(session) /\ Grounded(session) /\ Shown /\ Undecided
        /\ Trailed /\ Gathered /\ EverythingTracesBack /\ NoDocumentNoClaim

\* Premises rest on documents, unless there are none.
Rested ==
  /\ \A r \in session.round : r.id # r.snapshot => session.premises # {} /\ trail.manifest # {}
  /\ session.premises # {} /\ trail.manifest # {} =>
       \E d \in trail.citedBy : d.cites \cap session.fetched # {}
  /\ \A q \in session.waitUser : q.kind = "grill_confirmation" =>
       IF trail.manifest = {} THEN q.id = ConsentId
       ELSE session.premises # {} \/ trail.cites \cap session.fetched # {}

\* The workflow is in Deep Knowledge.
Deepened ==
  \/ session.stage \in DeepPhases \/ session.deep # {}
  \/ \E q \in session.waitUser : q.kind \in {"deep_decision", "deep_discovery_fallback"}

\* Deep Knowledge begins with a document, unless there are none, and what is lacking
\* is counted as long as everything is kept.
Founded ==
  /\ Deepened /\ trail.manifest # {} => session.fetched # {}
  /\ \A l \in session.locked : trail.manifest # {} => l.inherited # {}
  /\ trail.fallback # {} \/ (\E q \in session.waitUser : q.kind = "deep_discovery_fallback") =>
       session.discoveries >= 1
  /\ session.discoveries >= 1 =>
       session.fetched \subseteq trail.keptGrill /\ session.supplemental \subseteq trail.keptDeep

Past == session.locked # {} \/ trail.fallback # {}
Building == {"CONTEXT_BUILD", "ADR_BUILD", "TO_SPEC"}
BuildKinds == {"context_ambiguity", "adr_ambiguity"}

Beyond ==
  \/ session.stage \in {"KNOWLEDGE_UNDERSTANDING"} \cup Building
  \/ \E q \in session.waitUser :
       \/ q.kind \in BuildKinds
       \/ q.kind = "deep_decision" /\ session.retryPhase = {"KNOWLEDGE_UNDERSTANDING"}

Lost == Beyond /\ ~Past

Forward ==
  ~sentBack =>
    /\ session.stage = session.orch
    /\ Past => /\ session.stage \in {"KNOWLEDGE_UNDERSTANDING", "WAIT_USER"} \cup Building
               /\ Beyond \/ \E q \in session.waitUser : q.kind = "deep_discovery_fallback"
    /\ \A l \in session.locked : l.inherited = session.fetched /\ l.supplemental = session.supplemental
    /\ \A a \in session.deep : a.phase = session.stage
    /\ Lost => session.discoveries = 0
    /\ trail.package # {} => session.stage \in Building \/ \E q \in session.waitUser : q.kind \in BuildKinds
    /\ \A q \in session.waitUser : q.kind = "deep_decision" => session.retryPhase # {}
    /\ session.stage \in DeepPhases /\ session.deep = {} =>
         session.retryPhase = {} /\ session.resumePhase = {session.stage}

Offered ==
  session.fetched \cup session.supplemental
    \cup (IF session.locked = {} /\ trail.fallback # {} THEN trail.keptGrill \cup trail.keptDeep ELSE {})

Straight ==
  ~sentBack /\ trail.package = {} /\ ~Lost =>
    trail.cites \cup UNION {d.cites : d \in trail.citedBy} \subseteq Offered

Inv == Base /\ Rested /\ Founded /\ Forward /\ Straight

-----------------------------------------------------------------------------
(* What the methods of a session do to the fields the invariant reads.     *)

Stands(s) == Good(s) /\ Grounded(s)

SameEvidence(s, t) ==
  t.fetched = s.fetched /\ t.supplemental = s.supplemental /\ t.locked = s.locked
SameSaid(s, t) ==
  t.answered = s.answered /\ t.decisions = s.decisions /\ t.premises = s.premises
SameDeep(s, t) ==
  /\ t.deep = s.deep /\ t.retryPhase = s.retryPhase /\ t.resumePhase = s.resumePhase
  /\ t.discoveries = s.discoveries

Moved(t, stage) == t.orch = stage /\ t.stage = stage

\* A quiet step stands.
LEMMA QuietStands ==
  ASSUME NEW s, Stands(s), NEW t, Step(s, t), QuietCall(s, t)
  PROVE  Stands(t)
BY QuietStep DEF Stands, Step, GroundedStep

\* beginLightDiscovery, startGrillRound and beginGrill open a snapshot.
LEMMA OpenFields ==
  ASSUME NEW s, Stands(s), CanBeginLightDiscovery(s)
  PROVE  LET t == BeginGrill(StartGrillRound(BeginLightDiscovery(s), TRUE))
         IN  /\ Stands(t) /\ Moved(t, "GRILL") /\ t.waitUser = {}
             /\ t.round = {[id |-> s.nextRound, snapshot |-> s.nextRound]}
             /\ t.answered = s.answered /\ t.premises = {}
             /\ t.fetched = {} /\ t.supplemental = {} /\ t.locked = {}
             /\ t.deep = {} /\ t.discoveries = s.discoveries
<1> DEFINE u == BeginLightDiscovery(s)
           v == StartGrillRound(u, TRUE)
           t == BeginGrill(v)
<1>1. Good(s) /\ Grounded(s) /\ s.waitUser = {}
  BY MovesFromWaitUser DEF Stands, CanBeginLightDiscovery, Good, Waiting
<1>2. Stands(u)
  BY <1>1, BeginLightDiscoveryStep, QuietInGrill, QuietStands
<1>3. /\ Moved(u, "LIGHT_DISCOVERY") /\ u.waitUser = {} /\ u.answered = s.answered
      /\ u.discoveries = s.discoveries /\ u.nextRound = s.nextRound
  BY <1>1 DEF BeginLightDiscovery, MoveTo, Moved, Good, WellFormed, IsSession, NewSession
<1>4. Stands(v)
  <2>1. TRUE \in BOOLEAN
    OBVIOUS
  <2>2. Good(u) /\ Grounded(u)
    BY <1>2 DEF Stands
  <2> HIDE DEF u
  <2> QED
    BY <2>1, <2>2, StartGrillRoundStep, StartGrillRoundGrounded DEF Stands, Step, GroundedStep
<1> HIDE DEF u
<1>5. /\ v.orch = "LIGHT_DISCOVERY" /\ v.waitUser = {}
      /\ v.round = {[id |-> s.nextRound, snapshot |-> s.nextRound]}
      /\ v.answered = s.answered /\ v.premises = {}
      /\ v.fetched = {} /\ v.supplemental = {} /\ v.locked = {}
      /\ v.deep = {} /\ v.discoveries = s.discoveries
  BY <1>2, <1>3 DEF StartGrillRound, ForgetSnapshot, Moved, Stands, Good, WellFormed, IsSession,
                    NewSession
<1> HIDE DEF v
<1>6. CanBeginGrill(v)
  BY <1>5 DEF CanBeginGrill, CanMove, LegalTransitions
<1>7. Stands(t)
  <2>1. Good(v) /\ Grounded(v)
    BY <1>4 DEF Stands
  <2> QED
    BY <1>4, <1>6, <2>1, BeginGrillStep, QuietInGrill, QuietStands
<1>8. /\ Moved(t, "GRILL") /\ t.waitUser = v.waitUser /\ t.round = v.round
      /\ t.answered = v.answered /\ t.premises = v.premises /\ SameEvidence(v, t)
      /\ t.deep = v.deep /\ t.discoveries = v.discoveries
  BY <1>4 DEF BeginGrill, MoveTo, Moved, SameEvidence, Stands, Good, WellFormed, IsSession,
              NewSession
<1> HIDE DEF t
<1>9. /\ Stands(t) /\ Moved(t, "GRILL") /\ t.waitUser = {}
      /\ t.round = {[id |-> s.nextRound, snapshot |-> s.nextRound]}
      /\ t.answered = s.answered /\ t.premises = {}
      /\ t.fetched = {} /\ t.supplemental = {} /\ t.locked = {}
      /\ t.deep = {} /\ t.discoveries = s.discoveries
  BY <1>5, <1>7, <1>8 DEF SameEvidence
<1> QED
  BY <1>9 DEF t, v, u

\* A further round on the same snapshot.
LEMMA NextRoundFields ==
  ASSUME NEW s, Stands(s), s.round # {}
  PROVE  LET t == StartGrillRound(s, FALSE)
         IN  /\ Stands(t) /\ t.orch = s.orch /\ t.stage = s.stage /\ t.waitUser = s.waitUser
             /\ \E r \in s.round : t.round = {[id |-> s.nextRound, snapshot |-> r.snapshot]}
             /\ SameSaid(s, t) /\ SameEvidence(s, t)
             /\ t.deep = {} /\ t.discoveries = s.discoveries
<1> DEFINE t == StartGrillRound(s, FALSE)
<1>1. Stands(t)
  <2>1. FALSE \in BOOLEAN
    OBVIOUS
  <2> QED
    BY <2>1, StartGrillRoundStep, StartGrillRoundGrounded DEF Stands, Step, GroundedStep
<1>2. The(s.round) \in s.round
  BY TheMember
<1>3. /\ t.orch = s.orch /\ t.stage = s.stage /\ t.waitUser = s.waitUser
      /\ t.round = {[id |-> s.nextRound, snapshot |-> The(s.round).snapshot]}
      /\ SameSaid(s, t) /\ SameEvidence(s, t)
      /\ t.deep = {} /\ t.discoveries = s.discoveries
  BY DEF StartGrillRound, SameSaid, SameEvidence, Stands, Good, WellFormed, IsSession, NewSession
<1> QED
  BY <1>1, <1>2, <1>3

\* requireWaitUser asks q, which was neither answered nor decided.
LEMMA AskFields ==
  ASSUME NEW s, Stands(s), NEW q \in Questions,
         q.kind \in {"grill_confirmation", "relevance_clarification"},
         CanRequireWaitUser(s, q), ~AnsweredBefore(s, q)
  PROVE  LET t == RequireWaitUser(s, q)
         IN  /\ Stands(t) /\ Moved(t, "WAIT_USER") /\ t.waitUser = {q}
             /\ q.round \in CurrentRoundId(s) /\ t.round = s.round
             /\ SameSaid(s, t) /\ SameEvidence(s, t) /\ SameDeep(s, t)
<1> DEFINE t == RequireWaitUser(s, q)
<1>1. Stands(t)
  BY RequireWaitUserStep, QuietRequireWaitUser, QuietStands DEF Stands
<1>2. q.round \in CurrentRoundId(s)
  BY DEF CanRequireWaitUser
<1>3. /\ Moved(t, "WAIT_USER") /\ t.waitUser = {q} /\ t.round = s.round
      /\ SameSaid(s, t) /\ SameEvidence(s, t) /\ SameDeep(s, t)
  BY DEF RequireWaitUser, Ask, MoveTo, Moved, SameSaid, SameEvidence, SameDeep, Stands, Good,
         WellFormed, IsSession, NewSession
<1> QED
  BY <1>1, <1>2, <1>3

\* beginDeepKnowledge and retryDeepKnowledge begin an attempt in a phase.
LEMMA AttemptFields ==
  ASSUME NEW s, Stands(s), NEW phase \in DeepPhases, s.round # {},
         NEW t, t = NewDeepAttempt([MoveTo(s, phase) EXCEPT !.waitUser = {}], phase)
  PROVE  /\ Stands(t) /\ Moved(t, phase) /\ t.waitUser = {} /\ t.round = s.round
         /\ SameSaid(s, t) /\ SameEvidence(s, t) /\ t.discoveries = s.discoveries
         /\ t.deep # {} /\ \A a \in t.deep : a.phase = phase
         /\ t.retryPhase = {} /\ t.resumePhase = {}
<1>1. Step(s, t)
  BY NewDeepAttemptStep DEF Stands
<1>2. QuietCall(s, t)
  BY DEF QuietCall, NewDeepAttempt, MoveTo, Stands, Good, WellFormed, IsSession, NewSession
<1>3. /\ Moved(t, phase) /\ t.waitUser = {} /\ t.round = s.round
      /\ SameSaid(s, t) /\ SameEvidence(s, t) /\ t.discoveries = s.discoveries
      /\ t.retryPhase = {} /\ t.resumePhase = {}
  BY DEF NewDeepAttempt, MoveTo, Moved, SameSaid, SameEvidence, Stands, Good,
         WellFormed, IsSession, NewSession
<1>4. Stands(t)
  BY <1>1, <1>2, QuietStands
<1> DEFINE new == [id |-> s.nextDeep, round |-> The(s.round).id, phase |-> phase]
<1>5. t.deep = {new}
  BY DEF NewDeepAttempt, MoveTo, Stands, Good, WellFormed, IsSession, NewSession
<1>6. new.phase = phase
  OBVIOUS
<1> HIDE DEF new
<1>7. t.deep # {} /\ \A a \in t.deep : a.phase = phase
  BY <1>5, <1>6
<1> QED
  BY <1>3, <1>4, <1>7

\* beginDeepKnowledge, whether or not the stage allows it.
LEMMA BeginDeepFields ==
  ASSUME NEW s, Stands(s), NEW phase \in DeepPhases, s.round # {}
  PROVE  LET t == BeginDeepKnowledge(s, phase)
         IN  /\ Stands(t) /\ Moved(t, phase) /\ t.waitUser = {} /\ t.round = s.round
             /\ SameSaid(s, t) /\ SameEvidence(s, t) /\ t.discoveries = s.discoveries
             /\ t.deep # {} /\ \A a \in t.deep : a.phase = phase
             /\ t.retryPhase = {} /\ t.resumePhase = {}
BY AttemptFields DEF BeginDeepKnowledge

\* retryDeepKnowledge, when there is a phase to retry.
LEMMA RetryFields ==
  ASSUME NEW s, Stands(s), s.round # {}, RetryPhase(s) # {}
  PROVE  LET t == RetryDeepKnowledge(s)
         IN  \E phase \in RetryPhase(s) :
               /\ Stands(t) /\ Moved(t, phase) /\ t.waitUser = {} /\ t.round = s.round
               /\ SameSaid(s, t) /\ SameEvidence(s, t) /\ t.discoveries = s.discoveries
               /\ t.deep # {} /\ \A a \in t.deep : a.phase = phase
               /\ t.retryPhase = {} /\ t.resumePhase = {}
<1> DEFINE phase == The(RetryPhase(s))
           t == RetryDeepKnowledge(s)
<1>1. phase \in RetryPhase(s)
  BY TheMember
<1>2. phase \in DeepPhases
  BY <1>1 DEF RetryPhase, Stands, Good, WellFormed, IsSession
<1>3. t = NewDeepAttempt([MoveTo(s, phase) EXCEPT !.waitUser = {}], phase)
  BY DEF RetryDeepKnowledge
<1> HIDE DEF t, phase
<1>4. /\ Stands(t) /\ Moved(t, phase) /\ t.waitUser = {} /\ t.round = s.round
      /\ SameSaid(s, t) /\ SameEvidence(s, t) /\ t.discoveries = s.discoveries
      /\ t.deep # {} /\ \A a \in t.deep : a.phase = phase
      /\ t.retryPhase = {} /\ t.resumePhase = {}
  BY <1>2, <1>3, AttemptFields
<1>5. \E p \in RetryPhase(s) :
        /\ Stands(t) /\ Moved(t, p) /\ t.waitUser = {} /\ t.round = s.round
        /\ SameSaid(s, t) /\ SameEvidence(s, t) /\ t.discoveries = s.discoveries
        /\ t.deep # {} /\ \A a \in t.deep : a.phase = p
        /\ t.retryPhase = {} /\ t.resumePhase = {}
  BY <1>1, <1>4
<1> QED
  BY <1>5 DEF t

\* recordAnswer on the pending question: an acceptable answer is kept.
LEMMA AnswerFields ==
  ASSUME NEW s, Stands(s), NEW q \in s.waitUser, q.kind # "grill_checkpoint",
         NEW answer \in Answers, Acceptable(s, q, answer), NEW t, t = RecordAnswer(s, answer)
  PROVE  /\ Stands(t) /\ t.round = s.round /\ SameEvidence(s, t) /\ SameDeep(s, t)
         /\ t.answered = s.answered \cup {q}
         /\ q.kind = "grill_confirmation" =>
              /\ t.premises = s.premises \cup {q}
              /\ \A p \in t.waitUser : p.kind = "grill_checkpoint"
              /\ Moved(t, "GRILL") \/ Moved(t, "WAIT_USER")
         /\ q.kind # "grill_confirmation" => t.premises = s.premises /\ t.waitUser = {}
         /\ q.kind = "relevance_clarification" => Moved(t, "USER_CONFIRMED")
         /\ q.kind = "deep_decision" => Moved(t, "GRILL")
         /\ q.kind = "context_ambiguity" => Moved(t, "CONTEXT_BUILD")
         /\ q.kind = "adr_ambiguity" => Moved(t, "ADR_BUILD")
<1> DEFINE u == Remember(s, q, answer)
<1>1. s.orch = "WAIT_USER" /\ q = The(s.waitUser) /\ q.kind \in QuestionKinds
  BY TheMember DEF Stands, Good, Waiting, WellFormed, AtMostOne, IsSession, Questions
<1>2. t = Proceed(u, q)
  BY <1>1 DEF RecordAnswer
<1>3. Stands(t)
  BY RecordAnswerStep, RecordAnswerGrounded DEF Stands, Step, GroundedStep
<1>4. /\ DOMAIN u = DOMAIN NewSession /\ u.round = s.round /\ SameEvidence(s, u) /\ SameDeep(s, u)
      /\ u.answered = s.answered \cup {q}
      /\ q.kind = "grill_confirmation" => u.premises = s.premises \cup {q}
      /\ q.kind # "grill_confirmation" => u.premises = s.premises
  BY DEF Remember, SameEvidence, SameDeep, Stands, Good, WellFormed, IsSession, NewSession
<1> HIDE DEF u
<1>5. /\ t.round = u.round /\ SameEvidence(u, t) /\ SameDeep(u, t)
      /\ t.answered = u.answered /\ t.premises = u.premises
  BY <1>1, <1>2, <1>4 DEF Proceed, Ask, MoveTo, SameEvidence, SameDeep, QuestionKinds, NewSession
<1>6. /\ q.kind = "grill_confirmation" =>
           /\ \A p \in t.waitUser : p.kind = "grill_checkpoint"
           /\ Moved(t, "GRILL") \/ Moved(t, "WAIT_USER")
      /\ q.kind # "grill_confirmation" => t.waitUser = {}
      /\ q.kind = "relevance_clarification" => Moved(t, "USER_CONFIRMED")
      /\ q.kind = "deep_decision" => Moved(t, "GRILL")
      /\ q.kind = "context_ambiguity" => Moved(t, "CONTEXT_BUILD")
      /\ q.kind = "adr_ambiguity" => Moved(t, "ADR_BUILD")
  BY <1>1, <1>2, <1>4 DEF Proceed, Checkpoint, Ask, MoveTo, Moved, QuestionKinds, NewSession
<1>7. t.round = s.round /\ SameEvidence(s, t) /\ SameDeep(s, t)
  BY <1>4, <1>5 DEF SameEvidence, SameDeep
<1> QED
  BY <1>3, <1>4, <1>5, <1>6, <1>7

\* An answer that is not acceptable changes nothing.
LEMMA RefusedAnswer ==
  ASSUME NEW s, Stands(s), NEW q \in s.waitUser, NEW answer, ~Acceptable(s, q, answer)
  PROVE  RecordAnswer(s, answer) = s
<1>1. s.orch = "WAIT_USER" /\ q = The(s.waitUser)
  BY TheMember DEF Stands, Good, Waiting, WellFormed, AtMostOne
<1> QED
  BY <1>1 DEF RecordAnswer

\* An answer to any other question is refused, or takes the workflow where it was.
LEMMA LaterAnswerFields ==
  ASSUME NEW s, Stands(s), NEW q \in s.waitUser, NEW answer \in Answers,
         q.kind \in {"context_ambiguity", "adr_ambiguity", "deep_decision", "deep_discovery_fallback"},
         NEW t, t = RecordAnswer(s, answer)
  PROVE  /\ Stands(t) /\ t.round = s.round /\ SameEvidence(s, t) /\ SameDeep(s, t)
         /\ t.premises = s.premises /\ s.answered \subseteq t.answered
         /\ t.answered \subseteq s.answered \cup {q}
         /\ \/ t = s /\ ~Acceptable(s, q, answer)
            \/ /\ t.answered = s.answered \cup {q} /\ t.waitUser = {}
               /\ q.kind = "context_ambiguity" => Moved(t, "CONTEXT_BUILD")
               /\ q.kind = "adr_ambiguity" => Moved(t, "ADR_BUILD")
               /\ q.kind = "deep_decision" => Moved(t, "GRILL")
<1>1. CASE ~Acceptable(s, q, answer)
  BY <1>1, RefusedAnswer DEF SameEvidence, SameDeep
<1>2. CASE Acceptable(s, q, answer)
  BY <1>2, AnswerFields
<1> QED
  BY <1>1, <1>2

\* A Deep attempt asks the user and is over.
LEMMA NeedDecisionFields ==
  ASSUME NEW s, Stands(s), NEW a \in s.deep, NEW d \in AllDecisionIds, CanNeedDecision(s, a)
  PROVE  LET t == NeedDecision(s, a, d)
         IN  /\ Stands(t) /\ Moved(t, "WAIT_USER") /\ t.round = s.round
             /\ t.waitUser # {} /\ \A q \in t.waitUser : q.kind = "deep_decision"
             /\ SameSaid(s, t) /\ SameEvidence(s, t) /\ t.discoveries = s.discoveries
             /\ t.deep = {} /\ t.retryPhase = {a.phase}
<1> DEFINE t == NeedDecision(s, a, d)
<1>1. Stands(t)
  BY NeedDecisionStep, QuietDeepResult, QuietStands DEF Stands
<1>2. /\ Moved(t, "WAIT_USER") /\ t.round = s.round
      /\ t.waitUser = {[kind |-> "deep_decision", round |-> a.id, id |-> d]}
      /\ SameSaid(s, t) /\ SameEvidence(s, t) /\ t.discoveries = s.discoveries
      /\ t.deep = {} /\ t.retryPhase = {a.phase}
  BY DEF NeedDecision, Ask, MoveTo, Moved, SameSaid, SameEvidence, Stands, Good, WellFormed,
         IsSession, NewSession
<1> QED
  BY <1>1, <1>2

\* A Deep attempt lacks sources: the first time Light Discovery looks again, later
\* the user is asked.
LEMMA NeedDiscoveryFields ==
  ASSUME NEW s, Stands(s), NEW a \in s.deep, s.orch \in DeepPhases
  PROVE  LET t == NeedDiscovery(s, a)
         IN  /\ Stands(t) /\ t.round = s.round /\ t.deep = {}
             /\ SameSaid(s, t) /\ SameEvidence(s, t) /\ t.discoveries = s.discoveries + 1
             /\ IF s.discoveries + 1 >= 2
                  THEN /\ Moved(t, "WAIT_USER")
                       /\ t.waitUser # {} /\ \A q \in t.waitUser : q.kind = "deep_discovery_fallback"
                  ELSE Moved(t, "LIGHT_DISCOVERY")
<1> DEFINE t == NeedDiscovery(s, a)
           fallback == [kind |-> "deep_discovery_fallback", round |-> a.round,
                        id |-> <<"fallback", a.id>>]
<1>1. Stands(t)
  BY NeedDiscoveryStep, QuietDeepResult, QuietStands DEF Stands
<1>2. CanMove(s.orch, "WAIT_USER") /\ CanMove(s.orch, "LIGHT_DISCOVERY")
  BY DEF CanMove, LegalTransitions, DeepPhases
<1>3. /\ t.round = s.round /\ t.deep = {}
      /\ SameSaid(s, t) /\ SameEvidence(s, t) /\ t.discoveries = s.discoveries + 1
      /\ IF s.discoveries + 1 >= 2 THEN Moved(t, "WAIT_USER") /\ t.waitUser = {fallback}
                                   ELSE Moved(t, "LIGHT_DISCOVERY")
  BY <1>2 DEF NeedDiscovery, Ask, MoveTo, Moved, SameSaid, SameEvidence, Stands, Good, WellFormed,
              IsSession, NewSession
<1>4. fallback.kind = "deep_discovery_fallback"
  OBVIOUS
<1> QED
  BY <1>1, <1>3, <1>4

\* completeDeepRetrieval locks what was read and found.
LEMMA RetrievalFields ==
  ASSUME NEW s, Stands(s), NEW a \in s.deep, CanCompleteDeepKnowledge(s, a)
  PROVE  LET t == CompleteDeepRetrieval(s, a, s.fetched)
         IN  /\ Stands(t) /\ Moved(t, "KNOWLEDGE_UNDERSTANDING") /\ t.waitUser = {}
             /\ t.round = s.round /\ SameSaid(s, t)
             /\ t.fetched = s.fetched /\ t.supplemental = s.supplemental
             /\ t.locked = {[inherited |-> s.fetched, supplemental |-> s.supplemental]}
             /\ t.deep # {} /\ \A b \in t.deep : b.phase = "KNOWLEDGE_UNDERSTANDING"
             /\ t.retryPhase = s.retryPhase /\ t.resumePhase = s.resumePhase
             /\ t.discoveries = s.discoveries
<1> DEFINE t == CompleteDeepRetrieval(s, a, s.fetched)
<1>1. Stands(t)
  BY CompleteDeepRetrievalStep, CompleteDeepRetrievalGrounded DEF Stands, Step, GroundedStep
<1>2. a \in DeepAttempts
  BY DEF Stands, Good, WellFormed, IsSession
<1>3. /\ Moved(t, "KNOWLEDGE_UNDERSTANDING") /\ t.waitUser = {}
      /\ t.round = s.round /\ SameSaid(s, t)
      /\ t.fetched = s.fetched /\ t.supplemental = s.supplemental
      /\ t.locked = {[inherited |-> s.fetched, supplemental |-> s.supplemental]}
      /\ t.deep = {[a EXCEPT !.phase = "KNOWLEDGE_UNDERSTANDING"]}
      /\ t.retryPhase = s.retryPhase /\ t.resumePhase = s.resumePhase
      /\ t.discoveries = s.discoveries
  BY DEF CompleteDeepRetrieval, CompleteDeepKnowledge, MoveTo, Moved, SameSaid, Stands, Good,
         WellFormed, IsSession, NewSession
<1>4. [a EXCEPT !.phase = "KNOWLEDGE_UNDERSTANDING"].phase = "KNOWLEDGE_UNDERSTANDING"
  BY <1>2 DEF DeepAttempts
<1> QED
  BY <1>1, <1>3, <1>4

\* A completed Understanding hands the package on to the Context build.
LEMMA UnderstandingFields ==
  ASSUME NEW s, Stands(s), NEW a \in s.deep, CanCompleteUnderstanding(s, a)
  PROVE  LET t == CompleteUnderstanding(s, a)
         IN  /\ Stands(t) /\ Moved(t, "CONTEXT_BUILD") /\ t.waitUser = {} /\ t.round = s.round
             /\ SameSaid(s, t) /\ SameEvidence(s, t) /\ t.deep = {}
             /\ t.discoveries = s.discoveries
<1> DEFINE t == CompleteUnderstanding(s, a)
<1>1. Stands(t)
  BY CompleteUnderstandingStep, CompleteUnderstandingGrounded DEF Stands, Step, GroundedStep
<1>2. /\ Moved(t, "CONTEXT_BUILD") /\ t.waitUser = {} /\ t.round = s.round
      /\ SameSaid(s, t) /\ SameEvidence(s, t) /\ t.deep = {}
      /\ t.discoveries = s.discoveries
  BY DEF CompleteUnderstanding, MoveTo, Moved, SameSaid, SameEvidence, Stands, Good, WellFormed,
         IsSession, NewSession
<1> QED
  BY <1>1, <1>2

\* cancelDeepKnowledge stays in the phase of the attempt, of the retry or of the panel.
LEMMA CancelFields ==
  ASSUME NEW s, Stands(s)
  PROVE  LET t == CancelDeepKnowledge(s)
         IN  /\ Stands(t) /\ t.waitUser = {} /\ t.round = s.round
             /\ SameSaid(s, t) /\ SameEvidence(s, t)
             /\ t.deep = {} /\ t.retryPhase = {} /\ t.discoveries = 0
             /\ t.orch = t.stage /\ t.resumePhase = {t.stage} /\ t.stage \in DeepPhases
             /\ \/ \E a \in s.deep : t.stage = a.phase
                \/ s.deep = {} /\ t.stage \in s.retryPhase
                \/ /\ s.deep = {} /\ s.retryPhase = {}
                   /\ t.stage = "KNOWLEDGE_UNDERSTANDING" <=> s.stage = "KNOWLEDGE_UNDERSTANDING"
<1> DEFINE phases == {a.phase : a \in s.deep}
           phase  == IF phases # {} THEN The(phases)
                     ELSE IF s.retryPhase # {} THEN The(s.retryPhase)
                     ELSE IF s.stage = "KNOWLEDGE_UNDERSTANDING"
                            THEN "KNOWLEDGE_UNDERSTANDING" ELSE "DEEP_KNOWLEDGE_RETRIEVAL"
           t == CancelDeepKnowledge(s)
<1>1. Stands(t)
  BY CancelDeepKnowledgeStep, QuietDeepKnowledge, QuietStands DEF Stands
<1>2. /\ t.waitUser = {} /\ t.round = s.round
      /\ SameSaid(s, t) /\ SameEvidence(s, t)
      /\ t.deep = {} /\ t.retryPhase = {} /\ t.discoveries = 0
      /\ t.orch = phase /\ t.stage = phase /\ t.resumePhase = {phase}
  BY DEF CancelDeepKnowledge, MoveTo, SameSaid, SameEvidence, Stands, Good, WellFormed,
         IsSession, NewSession
<1>3. \/ \E a \in s.deep : phase = a.phase
      \/ s.deep = {} /\ phase \in s.retryPhase
      \/ /\ s.deep = {} /\ s.retryPhase = {} /\ phase \in DeepPhases
         /\ phase = "KNOWLEDGE_UNDERSTANDING" <=> s.stage = "KNOWLEDGE_UNDERSTANDING"
  <2>1. CASE phases # {}
    <3>1. The(phases) \in phases
      BY <2>1, TheMember
    <3> QED
      BY <2>1, <3>1
  <2>2. CASE phases = {} /\ s.retryPhase # {}
    <3>1. The(s.retryPhase) \in s.retryPhase
      BY <2>2, TheMember
    <3> QED
      BY <2>2, <3>1
  <2>3. CASE phases = {} /\ s.retryPhase = {}
    BY <2>3 DEF DeepPhases
  <2> QED
    BY <2>1, <2>2, <2>3
<1>4. phase \in DeepPhases
  BY <1>3 DEF Stands, Good, WellFormed, IsSession, DeepAttempts
<1> HIDE DEF phase, t
<1>5. /\ t.orch = t.stage /\ t.resumePhase = {t.stage} /\ t.stage \in DeepPhases
      /\ \/ \E a \in s.deep : t.stage = a.phase
         \/ s.deep = {} /\ t.stage \in s.retryPhase
         \/ /\ s.deep = {} /\ s.retryPhase = {}
            /\ t.stage = "KNOWLEDGE_UNDERSTANDING" <=> s.stage = "KNOWLEDGE_UNDERSTANDING"
  BY <1>2, <1>3, <1>4
<1> QED
  BY <1>1, <1>2, <1>5 DEF t

\* The Context build asks, or hands on to the ADR build.
LEMMA ContextFields ==
  ASSUME NEW s, Stands(s), NEW b \in s.context, NEW d \in DecisionIds, CanBuildContext(s, b)
  PROVE  /\ LET t == ContextAmbiguous(s, b, d)
            IN  /\ Stands(t) /\ Moved(t, "WAIT_USER") /\ t.round = s.round
                /\ t.waitUser # {} /\ \A q \in t.waitUser : q.kind = "context_ambiguity"
                /\ SameSaid(s, t) /\ SameEvidence(s, t) /\ SameDeep(s, t)
         /\ LET t == CompleteContextBuild(s, b)
            IN  /\ Stands(t) /\ Moved(t, "ADR_BUILD") /\ t.round = s.round /\ t.waitUser = {}
                /\ SameSaid(s, t) /\ SameEvidence(s, t) /\ SameDeep(s, t)
<1>1. Stands(ContextAmbiguous(s, b, d)) /\ Stands(CompleteContextBuild(s, b))
  BY ContextAmbiguousStep, CompleteContextBuildStep, QuietBuilds, QuietStands DEF Stands
<1>2. LET t == ContextAmbiguous(s, b, d)
      IN  /\ Moved(t, "WAIT_USER") /\ t.round = s.round
          /\ t.waitUser = {[kind |-> "context_ambiguity", round |-> b.round, id |-> d]}
          /\ SameSaid(s, t) /\ SameEvidence(s, t) /\ SameDeep(s, t)
  BY DEF ContextAmbiguous, Ask, MoveTo, Moved, SameSaid, SameEvidence, SameDeep, Stands, Good,
         WellFormed, IsSession, NewSession
<1>3. LET t == CompleteContextBuild(s, b)
      IN  /\ Moved(t, "ADR_BUILD") /\ t.round = s.round /\ t.waitUser = {}
          /\ SameSaid(s, t) /\ SameEvidence(s, t) /\ SameDeep(s, t)
  BY DEF CompleteContextBuild, MoveTo, Moved, SameSaid, SameEvidence, SameDeep, Stands, Good,
         WellFormed, IsSession, NewSession
<1> QED
  BY <1>1, <1>2, <1>3

\* The ADR build asks, or ends the workflow.
LEMMA AdrFields ==
  ASSUME NEW s, Stands(s), NEW b \in s.adr, NEW d \in DecisionIds, CanBuildAdr(s, b)
  PROVE  /\ LET t == RequireAdrDecision(s, b, d)
            IN  /\ Stands(t) /\ Moved(t, "WAIT_USER") /\ t.round = s.round
                /\ t.waitUser # {} /\ \A q \in t.waitUser : q.kind = "adr_ambiguity"
                /\ SameSaid(s, t) /\ SameEvidence(s, t) /\ SameDeep(s, t)
         /\ LET t == FinalizeAdrBuild(PrepareAdrBuild(s))
            IN  CanFinalizeAdrBuild(PrepareAdrBuild(s), b) =>
                  /\ Stands(t) /\ Moved(t, "TO_SPEC") /\ t.round = s.round /\ t.waitUser = {}
                  /\ SameSaid(s, t) /\ SameEvidence(s, t) /\ t.deep = s.deep
                  /\ t.discoveries = s.discoveries
<1> DEFINE u == PrepareAdrBuild(s)
<1>1. Stands(RequireAdrDecision(s, b, d)) /\ Stands(u)
  BY RequireAdrDecisionStep, PrepareAdrBuildStep, QuietBuilds, QuietStands DEF Stands
<1>2. LET t == RequireAdrDecision(s, b, d)
      IN  /\ Moved(t, "WAIT_USER") /\ t.round = s.round
          /\ t.waitUser = {[kind |-> "adr_ambiguity", round |-> b.round, id |-> d]}
          /\ SameSaid(s, t) /\ SameEvidence(s, t) /\ SameDeep(s, t)
  BY DEF RequireAdrDecision, Ask, MoveTo, Moved, SameSaid, SameEvidence, SameDeep, Stands, Good,
         WellFormed, IsSession, NewSession
<1>3. LET t == FinalizeAdrBuild(u)
      IN  /\ Moved(t, "TO_SPEC") /\ t.round = s.round /\ t.waitUser = {}
          /\ SameSaid(s, t) /\ SameEvidence(s, t) /\ t.deep = s.deep
          /\ t.discoveries = s.discoveries
  BY DEF FinalizeAdrBuild, PrepareAdrBuild, MoveTo, Moved, SameSaid, SameEvidence, Stands, Good,
         WellFormed, IsSession, NewSession
<1>4. CanFinalizeAdrBuild(u, b) => b \in u.adr
  BY DEF CanFinalizeAdrBuild
<1> HIDE DEF u
<1>5. CanFinalizeAdrBuild(u, b) => Stands(FinalizeAdrBuild(u))
  BY <1>1, <1>4, FinalizeAdrBuildStep, QuietBuilds, QuietStands DEF Stands
<1> QED
  BY <1>1, <1>2, <1>3, <1>5 DEF u

\* reset and reject.
LEMMA ResetFields ==
  ASSUME NEW s, Stands(s)
  PROVE  LET t == Reset(s)
         IN  /\ Stands(t) /\ Moved(t, "RECEIVE") /\ t.waitUser = {} /\ t.round = {}
             /\ t.answered = {} /\ t.premises = {}
             /\ t.fetched = {} /\ t.supplemental = {} /\ t.locked = {}
             /\ t.deep = {} /\ t.discoveries = 0
<1>1. Stands(Reset(s))
  BY ResetStep, ResetGrounded DEF Stands, Step, GroundedStep
<1> QED
  BY <1>1 DEF Reset, NewSession, Moved

LEMMA RejectFields ==
  ASSUME NEW s, Stands(s), s.waitUser = {}
  PROVE  LET t == Reject(s)
         IN  /\ Stands(t) /\ t.orch = s.orch /\ t.stage = "GRILL" /\ t.waitUser = {}
             /\ t.round = s.round /\ SameSaid(s, t) /\ SameEvidence(s, t) /\ SameDeep(s, t)
<1>1. Stands(Reject(s))
  BY RejectStep, QuietInGrill, QuietStands DEF Stands
<1>2. s.orch # "WAIT_USER"
  BY DEF Stands, Good, Waiting
<1>3. LET t == Reject(s)
      IN  /\ t.orch = s.orch /\ t.stage = "GRILL" /\ t.waitUser = {}
          /\ t.round = s.round /\ SameSaid(s, t) /\ SameEvidence(s, t) /\ SameDeep(s, t)
  BY <1>2 DEF Reject, SameSaid, SameEvidence, SameDeep, Stands, Good, WellFormed, IsSession,
              NewSession
<1> QED
  BY <1>1, <1>3

\* A fetch for the Grill, and a search with what it finds.
LEMMA FetchFields ==
  ASSUME NEW s, Stands(s), NEW e \in EvidenceIds
  PROVE  LET t == RecordEvidenceFetch(s, e)
         IN  /\ Stands(t) /\ t.orch = s.orch /\ t.stage = s.stage /\ t.waitUser = s.waitUser
             /\ t.round = s.round /\ SameSaid(s, t) /\ SameDeep(s, t)
             /\ t.fetched = s.fetched \cup {e}
             /\ t.supplemental = s.supplemental /\ t.locked = s.locked
<1>1. Stands(RecordEvidenceFetch(s, e))
  BY RecordEvidenceFetchStep, QuietInGrill, QuietStands DEF Stands
<1> QED
  BY <1>1 DEF RecordEvidenceFetch, SameSaid, SameDeep, Stands, Good, WellFormed, IsSession,
              NewSession

LEMMA SearchFields ==
  ASSUME NEW s, Stands(s), NEW a \in s.deep, CanSearch(s, a), NEW new \in SUBSET EvidenceIds
  PROVE  LET t == [ConsumeSearch(s, a) EXCEPT !.supplemental = @ \cup new]
         IN  /\ Stands(t) /\ t.orch = s.orch /\ t.stage = s.stage /\ t.waitUser = s.waitUser
             /\ t.round = s.round /\ SameSaid(s, t) /\ SameDeep(s, t)
             /\ t.supplemental = s.supplemental \cup new
             /\ t.fetched = s.fetched /\ t.locked = s.locked
<1> DEFINE u == ConsumeSearch(s, a)
           t == [u EXCEPT !.supplemental = @ \cup new]
<1>1. Stands(u)
  BY ConsumeSearchStep, ConsumeSearchGrounded DEF Stands, Step, GroundedStep
<1>2. /\ u.orch = s.orch /\ u.stage = s.stage /\ u.waitUser = s.waitUser
      /\ u.round = s.round /\ SameSaid(s, u) /\ SameDeep(s, u)
      /\ u.supplemental = s.supplemental
      /\ u.fetched = s.fetched /\ u.locked = s.locked
  BY DEF ConsumeSearch, SameSaid, SameDeep, Stands, Good, WellFormed, IsSession, NewSession
<1> HIDE DEF u
<1>3. Good(t)
  BY <1>1 DEF Stands, Good, WellFormed, IsSession, NewSession, AtMostOne, Waiting, OfCurrentRound,
              Asked, OnePackage, InBudget, CurrentRoundId
<1>4. QuietCall(u, t) /\ Good(u) /\ Grounded(u)
  BY <1>1 DEF QuietCall, Stands, Good, WellFormed, IsSession, NewSession, Grounded, NothingWithoutRound
<1>5. Stands(t)
  BY <1>3, <1>4, QuietStep DEF Stands, GroundedStep
<1>6. /\ t.orch = u.orch /\ t.stage = u.stage /\ t.waitUser = u.waitUser
      /\ t.round = u.round /\ SameSaid(u, t) /\ SameDeep(u, t)
      /\ t.supplemental = u.supplemental \cup new
      /\ t.fetched = u.fetched /\ t.locked = u.locked
  BY <1>1 DEF SameSaid, SameDeep, Stands, Good, WellFormed, IsSession, NewSession
<1> HIDE DEF t
<1>7. /\ t.orch = s.orch /\ t.stage = s.stage /\ t.waitUser = s.waitUser
      /\ t.round = s.round /\ SameSaid(s, t) /\ SameDeep(s, t)
      /\ t.supplemental = s.supplemental \cup new
      /\ t.fetched = s.fetched /\ t.locked = s.locked
  BY <1>2, <1>6 DEF SameSaid, SameDeep
<1> QED
  BY <1>5, <1>7 DEF t, u

\* A new workflow begins where none is.
LEMMA IntentFields ==
  ASSUME NEW s, Stands(s), s.orch = "RECEIVE"
  PROVE  LET t == BeginIntent(s)
         IN  /\ Stands(t) /\ CanBeginLightDiscovery(t)
             /\ t.answered = s.answered /\ t.discoveries = s.discoveries
<1> DEFINE t == BeginIntent(s)
<1>1. CanBeginIntent(s)
  BY DEF CanBeginIntent, CanMove, LegalTransitions
<1>2. Stands(t)
  BY <1>1, BeginIntentStep, QuietInGrill, QuietStands DEF Stands
<1>3. t.orch = "INTENT_UNDERSTANDING" /\ t.answered = s.answered /\ t.discoveries = s.discoveries
  BY DEF BeginIntent, MoveTo, Stands, Good, WellFormed, IsSession, NewSession
<1>4. CanBeginLightDiscovery(t)
  BY <1>3 DEF CanBeginLightDiscovery, CanMove, LegalTransitions
<1> QED
  BY <1>2, <1>3, <1>4

-----------------------------------------------------------------------------
(* What every step of the proof uses.                                      *)

\* What it means that a session stands, as far as the steps need it.
LEMMA StandFacts ==
  ASSUME NEW s, Stands(s)
  PROVE  /\ DOMAIN s = DOMAIN NewSession /\ s.discoveries \in Nat
         /\ (s.waitUser # {}) <=> (s.orch = "WAIT_USER")
         /\ \A p, q \in s.waitUser : p = q
         /\ \A q \in s.waitUser : /\ q \in Questions /\ q.kind \in QuestionKinds
                                  /\ q.id \in AllDecisionIds
         /\ \A q \in s.waitUser :
              q.kind \in {"deep_decision", "deep_discovery_fallback"} => s.deep = {}
         /\ s.deep # {} \/ s.waitUser # {} => s.round # {}
         /\ \A a \in s.deep : a.phase \in DeepPhases
         /\ s.retryPhase \subseteq DeepPhases /\ s.resumePhase \subseteq DeepPhases
         /\ \A p, q \in s.retryPhase : p = q
         /\ \A r, u \in s.round : r = u
         /\ \A l, m \in s.locked : l = m
         /\ \A l \in s.locked : l.inherited \subseteq s.fetched /\ l.supplemental \subseteq s.supplemental
         /\ s.premises \subseteq s.answered /\ s.answered \subseteq Questions
<1>1. s.deep # {} => s.round # {}
  BY DEF Stands, Good, OfCurrentRound, CurrentRoundId
<1>2. s.waitUser # {} => s.round # {}
  BY DEF Stands, Grounded, NothingWithoutRound
<1>3. s.waitUser \subseteq Questions /\ s.deep \subseteq DeepAttempts
  BY DEF Stands, Good, WellFormed, IsSession
<1>4. /\ \A q \in s.waitUser : q.kind \in QuestionKinds /\ q.id \in AllDecisionIds
      /\ \A a \in s.deep : a.phase \in DeepPhases
  BY <1>3 DEF Questions, DeepAttempts
<1>5. \A q \in s.waitUser :
        q.kind \in {"deep_decision", "deep_discovery_fallback"} => s.deep = {}
  BY DEF Stands, Good, Asked
<1>6. /\ \A l \in s.locked : l.inherited \subseteq s.fetched /\ l.supplemental \subseteq s.supplemental
      /\ s.premises \subseteq s.answered
  BY DEF Stands, Grounded, BuiltOnSnapshot
<1>7. /\ DOMAIN s = DOMAIN NewSession /\ s.discoveries \in Nat
      /\ (s.waitUser # {}) <=> (s.orch = "WAIT_USER")
      /\ s.retryPhase \subseteq DeepPhases /\ s.resumePhase \subseteq DeepPhases
      /\ s.answered \subseteq Questions
  BY DEF Stands, Good, Waiting, WellFormed, IsSession
<1>8. /\ \A p, q \in s.waitUser : p = q
      /\ \A p, q \in s.retryPhase : p = q
      /\ \A r, u \in s.round : r = u
      /\ \A l, m \in s.locked : l = m
  BY DEF Stands, Good, WellFormed, AtMostOne
<1> QED
  BY <1>1, <1>2, <1>3, <1>4, <1>5, <1>6, <1>7, <1>8

\* What stays in the trail, and what the decisions cite, from t to u.
SameStores(t, u) ==
  /\ DOMAIN u = DOMAIN NewTrail /\ {u.relevant, u.grillRun, u.consent} \subseteq BOOLEAN
  /\ u.manifest = t.manifest /\ u.keptGrill = t.keptGrill /\ u.keptDeep = t.keptDeep
  /\ u.package = t.package
Carries(t, u) ==
  /\ t.citedBy \subseteq u.citedBy
  /\ \A d \in u.citedBy : d \in t.citedBy \/ (d.cites = t.cites /\ d.id \in AllDecisionIds)

\* Citations stay traced as long as the new ones are.
LEMMA TracesKept ==
  ASSUME EverythingTracesBack, NoDocumentNoClaim,
         seen \subseteq seen', session.answered \subseteq session'.answered,
         trail'.package \subseteq trail.package,
         trail'.built \subseteq trail.built \cup Packaged(trail),
         trail'.cites \subseteq trail.cites \cup Packaged(trail) \cup seen',
         \A d \in trail'.citedBy : d \in trail.citedBy \/ d.cites \subseteq trail.cites
  PROVE  EverythingTracesBack' /\ NoDocumentNoClaim'
<1> DEFINE Old == seen \cup {Premise(q) : q \in session.answered}
           New == seen' \cup {Premise(q) : q \in session'.answered}
<1>1. Old \subseteq New
  OBVIOUS
<1>2. /\ Packaged(trail) \subseteq Old /\ trail.built \subseteq Old /\ trail.cites \subseteq Old
      /\ \A d \in trail.citedBy : d.cites \subseteq Old
  BY DEF EverythingTracesBack
<1>3. Packaged(trail') \subseteq Packaged(trail)
  BY DEF Packaged
<1>4. seen' \subseteq New
  OBVIOUS
<1> HIDE DEF Old, New
<1>5. /\ Packaged(trail') \subseteq New /\ trail'.built \subseteq New /\ trail'.cites \subseteq New
      /\ \A d \in trail'.citedBy : d.cites \subseteq New
  BY <1>1, <1>2, <1>3, <1>4
<1>6. Packaged(trail)' \cup trail'.built \cup trail'.cites \cup UNION {d.cites : d \in trail'.citedBy}
        \subseteq New
  BY <1>5 DEF Packaged
<1>7. EverythingTracesBack'
  BY <1>6 DEF EverythingTracesBack, New
<1>8. NoDocumentNoClaim'
  BY DEF NoDocumentNoClaim, Sources
<1> QED
  BY <1>7, <1>8

\* A step that reads and finds nothing, and packages nothing.
LEMMA BaseKept ==
  ASSUME Base, Stands(session'), Shown', Undecided', UNCHANGED history,
         session.answered \subseteq session'.answered,
         session'.fetched \subseteq session.fetched,
         session'.supplemental \subseteq session.supplemental,
         SameStores(trail, trail'), Carries(trail, trail'),
         trail'.fallback \subseteq trail.fallback \cup (Questions \cap session'.answered),
         trail'.built \subseteq trail.built \cup Packaged(trail),
         trail'.cites \subseteq trail.cites \cup Packaged(trail) \cup seen
  PROVE  Base'
<1>1. seen' = seen /\ sentBack' = sentBack
  BY DEF history
<1>2. Trailed' /\ Gathered'
  BY <1>1 DEF Base, Trailed, Gathered, SameStores, Carries
<1>3. EverythingTracesBack' /\ NoDocumentNoClaim'
  BY <1>1, TracesKept DEF Base, SameStores, Carries
<1> QED
  BY <1>2, <1>3 DEF Base, Stands

\* Premises rest on what they did, unless the Grill asks or a round begins.
LEMMA RestedKept ==
  ASSUME Rested, session'.round = session.round, session'.premises = session.premises,
         session.fetched \subseteq session'.fetched,
         trail'.manifest = trail.manifest, trail.citedBy \subseteq trail'.citedBy,
         \A q \in session'.waitUser : q.kind # "grill_confirmation"
  PROVE  Rested'
BY DEF Rested

\* In a workflow that was not sent back, the Grill comes before the lock, the
\* package and the Deep attempts.
LEMMA BeforeDeep ==
  ASSUME Inv, ~sentBack,
         \/ session.stage = "GRILL"
         \/ \E q \in session.waitUser : q.kind \in {"grill_confirmation", "relevance_clarification"}
  PROVE  session.deep = {} /\ trail.package = {} /\ ~Past /\ ~Lost
<1>1. Stands(session) /\ Forward
  BY DEF Inv, Base, Stands
<1>2. \/ session.stage = "GRILL" /\ session.waitUser = {}
      \/ /\ session.stage = "WAIT_USER"
         /\ \A q \in session.waitUser :
              q.kind \in {"grill_confirmation", "relevance_clarification"}
  BY <1>1, StandFacts DEF Forward
<1>3. \A a \in session.deep : a.phase \in DeepPhases
  BY <1>1, StandFacts
<1> QED
  BY <1>1, <1>2, <1>3 DEF Forward, Lost, Beyond, Building, BuildKinds, DeepPhases

\* A decision that is recorded keeps the citations of its question.
LEMMA RecordedFields ==
  ASSUME Trailed, NEW s, NEW q \in Questions
  PROVE  LET t == Recorded(s, trail, q)
         IN  /\ SameStores(trail, t) /\ Carries(trail, t)
             /\ t.relevant = trail.relevant /\ t.grillRun = trail.grillRun
             /\ t.consent = trail.consent
             /\ t.fallback = trail.fallback /\ t.built = trail.built /\ t.cites = {}
             /\ q.id \notin DecidedIds(s) => \E d \in t.citedBy : d.cites = trail.cites
<1> DEFINE new == [id |-> q.id, cites |-> trail.cites]
           citedBy == IF q.id \in DecidedIds(s) THEN trail.citedBy ELSE trail.citedBy \cup {new}
           t == Recorded(s, trail, q)
<1>1. t = [trail EXCEPT !.cites = {}, !.citedBy = citedBy]
  BY DEF Recorded
<1>2. new.cites = trail.cites /\ new.id \in AllDecisionIds
  BY DEF Questions
<1> HIDE DEF new
<1>3. /\ trail.citedBy \subseteq citedBy
      /\ \A d \in citedBy : d \in trail.citedBy \/ (d.cites = trail.cites /\ d.id \in AllDecisionIds)
      /\ q.id \notin DecidedIds(s) => \E d \in citedBy : d.cites = trail.cites
  BY <1>2
<1> HIDE DEF citedBy, t
<1>4. /\ DOMAIN t = DOMAIN NewTrail /\ t.citedBy = citedBy /\ t.cites = {}
      /\ t.relevant = trail.relevant /\ t.grillRun = trail.grillRun /\ t.consent = trail.consent
      /\ t.manifest = trail.manifest /\ t.keptGrill = trail.keptGrill
      /\ t.keptDeep = trail.keptDeep /\ t.package = trail.package
      /\ t.fallback = trail.fallback /\ t.built = trail.built
  BY <1>1 DEF Trailed, NewTrail
<1> QED
  BY <1>3, <1>4 DEF SameStores, Carries, Trailed, t

-----------------------------------------------------------------------------
(* The Grill asks, and goes on to Deep Knowledge.                          *)

\* A question of the Grill cites what was read, and the first one something.
LEMMA PosesKeeps ==
  ASSUME Inv, session.stage = "GRILL",
         NEW q \in Questions, q.kind \in {"grill_confirmation", "relevance_clarification"},
         NEW cites, cites \subseteq session.fetched,
         Poses(session, q, cites, trail), UNCHANGED history,
         q.kind = "grill_confirmation" =>
           IF trail.manifest = {} THEN q.id = ConsentId
           ELSE session.premises # {} \/ cites \cap session.fetched # {}
  PROVE  Inv'
<1>0. Stands(session) /\ Base /\ Rested /\ Founded /\ Forward /\ Straight
  BY DEF Inv, Base, Stands
<1>1. /\ Stands(session') /\ Moved(session', "WAIT_USER") /\ session'.waitUser = {q}
      /\ q.round \in CurrentRoundId(session) /\ session'.round = session.round
      /\ SameSaid(session, session') /\ SameEvidence(session, session')
      /\ SameDeep(session, session') /\ ~AnsweredBefore(session, q)
  BY <1>0, AskFields DEF Poses, Becomes
<1>2. trail' = [trail EXCEPT !.cites = cites] /\ seen' = seen /\ sentBack' = sentBack
  BY DEF Poses, Becomes, history
<1>3. /\ SameStores(trail, trail') /\ Carries(trail, trail') /\ trail'.citedBy = trail.citedBy
      /\ trail'.cites = cites /\ trail'.fallback = trail.fallback /\ trail'.built = trail.built
  BY <1>0, <1>2 DEF Base, Trailed, NewTrail, SameStores, Carries
<1>4. Shown' /\ Undecided'
  BY <1>1 DEF Shown, Undecided, AnsweredBefore, DecidedIds, CurrentRoundId, Moved, SameSaid
<1>5. cites \subseteq seen
  BY <1>0 DEF Base, Gathered
<1>6. Base'
  BY <1>0, <1>1, <1>2, <1>3, <1>4, <1>5, BaseKept DEF SameSaid, SameEvidence
<1>7. Rested'
  BY <1>0, <1>1, <1>3 DEF Rested, SameSaid, SameEvidence, SameStores
<1>8. Founded'
  BY <1>0, <1>1, <1>3 DEF Founded, Deepened, Moved, SameEvidence, SameDeep, DeepPhases, SameStores
<1>9. ~sentBack => /\ session.deep = {} /\ trail.package = {} /\ ~Past /\ ~Lost
  BY BeforeDeep
<1>10. Forward'
  BY <1>0, <1>1, <1>2, <1>3, <1>9
  DEF Forward, Past, Lost, Beyond, Building, BuildKinds, Moved, SameEvidence, SameDeep, DeepPhases,
      SameStores
<1>11. Straight'
  BY <1>0, <1>1, <1>2, <1>3, <1>9 DEF Straight, Offered, SameEvidence
<1> QED
  BY <1>6, <1>7, <1>8, <1>10, <1>11 DEF Inv

\* Deep Knowledge begins when the Grill is ready, or the user consents to an empty
\* snapshot.
LEMMA EntersKeeps ==
  ASSUME Inv, UNCHANGED history,
         \/ session.stage = "GRILL"
         \/ \E q \in session.waitUser : q.kind = "grill_confirmation",
         trail.manifest # {} => session.fetched # {},
         NEW s, Stands(s), s.round = session.round, SameEvidence(session, s),
         s.discoveries = session.discoveries, session.answered \subseteq s.answered,
         session.premises \subseteq s.premises,
         s.premises = session.premises \/ trail.manifest = {},
         NEW t, SameStores(trail, t), Carries(trail, t), t.fallback = trail.fallback,
         t.built = trail.built, t.cites \subseteq trail.cites,
         EntersDeep(s, t)
  PROVE  Inv'
<1>0. Stands(session) /\ Base /\ Rested /\ Founded /\ Forward /\ Straight
  BY DEF Inv, Base, Stands
<1>1. /\ Stands(session') /\ Moved(session', "DEEP_KNOWLEDGE_RETRIEVAL")
      /\ session'.waitUser = {} /\ session'.round = session.round
      /\ session'.answered = s.answered /\ session'.premises = s.premises
      /\ SameEvidence(session, session') /\ session'.discoveries = session.discoveries
      /\ session'.deep # {} /\ \A a \in session'.deep : a.phase = "DEEP_KNOWLEDGE_RETRIEVAL"
  BY BeginDeepFields
  DEF EntersDeep, CanBeginDeepKnowledge, Becomes, DeepPhases, SameSaid, SameEvidence
<1>2. trail' = [t EXCEPT !.grillRun = FALSE] /\ seen' = seen /\ sentBack' = sentBack
  BY DEF EntersDeep, Becomes, history
<1>3. /\ SameStores(trail, trail') /\ trail'.citedBy = t.citedBy
      /\ trail'.cites = t.cites /\ trail'.fallback = trail.fallback /\ trail'.built = trail.built
  BY <1>2 DEF NewTrail, SameStores
<1>4. Carries(trail, trail')
  BY <1>3 DEF Carries
<1>5. Shown' /\ Undecided'
  BY <1>1 DEF Shown, Undecided, Moved
<1>6. Base'
  BY <1>0, <1>1, <1>3, <1>4, <1>5, BaseKept DEF SameEvidence
<1>7. Rested'
  BY <1>0, <1>1, <1>3, <1>4 DEF Rested, SameEvidence, SameStores, Carries
<1>8. Founded'
  BY <1>0, <1>1, <1>3 DEF Founded, SameEvidence, SameStores
<1>9. ~sentBack => trail.package = {} /\ ~Past /\ ~Lost
  BY BeforeDeep
<1>10. Forward'
  BY <1>0, <1>1, <1>2, <1>3, <1>9
  DEF Forward, Past, Lost, Beyond, Building, Moved, SameEvidence, SameStores
<1>11. Straight'
  <2>1. ~sentBack => trail.cites \cup UNION {d.cites : d \in trail.citedBy} \subseteq Offered
    BY <1>0, <1>9 DEF Straight
  <2>2. trail'.cites \cup UNION {d.cites : d \in trail'.citedBy}
          \subseteq trail.cites \cup UNION {d.cites : d \in trail.citedBy}
    BY <1>3, <1>4 DEF Carries
  <2>3. ~sentBack => Offered \subseteq Offered'
    BY <1>1, <1>9 DEF Offered, Past, SameEvidence
  <2> QED
    BY <1>2, <2>1, <2>2, <2>3 DEF Straight
<1> QED
  BY <1>6, <1>7, <1>8, <1>10, <1>11 DEF Inv

\* A snapshot is taken and its first round begins.
LEMMA OpensKeeps ==
  ASSUME NEW s, Stands(s), CanBeginLightDiscovery(s),
         NEW t, DOMAIN t = DOMAIN NewTrail, t.consent \in BOOLEAN,
         t.keptGrill \cup t.keptDeep \subseteq seen',
         seen' \subseteq EvidenceIds \cap (Documents \X {"snapshot", "search"}),
         sentBack' \in BOOLEAN,
         t.fallback \subseteq Questions \cap s.answered,
         t.fallback # {} => s.discoveries >= 1 /\ sentBack',
         NEW manifest \in Manifests, NEW relevant \in BOOLEAN,
         OpenSnapshot(s, t, manifest, relevant)
  PROVE  Inv'
<1>1. /\ Stands(session') /\ Moved(session', "GRILL") /\ session'.waitUser = {}
      /\ session'.round = {[id |-> s.nextRound, snapshot |-> s.nextRound]}
      /\ session'.answered = s.answered /\ session'.premises = {}
      /\ session'.fetched = {} /\ session'.supplemental = {} /\ session'.locked = {}
      /\ session'.deep = {} /\ session'.discoveries = s.discoveries
  BY OpenFields DEF OpenSnapshot, Becomes
<1>2. trail' = [t EXCEPT !.manifest = manifest, !.relevant = relevant /\ manifest # {},
                         !.grillRun = TRUE, !.cites = {}, !.citedBy = {},
                         !.package = {}, !.built = {}]
  BY DEF OpenSnapshot, Becomes
<1> DEFINE isRelevant == relevant /\ manifest # {}
<1>3. isRelevant \in BOOLEAN
  OBVIOUS
<1> HIDE DEF isRelevant
<1>4. /\ DOMAIN trail' = DOMAIN NewTrail /\ trail'.manifest = manifest
      /\ trail'.relevant = isRelevant /\ trail'.grillRun = TRUE /\ trail'.consent = t.consent
      /\ trail'.keptGrill = t.keptGrill /\ trail'.keptDeep = t.keptDeep
      /\ trail'.fallback = t.fallback /\ trail'.cites = {} /\ trail'.citedBy = {}
      /\ trail'.package = {} /\ trail'.built = {}
  BY <1>2 DEF NewTrail, isRelevant
<1>5. Shown' /\ Undecided'
  BY <1>1 DEF Shown, Undecided, Moved
<1>6. Trailed' /\ Gathered'
  BY <1>1, <1>3, <1>4 DEF Trailed, Gathered
<1>7. EverythingTracesBack' /\ NoDocumentNoClaim'
  BY <1>4 DEF EverythingTracesBack, NoDocumentNoClaim, Packaged
<1>8. Rested'
  BY <1>1 DEF Rested
<1>9. Founded'
  BY <1>1, <1>4 DEF Founded, Deepened, Moved, DeepPhases
<1>10. Forward'
  BY <1>1, <1>4 DEF Forward, Past, Lost, Beyond, Building, Moved, DeepPhases
<1>11. Straight'
  BY <1>4 DEF Straight
<1> QED
  BY <1>1, <1>5, <1>6, <1>7, <1>8, <1>9, <1>10, <1>11 DEF Inv, Base, Stands

\* What is read for the Grill is kept twice, and was not locked yet.
LEMMA FetchKeeps ==
  ASSUME Inv, Fetch
  PROVE  Inv'
<1>0. Stands(session) /\ Base /\ Rested /\ Founded /\ Forward /\ Straight
  BY DEF Inv, Base, Stands
<1>1. PICK doc \in trail.manifest :
        /\ Becomes(RecordEvidenceFetch(session, Candidate(doc)),
                   [trail EXCEPT !.keptGrill = @ \cup {Candidate(doc)}])
        /\ seen' = seen \cup {Candidate(doc)} /\ UNCHANGED sentBack
  BY DEF Fetch
<1> DEFINE e == Candidate(doc)
<1>2. e \in EvidenceIds /\ e \in Documents \X {"snapshot", "search"}
  <2>1. doc \in Documents
    BY <1>0, TrailAssumption DEF Base, Trailed
  <2>2. e \in EvidenceIds
    BY <2>1, TrailAssumption
  <2>3. e \in Documents \X {"snapshot", "search"}
    BY <2>1 DEF Candidate
  <2> QED
    BY <2>2, <2>3
<1> HIDE DEF e
<1>3. /\ Stands(session') /\ session'.orch = session.orch /\ session'.stage = session.stage
      /\ session'.waitUser = session.waitUser /\ session'.round = session.round
      /\ SameSaid(session, session') /\ SameDeep(session, session')
      /\ session'.fetched = session.fetched \cup {e}
      /\ session'.supplemental = session.supplemental /\ session'.locked = session.locked
  BY <1>0, <1>1, <1>2, FetchFields DEF Becomes, e
<1>4. trail' = [trail EXCEPT !.keptGrill = trail.keptGrill \cup {e}]
  BY <1>1 DEF Becomes, e
<1>5. /\ DOMAIN trail' = DOMAIN NewTrail /\ trail'.manifest = trail.manifest
      /\ trail'.relevant = trail.relevant /\ trail'.grillRun = trail.grillRun
      /\ trail'.consent = trail.consent
      /\ trail'.keptGrill = trail.keptGrill \cup {e} /\ trail'.keptDeep = trail.keptDeep
      /\ trail'.fallback = trail.fallback /\ trail'.cites = trail.cites
      /\ trail'.citedBy = trail.citedBy /\ trail'.package = trail.package
      /\ trail'.built = trail.built
  BY <1>0, <1>4 DEF Base, Trailed, NewTrail
<1>6. seen' = seen \cup {e} /\ sentBack' = sentBack /\ session.stage = "GRILL"
  BY <1>1 DEF e, Fetch, GrillLive
<1>7. Shown' /\ Undecided'
  BY <1>0, <1>3 DEF Base, Shown, Undecided, AnsweredBefore, DecidedIds, CurrentRoundId, SameSaid
<1>8. Trailed' /\ Gathered'
  BY <1>0, <1>2, <1>3, <1>5, <1>6 DEF Base, Trailed, Gathered, SameSaid
<1>9. EverythingTracesBack' /\ NoDocumentNoClaim'
  BY <1>0, <1>3, <1>5, <1>6, TracesKept DEF Base, SameSaid
<1>10. Rested'
  BY <1>0, <1>3, <1>5 DEF Rested, SameSaid
<1>11. Founded'
  BY <1>0, <1>3, <1>5 DEF Founded, Deepened, SameDeep
<1>12. ~sentBack => session.deep = {} /\ trail.package = {} /\ ~Past /\ ~Lost
  BY <1>6, BeforeDeep
<1>13. Forward'
  BY <1>0, <1>3, <1>5, <1>6, <1>12
  DEF Forward, Past, Lost, Beyond, Building, SameDeep, DeepPhases
<1>14. Straight'
  BY <1>0, <1>3, <1>5, <1>6, <1>12 DEF Straight, Offered, Past
<1> QED
  BY <1>3, <1>7, <1>8, <1>9, <1>10, <1>11, <1>13, <1>14 DEF Inv, Base, Stands

\* The Grill runs again, and nothing else changes.
LEMMA RunsAgainKeeps ==
  ASSUME Inv, Becomes(session, [trail EXCEPT !.grillRun = TRUE]), UNCHANGED history
  PROVE  Inv'
<1>0. Stands(session) /\ Base /\ Rested /\ Founded /\ Forward /\ Straight
  BY DEF Inv, Base, Stands
<1>1. session' = session /\ seen' = seen /\ sentBack' = sentBack
  BY DEF Becomes, history
<1>2. /\ SameStores(trail, trail') /\ Carries(trail, trail') /\ trail'.citedBy = trail.citedBy
      /\ trail'.cites = trail.cites /\ trail'.fallback = trail.fallback
      /\ trail'.built = trail.built
  BY <1>0 DEF Base, Trailed, NewTrail, SameStores, Carries, Becomes
<1>3. Shown' /\ Undecided'
  BY <1>0, <1>1 DEF Base, Shown, Undecided, AnsweredBefore, DecidedIds, CurrentRoundId
<1>4. Base'
  BY <1>0, <1>1, <1>2, <1>3, BaseKept
<1>5. Rested' /\ Founded'
  BY <1>0, <1>1, <1>2 DEF Rested, Founded, Deepened, SameStores
<1>6. Forward'
  BY <1>0, <1>1, <1>2 DEF Forward, Past, Lost, Beyond, SameStores
<1>7. Straight'
  BY <1>0, <1>1, <1>2 DEF Straight, Offered, Past, Lost, Beyond, SameStores
<1> QED
  BY <1>4, <1>5, <1>6, <1>7 DEF Inv

\* A question that the Grill may ask can be answered.
LEMMA GrillAnswerCounts ==
  ASSUME Inv, NEW q \in session.waitUser,
         q.kind \in {"grill_confirmation", "relevance_clarification"}, NEW answer \in Answers
  PROVE  Acceptable(session, q, answer) /\ q.id \notin DecidedIds(session) /\ q \in Questions
<1>1. Stands(session) /\ Undecided
  BY DEF Inv, Base, Stands
<1>2. q \in Questions
  BY <1>1, StandFacts
<1> QED
  BY <1>1, <1>2 DEF Undecided, AnsweredBefore, Acceptable

\* A completion of the Grill cites what was read, and on a new snapshot something.
LEMMA GrillCitesWhatWasRead ==
  ASSUME NEW cites \in GrillCitations
  PROVE  cites \subseteq session.fetched /\ (FirstOfSnapshot(session) => cites # {})
BY DEF GrillCitations, Citations

\* A further round on a snapshot follows an answer, and the snapshot lists something.
LEMMA LaterRounds ==
  ASSUME Inv, session.round # {}, ~FirstOfSnapshot(session)
  PROVE  session.premises # {} /\ trail.manifest # {} /\ session.fetched # {}
<1>1. session.premises # {} /\ trail.manifest # {}
  BY DEF Inv, Rested, FirstOfSnapshot
<1>2. session.fetched # {}
  BY <1>1 DEF Inv, Rested
<1> QED
  BY <1>1, <1>2

\* A round has a number.
LEMMA RoundNumber ==
  ASSUME NEW s, Stands(s), s.round # {}
  PROVE  The(s.round).id \in Nat
<1>1. The(s.round) \in s.round
  BY TheMember
<1> QED
  BY <1>1 DEF Stands, Good, WellFormed, IsSession, Rounds

LEMMA GrillAsksKeeps ==
  ASSUME Inv, NEW d \in DecisionIds, GrillAsks(d)
  PROVE  Inv'
<1> DEFINE q == [kind |-> "grill_confirmation", round |-> The(session.round).id, id |-> d]
<1>1. Stands(session)
  BY DEF Inv, Base, Stands
<1>2. PICK cites \in GrillCitations : Poses(session, q, cites, trail)
  BY DEF GrillAsks
<1>3. session.round # {}
  BY <1>2 DEF Poses, CanRequireWaitUser, CurrentRoundId
<1>4. q \in Questions
  BY <1>1, <1>3, RoundNumber DEF Questions, QuestionKinds, AllDecisionIds
<1>5. cites \subseteq session.fetched /\ (FirstOfSnapshot(session) => cites # {})
  BY GrillCitesWhatWasRead
<1>6. trail.manifest # {} /\ (session.premises # {} \/ cites \cap session.fetched # {})
  BY <1>3, <1>5, LaterRounds DEF GrillAsks, EmptySnapshot
<1>7. q.kind = "grill_confirmation"
  OBVIOUS
<1>8. session.stage = "GRILL" /\ UNCHANGED history
  BY DEF GrillAsks, GrillLive
<1> HIDE DEF q
<1> QED
  BY <1>2, <1>4, <1>5, <1>6, <1>7, <1>8, PosesKeeps

LEMMA SameStoresRefl ==
  ASSUME Trailed
  PROVE  SameStores(trail, trail) /\ Carries(trail, trail)
BY DEF Trailed, SameStores, Carries

\* The agent goes on to Deep Knowledge by itself.
LEMMA GoesDeepKeeps ==
  ASSUME Inv, UNCHANGED history, session.stage = "GRILL", EntersDeep(session, trail),
         trail.manifest # {} => session.fetched # {}
  PROVE  Inv'
<1>1. Stands(session) /\ Trailed
  BY DEF Inv, Base, Stands
<1>2. SameStores(trail, trail) /\ Carries(trail, trail)
  BY <1>1, SameStoresRefl
<1>3. SameEvidence(session, session)
  BY DEF SameEvidence
<1> QED
  BY <1>1, <1>2, <1>3, EntersKeeps

LEMMA GrillAsksForConsentKeeps ==
  ASSUME Inv, GrillAsksForConsent
  PROVE  Inv'
<1> DEFINE q == [kind |-> "grill_confirmation", round |-> The(session.round).id, id |-> ConsentId]
<1>1. Stands(session) /\ session.stage = "GRILL" /\ UNCHANGED history
  BY DEF Inv, Base, Stands, GrillAsksForConsent, GrillLive
<1>2. session.round # {} /\ trail.manifest = {}
  BY DEF GrillAsksForConsent, EmptySnapshot, FirstOfSnapshot
<1>3. CASE trail.consent = TRUE
  <2>1. EntersDeep(session, trail)
    BY <1>3 DEF GrillAsksForConsent
  <2> QED
    BY <1>1, <1>2, <2>1, GoesDeepKeeps
<1>4. CASE trail.consent # TRUE
  <2>1. Poses(session, q, {}, trail)
    <3>1. trail.consent \in BOOLEAN
      BY DEF Inv, Base, Trailed
    <3> QED
      BY <1>4, <3>1 DEF GrillAsksForConsent
  <2>2. q \in Questions
    BY <1>1, <1>2, RoundNumber, TrailAssumption DEF Questions, QuestionKinds, AllDecisionIds
  <2>3. q.kind = "grill_confirmation" /\ q.id = ConsentId
    OBVIOUS
  <2> HIDE DEF q
  <2> QED
    BY <1>1, <1>2, <2>1, <2>2, <2>3, PosesKeeps
<1> QED
  BY <1>3, <1>4

LEMMA GrillReadyKeeps ==
  ASSUME Inv, GrillReady
  PROVE  Inv'
<1> DEFINE r == The(session.round).id
           q == [kind |-> "relevance_clarification", round |-> r, id |-> <<"relevance", r>>]
<1>1. Stands(session) /\ session.stage = "GRILL" /\ UNCHANGED history
  BY DEF Inv, Base, Stands, GrillReady, GrillLive
<1>2. PICK cites \in GrillCitations :
        IF (cites = {} /\ session.premises # {}) \/ trail.relevant
          THEN EntersDeep(session, trail)
          ELSE Poses(session, q, session.fetched, trail)
  BY DEF GrillReady
<1>3. cites \subseteq session.fetched /\ (FirstOfSnapshot(session) => cites # {})
  BY GrillCitesWhatWasRead
<1>4. CASE EntersDeep(session, trail)
  <2>1. session.round # {}
    BY <1>4 DEF EntersDeep, CanBeginDeepKnowledge
  <2>2. session.fetched # {}
    BY <1>3, <2>1, LaterRounds
  <2> QED
    BY <1>1, <1>4, <2>2, GoesDeepKeeps
<1>5. CASE Poses(session, q, session.fetched, trail)
  <2>1. session.round # {}
    BY <1>5 DEF Poses, CanRequireWaitUser, CurrentRoundId
  <2>2. q \in Questions
    BY <1>1, <2>1, RoundNumber DEF Questions, QuestionKinds, AllDecisionIds, RuntimeIds
  <2>3. q.kind = "relevance_clarification"
    OBVIOUS
  <2> HIDE DEF q
  <2> QED
    BY <1>1, <1>5, <2>2, <2>3, PosesKeeps
<1> QED
  BY <1>2, <1>4, <1>5

LEMMA AnswerConsentKeeps ==
  ASSUME Inv, AnswerConsent
  PROVE  Inv'
<1>1. Stands(session) /\ Trailed /\ UNCHANGED history
  BY DEF Inv, Base, Stands, AnswerConsent
<1>2. PICK q \in session.waitUser :
        /\ AsksForConsent(q)
        /\ \/ EntersDeep(RecordAnswer(session, "agree"),
                         [Recorded(session, trail, q) EXCEPT !.consent = TRUE])
           \/ Becomes(session, [trail EXCEPT !.grillRun = TRUE])
  BY DEF AnswerConsent
<1>3. q.kind = "grill_confirmation" /\ trail.manifest = {} /\ "agree" \in Answers
  BY <1>2, AnswersAssumption DEF AsksForConsent, EmptySnapshot
<1>4. CASE Becomes(session, [trail EXCEPT !.grillRun = TRUE])
  BY <1>1, <1>4, RunsAgainKeeps
<1>5. CASE EntersDeep(RecordAnswer(session, "agree"),
                      [Recorded(session, trail, q) EXCEPT !.consent = TRUE])
  <2> DEFINE s == RecordAnswer(session, "agree")
             u == Recorded(session, trail, q)
             t == [u EXCEPT !.consent = TRUE]
  <2>1. Acceptable(session, q, "agree") /\ q \in Questions
    BY <1>3, GrillAnswerCounts
  <2>2. /\ Stands(s) /\ s.round = session.round /\ SameEvidence(session, s)
        /\ SameDeep(session, s) /\ s.answered = session.answered \cup {q}
        /\ s.premises = session.premises \cup {q}
    BY <1>1, <1>3, <2>1, AnswerFields
  <2>3. /\ SameStores(trail, u) /\ Carries(trail, u) /\ u.fallback = trail.fallback
        /\ u.built = trail.built /\ u.cites = {}
    BY <1>1, <2>1, RecordedFields
  <2>4. EntersDeep(s, t)
    BY <1>5
  <2> HIDE DEF s, u
  <2>5. /\ DOMAIN t = DOMAIN u /\ t.consent = TRUE /\ t.relevant = u.relevant
        /\ t.grillRun = u.grillRun /\ t.manifest = u.manifest /\ t.keptGrill = u.keptGrill
        /\ t.keptDeep = u.keptDeep /\ t.package = u.package /\ t.citedBy = u.citedBy
        /\ t.fallback = u.fallback /\ t.built = u.built /\ t.cites = u.cites
    BY <2>3 DEF SameStores, NewTrail
  <2> HIDE DEF t
  <2>6. SameStores(trail, t) /\ Carries(trail, t)
    BY <2>3, <2>5 DEF SameStores, Carries
  <2> QED
    BY <1>1, <1>2, <1>3, <2>2, <2>3, <2>4, <2>5, <2>6, EntersKeeps DEF SameDeep
<1> QED
  BY <1>2, <1>4, <1>5

\* The answer to a question of the Grill begins the next round, and has behind it
\* what the question cited, or the answers before it.
LEMMA AnswerGrillKeeps ==
  ASSUME Inv, AnswerGrill
  PROVE  Inv'
<1>0. Stands(session) /\ Base /\ Rested /\ Founded /\ Forward /\ Straight
  BY DEF Inv, Base, Stands
<1>1. PICK q \in session.waitUser :
        /\ q.kind = "grill_confirmation" /\ ~AsksForConsent(q)
        /\ Becomes(StartGrillRound(RecordAnswer(session, "other"), FALSE),
                   [Recorded(session, trail, q) EXCEPT !.grillRun = TRUE])
  BY DEF AnswerGrill
<1> DEFINE s == RecordAnswer(session, "other")
           u == Recorded(session, trail, q)
<1>2. seen' = seen /\ sentBack' = sentBack /\ "other" \in Answers
  BY AnswersAssumption DEF AnswerGrill, history
<1>3. Acceptable(session, q, "other") /\ q.id \notin DecidedIds(session) /\ q \in Questions
  BY <1>1, <1>2, GrillAnswerCounts
<1>4. session.round # {} /\ \A p \in session.waitUser : p = q
  BY <1>0, StandFacts
<1>5. /\ Stands(s) /\ s.round = session.round /\ SameEvidence(session, s) /\ SameDeep(session, s)
      /\ s.answered = session.answered \cup {q} /\ s.premises = session.premises \cup {q}
      /\ \A p \in s.waitUser : p.kind = "grill_checkpoint"
      /\ Moved(s, "GRILL") \/ Moved(s, "WAIT_USER")
  BY <1>0, <1>1, <1>2, <1>3, AnswerFields
<1>6. /\ SameStores(trail, u) /\ Carries(trail, u) /\ u.fallback = trail.fallback
      /\ u.built = trail.built /\ u.cites = {} /\ \E d \in u.citedBy : d.cites = trail.cites
  BY <1>0, <1>3, RecordedFields DEF Base
<1>7. session' = StartGrillRound(s, FALSE) /\ trail' = [u EXCEPT !.grillRun = TRUE]
  BY <1>1 DEF Becomes
<1> HIDE DEF s, u
<1>8. /\ Stands(session') /\ session'.orch = s.orch /\ session'.stage = s.stage
      /\ session'.waitUser = s.waitUser
      /\ \E r \in session.round : session'.round = {[id |-> s.nextRound, snapshot |-> r.snapshot]}
      /\ SameSaid(s, session') /\ SameEvidence(s, session')
      /\ session'.deep = {} /\ session'.discoveries = session.discoveries
  BY <1>4, <1>5, <1>7, NextRoundFields DEF SameDeep
<1>9. /\ session'.answered = session.answered \cup {q}
      /\ session'.premises = session.premises \cup {q} /\ SameEvidence(session, session')
      /\ \A p \in session'.waitUser : p.kind = "grill_checkpoint"
      /\ Moved(session', "GRILL") \/ Moved(session', "WAIT_USER")
  BY <1>5, <1>8 DEF SameSaid, SameEvidence, Moved
<1>10. /\ SameStores(trail, trail') /\ Carries(trail, trail') /\ trail'.fallback = trail.fallback
       /\ trail'.built = trail.built /\ trail'.cites = {}
       /\ \E d \in trail'.citedBy : d.cites = trail.cites
  BY <1>6, <1>7 DEF SameStores, Carries, NewTrail
<1>11. Shown' /\ Undecided'
  BY <1>9 DEF Shown, Undecided, Moved
<1>12. Base'
  BY <1>0, <1>2, <1>8, <1>9, <1>10, <1>11, BaseKept DEF SameEvidence, history
<1>13. trail.manifest # {}
  <2>1. CASE EmptySnapshot
    BY <1>0, <1>1, <2>1 DEF AsksForConsent, Rested
  <2>2. CASE ~EmptySnapshot
    BY <1>4, <2>2, LaterRounds DEF EmptySnapshot
  <2> QED
    BY <2>1, <2>2
<1>14. Rested'
  <2>1. session.premises # {} \/ trail.cites \cap session.fetched # {}
    BY <1>0, <1>1, <1>13 DEF Rested
  <2>2. \E d \in trail'.citedBy : d.cites \cap session'.fetched # {}
    <3>1. CASE session.premises # {}
      <4>1. PICK d \in trail.citedBy : d.cites \cap session.fetched # {}
        BY <1>0, <1>13, <3>1 DEF Rested
      <4> QED
        BY <1>9, <1>10, <4>1 DEF Carries, SameEvidence
    <3>2. CASE trail.cites \cap session.fetched # {}
      BY <1>9, <1>10, <3>2 DEF SameEvidence
    <3> QED
      BY <2>1, <3>1, <3>2
  <2>3. session'.premises # {} /\ trail'.manifest # {}
    BY <1>9, <1>10, <1>13 DEF SameStores
  <2> QED
    BY <1>9, <2>2, <2>3 DEF Rested
<1>15. Founded'
  BY <1>0, <1>8, <1>9, <1>10 DEF Founded, Deepened, Moved, SameEvidence, SameStores, DeepPhases
<1>16. ~sentBack => session.deep = {} /\ trail.package = {} /\ ~Past /\ ~Lost
  BY <1>1, BeforeDeep
<1>17. Forward'
  BY <1>0, <1>2, <1>8, <1>9, <1>10, <1>16
  DEF Forward, Past, Lost, Beyond, Building, BuildKinds, Moved, SameEvidence, SameStores, DeepPhases
<1>18. Straight'
  <2>1. ~sentBack => trail.cites \cup UNION {d.cites : d \in trail.citedBy} \subseteq Offered
    BY <1>0, <1>16 DEF Straight
  <2>2. trail'.cites \cup UNION {d.cites : d \in trail'.citedBy}
          \subseteq trail.cites \cup UNION {d.cites : d \in trail.citedBy}
    BY <1>10 DEF Carries
  <2>3. ~sentBack => Offered \subseteq Offered'
    BY <1>9, <1>16 DEF Offered, Past, SameEvidence
  <2> QED
    BY <1>2, <2>1, <2>2, <2>3 DEF Straight
<1> QED
  BY <1>12, <1>14, <1>15, <1>17, <1>18 DEF Inv

\* A request begins a workflow; a clarified one looks again.
LEMMA StartKeeps ==
  ASSUME Inv, Start
  PROVE  Inv'
<1>1. PICK manifest \in Manifests, relevant \in BOOLEAN, consent \in BOOLEAN :
        OpenSnapshot(BeginIntent(session), [ClearKept(trail) EXCEPT !.consent = consent],
                     manifest, relevant)
  BY DEF Start
<1>2. Stands(session) /\ session.orch = "RECEIVE" /\ Trailed
  BY DEF Inv, Base, Stands, Start, Shown
<1> DEFINE s == BeginIntent(session)
           t == [ClearKept(trail) EXCEPT !.consent = consent]
<1>3. Stands(s) /\ CanBeginLightDiscovery(s)
  BY <1>2, IntentFields
<1>4. /\ DOMAIN t = DOMAIN NewTrail /\ t.consent = consent
      /\ t.keptGrill = {} /\ t.keptDeep = {} /\ t.fallback = {}
  BY <1>2 DEF ClearKept, Trailed, NewTrail
<1>5. seen' = {} /\ sentBack' = FALSE /\ OpenSnapshot(s, t, manifest, relevant)
  BY <1>1 DEF Start
<1> HIDE DEF s, t
<1> QED
  BY <1>3, <1>4, <1>5, OpensKeeps

LEMMA AnswerRelevanceKeeps ==
  ASSUME Inv, AnswerRelevance
  PROVE  Inv'
<1>1. PICK q \in session.waitUser : q.kind = "relevance_clarification"
  BY DEF AnswerRelevance
<1>2. PICK manifest \in Manifests, relevant \in BOOLEAN :
        OpenSnapshot(RecordAnswer(session, "other"), trail, manifest, relevant)
  BY DEF AnswerRelevance
<1>3. Stands(session) /\ Trailed /\ Gathered /\ Founded
  BY DEF Inv, Base, Stands
<1>4. seen' = seen /\ sentBack' = sentBack /\ "other" \in Answers
  BY AnswersAssumption DEF AnswerRelevance, history
<1> DEFINE s == RecordAnswer(session, "other")
<1>5. Acceptable(session, q, "other")
  BY <1>1, <1>4, GrillAnswerCounts
<1>6. /\ Stands(s) /\ s.answered = session.answered \cup {q} /\ Moved(s, "USER_CONFIRMED")
      /\ s.discoveries = session.discoveries
  BY <1>1, <1>3, <1>4, <1>5, AnswerFields DEF SameDeep
<1>7. OpenSnapshot(s, trail, manifest, relevant)
  BY <1>2
<1> HIDE DEF s
<1>8. CanBeginLightDiscovery(s)
  BY <1>6 DEF CanBeginLightDiscovery, CanMove, LegalTransitions, Moved
<1>9. ~sentBack => trail.fallback = {}
  BY <1>1, BeforeDeep DEF Past
<1>10. /\ trail.fallback \subseteq Questions \cap s.answered
       /\ trail.fallback # {} => s.discoveries >= 1
  BY <1>3, <1>6 DEF Trailed, Gathered, Founded
<1>11. /\ DOMAIN trail = DOMAIN NewTrail /\ trail.consent \in BOOLEAN /\ sentBack \in BOOLEAN
       /\ trail.keptGrill \cup trail.keptDeep \subseteq seen
       /\ seen \subseteq EvidenceIds \cap (Documents \X {"snapshot", "search"})
  BY <1>3 DEF Trailed, Gathered
<1> QED
  BY <1>4, <1>6, <1>7, <1>8, <1>9, <1>10, <1>11, OpensKeeps

-----------------------------------------------------------------------------
(* Deep Knowledge.                                                         *)

\* An attempt that may work is in the phase that the panel shows, and nobody waits.
LEMMA LiveFacts ==
  ASSUME Inv, NEW phase \in DeepPhases, NEW a \in Live(phase)
  PROVE  /\ a \in session.deep /\ a.phase = phase /\ session.round # {}
         /\ session.stage \in DeepPhases /\ session.orch = session.stage
         /\ session.waitUser = {}
         /\ ~sentBack => session.stage = phase /\ trail.package = {}
<1>1. Stands(session) /\ Shown /\ Forward
  BY DEF Inv, Base, Stands
<1>2. a \in session.deep /\ a.phase = phase /\ session.stage \in DeepPhases
  BY DEF Live
<1>3. session.orch = session.stage
  BY <1>1, <1>2 DEF Shown, DeepPhases
<1>4. session.waitUser = {} /\ session.round # {}
  BY <1>1, <1>2, <1>3, StandFacts DEF DeepPhases
<1>5. ~sentBack => session.stage = phase /\ trail.package = {}
  BY <1>1, <1>2, <1>4 DEF Forward, DeepPhases, Building
<1> QED
  BY <1>2, <1>3, <1>4, <1>5

\* What decisions and questions cite stays on offer, as long as what was on offer does.
LEMMA StraightKept ==
  ASSUME Straight, sentBack' = sentBack, Carries(trail, trail'),
         ~sentBack /\ trail'.package = {} /\ ~Lost' =>
           /\ trail.package = {} /\ ~Lost /\ Offered \subseteq Offered'
           /\ trail'.cites \subseteq trail.cites \cup Offered'
  PROVE  Straight'
<1>1. SUFFICES ASSUME ~sentBack, trail'.package = {}, ~Lost'
               PROVE  trail'.cites \cup UNION {d.cites : d \in trail'.citedBy} \subseteq Offered'
  BY DEF Straight
<1>2. /\ trail.package = {} /\ ~Lost /\ Offered \subseteq Offered'
      /\ trail'.cites \subseteq trail.cites \cup Offered'
  BY <1>1
<1> DEFINE New == Offered'
<1>3. trail.cites \cup UNION {d.cites : d \in trail.citedBy} \subseteq New
  BY <1>1, <1>2 DEF Straight
<1>4. trail'.cites \subseteq New
  BY <1>2, <1>3
<1>5. \A d \in trail'.citedBy : d.cites \subseteq New
  BY <1>3 DEF Carries
<1> HIDE DEF New
<1>6. trail'.cites \cup UNION {d.cites : d \in trail'.citedBy} \subseteq New
  BY <1>4, <1>5
<1> QED
  BY <1>6 DEF New

\* The question of a Deep attempt cites what is on offer.
LEMMA DeepPosesKeeps ==
  ASSUME Inv, UNCHANGED history, NEW phase \in DeepPhases, NEW a \in Live(phase),
         NEW d \in AllDecisionIds, NEW cites, DeepPoses(a, d, cites), cites \subseteq seen,
         ~sentBack /\ ~Lost => cites \subseteq Offered
  PROVE  Inv'
<1>0. Stands(session) /\ Base /\ Rested /\ Founded /\ Forward /\ Straight
  BY DEF Inv, Base, Stands
<1>1. /\ a \in session.deep /\ a.phase = phase /\ session.stage \in DeepPhases
      /\ session.waitUser = {} /\ (~sentBack => session.stage = phase /\ trail.package = {})
  BY LiveFacts
<1>2. /\ Stands(session') /\ Moved(session', "WAIT_USER") /\ session'.round = session.round
      /\ session'.waitUser # {} /\ \A q \in session'.waitUser : q.kind = "deep_decision"
      /\ SameSaid(session, session') /\ SameEvidence(session, session')
      /\ session'.discoveries = session.discoveries
      /\ session'.deep = {} /\ session'.retryPhase = {phase}
  BY <1>0, <1>1, NeedDecisionFields DEF DeepPoses, Becomes
<1>3. trail' = [trail EXCEPT !.cites = cites] /\ seen' = seen /\ sentBack' = sentBack
  BY DEF DeepPoses, Becomes, history
<1>4. /\ SameStores(trail, trail') /\ Carries(trail, trail') /\ trail'.citedBy = trail.citedBy
      /\ trail'.cites = cites /\ trail'.fallback = trail.fallback /\ trail'.built = trail.built
  BY <1>0, <1>3 DEF Base, Trailed, NewTrail, SameStores, Carries
<1>5. Shown' /\ Undecided'
  BY <1>2 DEF Shown, Undecided, Moved
<1>6. Base'
  BY <1>0, <1>2, <1>4, <1>5, BaseKept DEF SameSaid, SameEvidence
<1>7. Rested'
  BY <1>0, <1>2, <1>4, RestedKept DEF SameSaid, SameEvidence, SameStores
<1>8. Founded'
  BY <1>0, <1>1, <1>2, <1>4 DEF Founded, Deepened, Moved, SameEvidence, SameStores, DeepPhases
<1>9. ~sentBack => (Lost <=> Lost') /\ (Past => Beyond')
  BY <1>0, <1>1, <1>2, <1>4
  DEF Forward, Past, Lost, Beyond, Building, BuildKinds, Moved, SameEvidence, DeepPhases
<1>10. Forward'
  BY <1>0, <1>1, <1>2, <1>3, <1>4, <1>9
  DEF Forward, Past, Building, Moved, SameEvidence, SameStores, DeepPhases
<1>11. Offered \subseteq Offered' /\ Offered' \subseteq Offered
  BY <1>2, <1>4 DEF Offered, SameEvidence, SameStores
<1>12. Straight'
  BY <1>0, <1>1, <1>3, <1>4, <1>9, <1>11, StraightKept
<1> QED
  BY <1>6, <1>7, <1>8, <1>10, <1>12 DEF Inv

LEMMA TargetUnclearKeeps ==
  ASSUME Inv, TargetUnclear
  PROVE  Inv'
<1>1. PICK a \in Retrieval : DeepPoses(a, <<"target", a.id>>, session.fetched)
  BY DEF TargetUnclear
<1>2. Stands(session) /\ Gathered /\ UNCHANGED history
  BY DEF Inv, Base, Stands, TargetUnclear
<1>3. "DEEP_KNOWLEDGE_RETRIEVAL" \in DeepPhases /\ a \in Live("DEEP_KNOWLEDGE_RETRIEVAL")
  BY DEF DeepPhases, Retrieval
<1>4. <<"target", a.id>> \in AllDecisionIds
  BY <1>2, <1>3 DEF Live, Stands, Good, WellFormed, IsSession, DeepAttempts, AllDecisionIds, RuntimeIds
<1>5. session.fetched \subseteq seen /\ session.fetched \subseteq Offered
  BY <1>2 DEF Gathered, Offered
<1> QED
  BY <1>1, <1>2, <1>3, <1>4, <1>5, DeepPosesKeeps

LEMMA RetrievalAsksKeeps ==
  ASSUME Inv, NEW d \in DecisionIds, RetrievalAsks(d)
  PROVE  Inv'
<1>1. PICK a \in Retrieval, cites \in Citations(session.fetched \cup session.supplemental) :
        DeepPoses(a, d, cites)
  BY DEF RetrievalAsks
<1>2. Gathered /\ UNCHANGED history /\ d \in AllDecisionIds
  BY DEF Inv, Base, RetrievalAsks, AllDecisionIds
<1>3. "DEEP_KNOWLEDGE_RETRIEVAL" \in DeepPhases /\ a \in Live("DEEP_KNOWLEDGE_RETRIEVAL")
  BY DEF DeepPhases, Retrieval
<1>4. cites \subseteq session.fetched \cup session.supplemental
  BY DEF Citations
<1>5. cites \subseteq seen /\ cites \subseteq Offered
  BY <1>2, <1>4 DEF Gathered, Offered
<1> QED
  BY <1>1, <1>2, <1>3, <1>5, DeepPosesKeeps

\* What a package would be made of: it was read or found, and is on offer once the
\* workflow is past the lock or the agreement to go on.
LEMMA MaterialFacts ==
  ASSUME Inv
  PROVE  LET m == Material(session, trail)
         IN  /\ Sources(m) \subseteq seen
             /\ m.premises \subseteq session.answered
             /\ ~sentBack /\ Past => Offered \subseteq Sources(m) /\ Sources(m) \subseteq Offered
             /\ session.locked = {} => Sources(m) = trail.keptGrill \cup trail.keptDeep
             /\ \A l \in session.locked : Sources(m) = l.inherited \cup l.supplemental
             /\ m.premises = session.premises \cup trail.fallback
<1> DEFINE m == Material(session, trail)
<1>1. Stands(session) /\ Gathered /\ Forward
  BY DEF Inv, Base, Stands
<1>2. m.premises = session.premises \cup trail.fallback
  BY DEF Material
<1>3. session.locked = {} => Sources(m) = trail.keptGrill \cup trail.keptDeep
  BY DEF Material, Sources
<1>4. \A l \in session.locked : Sources(m) = l.inherited \cup l.supplemental
  <2>1. \A l \in session.locked : l = The(session.locked)
    BY <1>1, TheMember, StandFacts
  <2> QED
    BY <2>1 DEF Material, Sources
<1> HIDE DEF m
<1>5. Sources(m) \subseteq seen
  <2>1. CASE session.locked = {}
    BY <1>1, <1>3, <2>1 DEF Gathered
  <2>2. CASE session.locked # {}
    BY <1>1, <1>4, <2>2, StandFacts DEF Gathered
  <2> QED
    BY <2>1, <2>2
<1>6. m.premises \subseteq session.answered
  BY <1>1, <1>2, StandFacts DEF Gathered
<1>7. ~sentBack /\ Past => Offered \subseteq Sources(m) /\ Sources(m) \subseteq Offered
  <2>1. CASE session.locked = {}
    <3>1. Past => trail.fallback # {}
      BY <2>1 DEF Past
    <3>2. Past => session.fetched \subseteq trail.keptGrill /\ session.supplemental \subseteq trail.keptDeep
      BY <3>1 DEF Inv, Founded
    <3> QED
      BY <1>3, <2>1, <3>1, <3>2 DEF Offered
  <2>2. CASE session.locked # {}
    BY <1>1, <1>4, <2>2 DEF Forward, Offered
  <2> QED
    BY <2>1, <2>2
<1> QED
  BY <1>2, <1>3, <1>4, <1>5, <1>6, <1>7 DEF m

\* A live Understanding that has lost nothing is past the lock or the agreement.
LEMMA UnderstandingIsPast ==
  ASSUME Inv, NEW a \in Understanding, ~sentBack, ~Lost
  PROVE  Past
<1>1. "KNOWLEDGE_UNDERSTANDING" \in DeepPhases /\ a \in Live("KNOWLEDGE_UNDERSTANDING")
  BY DEF DeepPhases, Understanding
<1>2. session.stage = "KNOWLEDGE_UNDERSTANDING"
  BY <1>1, LiveFacts
<1> QED
  BY <1>2 DEF Lost, Beyond

LEMMA UnderstandingAsksKeeps ==
  ASSUME Inv, NEW d \in DecisionIds, UnderstandingAsks(d)
  PROVE  Inv'
<1>1. PICK a \in Understanding, cites \in Citations(Known(session, trail)) : DeepPoses(a, d, cites)
  BY DEF UnderstandingAsks
<1>2. UNCHANGED history /\ d \in AllDecisionIds
  BY DEF UnderstandingAsks, AllDecisionIds
<1>3. "KNOWLEDGE_UNDERSTANDING" \in DeepPhases /\ a \in Live("KNOWLEDGE_UNDERSTANDING")
  BY DEF DeepPhases, Understanding
<1>4. cites \subseteq Sources(Material(session, trail))
  BY DEF Citations, Known
<1>5. cites \subseteq seen /\ (~sentBack /\ ~Lost => cites \subseteq Offered)
  BY <1>4, MaterialFacts, UnderstandingIsPast
<1> QED
  BY <1>1, <1>2, <1>3, <1>5, DeepPosesKeeps

\* What a search finds was not locked yet.
LEMMA DeepSearchKeeps ==
  ASSUME Inv, DeepSearch
  PROVE  Inv'
<1>0. Stands(session) /\ Base /\ Rested /\ Founded /\ Forward /\ Straight
  BY DEF Inv, Base, Stands
<1>1. PICK a \in Retrieval, docs \in Findable :
        LET new == {Found(d) : d \in {e \in docs : Candidate(e) \notin session.fetched}}
            s   == ConsumeSearch(session, a)
        IN  /\ CanSearch(session, a)
            /\ Becomes([s EXCEPT !.supplemental = @ \cup new], [trail EXCEPT !.keptDeep = @ \cup new])
            /\ seen' = seen \cup new /\ UNCHANGED sentBack
  BY DEF DeepSearch
<1> DEFINE new == {Found(d) : d \in {e \in docs : Candidate(e) \notin session.fetched}}
<1>2. "DEEP_KNOWLEDGE_RETRIEVAL" \in DeepPhases /\ a \in Live("DEEP_KNOWLEDGE_RETRIEVAL")
  BY DEF DeepPhases, Retrieval
<1>3. /\ a \in session.deep /\ session.waitUser = {}
      /\ ~sentBack => session.stage = "DEEP_KNOWLEDGE_RETRIEVAL" /\ trail.package = {}
  BY <1>2, LiveFacts
<1>4. new \subseteq EvidenceIds /\ new \subseteq Documents \X {"snapshot", "search"}
  <2>1. docs \subseteq Documents
    <3>1. docs \subseteq Documents \/ \E d \in Targets : docs = {d}
      BY DEF Findable
    <3>2. Targets \subseteq Documents
      BY TrailAssumption
    <3> QED
      BY <3>1, <3>2
  <2>2. \A d \in Documents : Found(d) \in EvidenceIds
    BY TrailAssumption
  <2>3. \A d \in Documents : Found(d) \in Documents \X {"snapshot", "search"}
    BY DEF Found, Candidate
  <2> QED
    BY <2>1, <2>2, <2>3
<1>5. /\ CanSearch(session, a)
      /\ session' = [ConsumeSearch(session, a) EXCEPT !.supplemental = @ \cup new]
      /\ trail' = [trail EXCEPT !.keptDeep = @ \cup new]
      /\ seen' = seen \cup new /\ sentBack' = sentBack
  BY <1>1 DEF Becomes
<1> HIDE DEF new
<1>6. /\ Stands(session') /\ session'.orch = session.orch /\ session'.stage = session.stage
      /\ session'.waitUser = session.waitUser /\ session'.round = session.round
      /\ SameSaid(session, session') /\ SameDeep(session, session')
      /\ session'.supplemental = session.supplemental \cup new
      /\ session'.fetched = session.fetched /\ session'.locked = session.locked
  BY <1>0, <1>3, <1>4, <1>5, SearchFields
<1>7. /\ DOMAIN trail' = DOMAIN NewTrail /\ trail'.manifest = trail.manifest
      /\ trail'.relevant = trail.relevant /\ trail'.grillRun = trail.grillRun
      /\ trail'.consent = trail.consent
      /\ trail'.keptGrill = trail.keptGrill /\ trail'.keptDeep = trail.keptDeep \cup new
      /\ trail'.fallback = trail.fallback /\ trail'.cites = trail.cites
      /\ trail'.citedBy = trail.citedBy /\ trail'.package = trail.package
      /\ trail'.built = trail.built
  BY <1>0, <1>5 DEF Base, Trailed, NewTrail
<1>8. Shown' /\ Undecided'
  BY <1>0, <1>3, <1>6 DEF Base, Shown, Undecided
<1>9. Trailed' /\ Gathered'
  BY <1>0, <1>4, <1>5, <1>6, <1>7 DEF Base, Trailed, Gathered, SameSaid
<1>10. EverythingTracesBack' /\ NoDocumentNoClaim'
  BY <1>0, <1>5, <1>6, <1>7, TracesKept DEF Base, SameSaid
<1>11. Rested'
  BY <1>0, <1>6, <1>7 DEF Rested, SameSaid
<1>12. Founded'
  BY <1>0, <1>6, <1>7 DEF Founded, Deepened, SameDeep
<1>13. ~sentBack => ~Past /\ ~Lost
  BY <1>0, <1>3 DEF Forward, Lost, Beyond, Building
<1>14. Forward'
  BY <1>0, <1>3, <1>5, <1>6, <1>7, <1>13
  DEF Forward, Past, Lost, Beyond, Building, SameDeep, DeepPhases
<1>15. Straight'
  BY <1>0, <1>3, <1>5, <1>6, <1>7, <1>13 DEF Straight, Offered, Past
<1> QED
  BY <1>6, <1>8, <1>9, <1>10, <1>11, <1>12, <1>14, <1>15 DEF Inv, Base, Stands

\* The lock takes what was read and found, which is something.
LEMMA RetrievalCompleteKeeps ==
  ASSUME Inv, RetrievalComplete
  PROVE  Inv'
<1>0. Stands(session) /\ Base /\ Rested /\ Founded /\ Forward /\ Straight
  BY DEF Inv, Base, Stands
<1>1. PICK a \in Retrieval :
        /\ CanCompleteDeepKnowledge(session, a)
        /\ Becomes(CompleteDeepRetrieval(session, a, session.fetched), trail)
  BY DEF RetrievalComplete
<1>2. "DEEP_KNOWLEDGE_RETRIEVAL" \in DeepPhases /\ a \in Live("DEEP_KNOWLEDGE_RETRIEVAL")
  BY DEF DeepPhases, Retrieval
<1>3. /\ a \in session.deep /\ session.stage \in DeepPhases
      /\ session.waitUser = {}
      /\ ~sentBack => session.stage = "DEEP_KNOWLEDGE_RETRIEVAL" /\ trail.package = {}
  BY <1>2, LiveFacts
<1> DEFINE lock == [inherited |-> session.fetched, supplemental |-> session.supplemental]
<1>4. /\ Stands(session') /\ Moved(session', "KNOWLEDGE_UNDERSTANDING") /\ session'.waitUser = {}
      /\ session'.round = session.round /\ SameSaid(session, session')
      /\ session'.fetched = session.fetched /\ session'.supplemental = session.supplemental
      /\ session'.locked = {lock}
      /\ session'.deep # {} /\ \A b \in session'.deep : b.phase = "KNOWLEDGE_UNDERSTANDING"
      /\ session'.discoveries = session.discoveries
  BY <1>0, <1>1, <1>3, RetrievalFields DEF Becomes
<1>5. lock.inherited = session.fetched /\ lock.supplemental = session.supplemental
  OBVIOUS
<1> HIDE DEF lock
<1>6. trail' = trail /\ seen' = seen /\ sentBack' = sentBack /\ UNCHANGED history
  BY <1>1 DEF Becomes, RetrievalComplete, history
<1>7. SameStores(trail, trail') /\ Carries(trail, trail')
  BY <1>0, <1>6, SameStoresRefl DEF Base
<1>8. Shown' /\ Undecided'
  BY <1>4 DEF Shown, Undecided, Moved
<1>9. Base'
  BY <1>0, <1>4, <1>6, <1>7, <1>8, BaseKept DEF SameSaid
<1>10. Rested'
  BY <1>0, <1>4, <1>6, RestedKept DEF SameSaid
<1>11. Founded'
  BY <1>0, <1>3, <1>4, <1>5, <1>6 DEF Founded, Deepened
<1>12. ~sentBack => ~Past /\ ~Lost
  BY <1>0, <1>3 DEF Forward, Lost, Beyond, Building
<1>13. Past' /\ Beyond'
  BY <1>4 DEF Past, Beyond, Moved
<1>14. Forward'
  BY <1>3, <1>4, <1>5, <1>6, <1>13 DEF Forward, Lost, Moved, Building
<1>15. Straight'
  <2>1. ~sentBack => Offered \subseteq Offered'
    BY <1>4, <1>12 DEF Offered, Past
  <2> QED
    BY <1>0, <1>3, <1>6, <1>7, <1>12, <2>1, StraightKept
<1> QED
  BY <1>9, <1>10, <1>11, <1>14, <1>15 DEF Inv

\* Lacking sources the first time is followed by a new snapshot; later the question
\* cites what was read.
LEMMA NeedsDiscoveryKeeps ==
  ASSUME Inv, NeedsDiscovery
  PROVE  Inv'
<1>0. Stands(session) /\ Base /\ Rested /\ Founded /\ Forward /\ Straight
  BY DEF Inv, Base, Stands
<1>1. PICK a \in Retrieval \cup Understanding :
        LET s == NeedDiscovery(session, a)
        IN  IF s.stage = "WAIT_USER"
              THEN Becomes(s, [trail EXCEPT !.cites = session.fetched])
              ELSE \E manifest \in Manifests, relevant \in BOOLEAN :
                     OpenSnapshot(s, trail, manifest, relevant)
  BY DEF NeedsDiscovery
<1> DEFINE s == NeedDiscovery(session, a)
<1>2. PICK phase \in DeepPhases : a \in Live(phase)
  BY <1>1 DEF Retrieval, Understanding, DeepPhases
<1>3. /\ a \in session.deep /\ a.phase = phase
      /\ session.stage \in DeepPhases /\ session.orch = session.stage
      /\ session.waitUser = {}
      /\ ~sentBack => session.stage = phase /\ trail.package = {}
  BY <1>2, LiveFacts
<1>4. /\ Stands(s) /\ s.round = session.round /\ s.deep = {}
      /\ SameSaid(session, s) /\ SameEvidence(session, s)
      /\ s.discoveries = session.discoveries + 1
      /\ IF session.discoveries + 1 >= 2
           THEN /\ Moved(s, "WAIT_USER")
                /\ s.waitUser # {} /\ \A q \in s.waitUser : q.kind = "deep_discovery_fallback"
           ELSE Moved(s, "LIGHT_DISCOVERY")
  BY <1>0, <1>3, NeedDiscoveryFields
<1>5. IF s.stage = "WAIT_USER"
        THEN Becomes(s, [trail EXCEPT !.cites = session.fetched])
        ELSE \E manifest \in Manifests, relevant \in BOOLEAN :
               OpenSnapshot(s, trail, manifest, relevant)
  BY <1>1
<1> HIDE DEF s
<1>6. session.discoveries \in Nat
  BY <1>0, StandFacts
<1>7. seen' = seen /\ sentBack' = sentBack /\ UNCHANGED history
  BY DEF NeedsDiscovery, history
<1>8. CASE session.discoveries = 0
  <2>1. Moved(s, "LIGHT_DISCOVERY")
    BY <1>4, <1>8
  <2>2. PICK manifest \in Manifests, relevant \in BOOLEAN :
          OpenSnapshot(s, trail, manifest, relevant)
    BY <1>5, <2>1 DEF Moved
  <2>3. CanBeginLightDiscovery(s)
    BY <2>1 DEF Moved, CanBeginLightDiscovery
  <2>4. trail.fallback = {}
    BY <1>0, <1>8 DEF Founded
  <2>5. /\ DOMAIN trail = DOMAIN NewTrail /\ trail.consent \in BOOLEAN /\ sentBack \in BOOLEAN
        /\ trail.keptGrill \cup trail.keptDeep \subseteq seen
        /\ seen \subseteq EvidenceIds \cap (Documents \X {"snapshot", "search"})
    BY <1>0 DEF Base, Trailed, Gathered
  <2> QED
    BY <1>4, <1>7, <2>2, <2>3, <2>4, <2>5, OpensKeeps
<1>9. CASE session.discoveries >= 1
  <2>1. /\ Moved(s, "WAIT_USER") /\ s.waitUser # {}
        /\ \A q \in s.waitUser : q.kind = "deep_discovery_fallback"
    BY <1>4, <1>6, <1>9
  <2>2. session' = s /\ trail' = [trail EXCEPT !.cites = session.fetched]
    BY <1>5, <2>1 DEF Moved, Becomes
  <2>3. /\ SameStores(trail, trail') /\ Carries(trail, trail') /\ trail'.citedBy = trail.citedBy
        /\ trail'.cites = session.fetched /\ trail'.fallback = trail.fallback
        /\ trail'.built = trail.built
    BY <1>0, <2>2 DEF Base, Trailed, NewTrail, SameStores, Carries
  <2>4. Shown' /\ Undecided'
    BY <2>1, <2>2 DEF Shown, Undecided, Moved
  <2>5. Base'
    BY <1>0, <1>4, <1>7, <2>2, <2>3, <2>4, BaseKept DEF Base, Gathered, SameSaid, SameEvidence
  <2>6. Rested'
    BY <1>0, <1>4, <2>1, <2>2, <2>3, RestedKept DEF SameSaid, SameEvidence, SameStores
  <2>7. Founded'
    BY <1>0, <1>3, <1>4, <1>6, <1>9, <2>1, <2>2, <2>3
    DEF Founded, Deepened, Moved, SameEvidence, SameStores, DeepPhases
  <2>8. ~Beyond'
    BY <2>1, <2>2 DEF Beyond, Building, BuildKinds, Moved
  <2>9. Forward'
    BY <1>0, <1>3, <1>4, <1>7, <2>1, <2>2, <2>3, <2>8
    DEF Forward, Past, Lost, Building, Moved, SameEvidence, SameStores, DeepPhases
  <2>10. ~sentBack => ~Lost
    BY <1>0, <1>9 DEF Forward
  <2>11. Offered \subseteq Offered' /\ session.fetched \subseteq Offered'
    BY <1>4, <2>2, <2>3 DEF Offered, SameEvidence, SameStores
  <2>12. Straight'
    BY <1>0, <1>3, <1>7, <2>3, <2>10, <2>11, StraightKept
  <2> QED
    BY <2>5, <2>6, <2>7, <2>9, <2>12 DEF Inv
<1> QED
  BY <1>6, <1>8, <1>9

\* The evidence of a document is not the premise of an answer.
LEMMA EvidenceIsNoPremise ==
  ASSUME NEW e \in Documents \X {"snapshot", "search"}, NEW q
  PROVE  e # Premise(q)
BY DEF Premise

\* A package without a document has no snapshot with one behind it: neither what
\* was read before Deep Knowledge nor what the premises rest on is there to cite.
LEMMA NothingToPackage ==
  ASSUME Inv, NEW a \in Understanding,
         NEW m, m = Material(session, trail), Evidence(m) # {}, Valid(trail, m), Sources(m) = {}
  PROVE  EmptySnapshot /\ m.premises # {}
<1>1. Stands(session) /\ Base /\ Rested /\ Founded
  BY DEF Inv, Base, Stands
<1>2. a \in session.deep /\ session.round # {}
  <2>1. "KNOWLEDGE_UNDERSTANDING" \in DeepPhases /\ a \in Live("KNOWLEDGE_UNDERSTANDING")
    BY DEF DeepPhases, Understanding
  <2> QED
    BY <2>1, LiveFacts
<1>3. m.premises # {}
  BY DEF Evidence
<1>4. /\ session.locked = {} => Sources(m) = trail.keptGrill \cup trail.keptDeep
      /\ \A l \in session.locked : Sources(m) = l.inherited \cup l.supplemental
      /\ m.premises = session.premises \cup trail.fallback
  BY MaterialFacts
<1>5. CASE trail.manifest # {}
  <2>1. session.fetched # {}
    BY <1>1, <1>2, <1>5 DEF Founded, Deepened
  <2>2. session.locked = {} /\ trail.keptGrill = {}
    BY <1>1, <1>4, <1>5 DEF Founded
  <2>3. trail.fallback = {}
    BY <1>1, <2>1, <2>2 DEF Founded
  <2>4. PICK d \in trail.citedBy : d.cites \cap session.fetched # {}
    BY <1>1, <1>3, <1>4, <1>5, <2>3 DEF Rested
  <2>5. PICK e \in d.cites : e \in session.fetched
    BY <2>4
  <2>6. e \in Documents \X {"snapshot", "search"}
    BY <1>1, <2>5 DEF Base, Gathered
  <2>7. e \in CitedByDecisions(trail, m)
    BY <2>4, <2>5 DEF CitedByDecisions
  <2>8. e \in {Premise(q) : q \in m.premises}
    BY <2>7 DEF Valid, Evidence
  <2> QED
    BY <2>6, <2>8, EvidenceIsNoPremise
<1>6. CASE trail.manifest = {}
  BY <1>2, <1>3, <1>6, LaterRounds DEF EmptySnapshot
<1> QED
  BY <1>5, <1>6

LEMMA UnderstandingCompleteKeeps ==
  ASSUME Inv, UnderstandingComplete
  PROVE  Inv'
<1>0. Stands(session) /\ Base /\ Rested /\ Founded /\ Forward /\ Straight
  BY DEF Inv, Base, Stands
<1> DEFINE m == Material(session, trail)
<1>1. PICK a \in Understanding, given \in {"none", "given"} :
        /\ Evidence(m) # {} /\ Valid(trail, m) /\ CanCompleteUnderstanding(session, a)
        /\ Becomes(CompleteUnderstanding(session, a),
                   [trail EXCEPT !.package = {[material |-> m, level |-> Level(m, given)]}])
  BY DEF UnderstandingComplete
<1>2. "KNOWLEDGE_UNDERSTANDING" \in DeepPhases /\ a \in Live("KNOWLEDGE_UNDERSTANDING")
  BY DEF DeepPhases, Understanding
<1>3. /\ a \in session.deep /\ session.waitUser = {}
      /\ ~sentBack => session.stage = "KNOWLEDGE_UNDERSTANDING" /\ trail.package = {}
  BY <1>2, LiveFacts
<1>4. /\ Stands(session') /\ Moved(session', "CONTEXT_BUILD") /\ session'.waitUser = {}
      /\ session'.round = session.round /\ SameSaid(session, session')
      /\ SameEvidence(session, session') /\ session'.deep = {}
      /\ session'.discoveries = session.discoveries
  BY <1>0, <1>1, <1>3, UnderstandingFields DEF Becomes
<1> DEFINE level == Level(m, given)
           p == [material |-> m, level |-> level]
<1>5. trail' = [trail EXCEPT !.package = {p}]
  BY <1>1 DEF Becomes
<1>6. p.material = m /\ p.level = level /\ level \in {"none", "given", "exploratory"}
  BY DEF Level
<1>7. Sources(m) = {} => level # "none"
  BY <1>1, NothingToPackage DEF Level
<1>8. Sources(m) \subseteq seen /\ m.premises \subseteq session.answered
  BY MaterialFacts
<1> HIDE DEF level, p, m
<1>9. seen' = seen /\ sentBack' = sentBack
  BY DEF UnderstandingComplete, history
<1>10. /\ DOMAIN trail' = DOMAIN NewTrail /\ trail'.manifest = trail.manifest
       /\ trail'.relevant = trail.relevant /\ trail'.grillRun = trail.grillRun
       /\ trail'.consent = trail.consent
       /\ trail'.keptGrill = trail.keptGrill /\ trail'.keptDeep = trail.keptDeep
       /\ trail'.fallback = trail.fallback /\ trail'.cites = trail.cites
       /\ trail'.citedBy = trail.citedBy /\ trail'.package = {p}
       /\ trail'.built = trail.built
  BY <1>0, <1>5 DEF Base, Trailed, NewTrail
<1>11. Shown' /\ Undecided'
  BY <1>4 DEF Shown, Undecided, Moved
<1>12. Trailed' /\ Gathered'
  BY <1>0, <1>4, <1>6, <1>9, <1>10 DEF Base, Trailed, Gathered, SameSaid, SameEvidence
<1>13. NoDocumentNoClaim'
  BY <1>6, <1>7, <1>10 DEF NoDocumentNoClaim
<1>14. EverythingTracesBack'
  <2> DEFINE Old == seen \cup {Premise(q) : q \in session.answered}
  <2>1. Evidence(m) \subseteq Old
    BY <1>8 DEF Evidence
  <2>2. trail.built \cup trail.cites \cup UNION {d.cites : d \in trail.citedBy} \subseteq Old
    BY <1>0 DEF Base, EverythingTracesBack
  <2>3. Packaged(trail)' \subseteq Old
    BY <1>6, <1>10, <2>1 DEF Packaged
  <2>4. Old = seen' \cup {Premise(q) : q \in session'.answered}
    BY <1>4, <1>9 DEF SameSaid
  <2> HIDE DEF Old
  <2>5. Packaged(trail)' \cup trail'.built \cup trail'.cites
          \cup UNION {d.cites : d \in trail'.citedBy} \subseteq Old
    BY <1>10, <2>2, <2>3
  <2> QED
    BY <2>4, <2>5 DEF EverythingTracesBack
<1>15. Rested'
  BY <1>0, <1>4, <1>10, RestedKept DEF SameSaid, SameEvidence
<1>16. Founded'
  BY <1>0, <1>4, <1>10 DEF Founded, Deepened, Moved, SameEvidence, DeepPhases
<1>17. Forward'
  BY <1>0, <1>3, <1>4, <1>9, <1>10
  DEF Forward, Past, Lost, Beyond, Building, Moved, SameEvidence, DeepPhases
<1>18. Straight'
  BY <1>10 DEF Straight
<1> QED
  BY <1>4, <1>11, <1>12, <1>13, <1>14, <1>15, <1>16, <1>17, <1>18 DEF Inv, Base, Stands

-----------------------------------------------------------------------------
(* The builds.                                                             *)

\* Nothing live is in a build but the build.
LEMMA BuildFacts ==
  ASSUME Inv, session.stage \in {"CONTEXT_BUILD", "ADR_BUILD"}
  PROVE  session.orch = session.stage /\ session.waitUser = {} /\ Beyond
<1>1. Stands(session) /\ Shown
  BY DEF Inv, Base, Stands
<1>2. session.orch = session.stage
  BY <1>1 DEF Shown
<1>3. session.waitUser = {}
  BY <1>1, <1>2, StandFacts
<1>4. Beyond
  BY DEF Beyond, Building
<1> QED
  BY <1>2, <1>3, <1>4

\* A build asks, and cites the package; or it is complete, and rests on the package.
LEMMA BuildKeeps ==
  ASSUME Inv, UNCHANGED history, session.stage \in {"CONTEXT_BUILD", "ADR_BUILD"},
         Stands(session'), session'.round = session.round, SameSaid(session, session'),
         SameEvidence(session, session'), session'.deep = session.deep,
         session'.discoveries = session.discoveries,
         \/ /\ Moved(session', "WAIT_USER") /\ session'.waitUser # {}
            /\ \A q \in session'.waitUser : q.kind \in BuildKinds
         \/ /\ session'.waitUser = {}
            /\ Moved(session', "ADR_BUILD") \/ Moved(session', "TO_SPEC"),
         NEW i \in Citable, NEW cites, cites \subseteq trail.cites \cup {i},
         NEW built, built \subseteq trail.built \cup {i},
         trail' = [trail EXCEPT !.cites = cites, !.built = built]
  PROVE  Inv'
<1>0. Stands(session) /\ Base /\ Rested /\ Founded /\ Forward /\ Straight
  BY DEF Inv, Base, Stands
<1>1. session.orch = session.stage /\ session.waitUser = {} /\ Beyond
  BY BuildFacts
<1>2. seen' = seen /\ sentBack' = sentBack
  BY DEF history
<1>3. /\ SameStores(trail, trail') /\ Carries(trail, trail') /\ trail'.citedBy = trail.citedBy
      /\ trail'.cites = cites /\ trail'.fallback = trail.fallback /\ trail'.built = built
  BY <1>0 DEF Base, Trailed, NewTrail, SameStores, Carries
<1>4. i \in Packaged(trail) /\ trail.package # {}
  BY DEF Citable, Packaged
<1>5. Shown' /\ Undecided'
  BY DEF Shown, Undecided, Moved, BuildKinds
<1>6. Base'
  BY <1>0, <1>3, <1>4, <1>5, BaseKept DEF SameSaid, SameEvidence
<1>7. Rested'
  BY <1>0, <1>3, RestedKept DEF SameSaid, SameEvidence, SameStores, BuildKinds
<1>8. Founded'
  BY <1>0, <1>3 DEF Founded, Deepened, Moved, SameEvidence, SameStores, DeepPhases, BuildKinds
<1>9. Beyond'
  BY DEF Beyond, Building, Moved
<1>10. ~sentBack => session.deep = {}
  <2>1. \A a \in session.deep : a.phase \in DeepPhases
    BY <1>0, StandFacts
  <2> QED
    BY <1>0, <2>1 DEF Forward, DeepPhases
<1>11. Forward'
  BY <1>0, <1>1, <1>2, <1>3, <1>9, <1>10
  DEF Forward, Past, Lost, Building, BuildKinds, Moved, SameEvidence, SameStores, DeepPhases
<1>12. Straight'
  BY <1>3, <1>4 DEF Straight, SameStores
<1> QED
  BY <1>6, <1>7, <1>8, <1>11, <1>12 DEF Inv

LEMMA ContextAsksKeeps ==
  ASSUME Inv, NEW d \in DecisionIds, ContextAsks(d)
  PROVE  Inv'
<1>1. PICK b \in LiveContext, i \in Citable :
        /\ CanBuildContext(session, b)
        /\ Becomes(ContextAmbiguous(session, b, d), [trail EXCEPT !.cites = {i}])
  BY DEF ContextAsks
<1>2. Stands(session) /\ Trailed /\ UNCHANGED history
  BY DEF Inv, Base, Stands, ContextAsks
<1>3. b \in session.context /\ session.stage \in {"CONTEXT_BUILD", "ADR_BUILD"}
  BY DEF LiveContext
<1>4. /\ Stands(session') /\ Moved(session', "WAIT_USER") /\ session'.round = session.round
      /\ session'.waitUser # {} /\ \A q \in session'.waitUser : q.kind \in BuildKinds
      /\ SameSaid(session, session') /\ SameEvidence(session, session')
      /\ SameDeep(session, session')
  BY <1>1, <1>2, <1>3, ContextFields DEF Becomes, BuildKinds
<1>5. trail' = [trail EXCEPT !.cites = {i}, !.built = trail.built]
  BY <1>1, <1>2 DEF Becomes, Trailed, NewTrail
<1> QED
  BY <1>2, <1>3, <1>4, <1>5, BuildKeeps DEF SameDeep

LEMMA ContextCompleteKeeps ==
  ASSUME Inv, ContextComplete
  PROVE  Inv'
<1>1. PICK b \in LiveContext, i \in Citable :
        /\ CanBuildContext(session, b)
        /\ Becomes(CompleteContextBuild(session, b), [trail EXCEPT !.built = {i}])
  BY DEF ContextComplete
<1>2. Stands(session) /\ Trailed /\ UNCHANGED history /\ ConsentId \in DecisionIds
  BY TrailAssumption DEF Inv, Base, Stands, ContextComplete
<1>3. b \in session.context /\ session.stage \in {"CONTEXT_BUILD", "ADR_BUILD"}
  BY DEF LiveContext
<1>4. /\ Stands(session') /\ Moved(session', "ADR_BUILD") /\ session'.round = session.round
      /\ session'.waitUser = {}
      /\ SameSaid(session, session') /\ SameEvidence(session, session')
      /\ SameDeep(session, session')
  BY <1>1, <1>2, <1>3, ContextFields DEF Becomes
<1>5. trail' = [trail EXCEPT !.cites = trail.cites, !.built = {i}]
  BY <1>1, <1>2 DEF Becomes, Trailed, NewTrail
<1> QED
  BY <1>2, <1>3, <1>4, <1>5, BuildKeeps DEF SameDeep

LEMMA AdrAsksKeeps ==
  ASSUME Inv, NEW d \in DecisionIds, AdrAsks(d)
  PROVE  Inv'
<1>1. PICK b \in LiveAdr, i \in Citable :
        /\ CanBuildAdr(session, b)
        /\ Becomes(RequireAdrDecision(session, b, d), [trail EXCEPT !.cites = {i}])
  BY DEF AdrAsks
<1>2. Stands(session) /\ Trailed /\ UNCHANGED history
  BY DEF Inv, Base, Stands, AdrAsks
<1>3. b \in session.adr /\ session.stage \in {"CONTEXT_BUILD", "ADR_BUILD"}
  BY DEF LiveAdr
<1>4. /\ Stands(session') /\ Moved(session', "WAIT_USER") /\ session'.round = session.round
      /\ session'.waitUser # {} /\ \A q \in session'.waitUser : q.kind \in BuildKinds
      /\ SameSaid(session, session') /\ SameEvidence(session, session')
      /\ SameDeep(session, session')
  BY <1>1, <1>2, <1>3, AdrFields DEF Becomes, BuildKinds
<1>5. trail' = [trail EXCEPT !.cites = {i}, !.built = trail.built]
  BY <1>1, <1>2 DEF Becomes, Trailed, NewTrail
<1> QED
  BY <1>2, <1>3, <1>4, <1>5, BuildKeeps DEF SameDeep

LEMMA AdrCompleteKeeps ==
  ASSUME Inv, AdrComplete
  PROVE  Inv'
<1>1. PICK b \in LiveAdr, i \in Citable :
        /\ CanBuildAdr(session, b) /\ CanFinalizeAdrBuild(PrepareAdrBuild(session), b)
        /\ Becomes(FinalizeAdrBuild(PrepareAdrBuild(session)), [trail EXCEPT !.built = @ \cup {i}])
  BY DEF AdrComplete
<1>2. Stands(session) /\ Trailed /\ UNCHANGED history /\ ConsentId \in DecisionIds
  BY TrailAssumption DEF Inv, Base, Stands, AdrComplete
<1>3. b \in session.adr /\ session.stage \in {"CONTEXT_BUILD", "ADR_BUILD"}
  BY DEF LiveAdr
<1>4. /\ Stands(session') /\ Moved(session', "TO_SPEC") /\ session'.round = session.round
      /\ session'.waitUser = {}
      /\ SameSaid(session, session') /\ SameEvidence(session, session')
      /\ session'.deep = session.deep /\ session'.discoveries = session.discoveries
  BY <1>1, <1>2, <1>3, AdrFields DEF Becomes
<1>5. trail' = [trail EXCEPT !.cites = trail.cites, !.built = trail.built \cup {i}]
  BY <1>1, <1>2 DEF Becomes, Trailed, NewTrail
<1> QED
  BY <1>2, <1>3, <1>4, <1>5, BuildKeeps

\* The answer to a build resumes it.
LEMMA AnswerBuildKeeps ==
  ASSUME Inv, AnswerBuild
  PROVE  Inv'
<1>0. Stands(session) /\ Base /\ Rested /\ Founded /\ Forward /\ Straight
  BY DEF Inv, Base, Stands
<1>1. PICK q \in session.waitUser :
        /\ q.kind \in {"context_ambiguity", "adr_ambiguity"}
        /\ Becomes(RecordAnswer(session, "other"), Recorded(session, trail, q))
  BY DEF AnswerBuild
<1>2. seen' = seen /\ sentBack' = sentBack /\ UNCHANGED history /\ "other" \in Answers
  BY AnswersAssumption DEF AnswerBuild, history
<1>3. q \in Questions /\ \A p \in session.waitUser : p = q
  BY <1>0, StandFacts
<1>4. /\ SameStores(trail, trail') /\ Carries(trail, trail') /\ trail'.fallback = trail.fallback
      /\ trail'.built = trail.built /\ trail'.cites = {}
  BY <1>0, <1>1, <1>3, RecordedFields DEF Base, Becomes
<1>5. /\ Stands(session') /\ session'.round = session.round /\ SameEvidence(session, session')
      /\ SameDeep(session, session') /\ session'.premises = session.premises
      /\ session.answered \subseteq session'.answered
      /\ \/ session' = session
         \/ /\ session'.waitUser = {}
            /\ q.kind = "context_ambiguity" => Moved(session', "CONTEXT_BUILD")
            /\ q.kind = "adr_ambiguity" => Moved(session', "ADR_BUILD")
  BY <1>0, <1>1, <1>2, LaterAnswerFields DEF Becomes
<1>6. session' = session \/ (/\ session'.waitUser = {}
                             /\ Moved(session', "CONTEXT_BUILD") \/ Moved(session', "ADR_BUILD"))
  BY <1>1, <1>5
<1>7. Shown' /\ Undecided'
  BY <1>0, <1>1, <1>3, <1>6 DEF Base, Shown, Undecided, Moved
<1>8. Base'
  BY <1>0, <1>2, <1>4, <1>5, <1>7, BaseKept DEF SameEvidence
<1>9. Rested'
  <2>1. \A p \in session'.waitUser : p.kind # "grill_confirmation"
    BY <1>1, <1>3, <1>6
  <2> QED
    BY <1>0, <1>4, <1>5, <2>1, RestedKept DEF Carries, SameEvidence, SameStores
<1>10. Founded'
  BY <1>0, <1>1, <1>3, <1>4, <1>5, <1>6
  DEF SameDeep, Founded, Deepened, Moved, SameEvidence, SameStores, DeepPhases
<1>11. Beyond /\ Beyond'
  BY <1>1, <1>6 DEF Beyond, Building, BuildKinds, Moved
<1>12. ~sentBack => session.deep = {} /\ session.stage = "WAIT_USER"
  <2>1. ~sentBack => session.stage = "WAIT_USER"
    BY <1>0, StandFacts DEF Forward
  <2>2. \A a \in session.deep : a.phase \in DeepPhases
    BY <1>0, StandFacts
  <2> QED
    BY <1>0, <2>1, <2>2 DEF Forward, DeepPhases
<1>13. Forward'
  BY <1>0, <1>1, <1>2, <1>3, <1>4, <1>5, <1>6, <1>11, <1>12
  DEF SameDeep, Forward, Past, Lost, Building, BuildKinds, Moved, SameEvidence, SameStores, DeepPhases
<1>14. Straight'
  <2>1. Offered \subseteq Offered' /\ (Lost <=> Lost')
    BY <1>4, <1>5, <1>11 DEF Offered, Lost, Past, SameEvidence, SameStores
  <2> QED
    BY <1>0, <1>2, <1>4, <2>1, StraightKept DEF SameStores
<1> QED
  BY <1>8, <1>9, <1>10, <1>13, <1>14 DEF Inv

-----------------------------------------------------------------------------
(* Ends and new beginnings.                                                *)

\* There is a Deep attempt to cancel or to retry.
Resumable ==
  session.stage \in DeepPhases \/ \E q \in session.waitUser : q.kind = "deep_decision"

\* A workflow that was not sent back and can be resumed waits in its phase, or for
\* the decision of an attempt that is to be retried in its phase.
LEMMA ResumableFacts ==
  ASSUME Inv, ~sentBack, Resumable
  PROVE  /\ trail.package = {}
         /\ Past => Beyond
         /\ \/ /\ session.stage \in DeepPhases /\ session.waitUser = {}
               /\ \A a \in session.deep : a.phase = session.stage
               /\ session.deep = {} => session.retryPhase = {} /\ session.resumePhase = {session.stage}
               /\ Beyond <=> session.stage = "KNOWLEDGE_UNDERSTANDING"
            \/ /\ session.waitUser # {} /\ \A q \in session.waitUser : q.kind = "deep_decision"
               /\ session.deep = {} /\ session.retryPhase # {}
               /\ Beyond <=> session.retryPhase = {"KNOWLEDGE_UNDERSTANDING"}
<1>1. Stands(session) /\ Forward
  BY DEF Inv, Base, Stands
<1>2. session.stage = session.orch
  BY <1>1 DEF Forward
<1>3. CASE session.stage \in DeepPhases
  <2>1. session.waitUser = {}
    BY <1>1, <1>2, <1>3, StandFacts DEF DeepPhases
  <2>2. Beyond <=> session.stage = "KNOWLEDGE_UNDERSTANDING"
    BY <1>3, <2>1 DEF Beyond, Building, DeepPhases
  <2> QED
    BY <1>1, <1>3, <2>1, <2>2 DEF Forward, DeepPhases, Building
<1>4. CASE session.stage \notin DeepPhases
  <2>1. PICK q \in session.waitUser : q.kind = "deep_decision"
    BY <1>4 DEF Resumable
  <2>2. session.deep = {} /\ \A p \in session.waitUser : p = q
    BY <1>1, <2>1, StandFacts
  <2>3. session.stage = "WAIT_USER"
    BY <1>1, <1>2, <2>1, StandFacts
  <2>4. Beyond <=> session.retryPhase = {"KNOWLEDGE_UNDERSTANDING"}
    BY <2>1, <2>2, <2>3 DEF Beyond, Building, BuildKinds
  <2>5. trail.package = {} /\ session.retryPhase # {} /\ (Past => Beyond)
    BY <1>1, <2>1, <2>2, <2>3 DEF Forward, Building, BuildKinds
  <2> QED
    BY <2>1, <2>2, <2>4, <2>5
<1> QED
  BY <1>3, <1>4

\* Deep Knowledge that is cancelled forgets what was kept for going on without sources,
\* and can be resumed in its phase; anything else that is cancelled is over.
LEMMA CancelKeeps ==
  ASSUME Inv, Cancel
  PROVE  Inv'
<1>0. Stands(session) /\ Base /\ Rested /\ Founded /\ Forward /\ Straight
  BY DEF Inv, Base, Stands
<1> DEFINE t == [ClearKept(trail) EXCEPT !.consent = FALSE, !.grillRun = FALSE, !.cites = {}]
<1>1. IF Resumable
        THEN Becomes(CancelDeepKnowledge(session), [t EXCEPT !.package = {}]) /\ UNCHANGED history
        ELSE Becomes(Reset(session), Forgotten(t)) /\ seen' = {} /\ sentBack' = FALSE
  BY DEF Cancel, Resumable
<1>2. /\ DOMAIN t = DOMAIN NewTrail /\ t.manifest = trail.manifest /\ t.relevant = trail.relevant
      /\ t.grillRun = FALSE /\ t.consent = FALSE /\ t.keptGrill = {} /\ t.keptDeep = {}
      /\ t.fallback = {} /\ t.cites = {} /\ t.citedBy = trail.citedBy
      /\ t.package = trail.package /\ t.built = trail.built
  BY <1>0 DEF Base, Trailed, NewTrail, ClearKept
<1> HIDE DEF t
<1>3. CASE Resumable
  <2>1. /\ session' = CancelDeepKnowledge(session) /\ trail' = [t EXCEPT !.package = {}]
        /\ seen' = seen /\ sentBack' = sentBack
    BY <1>1, <1>3 DEF Becomes, history
  <2>2. /\ DOMAIN trail' = DOMAIN NewTrail /\ trail'.manifest = trail.manifest
        /\ trail'.relevant = trail.relevant /\ trail'.grillRun = FALSE /\ trail'.consent = FALSE
        /\ trail'.keptGrill = {} /\ trail'.keptDeep = {} /\ trail'.fallback = {}
        /\ trail'.cites = {} /\ trail'.citedBy = trail.citedBy
        /\ trail'.package = {} /\ trail'.built = trail.built
    BY <1>2, <2>1 DEF NewTrail
  <2>3. /\ Stands(session') /\ session'.waitUser = {} /\ session'.round = session.round
        /\ SameSaid(session, session') /\ SameEvidence(session, session')
        /\ session'.deep = {} /\ session'.retryPhase = {} /\ session'.discoveries = 0
        /\ session'.orch = session'.stage /\ session'.resumePhase = {session'.stage}
        /\ session'.stage \in DeepPhases
        /\ \/ \E a \in session.deep : session'.stage = a.phase
           \/ session.deep = {} /\ session'.stage \in session.retryPhase
           \/ /\ session.deep = {} /\ session.retryPhase = {}
              /\ session'.stage = "KNOWLEDGE_UNDERSTANDING" <=> session.stage = "KNOWLEDGE_UNDERSTANDING"
    BY <1>0, <2>1, CancelFields
  <2>4. Shown' /\ Undecided'
    BY <2>3 DEF Shown, Undecided
  <2>5. Trailed' /\ Gathered'
    BY <1>0, <2>1, <2>2, <2>3 DEF Base, Trailed, Gathered, SameSaid, SameEvidence
  <2>6. EverythingTracesBack' /\ NoDocumentNoClaim'
    BY <1>0, <2>1, <2>2, <2>3, TracesKept DEF Base, SameSaid
  <2>7. Rested'
    BY <1>0, <2>2, <2>3, RestedKept DEF SameSaid, SameEvidence
  <2>8. Founded'
    BY <1>0, <1>3, <2>2, <2>3 DEF Founded, Deepened, Resumable, SameEvidence
  <2>9. ~sentBack /\ Beyond => session'.stage = "KNOWLEDGE_UNDERSTANDING"
    <3>1. \A p, q \in session.retryPhase : p = q
      BY <1>0, StandFacts
    <3> QED
      BY <1>3, <2>3, <3>1, ResumableFacts
  <2>10. ~sentBack => trail.package = {} /\ (Past => Beyond)
    BY <1>3, ResumableFacts
  <2>11. Past' => Past
    BY <2>2, <2>3 DEF Past, SameEvidence
  <2>12. session'.stage = "KNOWLEDGE_UNDERSTANDING" => Beyond'
    BY DEF Beyond
  <2>13. Forward'
    BY <1>0, <2>1, <2>2, <2>3, <2>9, <2>10, <2>11, <2>12
    DEF Forward, Lost, SameEvidence, DeepPhases
  <2>14. ~sentBack /\ ~Lost' => ~Lost /\ Offered \subseteq Offered'
    <3>1. CASE session.locked = {} /\ trail.fallback # {}
      BY <2>2, <2>3, <2>9, <2>10, <2>12, <3>1 DEF Lost, Past, SameEvidence
    <3>2. CASE ~(session.locked = {} /\ trail.fallback # {})
      BY <2>2, <2>3, <2>9, <2>10, <2>11, <2>12, <3>2 DEF Lost, Past, Offered, SameEvidence
    <3> QED
      BY <3>1, <3>2
  <2>15. Straight'
    BY <1>0, <2>1, <2>2, <2>10, <2>14, StraightKept DEF Carries
  <2> QED
    BY <2>3, <2>4, <2>5, <2>6, <2>7, <2>8, <2>13, <2>15 DEF Inv, Base, Stands
<1>4. CASE ~Resumable
  <2>1. /\ session' = Reset(session) /\ trail' = Forgotten(t)
        /\ seen' = {} /\ sentBack' = FALSE
    BY <1>1, <1>4 DEF Becomes
  <2>2. /\ DOMAIN trail' = DOMAIN NewTrail /\ trail'.manifest = {}
        /\ trail'.relevant = FALSE /\ trail'.grillRun = FALSE /\ trail'.consent = FALSE
        /\ trail'.keptGrill = {} /\ trail'.keptDeep = {} /\ trail'.fallback = {}
        /\ trail'.cites = {} /\ trail'.citedBy = {}
        /\ trail'.package = {} /\ trail'.built = {}
    BY <1>2, <2>1 DEF NewTrail, Forgotten
  <2>3. /\ Stands(session') /\ Moved(session', "RECEIVE") /\ session'.waitUser = {}
        /\ session'.round = {} /\ session'.answered = {} /\ session'.premises = {}
        /\ session'.fetched = {} /\ session'.supplemental = {} /\ session'.locked = {}
        /\ session'.deep = {} /\ session'.discoveries = 0
    BY <1>0, <2>1, ResetFields
  <2>4. Shown' /\ Undecided'
    BY <2>3 DEF Shown, Undecided, Moved
  <2>5. Trailed' /\ Gathered'
    BY <2>1, <2>2, <2>3 DEF Trailed, Gathered
  <2>6. EverythingTracesBack' /\ NoDocumentNoClaim'
    BY <2>2 DEF EverythingTracesBack, NoDocumentNoClaim, Packaged
  <2>7. Rested' /\ Founded'
    BY <2>2, <2>3 DEF Rested, Founded
  <2>8. Forward'
    BY <2>2, <2>3 DEF Forward, Past, Lost, Beyond, Building, Moved, DeepPhases
  <2>9. Straight'
    BY <2>2 DEF Straight
  <2> QED
    BY <2>3, <2>4, <2>5, <2>6, <2>7, <2>8, <2>9 DEF Inv, Base, Stands
<1> QED
  BY <1>3, <1>4

\* A rejection shows the Grill, and from then on the workflow counts as sent back
\* unless it was there.
LEMMA RejectKeeps ==
  ASSUME Inv, RejectWithoutQuestion
  PROVE  Inv'
<1>0. Stands(session) /\ Base /\ Rested /\ Founded /\ Forward /\ Straight
  BY DEF Inv, Base, Stands
<1>1. /\ session.waitUser = {} /\ session' = Reject(session) /\ trail' = trail
      /\ sentBack' = (sentBack \/ session.stage # "GRILL") /\ seen' = seen
  BY DEF RejectWithoutQuestion, Becomes
<1>2. /\ Stands(session') /\ session'.orch = session.orch /\ session'.stage = "GRILL"
      /\ session'.waitUser = {} /\ session'.round = session.round
      /\ SameSaid(session, session') /\ SameEvidence(session, session')
      /\ SameDeep(session, session')
  BY <1>0, <1>1, RejectFields
<1>3. sentBack \in BOOLEAN /\ sentBack' \in BOOLEAN
  BY <1>0, <1>1 DEF Base, Trailed
<1>4. Shown' /\ Undecided'
  BY <1>2 DEF Shown, Undecided
<1>5. Trailed' /\ Gathered'
  BY <1>0, <1>1, <1>2, <1>3 DEF Base, Trailed, Gathered, SameSaid, SameEvidence
<1>6. EverythingTracesBack' /\ NoDocumentNoClaim'
  BY <1>0, <1>1, <1>2, TracesKept DEF Base, SameSaid
<1>7. Rested'
  BY <1>0, <1>1, <1>2, RestedKept DEF SameSaid, SameEvidence
<1>8. Founded'
  BY <1>0, <1>1, <1>2 DEF Founded, Deepened, SameEvidence, SameDeep, DeepPhases
<1>9. ~sentBack' => ~sentBack /\ session.stage = "GRILL"
  BY <1>1
<1>10. Forward'
  BY <1>0, <1>1, <1>2, <1>9
  DEF Forward, Past, Lost, Beyond, Building, SameEvidence, SameDeep, DeepPhases
<1>11. Straight'
  BY <1>0, <1>1, <1>2, <1>9 DEF Straight, Offered, Lost, Past, Beyond, SameEvidence
<1> QED
  BY <1>2, <1>4, <1>5, <1>6, <1>7, <1>8, <1>10, <1>11 DEF Inv, Base, Stands

\* A retry begins an attempt in the phase of the one that asked, or that was cancelled.
LEMMA RetriesKeeps ==
  ASSUME Inv, UNCHANGED history, Resumable, session.deep = {},
         NEW s, Stands(s), s.round = session.round, SameEvidence(session, s),
         SameDeep(session, s), s.premises = session.premises, session.answered \subseteq s.answered,
         \/ s = session
         \/ Moved(s, "GRILL") /\ s.waitUser = {} /\ session.waitUser # {},
         session' = RetryDeepKnowledge(s),
         SameStores(trail, trail'), Carries(trail, trail'), trail'.fallback = trail.fallback,
         trail'.built = trail.built, trail'.cites = {}
  PROVE  Inv'
<1>0. Stands(session) /\ Base /\ Rested /\ Founded /\ Forward /\ Straight
  BY DEF Inv, Base, Stands
<1>1. seen' = seen /\ sentBack' = sentBack
  BY DEF history
<1>2. RetryPhase(s) = (IF session.retryPhase # {} THEN session.retryPhase ELSE session.resumePhase)
  BY DEF RetryPhase, SameDeep
<1>3. CASE s.round # {} /\ RetryPhase(s) # {}
  <2>1. PICK phase \in RetryPhase(s) :
          /\ Stands(session') /\ Moved(session', phase) /\ session'.waitUser = {}
          /\ session'.round = s.round
          /\ SameSaid(s, session') /\ SameEvidence(s, session')
          /\ session'.discoveries = s.discoveries
          /\ session'.deep # {} /\ \A a \in session'.deep : a.phase = phase
          /\ session'.retryPhase = {} /\ session'.resumePhase = {}
    BY <1>3, RetryFields
  <2>2. /\ session'.round = session.round /\ session'.premises = session.premises
        /\ SameEvidence(session, session') /\ session.answered \subseteq session'.answered
        /\ session'.discoveries = session.discoveries
    BY <2>1 DEF SameSaid, SameEvidence, SameDeep
  <2>3. phase \in DeepPhases
    BY <1>0, <1>2, StandFacts
  <2>4. Shown' /\ Undecided'
    BY <2>1 DEF Shown, Undecided, Moved
  <2>5. Base'
    BY <1>0, <2>1, <2>2, <2>4, BaseKept DEF SameEvidence
  <2>6. Rested'
    BY <1>0, <2>1, <2>2, RestedKept DEF SameEvidence, SameStores, Carries
  <2>7. Founded'
    BY <1>0, <2>1, <2>2 DEF Founded, Deepened, Resumable, SameEvidence, SameStores
  <2>8. ~sentBack => trail.package = {} /\ (Past => Beyond)
    BY ResumableFacts
  <2>9. ~sentBack => (Beyond <=> phase = "KNOWLEDGE_UNDERSTANDING")
    <3>1. \A p, q \in session.retryPhase : p = q
      BY <1>0, StandFacts
    <3> QED
      BY <1>2, <2>1, <3>1, ResumableFacts
  <2>10. Beyond' <=> phase = "KNOWLEDGE_UNDERSTANDING"
    BY <2>1, <2>3 DEF Beyond, Building, Moved, DeepPhases
  <2>11. (Past <=> Past') /\ Offered' = Offered
    BY <2>2 DEF Past, Offered, SameEvidence, SameStores
  <2>12. Forward'
    BY <1>0, <1>1, <2>1, <2>2, <2>3, <2>8, <2>9, <2>10, <2>11
    DEF Forward, Lost, Moved, SameEvidence, SameStores
  <2>13. Straight'
    BY <1>0, <1>1, <2>8, <2>9, <2>10, <2>11, StraightKept DEF Lost
  <2> QED
    BY <2>5, <2>6, <2>7, <2>12, <2>13 DEF Inv
<1>4. CASE s.round = {} \/ RetryPhase(s) = {}
  <2>1. session' = s
    BY <1>4 DEF RetryDeepKnowledge
  <2>2. /\ session'.round = session.round /\ session'.premises = session.premises
        /\ SameEvidence(session, session') /\ session.answered \subseteq session'.answered
        /\ SameDeep(session, session') /\ Stands(session')
    BY <2>1
  <2>3. CASE s = session
    <3>1. session' = session
      BY <2>1, <2>3
    <3>2. Shown' /\ Undecided'
      BY <1>0, <3>1 DEF Base, Shown, Undecided, AnsweredBefore, DecidedIds, CurrentRoundId
    <3>3. Base'
      BY <1>0, <2>2, <3>2, BaseKept DEF SameEvidence
    <3>4. \A q \in session.waitUser : q.kind # "grill_confirmation"
      BY <1>0, StandFacts DEF Resumable, Shown, Base, DeepPhases
    <3>5. Rested'
      BY <1>0, <2>2, <3>1, <3>4, RestedKept DEF SameEvidence, SameStores, Carries
    <3>6. Founded'
      BY <1>0, <3>1 DEF Founded, Deepened, SameStores
    <3>7. (Beyond <=> Beyond') /\ (Past <=> Past') /\ Offered' = Offered
      BY <3>1 DEF Beyond, Past, Offered, SameStores
    <3>8. Forward'
      BY <1>0, <1>1, <3>1, <3>7 DEF Forward, Lost, SameStores
    <3>9. Straight'
      BY <1>0, <1>1, <3>7, StraightKept DEF Lost, SameStores
    <3> QED
      BY <3>3, <3>5, <3>6, <3>8, <3>9 DEF Inv
  <2>4. CASE Moved(s, "GRILL") /\ s.waitUser = {} /\ session.waitUser # {}
    <3>1. sentBack
      <4>1. session.round # {}
        BY <1>0, <2>4, StandFacts
      <4>2. ~sentBack => RetryPhase(s) # {}
        BY <1>2, <2>4, ResumableFacts
      <4>3. sentBack \in BOOLEAN
        BY <1>0 DEF Base, Trailed
      <4> QED
        BY <1>4, <4>1, <4>2, <4>3
    <3>2. Shown' /\ Undecided'
      BY <2>1, <2>4 DEF Shown, Undecided, Moved
    <3>3. Base'
      BY <1>0, <2>2, <3>2, BaseKept DEF SameEvidence
    <3>4. Rested'
      BY <1>0, <2>1, <2>2, <2>4, RestedKept DEF SameEvidence, SameStores, Carries
    <3>5. Founded'
      BY <1>0, <2>1, <2>2, <2>4
      DEF Founded, Deepened, Moved, SameEvidence, SameDeep, SameStores, DeepPhases
    <3> QED
      BY <1>1, <3>1, <3>3, <3>4, <3>5 DEF Inv, Forward, Straight
  <2> QED
    BY <2>3, <2>4
<1> QED
  BY <1>3, <1>4

LEMMA ContinueDeepKeeps ==
  ASSUME Inv, ContinueDeep
  PROVE  Inv'
<1>0. Stands(session) /\ Base /\ Rested /\ Founded /\ Forward /\ Straight
  BY DEF Inv, Base, Stands
<1>1. seen' = seen /\ sentBack' = sentBack /\ UNCHANGED history /\ Resumable
  BY DEF ContinueDeep, Resumable, history
<1>2. CASE session.deep = {}
  <2>1. session' = RetryDeepKnowledge(session) /\ trail' = [trail EXCEPT !.cites = {}]
    BY <1>2 DEF ContinueDeep, Becomes
  <2>2. /\ SameStores(trail, trail') /\ Carries(trail, trail') /\ trail'.fallback = trail.fallback
        /\ trail'.built = trail.built /\ trail'.cites = {}
    BY <1>0, <2>1 DEF Base, Trailed, NewTrail, SameStores, Carries
  <2>3. SameEvidence(session, session) /\ SameDeep(session, session)
    BY DEF SameEvidence, SameDeep
  <2> QED
    BY <1>0, <1>1, <1>2, <2>1, <2>2, <2>3, RetriesKeeps
<1>3. CASE session.deep # {}
  <2>1. PICK a \in session.deep :
          /\ CanBeginDeepKnowledge(session, a.phase)
          /\ session' = BeginDeepKnowledge(session, a.phase) /\ trail' = trail
    BY <1>3 DEF ContinueDeep, Becomes
  <2> DEFINE phase == a.phase
  <2>2. phase \in DeepPhases /\ session.round # {}
    BY <1>0, <1>3, StandFacts
  <2>3. session' = BeginDeepKnowledge(session, phase)
    BY <2>1
  <2>4. ~sentBack => phase = session.stage /\ session.waitUser = {} /\ trail.package = {}
    BY <1>1, <1>3, ResumableFacts
  <2> HIDE DEF phase
  <2>5. /\ Stands(session') /\ Moved(session', phase) /\ session'.waitUser = {}
        /\ session'.round = session.round
        /\ SameSaid(session, session') /\ SameEvidence(session, session')
        /\ session'.discoveries = session.discoveries
        /\ session'.deep # {} /\ \A b \in session'.deep : b.phase = phase
    BY <1>0, <2>2, <2>3, BeginDeepFields
  <2>6. /\ SameStores(trail, trail') /\ Carries(trail, trail') /\ trail'.fallback = trail.fallback
        /\ trail'.built = trail.built /\ trail'.cites = trail.cites
    BY <1>0, <2>1, SameStoresRefl DEF Base
  <2>7. Shown' /\ Undecided'
    BY <2>5 DEF Shown, Undecided, Moved
  <2>8. Base'
    BY <1>0, <1>1, <2>5, <2>6, <2>7, BaseKept DEF SameSaid, SameEvidence
  <2>9. Rested'
    BY <1>0, <2>5, <2>6, RestedKept DEF SameSaid, SameEvidence, SameStores, Carries
  <2>10. Founded'
    BY <1>0, <1>3, <2>5, <2>6 DEF Founded, Deepened, SameEvidence, SameStores
  <2>11. ~sentBack => (Beyond <=> Beyond')
    BY <2>2, <2>4, <2>5 DEF Beyond, Building, Moved, DeepPhases
  <2>12. (Past <=> Past') /\ Offered' = Offered
    BY <2>5, <2>6 DEF Past, Offered, SameEvidence, SameStores
  <2>13. Forward'
    BY <1>0, <1>1, <2>2, <2>4, <2>5, <2>6, <2>11, <2>12
    DEF Forward, Lost, Moved, SameEvidence, SameStores
  <2>14. Straight'
    BY <1>0, <1>1, <2>4, <2>6, <2>11, <2>12, StraightKept DEF Lost
  <2> QED
    BY <2>8, <2>9, <2>10, <2>13, <2>14 DEF Inv
<1> QED
  BY <1>2, <1>3

LEMMA AnswerDeepDecisionKeeps ==
  ASSUME Inv, AnswerDeepDecision
  PROVE  Inv'
<1>0. Stands(session) /\ Trailed
  BY DEF Inv, Base, Stands
<1>1. PICK q \in session.waitUser :
        /\ q.kind = "deep_decision"
        /\ Becomes(RetryDeepKnowledge(RecordAnswer(session, "other")), Recorded(session, trail, q))
  BY DEF AnswerDeepDecision
<1>2. UNCHANGED history /\ Resumable /\ "other" \in Answers
  BY <1>1, AnswersAssumption DEF AnswerDeepDecision, Resumable
<1>3. q \in Questions /\ session.deep = {}
  BY <1>0, <1>1, StandFacts
<1> DEFINE s == RecordAnswer(session, "other")
<1>4. /\ Stands(s) /\ s.round = session.round /\ SameEvidence(session, s) /\ SameDeep(session, s)
      /\ s.premises = session.premises /\ session.answered \subseteq s.answered
      /\ s = session \/ (s.waitUser = {} /\ Moved(s, "GRILL"))
  BY <1>0, <1>1, <1>2, LaterAnswerFields
<1>5. session' = RetryDeepKnowledge(s)
  BY <1>1 DEF Becomes
<1>6. /\ SameStores(trail, trail') /\ Carries(trail, trail') /\ trail'.fallback = trail.fallback
      /\ trail'.built = trail.built /\ trail'.cites = {}
  BY <1>0, <1>1, <1>3, RecordedFields DEF Becomes
<1> HIDE DEF s
<1> QED
  BY <1>1, <1>2, <1>3, <1>4, <1>5, <1>6, RetriesKeeps

\* The user agrees to go on with what there is, and everything kept is on offer.
LEMMA AnswerFallbackKeeps ==
  ASSUME Inv, AnswerFallback
  PROVE  Inv'
<1>0. Stands(session) /\ Base /\ Rested /\ Founded /\ Forward /\ Straight
  BY DEF Inv, Base, Stands
<1>1. PICK q \in session.waitUser :
        /\ q.kind = "deep_discovery_fallback"
        /\ Becomes(BeginDeepKnowledge(RecordAnswer(session, "agree"), "KNOWLEDGE_UNDERSTANDING"),
                   [Recorded(session, trail, q) EXCEPT !.fallback = {q}])
  BY DEF AnswerFallback
<1>2. /\ seen' = seen /\ sentBack' = sentBack /\ UNCHANGED history /\ "agree" \in Answers
      /\ "KNOWLEDGE_UNDERSTANDING" \in DeepPhases
  BY AnswersAssumption DEF AnswerFallback, history, DeepPhases
<1>3. /\ q \in Questions /\ session.round # {} /\ \A p \in session.waitUser : p = q
  BY <1>0, StandFacts
<1> DEFINE s == RecordAnswer(session, "agree")
           t == Recorded(session, trail, q)
<1>4. /\ Stands(s) /\ s.round = session.round /\ SameEvidence(session, s) /\ SameDeep(session, s)
      /\ s.premises = session.premises /\ session.answered \subseteq s.answered
      /\ (~Acceptable(session, q, "agree") /\ s = session) \/ s.answered = session.answered \cup {q}
  BY <1>0, <1>1, <1>2, LaterAnswerFields
<1>5. q \in s.answered
  BY <1>1, <1>4 DEF Acceptable
<1>6. /\ SameStores(trail, t) /\ Carries(trail, t) /\ t.built = trail.built /\ t.cites = {}
  BY <1>0, <1>3, RecordedFields DEF Base
<1>7. /\ session' = BeginDeepKnowledge(s, "KNOWLEDGE_UNDERSTANDING")
      /\ trail' = [t EXCEPT !.fallback = {q}]
  BY <1>1 DEF Becomes
<1> HIDE DEF s, t
<1>8. /\ Stands(session') /\ Moved(session', "KNOWLEDGE_UNDERSTANDING") /\ session'.waitUser = {}
      /\ session'.round = s.round /\ SameSaid(s, session') /\ SameEvidence(s, session')
      /\ session'.discoveries = s.discoveries
      /\ session'.deep # {} /\ \A b \in session'.deep : b.phase = "KNOWLEDGE_UNDERSTANDING"
  BY <1>2, <1>3, <1>4, <1>7, BeginDeepFields
<1>9. /\ session'.round = session.round /\ session'.premises = session.premises
      /\ SameEvidence(session, session') /\ session'.discoveries = session.discoveries
      /\ session.answered \subseteq session'.answered /\ q \in session'.answered
  BY <1>4, <1>5, <1>8 DEF SameSaid, SameEvidence, SameDeep
<1>10. /\ SameStores(trail, trail') /\ Carries(trail, trail') /\ trail'.fallback = {q}
       /\ trail'.built = trail.built /\ trail'.cites = {}
  BY <1>6, <1>7 DEF SameStores, Carries, NewTrail
<1>11. Shown' /\ Undecided'
  BY <1>8 DEF Shown, Undecided, Moved
<1>12. Base'
  BY <1>0, <1>2, <1>3, <1>8, <1>9, <1>10, <1>11, BaseKept DEF SameEvidence
<1>13. Rested'
  BY <1>0, <1>8, <1>9, <1>10, RestedKept DEF SameEvidence, SameStores, Carries
<1>14. Founded'
  BY <1>0, <1>1, <1>9, <1>10 DEF Founded, Deepened, SameEvidence, SameStores
<1>15. ~sentBack => session.stage = "WAIT_USER" /\ trail.package = {} /\ ~Lost
  <2>1. ~sentBack => session.stage = "WAIT_USER"
    BY <1>0, StandFacts DEF Forward
  <2> QED
    BY <1>0, <1>1, <1>3, <2>1 DEF Forward, Lost, Beyond, Building, BuildKinds
<1>16. Past' /\ Beyond'
  BY <1>8, <1>10 DEF Past, Beyond, Moved
<1>17. Forward'
  BY <1>0, <1>2, <1>8, <1>9, <1>10, <1>15, <1>16
  DEF Forward, Lost, Building, Moved, SameEvidence, SameStores
<1>18. Offered \subseteq Offered'
  BY <1>9, <1>10 DEF Offered, SameEvidence, SameStores
<1>19. Straight'
  BY <1>0, <1>2, <1>10, <1>15, <1>18, StraightKept
<1> QED
  BY <1>12, <1>13, <1>14, <1>17, <1>19 DEF Inv

-----------------------------------------------------------------------------
(* The specification.                                                      *)

LEMMA InitInv == Init => Inv
<1> SUFFICES ASSUME Init PROVE Inv
  OBVIOUS
<1>1. session = NewSession /\ trail = NewTrail /\ seen = {} /\ sentBack = FALSE
  BY DEF Init
<1>2. Stands(session)
  BY <1>1, NewSessionGood, NewSessionGrounded DEF Stands
<1>3. /\ session.orch = "RECEIVE" /\ session.stage = "RECEIVE" /\ session.waitUser = {}
      /\ session.round = {} /\ session.answered = {} /\ session.premises = {}
      /\ session.fetched = {} /\ session.supplemental = {} /\ session.locked = {}
      /\ session.deep = {} /\ session.discoveries = 0
  BY <1>1 DEF NewSession
<1>4. /\ trail.manifest = {} /\ trail.relevant = FALSE /\ trail.grillRun = FALSE
      /\ trail.consent = FALSE /\ trail.keptGrill = {} /\ trail.keptDeep = {}
      /\ trail.fallback = {} /\ trail.cites = {} /\ trail.citedBy = {}
      /\ trail.package = {} /\ trail.built = {} /\ DOMAIN trail = DOMAIN NewTrail
  BY <1>1 DEF NewTrail
<1>5. Shown /\ Undecided /\ Trailed /\ Gathered
  BY <1>1, <1>3, <1>4 DEF Shown, Undecided, Trailed, Gathered
<1>6. EverythingTracesBack /\ NoDocumentNoClaim
  BY <1>4 DEF EverythingTracesBack, NoDocumentNoClaim, Packaged
<1>7. Rested /\ Founded /\ Straight
  BY <1>3, <1>4 DEF Rested, Founded, Straight
<1>8. Forward
  BY <1>3, <1>4 DEF Forward, Past, Lost, Beyond, Building, DeepPhases
<1> QED
  BY <1>2, <1>5, <1>6, <1>7, <1>8 DEF Inv, Base, Stands

LEMMA StutterKeeps ==
  ASSUME Inv, UNCHANGED vars
  PROVE  Inv'
<1>1. session' = session /\ trail' = trail /\ seen' = seen /\ sentBack' = sentBack
  BY DEF vars, history
<1>2. Base'
  BY <1>1 DEF Inv, Base, Shown, Undecided, AnsweredBefore, DecidedIds, CurrentRoundId, Trailed,
              Gathered, EverythingTracesBack, NoDocumentNoClaim, Packaged
<1>3. Rested' /\ Founded'
  BY <1>1 DEF Inv, Rested, Founded, Deepened
<1>4. Forward'
  BY <1>1 DEF Inv, Forward, Past, Lost, Beyond
<1>5. Straight'
  BY <1>1 DEF Inv, Straight, Offered, Past, Lost, Beyond
<1> QED
  BY <1>2, <1>3, <1>4, <1>5 DEF Inv

\* Every step keeps the invariant.
LEMMA NextInv == Inv /\ [Next]_vars => Inv'
<1> SUFFICES ASSUME Inv, [Next]_vars PROVE Inv'
  OBVIOUS
<1>1. CASE UNCHANGED vars
  BY <1>1, StutterKeeps
<1>2. CASE Start \/ Cancel \/ RejectWithoutQuestion \/ ContinueDeep
  BY <1>2, StartKeeps, CancelKeeps, RejectKeeps, ContinueDeepKeeps
<1>3. CASE ContinueGrill
  BY <1>3, RunsAgainKeeps DEF ContinueGrill
<1>4. CASE Fetch \/ GrillAsksForConsent \/ GrillReady
  BY <1>4, FetchKeeps, GrillAsksForConsentKeeps, GrillReadyKeeps
<1>5. CASE DeepSearch \/ TargetUnclear \/ RetrievalComplete \/ NeedsDiscovery \/ UnderstandingComplete
  BY <1>5, DeepSearchKeeps, TargetUnclearKeeps, RetrievalCompleteKeeps, NeedsDiscoveryKeeps,
     UnderstandingCompleteKeeps
<1>6. CASE ContextComplete \/ AdrComplete
  BY <1>6, ContextCompleteKeeps, AdrCompleteKeeps
<1>7. ASSUME NEW d \in DecisionIds \ {ConsentId},
             GrillAsks(d) \/ RetrievalAsks(d) \/ UnderstandingAsks(d) \/ ContextAsks(d) \/ AdrAsks(d)
      PROVE  Inv'
  BY <1>7, GrillAsksKeeps, RetrievalAsksKeeps, UnderstandingAsksKeeps, ContextAsksKeeps, AdrAsksKeeps
<1>8. CASE AnswerConsent \/ AnswerGrill \/ AnswerRelevance
  BY <1>8, AnswerConsentKeeps, AnswerGrillKeeps, AnswerRelevanceKeeps
<1>9. CASE AnswerDeepDecision \/ AnswerFallback \/ AnswerBuild
  BY <1>9, AnswerDeepDecisionKeeps, AnswerFallbackKeeps, AnswerBuildKeeps
<1> QED
  BY <1>1, <1>2, <1>3, <1>4, <1>5, <1>6, <1>7, <1>8, <1>9 DEF Next

\* The invariant holds of every behaviour, with any number of documents, rounds
\* and attempts and whichever commands the user knows.
LEMMA AlwaysInv == Spec => []Inv
BY InitInv, NextInv, PTL DEF Spec

-----------------------------------------------------------------------------
(* The theorems.                                                           *)

\* The stores of the session and of the extension (evidenceManifest,
\* workflowGrillEvidence, workflowDeepEvidence) hold evidence, and citations name
\* decisions.
THEOREM TypeCorrect == Spec => []TypeOK
<1>1. Inv => TypeOK
  BY DEF Inv, Base, Good, WellFormed, Trailed, Gathered, TypeOK
<1> QED
  BY <1>1, AlwaysInv, PTL

\* Whatever the Context, the ADR, the package, a decision or a question rests on was
\* read or found in this workflow, or said by its user, although every tool checks
\* the ids that the agent writes against a store of its own.
THEOREM TracesBack == Spec => []EverythingTracesBack
<1>1. Inv => EverythingTracesBack
  BY DEF Inv, Base
<1> QED
  BY <1>1, AlwaysInv, PTL

\* A package of forge_deep_complete without a single document is exploratory unless
\* the agent says what it is: with a snapshot that lists anything, there is a
\* document behind every premise and before every Deep attempt.
THEOREM PremisesAloneAreExploratory == Spec => []NoDocumentNoClaim
<1>1. Inv => NoDocumentNoClaim
  BY DEF Inv, Base
<1> QED
  BY <1>1, AlwaysInv, PTL

\* What the user's decisions cite is in the package, in a workflow that was not sent
\* back and lost nothing.
LEMMA InvPasses == Inv => HonestCompletionPasses
<1> DEFINE m == Material(session, trail)
<1> SUFFICES ASSUME Inv, Understanding # {}, m.inherited \cap m.supplemental = {}, ~Interrupted
             PROVE  Valid(trail, m)
  BY DEF HonestCompletionPasses
<1>1. PICK a \in Understanding : TRUE
  OBVIOUS
<1>2. "KNOWLEDGE_UNDERSTANDING" \in DeepPhases /\ a \in Live("KNOWLEDGE_UNDERSTANDING")
  BY DEF DeepPhases, Understanding
<1>3. ~sentBack /\ Past
  BY DEF Interrupted, Past
<1>4. trail.package = {} /\ ~Lost
  BY <1>2, <1>3, LiveFacts DEF Lost
<1>5. \A d \in trail.citedBy : d.cites \subseteq Offered
  BY <1>3, <1>4 DEF Inv, Straight
<1>6. Offered \subseteq Sources(m)
  BY <1>3, MaterialFacts
<1> HIDE DEF m
<1>7. CitedByDecisions(trail, m) \subseteq Evidence(m)
  BY <1>5, <1>6 DEF CitedByDecisions, Evidence
<1> QED
  BY <1>7 DEF Valid

\* An agent that claims nothing of its own can always complete Knowledge Understanding:
\* validateEvidencePackage refuses no decision of the user for what it cites.
THEOREM HonestCompletion == Spec => []HonestCompletionPasses
BY InvPasses, AlwaysInv, PTL

=============================================================================
