---------------------------- MODULE SessionState ----------------------------
(***************************************************************************)
(* The state of one Forge session, forge-runtime/src/runtime/              *)
(* session-state.ts, as a record, with one operator per public method that *)
(* changes it: Op(s, ...) is the session after the call.  A method that    *)
(* can throw has a guard CanOp; a call whose guard is false throws and,    *)
(* unless its operator says otherwise, changes nothing.                    *)
(*                                                                         *)
(* An optional value is a set with at most one member: s.deep = {} when no *)
(* Deep attempt is live, and "id is the identity of the live attempt" is   *)
(* id \in s.deep.  Round and attempt numbers are the counters the runtime  *)
(* issues (grill-1, deep-1, context-1, adr-1).  A snapshot is named by the *)
(* round it was taken for, so a round is the first of its snapshot iff its *)
(* two numbers agree.  A Knowledge package is named by the Deep attempt    *)
(* that produced it, and a Context or ADR candidate by the package it was  *)
(* validated against.  Texts, options and summaries are left out.          *)
(*                                                                         *)
(* The orchestrator does not exist before the first workflow; every method *)
(* treats that like the stage RECEIVE, and so does this module.            *)
(***************************************************************************)
EXTENDS Naturals, WorkflowStages

CONSTANTS
  DecisionIds,   \* decision ids that the agent or the user chooses
  Answers,       \* answers of the user, as far as the session tells them apart
  EvidenceIds,   \* evidence that discovery and Deep searches can return
  SearchLimit,   \* DEEP_SEARCH_MAX_PER_SOURCE_ROUND
  AnswerLimit    \* GRILL_ANSWER_CHECKPOINT

\* "agree" stands for the answers the fallback question accepts, the next two
\* are the options of a checkpoint that go on, "other" is any other text.
ASSUME AnswersAssumption == {"agree", "continue_one", "converge", "other"} \subseteq Answers

ASSUME LimitsAssumption == SearchLimit \in Nat \ {0} /\ AnswerLimit \in Nat \ {0}

\* Decision ids the runtime makes up, one per attempt or round.
RuntimeIds == {"fallback", "checkpoint", "target", "relevance"} \X Nat
AllDecisionIds == DecisionIds \cup RuntimeIds

-----------------------------------------------------------------------------
(* The record.                                                             *)

\* What the panel shows as the stage: a stage, or that confirm or recordAnswer was refused.
PanelStages == Stages \cup {"REFUSED"}

QuestionKinds == {"grill_confirmation", "grill_checkpoint", "relevance_clarification",
                  "deep_decision", "deep_discovery_fallback",
                  "context_ambiguity", "adr_ambiguity"}

\* A question put to the user, identified by waitUserDecisionKey; the round
\* is the id of a Deep attempt when the kind is deep_decision.
Questions == [kind: QuestionKinds, round: Nat, id: AllDecisionIds]

\* humanDecisions, by decision id.
Decisions == [id: AllDecisionIds, answer: Answers]

Rounds        == [id: Nat, snapshot: Nat]
DeepAttempts  == [id: Nat, round: Nat, phase: DeepPhases]
BuildAttempts == [id: Nat, round: Nat]

\* A Knowledge package, by the Deep attempt it came from.
Packages == [id: Nat, round: Nat]

\* The root cause of validationRepair, as far as it is read: the note that a
\* rejection leaves is only shown, and counts as none.
RepairNotes == {"none", "RECOVERY_REQUIRED"}

NewSession ==
  [ orch |-> "RECEIVE", stage |-> "RECEIVE", repair |-> "none", waitUser |-> {},
    round |-> {}, omitted |-> FALSE,
    answered |-> {}, decisions |-> {}, premises |-> {},
    answers |-> 0, continueOne |-> FALSE,
    deep |-> {}, retryPhase |-> {}, resumePhase |-> {}, discoveries |-> 0,
    searchRound |-> {}, searches |-> 0,
    fetched |-> {}, supplemental |-> {}, locked |-> {},
    package |-> {}, context |-> {}, contextCandidate |-> {}, adr |-> {}, adrCandidate |-> {},
    nextRound |-> 1, nextDeep |-> 1, nextContext |-> 1, nextAdr |-> 1 ]

\* The fields of a session and what each may hold.
IsSession(s) ==
  /\ DOMAIN s = DOMAIN NewSession
  /\ s.orch \in Stages /\ s.stage \in PanelStages /\ s.repair \in RepairNotes
  /\ s.waitUser \subseteq Questions /\ s.round \subseteq Rounds /\ s.omitted \in BOOLEAN
  /\ s.answered \subseteq Questions /\ s.decisions \subseteq Decisions
  /\ s.premises \subseteq Questions /\ s.answers \in Nat /\ s.continueOne \in BOOLEAN
  /\ s.deep \subseteq DeepAttempts /\ s.retryPhase \subseteq DeepPhases
  /\ s.resumePhase \subseteq DeepPhases /\ s.discoveries \in Nat
  /\ s.searchRound \subseteq Nat /\ s.searches \in Nat
  /\ s.fetched \subseteq EvidenceIds /\ s.supplemental \subseteq EvidenceIds
  /\ s.locked \subseteq [inherited: SUBSET EvidenceIds, supplemental: SUBSET EvidenceIds]
  /\ s.package \subseteq Packages /\ s.context \subseteq BuildAttempts
  /\ s.contextCandidate \subseteq Packages
  /\ s.adr \subseteq BuildAttempts /\ s.adrCandidate \subseteq Packages
  /\ s.nextRound \in Nat /\ s.nextDeep \in Nat /\ s.nextContext \in Nat /\ s.nextAdr \in Nat

\* A session: its fields hold what they may, optional values one member at most.
AtMostOne(optional) == \A x, y \in optional : x = y

WellFormed(s) ==
  /\ IsSession(s)
  /\ AtMostOne(s.waitUser) /\ AtMostOne(s.round) /\ AtMostOne(s.deep)
  /\ AtMostOne(s.retryPhase) /\ AtMostOne(s.resumePhase) /\ AtMostOne(s.searchRound)
  /\ AtMostOne(s.locked) /\ AtMostOne(s.package)
  /\ AtMostOne(s.context) /\ AtMostOne(s.contextCandidate)
  /\ AtMostOne(s.adr) /\ AtMostOne(s.adrCandidate)

\* The member of an optional value that is present.
The(optional) == CHOOSE x \in optional : TRUE

CurrentRoundId(s) == {r.id : r \in s.round}

\* The orchestrator and the panel move to a stage together.
MoveTo(s, stage) == [s EXCEPT !.orch = stage, !.stage = stage]

\* The user is asked q.
Ask(s, q) == [MoveTo(s, "WAIT_USER") EXCEPT !.waitUser = {q}]

-----------------------------------------------------------------------------
(* Starting a workflow, Light Discovery and Grill.                         *)

CanBeginIntent(s) == s.orch = "INTENT_UNDERSTANDING" \/ CanMove(s.orch, "INTENT_UNDERSTANDING")
BeginIntent(s) == MoveTo(s, "INTENT_UNDERSTANDING")

CanBeginLightDiscovery(s) == s.orch = "LIGHT_DISCOVERY" \/ CanMove(s.orch, "LIGHT_DISCOVERY")
BeginLightDiscovery(s) == MoveTo(s, "LIGHT_DISCOVERY")

CanBeginGrill(s) == s.orch \in {"RECEIVE", "GRILL"} \/ CanMove(s.orch, "GRILL")
BeginGrill(s) == MoveTo(s, "GRILL")

\* Mutants: the premises, or the build candidates, outlive their snapshot.
ForgetAllButPremises(s) ==
  [s EXCEPT !.answers = 0, !.continueOne = FALSE, !.decisions = {},
            !.fetched = {}, !.supplemental = {}, !.locked = {}, !.package = {},
            !.context = {}, !.contextCandidate = {}, !.adr = {}, !.adrCandidate = {}]
ForgetAllButCandidates(s) ==
  [s EXCEPT !.answers = 0, !.continueOne = FALSE, !.decisions = {}, !.premises = {},
            !.fetched = {}, !.supplemental = {}, !.locked = {}, !.package = {},
            !.context = {}, !.adr = {}]

\* What was said, read and built on a snapshot.
ForgetSnapshot(s) ==
  [s EXCEPT !.answers = 0, !.continueOne = FALSE, !.decisions = {}, !.premises = {},
            !.fetched = {}, !.supplemental = {}, !.locked = {}, !.package = {},
            !.context = {}, !.contextCandidate = {}, !.adr = {}, !.adrCandidate = {}]

\* Mutant: a Deep attempt survives the round it was begun for.
StartGrillRoundInDeep(s, fresh) ==
  LET first    == fresh \/ s.round = {}
      snapshot == IF first THEN s.nextRound ELSE The(s.round).snapshot
  IN  [IF first THEN ForgetSnapshot(s) ELSE s EXCEPT
         !.omitted = FALSE, !.searchRound = {}, !.searches = 0,
         !.round = {[id |-> s.nextRound, snapshot |-> snapshot]}, !.nextRound = @ + 1]

\* Mutant: a further round on a snapshot leaves the round before it in place.
StartGrillRoundBeside(s, fresh) ==
  LET first    == fresh \/ s.round = {}
      snapshot == IF first THEN s.nextRound ELSE The(s.round).snapshot
  IN  [IF first THEN ForgetSnapshot(s) ELSE s EXCEPT
         !.omitted = FALSE, !.searchRound = {}, !.searches = 0, !.deep = {},
         !.round = (IF first THEN {} ELSE @) \cup {[id |-> s.nextRound, snapshot |-> snapshot]},
         !.nextRound = @ + 1]

\* startGrillRound, with a snapshot just taken or with that of the current
\* round.
StartGrillRound(s, fresh) ==
  LET first    == fresh \/ s.round = {}
      snapshot == IF first THEN s.nextRound ELSE The(s.round).snapshot
  IN  [IF first THEN ForgetSnapshot(s) ELSE s EXCEPT
         !.omitted = FALSE, !.searchRound = {}, !.searches = 0, !.deep = {},
         !.round = {[id |-> s.nextRound, snapshot |-> snapshot]}, !.nextRound = @ + 1]

\* The agent ended its turn without a completion; only the first time counts.
RecordCompletionOmission(s) ==
  IF s.omitted THEN s
  ELSE [s EXCEPT !.omitted = TRUE, !.stage = "GRILL", !.repair = "RECOVERY_REQUIRED"]

CanRetryGrillRound(s) == s.round # {} /\ s.repair = "RECOVERY_REQUIRED"
RetryGrillRound(s) == [s EXCEPT !.omitted = FALSE, !.stage = "GRILL", !.repair = "none"]

CanRecordEvidenceFetch(s) == s.round # {}
RecordEvidenceFetch(s, e) == [s EXCEPT !.fetched = @ \cup {e}]

-----------------------------------------------------------------------------
(* Asking the user and taking the answer.                                  *)

\* requireWaitUser leaves a question alone that was answered already, or
\* whose decision id has an answer.
DecidedIds(s) == {d.id : d \in s.decisions}
AnsweredBefore(s, q) == q \in s.answered \/ q.id \in DecidedIds(s)

CanRequireWaitUser(s, q) ==
  \/ AnsweredBefore(s, q)
  \/ /\ q.round \in CurrentRoundId(s)
     /\ s.orch = "RECEIVE" \/ CanMove(s.orch, "WAIT_USER")
RequireWaitUser(s, q) ==
  IF AnsweredBefore(s, q) THEN s ELSE [Ask(s, q) EXCEPT !.repair = "none"]

\* recordAnswer does nothing with an answer that is not for this question.
Acceptable(s, q, answer) ==
  /\ q.kind \in {"grill_confirmation", "grill_checkpoint"} => q.round \in CurrentRoundId(s)
  /\ q.kind = "deep_discovery_fallback" => answer = "agree"
  /\ IF q.kind = "grill_checkpoint" THEN answer \in {"continue_one", "converge"}
                                    ELSE q \notin s.answered

\* Mutant: the last answer to a decision id replaces the ones before.
RememberLast(s, q, answer) ==
  LET confirmation == q.kind = "grill_confirmation"
  IN  [s EXCEPT
         !.answered  = @ \cup {q},
         !.decisions = {d \in @ : d.id # q.id} \cup {[id |-> q.id, answer |-> answer]},
         !.premises  = IF confirmation THEN @ \cup {q} ELSE @,
         !.answers   = IF confirmation THEN @ + 1 ELSE @]

\* The answer is kept: the first answer to a decision id stays.
Remember(s, q, answer) ==
  LET confirmation == q.kind = "grill_confirmation"
  IN  [s EXCEPT
         !.answered  = @ \cup {q},
         !.decisions = IF q.id \in DecidedIds(s) THEN @
                       ELSE @ \cup {[id |-> q.id, answer |-> answer]},
         !.premises  = IF confirmation THEN @ \cup {q} ELSE @,
         !.answers   = IF confirmation THEN @ + 1 ELSE @]

Checkpoint(s) ==
  LET r == The(s.round).id
  IN  [kind |-> "grill_checkpoint", round |-> r, id |-> <<"checkpoint", r>>]

\* Where an answer, already kept in s, takes the workflow.
Proceed(s, q) ==
  LET answered == [s EXCEPT !.waitUser = {}]
  IN  CASE /\ q.kind = "grill_confirmation"
           /\ s.answers = AnswerLimit \/ s.continueOne
             -> [Ask(s, Checkpoint(s)) EXCEPT !.continueOne = FALSE]
        [] /\ q.kind = "grill_confirmation"
           /\ ~(s.answers = AnswerLimit \/ s.continueOne)
             -> MoveTo(answered, "GRILL")
        [] q.kind = "context_ambiguity"
             -> [MoveTo(answered, "CONTEXT_BUILD") EXCEPT
                   !.context = {[id |-> s.nextContext, round |-> q.round]},
                   !.nextContext = @ + 1]
        [] q.kind = "adr_ambiguity"
             -> [MoveTo(answered, "ADR_BUILD") EXCEPT
                   !.adr = {[id |-> s.nextAdr, round |-> q.round]},
                   !.nextAdr = @ + 1]
        [] q.kind \in {"deep_discovery_fallback", "relevance_clarification"}
             -> MoveTo(answered, "USER_CONFIRMED")
        [] OTHER -> MoveTo(answered, "GRILL")

RecordAnswer(s, answer) ==
  IF s.orch # "WAIT_USER" THEN [s EXCEPT !.stage = "REFUSED"]
  ELSE LET q == The(s.waitUser)
       IN  IF ~Acceptable(s, q, answer) THEN s
           ELSE IF q.kind = "grill_checkpoint"
                  THEN [MoveTo(s, "GRILL") EXCEPT !.waitUser = {},
                                                  !.continueOne = (answer = "continue_one")]
                  ELSE Proceed(Remember(s, q, answer), q)

Confirm(s) ==
  IF s.orch # "WAIT_USER" THEN [s EXCEPT !.stage = "REFUSED"]
  ELSE [MoveTo(s, "USER_CONFIRMED") EXCEPT !.waitUser = {}]

\* reject always shows GRILL; the orchestrator follows only out of WAIT_USER.
Reject(s) ==
  [s EXCEPT !.orch = IF @ = "WAIT_USER" THEN "GRILL" ELSE @,
            !.stage = "GRILL", !.repair = "none", !.waitUser = {}]

-----------------------------------------------------------------------------
(* Deep Knowledge.                                                         *)

\* Mutant: every attempt starts with a search budget of its own.
NewDeepAttemptAndBudget(s, phase) ==
  [s EXCEPT !.deep = {[id |-> s.nextDeep, round |-> The(s.round).id, phase |-> phase]},
            !.nextDeep = @ + 1, !.retryPhase = {}, !.resumePhase = {}, !.searches = 0]

NewDeepAttempt(s, phase) ==
  [s EXCEPT !.deep = {[id |-> s.nextDeep, round |-> The(s.round).id, phase |-> phase]},
            !.nextDeep = @ + 1, !.retryPhase = {}, !.resumePhase = {}]

CanBeginDeepKnowledge(s, phase) ==
  /\ s.round # {}
  /\ s.orch \in {"RECEIVE", phase} \/ CanMove(s.orch, phase)
BeginDeepKnowledge(s, phase) ==
  NewDeepAttempt([MoveTo(s, phase) EXCEPT !.waitUser = {}], phase)

\* One search, from reserveDeepSearchBudget to commitDeepSearchBudget: the
\* extension makes both calls in one synchronous stretch, and releases the
\* reservation when the search fails, so none outlives the call.
SearchesUsed(s, id) == IF s.searchRound = {id.round} THEN s.searches ELSE 0

CanSearch(s, id) ==
  id \in s.deep /\ id.round \in CurrentRoundId(s) /\ SearchesUsed(s, id) < SearchLimit
ConsumeSearch(s, id) ==
  [s EXCEPT !.searchRound = {id.round}, !.searches = SearchesUsed(s, id) + 1]

RecordDeepSupplementalEvidence(s, e) == [s EXCEPT !.supplemental = @ \cup {e}]

\* Retrieval is complete; understanding goes on under the same attempt id.
CanCompleteDeepKnowledge(s, id) ==
  /\ id \in s.deep
  /\ s.orch \in {"RECEIVE", "KNOWLEDGE_UNDERSTANDING"} \/ CanMove(s.orch, "KNOWLEDGE_UNDERSTANDING")
CompleteDeepKnowledge(s, id) ==
  [MoveTo(s, "KNOWLEDGE_UNDERSTANDING") EXCEPT
     !.deep = {[id EXCEPT !.phase = "KNOWLEDGE_UNDERSTANDING"]}, !.waitUser = {}]
CompleteDeepRetrieval(s, id, inherited) ==
  [CompleteDeepKnowledge(s, id) EXCEPT
     !.locked = {[inherited |-> inherited, supplemental |-> s.supplemental]}]

\* handleDeepResult, one operator per kind of result.
CanNeedDecision(s, id) == id \in s.deep /\ CanMove(s.orch, "WAIT_USER")
NeedDecision(s, id, d) ==
  [Ask(s, [kind |-> "deep_decision", round |-> id.id, id |-> d]) EXCEPT
     !.retryPhase = {id.phase}, !.deep = {}]

\* A second lack of sources asks the user; the count stays raised even when
\* the transition after it throws.
NeedDiscovery(s, id) ==
  LET counted == [s EXCEPT !.discoveries = @ + 1]
      target  == IF counted.discoveries >= 2 THEN "WAIT_USER" ELSE "LIGHT_DISCOVERY"
      fallback == [kind |-> "deep_discovery_fallback", round |-> id.round,
                   id |-> <<"fallback", id.id>>]
  IN  IF ~CanMove(s.orch, target) THEN counted
      ELSE IF target = "WAIT_USER" THEN [Ask(counted, fallback) EXCEPT !.deep = {}]
      ELSE [MoveTo(counted, target) EXCEPT !.deep = {}, !.waitUser = {}]

CanCompleteUnderstanding(s, id) ==
  /\ id \in s.deep
  /\ id.phase = "KNOWLEDGE_UNDERSTANDING"
  /\ CanMove(s.orch, "CONTEXT_BUILD")
CompleteUnderstanding(s, id) ==
  [MoveTo(s, "CONTEXT_BUILD") EXCEPT
     !.package = {[id |-> id.id, round |-> id.round]}, !.deep = {}, !.waitUser = {},
     !.context = {[id |-> s.nextContext, round |-> id.round]}, !.nextContext = @ + 1]

\* Mutant: the question of the cancelled attempt stays on the panel.
CancelDeepKnowledgeWhileAsking(s) ==
  [MoveTo(s, "DEEP_KNOWLEDGE_RETRIEVAL") EXCEPT
     !.deep = {}, !.retryPhase = {}, !.resumePhase = {"DEEP_KNOWLEDGE_RETRIEVAL"},
     !.discoveries = 0, !.package = {}]

CancelDeepKnowledge(s) ==
  LET phases == {a.phase : a \in s.deep}
      phase  == IF phases # {} THEN The(phases)
                ELSE IF s.retryPhase # {} THEN The(s.retryPhase)
                ELSE IF s.stage = "KNOWLEDGE_UNDERSTANDING" THEN "KNOWLEDGE_UNDERSTANDING"
                ELSE "DEEP_KNOWLEDGE_RETRIEVAL"
  IN  [MoveTo(s, phase) EXCEPT !.waitUser = {}, !.deep = {}, !.retryPhase = {},
                               !.resumePhase = {phase}, !.discoveries = 0, !.package = {}]

\* The phase a retry resumes, if any.
RetryPhase(s) == IF s.retryPhase # {} THEN s.retryPhase ELSE s.resumePhase
RetryDeepKnowledge(s) ==
  IF s.round = {} \/ RetryPhase(s) = {} THEN s
  ELSE LET phase == The(RetryPhase(s))
       IN  NewDeepAttempt([MoveTo(s, phase) EXCEPT !.waitUser = {}], phase)

-----------------------------------------------------------------------------
(* Context Build, ADR Build and the end of a workflow.                     *)

CanBuildContext(s, id) == id \in s.context /\ s.orch = "CONTEXT_BUILD" /\ s.package # {}

\* Mutant: the attempt that asks stays live.
ContextAmbiguousAndGoOn(s, id, d) ==
  Ask(s, [kind |-> "context_ambiguity", round |-> id.round, id |-> d])

ContextAmbiguous(s, id, d) ==
  [Ask(s, [kind |-> "context_ambiguity", round |-> id.round, id |-> d]) EXCEPT !.context = {}]

CompleteContextBuild(s, id) ==
  [MoveTo(s, "ADR_BUILD") EXCEPT
     !.waitUser = {}, !.context = {}, !.contextCandidate = s.package,
     !.adr = {[id |-> s.nextAdr, round |-> id.round]}, !.nextAdr = @ + 1, !.adrCandidate = {}]

CanBuildAdr(s, id) == id \in s.adr /\ s.orch = "ADR_BUILD" /\ s.package # {}

PrepareAdrBuild(s) == [s EXCEPT !.adrCandidate = s.package]

RequireAdrDecision(s, id, d) ==
  [Ask(s, [kind |-> "adr_ambiguity", round |-> id.round, id |-> d]) EXCEPT
     !.adr = {}, !.adrCandidate = {}]

\* Called with a bundle that was committed.
CanFinalizeAdrBuild(s, id) == id \in s.adr /\ s.orch = "ADR_BUILD" /\ s.adrCandidate # {}
FinalizeAdrBuild(s) == [MoveTo(s, "TO_SPEC") EXCEPT !.waitUser = {}, !.adr = {}]

\* Mutant: the numbers start again.
ResetNumbers(s) == NewSession

\* reset forgets everything except the numbers it issues next.
Reset(s) ==
  [NewSession EXCEPT !.nextRound = s.nextRound, !.nextDeep = s.nextDeep,
                     !.nextContext = s.nextContext, !.nextAdr = s.nextAdr]

=============================================================================
