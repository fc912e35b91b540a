--------------------------- MODULE SessionMachine ---------------------------
(***************************************************************************)
(* A Forge session as a machine: the object createForgeSessionState makes, *)
(* whose methods the extension, its tools and its commands call.  The      *)
(* interface promises its callers no order: a tool result, a command of    *)
(* the user and the end of a turn reach it as they come, so every method   *)
(* whose own guard is true may be the next one called.                     *)
(*                                                                         *)
(* Each action is one call, the whole method; the inputs are what the      *)
(* callers can pass.  A call that the method refuses (a stale identity, a  *)
(* stage that does not allow it) changes nothing and has no action.        *)
(***************************************************************************)
EXTENDS SessionState

CONSTANTS
  MaxRound, MaxDeep, MaxContext, MaxAdr,   \* the last numbers the runtime issues
  MaxDiscoveries                           \* discoveries counted without a reset

VARIABLES
  session,   \* the state of the object
  retired    \* history: the identities that were live once and are no longer

vars == <<session, retired>>

-----------------------------------------------------------------------------
\* The identities that a call may name now: the current Grill round, the Deep
\* attempt in its phase, and the build attempts.
LiveIdentities(s) ==
  {<<"round", r.id>> : r \in s.round} \cup {<<a.phase, a.id>> : a \in s.deep}
    \cup {<<"context", b.id>> : b \in s.context} \cup {<<"adr", b.id>> : b \in s.adr}

\* The counters grow for ever in the program.
WithinBounds(s) ==
  /\ s.nextRound <= MaxRound + 1 /\ s.nextDeep <= MaxDeep + 1
  /\ s.nextContext <= MaxContext + 1 /\ s.nextAdr <= MaxAdr + 1
  /\ s.discoveries <= MaxDiscoveries

Init == session = NewSession /\ retired = {}

\* The call that makes s of the session.
Call(s) ==
  /\ WithinBounds(s)
  /\ session' = s
  /\ retired' = retired \cup (LiveIdentities(session) \ LiveIdentities(s))

-----------------------------------------------------------------------------
(* The calls.                                                              *)

CallBeginIntent == CanBeginIntent(session) /\ Call(BeginIntent(session))
CallBeginLightDiscovery == CanBeginLightDiscovery(session) /\ Call(BeginLightDiscovery(session))
CallBeginGrill == CanBeginGrill(session) /\ Call(BeginGrill(session))
CallStartGrillRound == \E fresh \in BOOLEAN : Call(StartGrillRound(session, fresh))
CallRecordCompletionOmission == Call(RecordCompletionOmission(session))
CallRetryGrillRound == CanRetryGrillRound(session) /\ Call(RetryGrillRound(session))
CallRecordEvidenceFetch ==
  /\ CanRecordEvidenceFetch(session)
  /\ \E e \in EvidenceIds : Call(RecordEvidenceFetch(session, e))

\* The questions that callers put themselves, those of earlier rounds too.
Posable(s) ==
  [kind: {"grill_confirmation"}, round: 1 .. s.nextRound - 1, id: DecisionIds]
    \cup {[kind |-> "relevance_clarification", round |-> r, id |-> <<"relevance", r>>] :
            r \in CurrentRoundId(s)}
CallRequireWaitUser ==
  \E q \in Posable(session) :
    CanRequireWaitUser(session, q) /\ Call(RequireWaitUser(session, q))

\* The answers that the pending question tells apart.
Telling(s) == IF \E q \in s.waitUser : q.kind = "grill_checkpoint"
                THEN {"continue_one", "converge", "other"} ELSE {"agree", "other"}
CallRecordAnswer == \E answer \in Telling(session) : Call(RecordAnswer(session, answer))
CallConfirm == Call(Confirm(session))
CallReject == Call(Reject(session))

CallBeginDeepKnowledge ==
  \E phase \in DeepPhases :
    CanBeginDeepKnowledge(session, phase) /\ Call(BeginDeepKnowledge(session, phase))
CallConsumeDeepSearchBudget ==
  \E id \in session.deep : CanSearch(session, id) /\ Call(ConsumeSearch(session, id))
CallRecordDeepSupplementalEvidence ==
  /\ session.deep # {}
  /\ \E e \in EvidenceIds : Call(RecordDeepSupplementalEvidence(session, e))
\* What is inherited was fetched for the Grill on the same snapshot.
CallCompleteDeepRetrieval ==
  \E id \in session.deep, inherited \in SUBSET session.fetched :
    CanCompleteDeepKnowledge(session, id) /\ Call(CompleteDeepRetrieval(session, id, inherited))
CallCompleteDeepKnowledge ==
  \E id \in session.deep :
    CanCompleteDeepKnowledge(session, id) /\ Call(CompleteDeepKnowledge(session, id))
CallNeedDecision ==
  \E id \in session.deep, d \in DecisionIds :
    CanNeedDecision(session, id) /\ Call(NeedDecision(session, id, d))
CallNeedDiscovery == \E id \in session.deep : Call(NeedDiscovery(session, id))
CallCompleteUnderstanding ==
  \E id \in session.deep :
    CanCompleteUnderstanding(session, id) /\ Call(CompleteUnderstanding(session, id))
CallCancelDeepKnowledge == Call(CancelDeepKnowledge(session))
CallRetryDeepKnowledge == Call(RetryDeepKnowledge(session))

CallContextAmbiguous ==
  \E id \in session.context, d \in DecisionIds :
    CanBuildContext(session, id) /\ Call(ContextAmbiguous(session, id, d))
CallCompleteContextBuild ==
  \E id \in session.context :
    CanBuildContext(session, id) /\ Call(CompleteContextBuild(session, id))
CallPrepareAdrBuild ==
  \E id \in session.adr : CanBuildAdr(session, id) /\ Call(PrepareAdrBuild(session))
CallRequireAdrDecision ==
  \E id \in session.adr, d \in DecisionIds :
    CanBuildAdr(session, id) /\ Call(RequireAdrDecision(session, id, d))
CallFinalizeAdrBuild ==
  \E id \in session.adr : CanFinalizeAdrBuild(session, id) /\ Call(FinalizeAdrBuild(session))
CallReset == Call(Reset(session))

Next ==
  \/ CallBeginIntent \/ CallBeginLightDiscovery \/ CallBeginGrill \/ CallStartGrillRound
  \/ CallRecordCompletionOmission \/ CallRetryGrillRound \/ CallRecordEvidenceFetch
  \/ CallRequireWaitUser \/ CallRecordAnswer \/ CallConfirm \/ CallReject
  \/ CallBeginDeepKnowledge \/ CallConsumeDeepSearchBudget
  \/ CallRecordDeepSupplementalEvidence \/ CallCompleteDeepRetrieval
  \/ CallCompleteDeepKnowledge \/ CallNeedDecision \/ CallNeedDiscovery
  \/ CallCompleteUnderstanding \/ CallCancelDeepKnowledge \/ CallRetryDeepKnowledge
  \/ CallContextAmbiguous \/ CallCompleteContextBuild \/ CallPrepareAdrBuild
  \/ CallRequireAdrDecision \/ CallFinalizeAdrBuild \/ CallReset

Spec == Init /\ [][Next]_vars

-----------------------------------------------------------------------------
(* What a session guarantees whoever calls it, and in whatever order.      *)

\* The session is well formed, and an optional value has at most one member.
TypeOK ==
  /\ WellFormed(session)
  /\ retired \subseteq ({"round", "context", "adr"} \cup DeepPhases) \X Nat

\* The workflow waits for the user exactly while a question is pending:
\* recordAnswer never meets the assertion "WAIT_USER requires a pending
\* decision", and no question stays on the panel of a workflow that goes on.
QuestionIffWaiting == (session.waitUser # {}) <=> (session.orch = "WAIT_USER")

\* An identity that was replaced, completed or cancelled is never live again,
\* not even after a reset, so a late call that names it stays stale.
NoIdentityReturns == LiveIdentities(session) \cap retired = {}

\* A Deep attempt works for the current Grill round: a new round ends the
\* attempt of the round before.
DeepAttemptOfCurrentRound ==
  \A a \in session.deep : a.round \in CurrentRoundId(session)

\* The component that asks the user gives its attempt up with the question, so
\* that a completion which arrives while the user thinks is refused.
AskingEndsTheAttempt ==
  \A q \in session.waitUser :
    /\ q.kind \in {"deep_decision", "deep_discovery_fallback"} => session.deep = {}
    /\ q.kind = "context_ambiguity" => session.context = {}
    /\ q.kind = "adr_ambiguity" => session.adr = {}

\* What a workflow builds on was said, read or built on the current snapshot:
\* the premises, the locked evidence and the Knowledge package.
NothingFromAnOldSnapshot ==
  LET onSnapshot(n) == \E r \in session.round : r.snapshot <= n /\ n <= r.id
  IN  /\ \A q \in session.premises : onSnapshot(q.round) /\ q \in session.answered
      /\ \A p \in session.package : onSnapshot(p.round)
      /\ \A l \in session.locked : /\ l.inherited \subseteq session.fetched
                                   /\ l.supplemental \subseteq session.supplemental

\* The Context that an ADR is built on, and the ADR candidate that is written
\* out, were validated against one and the same Knowledge package.
OnePackageBehindContextAndAdr ==
  /\ session.orch \in {"ADR_BUILD", "TO_SPEC"} => session.contextCandidate = session.package
  /\ session.orch = "ADR_BUILD" => session.adrCandidate \subseteq session.package
  /\ session.orch = "TO_SPEC" => session.adrCandidate = session.package

\* A Grill round searches at most SearchLimit times, over all its attempts.
SearchesWithinLimit == session.searches <= SearchLimit

-----------------------------------------------------------------------------
(* What no call may do.                                                    *)

SameSnapshot ==
  {r.snapshot : r \in session.round} = {r.snapshot : r \in session'.round}

\* Neither a retry nor a cancel gives searches back to a Grill round.
SearchesAreNeverRefunded ==
  [][\A r \in session.round \cap session'.round :
       SearchesUsed(session', [round |-> r.id]) >= SearchesUsed(session, [round |-> r.id])]_vars

\* On one snapshot an answer stays as it was given first, whatever is asked or
\* answered later under the same decision id.
FirstAnswerStays ==
  [][SameSnapshot =>
       /\ session.decisions \subseteq session'.decisions
       /\ \A d, e \in session'.decisions : d.id = e.id => d = e]_vars

\* A pending question is not replaced by another one, except that the answer
\* that uses up the Grill's budget leads to the checkpoint of its round.
PendingQuestionStays ==
  [][\A q \in session.waitUser, p \in session'.waitUser :
       \/ p = q
       \/ /\ q.kind = "grill_confirmation" /\ p.kind = "grill_checkpoint"
          /\ p.round = q.round /\ q \in session'.answered]_vars

-----------------------------------------------------------------------------
(* What the documents say and the session does not do.                     *)

\* "An ambiguity waits for the user, and the answer resumes it": a pending
\* question can be answered.
PendingQuestionCanBeAnswered == session.waitUser \cap session.answered = {}

=============================================================================
