---------------------------- MODULE EvidenceTrail ----------------------------
(***************************************************************************)
(* The way of the evidence through a workflow: what Light Discovery lists, *)
(* what the Grill reads, what the searches of Deep Knowledge add, what the *)
(* user says, the Evidence Package made of it, and the Context and the ADR *)
(* that cite the package.                                                  *)
(*                                                                         *)
(* The session keeps the evidence of the current snapshot; the extension   *)
(* keeps that of the whole workflow besides, for a user who agrees to go   *)
(* on when sources are lacking.  Every citation is an id that the agent    *)
(* writes, so it is checked where it comes in; the model asks whether the  *)
(* checks, which look at different stores at different times, agree.       *)
(*                                                                         *)
(* Here the agent's calls and the user's answers come in any order that    *)
(* the gates of the extension let through.  The tools, the messages and    *)
(* the panels are those of ForgeRuntime and are left out, and so are sizes *)
(* and texts.  A search that an earlier result answers changes nothing.    *)
(***************************************************************************)
EXTENDS SessionState

CONSTANTS
  Documents,   \* what is on the disk, by name
  Targets,     \* those of the product itself, which a search takes from the snapshot
  Manifests,   \* what Light Discovery may list
  ConsentId,   \* the decision id of the question that an empty snapshot leads to
  Commands,    \* the subcommands of /forge-runtime that the user knows
  MaxRound, MaxDeep, MaxContext, MaxAdr, MaxDiscoveries,  \* bounds of the model, and
  MaxIssued    \*   one for rounds and attempts of all kinds together

\* An evidence id is a hash of the kind, the path and the content.  A search
\* writes the path of a wiki or code document as it is on the disk, the
\* snapshot as it is in the project, so that a document has two ids; a target
\* has the one of the snapshot.
Candidate(doc) == <<doc, "snapshot">>

Found(doc) == IF doc \in Targets THEN Candidate(doc) ELSE <<doc, "search">>

ASSUME TrailAssumption ==
  /\ Targets \subseteq Documents /\ Manifests \subseteq SUBSET Documents
  /\ ConsentId \in DecisionIds /\ Commands \subseteq {"continue", "cancel", "reject"}
  /\ UNION {{Candidate(d), Found(d)} : d \in Documents} \subseteq EvidenceIds

VARIABLES
  session,   \* the session, as in SessionState
  trail,     \* what the extension keeps of the evidence, and the citations
  seen,      \* history: the evidence read or found since the workflow began
  sentBack   \* history: the user rejected it outside the Grill, with no question pending

history == <<seen, sentBack>>
vars == <<session, trail, history>>

\* A premise, by the question whose answer it is.
Premise(q) == <<"premise", q.round, q.id>>

NewTrail ==
  [ manifest |-> {}, relevant |-> FALSE, grillRun |-> FALSE, consent |-> FALSE,
    keptGrill |-> {}, keptDeep |-> {}, fallback |-> {},
    cites |-> {}, citedBy |-> {}, package |-> {}, built |-> {} ]

Init == session = NewSession /\ trail = NewTrail /\ seen = {} /\ sentBack = FALSE

WithinBounds(s) ==
  /\ s.nextRound <= MaxRound + 1 /\ s.nextDeep <= MaxDeep + 1
  /\ s.nextContext <= MaxContext + 1 /\ s.nextAdr <= MaxAdr + 1
  /\ s.nextRound + s.nextDeep + s.nextContext + s.nextAdr <= MaxIssued + 4
  /\ s.discoveries <= MaxDiscoveries

Becomes(s, t) == WithinBounds(s) /\ session' = s /\ trail' = t

\* What an agent cites: at most one of the ids it may, for a small model.
Citations(ids) == {{}} \cup {{i} : i \in ids}

FirstOfSnapshot(s) == \E r \in s.round : r.id = r.snapshot

-----------------------------------------------------------------------------
(* Beginnings and ends.                                                    *)

\* Mutant: what the Grill read is kept for the next workflow.
ClearAllButGrill(t) == [t EXCEPT !.keptDeep = {}, !.fallback = {}]

\* clearFallbackWorkflowState
ClearKept(t) == [t EXCEPT !.keptGrill = {}, !.keptDeep = {}, !.fallback = {}]

\* Light Discovery takes a snapshot and the first Grill round on it begins; a
\* snapshot that lists nothing has no code to be relevant.
OpenSnapshot(s, t, manifest, relevant) ==
  Becomes(BeginGrill(StartGrillRound(BeginLightDiscovery(s), TRUE)),
          [t EXCEPT !.manifest = manifest, !.relevant = relevant /\ manifest # {},
                    !.grillRun = TRUE, !.cites = {}, !.citedBy = {},
                    !.package = {}, !.built = {}])

\* A request, with the user's consent when knowledge assets are missing.
Start ==
  /\ session.stage = "RECEIVE"
  /\ \E manifest \in Manifests, relevant, consent \in BOOLEAN :
       OpenSnapshot(BeginIntent(session), [ClearKept(trail) EXCEPT !.consent = consent],
                    manifest, relevant)
  /\ seen' = {} /\ sentBack' = FALSE

\* What a reset leaves: pendingGrillRun, which says nothing until a Grill sets it,
\* is left out.
Forgotten(t) ==
  [t EXCEPT !.manifest = {}, !.relevant = FALSE, !.citedBy = {}, !.package = {}, !.built = {}]

\* cancelWorkflow: Deep Knowledge can be resumed, everything else is over.
Cancel ==
  /\ "cancel" \in Commands
  /\ LET t == [ClearKept(trail) EXCEPT !.consent = FALSE, !.grillRun = FALSE, !.cites = {}]
     IN  IF \/ session.stage \in DeepPhases
            \/ \E q \in session.waitUser : q.kind = "deep_decision"
           THEN Becomes(CancelDeepKnowledge(session), [t EXCEPT !.package = {}])
                /\ UNCHANGED history
           ELSE Becomes(Reset(session), Forgotten(t)) /\ seen' = {} /\ sentBack' = FALSE

\* /forge-runtime reject while no question is pending.  The panel shows the Grill,
\* which the user can then take up again from any stage.
RejectWithoutQuestion ==
  /\ "reject" \in Commands /\ session.waitUser = {}
  /\ Becomes(Reject(session), trail)
  /\ sentBack' = (sentBack \/ session.stage # "GRILL") /\ UNCHANGED seen

\* /forge-runtime continue, by what there is to continue.
ContinueDeep ==
  /\ "continue" \in Commands
  /\ \/ session.stage \in DeepPhases
     \/ \E q \in session.waitUser : q.kind = "deep_decision"
  /\ IF session.deep = {}
       THEN Becomes(RetryDeepKnowledge(session), [trail EXCEPT !.cites = {}])
       ELSE \E a \in session.deep :
              CanBeginDeepKnowledge(session, a.phase)
                /\ Becomes(BeginDeepKnowledge(session, a.phase), trail)
  /\ UNCHANGED history
ContinueGrill ==
  /\ "continue" \in Commands /\ session.stage = "GRILL" /\ session.round # {}
  /\ Becomes(session, [trail EXCEPT !.grillRun = TRUE]) /\ UNCHANGED history

-----------------------------------------------------------------------------
(* The Grill.                                                              *)

GrillLive == trail.grillRun /\ session.stage = "GRILL"

\* forge_grill_evidence
Fetch ==
  /\ GrillLive
  /\ \E doc \in trail.manifest :
       /\ Becomes(RecordEvidenceFetch(session, Candidate(doc)),
                  [trail EXCEPT !.keptGrill = @ \cup {Candidate(doc)}])
       /\ seen' = seen \cup {Candidate(doc)} /\ UNCHANGED sentBack

\* The session asks q, and the question cites what it does.
Poses(s, q, cites, t) ==
  CanRequireWaitUser(s, q) /\ ~AnsweredBefore(s, q)
    /\ Becomes(RequireWaitUser(s, q), [t EXCEPT !.cites = cites])

EntersDeep(s, t) ==
  CanBeginDeepKnowledge(s, "DEEP_KNOWLEDGE_RETRIEVAL")
    /\ Becomes(BeginDeepKnowledge(s, "DEEP_KNOWLEDGE_RETRIEVAL"), [t EXCEPT !.grillRun = FALSE])

EmptySnapshot == FirstOfSnapshot(session) /\ trail.manifest = {}

\* What a completion of the Grill may cite: what was read, and on a new
\* snapshot something.
GrillCitations ==
  Citations(session.fetched) \ (IF FirstOfSnapshot(session) THEN {{}} ELSE {})

\* forge_grill_complete with a question.
GrillAsks(d) ==
  /\ GrillLive /\ ~EmptySnapshot
  /\ \E cites \in GrillCitations :
       Poses(session, [kind |-> "grill_confirmation", round |-> The(session.round).id, id |-> d],
             cites, trail)
  /\ UNCHANGED history

\* On an empty snapshot the question is always the same, and a user who has
\* consented already is not asked.
GrillAsksForConsent ==
  /\ GrillLive /\ EmptySnapshot
  /\ IF trail.consent
       THEN EntersDeep(session, trail)
       ELSE Poses(session, [kind |-> "grill_confirmation", round |-> The(session.round).id,
                            id |-> ConsentId], {}, trail)
  /\ UNCHANGED history

\* forge_grill_complete that is ready for Deep Knowledge: a completion that
\* rests on premises alone, or on a relevant snapshot, goes on; any other
\* makes the user clarify the request.
GrillReady ==
  /\ GrillLive
  /\ \E cites \in GrillCitations :
       LET r == The(session.round).id
           premised == cites = {} /\ session.premises # {}
       IN  IF premised \/ trail.relevant
             THEN EntersDeep(session, trail)
             ELSE Poses(session, [kind |-> "relevance_clarification", round |-> r,
                                  id |-> <<"relevance", r>>], session.fetched, trail)
  /\ UNCHANGED history

-----------------------------------------------------------------------------
(* Deep Knowledge.                                                         *)

\* The attempts that may work in a phase now.
Live(phase) == {a \in session.deep : a.phase = phase /\ session.stage \in DeepPhases}
Retrieval     == Live("DEEP_KNOWLEDGE_RETRIEVAL")
Understanding == Live("KNOWLEDGE_UNDERSTANDING")

\* What one search can find: documents of a kind, or one target that is listed.
Findable == (SUBSET (Documents \ Targets)) \cup {{d} : d \in Targets \cap trail.manifest}

\* forge_deep_search: a document that the Grill read is not added again.
DeepSearch ==
  \E a \in Retrieval, docs \in Findable :
    LET new == {Found(d) : d \in {e \in docs : Candidate(e) \notin session.fetched}}
        s   == ConsumeSearch(session, a)
    IN  /\ CanSearch(session, a)
        /\ Becomes([s EXCEPT !.supplemental = @ \cup new], [trail EXCEPT !.keptDeep = @ \cup new])
        /\ seen' = seen \cup new /\ UNCHANGED sentBack

\* A Deep attempt puts a question to the user and ends.
DeepPoses(a, d, cites) ==
  CanNeedDecision(session, a) /\ Becomes(NeedDecision(session, a, d), [trail EXCEPT !.cites = cites])

\* A search for a target that is not a single one asks which is meant.
TargetUnclear ==
  /\ \E a \in Retrieval :
       trail.manifest \cap Targets # {} /\ DeepPoses(a, <<"target", a.id>>, session.fetched)
  /\ UNCHANGED history

RetrievalAsks(d) ==
  /\ \E a \in Retrieval, cites \in Citations(session.fetched \cup session.supplemental) :
       DeepPoses(a, d, cites)
  /\ UNCHANGED history

\* forge_deep_retrieval_complete: what was read and found is locked.
RetrievalComplete ==
  /\ \E a \in Retrieval :
       CanCompleteDeepKnowledge(session, a)
         /\ Becomes(CompleteDeepRetrieval(session, a, session.fetched), trail)
  /\ UNCHANGED history

\* Both phases may lack sources: a new snapshot the first time, which the
\* evidence kept by the extension outlives; the user is asked the second.
NeedsDiscovery ==
  /\ \E a \in Retrieval \cup Understanding :
       LET s == NeedDiscovery(session, a)
       IN  IF s.stage = "WAIT_USER"
             THEN Becomes(s, [trail EXCEPT !.cites = session.fetched])
             ELSE \E manifest \in Manifests, relevant \in BOOLEAN :
                    OpenSnapshot(s, trail, manifest, relevant)
  /\ UNCHANGED history

\* What a package is made of: the locked evidence, or else all of the
\* workflow's, and what the user said.
Material(s, t) ==
  [inherited    |-> IF s.locked = {} THEN t.keptGrill ELSE The(s.locked).inherited,
   supplemental |-> IF s.locked = {} THEN t.keptDeep ELSE The(s.locked).supplemental,
   premises     |-> s.premises \cup t.fallback]

Sources(m)  == m.inherited \cup m.supplemental
Evidence(m) == Sources(m) \cup {Premise(q) : q \in m.premises}

\* Mutant: the evidence of the workflow may be cited although some is locked.
KnownBeyondTheLock(s, t) == Sources(Material(s, t)) \cup t.keptGrill \cup t.keptDeep

\* What a question of Knowledge Understanding may cite.
Known(s, t) == Sources(Material(s, t))

UnderstandingAsks(d) ==
  /\ \E a \in Understanding, cites \in Citations(Known(session, trail)) :
       DeepPoses(a, d, cites)
  /\ UNCHANGED history

\* What the user's decisions cite: what their questions did, and the premise
\* that the answer is.
CitedByDecisions(t, m) ==
  (UNION {d.cites : d \in t.citedBy})
    \cup {Premise(q) : q \in {p \in m.premises : \E d \in t.citedBy : d.id = p.id}}

\* validateEvidencePackage: no id twice, and every citation is of the package.
Valid(t, m) ==
  m.inherited \cap m.supplemental = {} /\ CitedByDecisions(t, m) \subseteq Evidence(m)

\* Mutant: no level is filled in.
LevelAsGiven(m, given) == given

\* A package of premises alone is exploratory unless the agent says what it is.
Level(m, given) ==
  IF EmptySnapshot /\ Sources(m) = {} /\ m.premises # {} /\ given = "none"
    THEN "exploratory" ELSE given

\* forge_deep_complete, with the decisions of the user.  What the agent decided
\* and found itself is checked in the same way and plays no part later.
UnderstandingComplete ==
  /\ \E a \in Understanding, given \in {"none", "given"} :
       LET m == Material(session, trail)
       IN  /\ Evidence(m) # {} /\ Valid(trail, m) /\ CanCompleteUnderstanding(session, a)
           /\ Becomes(CompleteUnderstanding(session, a),
                      [trail EXCEPT !.package = {[material |-> m, level |-> Level(m, given)]}])
  /\ UNCHANGED history

-----------------------------------------------------------------------------
(* Context Build and ADR Build.                                            *)

Packaged(t) == UNION {Evidence(p.material) : p \in t.package}

\* What a build may cite.
Citable == Packaged(trail)

\* The attempts that may build now.
LiveContext == {b \in session.context : session.stage = "CONTEXT_BUILD"}
LiveAdr     == {b \in session.adr : session.stage = "ADR_BUILD"}

ContextAsks(d) ==
  /\ \E b \in LiveContext, i \in Citable :
       CanBuildContext(session, b)
         /\ Becomes(ContextAmbiguous(session, b, d), [trail EXCEPT !.cites = {i}])
  /\ UNCHANGED history
ContextComplete ==
  /\ \E b \in LiveContext, i \in Citable :
       CanBuildContext(session, b)
         /\ Becomes(CompleteContextBuild(session, b), [trail EXCEPT !.built = {i}])
  /\ UNCHANGED history
AdrAsks(d) ==
  /\ \E b \in LiveAdr, i \in Citable :
       CanBuildAdr(session, b)
         /\ Becomes(RequireAdrDecision(session, b, d), [trail EXCEPT !.cites = {i}])
  /\ UNCHANGED history
AdrComplete ==
  /\ \E b \in LiveAdr, i \in Citable :
       LET s == PrepareAdrBuild(session)
       IN  /\ CanBuildAdr(session, b) /\ CanFinalizeAdrBuild(s, b)
           /\ Becomes(FinalizeAdrBuild(s), [trail EXCEPT !.built = @ \cup {i}])
  /\ UNCHANGED history

-----------------------------------------------------------------------------
(* The answers of the user.                                                *)

\* The decision of an answered question keeps its citations.
Recorded(s, t, q) ==
  [t EXCEPT !.cites = {},
            !.citedBy = IF q.id \in DecidedIds(s) THEN @
                        ELSE @ \cup {[id |-> q.id, cites |-> t.cites]}]

AsksForConsent(q) == q.kind = "grill_confirmation" /\ q.id = ConsentId /\ EmptySnapshot

AnswerConsent ==
  /\ \E q \in session.waitUser : AsksForConsent(q)
       /\ \/ EntersDeep(RecordAnswer(session, "agree"),
                        [Recorded(session, trail, q) EXCEPT !.consent = TRUE])
          \/ Becomes(session, [trail EXCEPT !.grillRun = TRUE])
  /\ UNCHANGED history

AnswerGrill ==
  /\ \E q \in session.waitUser :
       q.kind = "grill_confirmation" /\ ~AsksForConsent(q)
         /\ Becomes(StartGrillRound(RecordAnswer(session, "other"), FALSE),
                    [Recorded(session, trail, q) EXCEPT !.grillRun = TRUE])
  /\ UNCHANGED history

\* The request is clarified, and Light Discovery looks again.
AnswerRelevance ==
  /\ \E q \in session.waitUser : q.kind = "relevance_clarification"
  /\ \E manifest \in Manifests, relevant \in BOOLEAN :
       OpenSnapshot(RecordAnswer(session, "other"), trail, manifest, relevant)
  /\ UNCHANGED history

AnswerDeepDecision ==
  /\ \E q \in session.waitUser :
       q.kind = "deep_decision"
         /\ Becomes(RetryDeepKnowledge(RecordAnswer(session, "other")), Recorded(session, trail, q))
  /\ UNCHANGED history

\* The user agrees to go on with what there is, which is a premise as well.
AnswerFallback ==
  /\ \E q \in session.waitUser :
       LET s == RecordAnswer(session, "agree")
           t == [Recorded(session, trail, q) EXCEPT !.fallback = {q}]
       IN  /\ q.kind = "deep_discovery_fallback"
           /\ Becomes(BeginDeepKnowledge(s, "KNOWLEDGE_UNDERSTANDING"), t)
  /\ UNCHANGED history

AnswerBuild ==
  /\ \E q \in session.waitUser :
       q.kind \in {"context_ambiguity", "adr_ambiguity"}
         /\ Becomes(RecordAnswer(session, "other"), Recorded(session, trail, q))
  /\ UNCHANGED history

-----------------------------------------------------------------------------
Next ==
  \/ Start \/ Cancel \/ RejectWithoutQuestion \/ ContinueDeep \/ ContinueGrill
  \/ Fetch \/ GrillAsksForConsent \/ GrillReady
  \/ DeepSearch \/ TargetUnclear \/ RetrievalComplete \/ NeedsDiscovery \/ UnderstandingComplete
  \/ ContextComplete \/ AdrComplete
  \/ \E d \in DecisionIds \ {ConsentId} :
       GrillAsks(d) \/ RetrievalAsks(d) \/ UnderstandingAsks(d) \/ ContextAsks(d) \/ AdrAsks(d)
  \/ AnswerConsent \/ AnswerGrill \/ AnswerRelevance \/ AnswerDeepDecision
  \/ AnswerFallback \/ AnswerBuild

Spec == Init /\ [][Next]_vars

-----------------------------------------------------------------------------
(* What the trail guarantees.                                              *)

\* The session is well formed, the stores hold evidence, and citations are of
\* evidence and premises.
TypeOK ==
  /\ WellFormed(session) /\ DOMAIN trail = DOMAIN NewTrail
  /\ trail.manifest \in Manifests \cup {{}}
  /\ {trail.relevant, trail.grillRun, trail.consent} \subseteq BOOLEAN
  /\ trail.keptGrill \cup trail.keptDeep \cup seen \subseteq EvidenceIds
  /\ trail.fallback \subseteq Questions /\ sentBack \in BOOLEAN
  /\ {d.id : d \in trail.citedBy} \subseteq AllDecisionIds
  /\ \A p \in trail.package : p.level \in {"none", "given", "exploratory"}

\* Whatever the workflow rests on goes back to something that was read or found
\* since it began, or said by the user in it: the evidence of a package, what
\* the decisions and the pending question cite, and what the Context and the
\* ADR do.
EverythingTracesBack ==
  Packaged(trail) \cup trail.built \cup trail.cites \cup UNION {d.cites : d \in trail.citedBy}
    \subseteq seen \cup {Premise(q) : q \in session.answered}

\* What the code loses on the way: the user agreed to go on and cancelled, so
\* that nothing is kept; or rejected the workflow when it was past the Grill and
\* took the Grill up again, so that evidence is read, locked and agreed to in any
\* order.
Interrupted == sentBack \/ (session.locked = {} /\ trail.fallback = {})

\* An agent that claims nothing of its own can complete Knowledge Understanding,
\* if there is anything to package: what the user decided on the way does not
\* cite evidence that the package leaves out, although it was accepted against
\* other stores.
HonestCompletionPasses ==
  LET m == Material(session, trail)
      packageable == Evidence(m) # {} /\ m.inherited \cap m.supplemental = {}
  IN  Understanding # {} /\ packageable /\ ~Interrupted => Valid(trail, m)

\* A package without a single document never passes for more than exploratory,
\* unless the agent itself says what it is.
NoDocumentNoClaim ==
  \A p \in trail.package : Sources(p.material) = {} => p.level # "none"

-----------------------------------------------------------------------------
(* What the documents say and the extension does not do.                   *)

\* "The evidence of both rounds is kept across snapshots and deduplicated by
\* its id": no evidence is packaged twice.
EachEvidenceOnce ==
  LET m == Material(session, trail)
  IN  Understanding # {} => m.inherited \cap m.supplemental = {}

=============================================================================
