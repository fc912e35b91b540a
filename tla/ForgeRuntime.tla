---------------------------- MODULE ForgeRuntime ----------------------------
(***************************************************************************)
(* The extension, forge-runtime/extensions/forge-runtime.ts: the tools the *)
(* agent calls, the commands and the answers of the user, the panels, and  *)
(* the delivery of the invocations that tell the agent what to do next.    *)
(*                                                                         *)
(* forge is the state the handlers share: the session, forge.s, and the    *)
(* variables of the extension's closure.  Every handler runs to its next   *)
(* real wait (a panel, a timer, the model that reads an intent) in one     *)
(* step; each wait is a place where another handler may come in between.   *)
(*                                                                         *)
(* The host, pi-main, is modelled from what the extension sees of it: one  *)
(* run of the agent at a time, messages queued for it, and agent_settled   *)
(* when it ends.  Evidence, search budgets and the texts are left out, and *)
(* so are the snapshots without a single document.                         *)
(***************************************************************************)
EXTENDS SessionState, Sequences

CONSTANTS
  Commands,      \* the subcommands of /forge-runtime that the user knows
  ModalPanels,   \* an open panel takes the keyboard (the terminal), or not (RPC)
  Relevances,    \* what the relevance check of a snapshot may say
  AssetsMissing, \* what the check of the knowledge assets may say
  MaxRound, MaxDeep, MaxContext, MaxAdr, MaxDiscoveries, MaxInbox, MaxIntents

ASSUME InterfaceAssumption ==
  /\ Commands \subseteq {"continue", "retry", "cancel", "confirm", "reject", "prompt"}
  /\ ModalPanels \in BOOLEAN /\ Relevances \cup AssetsMissing \subseteq BOOLEAN
  /\ "cancel" \in Answers
  /\ {MaxRound, MaxDeep, MaxContext, MaxAdr, MaxDiscoveries, MaxInbox, MaxIntents} \subseteq Nat

VARIABLES
  forge,     \* what the handlers share
  run,       \* the agent: "idle", "starting" (its first message is under way), "working"
  inbox,     \* messages under way to the agent, oldest first
  panels,    \* questions on the screen, and whether a tool call waits for the answer
  intents,   \* requests whose intent is still being read
  told,      \* history: the attempts whose invocation the agent has received
  refused    \* history: what the host refused to take, if the extension has sent nothing since

vars == <<forge, run, inbox, panels, intents, told, refused>>

-----------------------------------------------------------------------------
(* The state of the handlers.                                              *)

Tools == {"user", "grill", "retrieval", "understanding", "context", "adr"}

\* What a message tells the agent to do: a Grill round from its start or once
\* more, a Deep attempt in its phase, the rest of a Deep attempt after a batch
\* of searches, a build attempt, or something that is not Forge's.
Invocations == ({"round", "again", "batch", "context", "adr", "prompt"} \cup DeepPhases) \X Nat

Attempts ==
  (DeepPhases \X (1 .. MaxDeep)) \cup ({"context"} \X (1 .. MaxContext)) \cup ({"adr"} \X (1 .. MaxAdr))

\* activeWorkflow, named by the snapshot it was made with.
Workflows == [snapshot: Nat, relevant: BOOLEAN]

\* An invocation to be sent when the agent has settled.
Deliveries == [workflow: Workflows, inv: Invocations]

NewForge ==
  [ s |-> NewSession, workflow |-> {}, grillRun |-> FALSE, converge |-> {}, request |-> FALSE,
    active |-> "user", saved |-> {}, replay |-> {},
    dueDeep |-> {}, dueBuild |-> {}, dueDiscovery |-> {},
    timerDeep |-> {}, timerBuild |-> {}, timerDiscovery |-> {},
    lastSent |-> {}, replayed |-> {}, base |-> FALSE ]

DeepInvocation(s)    == {<<a.phase, a.id>> : a \in s.deep}
ContextInvocation(s) == {<<"context", b.id>> : b \in s.context}
AdrInvocation(s)     == {<<"adr", b.id>> : b \in s.adr}
RoundInvocation(s)   == {<<"round", r.id>> : r \in s.round}

\* An invocation waits for agent_settled together with the workflow it is for.
Due(f, invs) == {[workflow |-> w, inv |-> i] : w \in f.workflow, i \in invs}

GrillLive(f) == f.grillRun /\ f.s.stage = "GRILL"
DeepLive(f)  == f.s.deep # {} /\ f.s.stage \in DeepPhases
BuildLive(f) == \/ f.s.stage = "CONTEXT_BUILD" /\ f.s.context # {}
                \/ f.s.stage = "ADR_BUILD" /\ f.s.adr # {}

\* tool_call: when the agent's call of a tool of Forge is let through.
DeepGate(f)  == f.replay = {} /\ f.dueDeep = {} /\ DeepLive(f)
BuildGate(f) == f.replay = {} /\ f.dueBuild = {} /\ BuildLive(f)

-----------------------------------------------------------------------------
(* The tools the agent may use.                                            *)

\* Mutant: every change of the tools saves those it replaces.
ActivateAndSave(f, tools) ==
  [f EXCEPT !.saved = @ \cup {f.active}, !.active = tools,
            !.grillRun = @ /\ tools # "retrieval"]

Activate(f, tools) ==
  [f EXCEPT !.saved = IF @ = {} THEN {f.active} ELSE @, !.active = tools,
            !.grillRun = @ /\ tools # "retrieval"]

\* The one that saves nothing.
ActivateUnderstanding(f) == [f EXCEPT !.active = "understanding"]

\* The tools of the live Deep attempt, if there is one.
ActivateDeep(f) ==
  CASE \E a \in f.s.deep : a.phase = "DEEP_KNOWLEDGE_RETRIEVAL" -> Activate(f, "retrieval")
    [] \E a \in f.s.deep : a.phase = "KNOWLEDGE_UNDERSTANDING"  -> ActivateUnderstanding(f)
    [] OTHER -> f

Restore(f) == [f EXCEPT !.active = IF f.saved = {} THEN @ ELSE The(f.saved), !.saved = {}]

\* clearPendingState
ClearPending(f) ==
  [f EXCEPT !.grillRun = FALSE, !.request = FALSE, !.replay = {},
            !.dueDeep = {}, !.dueBuild = {}, !.dueDiscovery = {},
            !.timerDeep = {}, !.timerBuild = {}, !.timerDiscovery = {},
            !.lastSent = {}, !.replayed = {}, !.base = FALSE]

-----------------------------------------------------------------------------
(* Ends and beginnings.                                                    *)

PendingKinds(f) == {q.kind : q \in f.s.waitUser}

\* Cancelling Deep Knowledge leaves an attempt that can be resumed;
\* everything else ends the workflow.
Cancel(f) ==
  LET g == Restore(ClearPending([f EXCEPT !.converge = {}]))
  IN  IF f.s.stage \in DeepPhases \/ PendingKinds(f) = {"deep_decision"}
        THEN [g EXCEPT !.s = CancelDeepKnowledge(g.s)]
        ELSE [g EXCEPT !.s = Reset(g.s), !.workflow = {}]

\* Light Discovery, which takes a snapshot, and the first Grill round on it.
OpenGrill(f, relevant) ==
  LET s == StartGrillRound(BeginLightDiscovery(f.s), TRUE)
      w == [snapshot |-> The(s.round).id, relevant |-> relevant]
  IN  Activate([f EXCEPT !.s = BeginGrill(s), !.workflow = {w}, !.grillRun = TRUE], "grill")

\* Mutant: the next round takes a snapshot of its own.
NextGrillAfresh(f) ==
  Activate([f EXCEPT !.s = StartGrillRound(@, TRUE), !.grillRun = TRUE], "grill")

\* The next Grill round on the same snapshot.
NextGrill(f) ==
  Activate([f EXCEPT !.s = StartGrillRound(@, FALSE), !.grillRun = TRUE], "grill")

EnterDeep(f) ==
  Activate([f EXCEPT !.s = BeginDeepKnowledge(@, "DEEP_KNOWLEDGE_RETRIEVAL")], "retrieval")

-----------------------------------------------------------------------------
(* What an answer does.                                                    *)

\* resumeGrillWithAnswer.  relevant is what the check says of a snapshot taken
\* because the user has clarified the request.
ResumeGrill(f, answer, relevant) ==
  LET g == [f EXCEPT !.s = RecordAnswer(@, answer)]
      converging == \E q \in f.s.waitUser : q.kind = "grill_confirmation" /\ q.round \in f.converge
  IN  CASE PendingKinds(f) = {"grill_checkpoint"} /\ answer = "cancel" -> Cancel(f)
        [] g.s.stage = "USER_CONFIRMED"
             -> OpenGrill(Restore([g EXCEPT !.converge = {}, !.grillRun = FALSE]), relevant)
        [] g.s.stage = "GRILL" /\ converging -> EnterDeep([g EXCEPT !.converge = {}])
        [] g.s.stage = "GRILL" /\ ~converging
             -> LET h == NextGrill(g)
                IN  IF PendingKinds(f) = {"grill_checkpoint"} /\ answer = "converge"
                      THEN [h EXCEPT !.converge = {The(h.s.round).id}] ELSE h
        [] OTHER -> g

\* prepareDeepKnowledgeAnswer
PrepareDeep(f, answer) ==
  LET g == [f EXCEPT !.s = RecordAnswer(@, answer)]
  IN  CASE g.s.stage = "WAIT_USER" -> g
        [] g.s.stage # "WAIT_USER" /\ PendingKinds(f) = {"deep_decision"}
             -> ActivateDeep([g EXCEPT !.s = RetryDeepKnowledge(@)])
        [] OTHER
             -> ActivateDeep([g EXCEPT !.s = BeginDeepKnowledge(@, "KNOWLEDGE_UNDERSTANDING")])

\* resumeBuildAnswer
ResumeBuild(f, answer) ==
  LET g == [f EXCEPT !.s = RecordAnswer(@, answer),
                     !.dueBuild = {}, !.timerBuild = {}, !.replay = {}]
  IN  CASE g.s.stage = "CONTEXT_BUILD" /\ g.base
             -> [Activate(g, "context") EXCEPT !.dueBuild = Due(g, ContextInvocation(g.s))]
        [] g.s.stage = "ADR_BUILD" /\ g.base
             -> [Activate(g, "adr") EXCEPT !.dueBuild = Due(g, AdrInvocation(g.s))]
        [] OTHER -> g

\* The invocation of the attempt or round that g has and f had not.
Resumed(f, g) == (DeepInvocation(g.s) \cup RoundInvocation(g.s))
                   \ (DeepInvocation(f.s) \cup RoundInvocation(f.s))

DeepKinds  == {"deep_decision", "deep_discovery_fallback"}
BuildKinds == {"context_ambiguity", "adr_ambiguity"}

\* rememberSentContextBuildInvocation
Remembered(f, d) ==
  IF d.inv[1] # "context" THEN f
  ELSE [f EXCEPT !.lastSent = {d},
                 !.replayed = IF \E l \in f.lastSent : l.inv = d.inv THEN @ ELSE {}]

-----------------------------------------------------------------------------
(* The host.                                                               *)

\* Bounds of the model: numbers, and messages that wait.
WithinBounds(s) ==
  /\ s.nextRound <= MaxRound + 1 /\ s.nextDeep <= MaxDeep + 1
  /\ s.nextContext <= MaxContext + 1 /\ s.nextAdr <= MaxAdr + 1
  /\ s.discoveries <= MaxDiscoveries

Becomes(f) == WithinBounds(f.s) /\ forge' = f
Quiet == UNCHANGED <<run, inbox, told, refused>>

\* A message queues up behind a run, or starts one.
Enqueue(inv) ==
  /\ Len(inbox) < MaxInbox
  /\ inbox' = Append(inbox, inv)
  /\ run' = IF run = "idle" THEN "starting" ELSE run
  /\ UNCHANGED told

\* What the user types becomes such a message.
Post(inv) == Enqueue(inv) /\ UNCHANGED refused

\* An invocation the extension sends passes its own input handler, which knows
\* it by replay.
Replayed(f, inv) == [ActivateDeep(f) EXCEPT !.replay = {inv}]
SendFollowUp(f, inv) == Becomes(Replayed(f, inv)) /\ Enqueue(inv) /\ refused' = {}

\* A message sent without a queueing mode is refused while the agent runs.
SendNow(f, inv) ==
  \/ run = "idle" /\ SendFollowUp(f, inv)
  \/ /\ run # "idle" /\ Becomes(Replayed(f, inv))
     /\ refused' = {inv} /\ UNCHANGED <<run, inbox, told>>

\* The agent works while no tool call waits for an answer.  A timer of no
\* delay fires before a model answers, so it races with the user alone.
ToolWaits == \E p \in panels : p.tool
TimerSet  == forge.timerDeep \cup forge.timerBuild \cup forge.timerDiscovery # {}
Working   == run = "working" /\ ~ToolWaits /\ ~TimerSet

UserMayType == ModalPanels => panels = {}

\* Mutant: the gate is not opened again.
MessageStartForgetting(f, inv) == f

\* message_start: the agent has got the invocation.
MessageStart(f, inv) == IF f.replay = {inv} THEN [f EXCEPT !.replay = {}] ELSE f

Deliver ==
  /\ run # "idle" /\ inbox # <<>> /\ ~ToolWaits
  /\ forge' = MessageStart(forge, Head(inbox))
  /\ inbox' = Tail(inbox) /\ run' = "working" /\ told' = told \cup ({Head(inbox)} \cap Attempts)
  /\ UNCHANGED <<panels, intents, refused>>

\* Mutant: a Deep invocation is taken from where it waits and lost.
AgentSettledForgetting(f) ==
  [f EXCEPT !.timerBuild     = IF @ = {} THEN f.dueBuild ELSE @,
            !.timerDiscovery = IF @ = {} THEN f.dueDiscovery ELSE @,
            !.dueDeep        = {},
            !.dueBuild       = IF f.timerBuild = {} THEN {} ELSE @,
            !.dueDiscovery   = IF f.timerDiscovery = {} THEN {} ELSE @]

\* agent_settled: what waits for it gets a timer.
AgentSettled(f) ==
  [f EXCEPT !.timerDeep      = IF @ = {} THEN f.dueDeep ELSE @,
            !.timerBuild     = IF @ = {} THEN f.dueBuild ELSE @,
            !.timerDiscovery = IF @ = {} THEN f.dueDiscovery ELSE @,
            !.dueDeep        = IF f.timerDeep = {} THEN {} ELSE @,
            !.dueBuild       = IF f.timerBuild = {} THEN {} ELSE @,
            !.dueDiscovery   = IF f.timerDiscovery = {} THEN {} ELSE @]

Settle ==
  /\ Working /\ inbox = <<>>
  /\ forge' = AgentSettled(forge)
  /\ run' = "idle"
  /\ UNCHANGED <<inbox, panels, intents, told, refused>>

\* Mutant: any attempt will do.
AnyDeepWanted(f, d) == f.workflow = {d.workflow} /\ DeepLive(f)

\* The timers.  What is no longer wanted is dropped.
DeepWanted(f, d) ==
  /\ f.workflow = {d.workflow} /\ d.inv \in DeepInvocation(f.s) /\ DeepLive(f)
  /\ f.active = IF d.inv[1] = "DEEP_KNOWLEDGE_RETRIEVAL" THEN "retrieval" ELSE "understanding"

FireDeepTimer ==
  /\ \E d \in forge.timerDeep :
       LET f == [forge EXCEPT !.timerDeep = {}]
       IN  IF DeepWanted(f, d) THEN SendNow(f, d.inv) ELSE Becomes(f) /\ Quiet
  /\ UNCHANGED <<panels, intents>>

FireBuildTimer ==
  /\ \E d \in forge.timerBuild :
       LET f == [forge EXCEPT !.timerBuild = {}]
           wanted == IF d.inv[1] = "context"
                       THEN f.s.stage = "CONTEXT_BUILD" /\ d.inv \in ContextInvocation(f.s)
                       ELSE f.s.stage = "ADR_BUILD" /\ d.inv \in AdrInvocation(f.s)
       IN  IF wanted /\ f.workflow = {d.workflow} /\ f.active = d.inv[1]
             THEN SendNow(Remembered(f, d), d.inv) ELSE Becomes(f) /\ Quiet
  /\ UNCHANGED <<panels, intents>>

FireDiscoveryTimer ==
  /\ \E d \in forge.timerDiscovery :
       LET f == [forge EXCEPT !.timerDiscovery = {}]
       IN  IF f.workflow = {d.workflow} /\ d.inv \in RoundInvocation(f.s) /\ GrillLive(f)
             THEN SendNow(f, d.inv) ELSE Becomes(f) /\ Quiet
  /\ UNCHANGED <<panels, intents>>

-----------------------------------------------------------------------------
(* The tools, as the agent calls them.                                     *)

AgentMayCall(tools) == Working /\ forge.active = tools

\* publishWaitUser shows the question that the session now waits with; the
\* tool call that asked waits for the answer, or does not.
Show(s, waits) == panels' = panels \cup {[q |-> q, tool |-> waits] : q \in s.waitUser}

Asks(f, waits) == Becomes(f) /\ Show(f.s, waits) /\ Quiet /\ UNCHANGED intents
Does(f)        == Becomes(f) /\ Quiet /\ UNCHANGED <<panels, intents>>

\* forge_grill_complete with a question.
GrillAsks(d) ==
  LET q == [kind |-> "grill_confirmation", round |-> The(forge.s.round).id, id |-> d]
      s == IF CanRequireWaitUser(forge.s, q) THEN RequireWaitUser(forge.s, q) ELSE forge.s
  IN  /\ AgentMayCall("grill") /\ GrillLive(forge)
      /\ Asks([forge EXCEPT !.s = s, !.grillRun = s.stage \in {"GRILL", "WAIT_USER"}], FALSE)

\* forge_grill_complete that is ready for Deep Knowledge; premised, when it
\* rests on what the user said and on nothing else.
GrillReady(premised) ==
  LET r == The(forge.s.round).id
      f == [forge EXCEPT !.converge = {}]
      relevance == [kind |-> "relevance_clarification", round |-> r, id |-> <<"relevance", r>>]
      g == EnterDeep(f)
  IN  /\ AgentMayCall("grill") /\ GrillLive(forge)
      /\ premised => forge.s.premises # {}
      /\ IF r \in forge.converge \/ premised \/ (\A w \in forge.workflow : w.relevant)
           THEN IF CanBeginDeepKnowledge(forge.s, "DEEP_KNOWLEDGE_RETRIEVAL")
                  THEN Does([g EXCEPT !.dueDeep = Due(g, DeepInvocation(g.s))])
                  ELSE Does(f)
           ELSE IF CanRequireWaitUser(forge.s, relevance)
                  THEN Asks([f EXCEPT !.s = RequireWaitUser(@, relevance)], TRUE)
                  ELSE Does(f)

\* A turn of the agent that ends without a completion.
GrillOmitted ==
  /\ Working /\ GrillLive(forge)
  /\ Does(Restore(ClearPending([forge EXCEPT !.s = RecordCompletionOmission(@)])))

\* A batch of forge_deep_search: when the last one is done, the agent is told
\* to go on.
SearchBatch ==
  /\ AgentMayCall("retrieval") /\ DeepGate(forge)
  /\ \E a \in forge.s.deep : SendFollowUp(forge, <<"batch", a.id>>)
  /\ UNCHANGED <<panels, intents>>

\* A search that names no single target asks the user, but opens no panel.
TargetUnclear ==
  /\ AgentMayCall("retrieval") /\ DeepGate(forge)
  /\ \E a \in forge.s.deep :
       /\ CanNeedDecision(forge.s, a)
       /\ Does(Restore([forge EXCEPT !.s = NeedDecision(@, a, <<"target", a.id>>)]))

\* Mutant: the agent keeps the tools of the retrieval.
RetrievalCompleteWithOldTools ==
  /\ AgentMayCall("retrieval") /\ DeepGate(forge)
  /\ \E a \in forge.s.deep :
       LET f == [forge EXCEPT !.s = CompleteDeepRetrieval(@, a, {})]
       IN  Does([f EXCEPT !.dueDeep = Due(f, DeepInvocation(f.s))])

\* forge_deep_retrieval_complete
RetrievalComplete ==
  /\ AgentMayCall("retrieval") /\ DeepGate(forge)
  /\ \E a \in forge.s.deep :
       LET f == ActivateUnderstanding([forge EXCEPT !.s = CompleteDeepRetrieval(@, a, {})])
       IN  Does([f EXCEPT !.dueDeep = Due(f, DeepInvocation(f.s))])

\* Both completions of Deep Knowledge may ask the user, or for other sources.
DeepAsks(d) ==
  /\ AgentMayCall("retrieval") \/ AgentMayCall("understanding")
  /\ DeepGate(forge)
  /\ \E a \in forge.s.deep :
       /\ CanNeedDecision(forge.s, a)
       /\ Asks(Restore([forge EXCEPT !.s = NeedDecision(@, a, d)]), TRUE)

\* Light Discovery and the Grill start again when the tool's result is there,
\* unless this is the second time.
DeepNeedsDiscovery(relevant) ==
  /\ AgentMayCall("retrieval") \/ AgentMayCall("understanding")
  /\ DeepGate(forge)
  /\ \E a \in forge.s.deep :
       LET f == Restore([forge EXCEPT !.s = NeedDiscovery(@, a)])
           g == OpenGrill(f, relevant)
       IN  IF f.s.stage = "WAIT_USER" THEN Asks(f, TRUE)
           ELSE Does([g EXCEPT !.dueDiscovery = Due(g, RoundInvocation(g.s))])

\* forge_deep_complete; the documents may fail to be captured.
UnderstandingComplete(captured) ==
  /\ AgentMayCall("understanding") /\ DeepGate(forge)
  /\ \E a \in forge.s.deep :
       LET f == Restore([forge EXCEPT !.s = CompleteUnderstanding(@, a)])
           g == Activate(f, "context")
       IN  /\ CanCompleteUnderstanding(forge.s, a)
           /\ IF captured
                THEN Does([g EXCEPT !.base = TRUE, !.dueBuild = Due(g, ContextInvocation(g.s))])
                ELSE Does(f)

\* forge_context_complete under an identity that is not the current one: the
\* current invocation is sent once more, but only once.
ContextStale ==
  /\ AgentMayCall("context") /\ BuildGate(forge) /\ forge.s.stage = "CONTEXT_BUILD"
  /\ \E l \in forge.lastSent :
       /\ l.inv \in ContextInvocation(forge.s) /\ l.inv[2] \notin forge.replayed
       /\ Does([forge EXCEPT !.dueBuild = {l}, !.replayed = {l.inv[2]}])

ForgetSent(f) == [f EXCEPT !.dueBuild = {}, !.lastSent = {}, !.replayed = {}]

ContextAsks(d) ==
  /\ AgentMayCall("context") /\ BuildGate(forge)
  /\ \E b \in forge.s.context :
       /\ CanBuildContext(forge.s, b)
       /\ Asks(Restore(ForgetSent([forge EXCEPT !.s = ContextAmbiguous(@, b, d)])), TRUE)

\* Without the base of the documents the builds come to a halt.
ContextComplete ==
  /\ AgentMayCall("context") /\ BuildGate(forge)
  /\ \E b \in forge.s.context :
       LET f == ForgetSent([forge EXCEPT !.s = CompleteContextBuild(@, b)])
           g == Activate(f, "adr")
       IN  /\ CanBuildContext(forge.s, b)
           /\ Does(IF forge.base THEN [g EXCEPT !.dueBuild = Due(g, AdrInvocation(g.s))]
                                 ELSE Restore(f))

\* forge_adr_complete
AdrAsks(d) ==
  /\ AgentMayCall("adr") /\ BuildGate(forge)
  /\ \E b \in forge.s.adr :
       /\ CanBuildAdr(forge.s, b)
       /\ Asks(Restore([forge EXCEPT !.s = RequireAdrDecision(@, b, d)]), TRUE)

AdrComplete(committed) ==
  /\ AgentMayCall("adr") /\ BuildGate(forge)
  /\ committed => forge.base
  /\ \E b \in forge.s.adr :
       LET f == [forge EXCEPT !.s = PrepareAdrBuild(@)]
       IN  /\ CanBuildAdr(forge.s, b)
           /\ IF committed THEN Does(Restore([f EXCEPT !.s = FinalizeAdrBuild(@), !.base = FALSE]))
                           ELSE Does(f)

-----------------------------------------------------------------------------
(* The user: panels, text and commands.                                    *)

\* Whether the user tells these answers apart depends on the question.
AnswersTo(kind) ==
  CASE kind = "grill_checkpoint"        -> {"continue_one", "converge", "cancel", "other"}
    [] kind = "deep_discovery_fallback" -> {"agree", "cancel", "other"}
    [] OTHER                            -> {"agree"}

\* resumeWaitUserAnswer, for a panel or a command: the answer goes to the
\* question that is pending now.
ResumeAnswer(answer, relevant) ==
  LET kinds == PendingKinds(forge)
      deep  == PrepareDeep(forge, answer)
      grill == ResumeGrill(forge, answer, relevant)
  IN  CASE kinds \cap BuildKinds # {} -> Becomes(ResumeBuild(forge, answer)) /\ Quiet
        [] kinds = {"deep_discovery_fallback"} /\ answer = "cancel"
             -> Becomes(Cancel(forge)) /\ Quiet
        [] kinds \cap DeepKinds # {} /\ ~(kinds = {"deep_discovery_fallback"} /\ answer = "cancel")
             -> /\ Becomes(IF Resumed(forge, deep) = {} THEN deep
                           ELSE [deep EXCEPT !.dueDeep = Due(deep, Resumed(forge, deep))])
                /\ Quiet
        [] OTHER
             -> IF Resumed(forge, grill) = {} THEN Becomes(grill) /\ Quiet
                ELSE \E inv \in Resumed(forge, grill) : SendFollowUp(grill, inv)

\* Mutant: the panel comes back after the answer.
PanelsAfterwards(p) == panels

\* handleWaitUserState returns with the answer.
PanelsAfter(p) == panels \ {p}

\* Without a Grill round there is nothing that an answer could resume.
AnswerPanel(p, answer, relevant) ==
  /\ forge.s.round # {}
  /\ ResumeAnswer(answer, relevant)
  /\ panels' = PanelsAfter(p)
  /\ UNCHANGED intents

DismissPanel(p) ==
  /\ panels' = PanelsAfter(p)
  /\ UNCHANGED <<forge, run, inbox, intents, told, refused>>

\* A text the user types as an answer becomes the invocation it leads to.
TypeAnswer(answer, relevant) ==
  LET kinds == PendingKinds(forge)
      built == ResumeBuild(forge, answer)
      f == CASE kinds \cap BuildKinds # {} -> [built EXCEPT !.dueBuild = {}]
             [] kinds \cap DeepKinds # {}  -> PrepareDeep(forge, answer)
             [] OTHER                      -> ResumeGrill(forge, answer, relevant)
      invs == IF kinds \cap BuildKinds # {} THEN {d.inv : d \in built.dueBuild}
                                            ELSE Resumed(forge, f)
  IN  /\ UserMayType /\ ~forge.request /\ forge.s.stage = "WAIT_USER"
      /\ IF invs = {} THEN Becomes(f) /\ Quiet
         ELSE \E inv \in invs :
                /\ Post(inv)
                /\ Becomes(IF built.dueBuild # {} /\ kinds \cap BuildKinds # {}
                             THEN Remembered(f, The(built.dueBuild)) ELSE f)
      /\ UNCHANGED <<panels, intents>>

\* Mutant: a workflow is started over another one.
BeginAnyway(relevant) ==
  LET f == OpenGrill([forge EXCEPT !.s = BeginIntent(@), !.request = FALSE], relevant)
  IN  Becomes(f) /\ Post(<<"round", The(f.s.round).id>>)

\* A workflow starts, unless one runs: beginIntent throws then, and the host
\* passes the text on as it is.
Begin(relevant) ==
  LET f == OpenGrill([forge EXCEPT !.s = BeginIntent(@), !.request = FALSE], relevant)
  IN  IF CanBeginIntent(forge.s) THEN Becomes(f) /\ Post(<<"round", The(f.s.round).id>>)
      ELSE Becomes([forge EXCEPT !.request = FALSE]) /\ Post(<<"prompt", 0>>)

\* A request while no workflow runs: its intent is read by a model.
TypeRequest ==
  /\ UserMayType /\ ~forge.request /\ forge.s.stage = "RECEIVE" /\ intents < MaxIntents
  /\ intents' = intents + 1
  /\ UNCHANGED <<forge, run, inbox, panels, told, refused>>

\* The intent has been read.  Without knowledge assets the user must agree first.
ReadIntent(missing, relevant) ==
  /\ intents > 0
  /\ intents' = intents - 1
  /\ IF missing THEN Becomes([forge EXCEPT !.request = TRUE]) /\ Quiet ELSE Begin(relevant)
  /\ UNCHANGED panels

\* The intent is not to start a workflow: the text goes on to the agent.
ReadOtherIntent ==
  /\ intents > 0
  /\ intents' = intents - 1
  /\ Post(<<"prompt", 0>>)
  /\ UNCHANGED <<forge, panels>>

ApproveRequest(relevant) ==
  /\ UserMayType /\ forge.request
  /\ Begin(relevant)
  /\ UNCHANGED <<panels, intents>>

\* Any other text that starts with a slash reaches the agent.
Prompt ==
  /\ "prompt" \in Commands /\ UserMayType
  /\ Post(<<"prompt", 0>>)
  /\ UNCHANGED <<forge, panels, intents>>

Knows(command) == command \in Commands /\ UserMayType

\* /forge-runtime continue, by stage.
ContinueContext ==
  /\ Knows("continue") /\ forge.s.stage = "CONTEXT_BUILD"
  /\ forge.s.repair # "RECOVERY_REQUIRED" /\ forge.dueBuild = {} /\ forge.timerBuild = {}
  /\ \E l \in forge.lastSent :
       /\ {l.workflow} = forge.workflow /\ l.inv \in ContextInvocation(forge.s)
       /\ l.inv[2] \in forge.replayed
       /\ SendFollowUp(Activate(forge, "context"), l.inv)
  /\ UNCHANGED <<panels, intents>>

ContinueDeep ==
  LET s == IF forge.s.deep # {} THEN BeginDeepKnowledge(forge.s, The(forge.s.deep).phase)
                                ELSE RetryDeepKnowledge(forge.s)
  IN  /\ Knows("continue") /\ forge.s.repair # "RECOVERY_REQUIRED"
      /\ forge.s.stage \in DeepPhases \/ PendingKinds(forge) = {"deep_decision"}
      /\ \E inv \in DeepInvocation(s) : SendFollowUp(ActivateDeep([forge EXCEPT !.s = s]), inv)
      /\ UNCHANGED <<panels, intents>>

ContinueGrill ==
  LET f == Activate([forge EXCEPT !.grillRun = TRUE], "grill")
  IN  /\ Knows("continue") /\ forge.s.repair # "RECOVERY_REQUIRED"
      /\ \/ forge.s.stage = "GRILL" /\ (forge.grillRun \/ forge.workflow # {})
         \/ /\ forge.s.stage = "WAIT_USER" /\ forge.grillRun
            /\ PendingKinds(forge) # {"deep_decision"}
      /\ \E r \in forge.s.round : SendFollowUp(f, <<"again", r.id>>)
      /\ UNCHANGED <<panels, intents>>

Retry ==
  LET f == Activate([forge EXCEPT !.s = RetryGrillRound(@), !.grillRun = TRUE], "grill")
  IN  /\ Knows("retry") /\ CanRetryGrillRound(forge.s)
      /\ \E r \in forge.s.round : SendFollowUp(f, <<"again", r.id>>)
      /\ UNCHANGED <<panels, intents>>

CancelWorkflow ==
  /\ Knows("cancel")
  /\ Does(Cancel(forge))

\* The recommendation of the question is the answer.
ConfirmQuestion(relevant) ==
  /\ Knows("confirm") /\ forge.s.stage = "WAIT_USER"
  /\ PendingKinds(forge) # {"relevance_clarification"}
  /\ ResumeAnswer(IF PendingKinds(forge) = {"grill_checkpoint"} THEN "continue_one" ELSE "agree",
                  relevant)
  /\ UNCHANGED <<panels, intents>>
ConfirmNothing == Knows("confirm") /\ forge.s.stage # "WAIT_USER"
                  /\ Does([forge EXCEPT !.s = Confirm(@)])

RejectQuestion(relevant) ==
  /\ Knows("reject") /\ forge.s.stage = "WAIT_USER"
  /\ ResumeAnswer("other", relevant)
  /\ UNCHANGED <<panels, intents>>
RejectNothing == Knows("reject") /\ forge.s.stage # "WAIT_USER"
                 /\ Does([forge EXCEPT !.s = Reject(@)])

-----------------------------------------------------------------------------
Init ==
  /\ forge = NewForge /\ run = "idle" /\ inbox = <<>> /\ panels = {} /\ intents = 0 /\ told = {}
  /\ refused = {}

Agent ==
  \/ \E d \in DecisionIds : GrillAsks(d) \/ DeepAsks(d) \/ ContextAsks(d) \/ AdrAsks(d)
  \/ \E b \in BOOLEAN : GrillReady(b) \/ UnderstandingComplete(b) \/ AdrComplete(b)
  \/ \E relevant \in Relevances : DeepNeedsDiscovery(relevant)
  \/ GrillOmitted \/ SearchBatch \/ TargetUnclear \/ RetrievalComplete
  \/ ContextStale \/ ContextComplete

User ==
  \/ \E relevant \in Relevances :
       \/ \E p \in panels : \E answer \in AnswersTo(p.q.kind) : AnswerPanel(p, answer, relevant)
       \/ \E q \in forge.s.waitUser : \E answer \in AnswersTo(q.kind) : TypeAnswer(answer, relevant)
       \/ \E missing \in AssetsMissing : ReadIntent(missing, relevant)
       \/ ApproveRequest(relevant) \/ ConfirmQuestion(relevant) \/ RejectQuestion(relevant)
  \/ \E p \in panels : DismissPanel(p)
  \/ TypeRequest \/ ReadOtherIntent \/ Prompt \/ ContinueContext \/ ContinueDeep \/ ContinueGrill
  \/ Retry \/ CancelWorkflow \/ ConfirmNothing \/ RejectNothing

Host == Deliver \/ Settle \/ FireDeepTimer \/ FireBuildTimer \/ FireDiscoveryTimer

Next == Agent \/ User \/ Host

\* The host delivers messages, ends runs and fires timers; nobody must act else.
Fairness ==
  /\ WF_vars(Deliver) /\ WF_vars(Settle)
  /\ WF_vars(FireDeepTimer) /\ WF_vars(FireBuildTimer) /\ WF_vars(FireDiscoveryTimer)

Spec == Init /\ [][Next]_vars /\ Fairness

-----------------------------------------------------------------------------
(* What holds.                                                             *)

TypeOK ==
  /\ DOMAIN forge = DOMAIN NewForge
  /\ IsSession(forge.s) /\ AtMostOne(forge.s.waitUser) /\ AtMostOne(forge.s.deep)
  /\ forge.workflow \subseteq Workflows /\ forge.converge \subseteq Nat
  /\ forge.grillRun \in BOOLEAN /\ forge.request \in BOOLEAN /\ forge.base \in BOOLEAN
  /\ forge.active \in Tools /\ forge.saved \subseteq Tools /\ forge.replay \subseteq Invocations
  /\ \A o \in {forge.dueDeep, forge.dueBuild, forge.dueDiscovery, forge.timerDeep,
               forge.timerBuild, forge.timerDiscovery, forge.lastSent} :
       o \subseteq Deliveries /\ AtMostOne(o)
  /\ AtMostOne(forge.workflow) /\ AtMostOne(forge.saved) /\ AtMostOne(forge.replay)
  /\ forge.replayed \subseteq Nat
  /\ run \in {"idle", "starting", "working"} /\ inbox \in Seq(Invocations)
  /\ panels \subseteq [q: Questions, tool: BOOLEAN] /\ intents \in 0 .. MaxIntents
  /\ told \subseteq Attempts /\ refused \subseteq Invocations

\* While an attempt or a Grill round is live, the agent has the tools of that
\* very phase: those it may complete it with, and none of the user's.  A
\* Context Build that has no base of the documents is not meant to go on.
LiveAttemptHasItsTools ==
  /\ GrillLive(forge) => forge.active = "grill"
  /\ DeepLive(forge) => \A a \in forge.s.deep :
       forge.active = IF a.phase = "DEEP_KNOWLEDGE_RETRIEVAL" THEN "retrieval" ELSE "understanding"
  /\ BuildLive(forge) /\ forge.base =>
       forge.active = IF forge.s.stage = "CONTEXT_BUILD" THEN "context" ELSE "adr"

OnItsWay(inv) == \E n \in DOMAIN inbox : inbox[n] = inv
GateClosed(f) == \/ DeepLive(f) /\ ~DeepGate(f)
                 \/ BuildLive(f) /\ ~BuildGate(f)

\* When the gate keeps the agent from the tools of its live attempt, something
\* is under way that opens it: an invocation in the queue, a timer, or a run
\* whose end sets one.  There is one way to lose the invocation: the host has
\* refused to take it.
ClosedGateWillOpen ==
  GateClosed(forge) =>
    \/ \E inv \in forge.replay : OnItsWay(inv) \/ inv \in refused
    \/ forge.timerDeep \cup forge.timerBuild # {}
    \/ forge.dueDeep \cup forge.dueBuild # {} /\ run # "idle"

\* An answer given on a panel is an answer to the question that is pending.
PanelShowsPendingQuestion == \A p \in panels : p.q \in forge.s.waitUser

\* The workflow, its snapshot and the session's Grill round belong together,
\* through next rounds, clarified requests, cancels and repeated discoveries.
WorkflowOfTheSnapshot ==
  {w.snapshot : w \in forge.workflow} = {r.snapshot : r \in forge.s.round}

\* A request whose intent is read late, or is agreed to late, does not replace
\* a workflow that runs: a workflow gives way only to one on a new snapshot for
\* the same request, clarified by the user or found to lack sources.
RunningWorkflowIsNotReplaced ==
  [][forge.workflow # {} /\ forge'.workflow \notin {{}, forge.workflow} =>
       /\ intents' = intents /\ forge'.request = forge.request
       /\ PendingKinds(forge) = {"relevance_clarification"} \/ forge.s.deep # {}]_vars

\* Whatever the user does between the moment an invocation is prepared and the
\* moment it is sent, what is sent names the round or the attempt of then.
NamesTheCurrent(s, inv) ==
  CASE inv[1] = "prompt"           -> TRUE
    [] inv[1] = "batch"            -> \E a \in s.deep : a.id = inv[2]
    [] inv[1] \in {"round", "again"} -> \E r \in s.round : r.id = inv[2]
    [] OTHER -> inv \in DeepInvocation(s) \cup ContextInvocation(s) \cup AdrInvocation(s)

NothingStaleIsSent ==
  [][Len(inbox') > Len(inbox) => NamesTheCurrent(forge'.s, inbox'[Len(inbox')])]_vars

\* Whoever answers a Deep or build question, and however, the agent receives
\* the invocation of the attempt that the answer begins, unless it has ended.
Live(inv) ==
  \/ DeepLive(forge) /\ inv \in DeepInvocation(forge.s)
  \/ BuildLive(forge) /\ forge.base /\ inv \in ContextInvocation(forge.s) \cup AdrInvocation(forge.s)

AgentIsTold == \A inv \in Attempts : Live(inv) ~> (inv \in told \/ ~Live(inv))

=============================================================================
