----------------------------- MODULE AgentHost -----------------------------
(***************************************************************************)
(* The host that Forge Runtime is an extension of: one AgentSession with   *)
(* its agent, seen by whoever submits prompts, queues messages, records    *)
(* shell output, aborts and compacts while the agent works.                *)
(*                                                                         *)
(* A step goes up to the next wait that takes time: a handler of an        *)
(* extension, the model's response, a tool, the sleep before a retry, the  *)
(* summary of a compaction.  Every message has a number of its own; texts  *)
(* and token counts are left open.                                         *)
(***************************************************************************)
EXTENDS SessionContext

CONSTANTS
  MaxRetries,      \* retry settings: maxRetries
  OneAtATime,      \* both queue modes: one message per turn, or all
  TakeTurns,       \* callers wait until the prompt or compaction before theirs has begun
  MaxCalls,        \* bounds of the model: tool calls of a response,
  MaxMessages,     \*   messages,
  MaxToolTurns,    \*   responses that call tools,
  MaxFailures,     \*   failing responses,
  MaxCompactions,  \*   compactions that are begun,
  MaxAborts,       \*   and aborts
  Sorts            \* the sorts of messages that are sent, of {"user", "custom", "bash"}

ASSUME RetriesAssumption == MaxRetries \in Nat
ASSUME SwitchesAssumption == OneAtATime \in BOOLEAN /\ TakeTurns \in BOOLEAN
ASSUME SortsAssumption == Sorts \subseteq {"user", "custom", "bash"}
ASSUME BoundsAssumption ==
  /\ MaxCalls \in Nat /\ MaxMessages \in Nat /\ MaxToolTurns \in Nat
  /\ MaxFailures \in Nat /\ MaxCompactions \in Nat /\ MaxAborts \in Nat

VARIABLE host

Failures == {"error", "fatal", "overflow"}       \* stopReason "error", as it is told apart later
Stops    == {"stop", "toolUse", "length", "aborted"} \cup Failures
Hows     == {"none", "steer", "followUp"}

Message(role, n, stop, calls) == [role |-> role, n |-> n, stop |-> stop, calls |-> calls]
Response(stop, calls) == Message("assistant", 0, stop, calls)
ResultOf(n)           == Message("result", n, "none", 0)
Sent(sort, n)         == Message(sort, n, "none", 0)
Summary               == Message("summary", 0, "none", 0)

Entry(id, m, kept, covers) == [id |-> id, msg |-> m, kept |-> kept, covers |-> covers]

\* Where the prompt is; between two steps it is "idle" only when there is none.
Places  == {"idle", "begun", "streaming", "tools", "turnEnd", "ended", "sleeping", "compacting"}
Running == {"begun", "streaming", "tools", "turnEnd", "ended"}   \* the agent has an activeRun

NewHost == [
  transcript |-> <<>>, path |-> <<>>,                       \* agent.state.messages; the session's entries
  steer |-> <<>>, follow |-> <<>>,                          \* the agent's queues
  shownSteer |-> <<>>, shownFollow |-> <<>>,                \* what the user is shown of them
  nextTurn |-> <<>>, custom |-> <<>>, bash |-> <<>>,        \* messages that wait for a better moment
  active |-> FALSE, retry |-> 0, recovered |-> FALSE, last |-> {},
  at |-> "idle", skip |-> FALSE, pending |-> <<>>, calls |-> 0, done |-> 0, more |-> FALSE, aborted |-> FALSE,
  preflight |-> {}, summaries |-> {},
  issued |-> 0, toolTurns |-> 0, failing |-> 0, compactions |-> 0, aborts |-> 0,  \* bounds
  refused |-> {}, cleared |-> {}, streak |-> 0]               \* history

-----------------------------------------------------------------------------
(* Messages *)

Record(s, m) == [s EXCEPT
  !.transcript = Append(@, m),
  !.path       = Append(@, Entry(Len(@) + 1, m, 0, {}))]

\* Messages that are recorded begin a new row of failures.
RecordAll(s, msgs) == [s EXCEPT
  !.transcript = @ \o msgs,
  !.path       = @ \o [i \in DOMAIN msgs |-> Entry(Len(s.path) + i, msgs[i], 0, {})],
  !.streak     = IF msgs = <<>> THEN @ ELSE 0]

Numbers(q) == {q[i].n : i \in DOMAIN q}
OfUser(q)  == {q[i].n : i \in {j \in DOMAIN q : q[j].role = "user"}}

Without(list, numbers) == Selected(list, {i \in DOMAIN list : list[i] \notin numbers})

\* User messages that start are taken off the lists that show them, the steering list first.
TakeOffLists(s, said) == [s EXCEPT
  !.shownSteer  = Without(@, said),
  !.shownFollow = Without(@, said \ ToSet(s.shownSteer)),
  !.recovered   = @ /\ said = {}]

SayAll(s, msgs) == RecordAll(TakeOffLists(s, OfUser(msgs)), msgs)

FlushCustom(s) == RecordAll([s EXCEPT !.custom = <<>>], s.custom)
FlushBash(s)   == RecordAll([s EXCEPT !.bash = <<>>], s.bash)

Drained(q) == IF OneAtATime /\ q # <<>> THEN <<Head(q)>> ELSE q
Left(q)    == IF OneAtATime /\ q # <<>> THEN Tail(q) ELSE <<>>

DrainSteering(s)  == [s EXCEPT !.pending = Drained(s.steer), !.steer = Left(s.steer)]
DrainFollowUps(s) == [s EXCEPT !.pending = Drained(s.follow), !.follow = Left(s.follow)]

HasQueued(s) == s.steer # <<>> \/ s.follow # <<>>

-----------------------------------------------------------------------------
(* A prompt of the session: runs of the agent, one after the other *)

DropLastResponse(s) ==
  IF s.transcript # <<>> /\ Last(s.transcript).role = "assistant"
  THEN [s EXCEPT !.transcript = Front(@)] ELSE s

\* Mutant: the session goes on for active.
SettleActive(s) ==
  [FlushCustom(FlushBash(s)) EXCEPT !.at = IF s.at \in Running THEN s.at ELSE "idle"]

Settle(s) ==
  [FlushCustom(FlushBash(s)) EXCEPT !.active = FALSE, !.at = IF s.at \in Running THEN s.at ELSE "idle"]

BeginRun(s, msgs, skip) ==
  SayAll([s EXCEPT !.at = "begun", !.skip = skip, !.aborted = FALSE, !.pending = <<>>], msgs)

\* agent.prompt() refuses a second run; what follows in "finally" happens all the same.
RunAgentPrompt(s, msgs) ==
  IF s.at \in Running THEN Settle(s) ELSE BeginRun([s EXCEPT !.active = TRUE], msgs, FALSE)

\* agent.continue() needs a message to answer or one that is queued; without, it throws.
Continue(s) ==
  IF s.transcript = <<>> THEN Settle([s EXCEPT !.at = "idle"])
  ELSE IF Last(s.transcript).role # "assistant" THEN BeginRun(s, <<>>, FALSE)
  ELSE IF s.steer # <<>> THEN BeginRun(DrainSteering(s), Drained(s.steer), TRUE)
  ELSE IF s.follow # <<>> THEN BeginRun(DrainFollowUps(s), Drained(s.follow), FALSE)
  ELSE Settle([s EXCEPT !.at = "idle"])

\* Mutant: the queues are not looked at.
DoNotContinue(s) == Settle([s EXCEPT !.at = "idle"])

ContinueIfQueued(s) == IF HasQueued(s) THEN Continue(s) ELSE Settle([s EXCEPT !.at = "idle"])

-----------------------------------------------------------------------------
(* Compaction *)

Summarise(s, why, prep, retry) == [s EXCEPT
  !.summaries   = @ \cup {[why |-> why, prep |-> prep, retry |-> retry]},
  !.compactions = @ + 1]

Summarising(s, why) == \E c \in s.summaries : c.why = why

\* Somebody prepares a prompt or a compaction of the idle session.
Busy(s) == s.preflight # {} \/ Summarising(s, "prompt") \/ Summarising(s, "manual")

CanSummarise(s) == s.compactions < MaxCompactions /\ Preparations(s.path) # {}

\* Mutant: the transcript is not rebuilt.
CompactedBehind(s, c) ==
  LET e == Entry(Len(s.path) + 1, Summary, c.prep.kept, c.prep.covers)
  IN [s EXCEPT !.summaries = @ \ {c}, !.path = Append(@, e)]

\* Compaction appends its entry and rebuilds the transcript from the session.
Compacted(s, c) ==
  LET path == Append(s.path, Entry(Len(s.path) + 1, Summary, c.prep.kept, c.prep.covers))
  IN [s EXCEPT !.summaries = @ \ {c}, !.path = path, !.transcript = Messages(path)]

\* The failed response is in the session and may be back in the transcript.
DropFailedResponse(s) ==
  IF s.transcript # <<>> /\ Last(s.transcript).stop \in Failures \cup {"length"}
  THEN DropLastResponse(s) ELSE s

FinishCompaction(s, c) ==
  LET t == IF c.retry THEN DropFailedResponse(Compacted(s, c)) ELSE Compacted(s, c)
  IN IF c.why # "runEnd" THEN t
     ELSE IF c.retry THEN Continue(t) ELSE ContinueIfQueued(t)

\* A summary that fails or is cancelled changes nothing; the queues are looked at again.
AbandonCompaction(s, c) ==
  LET t == [s EXCEPT !.summaries = @ \ {c}]
  IN IF c.why = "runEnd" THEN ContinueIfQueued(t) ELSE t

Overflowed(stop) == stop \in {"overflow", "length"}

\* What may follow the last response of a run, once it is not retried.
AfterCheck(s, stop) ==
  LET t == IF Overflowed(stop) /\ ~s.recovered
           THEN DropLastResponse([s EXCEPT !.recovered = TRUE]) ELSE s
      summarised == {Summarise([t EXCEPT !.at = "compacting"], "runEnd", p, Overflowed(stop)) :
                       p \in Preparations(t.path)}
  IN IF stop = "aborted" \/ (Overflowed(stop) /\ s.recovered) \/ ~CanSummarise(t)
     THEN {ContinueIfQueued(t)}
     ELSE summarised \cup (IF Overflowed(stop) THEN {} ELSE {ContinueIfQueued(t)})

\* Mutant: one retry too many.
AfterRunOnceMore(s, stop) ==
  IF stop = "error" /\ s.retry <= MaxRetries
  THEN {[DropLastResponse(s) EXCEPT !.retry = @ + 1, !.at = "sleeping"]}
  ELSE AfterCheck([s EXCEPT !.retry = IF stop \in Failures THEN 0 ELSE @], stop)

AfterRun(s, stop) ==
  IF stop = "error" /\ s.retry < MaxRetries
  THEN {[DropLastResponse(s) EXCEPT !.retry = @ + 1, !.at = "sleeping"]}
  ELSE AfterCheck([s EXCEPT !.retry = IF stop \in Failures THEN 0 ELSE @], stop)

-----------------------------------------------------------------------------
(* The agent's loop *)

Inject(s) == [SayAll([s EXCEPT !.pending = <<>>], s.pending) EXCEPT !.at = "streaming"]

\* Mutant: follow-ups are taken while tools have been called.
TurnOverEarly(s, more) ==
  LET t == [DrainSteering(FlushCustom(s)) EXCEPT !.more = more]
      u == DrainFollowUps(t)
  IN IF t.pending # <<>> THEN [t EXCEPT !.at = "turnEnd"]
     ELSE [u EXCEPT !.at = IF more \/ u.pending # <<>> THEN "turnEnd" ELSE "ended"]

\* The end of a turn: deferred messages, then steering, then follow-ups.
TurnOver(s, more) ==
  LET t == [DrainSteering(FlushCustom(s)) EXCEPT !.more = more]
      u == DrainFollowUps(t)
  IN IF more \/ t.pending # <<>> THEN [t EXCEPT !.at = "turnEnd"]
     ELSE [u EXCEPT !.at = IF u.pending # <<>> THEN "turnEnd" ELSE "ended"]

Responded(s, m) ==
  LET failed == m.stop \in Failures
  IN [Record(s, m) EXCEPT
        !.last      = {m},
        !.more      = FALSE,
        !.recovered = @ /\ (failed \/ m.stop = "length"),
        !.retry     = IF failed THEN @ ELSE 0,
        !.streak    = IF failed THEN @ + 1 ELSE 0]

ResponseEnds(s, m) ==
  LET t == Responded(s, m)
  IN IF m.stop \in Failures \cup {"aborted"} THEN [FlushCustom(t) EXCEPT !.at = "ended"]
     ELSE IF m.calls = 0 THEN TurnOver(t, FALSE)
     ELSE IF m.stop = "length"
          THEN TurnOver(RecordAll(t, [i \in 1..m.calls |-> ResultOf(i)]), TRUE)
          ELSE [t EXCEPT !.at = "tools", !.calls = m.calls, !.done = 0]

-----------------------------------------------------------------------------
(* Actions of the host *)

Init == host = NewHost

vars == <<host>>

\* The first poll for steering; after continue() with drained steering it is skipped.
Poll ==
  /\ host.at = "begun"
  /\ host' = Inject(IF host.skip THEN [host EXCEPT !.skip = FALSE] ELSE DrainSteering(host))

CanRespond(s, stop, calls) ==
  /\ s.at = "streaming"
  /\ stop = "aborted" => s.aborted
  /\ calls > 0 => stop \in {"toolUse", "length"}
  /\ stop = "toolUse" => calls > 0
  /\ calls > 0 => s.toolTurns < MaxToolTurns
  /\ stop \in Failures \cup {"length"} => s.failing < MaxFailures
  /\ Overflowed(stop) => s.compactions < MaxCompactions

Respond(stop, calls) ==
  /\ CanRespond(host, stop, calls)
  /\ host' = ResponseEnds([host EXCEPT
                !.toolTurns = @ + (IF calls > 0 THEN 1 ELSE 0),
                !.failing   = @ + (IF stop \in Failures \cup {"length"} THEN 1 ELSE 0)],
              Response(stop, calls))

\* The result of the next call; an aborted batch may be left there, one whose tools
\* all ask for it ends the turn.
RecordResult(break, more) ==
  /\ host.at = "tools"
  /\ break => host.aborted
  /\ LET s == [Record(host, ResultOf(host.done + 1)) EXCEPT !.done = @ + 1]
     IN host' = IF s.done = s.calls \/ break THEN TurnOver(s, more) ELSE s

\* Before the next turn the context may be compacted; steering that came meanwhile is taken.
CompactBetweenTurns(p) ==
  /\ host.at = "turnEnd" /\ ~Summarising(host, "turn") /\ CanSummarise(host)
  /\ p \in Preparations(host.path)
  /\ host' = Summarise(host, "turn", p, FALSE)

\* Mutant: steering is taken even if messages are pending.
NextTurnAnyway ==
  /\ host.at = "turnEnd" /\ ~Summarising(host, "turn")
  /\ host' = Inject(DrainSteering(host))

NextTurn ==
  /\ host.at = "turnEnd" /\ ~Summarising(host, "turn")
  /\ host' = Inject(IF host.pending = <<>> THEN DrainSteering(host) ELSE host)

\* agent_end has been handled.
EndRun ==
  /\ host.at = "ended"
  /\ IF host.last = {} THEN host' = Settle([host EXCEPT !.at = "idle"])
     ELSE \E m \in host.last :
            host' \in AfterRun([host EXCEPT !.last = {}, !.at = "idle"], m.stop)

Wake == host.at = "sleeping" /\ host' = Continue(host)

Finish(c) == c \in host.summaries /\ host' = FinishCompaction(host, c)
Abandon(c) == c \in host.summaries /\ host' = AbandonCompaction(host, c)

-----------------------------------------------------------------------------
(* Actions of the callers *)

CanIssue(s, sort) == s.issued < MaxMessages /\ sort \in Sorts
Next1(s)          == s.issued + 1

\* prompt(): refused while a manual compaction runs, then handlers of "input" are awaited.
Submit(how) ==
  /\ CanIssue(host, "user")
  /\ ~Summarising(host, "manual")
  /\ TakeTurns => ~Busy(host)
  /\ host' = [host EXCEPT !.issued = @ + 1,
                 !.preflight = @ \cup {[n |-> Next1(host), how |-> how, stage |-> "input"]}]

Enqueue(s, m, how) ==
  IF how = "followUp" THEN [s EXCEPT !.follow = Append(@, m)] ELSE [s EXCEPT !.steer = Append(@, m)]

\* Mutant: every message is shown as steering.
QueueUserAsSteering(s, n, how) ==
  [Enqueue(s, Sent("user", n), how) EXCEPT !.shownSteer = Append(@, n)]

QueueUser(s, n, how) ==
  LET t == Enqueue(s, Sent("user", n), how)
  IN IF how = "followUp" THEN [t EXCEPT !.shownFollow = Append(@, n)]
                         ELSE [t EXCEPT !.shownSteer = Append(@, n)]

\* While the agent works the prompt is queued, or refused if it does not say how.
PassInput(p) ==
  /\ p \in host.preflight /\ p.stage = "input"
  /\ LET s == [host EXCEPT !.preflight = @ \ {p}]
     IN host' = IF ~s.active
                THEN [FlushCustom(FlushBash(s)) EXCEPT
                        !.preflight = @ \cup {[p EXCEPT !.stage = "checked"]}]
                ELSE IF p.how = "none" THEN [s EXCEPT !.refused = @ \cup {p.n}]
                ELSE QueueUser(s, p.n, p.how)

\* An extension handles the text, or the model lacks its key.
Refuse(p) ==
  /\ p \in host.preflight /\ p.stage # "ready"
  /\ host' = [host EXCEPT !.preflight = @ \ {p}, !.refused = @ \cup {p.n}]

\* The last response may be from before the latest compaction: then it asks for none.
FreshResponse(s) ==
  \E i \in DOMAIN s.path : i > LatestCompaction(s.path) /\ s.path[i].msg.role = "assistant"

CompactBeforePrompt(p, prep) ==
  /\ p \in host.preflight /\ p.stage = "checked"
  /\ CanSummarise(host) /\ FreshResponse(host)
  /\ LET said == Selected(host.transcript,
                        {i \in DOMAIN host.transcript : host.transcript[i].role = "assistant"})
         retry == said # <<>> /\ Overflowed(Last(said).stop)
         s == [host EXCEPT !.preflight = (@ \ {p}) \cup {[p EXCEPT !.stage = "ready"]}]
         t == IF retry THEN DropLastResponse([s EXCEPT !.recovered = TRUE]) ELSE s
     IN /\ said # <<>> /\ ~(retry /\ host.recovered)
        /\ prep \in Preparations(t.path)
        /\ host' = Summarise(t, "prompt", prep, retry)

\* preflightResult(true): from here on the caller believes the prompt is under way.
Launch(p) ==
  /\ p \in host.preflight /\ p.stage # "input"
  /\ ~Summarising(host, "prompt")
  /\ host.at \notin {"sleeping", "compacting"}
  /\ host' = RunAgentPrompt([host EXCEPT !.preflight = @ \ {p}, !.nextTurn = <<>>],
                            <<Sent("user", p.n)>> \o host.nextTurn)

\* steer() and followUp() do not ask whether the agent works.
QueueMessage(how) ==
  /\ CanIssue(host, "user")
  /\ host' = QueueUser([host EXCEPT !.issued = @ + 1], Next1(host), how)

\* sendCustomMessage()
SendCustom(how, trigger) ==
  /\ CanIssue(host, "custom")
  /\ LET m == Sent("custom", Next1(host))
         s == [host EXCEPT !.issued = @ + 1]
     IN host' = CASE how = "none" /\ trigger = "next" -> [s EXCEPT !.nextTurn = Append(@, m)]
                  [] s.active /\ trigger = "turn"      -> Enqueue(s, m, how)
                  [] s.active /\ trigger = "no"        -> [s EXCEPT !.custom = Append(@, m)]
                  [] OTHER                             -> Record(s, m)

\* sendCustomMessage() of an idle session, with a turn to answer it.
TriggerTurn ==
  /\ CanIssue(host, "custom") /\ ~host.active
  /\ TakeTurns => ~Busy(host)
  /\ host' = RunAgentPrompt([host EXCEPT !.issued = @ + 1], <<Sent("custom", Next1(host))>>)

\* Mutant: output is written at once.
RecordBashAtOnce ==
  /\ CanIssue(host, "bash")
  /\ host' = Record([host EXCEPT !.issued = @ + 1], Sent("bash", Next1(host)))

RecordBash ==
  /\ CanIssue(host, "bash")
  /\ LET m == Sent("bash", Next1(host))
         s == [host EXCEPT !.issued = @ + 1]
     IN host' = IF s.active THEN [s EXCEPT !.bash = Append(@, m)] ELSE Record(s, m)

ClearQueue ==
  /\ HasQueued(host)
  /\ host' = [host EXCEPT
                 !.cleared = @ \cup ToSet(host.steer) \cup ToSet(host.follow),
                 !.steer = <<>>, !.follow = <<>>, !.shownSteer = <<>>, !.shownFollow = <<>>]

\* abort() ends the sleep before a retry and signals a run; it leaves compactions alone.
Abort ==
  /\ host.aborts < MaxAborts
  /\ LET s == [host EXCEPT !.aborts = @ + 1, !.streak = 0]
     IN \/ s.at \in Running /\ ~s.aborted /\ host' = [s EXCEPT !.aborted = TRUE]
        \/ s.at = "sleeping" /\ host' \in AfterCheck([s EXCEPT !.retry = 0, !.at = "idle"], "error")

\* compact() has waited until the session is idle.
CompactManually(p) ==
  /\ ~host.active /\ ~Summarising(host, "manual") /\ CanSummarise(host)
  /\ TakeTurns => ~Busy(host)
  /\ p \in Preparations(host.path)
  /\ host' = Summarise(host, "manual", p, FALSE)

-----------------------------------------------------------------------------

HostStep ==
  \/ Poll \/ NextTurn \/ EndRun \/ Wake
  \/ \E c \in host.summaries : Finish(c)
  \/ \E p \in host.preflight : PassInput(p) \/ Launch(p)

ModelStep ==
  \/ \E stop \in Stops, calls \in 0..MaxCalls : Respond(stop, calls)
  \/ \E break, more \in BOOLEAN : RecordResult(break, more)

CallerStep ==
  \/ \E how \in Hows : Submit(how)
  \/ \E how \in {"steer", "followUp"} : QueueMessage(how)
  \/ \E how \in {"steer", "followUp"} : SendCustom(how, "turn")
  \/ \E trigger \in {"next", "no"} : SendCustom("none", trigger)
  \/ TriggerTurn \/ RecordBash \/ ClearQueue \/ Abort
  \/ \E p \in Preparations(host.path) : CompactManually(p)

OtherStep ==
  \/ \E p \in Preparations(host.path) : CompactBetweenTurns(p)
  \/ \E p \in host.preflight :
       Refuse(p) \/ \E prep \in Preparations(host.path) : CompactBeforePrompt(p, prep)
  \/ \E c \in host.summaries : Abandon(c)

\* An idle host waits for its callers.
Rest == ~host.active /\ host.preflight = {} /\ UNCHANGED vars

Next == HostStep \/ ModelStep \/ CallerStep \/ OtherStep \/ Rest

\* The host waits at a place for a step of its own, the model, a tool, a timer or a summary.
WaitsAt(place) == host.at = place /\ (place = "compacting" => Summarising(host, "runEnd"))

\* Every such wait ends.
WaitsEnd == \A place \in Places \ {"idle"} : []<>~WaitsAt(place)

Spec == Init /\ [][Next]_vars /\ WaitsEnd

-----------------------------------------------------------------------------
(* Properties *)

MessagesSent == [role : Sorts, n : 1..MaxMessages, stop : {"none"}, calls : {0}]
Responses    == [role : {"assistant"}, n : {0}, stop : Stops, calls : 0..MaxCalls]
AnyMessage   == MessagesSent \cup Responses \cup {Summary} \cup {ResultOf(n) : n \in 1..MaxCalls}

\* The record keeps the types of AgentSession and Agent: messages in the lists of
\* messages, counters within their limits, a place in the loop that goes with `active`.
TypeOK ==
  /\ \A q \in {host.transcript, host.steer, host.follow, host.nextTurn, host.custom,
              host.bash, host.pending} : \A i \in DOMAIN q : q[i] \in AnyMessage
  /\ \A i \in DOMAIN host.path : host.path[i].id = i /\ host.path[i].msg \in AnyMessage
  /\ host.at \in Places /\ host.retry \in 0..MaxRetries
  /\ host.last \subseteq Responses /\ Cardinality(host.last) <= 1
  /\ host.at # "idle" <=> host.active

InSession(s) == {s.path[i].msg.n : i \in {j \in DOMAIN s.path : s.path[j].msg.role \in Sorts}}
Waiting(s)   == UNION {Numbers(q) : q \in {s.steer, s.follow, s.pending, s.nextTurn, s.custom, s.bash}}

\* A message that was accepted (prompt, steer, followUp, sendCustomMessage, recordBashResult)
\* is in the session once, waits in the lists the code keeps for it, was withdrawn by
\* clearQueue, or its sender was refused; and nothing waits deferred in an idle session.  No
\* race of queueing with the ends of turns and runs, with retries, compactions and the two
\* flushes makes a message disappear or enter twice.
EveryMessageOnce ==
  /\ 1..host.issued =
       InSession(host) \cup Waiting(host) \cup {m.n : m \in host.cleared} \cup host.refused
         \cup {p.n : p \in host.preflight}
  /\ \A i, j \in DOMAIN host.path :
       host.path[i].msg.role \in Sorts /\ host.path[i].msg = host.path[j].msg => i = j
  /\ ~host.active => host.custom = <<>> /\ host.bash = <<>>

\* Nothing comes between a tool call and its results, in the transcript and in the session:
\* what _pendingCustomMessages and _pendingBashMessages are for (agent-session.ts:1507, 3027).
ResultsStayWithTheirCall ==
  /\ ResultsFollowTheirCall(host.transcript)
  /\ ResultsFollowTheirCall(Messages(host.path))

NotFailed(msgs) == Selected(msgs, {i \in DOMAIN msgs : msgs[i].stop \notin Failures \cup {"length"}})

\* The agent works with what a reload of the session would give it, up to failed responses,
\* which a retry removes from agent.state.messages and not from the session.
TranscriptIsTheSession ==
  NotFailed(host.transcript) = NotFailed(Messages(host.path))

\* Whatever compactions were made between turns, after runs, before prompts and by hand, each
\* entry of the session is shown to the model or covered by the summary that is.
CompactionForgetsNothing == NothingForgotten(host.path)

\* The numbers of the user's messages in a queue, in their order.
UsersIn(q) ==
  LET u == Selected(q, {i \in DOMAIN q : q[i].role = "user"}) IN [i \in DOMAIN u |-> u[i].n]

\* _steeringMessages and _followUpMessages, which the user sees and clearQueue gives back,
\* name the user's messages in the agent's queues, in their order; a message that the agent
\* has taken from its queue may still be shown until it starts.
ShownQueuesAreTheQueues ==
  LET left(list) == Without(list, Numbers(host.pending))
  IN left(host.shownSteer) = UsersIn(host.steer) /\ left(host.shownFollow) = UsersIn(host.follow)

\* Between two messages, aborts or good responses the model fails at most twice as often
\* as the settings permit, once before and once after the one recovery by compaction.
RetriesEnd == host.streak <= 2 * (MaxRetries + 1)

\* A follow-up leaves its queue for the agent only when no steering waits and the agent owes no
\* answer to results of tools (docs/rpc.md: "only when agent has no more tool calls or steering
\* messages").
FollowUpsComeLast ==
  [][Len(host'.follow) < Len(host.follow) /\ host'.cleared = host.cleared
       => host'.steer = <<>> /\ ~host'.more]_vars

UsersInSession(s) == {s.path[i].msg.n : i \in {j \in DOMAIN s.path : s.path[j].msg.role = "user"}}

Contract == INSTANCE HostContract WITH
  working   <- host.active,
  waiting   <- OfUser(host.steer) \cup OfUser(host.follow) \cup OfUser(host.pending),
  heard     <- UsersInSession(host),
  withdrawn <- {m.n : m \in {c \in host.cleared : c.role = "user"}}

\* The host keeps its contract.
KeepsItsContract == Contract!Spec

=============================================================================
