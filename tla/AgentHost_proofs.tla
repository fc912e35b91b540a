------------------------- MODULE AgentHost_proofs --------------------------
(***************************************************************************)
(* What an agent session promises, for any number of messages, tool calls, *)
(* retries, compactions and aborts, in both queue modes, to callers that   *)
(* take turns (TakeTurns).                                                 *)
(*                                                                         *)
(* The invariant has four parts: Books says where each message is; Fields  *)
(* gives types; Orderly, who prepares a prompt or a summary, and when; and *)
(* Phase, what goes with the place where the run waits. Most lemmas are    *)
(* about a function from hosts to hosts, as the model and the code have    *)
(* them: from a host that has the books in order it makes one that has     *)
(* them in order, and it changes no field but those that are named (Only). *)
(*                                                                         *)
(* A second invariant, Onward, needs the first. It says what the session   *)
(* tells: what compactions keep and cover, what a reload would show, and   *)
(* how a row of failures grows with the retries that are counted. A third, *)
(* Shows, says what the lists that the user sees name of the queues.       *)
(***************************************************************************)
EXTENDS AgentHost, SessionContext_proofs, FiniteSetTheorems

-----------------------------------------------------------------------------
(* The invariant.                                                          *)

\* The lists in which a message may wait.
Stores == {"steer", "follow", "pending", "nextTurn", "custom", "bash"}

Entries   == [id : Nat, msg : AnyMessage, kept : Nat, covers : SUBSET Nat]
Prompts   == {p \in [n : 1..MaxMessages, how : Hows, stage : {"input", "checked", "ready"}] :
                "user" \in Sorts}
Plans     == [kept : Nat, covers : SUBSET Nat]
Summaries == [why : {"prompt", "turn", "manual", "runEnd"}, prep : Plans, retry : BOOLEAN]

\* The numbers of the messages of these roles on a path.
OnPath(path, roles) == {path[i].msg.n : i \in {j \in DOMAIN path : path[j].msg.role \in roles}}

ClearedNumbers(s) == {m.n : m \in s.cleared}
Prompted(s)       == {p.n : p \in s.preflight}
Gone(s)           == OnPath(s.path, Sorts) \cup ClearedNumbers(s)

Waits(s)          == UNION {Numbers(s[l]) : l \in Stores}

Distinct(q) == \A i, j \in DOMAIN q : q[i].n = q[j].n => i = j

Once(path) ==
  \A i, j \in DOMAIN path :
    path[i].msg.role \in Sorts /\ path[i].msg.n = path[j].msg.n /\ path[j].msg.role \in Sorts => i = j

Numbering(path) == \A i \in 1..Len(path) : path[i].id = i

\* A transcript does not begin with a response.
Opens(msgs) == msgs # <<>> => msgs[1].role # "assistant"

\* What the agent and the session have been told.
Logs(s) ==
  /\ s.transcript \in Seq(AnyMessage)
  /\ Opens(s.transcript)
  /\ s.path \in Seq(Entries) /\ Numbering(s.path)

\* What waits.
Lists(s) ==
  /\ \A l \in Stores : s[l] \in Seq(MessagesSent)
  /\ \A l \in {"nextTurn", "custom", "bash"} : \A i \in 1..Len(s[l]) : s[l][i].role # "user"

\* Every message is in one place.
Ledger(s) ==
  /\ \A l \in Stores : Distinct(s[l]) /\ Numbers(s[l]) \cap Gone(s) = {}
  /\ \A l, k \in Stores : l # k => Numbers(s[l]) \cap Numbers(s[k]) = {}
  /\ Once(s.path)
  /\ \A p \in s.preflight : p.n \notin Gone(s) \cup Waits(s)
  /\ 1..s.issued = Gone(s) \cup s.refused \cup Prompted(s) \cup Waits(s)

\* All about messages.
Books(s) == DOMAIN s = DOMAIN NewHost /\ Logs(s) /\ Lists(s) /\ Ledger(s)

\* The fields that are not about messages.
Fields(s) ==
  /\ s.retry \in 0..MaxRetries /\ s.last \subseteq Responses /\ \A m, n \in s.last : m = n
  /\ s.calls \in 0..MaxCalls /\ s.done \in Nat /\ s.at \in Places
  /\ s.preflight \subseteq Prompts /\ s.summaries \subseteq Summaries
  /\ s.issued \in 0..MaxMessages
  /\ s.cleared \subseteq MessagesSent /\ s.refused \subseteq 1..MaxMessages

\* Who prepares what: one prompt at a time, which waits for the session to rest,
\* and one summary at the end of a run, for which the session waits.
Orderly(s) ==
  /\ \A p, q \in s.preflight : p = q
  /\ \A p \in s.preflight : p.stage # "input" => ~s.active
  /\ \A c \in s.summaries : c.why = "runEnd" => s.at = "compacting"
  /\ \A c, d \in s.summaries : c.why = "runEnd" /\ d.why = "runEnd" => c = d

\* What goes with the place where the run waits.
Phase(s) ==
  /\ s.active = (s.at # "idle")
  /\ s.pending # <<>> => s.at = "turnEnd"
  /\ ~s.active => s.custom = <<>> /\ s.bash = <<>>
  /\ s.at \in {"tools", "turnEnd", "ended"} => s.last # {}
  /\ s.at = "tools" => s.done < s.calls
  /\ s.at \in {"ended", "sleeping", "compacting"} => s.more = FALSE
  /\ s.at # "idle" => s.transcript # <<>>

Sound(s) == Books(s) /\ Fields(s) /\ Orderly(s) /\ Phase(s)

IInv == Sound(host)

-----------------------------------------------------------------------------
(* Lists of messages.                                                      *)

\* One list behind the other.
LEMMA Joined ==
  ASSUME NEW T, NEW p \in Seq(T), NEW q \in Seq(T)
  PROVE  LET r == p \o q
         IN  /\ r \in Seq(T) /\ Len(r) = Len(p) + Len(q)
             /\ \A i \in 1..Len(p) : r[i] = p[i]
             /\ \A j \in 1..Len(q) : r[Len(p) + j] = q[j]
             /\ \A i \in 1..Len(r) : i \in 1..Len(p) \/ \E j \in 1..Len(q) : i = Len(p) + j
<1>1. p \o q \in Seq(T) /\ Len(p \o q) = Len(p) + Len(q) /\ Len(p) \in Nat /\ Len(q) \in Nat
  OBVIOUS
<1>2. \A i \in 1..(Len(p) + Len(q)) :
        i \in 1..Len(p) \/ \E j \in 1..Len(q) : i = Len(p) + j
  <2> TAKE i \in 1..(Len(p) + Len(q))
  <2>1. i \in 1..Len(p) \/ (i - Len(p) \in 1..Len(q) /\ i = Len(p) + (i - Len(p)))
    BY <1>1
  <2> QED
    BY <2>1
<1>3. \A i \in 1..Len(p) : (p \o q)[i] = p[i]
  OBVIOUS
<1>4. \A j \in 1..Len(q) : (p \o q)[Len(p) + j] = q[j]
  OBVIOUS
<1> QED
  BY <1>1, <1>2, <1>3, <1>4

\* The members of a list, the first of it, and the rest.
LEMMA Numbered ==
  ASSUME NEW q \in Seq(MessagesSent)
  PROVE  /\ Numbers(q) \subseteq 1..MaxMessages /\ OfUser(q) \subseteq Numbers(q)
         /\ \A n : n \in Numbers(q) <=> \E i \in 1..Len(q) : q[i].n = n
         /\ \A n : n \in OfUser(q) <=> \E i \in 1..Len(q) : q[i].n = n /\ q[i].role = "user"
<1>1. DOMAIN q = 1..Len(q) /\ \A i \in 1..Len(q) : q[i] \in MessagesSent
  OBVIOUS
<1> QED
  BY <1>1 DEF Numbers, OfUser, MessagesSent

\* An empty list has no messages.
LEMMA NothingWaits ==
  Numbers(<<>>) = {} /\ OfUser(<<>>) = {} /\ Distinct(<<>>) /\ \A T : <<>> \in Seq(T)
BY DEF Numbers, OfUser, Distinct

\* A message behind the others.
LEMMA Appended ==
  ASSUME NEW q \in Seq(MessagesSent), NEW m \in MessagesSent
  PROVE  LET r == Append(q, m)
         IN  /\ r \in Seq(MessagesSent) /\ r # <<>>
             /\ Numbers(r) = Numbers(q) \cup {m.n}
             /\ OfUser(r) = OfUser(q) \cup (IF m.role = "user" THEN {m.n} ELSE {})
             /\ Distinct(q) /\ m.n \notin Numbers(q) => Distinct(r)
             /\ Len(r) = Len(q) + 1
             /\ \A i \in 1..Len(r) : (i \in 1..Len(q) /\ r[i] = q[i]) \/ (i = Len(q) + 1 /\ r[i] = m)
<1> DEFINE r == Append(q, m)
<1>1. /\ r \in Seq(MessagesSent) /\ r # <<>> /\ Len(r) = Len(q) + 1 /\ Len(q) \in Nat
      /\ \A i \in 1..Len(q) : r[i] = q[i]
      /\ r[Len(q) + 1] = m
  <2>1. r \in Seq(MessagesSent) /\ Len(r) = Len(q) + 1 /\ Len(q) \in Nat
    OBVIOUS
  <2>2. (\A i \in 1..Len(q) : r[i] = q[i]) /\ r[Len(q) + 1] = m
    OBVIOUS
  <2>3. r # <<>>
    BY <2>1
  <2> HIDE DEF r
  <2> QED
    BY <2>1, <2>2, <2>3
<1> HIDE DEF r
<1>2. \A i \in 1..Len(r) : (i \in 1..Len(q) /\ r[i] = q[i]) \/ (i = Len(q) + 1 /\ r[i] = m)
  <2> TAKE i \in 1..Len(r)
  <2>1. i \in 1..Len(q) \/ i = Len(q) + 1
    BY <1>1
  <2> QED
    BY <1>1, <2>1
<1>3. 1..Len(q) \subseteq 1..Len(r) /\ Len(q) + 1 \in 1..Len(r)
  BY <1>1
<1>4. Numbers(r) = Numbers(q) \cup {m.n}
  <2>1. ASSUME NEW n \in Numbers(r) PROVE n \in Numbers(q) \cup {m.n}
    BY <1>1, <1>2, <2>1, Numbered
  <2>2. ASSUME NEW n \in Numbers(q) \cup {m.n} PROVE n \in Numbers(r)
    BY <1>1, <1>3, <2>2, Numbered
  <2> QED
    BY <2>1, <2>2
<1>5. OfUser(r) = OfUser(q) \cup (IF m.role = "user" THEN {m.n} ELSE {})
  <2> DEFINE new == IF m.role = "user" THEN {m.n} ELSE {}
  <2>1. ASSUME NEW n \in OfUser(r) PROVE n \in OfUser(q) \cup new
    BY <1>1, <1>2, <2>1, Numbered
  <2>2. ASSUME NEW n \in OfUser(q) \cup new PROVE n \in OfUser(r)
    BY <1>1, <1>3, <2>2, Numbered
  <2> QED
    BY <2>1, <2>2
<1>6. ASSUME Distinct(q), m.n \notin Numbers(q) PROVE Distinct(r)
  <2>1. DOMAIN r = 1..Len(r) /\ DOMAIN q = 1..Len(q)
    BY <1>1
  <2>2. \A i \in 1..Len(q) : q[i].n # m.n
    BY <1>6, Numbered
  <2> QED
    BY <1>2, <1>6, <2>1, <2>2 DEF Distinct
<1> QED
  BY <1>1, <1>2, <1>4, <1>5, <1>6 DEF r

\* What is drained of a queue, and what is left.
LEMMA DrainedAndLeft ==
  ASSUME NEW q \in Seq(MessagesSent)
  PROVE  /\ Drained(q) \in Seq(MessagesSent) /\ Left(q) \in Seq(MessagesSent)
         /\ Numbers(q) = Numbers(Drained(q)) \cup Numbers(Left(q))
         /\ OfUser(q) = OfUser(Drained(q)) \cup OfUser(Left(q))
         /\ Distinct(q) => /\ Distinct(Drained(q)) /\ Distinct(Left(q))
                           /\ Numbers(Drained(q)) \cap Numbers(Left(q)) = {}
         /\ Drained(q) = <<>> => q = <<>>
         /\ q = <<>> => Drained(q) = <<>> /\ Left(q) = <<>>
         /\ Len(Left(q)) <= Len(q)
<1>1. CASE OneAtATime /\ q # <<>>
  <2> DEFINE h == Head(q)
             t == Tail(q)
             one == <<h>>
  <2>1. Drained(q) = one /\ Left(q) = t
    BY <1>1 DEF Drained, Left
  <2>2. /\ one \in Seq(MessagesSent) /\ Len(one) = 1 /\ one[1] = q[1] /\ one # <<>>
        /\ t \in Seq(MessagesSent) /\ Len(t) = Len(q) - 1 /\ Len(q) \in Nat \ {0}
        /\ \A i \in 1..Len(t) : t[i] = q[i + 1]
    BY <1>1
  <2> HIDE DEF h, t, one
  <2>3. \A i \in 1..Len(q) : i = 1 \/ (i - 1 \in 1..Len(t) /\ t[i - 1] = q[i])
    BY <2>2
  <2>4. \A i \in 1..Len(t) : i + 1 \in 1..Len(q) /\ i + 1 # 1
    BY <2>2
  <2>5. Numbers(q) = Numbers(one) \cup Numbers(t)
    <3>1. ASSUME NEW n \in Numbers(q) PROVE n \in Numbers(one) \cup Numbers(t)
      <4>1. PICK i \in 1..Len(q) : q[i].n = n
        BY <3>1, Numbered
      <4>2. CASE i = 1
        BY <2>2, <4>1, <4>2, Numbered
      <4>3. CASE i - 1 \in 1..Len(t) /\ t[i - 1] = q[i]
        BY <2>2, <4>1, <4>3, Numbered
      <4> QED
        BY <2>3, <4>2, <4>3
    <3>2. ASSUME NEW n \in Numbers(one) PROVE n \in Numbers(q)
      BY <2>2, <3>2, Numbered
    <3>3. ASSUME NEW n \in Numbers(t) PROVE n \in Numbers(q)
      BY <2>2, <2>4, <3>3, Numbered
    <3> QED
      BY <3>1, <3>2, <3>3
  <2>6. OfUser(q) = OfUser(one) \cup OfUser(t)
    <3>1. ASSUME NEW n \in OfUser(q) PROVE n \in OfUser(one) \cup OfUser(t)
      <4>1. PICK i \in 1..Len(q) : q[i].n = n /\ q[i].role = "user"
        BY <3>1, Numbered
      <4>2. CASE i = 1
        BY <2>2, <4>1, <4>2, Numbered
      <4>3. CASE i - 1 \in 1..Len(t) /\ t[i - 1] = q[i]
        BY <2>2, <4>1, <4>3, Numbered
      <4> QED
        BY <2>3, <4>2, <4>3
    <3>2. ASSUME NEW n \in OfUser(one) PROVE n \in OfUser(q)
      BY <2>2, <3>2, Numbered
    <3>3. ASSUME NEW n \in OfUser(t) PROVE n \in OfUser(q)
      BY <2>2, <2>4, <3>3, Numbered
    <3> QED
      BY <3>1, <3>2, <3>3
  <2>7. ASSUME Distinct(q)
        PROVE  Distinct(one) /\ Distinct(t) /\ Numbers(one) \cap Numbers(t) = {}
    <3>1. DOMAIN q = 1..Len(q) /\ DOMAIN t = 1..Len(t) /\ DOMAIN one = 1..1
      BY <2>2
    <3>2. Distinct(one)
      BY <3>1 DEF Distinct
    <3>3. Distinct(t)
      <4> SUFFICES ASSUME NEW i \in 1..Len(t), NEW j \in 1..Len(t), t[i].n = t[j].n PROVE i = j
        BY <3>1 DEF Distinct
      <4>1. q[i + 1].n = q[j + 1].n /\ i + 1 \in 1..Len(q) /\ j + 1 \in 1..Len(q)
        BY <2>2, <2>4
      <4>2. \A k, l \in 1..Len(q) : q[k].n = q[l].n => k = l
        BY <2>7, <3>1 DEF Distinct
      <4>3. i + 1 = j + 1
        BY <4>1, <4>2
      <4> QED
        BY <4>3
    <3>4. ASSUME NEW n \in Numbers(one), n \in Numbers(t) PROVE FALSE
      <4>1. n = q[1].n
        BY <2>2, <3>4, Numbered
      <4>2. PICK i \in 1..Len(t) : t[i].n = n
        BY <2>2, <3>4, Numbered
      <4>3. q[i + 1].n = q[1].n /\ i + 1 \in 1..Len(q) /\ 1 \in 1..Len(q) /\ i + 1 # 1
        BY <2>2, <2>4, <4>1, <4>2
      <4> QED
        BY <2>7, <3>1, <4>3 DEF Distinct
    <3> QED
      BY <3>2, <3>3, <3>4
  <2>8. Len(t) <= Len(q)
    BY <2>2
  <2> QED
    BY <1>1, <2>1, <2>2, <2>5, <2>6, <2>7, <2>8
<1>2. CASE ~(OneAtATime /\ q # <<>>)
  <2>1. Drained(q) = q /\ Left(q) = <<>>
    BY <1>2 DEF Drained, Left
  <2>2. Len(<<>>) <= Len(q)
    OBVIOUS
  <2> QED
    BY <2>1, <2>2, NothingWaits
<1> QED
  BY <1>1, <1>2

-----------------------------------------------------------------------------
(* Paths of entries.                                                       *)

\* The entries of messages that are recorded behind the first n.
EntriesOf(n, msgs) == [i \in DOMAIN msgs |-> Entry(n + i, msgs[i], 0, {})]

RoleNumbers(q, roles) == {q[i].n : i \in {j \in DOMAIN q : q[j].role \in roles}}

\* The sorts of messages are those of no other.
LEMMA Kinds ==
  /\ MessagesSent \subseteq AnyMessage /\ Responses \subseteq AnyMessage /\ Summary \in AnyMessage
  /\ \A n \in 1..MaxCalls : ResultOf(n) \in AnyMessage
  /\ \A m \in MessagesSent : m.role \in Sorts /\ m.role # "assistant" /\ m.n \in 1..MaxMessages
  /\ \A m \in Responses : m.role = "assistant" /\ m.role \notin Sorts /\ m.role # "user"
  /\ Summary.role \notin Sorts /\ Summary.role = "summary"
  /\ \A n : ResultOf(n).role \notin Sorts /\ ResultOf(n).role = "result"
  /\ \A sort \in Sorts, n \in 1..MaxMessages :
       Sent(sort, n) \in MessagesSent /\ Sent(sort, n).role = sort /\ Sent(sort, n).n = n
<1>1. Sorts \subseteq {"user", "custom", "bash"}
  BY SortsAssumption
<1> QED
  BY <1>1 DEF AnyMessage, MessagesSent, Responses, Summary, ResultOf, Sent, Message

\* One part of a path behind another.
LEMMA PathExtended ==
  ASSUME NEW path \in Seq(Entries), NEW q \in Seq(Entries)
  PROVE  LET r == path \o q
         IN  /\ r \in Seq(Entries) /\ Len(r) = Len(path) + Len(q)
             /\ \A roles : OnPath(r, roles) = OnPath(path, roles) \cup OnPath(q, roles)
             /\ Once(path) /\ Once(q) /\ OnPath(path, Sorts) \cap OnPath(q, Sorts) = {} => Once(r)
             /\ Numbering(path) /\ (\A j \in 1..Len(q) : q[j].id = Len(path) + j) => Numbering(r)
<1> DEFINE r == path \o q
<1>1. /\ r \in Seq(Entries) /\ Len(r) = Len(path) + Len(q)
      /\ \A i \in 1..Len(path) : r[i] = path[i]
      /\ \A j \in 1..Len(q) : r[Len(path) + j] = q[j]
      /\ \A i \in 1..Len(r) : i \in 1..Len(path) \/ \E j \in 1..Len(q) : i = Len(path) + j
  BY Joined
<1>2. /\ DOMAIN r = 1..Len(r) /\ DOMAIN path = 1..Len(path) /\ DOMAIN q = 1..Len(q)
      /\ 1..Len(path) \subseteq 1..Len(r) /\ \A j \in 1..Len(q) : Len(path) + j \in 1..Len(r)
  BY <1>1
<1> HIDE DEF r
<1>3. ASSUME NEW roles PROVE OnPath(r, roles) = OnPath(path, roles) \cup OnPath(q, roles)
  <2>1. ASSUME NEW n \in OnPath(r, roles) PROVE n \in OnPath(path, roles) \cup OnPath(q, roles)
    <3>1. PICK i \in 1..Len(r) : n = r[i].msg.n /\ r[i].msg.role \in roles
      BY <1>2, <2>1 DEF OnPath
    <3>2. CASE i \in 1..Len(path)
      BY <1>1, <1>2, <3>1, <3>2 DEF OnPath
    <3>3. ASSUME NEW j \in 1..Len(q), i = Len(path) + j PROVE n \in OnPath(q, roles)
      BY <1>1, <1>2, <3>1, <3>3 DEF OnPath
    <3> QED
      BY <1>1, <3>2, <3>3
  <2>2. ASSUME NEW n \in OnPath(path, roles) PROVE n \in OnPath(r, roles)
    <3>1. PICK i \in 1..Len(path) : n = path[i].msg.n /\ path[i].msg.role \in roles
      BY <1>2, <2>2 DEF OnPath
    <3> QED
      BY <1>1, <1>2, <3>1 DEF OnPath
  <2>3. ASSUME NEW n \in OnPath(q, roles) PROVE n \in OnPath(r, roles)
    <3>1. PICK j \in 1..Len(q) : n = q[j].msg.n /\ q[j].msg.role \in roles
      BY <1>2, <2>3 DEF OnPath
    <3>2. Len(path) + j \in 1..Len(r) /\ r[Len(path) + j] = q[j]
      BY <1>1, <1>2
    <3> QED
      BY <1>2, <3>1, <3>2 DEF OnPath
  <2> QED
    BY <2>1, <2>2, <2>3
<1>4. ASSUME Once(path), Once(q), OnPath(path, Sorts) \cap OnPath(q, Sorts) = {}
      PROVE  Once(r)
  <2> SUFFICES ASSUME NEW i \in 1..Len(r), NEW k \in 1..Len(r), r[i].msg.n = r[k].msg.n,
                      r[i].msg.role \in Sorts, r[k].msg.role \in Sorts
               PROVE  i = k
    BY <1>2 DEF Once
  <2>0. ASSUME NEW a \in 1..Len(path), NEW b \in 1..Len(q), path[a].msg.n = q[b].msg.n,
               path[a].msg.role \in Sorts, q[b].msg.role \in Sorts
        PROVE  FALSE
    <3>1. path[a].msg.n \in OnPath(path, Sorts)
      BY <1>2, <2>0 DEF OnPath
    <3>2. q[b].msg.n \in OnPath(q, Sorts)
      BY <1>2, <2>0 DEF OnPath
    <3> QED
      BY <1>4, <2>0, <3>1, <3>2
  <2>1. CASE i \in 1..Len(path) /\ k \in 1..Len(path)
    BY <1>1, <1>2, <1>4, <2>1 DEF Once
  <2>2. ASSUME i \in 1..Len(path), NEW j \in 1..Len(q), k = Len(path) + j PROVE FALSE
    <3>1. r[i] = path[i] /\ r[k] = q[j]
      BY <1>1, <2>2
    <3> QED
      BY <2>0, <2>2, <3>1
  <2>3. ASSUME k \in 1..Len(path), NEW j \in 1..Len(q), i = Len(path) + j PROVE FALSE
    <3>1. r[k] = path[k] /\ r[i] = q[j]
      BY <1>1, <2>3
    <3> QED
      BY <2>0, <2>3, <3>1
  <2>4. ASSUME NEW j \in 1..Len(q), i = Len(path) + j, NEW l \in 1..Len(q), k = Len(path) + l
        PROVE  i = k
    <3>1. r[i] = q[j] /\ r[k] = q[l]
      BY <1>1, <2>4
    <3> QED
      BY <1>2, <1>4, <2>4, <3>1 DEF Once
  <2> QED
    BY <1>1, <2>1, <2>2, <2>3, <2>4
<1>5. ASSUME Numbering(path), \A j \in 1..Len(q) : q[j].id = Len(path) + j
      PROVE  Numbering(r)
  <2> SUFFICES ASSUME NEW i \in 1..Len(r) PROVE r[i].id = i
    BY DEF Numbering
  <2>1. CASE i \in 1..Len(path)
    BY <1>1, <1>5, <2>1 DEF Numbering
  <2>2. ASSUME NEW j \in 1..Len(q), i = Len(path) + j PROVE r[i].id = i
    <3>1. r[i] = q[j]
      BY <1>1, <2>2
    <3> QED
      BY <1>5, <2>2, <3>1
  <2> QED
    BY <1>1, <2>1, <2>2
<1> QED
  BY <1>1, <1>3, <1>4, <1>5 DEF r

\* Messages that are recorded.
LEMMA EntriesRecorded ==
  ASSUME NEW n \in Nat, NEW msgs \in Seq(AnyMessage)
  PROVE  LET q == EntriesOf(n, msgs)
         IN  /\ q \in Seq(Entries) /\ Len(q) = Len(msgs)
             /\ \A j \in 1..Len(q) : q[j].id = n + j
             /\ \A roles : OnPath(q, roles) = RoleNumbers(msgs, roles)
             /\ msgs \in Seq(MessagesSent) /\ Distinct(msgs) => Once(q)
             /\ RoleNumbers(msgs, Sorts) = {} => Once(q)
<1> DEFINE q == EntriesOf(n, msgs)
<1>1. Len(msgs) \in Nat /\ DOMAIN msgs = 1..Len(msgs) /\ \A i \in 1..Len(msgs) : msgs[i] \in AnyMessage
  OBVIOUS
<1>2. \A i \in 1..Len(msgs) : Entry(n + i, msgs[i], 0, {}) \in Entries
  BY <1>1 DEF Entry, Entries
<1>3. q \in [1..Len(msgs) -> Entries]
  BY <1>1, <1>2 DEF EntriesOf
<1>4. /\ q \in Seq(Entries) /\ Len(q) = Len(msgs) /\ DOMAIN q = 1..Len(msgs)
      /\ \A i \in 1..Len(msgs) : q[i].msg = msgs[i] /\ q[i].id = n + i
  BY <1>1, <1>3 DEF EntriesOf, Entry
<1> HIDE DEF q
<1>5. \A roles : OnPath(q, roles) = RoleNumbers(msgs, roles)
  BY <1>1, <1>4 DEF OnPath, RoleNumbers
<1>6. msgs \in Seq(MessagesSent) /\ Distinct(msgs) => Once(q)
  BY <1>1, <1>4 DEF Once, Distinct
<1>7. RoleNumbers(msgs, Sorts) = {} => Once(q)
  BY <1>1, <1>4 DEF Once, RoleNumbers
<1> QED
  BY <1>4, <1>5, <1>6, <1>7 DEF q

\* Messages that were sent, by role.
LEMMA SentNumbers ==
  ASSUME NEW q \in Seq(MessagesSent)
  PROVE  RoleNumbers(q, Sorts) = Numbers(q) /\ RoleNumbers(q, {"user"}) = OfUser(q)
<1>1. \A i \in DOMAIN q : q[i].role \in Sorts
  BY Kinds
<1> QED
  BY <1>1 DEF RoleNumbers, Numbers, OfUser

\* Messages that the agent makes have no number of a message that was sent.
LEMMA MadeNumbers ==
  ASSUME NEW q, \A i \in DOMAIN q : q[i].role \in {"assistant", "result", "summary"}
  PROVE  RoleNumbers(q, Sorts) = {} /\ RoleNumbers(q, {"user"}) = {}
<1>1. Sorts \subseteq {"user", "custom", "bash"}
  BY SortsAssumption
<1> QED
  BY <1>1 DEF RoleNumbers

\* One entry more.
LEMMA PathAppended ==
  ASSUME NEW path \in Seq(Entries), NEW e \in Entries, e.id = Len(path) + 1
  PROVE  LET r == Append(path, e)
         IN  /\ r \in Seq(Entries)
             /\ \A roles : OnPath(r, roles) =
                  OnPath(path, roles) \cup (IF e.msg.role \in roles THEN {e.msg.n} ELSE {})
             /\ (/\ Once(path)
                 /\ e.msg.role \in Sorts => e.msg.n \notin OnPath(path, Sorts)) => Once(r)
             /\ Numbering(path) => Numbering(r)
<1> DEFINE q == <<e>>
<1>1. q \in Seq(Entries) /\ Append(path, e) = path \o q /\ Len(q) = 1 /\ q[1] = e /\ DOMAIN q = {1}
  OBVIOUS
<1> HIDE DEF q
<1>2. \A roles : OnPath(q, roles) = IF e.msg.role \in roles THEN {e.msg.n} ELSE {}
  BY <1>1 DEF OnPath
<1>3. Once(q) /\ \A j \in 1..Len(q) : q[j].id = Len(path) + j
  BY <1>1 DEF Once
<1>4. Append(path, e) \in Seq(Entries)
  OBVIOUS
<1> QED
  BY <1>1, <1>2, <1>3, <1>4, PathExtended

-----------------------------------------------------------------------------
(* Where messages are.                                                     *)

UsersWaiting(s) == OfUser(s.steer) \cup OfUser(s.follow) \cup OfUser(s.pending)
UsersHeard(s)   == OnPath(s.path, {"user"})

SameLists(s, t) == \A l \in Stores : t[l] = s[l]
SameDesk(s, t)  ==
  t.issued = s.issued /\ t.preflight = s.preflight /\ t.cleared = s.cleared /\ t.refused = s.refused

\* What the user said is heard, of what waits, or waits on.
Hears(s, t) ==
  \E some \in SUBSET UsersWaiting(s) :
    UsersHeard(t) = UsersHeard(s) \cup some /\ UsersWaiting(t) = UsersWaiting(s) \ some

\* A message waits if some list has it.
LEMMA WaitsIn ==
  ASSUME NEW s
  PROVE  \A n : n \in Waits(s) <=> \E l \in Stores : n \in Numbers(s[l])
BY DEF Waits

\* One list behind a transcript.
LEMMA TranscriptJoined ==
  ASSUME NEW p \in Seq(AnyMessage), Opens(p), NEW q \in Seq(AnyMessage), p # <<>> \/ Opens(q)
  PROVE  p \o q \in Seq(AnyMessage) /\ Opens(p \o q) /\ (p # <<>> => p \o q # <<>>)
         /\ (q # <<>> => p \o q # <<>>)
<1>1. /\ p \o q \in Seq(AnyMessage) /\ Len(p \o q) = Len(p) + Len(q)
      /\ Len(p) \in Nat /\ Len(q) \in Nat
  OBVIOUS
<1>2. CASE p = <<>>
  <2>1. p \o q = q
    BY <1>2
  <2> QED
    BY <1>2, <2>1
<1>3. CASE p # <<>>
  <2>1. Len(p) >= 1 /\ p \o q # <<>> /\ (p \o q)[1] = p[1]
    BY <1>3
  <2> QED
    BY <1>1, <1>3, <2>1 DEF Opens
<1> QED
  BY <1>2, <1>3

\* Messages that were sent make a transcript.
LEMMA SentOpens ==
  ASSUME NEW q \in Seq(MessagesSent)
  PROVE  q \in Seq(AnyMessage) /\ Opens(q)
<1>1. \A i \in 1..Len(q) : q[i] \in MessagesSent
  OBVIOUS
<1>2. q # <<>> => 1 \in 1..Len(q)
  OBVIOUS
<1>3. q \in Seq(AnyMessage)
  BY Kinds
<1> QED
  BY <1>1, <1>2, <1>3, Kinds DEF Opens

\* A list is recorded: its messages are in the session.
LEMMA Enters ==
  ASSUME NEW s, Books(s), NEW t, DOMAIN t = DOMAIN NewHost, SameDesk(s, t),
         NEW l \in Stores, t[l] = <<>>, \A k \in Stores \ {l} : t[k] = s[k],
         t.path = s.path \o EntriesOf(Len(s.path), s[l]), t.transcript = s.transcript \o s[l]
  PROVE  /\ Books(t) /\ UsersHeard(t) = UsersHeard(s) \cup OfUser(s[l])
         /\ s.transcript # <<>> \/ s[l] # <<>> => t.transcript # <<>>
<1> DEFINE q == EntriesOf(Len(s.path), s[l])
           N == Numbers(s[l])
<1>1. s[l] \in Seq(MessagesSent) /\ s.path \in Seq(Entries) /\ Len(s.path) \in Nat
  BY DEF Books, Lists, Logs
<1>2. s[l] \in Seq(AnyMessage) /\ Opens(s[l])
  BY <1>1, SentOpens
<1>3. /\ q \in Seq(Entries) /\ Len(q) = Len(s[l]) /\ \A j \in 1..Len(q) : q[j].id = Len(s.path) + j
      /\ OnPath(q, Sorts) = N /\ OnPath(q, {"user"}) = OfUser(s[l])
      /\ Once(q)
  <2> HIDE DEF q
  <2>1. /\ q \in Seq(Entries) /\ Len(q) = Len(s[l]) /\ \A j \in 1..Len(q) : q[j].id = Len(s.path) + j
        /\ \A roles : OnPath(q, roles) = RoleNumbers(s[l], roles)
        /\ s[l] \in Seq(MessagesSent) /\ Distinct(s[l]) => Once(q)
    BY <1>1, <1>2, EntriesRecorded DEF q
  <2>2. RoleNumbers(s[l], Sorts) = N /\ RoleNumbers(s[l], {"user"}) = OfUser(s[l])
    BY <1>1, SentNumbers
  <2>3. Distinct(s[l])
    BY DEF Books, Ledger
  <2> QED
    BY <1>1, <2>1, <2>2, <2>3
<1>9. t.path = s.path \o q
  OBVIOUS
<1> HIDE DEF q, N
<1>4. /\ t.path \in Seq(Entries) /\ Numbering(t.path) /\ Once(t.path)
      /\ OnPath(t.path, Sorts) = OnPath(s.path, Sorts) \cup N
      /\ UsersHeard(t) = UsersHeard(s) \cup OfUser(s[l])
  <2>1. OnPath(s.path, Sorts) \cap N = {} /\ Once(s.path) /\ Numbering(s.path)
    BY DEF Books, Ledger, Gone, Logs, N
  <2>2. /\ t.path \in Seq(Entries) /\ Numbering(t.path) /\ Once(t.path)
        /\ \A roles : OnPath(t.path, roles) = OnPath(s.path, roles) \cup OnPath(q, roles)
    <3>1. LET r == s.path \o q
          IN  /\ r \in Seq(Entries)
              /\ \A roles : OnPath(r, roles) = OnPath(s.path, roles) \cup OnPath(q, roles)
              /\ Once(s.path) /\ Once(q) /\ OnPath(s.path, Sorts) \cap OnPath(q, Sorts) = {} => Once(r)
              /\ Numbering(s.path) /\ (\A j \in 1..Len(q) : q[j].id = Len(s.path) + j) => Numbering(r)
      BY <1>1, <1>3, PathExtended
    <3> QED
      BY <1>3, <1>9, <2>1, <3>1
  <2> QED
    BY <1>3, <2>2 DEF UsersHeard
<1>5. Logs(t) /\ (s.transcript # <<>> \/ s[l] # <<>> => t.transcript # <<>>)
  BY <1>2, <1>4, TranscriptJoined DEF Logs, Books
<1>6. Lists(t)
  <2>1. \A k \in Stores : t[k] = s[k] \/ (k = l /\ t[k] = <<>>)
    OBVIOUS
  <2>2. <<>> \in Seq(MessagesSent) /\ Len(<<>>) = 0
    OBVIOUS
  <2>3. {"nextTurn", "custom", "bash"} \subseteq Stores
    BY DEF Stores
  <2>4. \A k \in Stores : t[k] \in Seq(MessagesSent)
    BY <2>1, <2>2 DEF Books, Lists
  <2>5. ASSUME NEW k \in {"nextTurn", "custom", "bash"}, NEW i \in 1..Len(t[k])
        PROVE  t[k][i].role # "user"
    <3>1. CASE t[k] = s[k]
      BY <2>5, <3>1 DEF Books, Lists
    <3>2. CASE t[k] = <<>>
      BY <2>2, <2>5, <3>2
    <3> QED
      BY <2>1, <2>3, <3>1, <3>2
  <2> QED
    BY <2>4, <2>5 DEF Lists
<1>7. Ledger(t)
  <2> USE DEF N
  <2>1. Gone(t) = Gone(s) \cup N
    BY <1>4 DEF Gone, ClearedNumbers, SameDesk
  <2>2. \A k \in Stores : Numbers(t[k]) = (IF k = l THEN {} ELSE Numbers(s[k])) /\ Distinct(t[k])
    BY NothingWaits DEF Books, Ledger
  <2>3. /\ \A k \in Stores : Numbers(s[k]) \cap Gone(s) = {}
        /\ \A k, j \in Stores : k # j => Numbers(s[k]) \cap Numbers(s[j]) = {}
        /\ \A p \in s.preflight : p.n \notin Gone(s) \cup Waits(s)
        /\ 1..s.issued = Gone(s) \cup s.refused \cup Prompted(s) \cup Waits(s)
    BY DEF Books, Ledger
  <2>4. Waits(t) \cup N = Waits(s)
    <3>1. ASSUME NEW n \in Waits(t) \cup N PROVE n \in Waits(s)
      BY <2>2, <3>1, WaitsIn
    <3>2. ASSUME NEW n \in Waits(s) PROVE n \in Waits(t) \cup N
      BY <2>2, <3>2, WaitsIn
    <3> QED
      BY <3>1, <3>2
  <2>5. \A k \in Stores : Numbers(t[k]) \cap Gone(t) = {}
    BY <2>1, <2>2, <2>3
  <2>6. \A k, j \in Stores : k # j => Numbers(t[k]) \cap Numbers(t[j]) = {}
    BY <2>2, <2>3
  <2>7. \A p \in t.preflight : p.n \notin Gone(t) \cup Waits(t)
    BY <2>1, <2>3, <2>4 DEF SameDesk
  <2>8. 1..t.issued = Gone(t) \cup t.refused \cup Prompted(t) \cup Waits(t)
    BY <2>1, <2>3, <2>4 DEF SameDesk, Prompted
  <2> QED
    BY <1>4, <2>2, <2>5, <2>6, <2>7, <2>8 DEF Ledger
<1> QED
  BY <1>4, <1>5, <1>6, <1>7 DEF Books

\* A part of a list.
Parts(q, d, r) ==
  /\ d \in Seq(MessagesSent) /\ r \in Seq(MessagesSent) /\ Distinct(d) /\ Distinct(r)
  /\ Numbers(q) = Numbers(d) \cup Numbers(r) /\ Numbers(d) \cap Numbers(r) = {}
  /\ OfUser(q) = OfUser(d) \cup OfUser(r)

\* A part of a list is kept for the next turn.
LEMMA Shifts ==
  ASSUME NEW s, Books(s), NEW t, DOMAIN t = DOMAIN NewHost, SameDesk(s, t), s.pending = <<>>,
         t.path = s.path, t.transcript = s.transcript, NEW l \in {"steer", "follow", "nextTurn"},
         Parts(s[l], t.pending, t[l]), l = "nextTurn" => t[l] = <<>>,
         \A k \in Stores \ {l, "pending"} : t[k] = s[k]
  PROVE  Books(t) /\ UsersHeard(t) = UsersHeard(s) /\ UsersWaiting(t) = UsersWaiting(s)
<1>0. l \in Stores /\ "pending" \in Stores /\ l # "pending"
  BY DEF Stores
<1> DEFINE D == Numbers(t.pending)
           L == Numbers(t[l])
<1>1. /\ t.pending \in Seq(MessagesSent) /\ t[l] \in Seq(MessagesSent)
      /\ Numbers(s[l]) = D \cup L /\ D \cap L = {}
      /\ OfUser(s[l]) = OfUser(t.pending) \cup OfUser(t[l])
      /\ Distinct(t.pending) /\ Distinct(t[l])
  BY DEF Parts
<1>2. \A k \in Stores : \/ k = l
                        \/ k = "pending"
                        \/ k # l /\ k # "pending" /\ t[k] = s[k]
  BY <1>0
<1>3. Logs(t)
  BY DEF Books, Logs
<1>4. Lists(t)
  <2>1. \A k \in {"nextTurn", "custom", "bash"} : k \in Stores /\ k # "pending"
    BY DEF Stores
  <2>2. \A k \in Stores : t[k] \in Seq(MessagesSent)
    BY <1>1, <1>2 DEF Books, Lists
  <2>3. ASSUME NEW k \in {"nextTurn", "custom", "bash"}, NEW i \in 1..Len(t[k])
        PROVE  t[k][i].role # "user"
    <3>1. CASE k # l
      BY <1>2, <2>1, <2>3, <3>1 DEF Books, Lists
    <3>2. CASE k = l
      <4>1. Len(t[k]) = 0
        BY <3>2
      <4> QED
        BY <2>3, <4>1
    <3> QED
      BY <3>1, <3>2
  <2> QED
    BY <2>2, <2>3 DEF Lists
<1>5. Ledger(t)
  <2> DEFINE M(k) == IF k = l THEN L ELSE IF k = "pending" THEN D ELSE Numbers(s[k])
  <2>1. Gone(t) = Gone(s)
    BY DEF Gone, ClearedNumbers, SameDesk
  <2>2. \A k \in Stores : Numbers(t[k]) = M(k) /\ Distinct(t[k])
    BY <1>0, <1>1, <1>2 DEF Books, Ledger
  <2>3. /\ \A k \in Stores : Numbers(s[k]) \cap Gone(s) = {}
        /\ \A k, j \in Stores : k # j => Numbers(s[k]) \cap Numbers(s[j]) = {}
        /\ \A p \in s.preflight : p.n \notin Gone(s) \cup Waits(s)
        /\ 1..s.issued = Gone(s) \cup s.refused \cup Prompted(s) \cup Waits(s)
        /\ Once(s.path) /\ Numbers(s.pending) = {}
    BY NothingWaits DEF Books, Ledger
  <2> HIDE DEF D, L
  <2>4. Waits(t) = Waits(s)
    <3>1. ASSUME NEW n \in Waits(t) PROVE n \in Waits(s)
      <4>1. PICK k \in Stores : n \in M(k)
        BY <2>2, <3>1, WaitsIn
      <4>2. n \in Numbers(s[k]) \/ n \in Numbers(s[l])
        BY <1>1, <4>1
      <4> QED
        BY <1>0, <4>2, WaitsIn
    <3>2. ASSUME NEW n \in Waits(s) PROVE n \in Waits(t)
      <4>1. PICK k \in Stores : n \in Numbers(s[k])
        BY <3>2, WaitsIn
      <4>2. CASE k = l
        <5>1. n \in M(l) \/ n \in M("pending")
          BY <1>0, <1>1, <4>1, <4>2
        <5> QED
          BY <1>0, <2>2, <5>1, WaitsIn
      <4>3. CASE k # l
        <5>1. k # "pending" /\ n \in M(k)
          BY <2>3, <4>1, <4>3
        <5> QED
          BY <2>2, <5>1, WaitsIn
      <4> QED
        BY <4>2, <4>3
    <3> QED
      BY <3>1, <3>2
  <2>5. \A k \in Stores : Numbers(t[k]) \cap Gone(t) = {}
    <3>1. D \cap Gone(s) = {} /\ L \cap Gone(s) = {}
      BY <1>0, <1>1, <2>3
    <3> QED
      BY <2>1, <2>2, <2>3, <3>1
  <2>6. \A k, j \in Stores : k # j => Numbers(t[k]) \cap Numbers(t[j]) = {}
    <3>1. \A k \in Stores : k # l => Numbers(s[k]) \cap D = {} /\ Numbers(s[k]) \cap L = {}
      <4> TAKE k \in Stores
      <4> HAVE k # l
      <4>1. Numbers(s[k]) \cap Numbers(s[l]) = {}
        BY <1>0, <2>3
      <4> QED
        BY <1>1, <4>1
    <3>2. \A k, j \in Stores : k # j => M(k) \cap M(j) = {}
      BY <1>0, <1>1, <2>3, <3>1
    <3> QED
      BY <2>2, <3>2
  <2>7. \A p \in t.preflight : p.n \notin Gone(t) \cup Waits(t)
    BY <2>1, <2>3, <2>4 DEF SameDesk
  <2>8. 1..t.issued = Gone(t) \cup t.refused \cup Prompted(t) \cup Waits(t)
    BY <2>1, <2>3, <2>4 DEF SameDesk, Prompted
  <2> QED
    BY <2>2, <2>3, <2>5, <2>6, <2>7, <2>8 DEF Ledger
<1>6. UsersWaiting(t) = UsersWaiting(s)
  <2>1. OfUser(s.pending) = {}
    BY NothingWaits
  <2>2. \/ l = "steer" /\ t.follow = s.follow
        \/ l = "follow" /\ t.steer = s.steer
        \/ l = "nextTurn" /\ t.steer = s.steer /\ t.follow = s.follow
    BY <1>2 DEF Stores
  <2>3. l = "nextTurn" => OfUser(s[l]) = {}
    <3>1. s.nextTurn \in Seq(MessagesSent) /\ \A i \in 1..Len(s.nextTurn) : s.nextTurn[i].role # "user"
      BY DEF Books, Lists, Stores
    <3> QED
      BY <3>1, Numbered
  <2> QED
    BY <1>1, <2>1, <2>2, <2>3 DEF UsersWaiting
<1> QED
  BY <1>3, <1>4, <1>5, <1>6 DEF Books, UsersHeard

\* A queue is drained: what waited in it waits for the next turn.
LEMMA Drains ==
  ASSUME NEW s, Books(s), NEW t, DOMAIN t = DOMAIN NewHost, SameDesk(s, t), s.pending = <<>>,
         t.path = s.path, t.transcript = s.transcript, NEW l \in {"steer", "follow"},
         t.pending = Drained(s[l]), t[l] = Left(s[l]),
         \A k \in Stores \ {l, "pending"} : t[k] = s[k]
  PROVE  Books(t) /\ UsersHeard(t) = UsersHeard(s) /\ UsersWaiting(t) = UsersWaiting(s)
<1>1. Parts(s[l], t.pending, t[l])
  BY DrainedAndLeft DEF Books, Lists, Ledger, Parts, Stores
<1> QED
  BY <1>1, Shifts

\* A message is put into a list: a new one, or the one of a prompt.
LEMMA PutsInto ==
  ASSUME NEW s, Books(s), NEW t, DOMAIN t = DOMAIN NewHost, t.path = s.path,
         t.transcript = s.transcript, t.cleared = s.cleared, t.refused = s.refused,
         NEW l \in Stores, \A k \in Stores \ {l} : t[k] = s[k],
         NEW m \in MessagesSent, m.n \notin Gone(s) \cup Waits(s),
         t[l] \in Seq(MessagesSent), Distinct(t[l]), Numbers(t[l]) = Numbers(s[l]) \cup {m.n},
         OfUser(t[l]) = OfUser(s[l]) \cup (IF m.role = "user" THEN {m.n} ELSE {}),
         l \in {"nextTurn", "custom", "bash"} => m.role # "user",
         \A p \in t.preflight : p \in s.preflight /\ p.n # m.n,
         Prompted(t) \cup {m.n} = Prompted(s) \cup {m.n}, 1..t.issued = (1..s.issued) \cup {m.n}
  PROVE  /\ Books(t) /\ UsersHeard(t) = UsersHeard(s)
         /\ UsersWaiting(t) = UsersWaiting(s) \cup (IF m.role = "user" THEN {m.n} ELSE {})
<1>1. \A k \in Stores : k = l \/ t[k] = s[k]
  OBVIOUS
<1>2. Logs(t)
  BY DEF Books, Logs
<1>3. Lists(t)
  <2>1. \A k \in Stores : t[k] \in Seq(MessagesSent)
    BY <1>1 DEF Books, Lists
  <2>2. ASSUME NEW k \in {"nextTurn", "custom", "bash"}, NEW i \in 1..Len(t[k])
        PROVE  t[k][i].role # "user"
    <3>1. k \in Stores
      BY DEF Stores
    <3>2. CASE k # l
      BY <1>1, <2>2, <3>1, <3>2 DEF Books, Lists
    <3>3. CASE k = l
      <4>1. OfUser(s[k]) = {}
        <5>1. s[k] \in Seq(MessagesSent) /\ \A j \in 1..Len(s[k]) : s[k][j].role # "user"
          BY <3>1 DEF Books, Lists
        <5> QED
          BY <5>1, Numbered
      <4>2. m.role # "user"
        BY <2>2, <3>3
      <4>3. OfUser(t[l]) = OfUser(s[l])
        BY <4>2
      <4>4. OfUser(t[k]) = {}
        BY <3>3, <4>1, <4>3
      <4>5. t[k] \in Seq(MessagesSent)
        BY <2>1, <3>1
      <4>6. t[k][i].role = "user" => t[k][i].n \in OfUser(t[k])
        BY <2>2, <4>5, Numbered
      <4> QED
        BY <4>4, <4>6
    <3> QED
      BY <3>2, <3>3
  <2> QED
    BY <2>1, <2>2 DEF Lists
<1>4. Ledger(t)
  <2>1. Gone(t) = Gone(s)
    BY DEF Gone, ClearedNumbers
  <2>2. /\ \A k \in Stores : Distinct(s[k]) /\ Numbers(s[k]) \cap Gone(s) = {}
        /\ \A k, j \in Stores : k # j => Numbers(s[k]) \cap Numbers(s[j]) = {}
        /\ \A p \in s.preflight : p.n \notin Gone(s) \cup Waits(s)
        /\ 1..s.issued = Gone(s) \cup s.refused \cup Prompted(s) \cup Waits(s)
        /\ Once(s.path)
    BY DEF Books, Ledger
  <2>3. \A k \in Stores : m.n \notin Numbers(s[k])
    BY WaitsIn
  <2>4. Waits(t) = Waits(s) \cup {m.n}
    <3>1. \A n : n \in Waits(t) => n \in Waits(s) \/ n = m.n
      BY <1>1, WaitsIn
    <3>2. \A n : n \in Waits(s) \/ n = m.n => n \in Waits(t)
      BY <1>1, WaitsIn
    <3> QED
      BY <3>1, <3>2
  <2>5. \A k \in Stores : Distinct(t[k]) /\ Numbers(t[k]) \cap Gone(t) = {}
    BY <1>1, <2>1, <2>2
  <2>6. \A k, j \in Stores : k # j => Numbers(t[k]) \cap Numbers(t[j]) = {}
    BY <1>1, <2>2, <2>3
  <2>7. \A p \in t.preflight : p.n \notin Gone(t) \cup Waits(t)
    BY <2>1, <2>2, <2>4
  <2>8. 1..t.issued = Gone(t) \cup t.refused \cup Prompted(t) \cup Waits(t)
    BY <2>1, <2>2, <2>4
  <2>9. Once(t.path)
    BY <2>2
  <2> QED
    BY <2>5, <2>6, <2>7, <2>8, <2>9 DEF Ledger
<1>5. UsersWaiting(t) = UsersWaiting(s) \cup (IF m.role = "user" THEN {m.n} ELSE {})
  <2>1. /\ "steer" = l \/ t.steer = s.steer
        /\ "follow" = l \/ t.follow = s.follow
        /\ "pending" = l \/ t.pending = s.pending
        /\ l \in {"nextTurn", "custom", "bash", "steer", "follow", "pending"}
    BY <1>1 DEF Stores
  <2> QED
    BY <2>1 DEF UsersWaiting
<1> QED
  BY <1>2, <1>3, <1>4, <1>5 DEF Books, UsersHeard

\* The number of the next message is nobody's.
LEMMA FreshNumber ==
  ASSUME NEW s, Books(s), s.issued \in Nat
  PROVE  LET n == s.issued + 1
         IN  /\ n \notin Gone(s) \cup Waits(s) /\ n \notin Prompted(s)
             /\ 1..n = (1..s.issued) \cup {n} /\ \A p \in s.preflight : p.n # n
<1> DEFINE n == s.issued + 1
<1>1. n \notin 1..s.issued /\ 1..n = (1..s.issued) \cup {n}
  OBVIOUS
<1>2. 1..s.issued = Gone(s) \cup s.refused \cup Prompted(s) \cup Waits(s)
  BY DEF Books, Ledger
<1>3. n \notin Gone(s) \cup Waits(s) /\ n \notin Prompted(s)
  BY <1>1, <1>2
<1> HIDE DEF n
<1>4. \A p \in s.preflight : p.n # n
  BY <1>3 DEF Prompted
<1> QED
  BY <1>1, <1>3, <1>4 DEF n

\* A prompt is taken, changed, refused, and nothing else.
LEMMA DeskChanges ==
  ASSUME NEW s, Books(s), NEW t, DOMAIN t = DOMAIN NewHost, SameLists(s, t), t.path = s.path,
         t.transcript = s.transcript, t.cleared = s.cleared,
         \A p \in t.preflight : p.n \notin Gone(s) \cup Waits(s),
         1..t.issued = Gone(s) \cup t.refused \cup Prompted(t) \cup Waits(s)
  PROVE  Books(t) /\ UsersHeard(t) = UsersHeard(s) /\ UsersWaiting(t) = UsersWaiting(s)
<1>1. Gone(t) = Gone(s) /\ Waits(t) = Waits(s)
  BY DEF Gone, ClearedNumbers, Waits, SameLists
<1>2. Logs(t) /\ UsersHeard(t) = UsersHeard(s)
  BY DEF Books, Logs, UsersHeard
<1>3. Lists(t)
  <2>1. {"nextTurn", "custom", "bash"} \subseteq Stores
    BY DEF Stores
  <2> QED
    BY <2>1 DEF Books, Lists, SameLists
<1>4. Ledger(t)
  BY <1>1 DEF Books, Ledger, SameLists
<1>5. UsersWaiting(t) = UsersWaiting(s)
  BY DEF UsersWaiting, SameLists, Stores
<1> QED
  BY <1>2, <1>3, <1>4, <1>5 DEF Books

\* What the agent makes, and what is dropped of its transcript.
LEMMA LogsChange ==
  ASSUME NEW s, Books(s), NEW t, DOMAIN t = DOMAIN NewHost, SameLists(s, t), SameDesk(s, t),
         t.path \in Seq(Entries), Numbering(t.path), Once(t.path),
         OnPath(t.path, Sorts) = OnPath(s.path, Sorts),
         OnPath(t.path, {"user"}) = OnPath(s.path, {"user"}),
         t.transcript \in Seq(AnyMessage), Opens(t.transcript)
  PROVE  Books(t) /\ UsersHeard(t) = UsersHeard(s) /\ UsersWaiting(t) = UsersWaiting(s)
<1>1. Gone(t) = Gone(s) /\ Waits(t) = Waits(s)
  BY DEF Gone, ClearedNumbers, Waits, SameLists, SameDesk
<1>2. Logs(t) /\ UsersHeard(t) = UsersHeard(s)
  BY DEF Logs, UsersHeard
<1>3. Lists(t)
  <2>1. {"nextTurn", "custom", "bash"} \subseteq Stores
    BY DEF Stores
  <2> QED
    BY <2>1 DEF Books, Lists, SameLists
<1>4. Ledger(t)
  BY <1>1 DEF Books, Ledger, SameLists, SameDesk, Prompted
<1>5. UsersWaiting(t) = UsersWaiting(s)
  BY DEF UsersWaiting, SameLists, Stores
<1> QED
  BY <1>2, <1>3, <1>4, <1>5 DEF Books

\* A message of an idle session goes to its session at once.
LEMMA GoesToSession ==
  ASSUME NEW s, Books(s), NEW t, DOMAIN t = DOMAIN NewHost, SameLists(s, t),
         t.cleared = s.cleared, t.refused = s.refused, t.preflight = s.preflight,
         s.issued \in Nat, t.issued = s.issued + 1,
         NEW m \in MessagesSent, m.n = s.issued + 1, m.role # "user",
         t.path = Append(s.path, Entry(Len(s.path) + 1, m, 0, {})),
         t.transcript = Append(s.transcript, m)
  PROVE  Books(t) /\ UsersHeard(t) = UsersHeard(s) /\ UsersWaiting(t) = UsersWaiting(s)
<1> DEFINE e == Entry(Len(s.path) + 1, m, 0, {})
<1>1. s.path \in Seq(Entries) /\ s.transcript \in Seq(AnyMessage) /\ m \in AnyMessage
      /\ Opens(s.transcript)
  BY Kinds DEF Books, Logs
<1>2. e \in Entries /\ e.id = Len(s.path) + 1 /\ e.msg = m
  <2>1. Len(s.path) + 1 \in Nat
    BY <1>1
  <2> QED
    BY <1>1, <2>1 DEF Entry, Entries
<1> HIDE DEF e
<1>3. t.path = Append(s.path, e)
  BY DEF e
<1>4. m.n \notin Gone(s) \cup Waits(s) /\ m.n \notin Prompted(s) /\ 1..t.issued = (1..s.issued) \cup {m.n}
  BY FreshNumber
<1>5. m.role \in Sorts /\ m.role # "assistant"
  BY Kinds
<1>6. /\ t.path \in Seq(Entries) /\ Numbering(t.path) /\ Once(t.path)
      /\ OnPath(t.path, Sorts) = OnPath(s.path, Sorts) \cup {m.n}
      /\ UsersHeard(t) = UsersHeard(s)
  <2>1. Once(s.path) /\ Numbering(s.path) /\ m.n \notin OnPath(s.path, Sorts)
    BY <1>4 DEF Books, Ledger, Logs, Gone
  <2>2. LET r == Append(s.path, e)
        IN  /\ r \in Seq(Entries)
            /\ \A roles : OnPath(r, roles) =
                 OnPath(s.path, roles) \cup (IF e.msg.role \in roles THEN {e.msg.n} ELSE {})
            /\ Once(r) /\ Numbering(r)
    BY <1>1, <1>2, <2>1, PathAppended
  <2> QED
    BY <1>2, <1>3, <1>5, <2>2 DEF UsersHeard
<1>7. Logs(t)
  <2>1. t.transcript \in Seq(AnyMessage)
    BY <1>1
  <2>2. t.transcript[1] = s.transcript[1] \/ s.transcript = <<>>
    BY <1>1
  <2>3. s.transcript = <<>> => t.transcript[1] = m
    OBVIOUS
  <2> QED
    BY <1>1, <1>5, <1>6, <2>1, <2>2, <2>3 DEF Logs, Opens
<1>8. Lists(t)
  <2>1. {"nextTurn", "custom", "bash"} \subseteq Stores
    BY DEF Stores
  <2> QED
    BY <2>1 DEF Books, Lists, SameLists
<1>9. Ledger(t)
  <2>1. Gone(t) = Gone(s) \cup {m.n} /\ Waits(t) = Waits(s)
    BY <1>6 DEF Gone, ClearedNumbers, Waits, SameLists
  <2>2. /\ \A k \in Stores : Distinct(t[k]) /\ Numbers(t[k]) \cap Gone(s) = {}
        /\ \A k, j \in Stores : k # j => Numbers(t[k]) \cap Numbers(t[j]) = {}
        /\ \A p \in s.preflight : p.n \notin Gone(s) \cup Waits(s)
        /\ 1..s.issued = Gone(s) \cup s.refused \cup Prompted(s) \cup Waits(s)
    BY DEF Books, Ledger, SameLists
  <2>3. \A k \in Stores : m.n \notin Numbers(t[k])
    BY <1>4, WaitsIn DEF SameLists
  <2>4. \A p \in s.preflight : p.n # m.n
    BY <1>4 DEF Prompted
  <2>5. \A k \in Stores : Numbers(t[k]) \cap Gone(t) = {}
    BY <2>1, <2>2, <2>3
  <2>6. \A p \in t.preflight : p.n \notin Gone(t) \cup Waits(t)
    BY <2>1, <2>2, <2>4
  <2>7. 1..t.issued = Gone(t) \cup t.refused \cup Prompted(t) \cup Waits(t)
    BY <1>4, <2>1, <2>2 DEF Prompted
  <2> QED
    BY <1>6, <2>2, <2>5, <2>6, <2>7 DEF Ledger
<1> QED
  BY <1>6, <1>7, <1>8, <1>9 DEF Books, UsersWaiting, SameLists, Stores

\* The queues are cleared.
LEMMA GivesBack ==
  ASSUME NEW s, Books(s), NEW t, DOMAIN t = DOMAIN NewHost, t.steer = <<>>, t.follow = <<>>,
         \A l \in Stores \ {"steer", "follow"} : t[l] = s[l],
         t.path = s.path, t.transcript = s.transcript,
         t.issued = s.issued, t.preflight = s.preflight, t.refused = s.refused,
         t.cleared = s.cleared \cup ToSet(s.steer) \cup ToSet(s.follow)
  PROVE  /\ Books(t) /\ UsersHeard(t) = UsersHeard(s)
         /\ UsersWaiting(t) = UsersWaiting(s) \ (OfUser(s.steer) \cup OfUser(s.follow))
<1> DEFINE N == Numbers(s.steer) \cup Numbers(s.follow)
<1>0. "steer" \in Stores /\ "follow" \in Stores /\ "pending" \in Stores
  BY DEF Stores
<1>1. \A k \in Stores : \/ k \in {"steer", "follow"} /\ t[k] = <<>>
                        \/ k \notin {"steer", "follow"} /\ t[k] = s[k]
  OBVIOUS
<1>2. s.steer \in Seq(MessagesSent) /\ s.follow \in Seq(MessagesSent) /\ s.pending \in Seq(MessagesSent)
  BY <1>0 DEF Books, Lists
<1>3. Logs(t)
  BY DEF Books, Logs
<1>4. Lists(t)
  <2>1. \A k \in {"nextTurn", "custom", "bash"} : k \in Stores /\ k \notin {"steer", "follow"}
    BY DEF Stores
  <2>2. <<>> \in Seq(MessagesSent)
    OBVIOUS
  <2> QED
    BY <1>1, <2>1, <2>2 DEF Books, Lists
<1>5. Ledger(t)
  <2>1. ClearedNumbers(t) = ClearedNumbers(s) \cup N
    BY DEF ClearedNumbers, ToSet, Numbers
  <2>2. Gone(t) = Gone(s) \cup N
    BY <2>1 DEF Gone
  <2>3. \A k \in Stores : /\ Distinct(t[k])
                          /\ Numbers(t[k]) = (IF k \in {"steer", "follow"} THEN {} ELSE Numbers(s[k]))
    BY <1>1, NothingWaits DEF Books, Ledger
  <2>4. /\ \A k \in Stores : Numbers(s[k]) \cap Gone(s) = {}
        /\ \A k, j \in Stores : k # j => Numbers(s[k]) \cap Numbers(s[j]) = {}
        /\ \A p \in s.preflight : p.n \notin Gone(s) \cup Waits(s)
        /\ 1..s.issued = Gone(s) \cup s.refused \cup Prompted(s) \cup Waits(s)
        /\ Once(s.path)
    BY DEF Books, Ledger
  <2>5. Waits(t) \cup N = Waits(s)
    <3>1. ASSUME NEW n \in Waits(t) \cup N PROVE n \in Waits(s)
      <4>1. CASE n \in N
        BY <1>0, <4>1, WaitsIn
      <4>2. CASE n \in Waits(t)
        BY <2>3, <4>2, WaitsIn
      <4> QED
        BY <3>1, <4>1, <4>2
    <3>2. ASSUME NEW n \in Waits(s) PROVE n \in Waits(t) \cup N
      <4>1. PICK k \in Stores : n \in Numbers(s[k])
        BY <3>2, WaitsIn
      <4>2. CASE k \in {"steer", "follow"}
        BY <4>1, <4>2
      <4>3. CASE k \notin {"steer", "follow"}
        BY <2>3, <4>1, <4>3, WaitsIn
      <4> QED
        BY <4>2, <4>3
    <3> QED
      BY <3>1, <3>2
  <2>6. \A k \in Stores : Numbers(t[k]) \cap Gone(t) = {}
    <3> TAKE k \in Stores
    <3>1. CASE k \in {"steer", "follow"}
      BY <2>3, <3>1
    <3>2. CASE k \notin {"steer", "follow"}
      <4>1. Numbers(s[k]) \cap Numbers(s.steer) = {} /\ Numbers(s[k]) \cap Numbers(s.follow) = {}
        BY <1>0, <2>4, <3>2
      <4> QED
        BY <2>2, <2>3, <2>4, <3>2, <4>1
    <3> QED
      BY <3>1, <3>2
  <2>7. \A k, j \in Stores : k # j => Numbers(t[k]) \cap Numbers(t[j]) = {}
    BY <2>3, <2>4
  <2>8. \A p \in t.preflight : p.n \notin Gone(t) \cup Waits(t)
    BY <2>2, <2>4, <2>5
  <2>9. 1..t.issued = Gone(t) \cup t.refused \cup Prompted(t) \cup Waits(t)
    BY <2>2, <2>4, <2>5 DEF Prompted
  <2> QED
    BY <2>3, <2>4, <2>6, <2>7, <2>8, <2>9 DEF Ledger
<1>6. UsersWaiting(t) = UsersWaiting(s) \ (OfUser(s.steer) \cup OfUser(s.follow))
  <2>1. t.pending = s.pending /\ OfUser(t.steer) = {} /\ OfUser(t.follow) = {}
    BY <1>0, NothingWaits
  <2>2. Numbers(s.pending) \cap Numbers(s.steer) = {} /\ Numbers(s.pending) \cap Numbers(s.follow) = {}
    BY <1>0 DEF Books, Ledger
  <2>3. /\ OfUser(s.steer) \subseteq Numbers(s.steer) /\ OfUser(s.follow) \subseteq Numbers(s.follow)
        /\ OfUser(s.pending) \subseteq Numbers(s.pending)
    BY <1>2, Numbered
  <2> QED
    BY <2>1, <2>2, <2>3 DEF UsersWaiting
<1> QED
  BY <1>3, <1>4, <1>5, <1>6 DEF Books, UsersHeard

\* The message of a prompt before those that waited for it.
LEMMA Prepended ==
  ASSUME NEW q \in Seq(MessagesSent), NEW m \in MessagesSent, Distinct(q), m.n \notin Numbers(q)
  PROVE  LET r == <<m>> \o q
         IN  /\ r \in Seq(MessagesSent) /\ r # <<>> /\ Distinct(r)
             /\ Numbers(r) = Numbers(q) \cup {m.n}
             /\ OfUser(r) = OfUser(q) \cup (IF m.role = "user" THEN {m.n} ELSE {})
<1> DEFINE one == <<m>>
           r == one \o q
<1>1. one \in Seq(MessagesSent) /\ Len(one) = 1 /\ one[1] = m
  OBVIOUS
<1> HIDE DEF one
<1>2. /\ r \in Seq(MessagesSent) /\ Len(r) = Len(one) + Len(q)
      /\ \A i \in 1..Len(one) : r[i] = one[i]
      /\ \A j \in 1..Len(q) : r[Len(one) + j] = q[j]
      /\ \A i \in 1..Len(r) : i \in 1..Len(one) \/ \E j \in 1..Len(q) : i = Len(one) + j
  BY <1>1, Joined
<1> HIDE DEF r
<1>3. /\ Len(r) = Len(q) + 1 /\ Len(q) \in Nat /\ r[1] = m /\ \A j \in 1..Len(q) : r[j + 1] = q[j]
      /\ \A i \in 1..Len(r) : i = 1 \/ \E j \in 1..Len(q) : i = j + 1
  <2>1. Len(q) \in Nat
    OBVIOUS
  <2>2. \A j \in 1..Len(q) : 1 + j = j + 1
    BY <2>1
  <2> QED
    BY <1>1, <1>2, <2>1, <2>2
<1>4. \A j \in 1..Len(q) : j + 1 \in 1..Len(r)
  BY <1>3
<1>5. 1 \in 1..Len(r) /\ DOMAIN r = 1..Len(r) /\ DOMAIN q = 1..Len(q)
  BY <1>2, <1>3
<1>6. Numbers(r) = Numbers(q) \cup {m.n}
  <2>1. ASSUME NEW n \in Numbers(r) PROVE n \in Numbers(q) \cup {m.n}
    <3>1. PICK i \in 1..Len(r) : r[i].n = n
      BY <1>2, <2>1, Numbered
    <3>2. ASSUME NEW j \in 1..Len(q), i = j + 1 PROVE n \in Numbers(q)
      <4>1. q[j].n = n
        BY <1>3, <3>1, <3>2
      <4> QED
        BY <4>1, Numbered
    <3>3. i = 1 => n = m.n
      BY <1>3, <3>1
    <3> QED
      BY <1>3, <3>2, <3>3
  <2>2. ASSUME NEW n \in Numbers(q) PROVE n \in Numbers(r)
    <3>1. PICK j \in 1..Len(q) : q[j].n = n
      BY <2>2, Numbered
    <3>2. j + 1 \in 1..Len(r) /\ r[j + 1].n = n
      BY <1>3, <1>4, <3>1
    <3> QED
      BY <1>2, <3>2, Numbered
  <2>3. m.n \in Numbers(r)
    BY <1>2, <1>3, <1>5, Numbered
  <2> QED
    BY <2>1, <2>2, <2>3
<1>7. OfUser(r) = OfUser(q) \cup (IF m.role = "user" THEN {m.n} ELSE {})
  <2>1. ASSUME NEW n \in OfUser(r) PROVE n \in OfUser(q) \cup (IF m.role = "user" THEN {m.n} ELSE {})
    <3>1. PICK i \in 1..Len(r) : r[i].n = n /\ r[i].role = "user"
      <4>1. r \in Seq(MessagesSent)
        BY <1>2
      <4>2. n \in OfUser(r)
        BY <2>1
      <4> QED
        BY <4>1, <4>2, Numbered
    <3>2. ASSUME NEW j \in 1..Len(q), i = j + 1 PROVE n \in OfUser(q)
      <4>1. q[j].n = n /\ q[j].role = "user"
        BY <1>3, <3>1, <3>2
      <4> QED
        BY <4>1, Numbered
    <3>3. i = 1 => n = m.n /\ m.role = "user"
      BY <1>3, <3>1
    <3> QED
      BY <1>3, <3>2, <3>3
  <2>2. ASSUME NEW n \in OfUser(q) PROVE n \in OfUser(r)
    <3>1. PICK j \in 1..Len(q) : q[j].n = n /\ q[j].role = "user"
      BY <2>2, Numbered
    <3>2. j + 1 \in 1..Len(r) /\ r[j + 1].n = n /\ r[j + 1].role = "user"
      BY <1>3, <1>4, <3>1
    <3> QED
      BY <1>2, <3>2, Numbered
  <2>3. m.role = "user" => m.n \in OfUser(r)
    BY <1>2, <1>3, <1>5, Numbered
  <2> QED
    BY <2>1, <2>2, <2>3
<1>8. Distinct(r)
  <2> SUFFICES ASSUME NEW i \in 1..Len(r), NEW k \in 1..Len(r), r[i].n = r[k].n PROVE i = k
    BY <1>5 DEF Distinct
  <2>1. \A j \in 1..Len(q) : q[j].n # m.n
    BY Numbered
  <2>2. \A j, l \in 1..Len(q) : q[j].n = q[l].n => j = l
    BY <1>5 DEF Distinct
  <2>3. ASSUME NEW j \in 1..Len(q), i = j + 1 PROVE i = k
    <3>1. r[i] = q[j]
      BY <1>3, <2>3
    <3>2. k # 1
      BY <1>3, <2>1, <3>1
    <3>3. PICK l \in 1..Len(q) : k = l + 1
      BY <1>3, <3>2
    <3>4. r[k] = q[l]
      BY <1>3, <3>3
    <3> QED
      BY <2>2, <2>3, <3>1, <3>3, <3>4
  <2>4. ASSUME i = 1, NEW l \in 1..Len(q), k = l + 1 PROVE FALSE
    <3>1. r[k] = q[l] /\ r[i] = m
      BY <1>3, <2>4
    <3> QED
      BY <2>1, <3>1
  <2> QED
    BY <1>3, <2>3, <2>4
<1>9. r # <<>>
  BY <1>2, <1>3
<1> QED
  BY <1>2, <1>6, <1>7, <1>8, <1>9 DEF r, one

-----------------------------------------------------------------------------
(* What the helpers change.                                                *)

\* Nothing but these fields of the host changes.
Only(s, t, F) == DOMAIN t = DOMAIN NewHost /\ \A x \in DOMAIN NewHost \ F : t[x] = s[x]

\* The user's messages are where they were.
Same(s, t) == UsersHeard(t) = UsersHeard(s) /\ UsersWaiting(t) = UsersWaiting(s)

Spoken == {"transcript", "path", "streak"}

\* Fields of which the books say nothing.
Silent == DOMAIN NewHost \ (Stores \cup {"transcript", "path", "issued", "preflight", "cleared", "refused"})

\* Which fields the books do not speak of.
LEMMA SilentFields ==
  /\ Stores \subseteq DOMAIN NewHost
  /\ {"transcript", "path", "issued", "preflight", "cleared", "refused"} \subseteq DOMAIN NewHost
  /\ {"at", "skip", "aborted", "active", "retry", "recovered", "last", "calls", "done", "more",
      "summaries", "compactions", "aborts", "streak", "shownSteer", "shownFollow",
      "toolTurns", "failing"} \subseteq Silent
BY DEF Silent, Stores, NewHost

\* The books stay as they are.
LEMMA BooksKept ==
  ASSUME NEW s, Books(s), NEW t, NEW F, F \subseteq Silent, Only(s, t, F)
  PROVE  Books(t) /\ Same(s, t)
<1>1. DOMAIN t = DOMAIN NewHost
  BY DEF Only
<1>2. SameLists(s, t) /\ t.path = s.path /\ t.transcript = s.transcript /\ t.cleared = s.cleared
      /\ t.preflight = s.preflight /\ t.issued = s.issued /\ t.refused = s.refused
  BY SilentFields DEF Only, Silent, SameLists
<1>3. /\ \A p \in t.preflight : p.n \notin Gone(s) \cup Waits(s)
      /\ 1..t.issued = Gone(s) \cup t.refused \cup Prompted(t) \cup Waits(s)
  BY <1>2 DEF Books, Ledger, Prompted
<1> QED
  BY <1>1, <1>2, <1>3, DeskChanges DEF Same

\* Deferred messages are written down.
LEMMA Deferred ==
  ASSUME NEW s, Books(s), NEW t, NEW l \in {"custom", "bash"}, Only(s, t, Spoken \cup {l}), t[l] = <<>>,
         t.path = s.path \o EntriesOf(Len(s.path), s[l]), t.transcript = s.transcript \o s[l]
  PROVE  Books(t) /\ Same(s, t) /\ (s.transcript # <<>> => t.transcript # <<>>)
<1>1. /\ DOMAIN t = DOMAIN NewHost /\ SameDesk(s, t) /\ l \in Stores
      /\ \A k \in Stores \ {l} : t[k] = s[k]
  BY SilentFields DEF Only, Spoken, SameDesk, Stores
<1>2. Books(t) /\ UsersHeard(t) = UsersHeard(s) \cup OfUser(s[l])
      /\ (s.transcript # <<>> \/ s[l] # <<>> => t.transcript # <<>>)
  BY <1>1, Enters
<1>3. OfUser(s[l]) = {}
  <2>1. s[l] \in Seq(MessagesSent) /\ \A i \in 1..Len(s[l]) : s[l][i].role # "user"
    BY <1>1 DEF Books, Lists
  <2> QED
    BY <2>1, Numbered
<1>4. UsersWaiting(t) = UsersWaiting(s)
  BY <1>1 DEF UsersWaiting, Stores
<1> QED
  BY <1>2, <1>3, <1>4 DEF Same

\* _flushPendingCustomMessages: what waited is recorded.
LEMMA CustomFlushed ==
  ASSUME NEW s, Books(s)
  PROVE  LET t == FlushCustom(s)
         IN  /\ Books(t) /\ Same(s, t) /\ Only(s, t, Spoken \cup {"custom"}) /\ t.custom = <<>>
             /\ s.transcript # <<>> => t.transcript # <<>>
<1> DEFINE t == FlushCustom(s)
<1>1. DOMAIN s = DOMAIN NewHost
  BY DEF Books
<1>2. /\ Only(s, t, Spoken \cup {"custom"}) /\ t.custom = <<>>
      /\ t.path = s.path \o [i \in DOMAIN s.custom |-> Entry(Len(s.path) + i, s.custom[i], 0, {})]
      /\ t.transcript = s.transcript \o s.custom
  BY <1>1 DEF NewHost, RecordAll, FlushCustom, Only, Spoken
<1>3. t["custom"] = <<>> /\ t.path = s.path \o EntriesOf(Len(s.path), s["custom"])
      /\ t.transcript = s.transcript \o s["custom"]
  BY <1>2 DEF EntriesOf
<1> HIDE DEF t
<1>4. Books(t) /\ Same(s, t) /\ (s.transcript # <<>> => t.transcript # <<>>)
  BY <1>2, <1>3, Deferred
<1> QED
  BY <1>2, <1>4 DEF t

\* _flushPendingBashMessages: what waited is recorded.
LEMMA BashFlushed ==
  ASSUME NEW s, Books(s)
  PROVE  LET t == FlushBash(s)
         IN  /\ Books(t) /\ Same(s, t) /\ Only(s, t, Spoken \cup {"bash"}) /\ t.bash = <<>>
             /\ s.transcript # <<>> => t.transcript # <<>>
<1> DEFINE t == FlushBash(s)
<1>1. DOMAIN s = DOMAIN NewHost
  BY DEF Books
<1>2. /\ Only(s, t, Spoken \cup {"bash"}) /\ t.bash = <<>>
      /\ t.path = s.path \o [i \in DOMAIN s.bash |-> Entry(Len(s.path) + i, s.bash[i], 0, {})]
      /\ t.transcript = s.transcript \o s.bash
  BY <1>1 DEF NewHost, RecordAll, FlushBash, Only, Spoken
<1>3. t["bash"] = <<>> /\ t.path = s.path \o EntriesOf(Len(s.path), s["bash"])
      /\ t.transcript = s.transcript \o s["bash"]
  BY <1>2 DEF EntriesOf
<1> HIDE DEF t
<1>4. Books(t) /\ Same(s, t) /\ (s.transcript # <<>> => t.transcript # <<>>)
  BY <1>2, <1>3, Deferred
<1> QED
  BY <1>2, <1>4 DEF t

\* Both, as at the end of a prompt.
LEMMA BothFlushed ==
  ASSUME NEW s, Books(s)
  PROVE  LET t == FlushCustom(FlushBash(s))
         IN  /\ Books(t) /\ Same(s, t) /\ Only(s, t, Spoken \cup {"custom", "bash"})
             /\ t.custom = <<>> /\ t.bash = <<>>
             /\ s.transcript # <<>> => t.transcript # <<>>
<1> DEFINE u == FlushBash(s)
           t == FlushCustom(u)
<1>1. /\ Books(u) /\ Same(s, u) /\ Only(s, u, Spoken \cup {"bash"}) /\ u.bash = <<>>
      /\ s.transcript # <<>> => u.transcript # <<>>
  BY BashFlushed
<1> HIDE DEF u
<1>2. /\ Books(t) /\ Same(u, t) /\ Only(u, t, Spoken \cup {"custom"}) /\ t.custom = <<>>
      /\ u.transcript # <<>> => t.transcript # <<>>
  BY <1>1, CustomFlushed
<1> HIDE DEF t
<1>3. Only(s, t, Spoken \cup {"custom", "bash"}) /\ t.bash = u.bash
  BY <1>1, <1>2, SilentFields DEF Only, Spoken, Stores
<1> QED
  BY <1>1, <1>2, <1>3 DEF Same, t, u

\* The last response is dropped; what came before it stays.
LEMMA ResponseDropped ==
  ASSUME NEW s, Books(s)
  PROVE  LET t == DropLastResponse(s)
         IN  /\ Books(t) /\ Same(s, t) /\ Only(s, t, {"transcript"})
             /\ s.transcript # <<>> => t.transcript # <<>>
<1>1. DOMAIN s = DOMAIN NewHost /\ s.transcript \in Seq(AnyMessage) /\ Opens(s.transcript)
  BY DEF Books, Logs
<1>2. CASE s.transcript # <<>> /\ Last(s.transcript).role = "assistant"
  <2> DEFINE t == [s EXCEPT !.transcript = Front(@)]
             f == Front(s.transcript)
             n == Len(s.transcript)
  <2>1. DropLastResponse(s) = t
    BY <1>2 DEF DropLastResponse
  <2>2. Only(s, t, {"transcript"}) /\ t.transcript = f
    BY <1>1 DEF NewHost, Only
  <2>3. n \in Nat /\ n >= 1
    BY <1>1, <1>2
  <2>4. s.transcript[n].role = "assistant" /\ s.transcript[1].role # "assistant"
    BY <1>1, <1>2 DEF Last, Opens
  <2>5. n >= 2
    BY <2>3, <2>4
  <2>6. f \in Seq(AnyMessage) /\ f # <<>> /\ f[1] = s.transcript[1]
    <3>1. f = SubSeq(s.transcript, 1, n - 1)
      BY DEF Front
    <3>2. n - 1 \in 1..n /\ n - 1 >= 1
      BY <2>3, <2>5
    <3>3. f \in Seq(AnyMessage) /\ Len(f) = n - 1
      BY <1>1, <3>1, <3>2
    <3>4. f[1] = s.transcript[1]
      BY <1>1, <3>1, <3>2
    <3> QED
      BY <3>2, <3>3, <3>4
  <2> HIDE DEF t, f, n
  <2>7. /\ DOMAIN t = DOMAIN NewHost /\ SameLists(s, t) /\ SameDesk(s, t) /\ t.path = s.path
        /\ t.transcript \in Seq(AnyMessage) /\ Opens(t.transcript)
    <3>1. /\ DOMAIN t = DOMAIN NewHost /\ SameLists(s, t) /\ SameDesk(s, t) /\ t.path = s.path
      BY <2>2, SilentFields DEF Only, SameLists, SameDesk, Stores
    <3>2. t.transcript \in Seq(AnyMessage) /\ Opens(t.transcript)
      BY <2>2, <2>4, <2>6 DEF Opens
    <3> QED
      BY <3>1, <3>2
  <2>8. Books(t) /\ UsersHeard(t) = UsersHeard(s) /\ UsersWaiting(t) = UsersWaiting(s)
    <3>1. t.path \in Seq(Entries) /\ Numbering(t.path) /\ Once(t.path)
      BY <2>7 DEF Books, Logs, Ledger
    <3> QED
      BY <2>7, <3>1, LogsChange
  <2> QED
    BY <2>1, <2>2, <2>6, <2>8 DEF Same
<1>3. CASE ~(s.transcript # <<>> /\ Last(s.transcript).role = "assistant")
  <2>1. DropLastResponse(s) = s
    BY <1>3 DEF DropLastResponse
  <2> QED
    BY <1>1, <2>1 DEF Only, Same
<1> QED
  BY <1>2, <1>3

-----------------------------------------------------------------------------
(* Responses, results and summaries.                                       *)

\* Lists and prompts stay as they are.
LEMMA Unmoved ==
  ASSUME NEW s, NEW t, NEW F, F \subseteq Silent \cup {"transcript", "path"}, Only(s, t, F)
  PROVE  DOMAIN t = DOMAIN NewHost /\ SameLists(s, t) /\ SameDesk(s, t)
<1>1. Stores \cap F = {} /\ {"issued", "preflight", "cleared", "refused"} \cap F = {}
  BY DEF Silent, Stores
<1> QED
  BY <1>1, SilentFields DEF Only, SameLists, SameDesk

\* The agent adds a response or a result to what it has.
LEMMA Made ==
  ASSUME NEW s, Books(s), s.transcript # <<>>,
         NEW m \in AnyMessage, m.role \in {"assistant", "result"},
         NEW t, NEW F, F \subseteq Silent \cup {"transcript", "path"}, Only(s, t, F),
         t.transcript = Append(s.transcript, m),
         t.path = Append(s.path, Entry(Len(s.path) + 1, m, 0, {}))
  PROVE  Books(t) /\ Same(s, t) /\ t.transcript # <<>>
<1> DEFINE e == Entry(Len(s.path) + 1, m, 0, {})
<1>1. s.path \in Seq(Entries) /\ s.transcript \in Seq(AnyMessage) /\ Opens(s.transcript)
      /\ Numbering(s.path) /\ Once(s.path)
  BY DEF Books, Logs, Ledger
<1>2. e \in Entries /\ e.id = Len(s.path) + 1 /\ e.msg = m
  <2>1. Len(s.path) + 1 \in Nat
    BY <1>1
  <2> QED
    BY <2>1 DEF Entry, Entries
<1> HIDE DEF e
<1>3. t.path = Append(s.path, e)
  BY DEF e
<1>4. m.role \notin Sorts /\ m.role # "user"
  BY SortsAssumption
<1>5. /\ t.path \in Seq(Entries) /\ Numbering(t.path) /\ Once(t.path)
      /\ OnPath(t.path, Sorts) = OnPath(s.path, Sorts)
      /\ OnPath(t.path, {"user"}) = OnPath(s.path, {"user"})
  <2>1. LET r == Append(s.path, e)
        IN  /\ r \in Seq(Entries)
            /\ \A roles : OnPath(r, roles) =
                 OnPath(s.path, roles) \cup (IF e.msg.role \in roles THEN {e.msg.n} ELSE {})
            /\ Once(r) /\ Numbering(r)
    BY <1>1, <1>2, <1>4, PathAppended
  <2>2. t.path \in Seq(Entries) /\ Numbering(t.path) /\ Once(t.path)
    BY <1>3, <2>1
  <2>3. ASSUME NEW roles, m.role \notin roles PROVE OnPath(t.path, roles) = OnPath(s.path, roles)
    <3>1. OnPath(t.path, roles) = OnPath(s.path, roles) \cup (IF e.msg.role \in roles THEN {e.msg.n} ELSE {})
      BY <1>3, <2>1
    <3>2. e.msg.role \notin roles
      BY <1>2, <2>3
    <3> QED
      BY <3>1, <3>2
  <2>4. m.role \notin {"user"}
    BY <1>4
  <2> QED
    BY <1>4, <2>2, <2>3, <2>4
<1>6. t.transcript \in Seq(AnyMessage) /\ Opens(t.transcript) /\ t.transcript # <<>>
  <2>1. t.transcript \in Seq(AnyMessage) /\ t.transcript[1] = s.transcript[1] /\ t.transcript # <<>>
    BY <1>1
  <2> QED
    BY <1>1, <2>1 DEF Opens
<1>7. DOMAIN t = DOMAIN NewHost /\ SameLists(s, t) /\ SameDesk(s, t)
  BY Unmoved
<1> QED
  BY <1>5, <1>6, <1>7, LogsChange DEF Same

\* Results that nobody computed.
LEMMA MadeUp ==
  ASSUME NEW s, Books(s), s.transcript # <<>>, NEW n \in 0..MaxCalls
  PROVE  LET t == RecordAll(s, [i \in 1..n |-> ResultOf(i)])
         IN  Books(t) /\ Same(s, t) /\ Only(s, t, Spoken) /\ t.transcript # <<>>
<1> DEFINE msgs == [i \in 1..n |-> ResultOf(i)]
           q == EntriesOf(Len(s.path), msgs)
           t == RecordAll(s, msgs)
<1>1. n \in Nat /\ 1..n \subseteq 1..MaxCalls
  BY BoundsAssumption
<1>2. msgs \in Seq(AnyMessage) /\ \A i \in DOMAIN msgs : msgs[i].role \in {"assistant", "result", "summary"}
  <2>1. \A i \in 1..n : ResultOf(i) \in AnyMessage /\ ResultOf(i).role = "result"
    BY <1>1, Kinds
  <2>2. msgs \in [1..n -> AnyMessage]
    BY <2>1
  <2> QED
    BY <1>1, <2>1, <2>2
<1> HIDE DEF msgs
<1>3. /\ Only(s, t, Spoken)
      /\ t.path = s.path \o [i \in DOMAIN msgs |-> Entry(Len(s.path) + i, msgs[i], 0, {})]
      /\ t.transcript = s.transcript \o msgs
  BY DEF NewHost, RecordAll, Only, Spoken, Books
<1>4. t.path = s.path \o q
  BY <1>3 DEF EntriesOf
<1>5. s.path \in Seq(Entries) /\ s.transcript \in Seq(AnyMessage) /\ Opens(s.transcript)
      /\ Numbering(s.path) /\ Once(s.path) /\ Len(s.path) \in Nat
  BY DEF Books, Logs, Ledger
<1>6. /\ q \in Seq(Entries) /\ \A j \in 1..Len(q) : q[j].id = Len(s.path) + j
      /\ OnPath(q, Sorts) = {} /\ OnPath(q, {"user"}) = {} /\ Once(q)
  BY <1>2, <1>5, EntriesRecorded, MadeNumbers
<1> HIDE DEF q, t
<1>7. /\ t.path \in Seq(Entries) /\ Numbering(t.path) /\ Once(t.path)
      /\ OnPath(t.path, Sorts) = OnPath(s.path, Sorts)
      /\ OnPath(t.path, {"user"}) = OnPath(s.path, {"user"})
  <2>1. LET r == s.path \o q
        IN  /\ r \in Seq(Entries)
            /\ \A roles : OnPath(r, roles) = OnPath(s.path, roles) \cup OnPath(q, roles)
            /\ Once(r) /\ Numbering(r)
    BY <1>5, <1>6, PathExtended
  <2> QED
    BY <1>4, <1>6, <2>1
<1>8. t.transcript \in Seq(AnyMessage) /\ Opens(t.transcript) /\ t.transcript # <<>>
  BY <1>2, <1>3, <1>5, TranscriptJoined
<1>9. DOMAIN t = DOMAIN NewHost /\ SameLists(s, t) /\ SameDesk(s, t)
  BY <1>3, Unmoved, SilentFields DEF Spoken
<1> QED
  BY <1>3, <1>7, <1>8, <1>9, LogsChange DEF Same, t, msgs

\* Behind a new summary the context begins with it.
LEMMA ContextOfSummary ==
  ASSUME NEW path \in Seq(Entries), NEW e \in Entries, e.msg = Summary
  PROVE  LET msgs == Messages(Append(path, e))
         IN  msgs \in Seq(AnyMessage) /\ msgs # <<>> /\ msgs[1] = Summary
<1> DEFINE r == Append(path, e)
           c == Len(path) + 1
           A == {0} \cup {i \in DOMAIN r : IsCompaction(r[i])}
<1>1. /\ r \in Seq(Entries) /\ Len(r) = c /\ r[c] = e /\ DOMAIN r = 1..c
      /\ c \in Nat /\ c >= 1
  OBVIOUS
<1> HIDE DEF r
<1>2. LatestCompaction(r) = c
  <2>1. c \in A /\ A \subseteq 0..c
    BY <1>1 DEF IsCompaction, Summary, Message
  <2> HIDE DEF A, c
  <2>2. Max(A) \in A /\ \A y \in A : y <= Max(A)
    BY <1>1, <2>1, Greatest
  <2>3. Max(A) \in 0..c /\ c <= Max(A)
    BY <2>1, <2>2
  <2>4. Max(A) = c
    BY <1>1, <2>3
  <2> QED
    BY <2>4 DEF LatestCompaction, A
<1> HIDE DEF A, c
<1> DEFINE before == SubSeq(r, 1, c - 1)
           kept   == PositionOf(before, r[c].kept)
           one    == <<r[c]>>
           X      == IF kept = 0 THEN <<>> ELSE SubSeq(r, kept, c - 1)
           Y      == SubSeq(r, c + 1, Len(r))
           all    == ContextEntries(r)
<1>3. all = one \o X \o Y
  <2>1. c # 0
    BY <1>1
  <2> QED
    BY <1>2, <2>1 DEF ContextEntries
<1>4. before \in Seq(Entries) /\ Len(before) = c - 1
  BY <1>1
<1>5. kept \in 0..(c - 1)
  <2>1. kept \in 0..Len(before)
    BY <1>4, Positions
  <2> QED
    BY <1>4, <2>1
<1>6. X \in Seq(Entries)
  <2> HIDE DEF kept
  <2>1. CASE kept = 0
    BY <2>1
  <2>2. CASE kept # 0
    <3>1. \A i \in kept..(c - 1) : i \in 1..Len(r)
      BY <1>1, <1>5, <2>2
    <3>2. SubSeq(r, kept, c - 1) \in Seq(Entries)
      BY <1>1, <1>5, <2>2, <3>1
    <3> QED
      BY <2>2, <3>2
  <2> QED
    BY <2>1, <2>2
<1>7. Y \in Seq(Entries)
  <2>1. Y = <<>>
    <3>1. Len(r) = c /\ c + 1 > c
      BY <1>1
    <3> QED
      BY <1>1, <3>1
  <2>2. <<>> \in Seq(Entries)
    OBVIOUS
  <2> HIDE DEF Y
  <2> QED
    BY <2>1, <2>2
<1>8. one \in Seq(Entries) /\ Len(one) = 1 /\ one[1] = e
  BY <1>1
<1> HIDE DEF X, Y, one, all
<1>9. all \in Seq(Entries) /\ all[1] = e /\ Len(all) >= 1
  <2> DEFINE front == one \o X
  <2>1. Len(X) \in Nat /\ Len(Y) \in Nat /\ 1 \in 1..Len(one)
    BY <1>6, <1>7, <1>8
  <2>2. front \in Seq(Entries) /\ Len(front) = 1 + Len(X) /\ front[1] = e
    <3>1. /\ front \in Seq(Entries) /\ Len(front) = Len(one) + Len(X)
          /\ \A i \in 1..Len(one) : front[i] = one[i]
      BY <1>6, <1>8, Joined
    <3> HIDE DEF front
    <3> QED
      BY <1>8, <2>1, <3>1
  <2> HIDE DEF front
  <2>3. all = front \o Y /\ 1 \in 1..Len(front)
    BY <1>3, <2>1, <2>2 DEF front
  <2>4. all \in Seq(Entries) /\ Len(all) = Len(front) + Len(Y) /\ all[1] = front[1]
    <3>1. /\ front \o Y \in Seq(Entries) /\ Len(front \o Y) = Len(front) + Len(Y)
          /\ \A i \in 1..Len(front) : (front \o Y)[i] = front[i]
      <4>1. front \in Seq(Entries) /\ Y \in Seq(Entries)
        BY <1>7, <2>2
      <4> QED
        BY <4>1, Joined
    <3> QED
      BY <2>3, <3>1
  <2> QED
    BY <2>1, <2>2, <2>4
<1> DEFINE P == {i \in DOMAIN all : IsVisible(all[i])}
           shown == Selected(all, P)
<1>10. shown \in Seq(Entries) /\ \E h : Stands(h, all, P, shown)
  BY <1>9, SelectedPlaces
<1>11. 1 \in P /\ 1 \in 1..Len(all)
  BY <1>9 DEF IsVisible, Summary, Message
<1> HIDE DEF P
<1>12. shown # <<>> /\ shown[1] = e /\ 1 \in 1..Len(shown)
  <2>1. PICK h : Stands(h, all, P, shown)
    BY <1>10
  <2> HIDE DEF shown
  <2>2. PICK i \in 1..Len(shown) : h[i] = 1
    BY <1>11, <2>1 DEF Stands
  <2>3. Len(shown) \in Nat /\ 1 \in 1..Len(shown)
    BY <1>10, <2>2
  <2>4. h[1] = 1
    <3>1. h[1] \in 1..Len(all) /\ h[i] \in 1..Len(all) /\ Len(all) \in Nat
      BY <1>9, <2>1, <2>3 DEF Stands
    <3>2. 1 < i => h[1] < h[i]
      BY <2>1, <2>3 DEF Stands
    <3>3. i = 1 \/ 1 < i
      BY <2>3
    <3>4. CASE i = 1
      BY <2>2, <3>4
    <3>5. CASE 1 < i
      BY <2>2, <3>1, <3>2, <3>5
    <3> QED
      BY <3>3, <3>4, <3>5
  <2>5. shown[1] = all[1]
    BY <2>1, <2>3, <2>4 DEF Stands
  <2> QED
    BY <1>9, <2>3, <2>5
<1>13. Messages(r) = [i \in DOMAIN shown |-> shown[i].msg]
  BY DEF Messages, P, all
<1> HIDE DEF shown
<1>14. /\ Messages(r) \in Seq(AnyMessage) /\ Messages(r)[1] = Summary
       /\ Len(Messages(r)) = Len(shown) /\ Len(shown) >= 1
  <2>1. DOMAIN shown = 1..Len(shown) /\ Len(shown) \in Nat /\ \A i \in 1..Len(shown) : shown[i] \in Entries
    BY <1>10
  <2>4. \A i \in 1..Len(shown) : shown[i].msg \in AnyMessage
    BY <2>1 DEF Entries
  <2>2. Messages(r) \in [1..Len(shown) -> AnyMessage]
    BY <1>13, <2>1, <2>4
  <2>3. Messages(r)[1] = shown[1].msg
    BY <1>12, <1>13, <2>1
  <2> QED
    BY <1>12, <2>1, <2>2, <2>3
<1>15. Messages(r) # <<>>
  BY <1>14
<1> QED
  BY <1>14, <1>15 DEF r

\* A summary is recorded, and the transcript is what the session shows from now on.
LEMMA SummaryRecorded ==
  ASSUME NEW s, Books(s), s.summaries \subseteq Summaries, NEW c \in s.summaries
  PROVE  LET t == Compacted(s, c)
         IN  /\ Books(t) /\ Same(s, t) /\ Only(s, t, {"summaries", "path", "transcript"})
             /\ t.transcript # <<>> /\ t.summaries = s.summaries \ {c}
<1> DEFINE e == Entry(Len(s.path) + 1, Summary, c.prep.kept, c.prep.covers)
           t == Compacted(s, c)
<1>1. s.path \in Seq(Entries) /\ Numbering(s.path) /\ Once(s.path) /\ DOMAIN s = DOMAIN NewHost
  BY DEF Books, Logs, Ledger
<1>2. /\ Only(s, t, {"summaries", "path", "transcript"}) /\ t.summaries = s.summaries \ {c}
      /\ t.path = Append(s.path, e) /\ t.transcript = Messages(Append(s.path, e))
  BY <1>1 DEF NewHost, Compacted, Only
<1>3. e \in Entries /\ e.id = Len(s.path) + 1 /\ e.msg = Summary
  <2>1. Len(s.path) + 1 \in Nat
    BY <1>1
  <2>2. c.prep.kept \in Nat /\ c.prep.covers \in SUBSET Nat
    BY DEF Summaries, Plans
  <2> QED
    BY <2>1, <2>2, Kinds DEF Entry, Entries
<1> HIDE DEF e, t
<1>4. Summary.role \notin Sorts /\ Summary.role \notin {"user"}
  BY Kinds
<1>5. /\ t.path \in Seq(Entries) /\ Numbering(t.path) /\ Once(t.path)
      /\ \A roles : Summary.role \notin roles => OnPath(t.path, roles) = OnPath(s.path, roles)
  <2>1. LET r == Append(s.path, e)
        IN  /\ r \in Seq(Entries)
            /\ \A roles : OnPath(r, roles) =
                 OnPath(s.path, roles) \cup (IF e.msg.role \in roles THEN {e.msg.n} ELSE {})
            /\ Once(r) /\ Numbering(r)
    BY <1>1, <1>3, <1>4, PathAppended
  <2>2. t.path \in Seq(Entries) /\ Numbering(t.path) /\ Once(t.path)
    BY <1>2, <2>1
  <2>3. \A roles : Summary.role \notin roles => OnPath(t.path, roles) = OnPath(s.path, roles)
    BY <1>2, <1>3, <2>1
  <2> QED
    BY <2>2, <2>3
<1>6. t.transcript \in Seq(AnyMessage) /\ Opens(t.transcript) /\ t.transcript # <<>>
  <2>1. t.transcript \in Seq(AnyMessage) /\ t.transcript # <<>> /\ t.transcript[1] = Summary
    BY <1>1, <1>2, <1>3, ContextOfSummary
  <2> QED
    BY <2>1, Kinds DEF Opens
<1>7. DOMAIN t = DOMAIN NewHost /\ SameLists(s, t) /\ SameDesk(s, t)
  BY <1>2, Unmoved, SilentFields
<1>8. Books(t) /\ Same(s, t)
  BY <1>4, <1>5, <1>6, <1>7, LogsChange DEF Same
<1> QED
  BY <1>2, <1>6, <1>8 DEF t

\* A failed response that came back with a summary is taken off the transcript.
LEMMA FailedResponseDropped ==
  ASSUME NEW s, Books(s)
  PROVE  LET t == DropFailedResponse(s)
         IN  /\ Books(t) /\ Same(s, t) /\ Only(s, t, {"transcript"})
             /\ s.transcript # <<>> => t.transcript # <<>>
<1>1. DropFailedResponse(s) = s \/ DropFailedResponse(s) = DropLastResponse(s)
  BY DEF DropFailedResponse
<1>2. Only(s, s, {"transcript"}) /\ Same(s, s)
  BY DEF Only, Same, Books
<1> QED
  BY <1>1, <1>2, ResponseDropped

\* The messages that were taken for the next turn start.
LEMMA Said ==
  ASSUME NEW s, Books(s), NEW x, NEW F, F \subseteq Silent, Only(s, x, F \cup {"pending"}), x.pending = <<>>
  PROVE  LET t == SayAll(x, s.pending)
         IN  /\ Books(t) /\ Hears(s, t)
             /\ UsersHeard(t) = UsersHeard(s) \cup OfUser(s.pending)
             /\ Only(x, t, Spoken \cup {"shownSteer", "shownFollow", "recovered"})
             /\ s.transcript # <<>> \/ s.pending # <<>> => t.transcript # <<>>
<1> DEFINE t == SayAll(x, s.pending)
<1>1. /\ Only(x, t, Spoken \cup {"shownSteer", "shownFollow", "recovered"})
      /\ t.transcript = x.transcript \o s.pending
      /\ t.path = x.path \o [i \in DOMAIN s.pending |-> Entry(Len(x.path) + i, s.pending[i], 0, {})]
  BY DEF NewHost, SayAll, RecordAll, TakeOffLists, Only, Spoken
<1> HIDE DEF t
<1>2. "pending" \in Stores /\ "pending" \notin F /\ (Stores \cup {"transcript", "path", "issued",
         "preflight", "cleared", "refused"}) \cap F = {}
  BY DEF Stores, Silent
<1>3. /\ DOMAIN t = DOMAIN NewHost /\ SameDesk(s, t)
      /\ t["pending"] = <<>> /\ \A k \in Stores \ {"pending"} : t[k] = s[k]
      /\ x.path = s.path /\ x.transcript = s.transcript
  BY <1>1, <1>2, SilentFields DEF Only, SameDesk, Spoken, Stores
<1>4. /\ t.path = s.path \o EntriesOf(Len(s.path), s["pending"])
      /\ t.transcript = s.transcript \o s["pending"]
  BY <1>1, <1>3 DEF EntriesOf
<1>5. /\ Books(t) /\ UsersHeard(t) = UsersHeard(s) \cup OfUser(s.pending)
      /\ s.transcript # <<>> \/ s.pending # <<>> => t.transcript # <<>>
  BY <1>2, <1>3, <1>4, Enters
<1>6. UsersWaiting(t) = UsersWaiting(s) \ OfUser(s.pending)
  <2>1. t.pending = <<>> /\ t.steer = s.steer /\ t.follow = s.follow /\ OfUser(<<>>) = {}
    BY <1>3, NothingWaits DEF Stores
  <2>2. Numbers(s.pending) \cap Numbers(s.steer) = {} /\ Numbers(s.pending) \cap Numbers(s.follow) = {}
    BY DEF Books, Ledger, Stores
  <2>3. s.pending \in Seq(MessagesSent) /\ s.steer \in Seq(MessagesSent) /\ s.follow \in Seq(MessagesSent)
    BY DEF Books, Lists, Stores
  <2>4. /\ OfUser(s.pending) \subseteq Numbers(s.pending) /\ OfUser(s.steer) \subseteq Numbers(s.steer)
        /\ OfUser(s.follow) \subseteq Numbers(s.follow)
    BY <2>3, Numbered
  <2> QED
    BY <2>1, <2>2, <2>4 DEF UsersWaiting
<1>7. Hears(s, t)
  <2>1. OfUser(s.pending) \in SUBSET UsersWaiting(s)
    BY DEF UsersWaiting
  <2> QED
    BY <1>5, <1>6, <2>1 DEF Hears
<1> QED
  BY <1>1, <1>5, <1>7 DEF t

-----------------------------------------------------------------------------
(* Between two runs of a prompt.                                           *)

Between(s) ==
  /\ Books(s) /\ Fields(s) /\ Orderly(s)
  /\ s.active = TRUE /\ s.pending = <<>> /\ s.more = FALSE /\ s.transcript # <<>>
  /\ \A c \in s.summaries : c.why # "runEnd"

\* What a step of the host may do to the messages: they are heard, or the session
\* settles without one that waits; a follow-up comes last.
Goes(s, t) ==
  /\ t.cleared = s.cleared
  /\ t.follow = s.follow \/ (t.steer = <<>> /\ ~t.more)
  /\ (t.active /\ Hears(s, t)) \/ (~t.active /\ Same(s, t) /\ UsersWaiting(s) = {})

\* A step that moves no message may come before.
LEMMA GoesOn ==
  ASSUME NEW r, NEW s, NEW t, Same(r, s), r.follow = s.follow, r.cleared = s.cleared, Goes(s, t)
  PROVE  Goes(r, t)
BY DEF Goes, Same, Hears

\* Nothing but fields of no consequence changes between two runs.
LEMMA StaysBetween ==
  ASSUME NEW s, Between(s), NEW t, Only(s, t, {"retry", "recovered", "at", "transcript", "last", "aborts", "streak"}),
         Books(t), t.retry \in 0..MaxRetries, t.at \in Places, t.transcript # <<>>, t.last = {} \/ t.last = s.last
  PROVE  Between(t)
<1>1. /\ t.calls = s.calls /\ t.done = s.done /\ t.preflight = s.preflight /\ t.summaries = s.summaries
      /\ t.issued = s.issued /\ t.cleared = s.cleared /\ t.refused = s.refused
      /\ t.active = s.active /\ t.pending = s.pending /\ t.more = s.more
  BY DEF Only, NewHost
<1>2. Fields(t)
  BY <1>1 DEF Between, Fields
<1>3. Orderly(t)
  BY <1>1 DEF Between, Orderly
<1> QED
  BY <1>1, <1>2, <1>3 DEF Between

\* The prompt is over.
LEMMA Settles ==
  ASSUME NEW s, Between(s), UsersWaiting(s) = {}, s.at \notin Running
  PROVE  Sound(Settle(s)) /\ Goes(s, Settle(s))
<1> DEFINE u == FlushCustom(FlushBash(s))
           t == Settle(s)
<1>1. /\ Books(u) /\ Same(s, u) /\ Only(s, u, Spoken \cup {"custom", "bash"})
      /\ u.custom = <<>> /\ u.bash = <<>> /\ u.transcript # <<>>
  BY BothFlushed DEF Between
<1>2. t = [u EXCEPT !.active = FALSE, !.at = "idle"]
  BY DEF Settle
<1> HIDE DEF u, t
<1>3. Only(u, t, {"active", "at"}) /\ t.active = FALSE /\ t.at = "idle"
  BY <1>1, <1>2 DEF Only, NewHost, Books
<1>4. Books(t) /\ Same(u, t)
  BY <1>1, <1>3, BooksKept, SilentFields
<1>5. /\ t.calls = s.calls /\ t.done = s.done /\ t.preflight = s.preflight /\ t.summaries = s.summaries
      /\ t.issued = s.issued /\ t.cleared = s.cleared /\ t.refused = s.refused /\ t.last = s.last
      /\ t.pending = s.pending /\ t.more = s.more /\ t.custom = <<>> /\ t.bash = <<>> /\ t.retry = s.retry
      /\ t.follow = s.follow
  BY <1>1, <1>3 DEF Only, NewHost, Spoken
<1>6. Fields(t)
  BY <1>3, <1>5 DEF Between, Fields, Places
<1>7. Orderly(t)
  BY <1>3, <1>5 DEF Between, Orderly
<1>8. Phase(t)
  BY <1>3, <1>5 DEF Between, Phase
<1>9. Goes(s, t)
  BY <1>1, <1>3, <1>4, <1>5 DEF Goes, Same
<1> QED
  BY <1>4, <1>6, <1>7, <1>8, <1>9 DEF Sound, t

\* The next run begins, with what was drained of a queue or with nothing.
LEMMA Begins ==
  ASSUME NEW s, Between(s), NEW v, Only(s, v, {"steer", "follow", "pending"}), Books(v), Same(s, v),
         v.follow = s.follow \/ v.steer = <<>>, NEW skip
  PROVE  Sound(BeginRun(v, v.pending, skip)) /\ Goes(s, BeginRun(v, v.pending, skip))
<1> DEFINE x == [v EXCEPT !.at = "begun", !.skip = skip, !.aborted = FALSE, !.pending = <<>>]
           t == BeginRun(v, v.pending, skip)
           F == {"at", "skip", "aborted"}
<1>1. Only(v, x, F \cup {"pending"}) /\ x.pending = <<>> /\ x.at = "begun"
  BY DEF Only, NewHost, Books
<1>2. t = SayAll(x, v.pending)
  BY DEF BeginRun
<1>3. F \subseteq Silent
  BY SilentFields
<1> HIDE DEF x, t, F
<1>4. /\ Books(t) /\ Hears(v, t) /\ Only(x, t, Spoken \cup {"shownSteer", "shownFollow", "recovered"})
      /\ v.transcript # <<>> \/ v.pending # <<>> => t.transcript # <<>>
  BY <1>1, <1>2, <1>3, Said
<1> USE DEF F
<1>5. /\ t.calls = s.calls /\ t.done = s.done /\ t.preflight = s.preflight /\ t.summaries = s.summaries
      /\ t.issued = s.issued /\ t.cleared = s.cleared /\ t.refused = s.refused /\ t.last = s.last
      /\ t.pending = <<>> /\ t.more = s.more /\ t.retry = s.retry /\ t.at = "begun"
      /\ t.active = s.active /\ t.follow = v.follow /\ t.steer = v.steer /\ v.transcript = s.transcript
  BY <1>1, <1>4 DEF Only, NewHost, Spoken
<1>6. Fields(t)
  BY <1>5 DEF Between, Fields, Places
<1>7. Orderly(t)
  BY <1>5 DEF Between, Orderly
<1>8. Phase(t)
  BY <1>4, <1>5 DEF Between, Phase
<1>9. Goes(s, t)
  <2>1. Hears(s, t)
    BY <1>4 DEF Same, Hears
  <2> QED
    BY <1>5, <2>1 DEF Goes, Between
<1> QED
  BY <1>4, <1>6, <1>7, <1>8, <1>9 DEF Sound, t

\* Nobody waits in empty lists.
LEMMA NobodyWaits ==
  ASSUME NEW s, s.steer = <<>>, s.follow = <<>>, s.pending = <<>>
  PROVE  UsersWaiting(s) = {}
BY NothingWaits DEF UsersWaiting

\* Steering is taken from its queue, all of it or one message.
LEMMA SteeringDrained ==
  ASSUME NEW s, Books(s), s.pending = <<>>
  PROVE  LET v == DrainSteering(s)
         IN  /\ Books(v) /\ Same(s, v) /\ Only(s, v, {"steer", "pending"})
             /\ v.pending = Drained(s.steer) /\ v.steer = Left(s.steer)
<1> DEFINE v == DrainSteering(s)
<1>1. Only(s, v, {"steer", "pending"}) /\ v.pending = Drained(s.steer) /\ v.steer = Left(s.steer)
  BY DEF DrainSteering, Only, NewHost, Books
<1> HIDE DEF v
<1>2. /\ DOMAIN v = DOMAIN NewHost /\ SameDesk(s, v) /\ v.path = s.path /\ v.transcript = s.transcript
      /\ v["pending"] = Drained(s["steer"]) /\ v["steer"] = Left(s["steer"])
      /\ \A k \in Stores \ {"steer", "pending"} : v[k] = s[k]
  BY <1>1 DEF Only, NewHost, SameDesk, Stores
<1>3. Books(v) /\ Same(s, v)
  BY <1>2, Drains DEF Same
<1> QED
  BY <1>1, <1>3 DEF v

\* So are follow-ups.
LEMMA FollowUpsDrained ==
  ASSUME NEW s, Books(s), s.pending = <<>>
  PROVE  LET v == DrainFollowUps(s)
         IN  /\ Books(v) /\ Same(s, v) /\ Only(s, v, {"follow", "pending"})
             /\ v.pending = Drained(s.follow) /\ v.follow = Left(s.follow)
<1> DEFINE v == DrainFollowUps(s)
<1>1. Only(s, v, {"follow", "pending"}) /\ v.pending = Drained(s.follow) /\ v.follow = Left(s.follow)
  BY DEF DrainFollowUps, Only, NewHost, Books
<1> HIDE DEF v
<1>2. /\ DOMAIN v = DOMAIN NewHost /\ SameDesk(s, v) /\ v.path = s.path /\ v.transcript = s.transcript
      /\ v["pending"] = Drained(s["follow"]) /\ v["follow"] = Left(s["follow"])
      /\ \A k \in Stores \ {"follow", "pending"} : v[k] = s[k]
  BY <1>1 DEF Only, NewHost, SameDesk, Stores
<1>3. Books(v) /\ Same(s, v)
  BY <1>2, Drains DEF Same
<1> QED
  BY <1>1, <1>3 DEF v

\* The prompt ends when nothing is queued.
LEMMA Ends ==
  ASSUME NEW s, Between(s), s.steer = <<>>, s.follow = <<>>
  PROVE  LET t == Settle([s EXCEPT !.at = "idle"]) IN Sound(t) /\ Goes(s, t)
<1> DEFINE u == [s EXCEPT !.at = "idle"]
<1>1. Books(s) /\ s.pending = <<>>
  BY DEF Between
<1>2. Only(s, u, {"at"}) /\ u.at = "idle"
  BY <1>1 DEF Only, NewHost, Books
<1> HIDE DEF u
<1>3. Books(u) /\ Same(s, u)
  BY <1>1, <1>2, BooksKept, SilentFields
<1>4. Between(u)
  <2>1. Only(s, u, {"retry", "recovered", "at", "transcript", "last", "aborts", "streak"})
    BY <1>2 DEF Only
  <2>2. u.retry = s.retry /\ u.transcript = s.transcript /\ u.last = s.last
    BY <1>2 DEF Only, NewHost
  <2> QED
    BY <1>2, <1>3, <2>1, <2>2, StaysBetween DEF Between, Fields, Places
<1>5. UsersWaiting(u) = {}
  BY <1>1, <1>3, NobodyWaits DEF Same
<1>6. Sound(Settle(u)) /\ Goes(u, Settle(u))
  BY <1>2, <1>4, <1>5, Settles DEF Running
<1>7. u.follow = s.follow /\ u.cleared = s.cleared
  BY <1>2 DEF Only, NewHost
<1>8. Sound(Settle(u)) /\ Goes(s, Settle(u))
  BY <1>3, <1>6, <1>7, GoesOn
<1> QED
  BY <1>8 DEF u

\* The prompt goes on, or ends.
LEMMA Continues ==
  ASSUME NEW s, Between(s)
  PROVE  Sound(Continue(s)) /\ Goes(s, Continue(s))
<1>0. Books(s) /\ s.transcript # <<>> /\ s.pending = <<>>
  BY DEF Between
<1>1. CASE Last(s.transcript).role # "assistant"
  <2>1. Continue(s) = BeginRun(s, s.pending, FALSE)
    BY <1>0, <1>1 DEF Continue
  <2>2. Only(s, s, {"steer", "follow", "pending"}) /\ Same(s, s)
    BY <1>0 DEF Only, Same, Books
  <2> QED
    BY <1>0, <2>1, <2>2, Begins
<1>2. CASE Last(s.transcript).role = "assistant" /\ s.steer # <<>>
  <2> DEFINE v == DrainSteering(s)
  <2>1. /\ Books(v) /\ Same(s, v) /\ Only(s, v, {"steer", "pending"})
        /\ v.pending = Drained(s.steer)
    BY <1>0, SteeringDrained
  <2>2. Continue(s) = BeginRun(v, v.pending, TRUE)
    BY <1>0, <1>2, <2>1 DEF Continue
  <2> HIDE DEF v
  <2>3. Only(s, v, {"steer", "follow", "pending"}) /\ v.follow = s.follow
    BY <2>1 DEF Only, NewHost
  <2> QED
    BY <2>1, <2>2, <2>3, Begins
<1>3. CASE Last(s.transcript).role = "assistant" /\ s.steer = <<>> /\ s.follow # <<>>
  <2> DEFINE v == DrainFollowUps(s)
  <2>1. /\ Books(v) /\ Same(s, v) /\ Only(s, v, {"follow", "pending"})
        /\ v.pending = Drained(s.follow)
    BY <1>0, FollowUpsDrained
  <2>2. Continue(s) = BeginRun(v, v.pending, FALSE)
    BY <1>0, <1>3, <2>1 DEF Continue
  <2> HIDE DEF v
  <2>3. Only(s, v, {"steer", "follow", "pending"}) /\ v.steer = <<>>
    BY <1>3, <2>1 DEF Only, NewHost
  <2> QED
    BY <2>1, <2>2, <2>3, Begins
<1>4. CASE Last(s.transcript).role = "assistant" /\ s.steer = <<>> /\ s.follow = <<>>
  <2>1. Continue(s) = Settle([s EXCEPT !.at = "idle"])
    BY <1>0, <1>4 DEF Continue
  <2> QED
    BY <1>4, <2>1, Ends
<1> QED
  BY <1>1, <1>2, <1>3, <1>4

\* After a run: the next one if messages are queued, else the end of the prompt.
LEMMA ContinuesIfQueued ==
  ASSUME NEW s, Between(s)
  PROVE  Sound(ContinueIfQueued(s)) /\ Goes(s, ContinueIfQueued(s))
<1>1. CASE HasQueued(s)
  BY <1>1, Continues DEF ContinueIfQueued
<1>2. CASE ~HasQueued(s)
  <2>1. ContinueIfQueued(s) = Settle([s EXCEPT !.at = "idle"]) /\ s.steer = <<>> /\ s.follow = <<>>
    BY <1>2 DEF ContinueIfQueued, HasQueued
  <2> QED
    BY <2>1, Ends
<1> QED
  BY <1>1, <1>2

-----------------------------------------------------------------------------
(* The end of a run.                                                       *)

\* A compaction that may be prepared is a plan for the session.
LEMMA PlansAre ==
  ASSUME NEW path \in Seq(Entries), NEW p \in Preparations(path)
  PROVE  p \in Plans
<1>1. PICK kept, covers : p = [kept |-> kept, covers |-> covers]
  BY DEF Preparations
<1>2. \A i \in 1..Len(path) : path[i].id \in Nat /\ path[i].covers \subseteq Nat
  <2>1. \A i \in 1..Len(path) : path[i] \in Entries
    OBVIOUS
  <2> QED
    BY <2>1 DEF Entries
<1>3. /\ \E i \in 1..Len(path) : p.kept = path[i].id
      /\ \A x \in p.covers : \E i \in 1..Len(path) : x = path[i].id \/ x \in path[i].covers
  BY PreparationsName
<1>4. p.kept \in Nat /\ p.covers \in SUBSET Nat
  BY <1>2, <1>3
<1> QED
  BY <1>1, <1>4 DEF Plans

\* A summary is begun, in the name of somebody.
LEMMA Summarises ==
  ASSUME NEW s, Books(s), s.summaries \subseteq Summaries, NEW p \in Preparations(s.path),
         NEW why, why \in {"prompt", "turn", "manual", "runEnd"}, NEW retry, retry \in BOOLEAN
  PROVE  LET t == Summarise(s, why, p, retry)
         IN  /\ Books(t) /\ Same(s, t) /\ Only(s, t, {"summaries", "compactions"})
             /\ \E c \in Summaries : c.why = why /\ t.summaries = s.summaries \cup {c}
<1> DEFINE c == [why |-> why, prep |-> p, retry |-> retry]
           t == Summarise(s, why, p, retry)
<1>1. Only(s, t, {"summaries", "compactions"}) /\ t.summaries = s.summaries \cup {c}
  BY DEF Summarise, Only, NewHost, Books
<1>2. p \in Plans
  BY PlansAre DEF Books, Logs
<1>3. c \in Summaries /\ c.why = why
  BY <1>2 DEF Summaries
<1> HIDE DEF t, c
<1>4. Books(t) /\ Same(s, t)
  BY <1>1, BooksKept, SilentFields
<1> QED
  BY <1>1, <1>3, <1>4 DEF t, c

\* _checkCompaction: the context is compacted, or the prompt goes on without.
LEMMA Checks ==
  ASSUME NEW s, Between(s), NEW stop, NEW t \in AfterCheck(s, stop)
  PROVE  Sound(t) /\ Goes(s, t)
<1> DEFINE r == [s EXCEPT !.recovered = TRUE]
           u == IF Overflowed(stop) /\ ~s.recovered THEN DropLastResponse(r) ELSE s
           at == [u EXCEPT !.at = "compacting"]
           made(p) == Summarise(at, "runEnd", p, Overflowed(stop))
<1>0. Books(s) /\ DOMAIN s = DOMAIN NewHost
  BY DEF Between, Books
<1>1. Between(u) /\ Same(s, u) /\ u.follow = s.follow /\ u.cleared = s.cleared
  <2>1. CASE Overflowed(stop) /\ ~s.recovered
    <3>1. Only(s, r, {"recovered"}) /\ r.transcript = s.transcript
      BY <1>0 DEF Only, NewHost
    <3>2. u = DropLastResponse(r)
      BY <2>1
    <3> HIDE DEF r, u
    <3>3. Books(r) /\ Same(s, r)
      BY <1>0, <3>1, BooksKept, SilentFields
    <3>4. Books(u) /\ Same(r, u) /\ Only(r, u, {"transcript"}) /\ u.transcript # <<>>
      BY <3>1, <3>2, <3>3, ResponseDropped DEF Between
    <3>5. /\ Only(s, u, {"retry", "recovered", "at", "transcript", "last", "aborts", "streak"})
          /\ u.retry = s.retry /\ u.at = s.at /\ u.last = s.last
          /\ u.follow = s.follow /\ u.cleared = s.cleared
      BY <3>1, <3>4 DEF Only, NewHost
    <3>6. Between(u)
      BY <3>4, <3>5, StaysBetween DEF Between, Fields
    <3> QED
      BY <3>3, <3>4, <3>5, <3>6 DEF Same
  <2>2. CASE ~(Overflowed(stop) /\ ~s.recovered)
    BY <2>2 DEF Same
  <2> QED
    BY <2>1, <2>2
<1>2. t = ContinueIfQueued(u) \/ \E p \in Preparations(u.path) : t = made(p)
  BY DEF AfterCheck
<1> HIDE DEF r, u
<1>3. CASE t = ContinueIfQueued(u)
  BY <1>1, <1>3, ContinuesIfQueued, GoesOn
<1>4. ASSUME NEW p \in Preparations(u.path), t = made(p) PROVE Sound(t) /\ Goes(s, t)
  <2>1. Only(u, at, {"at"}) /\ at.at = "compacting"
    BY <1>1 DEF Only, NewHost, Between, Books
  <2> HIDE DEF at
  <2>2. Books(at) /\ Same(u, at) /\ at.path = u.path /\ at.summaries = u.summaries
    <3>1. Books(u) /\ at.path = u.path /\ at.summaries = u.summaries
      BY <1>1, <2>1 DEF Between, Only, NewHost
    <3> QED
      BY <2>1, <3>1, BooksKept, SilentFields
  <2> DEFINE over == Overflowed(stop)
  <2>3. /\ Books(t) /\ Same(at, t) /\ Only(at, t, {"summaries", "compactions"})
        /\ \E c \in Summaries : c.why = "runEnd" /\ t.summaries = u.summaries \cup {c}
    <3>1. over \in BOOLEAN
      BY DEF Overflowed
    <3>2. at.summaries \subseteq Summaries /\ p \in Preparations(at.path)
      BY <1>1, <1>4, <2>2 DEF Between, Fields
    <3>3. t = Summarise(at, "runEnd", p, over)
      BY <1>4
    <3> HIDE DEF over
    <3>4. Books(at)
      BY <2>2
    <3>5. "runEnd" \in {"prompt", "turn", "manual", "runEnd"}
      OBVIOUS
    <3>6. LET v == Summarise(at, "runEnd", p, over)
          IN  /\ Books(v) /\ Same(at, v) /\ Only(at, v, {"summaries", "compactions"})
              /\ \E c \in Summaries : c.why = "runEnd" /\ v.summaries = at.summaries \cup {c}
      BY <3>1, <3>2, <3>4, <3>5, Summarises
    <3> QED
      BY <2>2, <3>3, <3>6
  <2>4. PICK c \in Summaries : c.why = "runEnd" /\ t.summaries = u.summaries \cup {c}
    BY <2>3
  <2>5. /\ t.calls = u.calls /\ t.done = u.done /\ t.preflight = u.preflight
        /\ t.issued = u.issued /\ t.cleared = u.cleared /\ t.refused = u.refused /\ t.last = u.last
        /\ t.pending = u.pending /\ t.more = u.more /\ t.retry = u.retry /\ t.at = "compacting"
        /\ t.active = u.active /\ t.follow = u.follow /\ t.transcript = u.transcript
    BY <2>1, <2>3 DEF Only, NewHost
  <2>6. Fields(t)
    BY <1>1, <2>4, <2>5 DEF Between, Fields, Places
  <2>7. Orderly(t)
    BY <1>1, <2>4, <2>5 DEF Between, Orderly
  <2>8. Phase(t)
    BY <1>1, <2>5 DEF Between, Phase
  <2>9. Hears(s, t)
    <3>1. Same(s, t)
      BY <1>1, <2>2, <2>3 DEF Same
    <3>2. {} \in SUBSET UsersWaiting(s)
      OBVIOUS
    <3> QED
      BY <3>1, <3>2 DEF Same, Hears
  <2>10. Goes(s, t)
    BY <1>1, <2>5, <2>9 DEF Goes, Between
  <2> QED
    BY <2>3, <2>6, <2>7, <2>8, <2>10 DEF Sound
<1> QED
  BY <1>2, <1>3, <1>4

\* After a run: the sleep before a retry, a compaction, the next run, or the end.
LEMMA RunsOut ==
  ASSUME NEW s, Between(s), NEW stop, NEW t \in AfterRun(s, stop)
  PROVE  Sound(t) /\ Goes(s, t)
<1>0. Books(s) /\ DOMAIN s = DOMAIN NewHost /\ s.retry \in 0..MaxRetries /\ MaxRetries \in Nat
  BY RetriesAssumption DEF Between, Books, Fields
<1>1. CASE stop = "error" /\ s.retry < MaxRetries
  <2> DEFINE u == DropLastResponse(s)
  <2>1. Books(u) /\ Same(s, u) /\ Only(s, u, {"transcript"}) /\ u.transcript # <<>>
    BY <1>0, ResponseDropped DEF Between
  <2>2. t = [u EXCEPT !.retry = @ + 1, !.at = "sleeping"]
    BY <1>1 DEF AfterRun
  <2> HIDE DEF u
  <2>3. Only(u, t, {"retry", "at"}) /\ t.retry = u.retry + 1 /\ t.at = "sleeping" /\ u.retry = s.retry
    BY <2>1, <2>2 DEF Only, NewHost
  <2>4. Books(t) /\ Same(u, t)
    BY <2>1, <2>3, BooksKept, SilentFields
  <2>5. /\ Only(s, t, {"retry", "recovered", "at", "transcript", "last", "aborts", "streak"})
        /\ t.last = s.last /\ t.transcript = u.transcript
        /\ t.follow = s.follow /\ t.cleared = s.cleared
    BY <2>1, <2>3 DEF Only, NewHost
  <2>6. Between(t)
    <3>1. t.retry \in 0..MaxRetries /\ t.at \in Places
      BY <1>0, <1>1, <2>3 DEF Places
    <3> QED
      BY <2>1, <2>4, <2>5, <3>1, StaysBetween
  <2>7. Phase(t)
    BY <2>3, <2>6 DEF Between, Phase
  <2>8. Goes(s, t)
    <3>1. Hears(s, t)
      <4>1. Same(s, t) /\ {} \in SUBSET UsersWaiting(s)
        BY <2>1, <2>4 DEF Same
      <4> QED
        BY <4>1 DEF Same, Hears
    <3> QED
      BY <2>5, <2>6, <3>1 DEF Goes, Between
  <2> QED
    BY <2>6, <2>7, <2>8 DEF Sound, Between
<1>2. CASE ~(stop = "error" /\ s.retry < MaxRetries)
  <2> DEFINE u == [s EXCEPT !.retry = IF stop \in Failures THEN 0 ELSE @]
  <2>1. t \in AfterCheck(u, stop)
    BY <1>2 DEF AfterRun
  <2>2. Only(s, u, {"retry"}) /\ u.retry \in {0, s.retry}
    BY <1>0 DEF Only, NewHost
  <2> HIDE DEF u
  <2>3. Books(u) /\ Same(s, u)
    BY <1>0, <2>2, BooksKept, SilentFields
  <2>4. /\ Only(s, u, {"retry", "recovered", "at", "transcript", "last", "aborts", "streak"})
        /\ u.last = s.last /\ u.at = s.at /\ u.transcript = s.transcript
        /\ u.follow = s.follow /\ u.cleared = s.cleared
    BY <2>2 DEF Only, NewHost
  <2>5. Between(u)
    <3>1. u.retry \in 0..MaxRetries
      BY <1>0, <2>2
    <3>2. u.at \in Places /\ u.transcript # <<>>
      BY <2>4 DEF Between, Fields
    <3> QED
      BY <2>3, <2>4, <3>1, <3>2, StaysBetween
  <2>6. Sound(t) /\ Goes(u, t)
    BY <2>1, <2>5, Checks
  <2> QED
    BY <2>3, <2>4, <2>6, GoesOn
<1> QED
  BY <1>1, <1>2

-----------------------------------------------------------------------------
(* The turns of a run.                                                     *)

\* The next turn begins with the messages that wait for it.
LEMMA Injects ==
  ASSUME NEW s, Sound(s), s.active = TRUE, s.at \in {"begun", "turnEnd"},
         NEW v, Books(v), Same(s, v), Only(s, v, {"skip", "steer", "pending"})
  PROVE  Sound(Inject(v)) /\ Goes(s, Inject(v))
<1> DEFINE x == [v EXCEPT !.pending = <<>>]
           u == SayAll(x, v.pending)
           t == Inject(v)
           F == {"at"}
<1>1. Only(v, x, F \cup {"pending"}) /\ x.pending = <<>>
  BY DEF Only, NewHost, Books
<1>2. t = [u EXCEPT !.at = "streaming"]
  BY DEF Inject
<1> HIDE DEF x, t
<1>3. /\ Books(u) /\ Hears(v, u) /\ Only(x, u, Spoken \cup {"shownSteer", "shownFollow", "recovered"})
      /\ v.transcript # <<>> \/ v.pending # <<>> => u.transcript # <<>>
  <2>1. F \subseteq Silent
    BY SilentFields
  <2> HIDE DEF F
  <2> QED
    BY <1>1, <2>1, Said
<1> HIDE DEF u
<1>4. Only(u, t, {"at"}) /\ t.at = "streaming"
  BY <1>2, <1>3 DEF Only, NewHost, Books
<1>5. Books(t) /\ Same(u, t)
  BY <1>3, <1>4, BooksKept, SilentFields
<1>6. /\ t.calls = s.calls /\ t.done = s.done /\ t.preflight = s.preflight /\ t.summaries = s.summaries
      /\ t.issued = s.issued /\ t.cleared = s.cleared /\ t.refused = s.refused /\ t.last = s.last
      /\ t.pending = <<>> /\ t.retry = s.retry /\ t.active = s.active /\ t.follow = s.follow
      /\ t.transcript = u.transcript /\ v.transcript = s.transcript
  BY <1>1, <1>3, <1>4 DEF Only, NewHost, Spoken
<1>7. Fields(t)
  BY <1>4, <1>6 DEF Sound, Fields, Places
<1>8. Orderly(t)
  BY <1>4, <1>6 DEF Sound, Orderly
<1>9. Phase(t)
  <2>1. s.transcript # <<>>
    BY DEF Sound, Phase
  <2> QED
    BY <1>3, <1>4, <1>6, <2>1 DEF Phase
<1>10. Goes(s, t)
  <2>1. Hears(s, t)
    BY <1>3, <1>5 DEF Same, Hears
  <2> QED
    BY <1>6, <2>1 DEF Goes
<1> QED
  BY <1>5, <1>7, <1>8, <1>9, <1>10 DEF Sound, t

\* Within a run, between two waits.
Within(s) ==
  /\ Books(s) /\ Fields(s) /\ Orderly(s)
  /\ s.active = TRUE /\ s.pending = <<>> /\ s.transcript # <<>> /\ s.last # {}
  /\ \A c \in s.summaries : c.why # "runEnd"

\* The end of a turn.
LEMMA TurnsOver ==
  ASSUME NEW s, Within(s), NEW more, more \in BOOLEAN
  PROVE  Sound(TurnOver(s, more)) /\ Goes(s, TurnOver(s, more))
<1> DEFINE f == FlushCustom(s)
           d == DrainSteering(f)
           t == [d EXCEPT !.more = more]
           u == DrainFollowUps(t)
           r == TurnOver(s, more)
<1>1. Books(f) /\ Same(s, f) /\ Only(s, f, Spoken \cup {"custom"}) /\ f.transcript # <<>>
  BY CustomFlushed DEF Within
<1> HIDE DEF f
<1>2. f.pending = <<>> /\ f.steer = s.steer /\ f.follow = s.follow
  BY <1>1 DEF Only, NewHost, Spoken, Within
<1>3. /\ Books(d) /\ Same(f, d) /\ Only(f, d, {"steer", "pending"})
      /\ d.pending = Drained(s.steer) /\ d.steer = Left(s.steer)
  BY <1>1, <1>2, SteeringDrained
<1> HIDE DEF d
<1>4. Only(d, t, {"more"}) /\ t.more = more
  BY <1>3 DEF Only, NewHost, Books
<1> HIDE DEF t
<1>5. Books(t) /\ Same(d, t)
  BY <1>3, <1>4, BooksKept, SilentFields
<1>6. /\ t.calls = s.calls /\ t.done = s.done /\ t.preflight = s.preflight /\ t.summaries = s.summaries
      /\ t.issued = s.issued /\ t.cleared = s.cleared /\ t.refused = s.refused /\ t.last = s.last
      /\ t.retry = s.retry /\ t.active = s.active /\ t.follow = s.follow
      /\ t.pending = Drained(s.steer) /\ t.steer = Left(s.steer) /\ t.transcript = f.transcript
  BY <1>1, <1>3, <1>4 DEF Only, NewHost, Spoken
<1>7. ASSUME NEW v, Books(v), Same(t, v), Only(t, v, {"follow", "pending", "at"}), v.at \in {"turnEnd", "ended"},
             v.pending # <<>> => v.at = "turnEnd", v.at = "ended" => more = FALSE,
             v.follow = s.follow \/ (v.steer = <<>> /\ ~more)
      PROVE  Sound(v) /\ Goes(s, v)
  <2>1. /\ v.calls = s.calls /\ v.done = s.done /\ v.preflight = s.preflight /\ v.summaries = s.summaries
        /\ v.issued = s.issued /\ v.cleared = s.cleared /\ v.refused = s.refused /\ v.last = s.last
        /\ v.retry = s.retry /\ v.active = s.active /\ v.transcript = f.transcript /\ v.more = more
    BY <1>4, <1>6, <1>7 DEF Only, NewHost
  <2>2. Fields(v)
    BY <1>7, <2>1 DEF Within, Fields, Places
  <2>3. Orderly(v)
    BY <1>7, <2>1 DEF Within, Orderly
  <2>4. Phase(v)
    BY <1>1, <1>7, <2>1 DEF Within, Phase
  <2>5. Hears(s, v)
    <3>1. Same(s, v) /\ {} \in SUBSET UsersWaiting(s)
      BY <1>1, <1>3, <1>5, <1>7 DEF Same
    <3> QED
      BY <3>1 DEF Same, Hears
  <2>6. Goes(s, v)
    BY <1>7, <2>1, <2>5 DEF Goes, Within
  <2> QED
    BY <1>7, <2>2, <2>3, <2>4, <2>6 DEF Sound
<1>8. CASE more \/ t.pending # <<>>
  <2> DEFINE v == [t EXCEPT !.at = "turnEnd"]
  <2>1. r = v
    BY <1>8 DEF TurnOver, t, d, f
  <2>2. Only(t, v, {"at"}) /\ v.at = "turnEnd" /\ v.follow = t.follow
    BY <1>5 DEF Only, NewHost, Books
  <2> HIDE DEF v
  <2>3. Books(v) /\ Same(t, v) /\ Only(t, v, {"follow", "pending", "at"})
    BY <1>5, <2>2, BooksKept, SilentFields DEF Only
  <2> QED
    BY <1>6, <1>7, <2>1, <2>2, <2>3
<1>9. CASE ~(more \/ t.pending # <<>>)
  <2>1. /\ Books(u) /\ Same(t, u) /\ Only(t, u, {"follow", "pending"})
    BY <1>5, <1>9, FollowUpsDrained
  <2> DEFINE v == [u EXCEPT !.at = IF u.pending # <<>> THEN "turnEnd" ELSE "ended"]
  <2>2. r = v
    BY <1>9 DEF TurnOver, t, d, f
  <2> HIDE DEF u
  <2>3. Only(u, v, {"at"}) /\ v.at = (IF u.pending # <<>> THEN "turnEnd" ELSE "ended")
    BY <2>1 DEF Only, NewHost, Books
  <2> HIDE DEF v
  <2>4. Books(v) /\ Same(u, v)
    BY <2>1, <2>3, BooksKept, SilentFields
  <2>5. Only(t, v, {"follow", "pending", "at"}) /\ v.pending = u.pending /\ v.steer = t.steer
    BY <2>1, <2>3 DEF Only, NewHost
  <2>6. s.steer = <<>> /\ t.steer = <<>>
    <3>1. s.steer \in Seq(MessagesSent)
      BY DEF Within, Books, Lists, Stores
    <3> QED
      BY <1>6, <1>9, <3>1, DrainedAndLeft
  <2>7. Same(t, v)
    BY <2>1, <2>4 DEF Same
  <2>8. more = FALSE
    BY <1>9
  <2> QED
    BY <1>7, <2>2, <2>3, <2>4, <2>5, <2>6, <2>7, <2>8
<1> QED
  BY <1>8, <1>9 DEF r

\* The first poll of a run for steering.
LEMMA PollStep ==
  ASSUME IInv, Poll
  PROVE  Sound(host') /\ Goes(host, host')
<1> DEFINE v == IF host.skip THEN [host EXCEPT !.skip = FALSE] ELSE DrainSteering(host)
<1>1. Sound(host) /\ Books(host) /\ host.at = "begun" /\ host' = Inject(v)
  BY DEF IInv, Sound, Poll
<1>2. host.active = TRUE /\ host.pending = <<>>
  BY <1>1 DEF Sound, Phase
<1>3. Books(v) /\ Same(host, v) /\ Only(host, v, {"skip", "steer", "pending"})
  <2>1. CASE host.skip
    <3>1. Only(host, v, {"skip"})
      BY <1>1, <2>1 DEF Only, NewHost, Books
    <3> HIDE DEF v
    <3> QED
      BY <1>1, <3>1, BooksKept, SilentFields DEF Only
  <2>2. CASE ~host.skip
    <3>1. v = DrainSteering(host)
      BY <2>2
    <3> HIDE DEF v
    <3> QED
      BY <1>1, <1>2, <3>1, SteeringDrained DEF Only
  <2> QED
    BY <2>1, <2>2
<1> HIDE DEF v
<1> QED
  BY <1>1, <1>2, <1>3, Injects

\* The next turn of a run.
LEMMA NextTurnStep ==
  ASSUME IInv, NextTurn
  PROVE  Sound(host') /\ Goes(host, host')
<1> DEFINE v == IF host.pending = <<>> THEN DrainSteering(host) ELSE host
<1>1. Sound(host) /\ Books(host) /\ host.at = "turnEnd" /\ host' = Inject(v)
  BY DEF IInv, Sound, NextTurn
<1>2. host.active = TRUE
  BY <1>1 DEF Sound, Phase
<1>3. Books(v) /\ Same(host, v) /\ Only(host, v, {"skip", "steer", "pending"})
  <2>1. CASE host.pending = <<>>
    <3>1. v = DrainSteering(host)
      BY <2>1
    <3> HIDE DEF v
    <3> QED
      BY <1>1, <2>1, <3>1, SteeringDrained DEF Only
  <2>2. CASE host.pending # <<>>
    BY <1>1, <2>2 DEF Only, Same, Books
  <2> QED
    BY <2>1, <2>2
<1> HIDE DEF v
<1> QED
  BY <1>1, <1>2, <1>3, Injects

\* The response, and what the agent knows when it has it.
LEMMA Responds ==
  ASSUME NEW s, Sound(s), s.at = "streaming", NEW m \in Responses,
         NEW x, Only(s, x, {"toolTurns", "failing"})
  PROVE  LET t == Responded(x, m)
         IN  /\ Within(t) /\ Same(s, t) /\ t.follow = s.follow /\ t.cleared = s.cleared
             /\ t.more = FALSE /\ t.last = {m}
<1> DEFINE t == Responded(x, m)
           F == {"toolTurns", "failing", "transcript", "path", "last", "more", "recovered", "retry", "streak"}
<1>1. /\ Only(x, t, {"transcript", "path", "last", "more", "recovered", "retry", "streak"})
      /\ t.transcript = Append(x.transcript, m)
      /\ t.path = Append(x.path, Entry(Len(x.path) + 1, m, 0, {}))
      /\ t.last = {m} /\ t.more = FALSE /\ t.retry \in {0, x.retry}
  BY DEF Responded, Record, Only, NewHost
<1> HIDE DEF t
<1>2. Only(s, t, F) /\ x.transcript = s.transcript /\ x.path = s.path /\ x.retry = s.retry
  BY <1>1 DEF Only, NewHost
<1>3. F \subseteq Silent \cup {"transcript", "path"}
  BY SilentFields
<1>4. m \in AnyMessage /\ m.role \in {"assistant", "result"} /\ Books(s) /\ s.transcript # <<>>
  BY Kinds DEF Sound, Phase
<1>5. Books(t) /\ Same(s, t) /\ t.transcript # <<>>
  <2> HIDE DEF F
  <2> QED
    BY <1>1, <1>2, <1>3, <1>4, Made
<1>6. /\ t.calls = s.calls /\ t.done = s.done /\ t.preflight = s.preflight /\ t.summaries = s.summaries
      /\ t.issued = s.issued /\ t.cleared = s.cleared /\ t.refused = s.refused /\ t.at = s.at
      /\ t.pending = s.pending /\ t.active = s.active /\ t.follow = s.follow
  BY <1>2 DEF Only, NewHost
<1>7. s.pending = <<>> /\ s.active = TRUE /\ \A c \in s.summaries : c.why # "runEnd"
  BY DEF Sound, Phase, Orderly
<1>8. Fields(t)
  <2>1. t.retry \in 0..MaxRetries
    BY <1>1, <1>2, RetriesAssumption DEF Sound, Fields
  <2> QED
    BY <1>1, <1>6, <2>1 DEF Sound, Fields
<1>9. Orderly(t)
  BY <1>6 DEF Sound, Orderly
<1> QED
  BY <1>1, <1>5, <1>6, <1>7, <1>8, <1>9 DEF Within, t

\* A response ends the run, ends the turn, or calls tools.
LEMMA ResponseStep ==
  ASSUME IInv, NEW stop \in Stops, NEW calls \in 0..MaxCalls, Respond(stop, calls)
  PROVE  Sound(host') /\ Goes(host, host')
<1> DEFINE x == [host EXCEPT
                   !.toolTurns = @ + (IF calls > 0 THEN 1 ELSE 0),
                   !.failing   = @ + (IF stop \in Failures \cup {"length"} THEN 1 ELSE 0)]
           m == Response(stop, calls)
           t == Responded(x, m)
<1>1. host.at = "streaming" /\ host' = ResponseEnds(x, m)
  BY DEF Respond, CanRespond
<1>2. Only(host, x, {"toolTurns", "failing"})
  BY DEF Only, NewHost, IInv, Sound, Books
<1>3. m \in Responses /\ m.calls = calls /\ m.stop = stop
  BY DEF Response, Message, Responses
<1> HIDE DEF x, m
<1>4. /\ Within(t) /\ Same(host, t) /\ t.follow = host.follow /\ t.cleared = host.cleared
      /\ t.more = FALSE /\ t.last = {m}
  BY <1>1, <1>2, <1>3, Responds DEF IInv
<1> HIDE DEF t
<1>5. CASE stop \in Failures \cup {"aborted"}
  <2> DEFINE f == FlushCustom(t)
  <2>1. host' = [f EXCEPT !.at = "ended"]
    BY <1>1, <1>3, <1>5 DEF ResponseEnds, t
  <2>2. Books(f) /\ Same(t, f) /\ Only(t, f, Spoken \cup {"custom"}) /\ f.transcript # <<>>
    BY <1>4, CustomFlushed DEF Within
  <2> HIDE DEF f
  <2>3. Only(f, host', {"at"}) /\ host'.at = "ended"
    BY <2>1, <2>2 DEF Only, NewHost, Books
  <2>4. Books(host') /\ Same(f, host')
    BY <2>2, <2>3, BooksKept, SilentFields
  <2>5. /\ host'.calls = t.calls /\ host'.done = t.done /\ host'.preflight = t.preflight
        /\ host'.summaries = t.summaries /\ host'.issued = t.issued /\ host'.cleared = t.cleared
        /\ host'.refused = t.refused /\ host'.last = t.last /\ host'.retry = t.retry
        /\ host'.active = t.active /\ host'.follow = t.follow /\ host'.transcript = f.transcript
        /\ host'.more = t.more /\ host'.pending = t.pending
    BY <2>2, <2>3 DEF Only, NewHost, Spoken
  <2>6. Fields(host')
    BY <1>4, <2>3, <2>5 DEF Within, Fields, Places
  <2>7. Orderly(host')
    BY <1>4, <2>3, <2>5 DEF Within, Orderly
  <2>8. Phase(host')
    BY <1>4, <2>2, <2>3, <2>5 DEF Within, Phase
  <2>9. Hears(host, host')
    <3>1. Same(host, host') /\ {} \in SUBSET UsersWaiting(host)
      BY <1>4, <2>2, <2>4 DEF Same
    <3> QED
      BY <3>1 DEF Same, Hears
  <2>10. Goes(host, host')
    BY <1>4, <2>5, <2>9 DEF Goes, Within
  <2> QED
    BY <2>4, <2>6, <2>7, <2>8, <2>10 DEF Sound
<1>6. CASE stop \notin Failures \cup {"aborted"} /\ calls = 0
  <2>1. host' = TurnOver(t, FALSE)
    BY <1>1, <1>3, <1>6 DEF ResponseEnds, t
  <2> QED
    BY <1>4, <2>1, TurnsOver, GoesOn
<1>7. CASE stop = "length" /\ calls # 0
  <2> DEFINE r == RecordAll(t, [i \in 1..calls |-> ResultOf(i)])
  <2>1. host' = TurnOver(r, TRUE)
    BY <1>1, <1>3, <1>7 DEF ResponseEnds, t, Failures
  <2>2. Books(r) /\ Same(t, r) /\ Only(t, r, Spoken) /\ r.transcript # <<>>
    BY <1>4, MadeUp DEF Within
  <2> HIDE DEF r
  <2>3. /\ r.calls = t.calls /\ r.done = t.done /\ r.preflight = t.preflight
        /\ r.summaries = t.summaries /\ r.issued = t.issued /\ r.cleared = t.cleared
        /\ r.refused = t.refused /\ r.last = t.last /\ r.retry = t.retry /\ r.at = t.at
        /\ r.active = t.active /\ r.follow = t.follow /\ r.pending = t.pending
    BY <2>2 DEF Only, NewHost, Spoken
  <2>4. Within(r)
    BY <1>4, <2>2, <2>3 DEF Within, Fields, Orderly
  <2>5. Sound(host') /\ Goes(r, host')
    BY <2>1, <2>4, TurnsOver
  <2> QED
    BY <1>4, <2>2, <2>3, <2>5, GoesOn DEF Same
<1>8. CASE stop \notin Failures \cup {"aborted", "length"} /\ calls # 0
  <2>1. host' = [t EXCEPT !.at = "tools", !.calls = calls, !.done = 0]
    BY <1>1, <1>3, <1>8 DEF ResponseEnds, t
  <2>2. Only(t, host', {"at", "calls", "done"}) /\ host'.at = "tools" /\ host'.calls = calls /\ host'.done = 0
    BY <1>4, <2>1 DEF Only, NewHost, Books, Within
  <2>3. Books(host') /\ Same(t, host')
    BY <1>4, <2>2, BooksKept, SilentFields DEF Within
  <2>5. /\ host'.preflight = t.preflight
        /\ host'.summaries = t.summaries /\ host'.issued = t.issued /\ host'.cleared = t.cleared
        /\ host'.refused = t.refused /\ host'.last = t.last /\ host'.retry = t.retry
        /\ host'.active = t.active /\ host'.follow = t.follow /\ host'.transcript = t.transcript
        /\ host'.more = t.more /\ host'.pending = t.pending
    BY <2>2 DEF Only, NewHost
  <2>6. Fields(host')
    BY <1>4, <2>2, <2>5 DEF Within, Fields, Places
  <2>7. Orderly(host')
    BY <1>4, <2>2, <2>5 DEF Within, Orderly
  <2>8. Phase(host')
    <3>1. 0 < calls
      BY <1>8, BoundsAssumption
    <3> QED
      BY <1>4, <2>2, <2>5, <3>1 DEF Within, Phase
  <2>9. Hears(host, host')
    <3>1. Same(host, host') /\ {} \in SUBSET UsersWaiting(host)
      BY <1>4, <2>3 DEF Same
    <3> QED
      BY <3>1 DEF Same, Hears
  <2>10. Goes(host, host')
    BY <1>4, <2>5, <2>9 DEF Goes, Within
  <2> QED
    BY <2>3, <2>6, <2>7, <2>8, <2>10 DEF Sound
<1> QED
  BY <1>5, <1>6, <1>7, <1>8

\* A result is recorded; with the last one the turn is over.
LEMMA ResultStep ==
  ASSUME IInv, NEW break, NEW more, more \in BOOLEAN, RecordResult(break, more)
  PROVE  Sound(host') /\ Goes(host, host')
<1> DEFINE m == ResultOf(host.done + 1)
           t == [Record(host, m) EXCEPT !.done = @ + 1]
           F == {"transcript", "path", "done"}
<1>1. host.at = "tools" /\ host' \in {t, TurnOver(t, more)} /\ (host' = TurnOver(t, more) \/ t.done # t.calls)
  BY DEF RecordResult
<1>2. /\ Books(host) /\ Fields(host) /\ Orderly(host) /\ Phase(host)
      /\ DOMAIN host = DOMAIN NewHost
  BY DEF IInv, Sound, Books
<1>3. /\ host.done \in Nat /\ host.calls \in 0..MaxCalls /\ host.done < host.calls /\ host.transcript # <<>>
      /\ host.pending = <<>> /\ host.active = TRUE /\ host.last # {}
      /\ \A c \in host.summaries : c.why # "runEnd"
  BY <1>1, <1>2 DEF Fields, Phase, Orderly
<1>4. m \in AnyMessage /\ m.role \in {"assistant", "result"}
  <2>1. host.done + 1 \in 1..MaxCalls
    BY <1>3, BoundsAssumption
  <2> QED
    BY <2>1, Kinds
<1> HIDE DEF m
<1>5. /\ Only(host, t, F) /\ t.transcript = Append(host.transcript, m)
      /\ t.path = Append(host.path, Entry(Len(host.path) + 1, m, 0, {}))
      /\ t.done = host.done + 1
  BY <1>2 DEF Record, Only, NewHost
<1> HIDE DEF t
<1>6. F \subseteq Silent \cup {"transcript", "path"}
  BY SilentFields
<1>7. Books(t) /\ Same(host, t) /\ t.transcript # <<>>
  <2> HIDE DEF F
  <2> QED
    BY <1>2, <1>3, <1>4, <1>5, <1>6, Made
<1>8. /\ t.calls = host.calls /\ t.preflight = host.preflight /\ t.summaries = host.summaries
      /\ t.issued = host.issued /\ t.cleared = host.cleared /\ t.refused = host.refused /\ t.at = host.at
      /\ t.pending = host.pending /\ t.active = host.active /\ t.follow = host.follow /\ t.last = host.last
      /\ t.retry = host.retry
  BY <1>5 DEF Only, NewHost
<1>9. Within(t)
  <2>1. t.done \in Nat
    BY <1>3, <1>5
  <2> QED
    BY <1>2, <1>3, <1>7, <1>8, <2>1 DEF Within, Fields, Orderly
<1>10. CASE host' = TurnOver(t, more)
  BY <1>7, <1>8, <1>9, <1>10, TurnsOver, GoesOn
<1>11. CASE host' = t /\ t.done # t.calls
  <2>1. t.done < t.calls
    BY <1>3, <1>5, <1>8, <1>11
  <2>2. Phase(t)
    BY <1>1, <1>3, <1>7, <1>8, <2>1 DEF Phase
  <2>3. Hears(host, t)
    <3>1. {} \in SUBSET UsersWaiting(host)
      OBVIOUS
    <3> QED
      BY <1>7, <3>1 DEF Same, Hears
  <2> QED
    BY <1>3, <1>8, <1>9, <1>11, <2>2, <2>3 DEF Goes, Sound, Within
<1> QED
  BY <1>1, <1>10, <1>11

-----------------------------------------------------------------------------
(* The prompt between its runs.                                            *)

\* The end of a run.
LEMMA EndRunStep ==
  ASSUME IInv, EndRun
  PROVE  Sound(host') /\ Goes(host, host')
<1>1. /\ Books(host) /\ Fields(host) /\ Orderly(host) /\ Phase(host)
      /\ DOMAIN host = DOMAIN NewHost /\ host.at = "ended"
  BY DEF IInv, Sound, Books, EndRun
<1>2. host.last # {} /\ host.more = FALSE /\ host.active = TRUE /\ host.pending = <<>> /\ host.transcript # <<>>
  BY <1>1 DEF Phase
<1> DEFINE s == [host EXCEPT !.last = {}, !.at = "idle"]
<1>3. PICK m \in host.last : host' \in AfterRun(s, m.stop)
  BY <1>2 DEF EndRun
<1>4. Only(host, s, {"last", "at"}) /\ s.last = {} /\ s.at = "idle"
  BY <1>1 DEF Only, NewHost
<1> HIDE DEF s
<1>5. Books(s) /\ Same(host, s)
  BY <1>1, <1>4, BooksKept, SilentFields
<1>6. /\ s.calls = host.calls /\ s.done = host.done /\ s.preflight = host.preflight
      /\ s.summaries = host.summaries /\ s.issued = host.issued /\ s.cleared = host.cleared
      /\ s.refused = host.refused /\ s.retry = host.retry /\ s.pending = host.pending
      /\ s.active = host.active /\ s.follow = host.follow /\ s.more = host.more
      /\ s.transcript = host.transcript
  BY <1>4 DEF Only, NewHost
<1>7. Between(s)
  BY <1>1, <1>2, <1>4, <1>5, <1>6 DEF Between, Fields, Orderly, Places
<1>8. Sound(host') /\ Goes(s, host')
  BY <1>3, <1>7, RunsOut
<1> QED
  BY <1>5, <1>6, <1>8, GoesOn

\* The end of the sleep before a retry.
LEMMA WakeStep ==
  ASSUME IInv, Wake
  PROVE  Sound(host') /\ Goes(host, host')
<1>1. Sound(host) /\ host.at = "sleeping" /\ host' = Continue(host)
  BY DEF IInv, Wake
<1>2. Between(host)
  BY <1>1 DEF Sound, Phase, Orderly, Between
<1> QED
  BY <1>1, <1>2, Continues

\* A step that moves none of the user's messages.
Quiet(s, t) ==
  Same(s, t) /\ t.cleared = s.cleared /\ t.follow = s.follow /\ t.active = s.active

\* A step of the host.
Steps(s, t) == Quiet(s, t) \/ (s.active = TRUE /\ Goes(s, t))

\* A summary ends, with or without effect on the transcript.
LEMMA SummaryEnds ==
  ASSUME NEW s, Sound(s), NEW c \in s.summaries,
         NEW t, Books(t), Same(s, t), Only(s, t, {"summaries", "path", "transcript"}),
         t.summaries = s.summaries \ {c}, s.transcript # <<>> => t.transcript # <<>>
  PROVE  /\ c.why # "runEnd" => Sound(t) /\ Quiet(s, t)
         /\ c.why = "runEnd" => Between(t)
         /\ t.follow = s.follow /\ t.cleared = s.cleared /\ t.active = s.active
         /\ c.why = "runEnd" => s.active = TRUE
<1>1. Books(s) /\ Fields(s) /\ Orderly(s) /\ Phase(s)
  BY DEF Sound
<1>2. /\ t.calls = s.calls /\ t.done = s.done /\ t.preflight = s.preflight
      /\ t.issued = s.issued /\ t.cleared = s.cleared /\ t.last = s.last
      /\ t.refused = s.refused /\ t.retry = s.retry /\ t.pending = s.pending
      /\ t.active = s.active /\ t.follow = s.follow /\ t.more = s.more /\ t.at = s.at
      /\ t.custom = s.custom /\ t.bash = s.bash
  BY DEF Only, NewHost
<1>3. Fields(t)
  BY <1>1, <1>2 DEF Fields
<1>4. Orderly(t)
  BY <1>1, <1>2 DEF Orderly
<1>5. Phase(t)
  BY <1>1, <1>2 DEF Phase
<1>6. c.why = "runEnd" => s.at = "compacting" /\ \A d \in t.summaries : d.why # "runEnd"
  BY <1>1 DEF Orderly
<1>7. c.why = "runEnd" => Between(t) /\ s.active = TRUE
  BY <1>1, <1>2, <1>3, <1>4, <1>6 DEF Between, Phase
<1> QED
  BY <1>2, <1>3, <1>4, <1>5, <1>7 DEF Sound, Quiet

\* A summary is written.
LEMMA FinishStep ==
  ASSUME IInv, NEW c, Finish(c)
  PROVE  Sound(host') /\ Steps(host, host')
<1> DEFINE u == Compacted(host, c)
           t == IF c.retry THEN DropFailedResponse(u) ELSE u
<1>1. /\ Sound(host) /\ Books(host) /\ c \in host.summaries /\ host.summaries \subseteq Summaries
      /\ host' = (IF c.why # "runEnd" THEN t ELSE IF c.retry THEN Continue(t) ELSE ContinueIfQueued(t))
  BY DEF IInv, Sound, Fields, Finish, FinishCompaction
<1>2. /\ Books(u) /\ Same(host, u) /\ Only(host, u, {"summaries", "path", "transcript"})
      /\ u.transcript # <<>> /\ u.summaries = host.summaries \ {c}
  BY <1>1, SummaryRecorded
<1> HIDE DEF u
<1>3. /\ Books(t) /\ Same(host, t) /\ Only(host, t, {"summaries", "path", "transcript"})
      /\ t.transcript # <<>> /\ t.summaries = host.summaries \ {c}
  <2>1. CASE c.retry
    <3>1. t = DropFailedResponse(u)
      BY <2>1
    <3> HIDE DEF t
    <3>2. Books(t) /\ Same(u, t) /\ Only(u, t, {"transcript"}) /\ t.transcript # <<>>
      BY <1>2, <3>1, FailedResponseDropped
    <3> QED
      BY <1>2, <3>2 DEF Same, Only, NewHost
  <2>2. CASE ~c.retry
    BY <1>2, <2>2
  <2> QED
    BY <2>1, <2>2
<1> HIDE DEF t
<1>4. /\ c.why # "runEnd" => Sound(t) /\ Quiet(host, t)
      /\ c.why = "runEnd" => Between(t)
      /\ t.follow = host.follow /\ t.cleared = host.cleared
      /\ c.why = "runEnd" => host.active = TRUE
  BY <1>1, <1>3, SummaryEnds
<1>5. CASE c.why # "runEnd"
  BY <1>1, <1>4, <1>5 DEF Steps
<1>6. CASE c.why = "runEnd"
  <2>1. Sound(host') /\ Goes(t, host')
    BY <1>1, <1>4, <1>6, Continues, ContinuesIfQueued
  <2> QED
    BY <1>3, <1>4, <1>6, <2>1, GoesOn DEF Steps
<1> QED
  BY <1>5, <1>6

\* A summary fails or is cancelled.
LEMMA AbandonStep ==
  ASSUME IInv, NEW c, Abandon(c)
  PROVE  Sound(host') /\ Steps(host, host')
<1> DEFINE t == [host EXCEPT !.summaries = @ \ {c}]
<1>1. /\ Sound(host) /\ Books(host) /\ c \in host.summaries
      /\ host' = IF c.why = "runEnd" THEN ContinueIfQueued(t) ELSE t
  BY DEF IInv, Sound, Abandon, AbandonCompaction
<1>2. Only(host, t, {"summaries"}) /\ t.summaries = host.summaries \ {c}
  BY <1>1 DEF Only, NewHost, Books
<1> HIDE DEF t
<1>3. Books(t) /\ Same(host, t)
  BY <1>1, <1>2, BooksKept, SilentFields
<1>4. Only(host, t, {"summaries", "path", "transcript"}) /\ t.transcript = host.transcript
  BY <1>2 DEF Only, NewHost
<1>5. /\ c.why # "runEnd" => Sound(t) /\ Quiet(host, t)
      /\ c.why = "runEnd" => Between(t)
      /\ t.follow = host.follow /\ t.cleared = host.cleared
      /\ c.why = "runEnd" => host.active = TRUE
  BY <1>1, <1>2, <1>3, <1>4, SummaryEnds
<1>6. CASE c.why # "runEnd"
  BY <1>1, <1>5, <1>6 DEF Steps
<1>7. CASE c.why = "runEnd"
  <2>1. Sound(host') /\ Goes(t, host')
    BY <1>1, <1>5, <1>7, ContinuesIfQueued
  <2> QED
    BY <1>3, <1>5, <1>7, <2>1, GoesOn DEF Steps
<1> QED
  BY <1>6, <1>7

-----------------------------------------------------------------------------
(* What every step keeps.                                                  *)

Withdrawn(s) == {m.n : m \in {c \in s.cleared : c.role = "user"}}

\* A follow-up comes last.
ComesLast(s, t) ==
  Len(t.follow) < Len(s.follow) /\ t.cleared = s.cleared => t.steer = <<>> /\ ~t.more

Keeps == [Contract!Next]_(Contract!vars) /\ ComesLast(host, host')

\* The contract of the host, in the terms of these proofs.
LEMMA ContractTerms ==
  /\ Contract!vars = <<host.active, UsersWaiting(host), UsersHeard(host), Withdrawn(host)>>
  /\ (Contract!vars)' = <<host'.active, UsersWaiting(host'), UsersHeard(host'), Withdrawn(host')>>
BY DEF Contract!vars, UsersWaiting, UsersHeard, OnPath, UsersInSession, Withdrawn

\* A step that moves none of the user's messages is no step of the contract.
LEMMA ContractQuiet ==
  ASSUME Same(host, host'), host'.active = host.active, host'.cleared = host.cleared
  PROVE  [Contract!Next]_(Contract!vars)
BY ContractTerms DEF Same, Withdrawn

\* A message of the user waits.
LEMMA ContractQueue ==
  ASSUME NEW n \in 1..MaxMessages, n \notin UsersHeard(host) \cup Withdrawn(host),
         UsersWaiting(host') = UsersWaiting(host) \cup {n}, UsersHeard(host') = UsersHeard(host),
         host'.active = host.active, host'.cleared = host.cleared
  PROVE  [Contract!Next]_(Contract!vars)
<1>1. Contract!Queue(n)
  BY DEF Contract!Queue, UsersWaiting, UsersHeard, OnPath, UsersInSession, Withdrawn
<1> QED
  BY <1>1 DEF Contract!Next, Contract!Numbers

\* A run begins, with a message of the user or without.
LEMMA ContractStart ==
  ASSUME NEW new \in {{}} \cup {{n} : n \in 1..MaxMessages},
         new \cap (UsersHeard(host) \cup UsersWaiting(host) \cup Withdrawn(host)) = {},
         UsersWaiting(host') = UsersWaiting(host), UsersHeard(host') = UsersHeard(host) \cup new,
         ~host.active, host'.active = TRUE, host'.cleared = host.cleared
  PROVE  [Contract!Next]_(Contract!vars)
<1>1. Contract!Start(new)
  BY DEF Contract!Start, UsersWaiting, UsersHeard, OnPath, UsersInSession, Withdrawn
<1> QED
  BY <1>1 DEF Contract!Next, Contract!Numbers

\* Messages are given back.
LEMMA ContractWithdraw ==
  ASSUME NEW some, some \subseteq UsersWaiting(host),
         UsersWaiting(host') = UsersWaiting(host) \ some, UsersHeard(host') = UsersHeard(host),
         Withdrawn(host') = Withdrawn(host) \cup some, host'.active = host.active
  PROVE  [Contract!Next]_(Contract!vars)
<1>1. CASE some = {}
  BY <1>1, ContractTerms
<1>2. CASE some # {}
  <2>1. Contract!Withdraw(some)
    BY <1>2 DEF Contract!Withdraw, UsersWaiting, UsersHeard, OnPath, UsersInSession, Withdrawn
  <2>2. some \in SUBSET (OfUser(host.steer) \cup OfUser(host.follow) \cup OfUser(host.pending))
    BY DEF UsersWaiting
  <2> QED
    BY <2>1, <2>2 DEF Contract!Next
<1> QED
  BY <1>1, <1>2

\* A step of a working host: messages are heard, or it settles when none waits.
LEMMA ContractGoes ==
  ASSUME host.active = TRUE, host'.active = (host'.at # "idle"), Goes(host, host')
  PROVE  [Contract!Next]_(Contract!vars)
<1>0. host'.cleared = host.cleared
  BY DEF Goes
<1>1. CASE host'.active /\ Hears(host, host')
  <2>1. PICK some \in SUBSET UsersWaiting(host) :
          /\ UsersHeard(host') = UsersHeard(host) \cup some
          /\ UsersWaiting(host') = UsersWaiting(host) \ some
    BY <1>1 DEF Hears
  <2>2. CASE some = {}
    <3>1. host'.active = host.active
      BY <1>1
    <3>2. Same(host, host')
      BY <2>1, <2>2 DEF Same
    <3> QED
      BY <1>0, <3>1, <3>2, ContractQuiet
  <2>3. CASE some # {}
    <3>1. host'.active = host.active
      BY <1>1
    <3>2. Contract!Hear(some)
      BY <1>0, <2>1, <2>3, <3>1 DEF Contract!Hear, UsersWaiting, UsersHeard, OnPath, UsersInSession
    <3>3. some \in SUBSET (OfUser(host.steer) \cup OfUser(host.follow) \cup OfUser(host.pending))
      BY DEF UsersWaiting
    <3> QED
      BY <3>2, <3>3 DEF Contract!Next
  <2> QED
    BY <2>2, <2>3
<1>2. CASE ~host'.active /\ Same(host, host') /\ UsersWaiting(host) = {}
  <2>1. host'.active = FALSE
    BY <1>2
  <2>2. Contract!Settle
    BY <1>0, <1>2, <2>1 DEF Contract!Settle, Same, UsersWaiting, UsersHeard, OnPath, UsersInSession
  <2> QED
    BY <2>2 DEF Contract!Next
<1> QED
  BY <1>1, <1>2 DEF Goes

\* No follow-up leaves the queue.
LEMMA FollowsStay ==
  ASSUME NEW s, Books(s), NEW t, t.follow = s.follow
  PROVE  ComesLast(s, t)
<1>1. s.follow \in Seq(MessagesSent)
  BY DEF Books, Lists, Stores
<1>2. ~(Len(s.follow) < Len(s.follow))
  BY <1>1
<1> QED
  BY <1>2 DEF ComesLast

\* A step of the host keeps the contract and the order of follow-ups.
LEMMA StepsKeep ==
  ASSUME IInv, Sound(host'), Steps(host, host')
  PROVE  Keeps
<1>1. Books(host) /\ host'.active = (host'.at # "idle")
  BY DEF IInv, Sound, Phase
<1>2. CASE Quiet(host, host')
  BY <1>1, <1>2, ContractQuiet, FollowsStay DEF Keeps, Quiet
<1>3. CASE host.active = TRUE /\ Goes(host, host')
  <2>1. [Contract!Next]_(Contract!vars)
    BY <1>1, <1>3, ContractGoes
  <2>2. ComesLast(host, host')
    <3>1. CASE host'.follow = host.follow
      BY <1>1, <3>1, FollowsStay
    <3>2. CASE host'.steer = <<>> /\ ~host'.more
      BY <3>2 DEF ComesLast
    <3> QED
      BY <1>3, <3>1, <3>2 DEF Goes
  <2> QED
    BY <2>1, <2>2 DEF Keeps
<1> QED
  BY <1>2, <1>3 DEF Steps

-----------------------------------------------------------------------------
(* The steps of the callers.                                               *)

\* What follows from the invariant, by name.
LEMMA Given ==
  ASSUME IInv
  PROVE  /\ Sound(host) /\ Books(host) /\ Fields(host) /\ Orderly(host) /\ Phase(host)
         /\ DOMAIN host = DOMAIN NewHost /\ host.issued \in 0..MaxMessages /\ host.issued \in Nat
         /\ MaxMessages \in Nat
         /\ ~host.active => host.at = "idle" /\ host.pending = <<>> /\ host.custom = <<>> /\ host.bash = <<>>
<1>1. Sound(host) /\ Books(host) /\ Fields(host) /\ Orderly(host) /\ Phase(host)
      /\ DOMAIN host = DOMAIN NewHost
  BY DEF IInv, Sound, Books
<1>2. host.issued \in 0..MaxMessages /\ host.issued \in Nat /\ MaxMessages \in Nat
  BY <1>1, BoundsAssumption DEF Fields
<1>3. ~host.active => host.at = "idle" /\ host.pending = <<>> /\ host.custom = <<>> /\ host.bash = <<>>
  BY <1>1 DEF Phase
<1> QED
  BY <1>1, <1>2, <1>3

\* The fields that make the order of prompts and phases, but for the messages.
SameOrder(s, t) ==
  /\ t.active = s.active /\ t.at = s.at /\ t.last = s.last /\ t.done = s.done /\ t.calls = s.calls
  /\ t.more = s.more /\ t.retry = s.retry

\* A step that leaves the order of the run alone keeps the host sound.
LEMMA QuietSound ==
  ASSUME IInv, NEW t, Books(t), SameOrder(host, t),
         t.preflight \subseteq Prompts, \A p, q \in t.preflight : p = q,
         \A p \in t.preflight : p.stage # "input" => ~host.active,
         t.summaries \subseteq Summaries,
         \A c \in t.summaries : c \in host.summaries \/ c.why # "runEnd",
         t.issued \in 0..MaxMessages, t.cleared \subseteq MessagesSent, t.refused \subseteq 1..MaxMessages,
         t.pending = host.pending, host.transcript # <<>> => t.transcript # <<>>,
         ~host.active => t.custom = <<>> /\ t.bash = <<>>
  PROVE  Sound(t)
<1>1. Fields(t)
  BY Given DEF SameOrder, Fields
<1>2. Orderly(t)
  BY Given DEF SameOrder, Orderly
<1>3. Phase(t)
  BY Given DEF SameOrder, Phase
<1> QED
  BY <1>1, <1>2, <1>3 DEF Sound

\* A summary is begun.
LEMMA SummaryStep ==
  ASSUME IInv, NEW p \in Preparations(host.path), NEW why, why \in {"turn", "manual"},
         host' = Summarise(host, why, p, FALSE)
  PROVE  Sound(host') /\ Keeps
<1> DEFINE no == FALSE
<1>a. Books(host)
  BY Given
<1>b. host.summaries \subseteq Summaries
  BY Given DEF Fields
<1>c. no \in BOOLEAN /\ why \in {"prompt", "turn", "manual", "runEnd"} /\ p \in Preparations(host.path)
  OBVIOUS
<1>d. host' = Summarise(host, why, p, no)
  OBVIOUS
<1> HIDE DEF no
<1>2. /\ Books(host') /\ Same(host, host') /\ Only(host, host', {"summaries", "compactions"})
      /\ \E c \in Summaries : c.why = why /\ host'.summaries = host.summaries \cup {c}
  <2>1. LET v == Summarise(host, why, p, no)
        IN  /\ Books(v) /\ Same(host, v) /\ Only(host, v, {"summaries", "compactions"})
            /\ \E c \in Summaries : c.why = why /\ v.summaries = host.summaries \cup {c}
    BY <1>a, <1>b, <1>c, Summarises
  <2> QED
    BY <1>d, <2>1
<1>3. /\ SameOrder(host, host') /\ host'.preflight = host.preflight /\ host'.issued = host.issued
      /\ host'.cleared = host.cleared /\ host'.refused = host.refused /\ host'.pending = host.pending
      /\ host'.transcript = host.transcript /\ host'.custom = host.custom /\ host'.bash = host.bash
      /\ host'.follow = host.follow
  BY <1>2 DEF Only, NewHost, SameOrder
<1>4. Sound(host')
  <2>1. PICK c \in Summaries : c.why = why /\ host'.summaries = host.summaries \cup {c}
    BY <1>2
  <2>2. /\ host'.summaries \subseteq Summaries
        /\ \A d \in host'.summaries : d \in host.summaries \/ d.why # "runEnd"
    BY <1>b, <2>1
  <2>3. /\ host.preflight \subseteq Prompts /\ \A r, q \in host.preflight : r = q
        /\ \A q \in host.preflight : q.stage # "input" => ~host.active
        /\ host.issued \in 0..MaxMessages /\ host.cleared \subseteq MessagesSent
        /\ host.refused \subseteq 1..MaxMessages
        /\ ~host.active => host.custom = <<>> /\ host.bash = <<>>
    BY Given DEF Fields, Orderly
  <2>4. Books(host') /\ SameOrder(host, host')
    BY <1>2, <1>3
  <2>5. /\ host'.preflight \subseteq Prompts /\ \A r, q \in host'.preflight : r = q
        /\ \A q \in host'.preflight : q.stage # "input" => ~host.active
        /\ host'.issued \in 0..MaxMessages /\ host'.cleared \subseteq MessagesSent
        /\ host'.refused \subseteq 1..MaxMessages
        /\ host'.pending = host.pending /\ (host.transcript # <<>> => host'.transcript # <<>>)
        /\ ~host.active => host'.custom = <<>> /\ host'.bash = <<>>
    BY <1>3, <2>3
  <2> QED
    BY <2>2, <2>4, <2>5, QuietSound
<1>5. Steps(host, host')
  BY <1>2, <1>3 DEF Steps, Quiet, SameOrder
<1> QED
  BY <1>4, <1>5, StepsKeep

\* A prompt is submitted: callers that take turns find no other.
LEMMA SubmitStep ==
  ASSUME IInv, TakeTurns, NEW how \in Hows, Submit(how)
  PROVE  Sound(host') /\ Keeps
<1> DEFINE n == host.issued + 1
           p == [n |-> n, how |-> how, stage |-> "input"]
<1>1. /\ host.preflight = {} /\ host.issued < MaxMessages /\ "user" \in Sorts
      /\ host' = [host EXCEPT !.issued = @ + 1, !.preflight = @ \cup {p}]
  BY DEF Submit, CanIssue, Busy, Next1
<1>2. /\ Only(host, host', {"issued", "preflight"}) /\ host'.issued = n /\ host'.preflight = {p}
  BY <1>1, Given DEF Only, NewHost
<1>3. n \in 1..MaxMessages /\ n \in 0..MaxMessages /\ p \in Prompts /\ p.n = n /\ p.stage = "input"
  <2>1. n \in 1..MaxMessages /\ n \in 0..MaxMessages
    BY <1>1, Given
  <2> QED
    BY <1>1, <2>1 DEF Prompts
<1>4. n \notin Gone(host) \cup Waits(host) /\ 1..n = (1..host.issued) \cup {n}
  BY Given, FreshNumber
<1> HIDE DEF n, p
<1>5. /\ SameOrder(host, host') /\ host'.summaries = host.summaries
      /\ host'.cleared = host.cleared /\ host'.refused = host.refused /\ host'.pending = host.pending
      /\ host'.transcript = host.transcript /\ host'.custom = host.custom /\ host'.bash = host.bash
      /\ host'.follow = host.follow /\ host'.path = host.path /\ SameLists(host, host')
      /\ DOMAIN host' = DOMAIN NewHost
  BY <1>2 DEF Only, NewHost, SameOrder, SameLists, Stores
<1>6. Prompted(host') = {n} /\ Prompted(host) = {}
  BY <1>1, <1>2, <1>3 DEF Prompted
<1>7. Books(host') /\ Same(host, host')
  <2>1. \A q \in host'.preflight : q.n \notin Gone(host) \cup Waits(host)
    BY <1>2, <1>3, <1>4
  <2>2. 1..host'.issued = Gone(host) \cup host'.refused \cup Prompted(host') \cup Waits(host)
    BY <1>2, <1>4, <1>5, <1>6, Given DEF Books, Ledger
  <2> QED
    BY <1>5, <2>1, <2>2, Given, DeskChanges DEF Same
<1>8. Sound(host')
  BY <1>2, <1>3, <1>5, <1>7, Given, QuietSound DEF Fields
<1>9. Steps(host, host')
  BY <1>5, <1>7 DEF Steps, Quiet, SameOrder
<1> QED
  BY <1>8, <1>9, StepsKeep

\* A prompt is refused.
LEMMA RefuseStep ==
  ASSUME IInv, NEW p \in host.preflight, Only(host, host', {"preflight", "refused"}),
         host'.preflight = host.preflight \ {p}, host'.refused = host.refused \cup {p.n}
  PROVE  Sound(host') /\ Keeps
<1>1. p.n \in 1..MaxMessages
  BY Given DEF Fields, Prompts
<1>2. /\ SameOrder(host, host') /\ host'.summaries = host.summaries /\ host'.issued = host.issued
      /\ host'.cleared = host.cleared /\ host'.pending = host.pending
      /\ host'.transcript = host.transcript /\ host'.custom = host.custom /\ host'.bash = host.bash
      /\ host'.follow = host.follow /\ host'.path = host.path /\ SameLists(host, host')
      /\ DOMAIN host' = DOMAIN NewHost
  BY DEF Only, NewHost, SameOrder, SameLists, Stores
<1>3. Prompted(host) = Prompted(host') \cup {p.n}
  BY DEF Prompted
<1>4. Books(host') /\ Same(host, host')
  <2>1. \A q \in host'.preflight : q.n \notin Gone(host) \cup Waits(host)
    BY Given DEF Books, Ledger
  <2>2. 1..host'.issued = Gone(host) \cup host'.refused \cup Prompted(host') \cup Waits(host)
    BY <1>2, <1>3, Given DEF Books, Ledger
  <2> QED
    BY <1>2, <2>1, <2>2, Given, DeskChanges DEF Same
<1>5. Sound(host')
  BY <1>1, <1>2, <1>4, Given, QuietSound DEF Fields, Orderly
<1>6. Steps(host, host')
  BY <1>2, <1>4 DEF Steps, Quiet, SameOrder
<1> QED
  BY <1>5, <1>6, StepsKeep

\* A user's message goes to the list of its kind.
LEMMA UserQueued ==
  ASSUME NEW s, DOMAIN s = DOMAIN NewHost, NEW n, NEW how
  PROVE  LET t == QueueUser(s, n, how)
             l == IF how = "followUp" THEN "follow" ELSE "steer"
         IN  /\ Only(s, t, {l, "shownSteer", "shownFollow"})
             /\ t[l] = Append(s[l], Sent("user", n))
BY DEF QueueUser, Enqueue, Only, NewHost

\* The session rests, and a prompt is checked.
LEMMA ChecksPrompt ==
  ASSUME IInv, ~host.active, NEW p, host.preflight = {p}, NEW q \in Prompts, q.n = p.n,
         Only(host, host', {"preflight"}), host'.preflight = {q}
  PROVE  Sound(host') /\ Keeps
<1>1. /\ SameOrder(host, host') /\ host'.summaries = host.summaries /\ host'.issued = host.issued
      /\ host'.cleared = host.cleared /\ host'.refused = host.refused /\ host'.pending = host.pending
      /\ host'.transcript = host.transcript /\ host'.custom = host.custom /\ host'.bash = host.bash
      /\ host'.follow = host.follow /\ host'.path = host.path /\ SameLists(host, host')
      /\ DOMAIN host' = DOMAIN NewHost
  BY DEF Only, NewHost, SameOrder, SameLists, Stores
<1>2. Prompted(host') = Prompted(host)
  BY DEF Prompted
<1>3. Books(host') /\ Same(host, host')
  <2>1. \A r \in host'.preflight : r.n \notin Gone(host) \cup Waits(host)
    BY Given DEF Books, Ledger
  <2>2. 1..host'.issued = Gone(host) \cup host'.refused \cup Prompted(host') \cup Waits(host)
    BY <1>1, <1>2, Given DEF Books, Ledger
  <2> QED
    BY <1>1, <2>1, <2>2, Given, DeskChanges DEF Same
<1>4. Sound(host')
  <2>1. /\ host'.preflight \subseteq Prompts /\ \A r, c \in host'.preflight : r = c
        /\ \A c \in host'.preflight : c.stage # "input" => ~host.active
        /\ host'.summaries \subseteq Summaries
        /\ \A c \in host'.summaries : c \in host.summaries \/ c.why # "runEnd"
        /\ host'.issued \in 0..MaxMessages
        /\ host'.cleared \subseteq MessagesSent /\ host'.refused \subseteq 1..MaxMessages
        /\ (host.transcript # <<>> => host'.transcript # <<>>)
        /\ ~host.active => host'.custom = <<>> /\ host'.bash = <<>>
    BY <1>1, Given DEF Fields, Orderly
  <2> QED
    BY <1>1, <1>3, <2>1, QuietSound
<1>5. Steps(host, host')
  BY <1>1, <1>3 DEF Steps, Quiet, SameOrder
<1> QED
  BY <1>4, <1>5, StepsKeep

\* With nothing deferred nothing is flushed.
LEMMA NothingFlushed ==
  ASSUME NEW s, DOMAIN s = DOMAIN NewHost, s.transcript \in Seq(AnyMessage), s.path \in Seq(Entries),
         s.custom = <<>>, s.bash = <<>>
  PROVE  Only(s, FlushCustom(FlushBash(s)), {})
<1> DEFINE none == EntriesOf(Len(s.path), <<>>)
           a == FlushBash(s)
           t == FlushCustom(a)
<1>1. none = <<>>
  <2>1. Len(s.path) \in Nat /\ <<>> \in Seq(AnyMessage) /\ Len(<<>>) = 0
    OBVIOUS
  <2>2. none \in Seq(Entries) /\ Len(none) = Len(<<>>)
    BY <2>1, EntriesRecorded
  <2> HIDE DEF none
  <2> QED
    BY <2>1, <2>2
<1>2. s.transcript \o <<>> = s.transcript /\ s.path \o <<>> = s.path
  OBVIOUS
<1>3. /\ DOMAIN a = DOMAIN NewHost /\ a.transcript = s.transcript \o <<>>
      /\ a.path = s.path \o none /\ a.streak = s.streak
      /\ \A x \in DOMAIN NewHost \ {"transcript", "path", "streak", "bash"} : a[x] = s[x]
      /\ a.bash = <<>>
  BY DEF FlushBash, RecordAll, NewHost, EntriesOf
<1> HIDE DEF a, none
<1>4. Only(s, a, {})
  BY <1>1, <1>2, <1>3 DEF Only, NewHost
<1>5. a.custom = <<>> /\ a.path = s.path /\ a.transcript = s.transcript
  BY <1>4 DEF Only, NewHost
<1>6. /\ DOMAIN t = DOMAIN NewHost /\ t.transcript = a.transcript \o <<>>
      /\ t.path = a.path \o EntriesOf(Len(a.path), <<>>) /\ t.streak = a.streak
      /\ \A x \in DOMAIN NewHost \ {"transcript", "path", "streak", "custom"} : t[x] = a[x]
      /\ t.custom = <<>>
  BY <1>3, <1>5 DEF FlushCustom, RecordAll, NewHost, EntriesOf
<1> HIDE DEF t
<1>7. t.path = a.path /\ t.transcript = a.transcript /\ t.custom = a.custom
  BY <1>1, <1>2, <1>5, <1>6 DEF none
<1>8. Only(a, t, {})
  BY <1>6, <1>7 DEF Only
<1>9. Only(s, t, {})
  BY <1>4, <1>8 DEF Only
<1> QED
  BY <1>9 DEF t, a

\* A message joins a list.
LEMMA Joins ==
  ASSUME IInv, NEW m \in MessagesSent, NEW l \in Stores \ {"pending"},
         Only(host, host', {l, "shownSteer", "shownFollow", "issued", "preflight"}),
         host'[l] = Append(host[l], m), m.n \notin Gone(host) \cup Waits(host),
         m.role = "user" => l \in {"steer", "follow"}, l \in {"custom", "bash"} => host.active,
         \A q \in host'.preflight : q \in host.preflight /\ q.n # m.n,
         Prompted(host') \cup {m.n} = Prompted(host) \cup {m.n}, host'.issued \in 0..MaxMessages,
         1..host'.issued = (1..host.issued) \cup {m.n}
  PROVE  Sound(host') /\ Keeps
<1>1. /\ host[l] \in Seq(MessagesSent) /\ Distinct(host[l]) /\ m.n \notin Numbers(host[l])
      /\ host.follow \in Seq(MessagesSent)
  <2>1. m.n \notin Numbers(host[l])
    BY WaitsIn
  <2> QED
    BY <2>1, Given DEF Books, Lists, Ledger, Stores
<1>2. /\ host'[l] \in Seq(MessagesSent) /\ Distinct(host'[l])
      /\ Numbers(host'[l]) = Numbers(host[l]) \cup {m.n}
      /\ OfUser(host'[l]) = OfUser(host[l]) \cup (IF m.role = "user" THEN {m.n} ELSE {})
      /\ Len(host'[l]) = Len(host[l]) + 1
  BY <1>1, Appended
<1>3. /\ \A k \in Stores \ {l} : host'[k] = host[k]
      /\ host'.path = host.path /\ host'.transcript = host.transcript
      /\ host'.cleared = host.cleared /\ host'.refused = host.refused
      /\ SameOrder(host, host') /\ host'.summaries = host.summaries /\ host'.pending = host.pending
      /\ DOMAIN host' = DOMAIN NewHost
  BY DEF Only, NewHost, SameOrder, Stores
<1>4. /\ Books(host') /\ UsersHeard(host') = UsersHeard(host)
      /\ UsersWaiting(host') = UsersWaiting(host) \cup (IF m.role = "user" THEN {m.n} ELSE {})
  <2>1. l \in {"nextTurn", "custom", "bash"} => m.role # "user"
    OBVIOUS
  <2>2. l \in Stores
    OBVIOUS
  <2>3. Books(host)
    BY Given
  <2>4. /\ \A q \in host'.preflight : q \in host.preflight /\ q.n # m.n
        /\ Prompted(host') \cup {m.n} = Prompted(host) \cup {m.n}
        /\ 1..host'.issued = (1..host.issued) \cup {m.n} /\ m.n \notin Gone(host) \cup Waits(host)
    OBVIOUS
  <2> QED
    BY ONLY <1>2, <1>3, <2>1, <2>2, <2>3, <2>4, PutsInto
<1>5. Sound(host')
  <2>1. /\ host'.preflight \subseteq Prompts /\ \A r, q \in host'.preflight : r = q
        /\ \A q \in host'.preflight : q.stage # "input" => ~host.active
        /\ host'.summaries \subseteq Summaries
        /\ \A c \in host'.summaries : c \in host.summaries \/ c.why # "runEnd"
        /\ host'.cleared \subseteq MessagesSent /\ host'.refused \subseteq 1..MaxMessages
        /\ host'.pending = host.pending /\ (host.transcript # <<>> => host'.transcript # <<>>)
    BY <1>3, Given DEF Fields, Orderly
  <2>2. ~host.active => host'.custom = <<>> /\ host'.bash = <<>>
    BY <1>3, Given DEF Stores
  <2> QED
    BY <1>3, <1>4, <2>1, <2>2, QuietSound
<1>6. [Contract!Next]_(Contract!vars)
  <2>1. CASE m.role = "user"
    <3>1. m.n \in 1..MaxMessages /\ "user" \in Sorts
      BY <2>1 DEF MessagesSent
    <3>2. m.n \notin UsersHeard(host) \cup Withdrawn(host)
      <4>1. UsersHeard(host) \subseteq OnPath(host.path, Sorts)
        BY <3>1 DEF UsersHeard, OnPath
      <4>2. Withdrawn(host) \subseteq ClearedNumbers(host)
        BY DEF Withdrawn, ClearedNumbers
      <4> QED
        BY <4>1, <4>2 DEF Gone
    <3>3. host'.active = host.active
      BY <1>3 DEF SameOrder
    <3>4. UsersWaiting(host') = UsersWaiting(host) \cup {m.n}
      BY <1>4, <2>1
    <3> QED
      BY <1>3, <1>4, <3>1, <3>2, <3>3, <3>4, ContractQueue
  <2>2. CASE m.role # "user"
    <3>1. Same(host, host')
      BY <1>4, <2>2 DEF Same
    <3> QED
      BY <1>3, <3>1, ContractQuiet DEF SameOrder
  <2> QED
    BY <2>1, <2>2
<1>7. ComesLast(host, host')
  <2>1. CASE l = "follow"
    <3>1. Len(host'.follow) = Len(host.follow) + 1 /\ Len(host.follow) \in Nat
      BY <1>1, <1>2, <2>1
    <3>2. ~(Len(host'.follow) < Len(host.follow))
      BY <3>1
    <3> QED
      BY <3>2 DEF ComesLast
  <2>2. CASE l # "follow"
    <3>1. host'.follow = host.follow
      BY <1>3, <2>2 DEF Stores
    <3> QED
      BY <3>1, Given, FollowsStay
  <2> QED
    BY <2>1, <2>2
<1> QED
  BY <1>5, <1>6, <1>7 DEF Keeps

\* A prompt passes the handlers of its input.
LEMMA PassInputStep ==
  ASSUME IInv, NEW p, PassInput(p)
  PROVE  Sound(host') /\ Keeps
<1> DEFINE s == [host EXCEPT !.preflight = @ \ {p}]
           q == [p EXCEPT !.stage = "checked"]
           u == FlushCustom(FlushBash(s))
           l == IF p.how = "followUp" THEN "follow" ELSE "steer"
           m == Sent("user", p.n)
<1>1. p \in host.preflight /\ p \in Prompts /\ host.preflight = {p}
  BY Given DEF PassInput, Fields, Orderly
<1>2. Only(host, s, {"preflight"}) /\ s.preflight = {}
  BY <1>1, Given DEF Only, NewHost
<1>3. /\ p.n \in 1..MaxMessages /\ "user" \in Sorts /\ p.how \in Hows
      /\ Prompted(host) = {p.n} /\ p.n \in 1..host.issued /\ p.n \notin Gone(host) \cup Waits(host)
  <2>1. Prompted(host) = {p.n}
    BY <1>1 DEF Prompted
  <2> QED
    BY <1>1, <2>1, Given DEF Prompts, Books, Ledger
<1>4. CASE ~host.active
  <2>1. host' = [u EXCEPT !.preflight = @ \cup {q}]
    BY <1>2, <1>4 DEF PassInput, Only, NewHost
  <2>2. Only(s, u, {})
    <3>1. DOMAIN s = DOMAIN NewHost /\ s.transcript = host.transcript /\ s.path = host.path
          /\ s.custom = <<>> /\ s.bash = <<>>
      BY <1>2, <1>4, Given DEF Only, NewHost
    <3>2. s.transcript \in Seq(AnyMessage) /\ s.path \in Seq(Entries)
      BY <3>1, Given DEF Books, Logs
    <3> HIDE DEF s
    <3> QED
      BY <3>1, <3>2, NothingFlushed
  <2>3. q \in Prompts /\ q.n = p.n
    BY <1>1 DEF Prompts
  <2> HIDE DEF s, u, q
  <2>4. Only(host, host', {"preflight"}) /\ host'.preflight = {q}
    BY <1>2, <2>1, <2>2 DEF Only, NewHost
  <2> QED
    BY <1>1, <1>3, <1>4, <2>3, <2>4, ChecksPrompt
<1>5. CASE host.active /\ p.how = "none"
  <2>1. host' = [s EXCEPT !.refused = @ \cup {p.n}]
    BY <1>2, <1>5 DEF PassInput, Only, NewHost
  <2>2. /\ Only(host, host', {"preflight", "refused"}) /\ host'.preflight = host.preflight \ {p}
        /\ host'.refused = host.refused \cup {p.n}
    BY <2>1, Given DEF Only, NewHost
  <2> QED
    BY <1>1, <2>2, RefuseStep
<1>6. CASE host.active /\ p.how # "none"
  <2>1. host' = QueueUser(s, p.n, p.how)
    BY <1>2, <1>6 DEF PassInput, Only, NewHost
  <2>2. m \in MessagesSent /\ m.role = "user" /\ m.n = p.n
    BY <1>3, Kinds
  <2>3. l \in {"steer", "follow"} /\ l \in Stores \ {"pending"} /\ l \in Stores
    BY DEF Stores
  <2>4. Only(s, host', {l, "shownSteer", "shownFollow"}) /\ host'[l] = Append(s[l], m)
    <3>1. DOMAIN s = DOMAIN NewHost
      BY <1>2 DEF Only
    <3> HIDE DEF s
    <3> QED
      BY <2>1, <3>1, UserQueued
  <2> HIDE DEF s, l, m
  <2>5. /\ Only(host, host', {l, "shownSteer", "shownFollow", "issued", "preflight"})
        /\ host'[l] = Append(host[l], m) /\ host'.preflight = {} /\ host'.issued = host.issued
    BY <1>2, <2>3, <2>4 DEF Only, NewHost
  <2>6. Prompted(host') = {}
    BY <2>5 DEF Prompted
  <2>7. host'.issued \in 0..MaxMessages /\ 1..host'.issued = (1..host.issued) \cup {m.n}
        /\ Prompted(host') \cup {m.n} = Prompted(host) \cup {m.n}
    BY <1>3, <2>2, <2>5, <2>6, Given
  <2>8. m.n \notin Gone(host) \cup Waits(host) /\ (l \in {"custom", "bash"} => host.active)
        /\ \A r \in host'.preflight : r \in host.preflight /\ r.n # m.n
    BY <1>3, <2>2, <2>3, <2>5
  <2> QED
    BY <2>2, <2>3, <2>5, <2>7, <2>8, Joins
<1> QED
  BY <1>4, <1>5, <1>6

\* The user's messages are among the messages.
LEMMA UsersAreSomewhere ==
  ASSUME IInv
  PROVE  /\ UsersWaiting(host) \subseteq Waits(host) /\ Withdrawn(host) \subseteq Gone(host)
         /\ "user" \in Sorts => UsersHeard(host) \subseteq Gone(host)
<1>1. \A l \in {"steer", "follow", "pending"} : l \in Stores /\ host[l] \in Seq(MessagesSent)
  BY Given DEF Books, Lists, Stores
<1>2. \A l \in {"steer", "follow", "pending"} : OfUser(host[l]) \subseteq Numbers(host[l])
  BY <1>1, Numbered
<1>3. UsersWaiting(host) \subseteq Waits(host)
  <2> SUFFICES ASSUME NEW n \in UsersWaiting(host) PROVE n \in Waits(host)
    OBVIOUS
  <2>1. PICK l \in {"steer", "follow", "pending"} : n \in OfUser(host[l])
    BY DEF UsersWaiting
  <2> QED
    BY <1>1, <1>2, <2>1, WaitsIn
<1>4. Withdrawn(host) \subseteq Gone(host)
  BY DEF Withdrawn, Gone, ClearedNumbers
<1>5. "user" \in Sorts => UsersHeard(host) \subseteq Gone(host)
  BY DEF UsersHeard, OnPath, Gone
<1> QED
  BY <1>3, <1>4, <1>5

\* A prompt is refused by a handler, or for want of a key.
LEMMA RefusesStep ==
  ASSUME IInv, NEW p, Refuse(p)
  PROVE  Sound(host') /\ Keeps
<1>1. p \in host.preflight /\ host' = [host EXCEPT !.preflight = @ \ {p}, !.refused = @ \cup {p.n}]
  BY DEF Refuse
<1>2. /\ Only(host, host', {"preflight", "refused"}) /\ host'.preflight = host.preflight \ {p}
      /\ host'.refused = host.refused \cup {p.n}
  BY <1>1, Given DEF Only, NewHost
<1> QED
  BY <1>1, <1>2, RefuseStep

\* The context is compacted before a prompt is sent.
LEMMA CompactBeforePromptStep ==
  ASSUME IInv, NEW p, NEW prep, CompactBeforePrompt(p, prep)
  PROVE  Sound(host') /\ Keeps
<1> DEFINE q == [p EXCEPT !.stage = "ready"]
           s == [host EXCEPT !.preflight = (@ \ {p}) \cup {q}]
           r == [s EXCEPT !.recovered = TRUE]
           d == DropLastResponse(r)
           changed == {"preflight", "recovered", "transcript"}
<1>1. p \in host.preflight /\ p \in Prompts /\ host.preflight = {p} /\ ~host.active
  BY Given DEF CompactBeforePrompt, Fields, Orderly
<1>2. Only(host, s, {"preflight"}) /\ s.preflight = {q} /\ q \in Prompts /\ q.n = p.n
  BY <1>1, Given DEF Only, NewHost, Prompts
<1>3. PICK retry \in BOOLEAN, t \in {s, d} : prep \in Preparations(t.path) /\ host' = Summarise(t, "prompt", prep, retry)
  BY DEF CompactBeforePrompt, Overflowed
<1> HIDE DEF q, s
<1>4. Books(s) /\ Same(host, s)
  <2>1. Prompted(s) = Prompted(host)
    BY <1>1, <1>2 DEF Prompted
  <2>2. /\ DOMAIN s = DOMAIN NewHost /\ SameLists(host, s) /\ s.path = host.path
        /\ s.transcript = host.transcript /\ s.cleared = host.cleared /\ s.refused = host.refused
        /\ s.issued = host.issued
    BY <1>2 DEF Only, NewHost, SameLists, Stores
  <2>3. \A c \in s.preflight : c.n \notin Gone(host) \cup Waits(host)
    BY <1>1, <1>2, Given DEF Books, Ledger
  <2>4. 1..s.issued = Gone(host) \cup s.refused \cup Prompted(s) \cup Waits(host)
    BY <2>1, <2>2, Given DEF Books, Ledger
  <2>5. Books(host)
    BY Given
  <2> QED
    BY <2>2, <2>3, <2>4, <2>5, DeskChanges DEF Same
<1>5. /\ Books(t) /\ Same(host, t) /\ Only(host, t, changed) /\ t.preflight = {q}
      /\ (host.transcript # <<>> => t.transcript # <<>>)
  <2>1. CASE t = s
    BY <1>2, <1>4, <2>1 DEF Only, NewHost
  <2>2. CASE t = d
    <3>1. Only(s, r, {"recovered"})
      BY <1>2 DEF Only, NewHost
    <3> HIDE DEF r
    <3>2. Books(r) /\ Same(s, r)
      BY <1>4, <3>1, BooksKept, SilentFields
    <3>3. Books(d) /\ Same(r, d) /\ Only(r, d, {"transcript"}) /\ (r.transcript # <<>> => d.transcript # <<>>)
      BY <3>2, ResponseDropped
    <3> HIDE DEF d
    <3>4. Only(host, d, changed) /\ d.preflight = {q} /\ r.transcript = host.transcript
      BY <1>2, <3>1, <3>3 DEF Only, NewHost
    <3>5. Same(host, d)
      BY <1>4, <3>2, <3>3 DEF Same
    <3> QED
      BY <2>2, <3>3, <3>4, <3>5
  <2> QED
    BY <1>3, <2>1, <2>2
<1>6. /\ Books(host') /\ Same(t, host') /\ Only(t, host', {"summaries", "compactions"})
      /\ \E c \in Summaries : c.why = "prompt" /\ host'.summaries = host.summaries \cup {c}
  <2>1. t.summaries = host.summaries
    BY <1>5 DEF Only, NewHost
  <2>2. t.summaries \subseteq Summaries
    BY <2>1, Given DEF Fields
  <2>3. Books(t)
    BY <1>5
  <2>4. "prompt" \in {"prompt", "turn", "manual", "runEnd"} /\ prep \in Preparations(t.path)
    BY <1>3
  <2>5. LET v == Summarise(t, "prompt", prep, retry)
        IN  /\ Books(v) /\ Same(t, v) /\ Only(t, v, {"summaries", "compactions"})
            /\ \E c \in Summaries : c.why = "prompt" /\ v.summaries = t.summaries \cup {c}
    BY <2>2, <2>3, <2>4, Summarises
  <2> QED
    BY <1>3, <2>1, <2>5
<1> HIDE DEF changed
<1>7. /\ SameOrder(host, host') /\ host'.preflight = {q} /\ host'.issued = host.issued
      /\ host'.cleared = host.cleared /\ host'.refused = host.refused /\ host'.pending = host.pending
      /\ host'.transcript = t.transcript /\ host'.custom = host.custom /\ host'.bash = host.bash
      /\ host'.follow = host.follow
  BY <1>5, <1>6 DEF Only, NewHost, SameOrder, changed
<1>8. Sound(host')
  <2>1. PICK c \in Summaries : c.why = "prompt" /\ host'.summaries = host.summaries \cup {c}
    BY <1>6
  <2>2. /\ host'.preflight \subseteq Prompts /\ \A b, e \in host'.preflight : b = e
        /\ \A b \in host'.preflight : b.stage # "input" => ~host.active
        /\ host'.issued \in 0..MaxMessages /\ host'.cleared \subseteq MessagesSent
        /\ host'.refused \subseteq 1..MaxMessages
        /\ ~host.active => host'.custom = <<>> /\ host'.bash = <<>>
    BY <1>1, <1>2, <1>7, Given DEF Fields, Orderly
  <2>3. /\ host'.summaries \subseteq Summaries
        /\ \A b \in host'.summaries : b \in host.summaries \/ b.why # "runEnd"
    BY <2>1, Given DEF Fields
  <2> QED
    BY <1>5, <1>6, <1>7, <2>2, <2>3, QuietSound
<1>9. Steps(host, host')
  <2>1. Same(host, host')
    BY <1>5, <1>6 DEF Same
  <2> QED
    BY <1>7, <2>1 DEF Steps, Quiet, SameOrder
<1> QED
  BY <1>8, <1>9, StepsKeep

\* A resting session begins a run with the messages it is given.
LEMMA Launches ==
  ASSUME IInv, ~host.active,
         NEW v, Books(v), Only(host, v, {"pending", "nextTurn", "preflight", "issued"}),
         v.preflight = {}, v.issued \in 0..MaxMessages, v.pending # <<>>, UsersHeard(v) = UsersHeard(host),
         NEW x, Only(v, x, {"active", "at", "skip", "aborted", "pending"}), x.pending = <<>>,
         x.active = TRUE, x.at = "begun", host' = SayAll(x, v.pending)
  PROVE  /\ Sound(host') /\ host'.active = TRUE /\ host'.cleared = host.cleared
         /\ UsersHeard(host') = UsersHeard(host) \cup OfUser(v.pending)
         /\ UsersWaiting(host') = UsersWaiting(host) /\ ComesLast(host, host')
<1> DEFINE F == {"active", "at", "skip", "aborted"}
<1>1. F \subseteq Silent /\ Only(v, x, F \cup {"pending"})
  <2>1. F \cup {"pending"} = {"active", "at", "skip", "aborted", "pending"}
    OBVIOUS
  <2> QED
    BY <2>1, SilentFields
<1> HIDE DEF F
<1>2. /\ Books(host') /\ UsersHeard(host') = UsersHeard(v) \cup OfUser(v.pending)
      /\ Only(x, host', Spoken \cup {"shownSteer", "shownFollow", "recovered"})
      /\ (v.transcript # <<>> \/ v.pending # <<>>) => host'.transcript # <<>>
  BY <1>1, Said
<1>3. /\ host'.active = TRUE /\ host'.at = "begun" /\ host'.pending = <<>>
      /\ host'.retry = host.retry /\ host'.last = host.last /\ host'.calls = host.calls
      /\ host'.done = host.done /\ host'.preflight = {} /\ host'.summaries = host.summaries
      /\ host'.issued = v.issued /\ host'.cleared = host.cleared /\ host'.refused = host.refused
      /\ host'.steer = host.steer /\ host'.follow = host.follow /\ host'.more = host.more
  BY <1>2 DEF Only, NewHost, Spoken
<1>4. host.at = "idle" /\ host.pending = <<>>
  BY Given
<1>5. Fields(host')
  BY <1>3, Given DEF Fields, Places
<1>6. Orderly(host')
  BY <1>3, <1>4, Given DEF Orderly
<1>7. Phase(host')
  BY <1>2, <1>3 DEF Phase
<1>8. UsersWaiting(host') = UsersWaiting(host)
  BY <1>3, <1>4 DEF UsersWaiting
<1>9. ComesLast(host, host')
  BY <1>3, Given, FollowsStay
<1> QED
  BY <1>2, <1>3, <1>5, <1>6, <1>7, <1>8, <1>9 DEF Sound

\* A prompt is sent, with what waited for the next turn.
LEMMA LaunchStep ==
  ASSUME IInv, NEW p, Launch(p)
  PROVE  Sound(host') /\ Keeps
<1> DEFINE m == Sent("user", p.n)
           first == [host EXCEPT !.pending = host.nextTurn, !.nextTurn = <<>>]
           v == [first EXCEPT !.pending = <<m>> \o host.nextTurn, !.preflight = {}]
           x == [host EXCEPT !.preflight = {}, !.nextTurn = <<>>, !.active = TRUE, !.at = "begun",
                             !.skip = FALSE, !.aborted = FALSE, !.pending = <<>>]
<1>1. /\ p \in host.preflight /\ p \in Prompts /\ host.preflight = {p} /\ ~host.active
      /\ host.at = "idle" /\ host.pending = <<>> /\ DOMAIN host = DOMAIN NewHost
  BY Given DEF Launch, Fields, Orderly
<1>2. host' = SayAll(x, <<m>> \o host.nextTurn)
  BY <1>1 DEF Launch, RunAgentPrompt, BeginRun, Running, NewHost
<1>3. /\ p.n \in 1..MaxMessages /\ "user" \in Sorts /\ p.n \notin Gone(host) \cup Waits(host)
      /\ p.n \in 1..host.issued
  <2>1. p.n \in Prompted(host)
    BY <1>1 DEF Prompted
  <2> QED
    BY <1>1, <2>1, Given DEF Prompts, Books, Ledger
<1>4. m \in MessagesSent /\ m.role = "user" /\ m.n = p.n
  BY <1>3, Kinds
<1> HIDE DEF m
<1>5. /\ host.nextTurn \in Seq(MessagesSent) /\ Distinct(host.nextTurn) /\ OfUser(host.nextTurn) = {}
      /\ m.n \notin Numbers(host.nextTurn)
  <2>1. host.nextTurn \in Seq(MessagesSent) /\ \A i \in 1..Len(host.nextTurn) : host.nextTurn[i].role # "user"
    BY Given DEF Books, Lists, Stores
  <2>2. OfUser(host.nextTurn) = {}
    BY <2>1, Numbered
  <2>3. m.n \notin Numbers(host.nextTurn)
    BY <1>3, <1>4, WaitsIn DEF Stores
  <2> QED
    BY <2>1, <2>2, <2>3, Given DEF Books, Ledger, Stores
<1>6. /\ Only(host, first, {"pending", "nextTurn"}) /\ first.pending = host.nextTurn /\ first.nextTurn = <<>>
      /\ Only(first, v, {"pending", "preflight"}) /\ v.pending = <<m>> \o host.nextTurn /\ v.preflight = {}
      /\ Only(v, x, {"active", "at", "skip", "aborted", "pending"}) /\ x.pending = <<>>
      /\ x.active = TRUE /\ x.at = "begun"
  BY <1>1 DEF Only, NewHost
<1> HIDE DEF first, v, x
<1>7. Books(first) /\ UsersHeard(first) = UsersHeard(host)
  <2>1. Parts(host.nextTurn, first.pending, first.nextTurn)
    BY <1>5, <1>6, NothingWaits DEF Parts
  <2>2. /\ DOMAIN first = DOMAIN NewHost /\ SameDesk(host, first) /\ first.path = host.path
        /\ first.transcript = host.transcript
        /\ \A k \in Stores \ {"nextTurn", "pending"} : first[k] = host[k]
    BY <1>6 DEF Only, NewHost, SameDesk, Stores
  <2>3. Books(host) /\ "nextTurn" \in {"steer", "follow", "nextTurn"}
    BY Given
  <2> QED
    BY <1>1, <1>6, <2>1, <2>2, <2>3, Shifts
<1>8. m.n \notin Gone(first) \cup Waits(first) /\ first.pending = host.nextTurn /\ first.preflight = {p}
  <2>1. first.path = host.path /\ first.cleared = host.cleared /\ first.preflight = {p}
        /\ \A l \in Stores \ {"pending", "nextTurn"} : first[l] = host[l]
    BY <1>1, <1>6 DEF Only, NewHost, Stores
  <2>2. \A l \in Stores : m.n \notin Numbers(first[l])
    <3> TAKE l \in Stores
    <3>1. CASE l = "pending"
      BY <1>5, <1>6, <3>1
    <3>2. CASE l = "nextTurn"
      BY <1>6, <3>2, NothingWaits
    <3>3. CASE l \in Stores \ {"pending", "nextTurn"}
      <4>1. m.n \notin Waits(host)
        BY <1>3, <1>4
      <4>2. m.n \notin Numbers(host[l])
        BY <4>1, WaitsIn
      <4> QED
        BY <2>1, <3>3, <4>2
    <3> QED
      BY <3>1, <3>2, <3>3
  <2>3. Gone(first) = Gone(host)
    BY <2>1 DEF Gone, ClearedNumbers
  <2>4. m.n \notin Waits(first)
    BY <2>2, WaitsIn
  <2> QED
    BY <1>3, <1>4, <1>6, <2>1, <2>3, <2>4
<1>9. Books(v) /\ UsersHeard(v) = UsersHeard(first) /\ OfUser(v.pending) = {p.n} /\ v.pending # <<>>
  <2>1. /\ v.pending \in Seq(MessagesSent) /\ v.pending # <<>> /\ Distinct(v.pending)
        /\ Numbers(v.pending) = Numbers(first.pending) \cup {m.n}
        /\ OfUser(v.pending) = OfUser(first.pending) \cup (IF m.role = "user" THEN {m.n} ELSE {})
    BY <1>4, <1>5, <1>6, Prepended
  <2>2. /\ DOMAIN v = DOMAIN NewHost /\ v.path = first.path /\ v.transcript = first.transcript
        /\ v.cleared = first.cleared /\ v.refused = first.refused /\ v.issued = first.issued
        /\ first.issued = host.issued
        /\ \A k \in Stores \ {"pending"} : v[k] = first[k]
    BY <1>6 DEF Only, NewHost, Stores
  <2>3. /\ Prompted(v) = {} /\ Prompted(first) = {m.n} /\ 1..v.issued = (1..first.issued) \cup {m.n}
        /\ \A c \in v.preflight : c \in first.preflight /\ c.n # m.n
    BY <1>3, <1>4, <1>6, <1>8, <2>2 DEF Prompted
  <2>4. "pending" \in Stores /\ "pending" \notin {"nextTurn", "custom", "bash"}
    BY DEF Stores
  <2>5. OfUser(v.pending) = {p.n}
    BY <1>4, <1>5, <1>6, <2>1
  <2>6. Prompted(v) \cup {m.n} = Prompted(first) \cup {m.n}
    BY <2>3
  <2>7. Books(v) /\ UsersHeard(v) = UsersHeard(first)
    BY <1>4, <1>7, <1>8, <2>1, <2>2, <2>3, <2>4, <2>6, PutsInto
  <2> QED
    BY <2>1, <2>5, <2>7
<1>10. Only(host, v, {"pending", "nextTurn", "preflight", "issued"}) /\ v.issued \in 0..MaxMessages
  <2>1. v.issued = host.issued
    BY <1>6 DEF Only, NewHost
  <2> QED
    BY <1>6, <2>1, Given DEF Only, NewHost
<1>11. /\ Sound(host') /\ host'.active = TRUE /\ host'.cleared = host.cleared
       /\ UsersHeard(host') = UsersHeard(host) \cup {p.n}
       /\ UsersWaiting(host') = UsersWaiting(host) /\ ComesLast(host, host')
  <2>1. UsersHeard(v) = UsersHeard(host) /\ host' = SayAll(x, v.pending)
    BY <1>2, <1>6, <1>7, <1>9
  <2> QED
    BY <1>1, <1>6, <1>9, <1>10, <2>1, Launches
<1>12. [Contract!Next]_(Contract!vars)
  <2> DEFINE new == {p.n}
  <2>1. new \in {{}} \cup {{n} : n \in 1..MaxMessages}
    BY <1>3
  <2>2. new \cap (UsersHeard(host) \cup UsersWaiting(host) \cup Withdrawn(host)) = {}
    BY <1>3, UsersAreSomewhere
  <2> HIDE DEF new
  <2>3. UsersHeard(host') = UsersHeard(host) \cup new
    BY <1>11 DEF new
  <2> QED
    BY <1>1, <1>11, <2>1, <2>2, <2>3, ContractStart
<1> QED
  BY <1>11, <1>12 DEF Keeps

\* The next number, and a list that takes its message.
LEMMA JoinsNext ==
  ASSUME IInv, host.issued < MaxMessages, NEW m \in MessagesSent, m.n = host.issued + 1,
         NEW l \in Stores \ {"pending"}, Only(host, host', {l, "shownSteer", "shownFollow", "issued"}),
         host'[l] = Append(host[l], m), host'.issued = host.issued + 1,
         m.role = "user" => l \in {"steer", "follow"}, l \in {"custom", "bash"} => host.active
  PROVE  Sound(host') /\ Keeps
<1>1. /\ m.n \notin Gone(host) \cup Waits(host) /\ m.n \notin Prompted(host)
      /\ 1..host'.issued = (1..host.issued) \cup {m.n} /\ \A p \in host.preflight : p.n # m.n
  BY Given, FreshNumber
<1>2. Only(host, host', {l, "shownSteer", "shownFollow", "issued", "preflight"})
  BY DEF Only
<1>3. host'.preflight = host.preflight /\ host'.issued \in 0..MaxMessages
  <2>1. host'.preflight = host.preflight
    BY DEF Only, NewHost, Stores
  <2>2. host.issued + 1 \in 0..MaxMessages
    BY Given
  <2> QED
    BY <2>1, <2>2
<1>4. /\ \A q \in host'.preflight : q \in host.preflight /\ q.n # m.n
      /\ Prompted(host') \cup {m.n} = Prompted(host) \cup {m.n}
  BY <1>1, <1>3 DEF Prompted
<1> QED
  BY <1>1, <1>2, <1>3, <1>4, Joins

\* A message is recorded in a resting session.
LEMMA Recorded ==
  ASSUME IInv, ~host.active, host.issued < MaxMessages, NEW m \in MessagesSent,
         m.n = host.issued + 1, m.role # "user", host' = Record([host EXCEPT !.issued = @ + 1], m)
  PROVE  Sound(host') /\ Keeps
<1>1. /\ Only(host, host', {"issued", "transcript", "path"}) /\ host'.issued = host.issued + 1
      /\ host'.transcript = Append(host.transcript, m)
      /\ host'.path = Append(host.path, Entry(Len(host.path) + 1, m, 0, {}))
  BY Given DEF Record, Only, NewHost
<1>2. /\ SameOrder(host, host') /\ host'.summaries = host.summaries /\ host'.preflight = host.preflight
      /\ host'.cleared = host.cleared /\ host'.refused = host.refused /\ host'.pending = host.pending
      /\ host'.custom = host.custom /\ host'.bash = host.bash
      /\ host'.follow = host.follow /\ SameLists(host, host') /\ DOMAIN host' = DOMAIN NewHost
  BY <1>1 DEF Only, NewHost, SameOrder, SameLists, Stores
<1>3. Books(host') /\ Same(host, host')
  <2>1. Books(host) /\ host.issued \in Nat
    BY Given
  <2> QED
    BY <1>1, <1>2, <2>1, GoesToSession DEF Same
<1>4. host'.transcript # <<>>
  <2>1. host.transcript \in Seq(AnyMessage)
    BY Given DEF Books, Logs
  <2>2. m \in AnyMessage
    BY Kinds
  <2> QED
    BY <1>1, <2>1, <2>2
<1>5. Sound(host')
  <2>1. host'.issued \in 0..MaxMessages
    BY <1>1, Given
  <2>2. /\ host'.preflight \subseteq Prompts /\ \A r, q \in host'.preflight : r = q
        /\ \A q \in host'.preflight : q.stage # "input" => ~host.active
        /\ host'.summaries \subseteq Summaries
        /\ \A c \in host'.summaries : c \in host.summaries \/ c.why # "runEnd"
        /\ host'.cleared \subseteq MessagesSent /\ host'.refused \subseteq 1..MaxMessages
        /\ ~host.active => host'.custom = <<>> /\ host'.bash = <<>>
    BY <1>2, Given DEF Fields, Orderly
  <2> QED
    BY <1>2, <1>3, <1>4, <2>1, <2>2, QuietSound
<1>6. Steps(host, host')
  BY <1>2, <1>3 DEF Steps, Quiet, SameOrder
<1> QED
  BY <1>5, <1>6, StepsKeep

\* A number that may be issued, for a message of the sort.
LEMMA Issues ==
  ASSUME IInv, NEW sort, CanIssue(host, sort)
  PROVE  LET m == Sent(sort, Next1(host))
         IN  /\ host.issued < MaxMessages /\ m \in MessagesSent /\ m.role = sort
             /\ m.n = host.issued + 1 /\ Next1(host) = host.issued + 1
<1>1. host.issued < MaxMessages /\ sort \in Sorts /\ Next1(host) = host.issued + 1
  BY DEF CanIssue, Next1
<1>2. host.issued + 1 \in 1..MaxMessages
  BY <1>1, Given
<1> QED
  BY <1>1, <1>2, Kinds

\* steer() and followUp().
LEMMA QueueMessageStep ==
  ASSUME IInv, NEW how, QueueMessage(how)
  PROVE  Sound(host') /\ Keeps
<1> DEFINE m == Sent("user", Next1(host))
           s == [host EXCEPT !.issued = @ + 1]
           l == IF how = "followUp" THEN "follow" ELSE "steer"
<1>1. /\ host.issued < MaxMessages /\ m \in MessagesSent /\ m.role = "user"
      /\ m.n = host.issued + 1 /\ host' = QueueUser(s, Next1(host), how)
  BY Issues DEF QueueMessage
<1>2. Only(host, s, {"issued"}) /\ s.issued = host.issued + 1 /\ DOMAIN s = DOMAIN NewHost
  BY Given DEF Only, NewHost
<1>3. l \in {"steer", "follow"} /\ l \in Stores \ {"pending"}
  BY DEF Stores
<1>4. Only(s, host', {l, "shownSteer", "shownFollow"}) /\ host'[l] = Append(s[l], m)
  <2> HIDE DEF s
  <2> QED
    BY <1>1, <1>2, UserQueued
<1> HIDE DEF s, l, m
<1>5. /\ Only(host, host', {l, "shownSteer", "shownFollow", "issued"})
      /\ host'[l] = Append(host[l], m) /\ host'.issued = host.issued + 1
  BY <1>2, <1>3, <1>4 DEF Only, NewHost
<1>6. l \in {"custom", "bash"} => host.active
  BY <1>3
<1> QED
  BY <1>1, <1>3, <1>5, <1>6, JoinsNext

\* sendCustomMessage() without a turn of its own.
LEMMA SendCustomStep ==
  ASSUME IInv, NEW how, NEW trigger \in {"turn", "next", "no"}, trigger = "turn" => how # "none",
         trigger # "turn" => how = "none", SendCustom(how, trigger)
  PROVE  Sound(host') /\ Keeps
<1> DEFINE m == Sent("custom", Next1(host))
           s == [host EXCEPT !.issued = @ + 1]
<1>1. /\ host.issued < MaxMessages /\ m \in MessagesSent /\ m.role = "custom" /\ m.n = host.issued + 1
  BY Issues DEF SendCustom
<1>2. Only(host, s, {"issued"}) /\ s.issued = host.issued + 1 /\ s.active = host.active
      /\ DOMAIN s = DOMAIN NewHost
  BY Given DEF Only, NewHost
<1>3. CASE trigger = "next"
  <2>1. host' = [s EXCEPT !.nextTurn = Append(@, m)]
    BY <1>3 DEF SendCustom
  <2> HIDE DEF m, s
  <2>2. /\ Only(host, host', {"nextTurn", "shownSteer", "shownFollow", "issued"})
        /\ host'["nextTurn"] = Append(host["nextTurn"], m) /\ host'.issued = host.issued + 1
    BY <1>2, <2>1 DEF Only, NewHost
  <2>3. "nextTurn" \in Stores \ {"pending"}
    BY DEF Stores
  <2> QED
    BY <1>1, <2>2, <2>3, JoinsNext
<1>4. CASE host.active /\ trigger = "turn"
  <2> DEFINE l == IF how = "followUp" THEN "follow" ELSE "steer"
  <2>1. host' = Enqueue(s, m, how)
    BY <1>2, <1>4 DEF SendCustom
  <2> HIDE DEF m, s
  <2>2. Only(s, host', {l}) /\ host'[l] = Append(s[l], m)
    BY <1>2, <2>1 DEF Enqueue, Only, NewHost
  <2>3. l \in {"steer", "follow"} /\ l \in Stores \ {"pending"} /\ (l \in {"custom", "bash"} => host.active)
    BY DEF Stores
  <2> HIDE DEF l
  <2>4. /\ Only(host, host', {l, "shownSteer", "shownFollow", "issued"})
        /\ host'[l] = Append(host[l], m) /\ host'.issued = host.issued + 1
    BY <1>2, <2>2, <2>3 DEF Only, NewHost
  <2> QED
    BY <1>1, <2>3, <2>4, JoinsNext
<1>5. CASE host.active /\ trigger = "no"
  <2>1. host' = [s EXCEPT !.custom = Append(@, m)]
    BY <1>2, <1>5 DEF SendCustom
  <2> HIDE DEF m, s
  <2>2. /\ Only(host, host', {"custom", "shownSteer", "shownFollow", "issued"})
        /\ host'["custom"] = Append(host["custom"], m) /\ host'.issued = host.issued + 1
    BY <1>2, <2>1 DEF Only, NewHost
  <2>3. "custom" \in Stores \ {"pending"}
    BY DEF Stores
  <2> QED
    BY <1>1, <1>5, <2>2, <2>3, JoinsNext
<1>6. CASE ~host.active /\ trigger # "next"
  <2>1. host' = Record(s, m)
    BY <1>2, <1>6 DEF SendCustom
  <2> HIDE DEF m
  <2> QED
    BY <1>1, <1>6, <2>1, Recorded
<1> QED
  BY <1>3, <1>4, <1>5, <1>6

\* recordBashResult()
LEMMA RecordBashStep ==
  ASSUME IInv, RecordBash
  PROVE  Sound(host') /\ Keeps
<1> DEFINE m == Sent("bash", Next1(host))
           s == [host EXCEPT !.issued = @ + 1]
<1>1. /\ host.issued < MaxMessages /\ m \in MessagesSent /\ m.role = "bash" /\ m.n = host.issued + 1
  BY Issues DEF RecordBash
<1>2. Only(host, s, {"issued"}) /\ s.issued = host.issued + 1 /\ s.active = host.active
      /\ DOMAIN s = DOMAIN NewHost
  BY Given DEF Only, NewHost
<1>3. CASE host.active
  <2>1. host' = [s EXCEPT !.bash = Append(@, m)]
    BY <1>2, <1>3 DEF RecordBash
  <2> HIDE DEF m, s
  <2>2. /\ Only(host, host', {"bash", "shownSteer", "shownFollow", "issued"})
        /\ host'["bash"] = Append(host["bash"], m) /\ host'.issued = host.issued + 1
    BY <1>2, <2>1 DEF Only, NewHost
  <2>3. "bash" \in Stores \ {"pending"}
    BY DEF Stores
  <2> QED
    BY <1>1, <1>3, <2>2, <2>3, JoinsNext
<1>4. CASE ~host.active
  <2>1. host' = Record(s, m)
    BY <1>2, <1>4 DEF RecordBash
  <2> HIDE DEF m
  <2> QED
    BY <1>1, <1>4, <2>1, Recorded
<1> QED
  BY <1>3, <1>4

\* sendCustomMessage() of a resting session, with a turn.
LEMMA TriggerTurnStep ==
  ASSUME IInv, TakeTurns, TriggerTurn
  PROVE  Sound(host') /\ Keeps
<1> DEFINE m == Sent("custom", Next1(host))
           q == <<m>>
           v == [host EXCEPT !.issued = @ + 1, !.pending = q]
           x == [host EXCEPT !.issued = @ + 1, !.active = TRUE, !.at = "begun",
                             !.skip = FALSE, !.aborted = FALSE, !.pending = <<>>]
<1>1. /\ host.issued < MaxMessages /\ m \in MessagesSent /\ m.role = "custom" /\ m.n = host.issued + 1
      /\ ~host.active /\ host.preflight = {}
  BY Issues DEF TriggerTurn, Busy
<1>2. host.at = "idle" /\ host.pending = <<>> /\ DOMAIN host = DOMAIN NewHost
  BY <1>1, Given
<1>3. host' = SayAll(x, q)
  BY <1>2 DEF TriggerTurn, RunAgentPrompt, BeginRun, Running, NewHost
<1>4. /\ q \in Seq(MessagesSent) /\ q # <<>> /\ Distinct(q)
      /\ Numbers(q) = Numbers(<<>>) \cup {m.n} /\ OfUser(q) = {}
  <2>1. q = Append(<<>>, m) /\ <<>> \in Seq(MessagesSent)
    OBVIOUS
  <2>2. /\ q \in Seq(MessagesSent) /\ q # <<>> /\ Distinct(q)
        /\ Numbers(q) = Numbers(<<>>) \cup {m.n}
        /\ OfUser(q) = OfUser(<<>>) \cup (IF m.role = "user" THEN {m.n} ELSE {})
    <3> HIDE DEF m
    <3>1. Distinct(<<>>) /\ m.n \notin Numbers(<<>>)
      BY NothingWaits
    <3> HIDE DEF q
    <3> QED
      BY <1>1, <2>1, <3>1, Appended
  <2> QED
    BY <1>1, <2>2, NothingWaits
<1> HIDE DEF m, q
<1>5. /\ Only(host, v, {"issued", "pending"}) /\ v.issued = host.issued + 1 /\ v.pending = q
      /\ Only(v, x, {"active", "at", "skip", "aborted", "pending"}) /\ x.pending = <<>>
      /\ x.active = TRUE /\ x.at = "begun"
  BY <1>2 DEF Only, NewHost
<1> HIDE DEF v, x
<1>6. Books(v) /\ UsersHeard(v) = UsersHeard(host)
  <2>1. /\ m.n \notin Gone(host) \cup Waits(host) /\ m.n \notin Prompted(host)
        /\ 1..v.issued = (1..host.issued) \cup {m.n}
    BY <1>1, <1>5, Given, FreshNumber
  <2>2. /\ DOMAIN v = DOMAIN NewHost /\ v.path = host.path /\ v.transcript = host.transcript
        /\ v.cleared = host.cleared /\ v.refused = host.refused /\ v.preflight = {}
        /\ \A k \in Stores \ {"pending"} : v[k] = host[k]
    BY <1>1, <1>5 DEF Only, NewHost, Stores
  <2>3. Prompted(v) \cup {m.n} = Prompted(host) \cup {m.n}
    BY <1>1, <2>2 DEF Prompted
  <2>4. /\ v.pending \in Seq(MessagesSent) /\ Distinct(v.pending)
        /\ Numbers(v.pending) = Numbers(host.pending) \cup {m.n}
        /\ OfUser(v.pending) = OfUser(host.pending) \cup (IF m.role = "user" THEN {m.n} ELSE {})
    BY <1>1, <1>2, <1>4, <1>5, NothingWaits
  <2>5. /\ "pending" \in Stores /\ "pending" \notin {"nextTurn", "custom", "bash"}
        /\ \A p \in v.preflight : p \in host.preflight /\ p.n # m.n
    BY <2>2 DEF Stores
  <2>6. Books(host)
    BY Given
  <2> QED
    BY <1>1, <2>1, <2>2, <2>3, <2>4, <2>5, <2>6, PutsInto
<1>7. /\ Only(host, v, {"pending", "nextTurn", "preflight", "issued"}) /\ v.issued \in 0..MaxMessages
      /\ v.preflight = {} /\ v.pending # <<>>
  <2>1. host.issued + 1 \in 0..MaxMessages
    BY <1>1, Given
  <2> QED
    BY <1>1, <1>4, <1>5, <2>1 DEF Only, NewHost
<1>8. /\ Sound(host') /\ host'.active = TRUE /\ host'.cleared = host.cleared
      /\ UsersHeard(host') = UsersHeard(host) \cup {}
      /\ UsersWaiting(host') = UsersWaiting(host) /\ ComesLast(host, host')
  <2>1. host' = SayAll(x, v.pending) /\ OfUser(v.pending) = {}
    BY <1>3, <1>4, <1>5
  <2> QED
    BY <1>1, <1>5, <1>6, <1>7, <2>1, Launches
<1>9. [Contract!Next]_(Contract!vars)
  <2> DEFINE new == {}
  <2>1. /\ new \in {{}} \cup {{n} : n \in 1..MaxMessages}
        /\ new \cap (UsersHeard(host) \cup UsersWaiting(host) \cup Withdrawn(host)) = {}
    OBVIOUS
  <2> HIDE DEF new
  <2>2. UsersHeard(host') = UsersHeard(host) \cup new
    BY <1>8 DEF new
  <2> QED
    BY <1>1, <1>8, <2>1, <2>2, ContractStart
<1> QED
  BY <1>8, <1>9 DEF Keeps

\* What waits in the queues is given back.
LEMMA ClearQueueStep ==
  ASSUME IInv, ClearQueue
  PROVE  Sound(host') /\ Keeps
<1> DEFINE some == OfUser(host.steer) \cup OfUser(host.follow)
<1>1. /\ Only(host, host', {"cleared", "steer", "follow", "shownSteer", "shownFollow"})
      /\ host'.steer = <<>> /\ host'.follow = <<>>
      /\ host'.cleared = host.cleared \cup ToSet(host.steer) \cup ToSet(host.follow)
  BY Given DEF ClearQueue, Only, NewHost
<1>2. /\ SameOrder(host, host') /\ host'.summaries = host.summaries /\ host'.preflight = host.preflight
      /\ host'.issued = host.issued /\ host'.refused = host.refused /\ host'.pending = host.pending
      /\ host'.transcript = host.transcript /\ host'.custom = host.custom /\ host'.bash = host.bash
      /\ host'.path = host.path /\ DOMAIN host' = DOMAIN NewHost
      /\ \A l \in Stores \ {"steer", "follow"} : host'[l] = host[l]
  BY <1>1 DEF Only, NewHost, SameOrder, Stores
<1>3. host.steer \in Seq(MessagesSent) /\ host.follow \in Seq(MessagesSent)
  BY Given DEF Books, Lists, Stores
<1>4. Books(host') /\ UsersHeard(host') = UsersHeard(host) /\ UsersWaiting(host') = UsersWaiting(host) \ some
  <2>1. Books(host)
    BY Given
  <2> QED
    BY <1>1, <1>2, <2>1, GivesBack
<1>5. \A q \in Seq(MessagesSent) : /\ ToSet(q) \subseteq MessagesSent
                                   /\ {m.n : m \in {c \in ToSet(q) : c.role = "user"}} = OfUser(q)
                                   /\ {m.n : m \in ToSet(q)} = Numbers(q)
  BY DEF ToSet, OfUser, Numbers
<1>6. Sound(host')
  <2>1. /\ host'.preflight \subseteq Prompts /\ \A r, q \in host'.preflight : r = q
        /\ \A q \in host'.preflight : q.stage # "input" => ~host.active
        /\ host'.summaries \subseteq Summaries
        /\ \A c \in host'.summaries : c \in host.summaries \/ c.why # "runEnd"
        /\ host'.issued \in 0..MaxMessages /\ host'.refused \subseteq 1..MaxMessages
        /\ ~host.active => host'.custom = <<>> /\ host'.bash = <<>>
    BY <1>2, Given DEF Fields, Orderly
  <2>2. host'.cleared \subseteq MessagesSent
    <3>1. host.cleared \subseteq MessagesSent
      BY Given DEF Fields
    <3> QED
      BY <1>1, <1>3, <1>5, <3>1
  <2> QED
    BY <1>2, <1>4, <2>1, <2>2, QuietSound
<1>7. Withdrawn(host') = Withdrawn(host) \cup some
  <2>1. Withdrawn(host') = Withdrawn(host) \cup {m.n : m \in {c \in ToSet(host.steer) : c.role = "user"}}
                             \cup {m.n : m \in {c \in ToSet(host.follow) : c.role = "user"}}
    BY <1>1 DEF Withdrawn
  <2> QED
    BY <1>3, <1>5, <2>1
<1>8. [Contract!Next]_(Contract!vars)
  <2>1. some \subseteq UsersWaiting(host)
    BY DEF UsersWaiting
  <2>2. host'.active = host.active
    BY <1>2 DEF SameOrder
  <2> HIDE DEF some
  <2> QED
    BY <1>4, <1>7, <2>1, <2>2, ContractWithdraw
<1>9. ComesLast(host, host')
  <2>1. CASE host.follow = <<>>
    BY <1>1, <2>1, Given, FollowsStay
  <2>2. CASE host.follow # <<>>
    <3>1. host.follow[1] \in ToSet(host.follow) /\ 1 \in 1..Len(host.follow)
      BY <1>3, <2>2 DEF ToSet
    <3>2. host.follow[1].n \in Numbers(host.follow)
      BY <1>3, <3>1, Numbered
    <3>3. host.follow[1].n \notin ClearedNumbers(host)
      BY <3>2, Given DEF Books, Ledger, Gone, Stores
    <3>4. host.follow[1] \in host'.cleared /\ host.follow[1] \notin host.cleared
      BY <1>1, <3>1, <3>3 DEF ClearedNumbers
    <3> QED
      BY <3>4 DEF ComesLast
  <2> QED
    BY <2>1, <2>2
<1> QED
  BY <1>6, <1>8, <1>9 DEF Keeps

\* abort() of a run, or of the sleep before a retry.
LEMMA AbortStep ==
  ASSUME IInv, Abort
  PROVE  Sound(host') /\ Keeps
<1> DEFINE s == [host EXCEPT !.aborts = @ + 1, !.streak = 0]
           r == [s EXCEPT !.retry = 0, !.at = "idle"]
<1>1. Only(host, s, {"aborts", "streak"}) /\ s.at = host.at
  BY Given DEF Only, NewHost
<1>2. \/ host' = [s EXCEPT !.aborted = TRUE]
      \/ host.at = "sleeping" /\ host' \in AfterCheck(r, "error")
  BY <1>1 DEF Abort
<1>3. CASE host' = [s EXCEPT !.aborted = TRUE]
  <2> HIDE DEF s
  <2>1. Only(host, host', {"aborts", "streak", "aborted"})
    BY <1>1, <1>3 DEF Only, NewHost
  <2>2. Books(host') /\ Same(host, host')
    BY <2>1, Given, BooksKept, SilentFields
  <2>3. /\ SameOrder(host, host') /\ host'.summaries = host.summaries /\ host'.preflight = host.preflight
        /\ host'.issued = host.issued /\ host'.refused = host.refused /\ host'.pending = host.pending
        /\ host'.transcript = host.transcript /\ host'.custom = host.custom /\ host'.bash = host.bash
        /\ host'.cleared = host.cleared /\ host'.follow = host.follow
    BY <2>1 DEF Only, NewHost, SameOrder
  <2>4. Sound(host')
    <3>1. /\ host'.preflight \subseteq Prompts /\ \A c, q \in host'.preflight : c = q
          /\ \A q \in host'.preflight : q.stage # "input" => ~host.active
          /\ host'.summaries \subseteq Summaries
          /\ \A c \in host'.summaries : c \in host.summaries \/ c.why # "runEnd"
          /\ host'.issued \in 0..MaxMessages /\ host'.refused \subseteq 1..MaxMessages
          /\ host'.cleared \subseteq MessagesSent
          /\ ~host.active => host'.custom = <<>> /\ host'.bash = <<>>
      BY <2>3, Given DEF Fields, Orderly
    <3> QED
      BY <2>2, <2>3, <3>1, QuietSound
  <2>5. Steps(host, host')
    BY <2>2, <2>3 DEF Steps, Quiet, SameOrder
  <2> QED
    BY <2>4, <2>5, StepsKeep
<1>4. CASE host.at = "sleeping" /\ host' \in AfterCheck(r, "error")
  <2>1. Between(host) /\ host.active = TRUE
    BY <1>4, Given DEF Phase, Orderly, Between
  <2>2. /\ Only(host, r, {"aborts", "streak", "retry", "at"}) /\ r.retry = 0 /\ r.at = "idle"
    BY <1>1 DEF Only, NewHost
  <2> HIDE DEF r, s
  <2>3. Books(r) /\ Same(host, r)
    BY <2>2, Given, BooksKept, SilentFields
  <2>4. /\ Only(host, r, {"retry", "recovered", "at", "transcript", "last", "aborts", "streak"})
        /\ r.transcript = host.transcript /\ r.last = host.last /\ r.follow = host.follow
        /\ r.cleared = host.cleared /\ r.retry \in 0..MaxRetries /\ r.at \in Places
    BY <2>2, RetriesAssumption DEF Only, NewHost, Places
  <2>5. Between(r)
    <3>1. r.transcript # <<>>
      BY <2>1, <2>4 DEF Between
    <3> QED
      BY <2>1, <2>3, <2>4, <3>1, StaysBetween
  <2>6. Sound(host') /\ Goes(r, host')
    BY <1>4, <2>5, Checks
  <2>7. Goes(host, host')
    BY <2>3, <2>4, <2>6, GoesOn
  <2> QED
    BY <2>1, <2>6, <2>7, StepsKeep DEF Steps
<1> QED
  BY <1>2, <1>3, <1>4

-----------------------------------------------------------------------------
(* The invariant holds, and with it the contract.                          *)

\* A new host.
LEMMA NewHostIsSound == Init => IInv /\ Contract!Init
<1> SUFFICES ASSUME Init PROVE IInv /\ Contract!Init
  OBVIOUS
<1>1. /\ DOMAIN host = DOMAIN NewHost /\ host.transcript = <<>> /\ host.path = <<>>
      /\ \A l \in Stores : host[l] = <<>>
      /\ host.active = FALSE /\ host.retry = 0 /\ host.last = {} /\ host.at = "idle"
      /\ host.calls = 0 /\ host.done = 0 /\ host.more = FALSE /\ host.preflight = {}
      /\ host.summaries = {} /\ host.issued = 0 /\ host.refused = {} /\ host.cleared = {}
  BY DEF Init, NewHost, Stores
<1>2. Logs(host)
  BY <1>1 DEF Logs, Opens, Numbering
<1>3. Lists(host)
  <2>1. \A l \in Stores : host[l] \in Seq(MessagesSent)
    BY <1>1, NothingWaits
  <2>2. \A l \in {"nextTurn", "custom", "bash"} : Len(host[l]) = 0
    BY <1>1 DEF Stores
  <2> QED
    BY <2>1, <2>2 DEF Lists
<1>4. Ledger(host)
  <2>1. \A l \in Stores : Distinct(host[l]) /\ Numbers(host[l]) = {}
    BY <1>1, NothingWaits
  <2>2. Waits(host) = {}
    BY <2>1, WaitsIn
  <2>3. Gone(host) = {} /\ Prompted(host) = {} /\ Once(host.path)
    BY <1>1 DEF Gone, OnPath, ClearedNumbers, Prompted, Once
  <2>4. 1..host.issued = {}
    BY <1>1
  <2> QED
    BY <1>1, <2>1, <2>2, <2>3, <2>4 DEF Ledger
<1>5. Fields(host)
  BY <1>1, RetriesAssumption, BoundsAssumption DEF Fields, Places
<1>6. Orderly(host)
  BY <1>1 DEF Orderly
<1>7. Phase(host)
  BY <1>1 DEF Phase, Stores
<1>8. Contract!Init
  <2>1. OfUser(host.steer) = {} /\ OfUser(host.follow) = {} /\ OfUser(host.pending) = {}
    BY <1>1, NothingWaits DEF Stores
  <2>2. UsersInSession(host) = {}
    BY <1>1 DEF UsersInSession
  <2> QED
    BY <1>1, <2>1, <2>2 DEF Contract!Init
<1> QED
  BY <1>1, <1>2, <1>3, <1>4, <1>5, <1>6, <1>7, <1>8 DEF IInv, Sound, Books

\* A step of the host by itself.
LEMMA HostStepKeeps ==
  ASSUME IInv, HostStep
  PROVE  IInv' /\ Keeps
<1>1. ASSUME Sound(host'), Goes(host, host'), host.active = TRUE PROVE IInv' /\ Keeps
  BY <1>1, StepsKeep DEF Steps, IInv
<1>2. ASSUME Sound(host'), Steps(host, host') PROVE IInv' /\ Keeps
  BY <1>2, StepsKeep DEF IInv
<1>3. ASSUME host.at # "idle" PROVE host.active = TRUE
  BY <1>3, Given DEF Phase
<1>4. CASE Poll
  BY <1>1, <1>3, <1>4, PollStep DEF Poll
<1>5. CASE NextTurn
  BY <1>1, <1>3, <1>5, NextTurnStep DEF NextTurn
<1>6. CASE EndRun
  BY <1>1, <1>3, <1>6, EndRunStep DEF EndRun
<1>7. CASE Wake
  BY <1>1, <1>3, <1>7, WakeStep DEF Wake
<1>8. ASSUME NEW c, Finish(c) PROVE IInv' /\ Keeps
  BY <1>2, <1>8, FinishStep
<1>9. ASSUME NEW p, PassInput(p) PROVE IInv' /\ Keeps
  BY <1>9, PassInputStep DEF IInv
<1>10. ASSUME NEW p, Launch(p) PROVE IInv' /\ Keeps
  BY <1>10, LaunchStep DEF IInv
<1> QED
  BY <1>4, <1>5, <1>6, <1>7, <1>8, <1>9, <1>10 DEF HostStep

\* A step of the model or of a tool.
LEMMA ModelStepKeeps ==
  ASSUME IInv, ModelStep
  PROVE  IInv' /\ Keeps
<1>1. ASSUME Sound(host'), Goes(host, host'), host.at # "idle" PROVE IInv' /\ Keeps
  <2>1. host.active = TRUE
    BY <1>1, Given DEF Phase
  <2> QED
    BY <1>1, <2>1, StepsKeep DEF Steps, IInv
<1>2. ASSUME NEW stop \in Stops, NEW calls \in 0..MaxCalls, Respond(stop, calls) PROVE IInv' /\ Keeps
  <2>1. host.at = "streaming"
    BY <1>2 DEF Respond, CanRespond
  <2> QED
    BY <1>1, <1>2, <2>1, ResponseStep
<1>3. ASSUME NEW break, NEW more, more \in BOOLEAN, RecordResult(break, more) PROVE IInv' /\ Keeps
  <2>1. host.at = "tools"
    BY <1>3 DEF RecordResult
  <2> QED
    BY <1>1, <1>3, <2>1, ResultStep
<1> QED
  BY <1>2, <1>3 DEF ModelStep

\* A step of a caller.
LEMMA CallerStepKeeps ==
  ASSUME IInv, TakeTurns, CallerStep
  PROVE  IInv' /\ Keeps
<1>1. ASSUME NEW how \in Hows, Submit(how) PROVE IInv' /\ Keeps
  BY <1>1, SubmitStep DEF IInv
<1>2. ASSUME NEW how, QueueMessage(how) PROVE IInv' /\ Keeps
  BY <1>2, QueueMessageStep DEF IInv
<1>3. ASSUME NEW how \in {"steer", "followUp"}, SendCustom(how, "turn") PROVE IInv' /\ Keeps
  <2>1. how # "none" /\ "turn" \in {"turn", "next", "no"}
    OBVIOUS
  <2> QED
    BY <1>3, <2>1, SendCustomStep DEF IInv
<1>4. ASSUME NEW trigger \in {"next", "no"}, SendCustom("none", trigger) PROVE IInv' /\ Keeps
  <2>1. trigger # "turn" /\ trigger \in {"turn", "next", "no"}
    OBVIOUS
  <2> QED
    BY <1>4, <2>1, SendCustomStep DEF IInv
<1>5. CASE TriggerTurn
  BY <1>5, TriggerTurnStep DEF IInv
<1>6. CASE RecordBash
  BY <1>6, RecordBashStep DEF IInv
<1>7. CASE ClearQueue
  BY <1>7, ClearQueueStep DEF IInv
<1>8. CASE Abort
  BY <1>8, AbortStep DEF IInv
<1>9. ASSUME NEW p \in Preparations(host.path), CompactManually(p) PROVE IInv' /\ Keeps
  <2>1. host' = Summarise(host, "manual", p, FALSE)
    BY <1>9 DEF CompactManually
  <2> QED
    BY <2>1, SummaryStep DEF IInv
<1> QED
  BY <1>1, <1>2, <1>3, <1>4, <1>5, <1>6, <1>7, <1>8, <1>9 DEF CallerStep

\* A step that may come or not, and the rest of an idle host.
LEMMA OtherStepKeeps ==
  ASSUME IInv, OtherStep \/ UNCHANGED vars
  PROVE  IInv' /\ Keeps
<1>1. ASSUME NEW p \in Preparations(host.path), CompactBetweenTurns(p) PROVE IInv' /\ Keeps
  <2>1. host' = Summarise(host, "turn", p, FALSE)
    BY <1>1 DEF CompactBetweenTurns
  <2> QED
    BY <2>1, SummaryStep DEF IInv
<1>2. ASSUME NEW p, Refuse(p) PROVE IInv' /\ Keeps
  BY <1>2, RefusesStep DEF IInv
<1>3. ASSUME NEW p, NEW prep, CompactBeforePrompt(p, prep) PROVE IInv' /\ Keeps
  BY <1>3, CompactBeforePromptStep DEF IInv
<1>4. ASSUME NEW c, Abandon(c) PROVE IInv' /\ Keeps
  BY <1>4, AbandonStep, StepsKeep DEF IInv
<1>5. CASE UNCHANGED vars
  <2>1. host' = host
    BY <1>5 DEF vars
  <2>2. Steps(host, host')
    BY <2>1 DEF Steps, Quiet, Same
  <2>3. Sound(host')
    BY <2>1 DEF IInv
  <2> QED
    BY <2>2, <2>3, StepsKeep DEF IInv
<1> QED
  BY <1>1, <1>2, <1>3, <1>4, <1>5 DEF OtherStep

\* The invariant is kept, and every step is one of the contract or moves none of its messages.
LEMMA StepKeeps ==
  ASSUME IInv, TakeTurns, [Next]_vars
  PROVE  IInv' /\ Keeps
BY HostStepKeeps, ModelStepKeeps, CallerStepKeeps, OtherStepKeeps DEF Next, Rest

\* The invariant holds for callers that take turns.
THEOREM HostInvariant ==
  ASSUME TakeTurns
  PROVE  Spec => []IInv
<1>1. Init => IInv
  BY NewHostIsSound
<1>2. IInv /\ [Next]_vars => IInv'
  BY StepKeeps
<1> QED
  BY <1>1, <1>2, PTL DEF Spec

\* The record keeps the types of AgentSession and Agent.
THEOREM HostTypeOK ==
  ASSUME TakeTurns
  PROVE  Spec => []TypeOK
<1>1. IInv => TypeOK
  <2> SUFFICES ASSUME IInv PROVE TypeOK
    OBVIOUS
  <2>1. /\ host.transcript \in Seq(AnyMessage)
        /\ \A l \in Stores : host[l] \in Seq(MessagesSent)
    BY Given DEF Books, Logs, Lists
  <2>2. \A q \in Seq(MessagesSent) : \A i \in DOMAIN q : q[i] \in AnyMessage
    BY Kinds
  <2>3. \A q \in {host.transcript, host.steer, host.follow, host.nextTurn, host.custom,
                  host.bash, host.pending} : \A i \in DOMAIN q : q[i] \in AnyMessage
    BY <2>1, <2>2 DEF Stores
  <2>4. \A i \in DOMAIN host.path : host.path[i].id = i /\ host.path[i].msg \in AnyMessage
    <3>1. host.path \in Seq(Entries) /\ Numbering(host.path)
      BY Given DEF Books, Logs
    <3>2. \A i \in 1..Len(host.path) : host.path[i] \in Entries
      BY <3>1
    <3>3. DOMAIN host.path = 1..Len(host.path)
      BY <3>1
    <3> QED
      BY <3>1, <3>2, <3>3 DEF Numbering, Entries
  <2>5. host.at \in Places /\ host.retry \in 0..MaxRetries /\ host.last \subseteq Responses
    BY Given DEF Fields
  <2>6. Cardinality(host.last) <= 1
    <3>1. host.last = {} \/ \E m : host.last = {m}
      <4>1. \A m, n \in host.last : m = n
        BY Given DEF Fields
      <4>2. ASSUME NEW m \in host.last PROVE host.last = {m}
        BY <4>1
      <4> QED
        BY <4>2
    <3>2. CASE host.last = {}
      <4>1. Cardinality(host.last) = 0
        BY <3>2, FS_EmptySet
      <4> QED
        BY <4>1
    <3>3. ASSUME NEW m, host.last = {m} PROVE Cardinality(host.last) <= 1
      <4>1. Cardinality(host.last) = 1
        BY <3>3, FS_Singleton
      <4> QED
        BY <4>1
    <3> QED
      BY <3>1, <3>2, <3>3
  <2>7. host.at # "idle" <=> host.active
    BY Given DEF Phase
  <2> QED
    BY <2>3, <2>4, <2>5, <2>6, <2>7 DEF TypeOK
<1> QED
  BY <1>1, HostInvariant, PTL

\* A message that was accepted is in the session once, waits, was given back, or was refused.
THEOREM HostKeepsEveryMessage ==
  ASSUME TakeTurns
  PROVE  Spec => []EveryMessageOnce
<1>1. IInv => EveryMessageOnce
  <2> SUFFICES ASSUME IInv PROVE EveryMessageOnce
    OBVIOUS
  <2>1. InSession(host) = OnPath(host.path, Sorts)
    BY DEF InSession, OnPath
  <2>2. Waiting(host) = Waits(host)
    <3>1. \A n : n \in Waiting(host) <=> \E l \in Stores : n \in Numbers(host[l])
      BY DEF Waiting, Stores
    <3> QED
      BY <3>1, WaitsIn
  <2>3. 1..host.issued =
          InSession(host) \cup Waiting(host) \cup {m.n : m \in host.cleared} \cup host.refused
            \cup {p.n : p \in host.preflight}
    BY <2>1, <2>2, Given DEF Books, Ledger, Gone, ClearedNumbers, Prompted
  <2>4. \A i, j \in DOMAIN host.path :
          host.path[i].msg.role \in Sorts /\ host.path[i].msg = host.path[j].msg => i = j
    BY Given DEF Books, Ledger, Once
  <2> QED
    BY <2>3, <2>4, Given DEF EveryMessageOnce
<1> QED
  BY <1>1, HostInvariant, PTL

\* A follow-up leaves its queue only when no steering waits and no answer to a tool is owed.
THEOREM HostSendsFollowUpsLast ==
  ASSUME TakeTurns
  PROVE  Spec => FollowUpsComeLast
<1>1. IInv /\ [Next]_vars
        => [Len(host'.follow) < Len(host.follow) /\ host'.cleared = host.cleared
              => host'.steer = <<>> /\ ~host'.more]_vars
  BY StepKeeps DEF Keeps, ComesLast
<1> QED
  BY <1>1, HostInvariant, PTL DEF Spec, FollowUpsComeLast

\* Every step of the host is one that its contract allows: messages are heard only in a
\* session that works, wait until then or until they are withdrawn, and a session settles
\* only when none waits.
THEOREM HostKeepsItsContract ==
  ASSUME TakeTurns
  PROVE  Spec => Contract!Init /\ [][Contract!Next]_(Contract!vars)
<1>1. Init => Contract!Init
  BY NewHostIsSound
<1>2. IInv /\ [Next]_vars => [Contract!Next]_(Contract!vars)
  BY StepKeeps DEF Keeps
<1> QED
  BY <1>1, <1>2, HostInvariant, PTL DEF Spec

-----------------------------------------------------------------------------
(* What a session tells.                                                   *)
(*                                                                         *)
(* A second invariant, above the first one, relates the path of entries to *)
(* the transcript: compactions keep what their summaries do not cover,     *)
(* results stand behind their calls, and the agent is shown what a reload  *)
(* would show.                                                             *)

\* The messages of a path.
Words(path) == [i \in DOMAIN path |-> path[i].msg]

\* What a compaction does not keep is in its summary, and it keeps no result without its call.
Carried(path, p) ==
  /\ p.kept \in 1..Len(path) /\ path[p.kept].msg.role # "result"
  /\ \A i \in 1..(p.kept - 1) : ~IsCompaction(path[i]) => i \in p.covers

Folded(path) ==
  \A c \in 1..Len(path) : IsCompaction(path[c]) => path[c].kept < c /\ Carried(path, path[c])

Story(path, msgs) ==
  /\ Folded(path) /\ ResultsFollowTheirCall(Words(path)) /\ ResultsFollowTheirCall(msgs)
  /\ NotFailed(msgs) = NotFailed(Messages(path))

\* Every entry is shown.
LEMMA AllVisible ==
  ASSUME NEW e \in Entries
  PROVE  IsVisible(e) /\ e.msg \in AnyMessage
<1>1. e.msg \in AnyMessage
  BY DEF Entries
<1>2. \A m \in AnyMessage : m.role # "none"
  BY SortsAssumption DEF AnyMessage, MessagesSent, Responses, Summary, ResultOf, Message
<1> QED
  BY <1>1, <1>2 DEF IsVisible

\* The words of a path, by number.
LEMMA WordsAre ==
  ASSUME NEW path \in Seq(Entries)
  PROVE  /\ Words(path) \in Seq(AnyMessage) /\ Len(Words(path)) = Len(path)
         /\ DOMAIN Words(path) = 1..Len(path)
         /\ \A i \in 1..Len(path) : Words(path)[i] = path[i].msg
<1>1. Len(path) \in Nat /\ DOMAIN path = 1..Len(path) /\ \A i \in 1..Len(path) : path[i] \in Entries
  OBVIOUS
<1>2. \A i \in 1..Len(path) : path[i].msg \in AnyMessage
  BY <1>1, AllVisible
<1>3. Words(path) \in [1..Len(path) -> AnyMessage]
  BY <1>1, <1>2 DEF Words
<1> QED
  BY <1>1, <1>3 DEF Words

\* The latest compaction of a path.
LEMMA Latest ==
  ASSUME NEW path \in Seq(Entries)
  PROVE  LET c == LatestCompaction(path)
         IN  /\ c \in 0..Len(path)
             /\ c # 0 => IsCompaction(path[c])
             /\ \A i \in 1..Len(path) : IsCompaction(path[i]) => i <= c
<1> DEFINE A == {0} \cup {i \in DOMAIN path : IsCompaction(path[i])}
<1>1. A \subseteq 0..Len(path) /\ A # {} /\ Len(path) \in Nat /\ DOMAIN path = 1..Len(path)
  OBVIOUS
<1>2. /\ \A i \in A : i # 0 => IsCompaction(path[i])
      /\ \A i \in 1..Len(path) : IsCompaction(path[i]) => i \in A
  BY <1>1
<1> HIDE DEF A
<1>3. Max(A) \in A /\ \A y \in A : y <= Max(A)
  BY <1>1, Greatest
<1>4. LatestCompaction(path) = Max(A)
  BY DEF LatestCompaction, A
<1> QED
  BY <1>1, <1>2, <1>3, <1>4

\* Where an entry stands.
LEMMA StandsAt ==
  ASSUME NEW path \in Seq(Entries), Numbering(path), NEW k \in 1..Len(path)
  PROVE  PositionOf(path, k) = k
<1> DEFINE A == {0} \cup {i \in DOMAIN path : path[i].id = k}
<1>1. A = {0, k} /\ k \in Nat /\ Len(path) \in Nat /\ k >= 1 /\ A \subseteq 0..Len(path)
  BY DEF Numbering
<1> HIDE DEF A
<1>2. Max(A) \in A /\ \A y \in A : y <= Max(A)
  BY <1>1, Greatest
<1>3. PositionOf(path, k) = Max(A)
  BY DEF PositionOf, A
<1> QED
  BY <1>1, <1>2, <1>3

\* What is shown of a path: the latest compaction, and what stands behind the entry it keeps.
Context(path, all) ==
  LET c == LatestCompaction(path)
      k == path[c].kept
  IN /\ c = 0 => all = path
     /\ c # 0 =>
          /\ Len(all) = 1 + (Len(path) - k) /\ all[1] = path[c]
          /\ \A j \in 2..(1 + (c - k)) : all[j] = path[(k + j) - 2]
          /\ \A j \in (2 + (c - k))..Len(all) : all[j] = path[(k + j) - 1]

LEMMA ContextIs ==
  ASSUME NEW path \in Seq(Entries), Numbering(path), Folded(path)
  PROVE  /\ ContextEntries(path) \in Seq(Entries) /\ Context(path, ContextEntries(path))
         /\ Messages(path) = Words(ContextEntries(path))
<1> DEFINE all == ContextEntries(path)
           c == LatestCompaction(path)
<1>0. Len(path) \in Nat /\ c \in 0..Len(path) /\ (c # 0 => IsCompaction(path[c]))
  BY Latest
<1>1. all \in Seq(Entries) /\ Context(path, all)
  <2>1. CASE c = 0
    <3>1. all = path
      BY <2>1 DEF ContextEntries
    <3> QED
      BY <2>1, <3>1 DEF Context
  <2>2. CASE c # 0
    <3> DEFINE k == path[c].kept
               before == SubSeq(path, 1, c - 1)
               one == <<path[c]>>
               X == SubSeq(path, k, c - 1)
               Y == SubSeq(path, c + 1, Len(path))
    <3>1. k \in 1..(c - 1) /\ c \in 1..Len(path)
      <4>1. c \in 1..Len(path)
        BY <1>0, <2>2
      <4>2. k < c /\ k \in 1..Len(path)
        BY <1>0, <2>2, <4>1 DEF Folded, Carried
      <4> HIDE DEF k
      <4> QED
        BY <1>0, <4>1, <4>2
    <3>2. PositionOf(before, k) = k
      <4>1. before \in Seq(Entries) /\ Len(before) = c - 1 /\ \A i \in 1..(c - 1) : before[i] = path[i]
        BY <1>0, <3>1
      <4> HIDE DEF before, k
      <4>2. Numbering(before)
        BY <1>0, <3>1, <4>1 DEF Numbering
      <4>3. k \in 1..Len(before)
        BY <3>1, <4>1
      <4> QED
        BY <4>1, <4>2, <4>3, StandsAt
    <3>3. all = one \o X \o Y
      <4>1. k # 0
        BY <1>0, <3>1
      <4> HIDE DEF k
      <4> QED
        BY <2>2, <3>2, <4>1 DEF ContextEntries, k
    <3> HIDE DEF k
    <3>4. X \in Seq(Entries) /\ Len(X) = c - k /\ \A i \in 1..(c - k) : X[i] = path[(k + i) - 1]
      BY <1>0, <3>1
    <3>5. Y \in Seq(Entries) /\ Len(Y) = Len(path) - c /\ \A i \in 1..(Len(path) - c) : Y[i] = path[c + i]
      <4>1. CASE c = Len(path)
        <5>1. Y = <<>>
          BY <1>0, <4>1
        <5> HIDE DEF Y
        <5> QED
          BY <1>0, <4>1, <5>1
      <4>2. CASE c < Len(path)
        BY <1>0, <3>1, <4>2
      <4> QED
        BY <1>0, <4>1, <4>2
    <3>6. one \in Seq(Entries) /\ Len(one) = 1 /\ one[1] = path[c]
      BY <3>1
    <3> HIDE DEF X, Y, one
    <3> DEFINE front == one \o X
    <3>7. /\ front \in Seq(Entries) /\ Len(front) = 1 + (c - k) /\ front[1] = path[c]
          /\ \A i \in 1..(c - k) : front[1 + i] = path[(k + i) - 1]
      <4>1. /\ front \in Seq(Entries) /\ Len(front) = Len(one) + Len(X)
            /\ \A i \in 1..Len(one) : front[i] = one[i]
            /\ \A j \in 1..Len(X) : front[Len(one) + j] = X[j]
        <5>1. one \in Seq(Entries) /\ X \in Seq(Entries)
          BY <3>4, <3>6
        <5> QED
          BY <5>1, Joined
      <4> QED
        BY <3>4, <3>6, <4>1
    <3>8. /\ all \in Seq(Entries) /\ Len(all) = (1 + (c - k)) + (Len(path) - c)
          /\ \A i \in 1..(1 + (c - k)) : all[i] = front[i]
          /\ \A j \in 1..(Len(path) - c) : all[(1 + (c - k)) + j] = path[c + j]
      <4> HIDE DEF front
      <4>1. /\ front \o Y \in Seq(Entries) /\ Len(front \o Y) = Len(front) + Len(Y)
            /\ \A i \in 1..Len(front) : (front \o Y)[i] = front[i]
            /\ \A j \in 1..Len(Y) : (front \o Y)[Len(front) + j] = Y[j]
        <5>1. front \in Seq(Entries) /\ Y \in Seq(Entries)
          BY <3>5, <3>7
        <5> QED
          BY <5>1, Joined
      <4>2. all = front \o Y
        BY <3>3 DEF front
      <4> HIDE DEF all
      <4> QED
        BY <3>5, <3>7, <4>1, <4>2
    <3> HIDE DEF front, all, c
    <3>9. Len(all) = 1 + (Len(path) - k) /\ all[1] = path[c]
      BY <1>0, <3>1, <3>7, <3>8
    <3>10. ASSUME NEW j \in 2..(1 + (c - k)) PROVE all[j] = path[(k + j) - 2]
      <4>1. j - 1 \in 1..(c - k) /\ 1 + (j - 1) = j /\ (k + (j - 1)) - 1 = (k + j) - 2
            /\ j \in 1..(1 + (c - k))
        BY <1>0, <3>1
      <4> QED
        BY <3>7, <3>8, <4>1
    <3>11. ASSUME NEW j \in (2 + (c - k))..Len(all) PROVE all[j] = path[(k + j) - 1]
      <4>1. LET x == j - (1 + (c - k))
            IN  x \in 1..(Len(path) - c) /\ (1 + (c - k)) + x = j /\ c + x = (k + j) - 1
        BY <1>0, <3>1, <3>8
      <4> QED
        BY <3>8, <4>1
    <3> QED
      BY <2>2, <3>8, <3>9, <3>10, <3>11 DEF Context, c, k
  <2> QED
    BY <2>1, <2>2
<1>2. Messages(path) = Words(all)
  <2> DEFINE P == {i \in DOMAIN all : IsVisible(all[i])}
  <2>1. 1..Len(all) \subseteq P
    <3>1. DOMAIN all = 1..Len(all) /\ \A i \in 1..Len(all) : all[i] \in Entries
      BY <1>1
    <3> HIDE DEF all
    <3> QED
      BY <3>1, AllVisible
  <2>2. Selected(all, P) = all
    <3> HIDE DEF all, P
    <3> QED
      BY <1>1, <2>1, SelectedAll
  <2>3. Messages(path) = LET shown == Selected(all, P) IN [i \in DOMAIN shown |-> shown[i].msg]
    BY DEF Messages
  <2> HIDE DEF all, P
  <2> QED
    BY <2>2, <2>3 DEF Words
<1> QED
  BY <1>1, <1>2

\* One more at the end.
LEMMA OneMore ==
  ASSUME NEW T, NEW q \in Seq(T), NEW x \in T
  PROVE  LET r == Append(q, x)
         IN  /\ r \in Seq(T) /\ Len(r) = Len(q) + 1 /\ Len(q) \in Nat /\ r[Len(q) + 1] = x
             /\ \A i \in 1..Len(q) : r[i] = q[i]
             /\ \A i \in 1..Len(r) : i \in 1..Len(q) \/ i = Len(q) + 1
<1> DEFINE r == Append(q, x)
<1>1. r \in Seq(T) /\ Len(r) = Len(q) + 1 /\ Len(q) \in Nat /\ r[Len(q) + 1] = x
  OBVIOUS
<1>2. \A i \in 1..Len(q) : r[i] = q[i]
  OBVIOUS
<1>3. \A i \in 1..Len(r) : i \in 1..Len(q) \/ i = Len(q) + 1
  BY <1>1
<1> QED
  BY <1>1, <1>2, <1>3

\* What a compaction carries is carried as the path grows.
LEMMA CarriedOn ==
  ASSUME NEW path, Len(path) \in Nat, NEW r, Len(r) \in Nat, Len(path) <= Len(r),
         \A i \in 1..Len(path) : r[i] = path[i], NEW p, Carried(path, p)
  PROVE  Carried(r, p)
<1>1. p.kept \in 1..Len(path) /\ p.kept \in 1..Len(r) /\ r[p.kept] = path[p.kept]
  BY DEF Carried
<1>2. ASSUME NEW i \in 1..(p.kept - 1), ~IsCompaction(r[i]) PROVE i \in p.covers
  <2>1. i \in 1..Len(path)
    BY <1>1
  <2>2. ~IsCompaction(path[i])
    BY <1>2, <2>1
  <2> QED
    BY <2>2 DEF Carried
<1> QED
  BY <1>1, <1>2 DEF Carried

\* An entry more, a compaction or not.
LEMMA FoldedOn ==
  ASSUME NEW path \in Seq(Entries), Folded(path), NEW e \in Entries, IsCompaction(e) => Carried(path, e)
  PROVE  Folded(Append(path, e))
<1> DEFINE r == Append(path, e)
<1>1. /\ r \in Seq(Entries) /\ Len(r) = Len(path) + 1 /\ Len(path) \in Nat /\ r[Len(path) + 1] = e
      /\ \A i \in 1..Len(path) : r[i] = path[i]
      /\ \A i \in 1..Len(r) : i \in 1..Len(path) \/ i = Len(path) + 1
  BY OneMore
<1> HIDE DEF r
<1>2. Len(r) \in Nat /\ Len(path) <= Len(r)
  BY <1>1
<1>3. \A p : Carried(path, p) => Carried(r, p)
  BY <1>1, <1>2, CarriedOn
<1>4. ASSUME NEW c \in 1..Len(r), IsCompaction(r[c]) PROVE r[c].kept < c /\ Carried(r, r[c])
  <2>1. CASE c \in 1..Len(path)
    <3>1. r[c] = path[c] /\ path[c].kept < c /\ Carried(path, path[c])
      BY <1>1, <1>4, <2>1 DEF Folded
    <3> QED
      BY <1>3, <3>1
  <2>2. CASE c = Len(path) + 1
    <3>1. r[c] = e /\ Carried(path, e)
      BY <1>1, <1>4, <2>2
    <3>2. e.kept \in 1..Len(path)
      BY <3>1 DEF Carried
    <3> QED
      BY <1>1, <1>3, <2>2, <3>1, <3>2
  <2> QED
    BY <1>1, <2>1, <2>2
<1> QED
  BY <1>4 DEF Folded, r

\* What is shown of a path grows with it.
LEMMA ContextGrows ==
  ASSUME NEW path \in Seq(Entries), Numbering(path), Folded(path),
         NEW e \in Entries, e.id = Len(path) + 1, ~IsCompaction(e)
  PROVE  Messages(Append(path, e)) = Append(Messages(path), e.msg)
<1> DEFINE r == Append(path, e)
           c == LatestCompaction(path)
           d == LatestCompaction(r)
           all == ContextEntries(path)
           new == ContextEntries(r)
<1>1. /\ r \in Seq(Entries) /\ Len(r) = Len(path) + 1 /\ Len(path) \in Nat /\ r[Len(path) + 1] = e
      /\ \A i \in 1..Len(path) : r[i] = path[i]
      /\ \A i \in 1..Len(r) : i \in 1..Len(path) \/ i = Len(path) + 1
  BY OneMore
<1>2. Numbering(r) /\ Folded(r)
  <2>1. Numbering(r)
    <3> HIDE DEF r
    <3> QED
      BY <1>1 DEF Numbering
  <2> QED
    BY <2>1, FoldedOn
<1> HIDE DEF r
<1>3. d = c
  <2>1. /\ c \in 0..Len(path) /\ (c # 0 => IsCompaction(path[c]))
        /\ \A i \in 1..Len(path) : IsCompaction(path[i]) => i <= c
    BY Latest
  <2>2. /\ d \in 0..Len(r) /\ (d # 0 => IsCompaction(r[d]))
        /\ \A i \in 1..Len(r) : IsCompaction(r[i]) => i <= d
    BY <1>1, Latest
  <2> HIDE DEF c, d
  <2>3. d # Len(path) + 1
    BY <1>1, <2>2
  <2>4. d # 0 => d <= c
    BY <1>1, <2>1, <2>2, <2>3
  <2>5. c # 0 => c <= d
    BY <1>1, <2>1, <2>2
  <2> QED
    BY <1>1, <2>1, <2>2, <2>4, <2>5
<1>4. /\ all \in Seq(Entries) /\ Context(path, all) /\ Messages(path) = Words(all)
      /\ new \in Seq(Entries) /\ Context(r, new) /\ Messages(r) = Words(new)
  BY <1>1, <1>2, ContextIs
<1>5. c \in 0..Len(path) /\ (c # 0 => path[c].kept \in 1..(c - 1) /\ r[c] = path[c])
  <2>1. c \in 0..Len(path) /\ (c # 0 => IsCompaction(path[c]))
    BY Latest
  <2> HIDE DEF c
  <2>2. ASSUME c # 0 PROVE path[c].kept \in 1..(c - 1) /\ r[c] = path[c]
    <3>1. c \in 1..Len(path)
      BY <1>1, <2>1, <2>2
    <3>2. path[c].kept < c /\ path[c].kept \in 1..Len(path)
      BY <2>1, <2>2, <3>1 DEF Folded, Carried
    <3> QED
      BY <1>1, <3>1, <3>2
  <2> QED
    BY <2>1, <2>2
<1> HIDE DEF all, new
<1>6. Len(new) = Len(all) + 1 /\ Len(all) \in Nat /\ new[Len(new)] = e /\ \A j \in 1..Len(all) : new[j] = all[j]
  <2>1. CASE c = 0
    BY <1>1, <1>3, <1>4, <2>1 DEF Context
  <2>2. CASE c # 0
    <3> DEFINE k == path[c].kept
    <3>1. /\ k \in 1..(c - 1) /\ c \in 1..Len(path) /\ r[c] = path[c] /\ r[c].kept = k
      BY <1>1, <1>5, <2>2
    <3>2. /\ Len(all) = 1 + (Len(path) - k) /\ all[1] = path[c]
          /\ \A j \in 2..(1 + (c - k)) : all[j] = path[(k + j) - 2]
          /\ \A j \in (2 + (c - k))..Len(all) : all[j] = path[(k + j) - 1]
      BY <1>4, <2>2 DEF Context
    <3>3. /\ Len(new) = 1 + (Len(r) - k) /\ new[1] = r[c]
          /\ \A j \in 2..(1 + (c - k)) : new[j] = r[(k + j) - 2]
          /\ \A j \in (2 + (c - k))..Len(new) : new[j] = r[(k + j) - 1]
      BY <1>3, <1>4, <2>2, <3>1 DEF Context
    <3> HIDE DEF k, c
    <3>4. Len(new) = Len(all) + 1 /\ Len(all) \in Nat
      BY <1>1, <3>1, <3>2, <3>3
    <3>5. new[Len(new)] = e
      <4>1. Len(new) \in (2 + (c - k))..Len(new) /\ (k + Len(new)) - 1 = Len(path) + 1
        BY <1>1, <3>1, <3>3
      <4> QED
        BY <1>1, <3>3, <4>1
    <3>6. ASSUME NEW j \in 1..Len(all) PROVE new[j] = all[j]
      <4>1. CASE j = 1
        BY <3>1, <3>2, <3>3, <4>1
      <4>2. CASE j \in 2..(1 + (c - k))
        <5>1. (k + j) - 2 \in 1..Len(path)
          BY <1>1, <3>1, <4>2
        <5> QED
          BY <1>1, <3>2, <3>3, <4>2, <5>1
      <4>3. CASE j \in (2 + (c - k))..Len(all)
        <5>1. (k + j) - 1 \in 1..Len(path) /\ j \in (2 + (c - k))..Len(new)
          <6>1. /\ k \in Nat /\ c \in Nat /\ k >= 1 /\ k < c /\ j \in Int /\ j >= 2 + (c - k)
                /\ j <= 1 + (Len(path) - k) /\ Len(path) \in Nat
            BY <1>1, <3>1, <3>2, <4>3
          <6>2. (k + j) - 1 <= Len(path) /\ (k + j) - 1 >= 1
            BY <6>1
          <6>3. j <= Len(new) /\ Len(new) \in Int
            BY <3>4, <4>3
          <6> QED
            BY <6>1, <6>2, <6>3
        <5>2. new[j] = r[(k + j) - 1]
          BY <3>3, <5>1
        <5>3. all[j] = path[(k + j) - 1]
          BY <3>2, <4>3
        <5> QED
          BY <1>1, <5>1, <5>2, <5>3
      <4> QED
        BY <3>1, <3>4, <4>1, <4>2, <4>3
    <3> QED
      BY <3>4, <3>5, <3>6
  <2> QED
    BY <2>1, <2>2
<1>7. Words(new) = Append(Words(all), e.msg)
  <2>1. /\ Words(new) \in Seq(AnyMessage) /\ Len(Words(new)) = Len(new)
        /\ \A i \in 1..Len(new) : Words(new)[i] = new[i].msg
    BY <1>4, WordsAre
  <2>2. /\ Words(all) \in Seq(AnyMessage) /\ Len(Words(all)) = Len(all)
        /\ \A i \in 1..Len(all) : Words(all)[i] = all[i].msg
    BY <1>4, WordsAre
  <2>3. e.msg \in AnyMessage
    BY AllVisible
  <2> DEFINE W == Append(Words(all), e.msg)
  <2>4. /\ W \in Seq(AnyMessage) /\ Len(W) = Len(Words(all)) + 1 /\ W[Len(Words(all)) + 1] = e.msg
        /\ \A i \in 1..Len(Words(all)) : W[i] = Words(all)[i]
    BY <2>2, <2>3, OneMore
  <2> HIDE DEF W
  <2>5. \A i \in 1..Len(new) : i \in 1..Len(all) \/ i = Len(new)
    BY <1>6
  <2>6. \A i \in 1..Len(new) : Words(new)[i] = W[i]
    <3> SUFFICES ASSUME NEW i \in 1..Len(new) PROVE Words(new)[i] = W[i]
      OBVIOUS
    <3>1. CASE i \in 1..Len(all)
      BY <1>6, <2>1, <2>2, <2>4, <3>1
    <3>2. CASE i = Len(new)
      BY <1>6, <2>1, <2>2, <2>4, <3>2
    <3> QED
      BY <2>5, <3>1, <3>2
  <2>7. Words(new) = W
    <3>1. Len(Words(new)) = Len(W)
      BY <1>6, <2>1, <2>2, <2>4
    <3> QED
      BY <2>1, <2>4, <2>6, <3>1, SeqEqual
  <2> QED
    BY <2>7 DEF W
<1> QED
  BY <1>4, <1>7 DEF r

\* What may stand behind a message: a result only behind its call, or the result before it.
MayFollow(m, n) ==
  n.role = "result" =>
    IF n.n = 1 THEN m.role = "assistant" /\ m.calls > 0 ELSE m.role = "result" /\ m.n = n.n - 1

\* Results that follow their call, by number.
LEMMA FollowsIs ==
  ASSUME NEW q \in Seq(AnyMessage)
  PROVE  ResultsFollowTheirCall(q) <=>
           \A i \in 1..Len(q) : q[i].role = "result" => i > 1 /\ MayFollow(q[i - 1], q[i])
<1>1. DOMAIN q = 1..Len(q)
  OBVIOUS
<1> QED
  BY <1>1 DEF ResultsFollowTheirCall, MayFollow

\* A message more.
LEMMA FollowsOn ==
  ASSUME NEW q \in Seq(AnyMessage), ResultsFollowTheirCall(q), NEW m \in AnyMessage,
         m.role = "result" => q # <<>> /\ MayFollow(q[Len(q)], m)
  PROVE  ResultsFollowTheirCall(Append(q, m))
<1> DEFINE r == Append(q, m)
<1>1. /\ r \in Seq(AnyMessage) /\ Len(r) = Len(q) + 1 /\ Len(q) \in Nat /\ r[Len(q) + 1] = m
      /\ \A i \in 1..Len(q) : r[i] = q[i]
      /\ \A i \in 1..Len(r) : i \in 1..Len(q) \/ i = Len(q) + 1
  BY OneMore
<1> HIDE DEF r
<1>2. \A i \in 1..Len(q) : q[i].role = "result" => i > 1 /\ MayFollow(q[i - 1], q[i])
  BY FollowsIs
<1>3. ASSUME NEW i \in 1..Len(r), r[i].role = "result" PROVE i > 1 /\ MayFollow(r[i - 1], r[i])
  <2>1. CASE i \in 1..Len(q)
    <3>1. i > 1 /\ MayFollow(q[i - 1], q[i]) /\ r[i] = q[i]
      BY <1>1, <1>2, <1>3, <2>1
    <3>2. i - 1 \in 1..Len(q)
      BY <1>1, <2>1, <3>1
    <3> QED
      BY <1>1, <3>1, <3>2
  <2>2. CASE i = Len(q) + 1
    <3>1. q # <<>> /\ MayFollow(q[Len(q)], m) /\ r[i] = m
      BY <1>1, <1>3, <2>2
    <3>2. Len(q) \in 1..Len(q) /\ i - 1 = Len(q) /\ i > 1
      <4>1. Len(q) # 0
        BY <3>1
      <4> QED
        BY <1>1, <2>2, <4>1
    <3>3. r[i - 1] = q[Len(q)]
      BY <1>1, <3>2
    <3> QED
      BY <3>1, <3>2, <3>3
  <2> QED
    BY <1>1, <2>1, <2>2
<1>4. ResultsFollowTheirCall(r)
  BY <1>1, <1>3, FollowsIs
<1> QED
  BY <1>4 DEF r

\* The messages that were not lost to a failure, with one more.
LEMMA NotFailedOn ==
  ASSUME NEW q \in Seq(AnyMessage), NEW m \in AnyMessage
  PROVE  NotFailed(Append(q, m)) =
           IF m.stop \in Failures \cup {"length"} THEN NotFailed(q) ELSE Append(NotFailed(q), m)
<1> DEFINE r == Append(q, m)
           P == {i \in DOMAIN q : q[i].stop \notin Failures \cup {"length"}}
           R == {i \in DOMAIN r : r[i].stop \notin Failures \cup {"length"}}
<1>1. /\ r \in Seq(AnyMessage) /\ Len(r) = Len(q) + 1 /\ Len(q) \in Nat /\ r[Len(q) + 1] = m
      /\ \A i \in 1..Len(q) : r[i] = q[i]
  BY OneMore
<1>2. DOMAIN r = 1..Len(r) /\ DOMAIN q = 1..Len(q)
  BY <1>1
<1>3. \A i \in 1..Len(q) : i \in P <=> i \in R
  BY <1>1, <1>2
<1>4. Len(q) + 1 \in R <=> m.stop \notin Failures \cup {"length"}
  BY <1>1, <1>2
<1>5. NotFailed(r) = Selected(r, R) /\ NotFailed(q) = Selected(q, P)
  BY DEF NotFailed
<1> HIDE DEF P, R
<1>6. Selected(q, P) = Selected(q, R)
  BY <1>1, <1>3, SelectedSame
<1>7. /\ Len(q) + 1 \in R => Selected(r, R) = Append(Selected(q, R), m)
      /\ Len(q) + 1 \notin R => Selected(r, R) = Selected(q, R)
  BY SelectedAppend
<1> QED
  BY <1>4, <1>5, <1>6, <1>7

\* An entry more is a word more.
LEMMA WordsOn ==
  ASSUME NEW path \in Seq(Entries), NEW e \in Entries
  PROVE  Words(Append(path, e)) = Append(Words(path), e.msg)
<1> DEFINE r == Append(path, e)
           W == Append(Words(path), e.msg)
<1>1. /\ Words(path) \in Seq(AnyMessage) /\ Len(Words(path)) = Len(path)
      /\ \A i \in 1..Len(path) : Words(path)[i] = path[i].msg
  BY WordsAre
<1>2. /\ r \in Seq(Entries) /\ Len(r) = Len(path) + 1 /\ r[Len(path) + 1] = e
      /\ \A i \in 1..Len(path) : r[i] = path[i]
      /\ \A i \in 1..Len(r) : i \in 1..Len(path) \/ i = Len(path) + 1
  BY OneMore
<1> HIDE DEF r
<1>3. /\ Words(r) \in Seq(AnyMessage) /\ Len(Words(r)) = Len(r)
      /\ \A i \in 1..Len(r) : Words(r)[i] = r[i].msg
  BY <1>2, WordsAre
<1>4. /\ W \in Seq(AnyMessage) /\ Len(W) = Len(path) + 1 /\ W[Len(path) + 1] = e.msg
      /\ \A i \in 1..Len(path) : W[i] = path[i].msg
  BY <1>1, AllVisible, OneMore
<1> HIDE DEF W
<1>5. \A i \in 1..Len(Words(r)) : Words(r)[i] = W[i]
  BY <1>2, <1>3, <1>4
<1>6. Words(r) = W
  BY <1>2, <1>3, <1>4, <1>5, SeqEqual
<1> QED
  BY <1>6 DEF r, W

\* A message is told and recorded.
LEMMA StoryOn ==
  ASSUME NEW path \in Seq(Entries), Numbering(path), NEW msgs \in Seq(AnyMessage), Story(path, msgs),
         NEW e \in Entries, e.id = Len(path) + 1, e.msg.role # "summary",
         e.msg.role = "result" => /\ msgs # <<>> /\ MayFollow(msgs[Len(msgs)], e.msg)
                                  /\ path # <<>> /\ MayFollow(path[Len(path)].msg, e.msg)
  PROVE  Story(Append(path, e), Append(msgs, e.msg))
<1> DEFINE r == Append(path, e)
           m == e.msg
<1>1. ~IsCompaction(e) /\ m \in AnyMessage /\ Len(path) \in Nat
  BY AllVisible DEF IsCompaction
<1>2. Folded(r)
  BY <1>1, FoldedOn DEF Story
<1>3. ResultsFollowTheirCall(Append(msgs, m))
  BY <1>1, FollowsOn DEF Story
<1>4. ResultsFollowTheirCall(Words(r))
  <2>1. /\ Words(path) \in Seq(AnyMessage) /\ Len(Words(path)) = Len(path)
        /\ \A i \in 1..Len(path) : Words(path)[i] = path[i].msg
    BY WordsAre
  <2>2. Words(r) = Append(Words(path), m)
    BY WordsOn
  <2>3. m.role = "result" => Words(path) # <<>> /\ MayFollow(Words(path)[Len(Words(path))], m)
    <3> SUFFICES ASSUME m.role = "result"
                 PROVE  Words(path) # <<>> /\ MayFollow(Words(path)[Len(Words(path))], m)
      OBVIOUS
    <3>1. path # <<>> /\ MayFollow(path[Len(path)].msg, m)
      OBVIOUS
    <3>2. Len(path) # 0
      BY <3>1
    <3>3. Len(path) \in 1..Len(path)
      BY <1>1, <3>2
    <3>4. Words(path) # <<>>
      BY <2>1, <3>2
    <3> QED
      BY <2>1, <3>1, <3>3, <3>4
  <2> QED
    BY <1>1, <2>1, <2>2, <2>3, FollowsOn DEF Story
<1>5. NotFailed(Append(msgs, m)) = NotFailed(Messages(r))
  <2>1. Messages(r) = Append(Messages(path), m)
    BY <1>1, ContextGrows DEF Story
  <2>2. Messages(path) \in Seq(AnyMessage)
    <3>1. ContextEntries(path) \in Seq(Entries) /\ Messages(path) = Words(ContextEntries(path))
      BY ContextIs DEF Story
    <3> QED
      BY <3>1, WordsAre
  <2>3. NotFailed(msgs) = NotFailed(Messages(path))
    BY DEF Story
  <2> HIDE DEF m, r
  <2> QED
    BY <1>1, <2>1, <2>2, <2>3, NotFailedOn
<1> QED
  BY <1>2, <1>3, <1>4, <1>5 DEF Story

\* Messages behind a path and behind a transcript, the first m of them.
Begun(msgs, m) == SubSeq(msgs, 1, m)

\* Messages are told and recorded, one after the other.
LEMMA StoryRuns ==
  ASSUME NEW path \in Seq(Entries), Numbering(path), NEW msgs \in Seq(AnyMessage), Story(path, msgs),
         NEW q \in Seq(AnyMessage), \A i \in 1..Len(q) : q[i].role # "summary",
         \A i \in 2..Len(q) : MayFollow(q[i - 1], q[i]),
         q # <<>> /\ q[1].role = "result" =>
           /\ msgs # <<>> /\ MayFollow(msgs[Len(msgs)], q[1])
           /\ path # <<>> /\ MayFollow(path[Len(path)].msg, q[1])
  PROVE  Story(path \o EntriesOf(Len(path), q), msgs \o q)
<1> DEFINE es == EntriesOf(Len(path), q)
           Goal(m) == /\ path \o Begun(es, m) \in Seq(Entries) /\ Numbering(path \o Begun(es, m))
                      /\ Story(path \o Begun(es, m), msgs \o Begun(q, m))
           S == {m \in Nat : m <= Len(q) => Goal(m)}
<1>1. /\ es \in Seq(Entries) /\ Len(es) = Len(q) /\ Len(q) \in Nat /\ Len(path) \in Nat /\ Len(msgs) \in Nat
      /\ \A j \in 1..Len(q) : es[j].id = Len(path) + j /\ es[j].msg = q[j]
  <2>1. es \in Seq(Entries) /\ Len(es) = Len(q) /\ \A j \in 1..Len(es) : es[j].id = Len(path) + j
    <3>1. Len(path) \in Nat
      OBVIOUS
    <3> QED
      BY <3>1, EntriesRecorded
  <2>2. \A j \in 1..Len(q) : es[j].msg = q[j]
    BY DEF EntriesOf, Entry
  <2> HIDE DEF es
  <2> QED
    BY <2>1, <2>2
<1> HIDE DEF es
<1>2. 0 \in S
  <2>1. Begun(es, 0) = <<>> /\ Begun(q, 0) = <<>>
    BY <1>1 DEF Begun
  <2>2. path \o <<>> = path /\ msgs \o <<>> = msgs
    OBVIOUS
  <2> QED
    BY <2>1, <2>2
<1>3. ASSUME NEW m \in Nat, m \in S PROVE m + 1 \in S
  <2> SUFFICES ASSUME m + 1 <= Len(q) PROVE Goal(m + 1)
    OBVIOUS
  <2> DEFINE e == es[m + 1]
             p0 == path \o Begun(es, m)
             t0 == msgs \o Begun(q, m)
  <2>1. m \in 0..Len(q) /\ m + 1 \in 1..Len(q) /\ m \in 0..Len(es) /\ m + 1 \in 1..Len(es)
    BY <1>1
  <2>2. Goal(m)
    BY <1>3, <2>1
  <2>3. /\ Begun(es, m) \in Seq(Entries) /\ Len(Begun(es, m)) = m
        /\ \A i \in 1..m : Begun(es, m)[i] = es[i]
    BY <1>1, <2>1 DEF Begun
  <2>4. /\ Begun(q, m) \in Seq(AnyMessage) /\ Len(Begun(q, m)) = m
        /\ \A i \in 1..m : Begun(q, m)[i] = q[i]
    BY <1>1, <2>1 DEF Begun
  <2>5. e \in Entries /\ q[m + 1] \in AnyMessage /\ e.msg = q[m + 1] /\ e.id = Len(path) + (m + 1)
    BY <1>1, <2>1
  <2>6. Begun(es, m + 1) = Append(Begun(es, m), e) /\ Begun(q, m + 1) = Append(Begun(q, m), q[m + 1])
    BY <1>1, <2>1 DEF Begun
  <2> HIDE DEF e
  <2>7. path \o Begun(es, m + 1) = Append(p0, e) /\ msgs \o Begun(q, m + 1) = Append(t0, e.msg)
    <3>1. path \o Append(Begun(es, m), e) = Append(p0, e)
      BY <2>3, <2>5
    <3>2. msgs \o Append(Begun(q, m), q[m + 1]) = Append(t0, q[m + 1])
      BY <2>4, <2>5
    <3> QED
      BY <2>5, <2>6, <3>1, <3>2
  <2>8. /\ p0 \in Seq(Entries) /\ Len(p0) = Len(path) + m
        /\ \A i \in 1..Len(path) : p0[i] = path[i]
        /\ \A j \in 1..m : p0[Len(path) + j] = es[j]
    <3>1. /\ p0 \in Seq(Entries) /\ Len(p0) = Len(path) + Len(Begun(es, m))
          /\ \A i \in 1..Len(path) : p0[i] = path[i]
          /\ \A j \in 1..Len(Begun(es, m)) : p0[Len(path) + j] = Begun(es, m)[j]
      <4> DEFINE y == Begun(es, m)
      <4>1. path \in Seq(Entries) /\ y \in Seq(Entries)
        BY <2>3
      <4> HIDE DEF y
      <4> QED
        BY <4>1, Joined DEF y
    <3> HIDE DEF p0
    <3> QED
      BY <2>3, <3>1
  <2>9. /\ t0 \in Seq(AnyMessage) /\ Len(t0) = Len(msgs) + m
        /\ \A i \in 1..Len(msgs) : t0[i] = msgs[i]
        /\ \A j \in 1..m : t0[Len(msgs) + j] = q[j]
    <3>1. /\ t0 \in Seq(AnyMessage) /\ Len(t0) = Len(msgs) + Len(Begun(q, m))
          /\ \A i \in 1..Len(msgs) : t0[i] = msgs[i]
          /\ \A j \in 1..Len(Begun(q, m)) : t0[Len(msgs) + j] = Begun(q, m)[j]
      <4> DEFINE y == Begun(q, m)
      <4>1. msgs \in Seq(AnyMessage) /\ y \in Seq(AnyMessage)
        BY <2>4
      <4> HIDE DEF y
      <4> QED
        BY <4>1, Joined DEF y
    <3> HIDE DEF t0
    <3> QED
      BY <2>4, <3>1
  <2>10. Story(p0, t0) /\ Numbering(p0)
    BY <2>2
  <2> HIDE DEF p0, t0
  <2>11. e.id = Len(p0) + 1 /\ e.msg.role # "summary"
    BY <1>1, <2>1, <2>5, <2>8
  <2>12. e.msg.role = "result" => /\ t0 # <<>> /\ MayFollow(t0[Len(t0)], e.msg)
                                  /\ p0 # <<>> /\ MayFollow(p0[Len(p0)].msg, e.msg)
    <3> SUFFICES ASSUME e.msg.role = "result"
                 PROVE  /\ t0 # <<>> /\ MayFollow(t0[Len(t0)], e.msg)
                        /\ p0 # <<>> /\ MayFollow(p0[Len(p0)].msg, e.msg)
      OBVIOUS
    <3>1. CASE m = 0
      <4>1. /\ msgs # <<>> /\ MayFollow(msgs[Len(msgs)], e.msg)
            /\ path # <<>> /\ MayFollow(path[Len(path)].msg, e.msg)
        <5>1. q[1] = e.msg /\ q # <<>>
          BY <1>1, <2>1, <2>5, <3>1
        <5> QED
          BY <5>1
      <4>2. Len(msgs) # 0 /\ Len(path) # 0
        BY <4>1
      <4>3. /\ Len(msgs) \in 1..Len(msgs) /\ Len(path) \in 1..Len(path)
            /\ Len(t0) = Len(msgs) /\ Len(p0) = Len(path) /\ Len(t0) # 0 /\ Len(p0) # 0
        BY <1>1, <2>8, <2>9, <3>1, <4>2
      <4>4. t0[Len(t0)] = msgs[Len(msgs)] /\ p0[Len(p0)] = path[Len(path)] /\ t0 # <<>> /\ p0 # <<>>
        BY <2>8, <2>9, <4>3
      <4> QED
        BY <4>1, <4>4
    <3>2. CASE m # 0
      <4>1. m \in 1..m /\ m \in 1..Len(q) /\ m + 1 \in 2..Len(q) /\ (m + 1) - 1 = m
        BY <1>1, <2>1, <3>2
      <4>2. MayFollow(q[m], e.msg) /\ es[m].msg = q[m]
        BY <1>1, <2>5, <4>1
      <4>3. t0[Len(t0)] = q[m] /\ p0[Len(p0)] = es[m] /\ Len(t0) # 0 /\ Len(p0) # 0
        BY <1>1, <2>8, <2>9, <3>2, <4>1
      <4>4. t0 # <<>> /\ p0 # <<>>
        BY <4>3
      <4> QED
        BY <4>2, <4>3, <4>4
    <3> QED
      BY <3>1, <3>2
  <2>13. Story(Append(p0, e), Append(t0, e.msg))
    BY <2>5, <2>8, <2>9, <2>10, <2>11, <2>12, StoryOn
  <2>14. Append(p0, e) \in Seq(Entries) /\ Numbering(Append(p0, e))
    BY <2>5, <2>8, <2>10, <2>11, PathAppended
  <2> QED
    BY <2>7, <2>13, <2>14
<1>4. Nat \subseteq S
  <2> HIDE DEF S
  <2> QED
    BY <1>2, <1>3, Induction
<1>5. Goal(Len(q))
  BY <1>1, <1>4
<1>6. Begun(es, Len(q)) = es /\ Begun(q, Len(q)) = q
  BY <1>1 DEF Begun
<1> QED
  BY <1>5, <1>6 DEF es

\* A failed response that is dropped is not missed.
LEMMA StoryDrops ==
  ASSUME NEW path, NEW msgs \in Seq(AnyMessage), Story(path, msgs), msgs # <<>>,
         msgs[Len(msgs)].stop \in Failures \cup {"length"}
  PROVE  Story(path, Front(msgs))
<1>1. Len(msgs) \in Nat /\ Len(msgs) # 0
  OBVIOUS
<1>2. Len(msgs) - 1 \in Nat /\ Len(msgs) = (Len(msgs) - 1) + 1
  BY <1>1
<1>3. PICK u \in Seq(AnyMessage), m \in AnyMessage : msgs = Append(u, m) /\ Len(u) = Len(msgs) - 1
  BY <1>2, LastOfSequence
<1>4. /\ msgs[Len(msgs)] = m /\ Len(msgs) = Len(u) + 1
      /\ \A i \in 1..Len(u) : msgs[i] = u[i]
  BY <1>3, OneMore
<1>5. Front(msgs) = u
  <2>1. Front(msgs) = SubSeq(msgs, 1, Len(msgs) - 1)
    BY DEF Front
  <2>2. SubSeq(msgs, 1, Len(msgs) - 1) = u
    BY <1>1, <1>3
  <2> QED
    BY <2>1, <2>2
<1>6. ResultsFollowTheirCall(u)
  <2>1. \A i \in 1..Len(msgs) : msgs[i].role = "result" => i > 1 /\ MayFollow(msgs[i - 1], msgs[i])
    BY FollowsIs DEF Story
  <2>2. ASSUME NEW i \in 1..Len(u), u[i].role = "result" PROVE i > 1 /\ MayFollow(u[i - 1], u[i])
    <3>1. Len(u) \in Nat /\ i \in 1..Len(msgs) /\ msgs[i] = u[i]
      BY <1>4
    <3>2. i > 1 /\ MayFollow(msgs[i - 1], u[i])
      BY <2>1, <2>2, <3>1
    <3>3. i - 1 \in 1..Len(u)
      BY <3>1, <3>2
    <3> QED
      BY <1>4, <3>2, <3>3
  <2> QED
    BY <2>2, FollowsIs
<1>7. NotFailed(msgs) = NotFailed(u)
  BY <1>3, <1>4, NotFailedOn
<1> QED
  BY <1>5, <1>6, <1>7 DEF Story

\* A compaction that may be prepared names what it does not keep.
LEMMA Prepared ==
  ASSUME NEW path \in Seq(Entries), Numbering(path), Folded(path), NEW p \in Preparations(path)
  PROVE  Carried(path, p)
<1> DEFINE b == BoundaryStart(path)
           c == LatestCompaction(path)
<1>1. PICK cut \in CutPoints(path) :
        /\ p.kept = path[WithMetadata(path, cut)].id
        /\ p.covers = CoveredUpTo(path, WithMetadata(path, cut))
  <2>1. Preparations(path) # {}
    OBVIOUS
  <2> QED
    BY <2>1 DEF Preparations
<1>2. Len(path) \in Nat /\ c \in 0..Len(path) /\ (c # 0 => IsCompaction(path[c]))
  BY Latest
<1>3. c # 0 => Carried(path, path[c]) /\ path[c].kept \in 1..Len(path)
  <2>1. c # 0 => c \in 1..Len(path)
    BY <1>2
  <2> QED
    BY <1>2, <2>1 DEF Folded, Carried
<1>4. b = IF c = 0 THEN 1 ELSE path[c].kept
  <2>1. CASE c = 0
    BY <2>1 DEF BoundaryStart
  <2>2. CASE c # 0
    <3>1. PositionOf(path, path[c].kept) = path[c].kept /\ path[c].kept # 0
      <4> DEFINE k == path[c].kept
      <4>1. k \in 1..Len(path) /\ k # 0
        BY <1>2, <1>3, <2>2
      <4> HIDE DEF k, c
      <4>2. PositionOf(path, k) = k
        BY <4>1, StandsAt
      <4> QED
        BY <4>1, <4>2 DEF k
    <3> QED
      BY <2>2, <3>1 DEF BoundaryStart
  <2> QED
    BY <2>1, <2>2
<1>5. b \in Nat /\ b >= 1
  <2> HIDE DEF b
  <2> QED
    BY <1>2, <1>3, <1>4
<1>6. cut \in b..Len(path) /\ IsCutPoint(path[cut]) /\ cut \in 1..Len(path)
  <2>1. cut \in b..Len(path) /\ IsCutPoint(path[cut])
    BY DEF CutPoints
  <2> HIDE DEF b
  <2> QED
    BY <1>2, <1>5, <2>1
<1>7. \A i \in 1..Len(path) : path[i].id = i /\ IsVisible(path[i]) /\ path[i] \in Entries
  <2>1. \A i \in 1..Len(path) : path[i] \in Entries
    OBVIOUS
  <2> QED
    BY <2>1, AllVisible DEF Numbering
<1>8. WithMetadata(path, cut) = cut
  <2> DEFINE A == {i \in b..cut : \A j \in i..(cut - 1) : ~IsVisible(path[j])}
  <2>1. WithMetadata(path, cut) = Min(A)
    BY DEF WithMetadata
  <2>2. A = {cut}
    <3> HIDE DEF b
    <3>1. cut \in A
      BY <1>2, <1>5, <1>6
    <3>2. ASSUME NEW i \in A PROVE i = cut
      <4>1. i \in b..cut /\ \A j \in i..(cut - 1) : ~IsVisible(path[j])
        OBVIOUS
      <4>2. CASE i # cut
        <5>1. i \in i..(cut - 1) /\ i \in 1..Len(path)
          BY <1>2, <1>5, <1>6, <4>1, <4>2
        <5> QED
          BY <1>7, <4>1, <5>1
      <4> QED
        BY <4>2
    <3> QED
      BY <3>1, <3>2
  <2> HIDE DEF A
  <2>3. Min({cut}) \in {cut}
    <3>1. {cut} \subseteq Nat /\ {cut} # {}
      BY <1>2, <1>6
    <3> QED
      BY <3>1, Least
  <2> QED
    BY <2>1, <2>2, <2>3
<1>9. p.kept = cut /\ path[p.kept].msg.role # "result"
  BY <1>1, <1>6, <1>7, <1>8 DEF IsCutPoint
<1>10. ASSUME NEW i \in 1..(p.kept - 1), ~IsCompaction(path[i]) PROVE i \in p.covers
  <2>1. i \in 1..Len(path) /\ i \in 1..(cut - 1)
    BY <1>2, <1>6, <1>9
  <2>2. p.covers = CoveredUpTo(path, cut)
    BY <1>1, <1>8
  <2>3. CASE i >= b
    <3>1. i \in b..(cut - 1)
      <4> HIDE DEF b
      <4> QED
        BY <1>5, <2>1, <2>3
    <3>2. i \in {x \in BoundaryStart(path)..(cut - 1) : IsVisible(path[x]) /\ ~IsCompaction(path[x])}
      BY <1>7, <1>10, <2>1, <3>1
    <3>3. path[i].id \in CoveredUpTo(path, cut)
      BY <3>2 DEF CoveredUpTo
    <3> QED
      BY <1>7, <2>1, <2>2, <3>3
  <2>4. CASE ~(i >= b)
    <3>1. c # 0 /\ i < path[c].kept
      <4> HIDE DEF b, c
      <4> QED
        BY <1>2, <1>3, <1>4, <1>5, <2>1, <2>4
    <3>2. i \in path[c].covers
      <4>1. i \in 1..(path[c].kept - 1)
        BY <1>3, <2>1, <3>1
      <4> QED
        BY <1>3, <1>10, <3>1, <4>1 DEF Carried
    <3> QED
      BY <2>2, <3>1, <3>2 DEF CoveredUpTo
  <2> QED
    BY <2>3, <2>4
<1> QED
  BY <1>6, <1>9, <1>10 DEF Carried

\* What the session shows is what it has: results with their calls, and nothing is forgotten.
LEMMA Shown ==
  ASSUME NEW path \in Seq(Entries), Numbering(path), Folded(path), ResultsFollowTheirCall(Words(path))
  PROVE  ResultsFollowTheirCall(Messages(path)) /\ NothingForgotten(path)
<1> DEFINE c == LatestCompaction(path)
           k == path[c].kept
           all == ContextEntries(path)
<1>1. Len(path) \in Nat /\ c \in 0..Len(path) /\ (c # 0 => IsCompaction(path[c]))
  BY Latest
<1>2. /\ all \in Seq(Entries) /\ Messages(path) = Words(all)
      /\ c = 0 => all = path
      /\ c # 0 =>
           /\ Len(all) = 1 + (Len(path) - k) /\ all[1] = path[c]
           /\ \A j \in 2..(1 + (c - k)) : all[j] = path[(k + j) - 2]
           /\ \A j \in (2 + (c - k))..Len(all) : all[j] = path[(k + j) - 1]
  BY ContextIs DEF Context
<1>3. c # 0 => k \in 1..(c - 1) /\ c \in 1..Len(path) /\ Carried(path, path[c])
  <2>1. c # 0 => c \in 1..Len(path)
    BY <1>1
  <2>2. c # 0 => k < c /\ Carried(path, path[c]) /\ k \in 1..Len(path)
    BY <1>1, <2>1 DEF Folded, Carried
  <2> HIDE DEF c, k
  <2> QED
    BY <1>1, <2>1, <2>2
<1>4. \A i \in 1..Len(path) : path[i].msg.role = "result" => i > 1 /\ MayFollow(path[i - 1].msg, path[i].msg)
  <2>1. /\ Words(path) \in Seq(AnyMessage) /\ Len(Words(path)) = Len(path)
        /\ \A i \in 1..Len(path) : Words(path)[i] = path[i].msg
    BY WordsAre
  <2>2. \A i \in 1..Len(Words(path)) :
          Words(path)[i].role = "result" => i > 1 /\ MayFollow(Words(path)[i - 1], Words(path)[i])
    BY <2>1, FollowsIs
  <2> SUFFICES ASSUME NEW i \in 1..Len(path), path[i].msg.role = "result"
               PROVE  i > 1 /\ MayFollow(path[i - 1].msg, path[i].msg)
    OBVIOUS
  <2>3. i > 1 /\ MayFollow(Words(path)[i - 1], path[i].msg)
    BY <2>1, <2>2
  <2>4. i - 1 \in 1..Len(path)
    BY <1>1, <2>3
  <2> QED
    BY <2>1, <2>3, <2>4
<1> HIDE DEF all, c, k
<1>5. ResultsFollowTheirCall(Words(all))
  <2>1. /\ Words(all) \in Seq(AnyMessage) /\ Len(Words(all)) = Len(all)
        /\ \A j \in 1..Len(all) : Words(all)[j] = all[j].msg
    BY <1>2, WordsAre
  <2>2. ASSUME NEW j \in 1..Len(all), all[j].msg.role = "result"
        PROVE  j > 1 /\ MayFollow(all[j - 1].msg, all[j].msg)
    <3>1. CASE c = 0
      BY <1>2, <1>4, <2>2, <3>1
    <3>2. CASE c # 0
      <4>0. /\ Len(all) = 1 + (Len(path) - k) /\ all[1] = path[c] /\ IsCompaction(path[c])
            /\ \A x \in 2..(1 + (c - k)) : all[x] = path[(k + x) - 2]
            /\ \A x \in (2 + (c - k))..Len(all) : all[x] = path[(k + x) - 1]
            /\ k \in 1..(c - 1) /\ c \in 1..Len(path) /\ path[k].msg.role # "result"
        BY <1>1, <1>2, <1>3, <3>2 DEF Carried, k
      <4>1. CASE j = 1
        BY <2>2, <4>0, <4>1 DEF IsCompaction
      <4>2. CASE j \in 2..(1 + (c - k))
        <5> DEFINE x == (k + j) - 2
        <5>1. x \in 1..Len(path) /\ all[j] = path[x] /\ j > 1
          BY <1>1, <4>0, <4>2
        <5>2. x > 1 /\ MayFollow(path[x - 1].msg, path[x].msg)
          BY <1>4, <2>2, <5>1
        <5>3. j # 2
          <6>1. j = 2 => x = k
            BY <4>0
          <6> QED
            BY <2>2, <4>0, <5>1, <6>1
        <5>4. j - 1 \in 2..(1 + (c - k)) /\ (k + (j - 1)) - 2 = x - 1
          BY <1>1, <4>0, <4>2, <5>3
        <5>5. all[j - 1] = path[x - 1]
          BY <4>0, <5>4
        <5> QED
          BY <5>1, <5>2, <5>5
      <4>3. CASE j \in (2 + (c - k))..Len(all)
        <5> DEFINE x == (k + j) - 1
        <5>1. x \in 1..Len(path) /\ all[j] = path[x] /\ j > 1 /\ x >= c + 1
          BY <1>1, <4>0, <4>3
        <5>2. x > 1 /\ MayFollow(path[x - 1].msg, path[x].msg)
          BY <1>4, <2>2, <5>1
        <5>3. x # c + 1
          <6> SUFFICES ASSUME x = c + 1 PROVE FALSE
            OBVIOUS
          <6>1. x - 1 = c
            BY <1>1
          <6>2. MayFollow(path[c].msg, path[x].msg) /\ path[c].msg.role = "summary"
            BY <4>0, <5>2, <6>1 DEF IsCompaction
          <6>3. path[x].msg.role = "result"
            BY <2>2, <5>1
          <6> QED
            BY <6>2, <6>3 DEF MayFollow
        <5>4. j - 1 \in (2 + (c - k))..Len(all) /\ (k + (j - 1)) - 1 = x - 1
          BY <1>1, <4>0, <4>3, <5>1, <5>3
        <5>5. all[j - 1] = path[x - 1]
          BY <4>0, <5>4
        <5> QED
          BY <5>1, <5>2, <5>5
      <4> QED
        BY <1>1, <4>0, <4>1, <4>2, <4>3
    <3> QED
      BY <3>1, <3>2
  <2>3. ASSUME NEW j \in 1..Len(Words(all)), Words(all)[j].role = "result"
        PROVE  j > 1 /\ MayFollow(Words(all)[j - 1], Words(all)[j])
    <3>1. j \in 1..Len(all) /\ all[j].msg.role = "result" /\ Len(all) \in Nat
      BY <1>2, <2>1, <2>3
    <3>2. j > 1 /\ MayFollow(all[j - 1].msg, all[j].msg)
      BY <2>2, <3>1
    <3>3. j - 1 \in 1..Len(all)
      BY <3>1, <3>2
    <3> QED
      BY <2>1, <3>1, <3>2, <3>3
  <2> QED
    BY <2>1, <2>3, FollowsIs
<1>6. NothingForgotten(path)
  <2> SUFFICES ASSUME NEW i \in DOMAIN path, ~IsCompaction(path[i]), path[i] \notin ToSet(all)
               PROVE  c # 0 /\ path[i].id \in path[c].covers
    BY DEF NothingForgotten, all, c
  <2>1. i \in 1..Len(path) /\ path[i].id = i
    BY DEF Numbering
  <2>2. \A j \in 1..Len(all) : path[i] # all[j]
    <3>1. DOMAIN all = 1..Len(all)
      BY <1>2
    <3> QED
      BY <3>1 DEF ToSet
  <2>3. c # 0
    BY <1>2, <2>1, <2>2
  <2>4. /\ Len(all) = 1 + (Len(path) - k)
        /\ \A x \in 2..(1 + (c - k)) : all[x] = path[(k + x) - 2]
        /\ \A x \in (2 + (c - k))..Len(all) : all[x] = path[(k + x) - 1]
        /\ k \in 1..(c - 1) /\ c \in 1..Len(path) /\ i # c
    <3>1. i # c
      BY <1>1, <2>3
    <3> QED
      BY <1>2, <1>3, <2>3, <3>1
  <2>5. i < k
    <3>1. CASE k <= i /\ i < c
      <4>1. LET j == (i - k) + 2 IN j \in 2..(1 + (c - k)) /\ (k + j) - 2 = i /\ j \in 1..Len(all)
        BY <1>1, <2>1, <2>4, <3>1
      <4> QED
        BY <2>2, <2>4, <4>1
    <3>2. CASE i > c
      <4>1. LET j == (i - k) + 1 IN j \in (2 + (c - k))..Len(all) /\ (k + j) - 1 = i /\ j \in 1..Len(all)
        BY <1>1, <2>1, <2>4, <3>2
      <4> QED
        BY <2>2, <2>4, <4>1
    <3> QED
      BY <1>1, <2>1, <2>4, <3>1, <3>2
  <2>6. i \in path[c].covers
    <3>1. i \in 1..(k - 1)
      BY <2>1, <2>4, <2>5
    <3> QED
      BY <1>3, <2>3, <3>1 DEF Carried, k
  <2> QED
    BY <2>1, <2>3, <2>6
<1> QED
  BY <1>2, <1>5, <1>6

\* A summary is recorded, and the transcript is what the session shows from then on.
LEMMA StoryFolds ==
  ASSUME NEW path \in Seq(Entries), Numbering(path), NEW msgs, Story(path, msgs),
         NEW e \in Entries, e.msg = Summary, e.id = Len(path) + 1, Carried(path, e)
  PROVE  LET r == Append(path, e)
         IN  /\ Story(r, Messages(r)) /\ Messages(r) \in Seq(AnyMessage)
             /\ Messages(r) # <<>> /\ path # <<>>
             /\ Messages(r)[Len(Messages(r))] = path[Len(path)].msg
<1> DEFINE r == Append(path, e)
           all == ContextEntries(r)
           k == e.kept
<1>1. /\ r \in Seq(Entries) /\ Len(r) = Len(path) + 1 /\ Len(path) \in Nat /\ r[Len(path) + 1] = e
      /\ \A i \in 1..Len(path) : r[i] = path[i]
  BY OneMore
<1>2. Folded(r) /\ Numbering(r)
  BY FoldedOn, PathAppended DEF Story
<1>3. ResultsFollowTheirCall(Words(r))
  <2>1. Words(r) = Append(Words(path), e.msg)
    BY WordsOn
  <2>2. e.msg \in AnyMessage /\ e.msg.role # "result"
    BY AllVisible, Kinds
  <2>3. Words(path) \in Seq(AnyMessage)
    BY WordsAre
  <2> HIDE DEF r
  <2> QED
    BY <2>1, <2>2, <2>3, FollowsOn DEF Story
<1> HIDE DEF r
<1>4. Story(r, Messages(r))
  BY <1>1, <1>2, <1>3, Shown DEF Story
<1>5. LatestCompaction(r) = Len(r)
  <2>1. IsCompaction(r[Len(r)]) /\ Len(r) \in 1..Len(r)
    BY <1>1, Kinds DEF IsCompaction
  <2>2. LatestCompaction(r) \in 0..Len(r) /\ Len(r) <= LatestCompaction(r)
    BY <1>1, <2>1, Latest
  <2> QED
    BY <1>1, <2>2
<1>6. k \in 1..Len(path)
  BY DEF Carried
<1>7. /\ all \in Seq(Entries) /\ Messages(r) = Words(all)
      /\ Len(all) = 1 + (Len(r) - k)
      /\ \A j \in 2..(1 + (Len(r) - k)) : all[j] = r[(k + j) - 2]
  <2>1. all \in Seq(Entries) /\ Context(r, all) /\ Messages(r) = Words(all)
    BY <1>1, <1>2, ContextIs
  <2>2. Len(r) # 0 /\ r[Len(r)].kept = k
    BY <1>1
  <2> HIDE DEF all, k
  <2> QED
    BY <1>5, <2>1, <2>2 DEF Context
<1> HIDE DEF all, k
<1>8. Len(all) \in 2..(1 + (Len(r) - k)) /\ (k + Len(all)) - 2 = Len(path) /\ Len(path) \in 1..Len(path)
  BY <1>1, <1>6, <1>7
<1>9. all[Len(all)] = path[Len(path)]
  BY <1>1, <1>7, <1>8
<1>10. /\ Words(all) \in Seq(AnyMessage) /\ Len(Words(all)) = Len(all)
       /\ \A i \in 1..Len(all) : Words(all)[i] = all[i].msg
  BY <1>7, WordsAre
<1>11. Len(all) \in 1..Len(all) /\ Len(all) # 0 /\ Len(path) # 0
  BY <1>1, <1>8
<1>12. Words(all) # <<>> /\ path # <<>> /\ Words(all)[Len(Words(all))] = path[Len(path)].msg
  BY <1>9, <1>10, <1>11
<1> QED
  BY <1>4, <1>7, <1>10, <1>12 DEF r

-----------------------------------------------------------------------------
(* The second invariant: what the session tells, and rows of failures.     *)

\* A row of failures has at most the retries that are counted, and those before a recovery.
Bound      == MaxRetries + 1
Allowed(s) == (IF s.recovered THEN Bound ELSE 0) + s.retry
Behind(s)  == s.streak <= Allowed(s)
Failed(s)  == \E m \in s.last : m.stop \in Failures

\* The response is the last word, to the agent and in the session.
Ending(q)   == q # <<>> /\ q[Len(q)].role = "assistant"
Answered(s) == Ending(s.transcript) /\ s.path # <<>> /\ s.path[Len(s.path)].msg.role = "assistant"

Row(s) ==
  /\ s.streak \in 0..(2 * Bound) /\ s.recovered \in BOOLEAN
  /\ s.at # "ended" => ~Failed(s)
  /\ s.at \in {"begun", "streaming", "tools", "turnEnd", "sleeping"} => Behind(s)
  /\ s.at = "ended" => IF Failed(s) THEN s.streak = 0 \/ (s.streak <= Allowed(s) + 1 /\ Answered(s))
                                    ELSE Behind(s)
  /\ s.at = "compacting" => Behind(s) \/ (Answered(s) /\ \A c \in s.summaries : ~c.retry)

\* Summaries are made where nothing else is said.
Alone(s) ==
  /\ \A c \in s.summaries : c.why = "turn" => s.at = "turnEnd"
  /\ \A c \in s.summaries : c.why \in {"prompt", "manual"} => ~s.active
  /\ \A c \in s.summaries : c.why = "manual" => s.preflight = {}

PlansHold(s) == \A c \in s.summaries : Carried(s.path, c.prep)

\* The last word while tools work: the call, or the result before.
Due(m, s) == IF s.done = 0 THEN m.role = "assistant" /\ m.calls > 0 ELSE m.role = "result" /\ m.n = s.done

Told(s) ==
  /\ s.at = "tools" => /\ s.transcript # <<>> /\ Due(s.transcript[Len(s.transcript)], s)
                       /\ s.path # <<>> /\ Due(s.path[Len(s.path)].msg, s)
  /\ s.at = "ended" /\ Ending(s.transcript) => s.transcript[Len(s.transcript)] \in s.last

Onward(s) == Row(s) /\ Alone(s) /\ Story(s.path, s.transcript) /\ PlansHold(s) /\ Told(s)

Grows(p, r) ==
  Len(p) \in Nat /\ Len(r) \in Nat /\ Len(p) <= Len(r) /\ \A i \in 1..Len(p) : r[i] = p[i]

\* Messages may have been recorded, which begin a new row.
Adds(s, t) ==
  /\ Grows(s.path, t.path)
  /\ Story(s.path, s.transcript) => Story(t.path, t.transcript)
  /\ s.recovered \in BOOLEAN => t.recovered \in BOOLEAN
  /\ \/ t.streak = 0 /\ ~Ending(t.transcript)
     \/ /\ t.streak = s.streak /\ t.recovered = s.recovered
        /\ t.transcript = s.transcript /\ t.path = s.path

\* One recording after another.
LEMMA AddsOn ==
  ASSUME NEW r, NEW s, NEW t, Adds(r, s), Adds(s, t)
  PROVE  Adds(r, t)
<1>1. Grows(r.path, t.path)
  <2>1. \A i \in 1..Len(r.path) : i \in 1..Len(s.path)
    BY DEF Adds, Grows
  <2> QED
    BY <2>1 DEF Adds, Grows
<1> QED
  BY <1>1 DEF Adds

\* Plans hold when the session grows.
LEMMA PlansGrow ==
  ASSUME NEW s, PlansHold(s), NEW t, Grows(s.path, t.path), t.summaries \subseteq s.summaries
  PROVE  PlansHold(t)
<1> SUFFICES ASSUME NEW c \in t.summaries PROVE Carried(t.path, c.prep)
  BY DEF PlansHold
<1>1. Carried(s.path, c.prep)
  BY DEF PlansHold
<1> QED
  BY <1>1, CarriedOn DEF Grows

\* Behind messages that were sent the last word is no response.
LEMMA EndsSent ==
  ASSUME NEW q \in Seq(AnyMessage), NEW msgs \in Seq(MessagesSent), msgs # <<>>
  PROVE  ~Ending(q \o msgs)
<1>1. msgs \in Seq(AnyMessage) /\ Len(msgs) \in 1..Len(msgs) /\ msgs[Len(msgs)] \in MessagesSent
  <2>1. Len(msgs) \in 1..Len(msgs)
    OBVIOUS
  <2> QED
    BY <2>1, SentOpens
<1>2. /\ Len(q \o msgs) = Len(q) + Len(msgs)
      /\ \A j \in 1..Len(msgs) : (q \o msgs)[Len(q) + j] = msgs[j]
  BY <1>1, Joined
<1> QED
  BY <1>1, <1>2, Kinds DEF Ending

\* Messages that were sent are recorded.
LEMMA AddsAll ==
  ASSUME NEW s, DOMAIN s = DOMAIN NewHost, Logs(s), NEW msgs \in Seq(MessagesSent)
  PROVE  LET t == RecordAll(s, msgs) IN Adds(s, t) /\ (msgs # <<>> => t.streak = 0)
<1> DEFINE t == RecordAll(s, msgs)
<1>1. /\ t.path = s.path \o EntriesOf(Len(s.path), msgs) /\ t.transcript = s.transcript \o msgs
      /\ t.streak = (IF msgs = <<>> THEN s.streak ELSE 0) /\ t.recovered = s.recovered
  BY DEF RecordAll, EntriesOf, NewHost
<1>2. /\ s.transcript \in Seq(AnyMessage) /\ s.path \in Seq(Entries) /\ Numbering(s.path)
      /\ msgs \in Seq(AnyMessage) /\ Len(s.path) \in Nat /\ Len(msgs) \in Nat
  <2>1. s.transcript \in Seq(AnyMessage) /\ s.path \in Seq(Entries) /\ Numbering(s.path)
    BY DEF Logs
  <2> QED
    BY <2>1, SentOpens
<1>3. \A i \in 1..Len(msgs) : msgs[i].role \notin {"summary", "result", "assistant"}
  <2>1. \A i \in 1..Len(msgs) : msgs[i] \in MessagesSent
    OBVIOUS
  <2> QED
    BY <2>1, Kinds, SortsAssumption
<1> HIDE DEF t
<1>4. ASSUME Story(s.path, s.transcript) PROVE Story(t.path, t.transcript)
  <2>1. \A i \in 2..Len(msgs) : MayFollow(msgs[i - 1], msgs[i])
    BY <1>2, <1>3 DEF MayFollow
  <2>2. msgs # <<>> => msgs[1].role # "result"
    BY <1>2, <1>3
  <2> QED
    BY <1>1, <1>2, <1>3, <1>4, <2>1, <2>2, StoryRuns
<1>5. /\ Grows(s.path, t.path)
      /\ msgs = <<>> => t.path = s.path /\ t.transcript = s.transcript
      /\ msgs # <<>> => ~Ending(t.transcript)
  <2> DEFINE es == EntriesOf(Len(s.path), msgs)
  <2>1. es \in Seq(Entries) /\ Len(es) = Len(msgs)
    BY <1>2, EntriesRecorded
  <2> HIDE DEF es
  <2>2. /\ t.path \in Seq(Entries) /\ Len(t.path) = Len(s.path) + Len(msgs)
        /\ \A i \in 1..Len(s.path) : t.path[i] = s.path[i]
    <3> DEFINE p == s.path
    <3>1. p \in Seq(Entries) /\ t.path = p \o es
      BY <1>1, <1>2 DEF es
    <3> HIDE DEF p
    <3>2. /\ p \o es \in Seq(Entries) /\ Len(p \o es) = Len(p) + Len(es)
          /\ \A i \in 1..Len(p) : (p \o es)[i] = p[i]
      BY <2>1, <3>1, Joined
    <3> QED
      BY <2>1, <3>1, <3>2 DEF p
  <2>3. Grows(s.path, t.path)
    BY <1>2, <2>2 DEF Grows
  <2>4. CASE msgs = <<>>
    <3>1. es = <<>>
      BY <2>1, <2>4
    <3>2. t.path = s.path /\ t.transcript = s.transcript
      <4>1. t.path = s.path \o <<>> /\ t.transcript = s.transcript \o <<>>
        BY <1>1, <2>4, <3>1 DEF es
      <4>2. s.path \o <<>> = s.path /\ s.transcript \o <<>> = s.transcript
        BY <1>2
      <4> QED
        BY <4>1, <4>2
    <3> QED
      BY <2>3, <2>4, <3>2
  <2>5. CASE msgs # <<>>
    <3>1. ~Ending(t.transcript)
      BY <1>1, <1>2, <2>5, EndsSent
    <3> QED
      BY <2>3, <2>5, <3>1
  <2> QED
    BY <2>4, <2>5
<1>6. Adds(s, t) /\ (msgs # <<>> => t.streak = 0)
  BY <1>1, <1>4, <1>5 DEF Adds
<1> QED
  BY <1>6 DEF t

\* Messages start, and are taken off the lists that show them.
LEMMA AddsSaid ==
  ASSUME NEW s, DOMAIN s = DOMAIN NewHost, Logs(s), NEW msgs \in Seq(MessagesSent), s.recovered \in BOOLEAN
  PROVE  LET t == SayAll(s, msgs) IN Adds(s, t) /\ (msgs # <<>> => t.streak = 0)
<1> DEFINE u == TakeOffLists(s, OfUser(msgs))
           t == RecordAll(u, msgs)
<1>1. /\ DOMAIN u = DOMAIN NewHost /\ u.path = s.path /\ u.transcript = s.transcript /\ u.streak = s.streak
      /\ u.recovered = (s.recovered /\ OfUser(msgs) = {})
  BY DEF TakeOffLists, NewHost
<1>2. t = SayAll(s, msgs)
  BY DEF SayAll
<1> HIDE DEF u
<1>3. Logs(u)
  BY <1>1 DEF Logs
<1>4. Adds(u, t) /\ (msgs # <<>> => t.streak = 0)
  BY <1>1, <1>3, AddsAll
<1>5. t.recovered = u.recovered
  BY <1>1 DEF RecordAll, NewHost
<1> HIDE DEF t
<1>6. msgs = <<>> => OfUser(msgs) = {}
  BY NothingWaits
<1>7. u.recovered \in BOOLEAN /\ (OfUser(msgs) = {} => u.recovered = s.recovered)
  BY <1>1
<1>8. Adds(s, t)
  <2>1. CASE msgs = <<>>
    <3>1. u.recovered = s.recovered
      BY <1>6, <1>7, <2>1
    <3> QED
      BY <1>1, <1>4, <1>5, <1>7, <3>1 DEF Adds
  <2>2. CASE msgs # <<>>
    <3>1. t.streak = 0 /\ t.recovered \in BOOLEAN
      BY <1>4, <1>5, <1>7, <2>2
    <3>2. ~Ending(t.transcript)
      <4>1. t.transcript = u.transcript \o msgs
        BY <1>1 DEF RecordAll, NewHost, t
      <4> QED
        BY <1>1, <2>2, <4>1, EndsSent DEF Logs
    <3>3. /\ Grows(s.path, t.path)
          /\ Story(s.path, s.transcript) => Story(t.path, t.transcript)
      BY <1>1, <1>4 DEF Adds
    <3> QED
      BY <3>1, <3>2, <3>3 DEF Adds
  <2> QED
    BY <2>1, <2>2
<1> QED
  BY <1>2, <1>4, <1>8

\* What the agent and the session have been told, and the row, are the same.
AsTold(s, t) ==
  t.transcript = s.transcript /\ t.path = s.path /\ t.streak = s.streak /\ t.recovered = s.recovered

\* So is what the row is compared with.
Alike(s, t) == AsTold(s, t) /\ t.retry = s.retry /\ t.last = s.last /\ t.summaries = s.summaries

LEMMA AddsAsTold ==
  ASSUME NEW s, NEW x, AsTold(s, x), NEW f, Adds(x, f), NEW t, AsTold(f, t)
  PROVE  Adds(s, t)
BY DEF Adds, AsTold

\* _flushPendingCustomMessages and _flushPendingBashMessages
LEMMA AddsFlushed ==
  ASSUME NEW s, Books(s)
  PROVE  Adds(s, FlushCustom(s)) /\ Adds(s, FlushBash(s)) /\ Adds(s, FlushCustom(FlushBash(s)))
<1>1. ASSUME NEW u, Books(u) PROVE Adds(u, FlushCustom(u)) /\ Adds(u, FlushBash(u))
  <2> DEFINE x == [u EXCEPT !.custom = <<>>]
             y == [u EXCEPT !.bash = <<>>]
  <2>1. /\ DOMAIN x = DOMAIN NewHost /\ DOMAIN y = DOMAIN NewHost /\ AsTold(u, x) /\ AsTold(u, y)
        /\ FlushCustom(u) = RecordAll(x, u.custom) /\ FlushBash(u) = RecordAll(y, u.bash)
    BY <1>1 DEF Books, NewHost, AsTold, FlushCustom, FlushBash
  <2> HIDE DEF x, y
  <2>2. Logs(x) /\ Logs(y)
    BY <1>1, <2>1 DEF Books, Logs, AsTold
  <2>3. u["custom"] \in Seq(MessagesSent) /\ u["bash"] \in Seq(MessagesSent)
    BY <1>1 DEF Books, Lists, Stores
  <2>4. Adds(x, RecordAll(x, u.custom)) /\ Adds(y, RecordAll(y, u.bash))
    BY <2>1, <2>2, <2>3, AddsAll
  <2> QED
    BY <2>1, <2>4, AddsAsTold DEF AsTold
<1>2. Books(FlushBash(s))
  BY BashFlushed
<1> QED
  BY <1>1, <1>2, AddsOn

\* A state to which messages may be added.
Steady(s) ==
  /\ Books(s) /\ Story(s.path, s.transcript) /\ s.summaries = {}
  /\ s.retry \in 0..MaxRetries /\ s.streak \in 0..(2 * Bound) /\ s.recovered \in BOOLEAN /\ ~Failed(s)

LEMMA Counts == Bound \in Nat /\ MaxRetries \in Nat /\ Bound = MaxRetries + 1 /\ 0 \in 0..(2 * Bound)
BY RetriesAssumption DEF Bound

\* A row of no failures is never behind.
LEMMA BehindNone ==
  ASSUME NEW s, s.retry \in 0..MaxRetries, s.streak = 0
  PROVE  Behind(s)
BY Counts DEF Behind, Allowed

\* Where the run goes on, or ends well.
LEMMA LandsOn ==
  ASSUME NEW s, Steady(s), NEW t, Adds(s, t), t.retry = s.retry, t.last = s.last, t.summaries = s.summaries,
         t.at \in {"idle", "begun", "streaming", "turnEnd", "ended"},
         t.at = "idle" \/ Behind(s) \/ t.streak = 0,
         t.at = "ended" /\ Ending(s.transcript) => s.transcript[Len(s.transcript)] \in s.last
  PROVE  Onward(t)
<1>1. /\ Story(t.path, t.transcript) /\ t.recovered \in BOOLEAN
      /\ \/ t.streak = 0 /\ ~Ending(t.transcript)
         \/ /\ t.streak = s.streak /\ t.recovered = s.recovered
            /\ t.transcript = s.transcript /\ t.path = s.path
  BY DEF Adds, Steady
<1>2. t.at = "idle" \/ Behind(t)
  <2>1. CASE t.streak = 0
    BY <2>1, BehindNone DEF Steady
  <2>2. CASE t.streak # 0
    <3>1. Allowed(t) = Allowed(s) /\ t.streak = s.streak
      BY <1>1, <2>2 DEF Allowed
    <3> QED
      BY <2>2, <3>1 DEF Behind
  <2> QED
    BY <2>1, <2>2
<1>3. Row(t)
  <2>1. t.streak \in 0..(2 * Bound) /\ ~Failed(t)
    BY <1>1, Counts DEF Steady, Failed
  <2> QED
    BY <1>1, <1>2, <2>1 DEF Row
<1>4. Alone(t) /\ PlansHold(t)
  BY DEF Steady, Alone, PlansHold
<1>5. Told(t)
  BY <1>1 DEF Told
<1> QED
  BY <1>1, <1>3, <1>4, <1>5 DEF Onward

\* The next run begins, with what was drained of a queue or with nothing.
LEMMA BeginsOn ==
  ASSUME NEW s, Steady(s), NEW v, Books(v), Alike(s, v), Behind(s) \/ v.pending # <<>>, NEW skip
  PROVE  Onward(BeginRun(v, v.pending, skip))
<1> DEFINE x == [v EXCEPT !.at = "begun", !.skip = skip, !.aborted = FALSE, !.pending = <<>>]
           t == SayAll(x, v.pending)
<1>1. DOMAIN x = DOMAIN NewHost /\ AsTold(v, x) /\ BeginRun(v, v.pending, skip) = t
  BY DEF Books, NewHost, AsTold, BeginRun
<1>2. t.retry = v.retry /\ t.last = v.last /\ t.summaries = v.summaries /\ t.at = "begun"
  BY DEF SayAll, TakeOffLists, RecordAll, NewHost, Books
<1> HIDE DEF x
<1>3. Logs(x) /\ x.recovered \in BOOLEAN /\ AsTold(s, x)
  BY <1>1 DEF Books, Logs, AsTold, Alike, Steady
<1>4. v["pending"] \in Seq(MessagesSent)
  BY DEF Books, Lists, Stores
<1>5. Adds(x, t) /\ (v.pending # <<>> => t.streak = 0)
  BY <1>1, <1>3, <1>4, AddsSaid
<1> HIDE DEF t
<1>6. Adds(s, t)
  BY <1>3, <1>5, AddsAsTold DEF AsTold
<1>7. Onward(t)
  BY <1>2, <1>5, <1>6, LandsOn DEF Alike
<1> QED
  BY <1>1, <1>7

\* The prompt is over.
LEMMA SettlesOn ==
  ASSUME NEW s, Steady(s)
  PROVE  Onward(Settle([s EXCEPT !.at = "idle"]))
<1> DEFINE u == [s EXCEPT !.at = "idle"]
           f == FlushCustom(FlushBash(u))
           t == Settle(u)
<1>1. Only(s, u, {"at"}) /\ u.at = "idle" /\ Alike(s, u)
  BY DEF Only, NewHost, Books, Steady, Alike, AsTold
<1> HIDE DEF u
<1>2. Books(u)
  BY <1>1, BooksKept, SilentFields DEF Steady
<1>3. Adds(u, f) /\ Only(u, f, Spoken \cup {"custom", "bash"})
  BY <1>2, AddsFlushed, BothFlushed
<1>4. t = [f EXCEPT !.active = FALSE, !.at = "idle"]
  BY <1>1 DEF Settle, Running
<1> HIDE DEF f, t
<1>5. /\ AsTold(f, t) /\ t.at = "idle" /\ t.retry = f.retry /\ t.last = f.last /\ t.summaries = f.summaries
  BY <1>3, <1>4 DEF AsTold, Only, NewHost
<1>6. f.retry = u.retry /\ f.last = u.last /\ f.summaries = u.summaries
  BY <1>3 DEF Only, NewHost, Spoken
<1>7. Adds(s, t)
  BY <1>1, <1>3, <1>5, AddsAsTold DEF Alike
<1>8. Onward(t)
  BY <1>1, <1>5, <1>6, <1>7, LandsOn DEF Alike
<1> QED
  BY <1>8 DEF t, u

\* The prompt goes on, or ends.
LEMMA ContinuesOn ==
  ASSUME NEW s, Steady(s), s.transcript # <<>>, s.pending = <<>>, Behind(s) \/ Ending(s.transcript)
  PROVE  Onward(Continue(s)) /\ Onward(ContinueIfQueued(s))
<1>0. Books(s) /\ s.transcript # <<>> /\ s.pending = <<>>
  BY DEF Steady
<1>1. ASSUME NEW v, Books(v), Only(s, v, {"steer", "follow", "pending"}) PROVE Alike(s, v)
  BY <1>1 DEF Only, NewHost, Alike, AsTold
<1>2. Onward(Continue(s))
  <2>1. CASE Last(s.transcript).role # "assistant"
    <3>1. Continue(s) = BeginRun(s, s.pending, FALSE)
      BY <1>0, <2>1 DEF Continue
    <3>2. Alike(s, s)
      BY DEF Alike, AsTold
    <3>3. Behind(s)
      BY <2>1 DEF Ending, Last
    <3> QED
      BY <1>0, <3>1, <3>2, <3>3, BeginsOn
  <2>2. CASE Last(s.transcript).role = "assistant" /\ s.steer # <<>>
    <3> DEFINE v == DrainSteering(s)
    <3>1. Books(v) /\ Only(s, v, {"steer", "pending"}) /\ v.pending = Drained(s.steer)
      BY <1>0, SteeringDrained
    <3>2. Continue(s) = BeginRun(v, v.pending, TRUE)
      BY <1>0, <2>2, <3>1 DEF Continue
    <3> HIDE DEF v
    <3>3. Only(s, v, {"steer", "follow", "pending"})
      BY <3>1 DEF Only
    <3>4. v.pending # <<>>
      <4>1. s["steer"] \in Seq(MessagesSent)
        BY <1>0 DEF Books, Lists, Stores
      <4> QED
        BY <2>2, <3>1, <4>1, DrainedAndLeft
    <3>5. Alike(s, v)
      BY <1>1, <3>1, <3>3
    <3> QED
      BY <3>1, <3>2, <3>4, <3>5, BeginsOn
  <2>3. CASE Last(s.transcript).role = "assistant" /\ s.steer = <<>> /\ s.follow # <<>>
    <3> DEFINE v == DrainFollowUps(s)
    <3>1. Books(v) /\ Only(s, v, {"follow", "pending"}) /\ v.pending = Drained(s.follow)
      BY <1>0, FollowUpsDrained
    <3>2. Continue(s) = BeginRun(v, v.pending, FALSE)
      BY <1>0, <2>3, <3>1 DEF Continue
    <3> HIDE DEF v
    <3>3. Only(s, v, {"steer", "follow", "pending"})
      BY <3>1 DEF Only
    <3>4. v.pending # <<>>
      <4>1. s["follow"] \in Seq(MessagesSent)
        BY <1>0 DEF Books, Lists, Stores
      <4> QED
        BY <2>3, <3>1, <4>1, DrainedAndLeft
    <3>5. Alike(s, v)
      BY <1>1, <3>1, <3>3
    <3> QED
      BY <3>1, <3>2, <3>4, <3>5, BeginsOn
  <2>4. CASE Last(s.transcript).role = "assistant" /\ s.steer = <<>> /\ s.follow = <<>>
    <3>1. Continue(s) = Settle([s EXCEPT !.at = "idle"])
      BY <1>0, <2>4 DEF Continue
    <3> QED
      BY <3>1, SettlesOn
  <2> QED
    BY <2>1, <2>2, <2>3, <2>4
<1>3. Onward(ContinueIfQueued(s))
  BY <1>2, SettlesOn DEF ContinueIfQueued
<1> QED
  BY <1>2, <1>3

\* A failed response is dropped.
LEMMA DropsOn ==
  ASSUME NEW s, Books(s), Story(s.path, s.transcript),
         Ending(s.transcript) => s.transcript[Len(s.transcript)].stop \in Failures \cup {"length"}
  PROVE  LET t == DropLastResponse(s)
         IN  /\ Books(t) /\ Only(s, t, {"transcript"}) /\ Story(t.path, t.transcript)
             /\ s.transcript # <<>> => t.transcript # <<>>
<1> DEFINE t == DropLastResponse(s)
<1>1. Books(t) /\ Only(s, t, {"transcript"}) /\ (s.transcript # <<>> => t.transcript # <<>>)
  BY ResponseDropped
<1>2. t.path = s.path
  BY <1>1 DEF Only, NewHost
<1>3. t.transcript = IF Ending(s.transcript) THEN Front(s.transcript) ELSE s.transcript
  BY DEF DropLastResponse, Ending, Last, Books, NewHost
<1>4. Story(t.path, t.transcript)
  <2>1. CASE Ending(s.transcript)
    <3>1. s.transcript \in Seq(AnyMessage) /\ s.transcript # <<>>
      BY <2>1 DEF Books, Logs, Ending
    <3> QED
      BY <1>2, <1>3, <2>1, <3>1, StoryDrops
  <2>2. CASE ~Ending(s.transcript)
    BY <1>2, <1>3, <2>2
  <2> QED
    BY <2>1, <2>2
<1> QED
  BY <1>1, <1>4

\* A summary that is begun is a plan that holds.
LEMMA PlansOn ==
  ASSUME NEW s, Books(s), Story(s.path, s.transcript), PlansHold(s),
         NEW p \in Preparations(s.path), NEW why, NEW retry
  PROVE  LET t == Summarise(s, why, p, retry)
         IN  /\ PlansHold(t) /\ AsTold(s, t) /\ Only(s, t, {"summaries", "compactions"})
             /\ t.summaries = s.summaries \cup {[why |-> why, prep |-> p, retry |-> retry]}
<1> DEFINE t == Summarise(s, why, p, retry)
           c == [why |-> why, prep |-> p, retry |-> retry]
<1>1. Only(s, t, {"summaries", "compactions"}) /\ t.summaries = s.summaries \cup {c}
  BY DEF Summarise, Only, NewHost, Books
<1>2. c.prep = p
  OBVIOUS
<1> HIDE DEF t, c
<1>3. AsTold(s, t)
  BY <1>1 DEF Only, NewHost, AsTold
<1>4. Carried(s.path, p)
  BY Prepared DEF Books, Logs, Story
<1>5. PlansHold(t)
  BY <1>1, <1>2, <1>3, <1>4 DEF PlansHold, AsTold
<1> QED
  BY <1>1, <1>3, <1>5 DEF t, c

\* _checkCompaction: the context is compacted, or the prompt goes on without.  An overflow is
\* recovered from once, which permits another row.
LEMMA ChecksOn ==
  ASSUME NEW s, Steady(s), s.transcript # <<>>, s.pending = <<>>, NEW stop, NEW t \in AfterCheck(s, stop),
         Overflowed(stop) /\ Ending(s.transcript) =>
           s.transcript[Len(s.transcript)].stop \in Failures \cup {"length"},
         Behind(s) \/ (Answered(s) /\ s.streak <= (IF s.recovered THEN Bound ELSE 0) + Bound)
  PROVE  Onward(t)
<1> DEFINE r == [s EXCEPT !.recovered = TRUE]
           over == Overflowed(stop)
           u == IF over /\ ~s.recovered THEN DropLastResponse(r) ELSE s
           at == [u EXCEPT !.at = "compacting"]
           made(p) == Summarise(at, "runEnd", p, over)
<1>1. /\ t = ContinueIfQueued(u) \/ \E p \in Preparations(u.path) : t = made(p) /\ ~(over /\ s.recovered)
  BY DEF AfterCheck
<1>2. /\ Steady(u) /\ u.transcript # <<>> /\ u.pending = <<>>
      /\ Behind(u) \/ (Answered(u) /\ ~(over /\ ~s.recovered))
  <2>1. CASE over /\ ~s.recovered
    <3>1. Only(s, r, {"recovered"}) /\ r.recovered = TRUE /\ u = DropLastResponse(r)
      BY <2>1 DEF Only, NewHost, Steady, Books
    <3> HIDE DEF r, u, over
    <3>2. Books(r)
      BY <3>1, BooksKept, SilentFields DEF Steady
    <3>3. /\ r.path = s.path /\ r.transcript = s.transcript
          /\ Ending(r.transcript) => r.transcript[Len(r.transcript)].stop \in Failures \cup {"length"}
      BY <2>1, <3>1 DEF Only, NewHost, over
    <3>4. Books(u) /\ Only(r, u, {"transcript"}) /\ Story(u.path, u.transcript) /\ u.transcript # <<>>
      BY <3>1, <3>2, <3>3, DropsOn DEF Steady
    <3>5. /\ u.recovered = TRUE /\ u.streak = s.streak /\ u.retry = s.retry /\ u.last = s.last
          /\ u.summaries = s.summaries /\ u.pending = s.pending
      BY <3>1, <3>4 DEF Only, NewHost
    <3>6. Steady(u)
      BY <3>4, <3>5 DEF Steady, Failed
    <3>7. Behind(u)
      <4>1. Allowed(u) = Bound + s.retry /\ s.retry \in 0..MaxRetries /\ s.streak \in 0..(2 * Bound)
        BY <3>5 DEF Allowed, Steady
      <4>2. s.streak <= Bound + s.retry
        <5>1. Behind(s) => s.streak <= s.retry
          BY <2>1 DEF Behind, Allowed, Steady
        <5>2. s.streak <= (IF s.recovered THEN Bound ELSE 0) + Bound => s.streak <= Bound
          BY <2>1, Counts
        <5> QED
          BY <4>1, <5>1, <5>2, Counts
      <4> QED
        BY <3>5, <4>1, <4>2 DEF Behind
    <3> QED
      BY <3>4, <3>5, <3>6, <3>7
  <2>2. CASE ~(over /\ ~s.recovered)
    BY <2>2
  <2> QED
    BY <2>1, <2>2
<1> HIDE DEF r, u
<1>3. CASE t = ContinueIfQueued(u)
  BY <1>2, <1>3, ContinuesOn DEF Answered
<1>4. ASSUME NEW p \in Preparations(u.path), t = made(p), ~(over /\ s.recovered) PROVE Onward(t)
  <2>1. Only(u, at, {"at"}) /\ at.at = "compacting" /\ Alike(u, at)
    BY <1>2 DEF Only, NewHost, Steady, Books, Alike, AsTold
  <2> HIDE DEF at, over
  <2>2. Books(at) /\ Story(at.path, at.transcript) /\ at.summaries = {} /\ PlansHold(at)
    <3>1. Books(at)
      BY <1>2, <2>1, BooksKept, SilentFields DEF Steady
    <3> QED
      BY <1>2, <2>1, <3>1 DEF Steady, Alike, AsTold, PlansHold
  <2>3. /\ PlansHold(t) /\ AsTold(at, t) /\ Only(at, t, {"summaries", "compactions"})
        /\ t.summaries = {[why |-> "runEnd", prep |-> p, retry |-> over]}
    <3>1. p \in Preparations(at.path)
      BY <2>1 DEF Alike, AsTold
    <3> QED
      BY <1>4, <2>2, <3>1, PlansOn
  <2>4. t.at = "compacting" /\ t.last = u.last /\ t.retry = u.retry /\ AsTold(u, t)
    BY <2>1, <2>3 DEF Only, NewHost, Alike, AsTold
  <2>5. Alone(t) /\ \A c \in t.summaries : c.retry = over
    BY <2>3 DEF Alone
  <2>6. Row(t)
    <3>1. Behind(t) \/ (Answered(t) /\ ~over)
      BY <1>2, <1>4, <2>4 DEF Behind, Allowed, Answered, AsTold
    <3>2. ~Failed(t) /\ t.streak \in 0..(2 * Bound) /\ t.recovered \in BOOLEAN
      BY <1>2, <2>4 DEF Steady, Failed, AsTold
    <3> QED
      BY <2>4, <2>5, <3>1, <3>2 DEF Row
  <2>7. Told(t) /\ Story(t.path, t.transcript)
    BY <1>2, <2>4 DEF Told, Steady, AsTold
  <2> QED
    BY <2>3, <2>5, <2>6, <2>7 DEF Onward
<1> QED
  BY <1>1, <1>3, <1>4

\* After a run: the sleep before a retry, a compaction, the next run, or the end.
LEMMA RunsOn ==
  ASSUME NEW s, Steady(s), s.transcript # <<>>, s.pending = <<>>, NEW stop, NEW t \in AfterRun(s, stop),
         stop \in Failures \cup {"length"} /\ Ending(s.transcript) =>
           s.transcript[Len(s.transcript)].stop \in Failures \cup {"length"},
         IF stop \in Failures THEN s.streak = 0 \/ (s.streak <= Allowed(s) + 1 /\ Answered(s)) ELSE Behind(s)
  PROVE  Onward(t)
<1>0. s.retry \in 0..MaxRetries /\ s.streak \in 0..(2 * Bound) /\ s.recovered \in BOOLEAN
  BY DEF Steady
<1>1. CASE stop = "error" /\ s.retry < MaxRetries
  <2> DEFINE u == DropLastResponse(s)
  <2>1. Books(u) /\ Only(s, u, {"transcript"}) /\ Story(u.path, u.transcript)
    BY <1>1, DropsOn DEF Steady, Failures
  <2>2. t = [u EXCEPT !.retry = @ + 1, !.at = "sleeping"]
    BY <1>1 DEF AfterRun
  <2> HIDE DEF u
  <2>3. /\ t.retry = s.retry + 1 /\ t.at = "sleeping" /\ t.streak = s.streak /\ t.recovered = s.recovered
        /\ t.last = s.last /\ t.summaries = s.summaries /\ t.path = u.path /\ t.transcript = u.transcript
    BY <2>1, <2>2 DEF Only, NewHost
  <2>4. Behind(t)
    <3>1. s.streak = 0 \/ s.streak <= Allowed(s) + 1
      BY <1>1 DEF Failures
    <3> QED
      BY <1>0, <2>3, <3>1, Counts DEF Behind, Allowed
  <2>5. Row(t)
    BY <1>0, <2>3, <2>4 DEF Row, Steady, Failed
  <2>6. Alone(t) /\ PlansHold(t) /\ Told(t)
    BY <2>3 DEF Alone, PlansHold, Told, Steady
  <2> QED
    BY <2>1, <2>3, <2>5, <2>6 DEF Onward
<1>2. CASE ~(stop = "error" /\ s.retry < MaxRetries)
  <2> DEFINE u == [s EXCEPT !.retry = IF stop \in Failures THEN 0 ELSE @]
  <2>1. t \in AfterCheck(u, stop)
    BY <1>2 DEF AfterRun
  <2>2. Only(s, u, {"retry"}) /\ u.retry = (IF stop \in Failures THEN 0 ELSE s.retry)
    BY DEF Only, NewHost, Steady, Books
  <2> HIDE DEF u
  <2>3. AsTold(s, u) /\ u.last = s.last /\ u.summaries = s.summaries /\ u.pending = s.pending
    BY <2>2 DEF Only, NewHost, AsTold
  <2>4. Steady(u)
    <3>1. Books(u)
      BY <2>2, BooksKept, SilentFields DEF Steady
    <3>2. u.retry \in 0..MaxRetries
      BY <1>0, <2>2, Counts
    <3> QED
      BY <2>3, <3>1, <3>2 DEF Steady, AsTold, Failed
  <2>5. Behind(u) \/ (Answered(u) /\ u.streak <= (IF u.recovered THEN Bound ELSE 0) + Bound)
    <3>1. CASE stop \in Failures
      <4>1. CASE s.streak = 0
        BY <2>3, <2>4, <4>1, BehindNone DEF Steady, AsTold
      <4>2. CASE s.streak <= Allowed(s) + 1 /\ Answered(s)
        <5>1. s.streak <= (IF s.recovered THEN Bound ELSE 0) + Bound
          BY <1>0, <4>2, Counts DEF Allowed
        <5> QED
          BY <2>3, <4>2, <5>1 DEF Answered, AsTold
      <4> QED
        BY <3>1, <4>1, <4>2
    <3>2. CASE stop \notin Failures
      BY <2>2, <2>3, <3>2 DEF Behind, Allowed, AsTold
    <3> QED
      BY <3>1, <3>2
  <2>6. Overflowed(stop) => stop \in Failures \cup {"length"}
    BY DEF Overflowed, Failures
  <2> QED
    BY <2>1, <2>3, <2>4, <2>5, <2>6, ChecksOn DEF AsTold
<1> QED
  BY <1>1, <1>2

\* The next turn begins with the messages that wait for it.
LEMMA InjectsOn ==
  ASSUME NEW s, Steady(s), Behind(s), NEW v, Books(v), Alike(s, v)
  PROVE  Onward(Inject(v))
<1> DEFINE x == [v EXCEPT !.pending = <<>>]
           f == SayAll(x, v.pending)
           t == Inject(v)
<1>1. DOMAIN x = DOMAIN NewHost /\ AsTold(v, x)
  BY DEF Books, NewHost, AsTold
<1>2. t.retry = v.retry /\ t.last = v.last /\ t.summaries = v.summaries /\ t.at = "streaming" /\ AsTold(f, t)
  BY DEF Inject, SayAll, TakeOffLists, RecordAll, NewHost, Books, AsTold
<1> HIDE DEF x, t
<1>3. Logs(x) /\ x.recovered \in BOOLEAN /\ AsTold(s, x)
  BY <1>1 DEF Books, Logs, AsTold, Alike, Steady
<1>4. v["pending"] \in Seq(MessagesSent)
  BY DEF Books, Lists, Stores
<1>5. Adds(x, f)
  BY <1>1, <1>3, <1>4, AddsSaid
<1> HIDE DEF f
<1>6. Adds(s, t)
  BY <1>2, <1>3, <1>5, AddsAsTold
<1>7. Onward(t)
  BY <1>2, <1>6, LandsOn DEF Alike
<1> QED
  BY <1>7 DEF t

\* The end of a turn.
LEMMA TurnsOn ==
  ASSUME NEW s, Steady(s), Behind(s), NEW more,
         Ending(s.transcript) => s.transcript[Len(s.transcript)] \in s.last
  PROVE  Onward(TurnOver(s, more))
<1> DEFINE f == FlushCustom(s)
           t == TurnOver(s, more)
<1>1. Adds(s, f) /\ Only(s, f, Spoken \cup {"custom"})
  BY AddsFlushed, CustomFlushed DEF Steady
<1>2. f.retry = s.retry /\ f.last = s.last /\ f.summaries = s.summaries /\ DOMAIN f = DOMAIN NewHost
  BY <1>1 DEF Only, NewHost, Spoken
<1> HIDE DEF f
<1>3. /\ AsTold(f, t) /\ t.retry = f.retry /\ t.last = f.last /\ t.summaries = f.summaries
      /\ t.at \in {"turnEnd", "ended"}
  BY <1>2 DEF TurnOver, DrainSteering, DrainFollowUps, NewHost, AsTold, f
<1> HIDE DEF t
<1>4. Adds(s, t)
  BY <1>1, <1>3, AddsAsTold DEF AsTold
<1>5. Onward(t)
  BY <1>2, <1>3, <1>4, LandsOn
<1> QED
  BY <1>5 DEF t

-----------------------------------------------------------------------------
(* The steps of the host and of the model keep the second invariant.       *)

\* A message is told and recorded.
CanTell(path, msgs, m) ==
  /\ path \in Seq(Entries) /\ Numbering(path) /\ msgs \in Seq(AnyMessage) /\ Story(path, msgs)
  /\ m \in AnyMessage /\ m.role # "summary"
  /\ m.role = "result" => /\ msgs # <<>> /\ MayFollow(msgs[Len(msgs)], m)
                          /\ path # <<>> /\ MayFollow(path[Len(path)].msg, m)

Tells(path, m, r, q) ==
  /\ Story(r, q) /\ Grows(path, r)
  /\ q # <<>> /\ q[Len(q)] = m /\ r # <<>> /\ r[Len(r)].msg = m

LEMMA ToldMore ==
  ASSUME NEW path, NEW msgs, NEW m, CanTell(path, msgs, m)
  PROVE  Tells(path, m, Append(path, Entry(Len(path) + 1, m, 0, {})), Append(msgs, m))
<1> DEFINE e == Entry(Len(path) + 1, m, 0, {})
           q == Append(msgs, m)
           r == Append(path, e)
<1>0. /\ path \in Seq(Entries) /\ Numbering(path) /\ msgs \in Seq(AnyMessage) /\ Story(path, msgs)
      /\ m \in AnyMessage /\ m.role # "summary"
      /\ m.role = "result" => /\ msgs # <<>> /\ MayFollow(msgs[Len(msgs)], m)
                              /\ path # <<>> /\ MayFollow(path[Len(path)].msg, m)
  BY DEF CanTell
<1>1. Len(path) \in Nat /\ e \in Entries /\ e.id = Len(path) + 1 /\ e.msg = m
  BY <1>0 DEF Entry, Entries
<1> HIDE DEF e
<1>2. Story(r, q)
  <2>1. Story(Append(path, e), Append(msgs, e.msg))
    BY <1>0, <1>1, StoryOn
  <2> QED
    BY <1>1, <2>1
<1>3. /\ Len(r) = Len(path) + 1 /\ r[Len(path) + 1] = e
      /\ \A i \in 1..Len(path) : r[i] = path[i]
  BY <1>0, <1>1, OneMore
<1>4. Len(q) = Len(msgs) + 1 /\ q[Len(msgs) + 1] = m /\ Len(msgs) \in Nat
  BY <1>0, OneMore
<1>5. q # <<>> /\ r # <<>>
  <2>1. Len(q) # 0 /\ Len(r) # 0 /\ Len(<<>>) = 0
    BY <1>1, <1>3, <1>4
  <2> QED
    BY <2>1
<1>6. Grows(path, r)
  BY <1>1, <1>3 DEF Grows
<1> HIDE DEF q, r
<1>7. Tells(path, m, r, q)
  BY <1>1, <1>2, <1>3, <1>4, <1>5, <1>6 DEF Tells
<1> QED
  BY <1>7 DEF q, r, e

\* Within a run no summary is made but before the next turn.
LEMMA NoSummaries ==
  ASSUME IInv, Onward(host), host.at \notin {"idle", "compacting"},
         host.at = "turnEnd" => ~Summarising(host, "turn")
  PROVE  host.summaries = {} /\ (~Failed(host) => Steady(host))
<1>1. Books(host) /\ Fields(host) /\ Orderly(host) /\ host.active
  BY DEF IInv, Sound, Phase
<1>2. ASSUME NEW c \in host.summaries PROVE FALSE
  <2>1. c.why \in {"prompt", "turn", "manual", "runEnd"}
    BY <1>1 DEF Fields, Summaries
  <2>2. c.why # "runEnd" /\ c.why \notin {"prompt", "manual"}
    BY <1>1 DEF Orderly, Onward, Alone
  <2>3. c.why = "turn" => host.at = "turnEnd"
    BY DEF Onward, Alone
  <2>4. c.why # "turn"
    BY <2>3 DEF Summarising
  <2> QED
    BY <2>1, <2>2, <2>4
<1>3. host.summaries = {}
  BY <1>2
<1> QED
  BY <1>1, <1>3 DEF Steady, Onward, Row, Fields

\* The first poll of a run for steering, and the next turn.
LEMMA PollsOn ==
  ASSUME IInv, Onward(host), Poll \/ NextTurn
  PROVE  Onward(host')
<1>0. Books(host) /\ (host.at = "begun" => host.pending = <<>>)
  BY DEF IInv, Sound, Phase
<1>1. host.at \in {"begun", "turnEnd"} /\ (host.at = "turnEnd" => ~Summarising(host, "turn"))
  BY DEF Poll, NextTurn
<1>2. Steady(host) /\ Behind(host)
  BY <1>1, NoSummaries DEF Onward, Row
<1>3. PICK v : host' = Inject(v) /\ Books(v) /\ Alike(host, v)
  <2> DEFINE x == [host EXCEPT !.skip = FALSE]
             d == DrainSteering(host)
  <2>1. Books(x) /\ Alike(host, x)
    <3>1. Only(host, x, {"skip"}) /\ Alike(host, x)
      BY <1>0 DEF Only, NewHost, Books, Alike, AsTold
    <3> HIDE DEF x
    <3> QED
      BY <1>0, <3>1, BooksKept, SilentFields
  <2>2. host.pending = <<>> => Books(d) /\ Alike(host, d)
    <3>1. host.pending = <<>> => Books(d) /\ Only(host, d, {"steer", "pending"})
      BY <1>0, SteeringDrained
    <3> HIDE DEF d
    <3> QED
      BY <3>1 DEF Only, NewHost, Alike, AsTold
  <2>3. Alike(host, host)
    BY DEF Alike, AsTold
  <2>4. CASE Poll
    BY <1>0, <2>1, <2>2, <2>4 DEF Poll
  <2>5. CASE NextTurn
    BY <1>0, <2>2, <2>3, <2>5 DEF NextTurn
  <2> QED
    BY <2>4, <2>5
<1> QED
  BY <1>2, <1>3, InjectsOn

\* A response ends the run, ends the turn, or calls tools.
LEMMA RespondsOn ==
  ASSUME IInv, Onward(host), NEW stop \in Stops, NEW calls \in 0..MaxCalls, Respond(stop, calls)
  PROVE  Onward(host')
<1> DEFINE x == [host EXCEPT
                   !.toolTurns = @ + (IF calls > 0 THEN 1 ELSE 0),
                   !.failing   = @ + (IF stop \in Failures \cup {"length"} THEN 1 ELSE 0)]
           m == Response(stop, calls)
           t == Responded(x, m)
<1>1. host.at = "streaming" /\ host' = ResponseEnds(x, m)
  BY DEF Respond, CanRespond
<1>2. Only(host, x, {"toolTurns", "failing"})
  BY DEF Only, NewHost, IInv, Sound, Books
<1>3. m \in Responses /\ m.calls = calls /\ m.stop = stop /\ m.role = "assistant" /\ m \in AnyMessage
  <2>1. m \in Responses /\ m.calls = calls /\ m.stop = stop
    BY DEF Response, Message, Responses
  <2> HIDE DEF m
  <2> QED
    BY <2>1, Kinds
<1> HIDE DEF x, m
<1>4. Books(t) /\ t.pending = <<>>
  <2>1. Within(t)
    BY <1>1, <1>2, <1>3, Responds DEF IInv
  <2> HIDE DEF t
  <2> QED
    BY <2>1 DEF Within
<1>5. Steady(host) /\ Behind(host) /\ Books(host)
  <2>1. host.at \notin {"idle", "compacting", "turnEnd", "ended"}
    BY <1>1
  <2> QED
    BY <1>1, <2>1, NoSummaries DEF Onward, Row, Steady
<1>6. /\ t.transcript = Append(host.transcript, m)
      /\ t.path = Append(host.path, Entry(Len(host.path) + 1, m, 0, {}))
      /\ t.last = {m} /\ t.summaries = {} /\ DOMAIN t = DOMAIN NewHost
      /\ t.recovered = (host.recovered /\ (stop \in Failures \/ stop = "length"))
      /\ t.retry = (IF stop \in Failures THEN host.retry ELSE 0)
      /\ t.streak = (IF stop \in Failures THEN host.streak + 1 ELSE 0)
  <2>1. /\ x.transcript = host.transcript /\ x.path = host.path /\ x.summaries = host.summaries
        /\ x.recovered = host.recovered /\ x.retry = host.retry /\ x.streak = host.streak
    BY <1>2 DEF Only, NewHost
  <2> QED
    BY <1>2, <1>3, <1>5, <2>1 DEF Responded, Record, Only, NewHost, Steady
<1> HIDE DEF t
<1>7. /\ Story(t.path, t.transcript)
      /\ t.transcript # <<>> /\ t.transcript[Len(t.transcript)] = m
      /\ t.path # <<>> /\ t.path[Len(t.path)].msg = m
  <2>1. CanTell(host.path, host.transcript, m)
    BY <1>3, <1>5 DEF Steady, Books, Logs, CanTell
  <2>2. Tells(host.path, m, t.path, t.transcript)
    BY <1>6, <2>1, ToldMore
  <2> QED
    BY <2>2 DEF Tells
<1>8. stop \notin Failures => Steady(t) /\ Behind(t) /\ ~Failed(t)
  <2> SUFFICES ASSUME stop \notin Failures PROVE Steady(t) /\ Behind(t) /\ ~Failed(t)
    OBVIOUS
  <2>1. t.streak = 0 /\ t.retry = 0 /\ t.recovered \in BOOLEAN /\ ~Failed(t)
    BY <1>3, <1>6 DEF Failed
  <2>2. 0 \in 0..MaxRetries /\ 0 \in 0..(2 * Bound)
    BY Counts
  <2> QED
    BY <1>4, <1>6, <1>7, <2>1, <2>2, BehindNone DEF Steady
<1>9. CASE stop \in Failures
  <2> DEFINE f == FlushCustom(t)
  <2>1. host' = [f EXCEPT !.at = "ended"]
    BY <1>1, <1>3, <1>9 DEF ResponseEnds, t
  <2>2. Adds(t, f) /\ Only(t, f, Spoken \cup {"custom"})
    BY <1>4, AddsFlushed, CustomFlushed
  <2> HIDE DEF f
  <2>3. /\ AsTold(f, host') /\ host'.at = "ended" /\ host'.retry = t.retry /\ host'.last = t.last
        /\ host'.summaries = {}
    BY <1>6, <2>1, <2>2 DEF AsTold, Only, NewHost, Spoken
  <2>4. Adds(t, host')
    BY <2>2, <2>3, AddsAsTold DEF AsTold
  <2>5. /\ t.recovered = host.recovered /\ t.retry = host.retry /\ t.streak = host.streak + 1
        /\ t.recovered \in BOOLEAN /\ host.streak <= Allowed(host) /\ host.streak \in Nat
        /\ host.retry \in 0..MaxRetries
    BY <1>5, <1>6, <1>9 DEF Steady, Behind
  <2>6. host'.streak = 0 \/ (host'.streak <= Allowed(host') + 1 /\ Answered(host'))
    <3>1. CASE host'.streak = 0
      BY <3>1
    <3>2. CASE host'.streak # 0
      <4>1. AsTold(t, host')
        BY <2>4, <3>2 DEF Adds, AsTold
      <4>2. Allowed(host') = Allowed(host) /\ host'.streak = host.streak + 1
        BY <2>3, <2>5, <4>1 DEF Allowed, AsTold
      <4>3. Answered(host')
        BY <1>3, <1>7, <4>1 DEF Answered, Ending, AsTold
      <4>4. Allowed(host) \in Nat
        BY <1>5, <2>5, Counts DEF Allowed, Steady
      <4> QED
        BY <2>5, <4>2, <4>3, <4>4
    <3> QED
      BY <3>1, <3>2
  <2>7. host'.streak \in 0..(2 * Bound) /\ host'.recovered \in BOOLEAN
    <3>1. host.streak + 1 \in 0..(2 * Bound)
      BY <1>5, <2>5, Counts DEF Allowed, Steady
    <3> QED
      BY <2>4, <2>5, <3>1, Counts DEF Adds
  <2>8. Failed(host')
    BY <1>3, <1>6, <1>9, <2>3 DEF Failed
  <2>9. Row(host')
    BY <2>3, <2>6, <2>7, <2>8 DEF Row
  <2>10. Told(host')
    <3>1. Ending(host'.transcript) => host'.transcript = t.transcript
      BY <2>4 DEF Adds
    <3> QED
      BY <1>6, <1>7, <2>3, <3>1 DEF Told
  <2>11. Story(host'.path, host'.transcript)
    BY <1>7, <2>4 DEF Adds
  <2>12. Alone(host') /\ PlansHold(host')
    BY <2>3 DEF Alone, PlansHold
  <2> QED
    BY <2>9, <2>10, <2>11, <2>12 DEF Onward
<1>10. CASE stop = "aborted"
  <2> DEFINE f == FlushCustom(t)
  <2>0. stop \notin Failures
    BY <1>10 DEF Failures
  <2>1. host' = [f EXCEPT !.at = "ended"]
    BY <1>1, <1>3, <1>10 DEF ResponseEnds, t
  <2>2. Adds(t, f) /\ Only(t, f, Spoken \cup {"custom"})
    BY <1>4, AddsFlushed, CustomFlushed
  <2> HIDE DEF f
  <2>3. /\ AsTold(f, host') /\ host'.at = "ended" /\ host'.retry = t.retry /\ host'.last = t.last
        /\ host'.summaries = t.summaries
    BY <2>1, <2>2 DEF AsTold, Only, NewHost, Spoken
  <2>4. Adds(t, host')
    BY <2>2, <2>3, AddsAsTold DEF AsTold
  <2> QED
    BY <1>6, <1>7, <1>8, <2>0, <2>3, <2>4, LandsOn
<1>11. CASE stop \notin Failures \cup {"aborted"} /\ calls = 0
  <2>1. host' = TurnOver(t, FALSE)
    BY <1>1, <1>3, <1>11 DEF ResponseEnds, t
  <2> QED
    BY <1>6, <1>7, <1>8, <1>11, <2>1, TurnsOn
<1>12. CASE stop = "length" /\ calls # 0
  <2> DEFINE q == [i \in 1..calls |-> ResultOf(i)]
             r == RecordAll(t, q)
  <2>0. stop \notin Failures /\ calls \in Nat /\ calls > 0
    BY <1>12, BoundsAssumption DEF Failures
  <2>1. host' = TurnOver(r, TRUE)
    BY <1>1, <1>3, <1>12 DEF ResponseEnds, t, Failures
  <2>2. Books(r) /\ Only(t, r, Spoken)
    BY <1>4, <1>7, MadeUp
  <2>3. /\ r.path = t.path \o EntriesOf(Len(t.path), q) /\ r.transcript = t.transcript \o q
        /\ r.streak = (IF q = <<>> THEN t.streak ELSE 0)
    BY <1>6 DEF RecordAll, EntriesOf, NewHost
  <2>4. r.retry = t.retry /\ r.last = t.last /\ r.summaries = t.summaries /\ r.recovered = t.recovered
    BY <2>2 DEF Only, NewHost, Spoken
  <2> HIDE DEF r
  <2>5. /\ q \in Seq(AnyMessage) /\ Len(q) = calls
        /\ \A i \in 1..calls : q[i] = ResultOf(i)
    <3>1. \A i \in 1..calls : ResultOf(i) \in AnyMessage
      <4>1. \A i \in 1..calls : i \in 1..MaxCalls
        BY <2>0, BoundsAssumption
      <4> QED
        BY <4>1, Kinds
    <3> QED
      BY <2>0, <3>1
  <2> HIDE DEF q
  <2>6. \A i \in 1..calls : q[i].role = "result" /\ q[i].n = i
    BY <2>5 DEF ResultOf, Message
  <2>7. Story(r.path, r.transcript)
    <3>1. t.path \in Seq(Entries) /\ Numbering(t.path) /\ t.transcript \in Seq(AnyMessage)
      BY <1>4 DEF Books, Logs
    <3>2. \A i \in 1..Len(q) : q[i].role # "summary"
      BY <2>5, <2>6
    <3>3. \A i \in 2..Len(q) : MayFollow(q[i - 1], q[i])
      BY <2>0, <2>5, <2>6 DEF MayFollow
    <3>4. MayFollow(m, q[1])
      BY <1>3, <2>0, <2>5, <2>6 DEF MayFollow
    <3> QED
      BY <1>7, <2>3, <2>5, <3>1, <3>2, <3>3, <3>4, StoryRuns
  <2>8. r.streak = 0
    BY <1>6, <2>0, <2>3
  <2>9. ~Ending(r.transcript)
    <3>1. /\ Len(r.transcript) = Len(t.transcript) + Len(q)
          /\ \A j \in 1..Len(q) : r.transcript[Len(t.transcript) + j] = q[j]
      <4> DEFINE p == t.transcript
      <4>1. p \in Seq(AnyMessage) /\ q \in Seq(AnyMessage) /\ r.transcript = p \o q
        BY <1>4, <2>3, <2>5 DEF Books, Logs
      <4> HIDE DEF p
      <4>2. /\ Len(p \o q) = Len(p) + Len(q)
            /\ \A j \in 1..Len(q) : (p \o q)[Len(p) + j] = q[j]
        BY <4>1, Joined
      <4> QED
        BY <4>1, <4>2 DEF p
    <3>2. r.transcript[Len(r.transcript)] = q[calls] /\ calls \in 1..calls
      BY <2>0, <2>5, <3>1
    <3> QED
      BY <2>6, <3>2 DEF Ending
  <2>10. Steady(r) /\ Behind(r)
    <3>1. Steady(t)
      BY <1>8, <2>0
    <3>2. Steady(r)
      BY <2>2, <2>4, <2>7, <2>8, <3>1, Counts DEF Steady, Failed
    <3> QED
      BY <2>8, <3>2, BehindNone DEF Steady
  <2> QED
    BY <2>1, <2>9, <2>10, TurnsOn
<1>13. CASE stop \notin Failures \cup {"aborted", "length"} /\ calls # 0
  <2>1. host' = [t EXCEPT !.at = "tools", !.calls = calls, !.done = 0]
    BY <1>1, <1>3, <1>13 DEF ResponseEnds, t
  <2>2. /\ AsTold(t, host') /\ host'.at = "tools" /\ host'.done = 0 /\ host'.retry = t.retry
        /\ host'.last = t.last /\ host'.summaries = {}
    BY <1>6, <2>1 DEF NewHost, AsTold
  <2>3. Steady(t) /\ Behind(t) /\ ~Failed(t) /\ calls > 0
    BY <1>8, <1>13, BoundsAssumption
  <2>4. Row(host')
    BY <2>2, <2>3 DEF Row, Steady, Behind, Allowed, Failed, AsTold
  <2>5. Told(host')
    BY <1>3, <1>7, <2>2, <2>3 DEF Told, Due, AsTold
  <2>6. Alone(host') /\ PlansHold(host') /\ Story(host'.path, host'.transcript)
    BY <1>7, <2>2 DEF Alone, PlansHold, AsTold
  <2> QED
    BY <2>4, <2>5, <2>6 DEF Onward
<1> QED
  BY <1>9, <1>10, <1>11, <1>12, <1>13

\* A result is recorded; with the last one the turn is over.
LEMMA ResultsOn ==
  ASSUME IInv, Onward(host), NEW break, NEW more, RecordResult(break, more)
  PROVE  Onward(host')
<1> DEFINE m == ResultOf(host.done + 1)
           t == [Record(host, m) EXCEPT !.done = @ + 1]
           F == {"transcript", "path", "done"}
<1>1. host.at = "tools" /\ host' \in {t, TurnOver(t, more)}
  BY DEF RecordResult
<1>2. /\ Books(host) /\ DOMAIN host = DOMAIN NewHost /\ host.done \in Nat /\ host.transcript # <<>>
      /\ host.done + 1 \in 1..MaxCalls
  <2>1. /\ host.done \in Nat /\ host.calls \in 0..MaxCalls /\ host.done < host.calls
    BY <1>1 DEF IInv, Sound, Fields, Phase
  <2> QED
    BY <1>1, <2>1, BoundsAssumption DEF IInv, Sound, Books, Phase
<1>3. m \in AnyMessage /\ m.role = "result" /\ m.n = host.done + 1
  BY <1>2, Kinds DEF ResultOf, Message
<1>4. Steady(host) /\ Behind(host)
  <2>1. host.at \notin {"idle", "compacting", "turnEnd", "ended"}
    BY <1>1
  <2> QED
    BY <1>1, <2>1, NoSummaries DEF Onward, Row
<1> HIDE DEF m
<1>5. /\ Only(host, t, F) /\ t.transcript = Append(host.transcript, m)
      /\ t.path = Append(host.path, Entry(Len(host.path) + 1, m, 0, {}))
      /\ t.done = host.done + 1
  BY <1>2 DEF Record, Only, NewHost
<1> HIDE DEF t
<1>6. F \subseteq Silent \cup {"transcript", "path"}
  BY SilentFields
<1>7. Books(t)
  <2> HIDE DEF F
  <2>1. m.role \in {"assistant", "result"}
    BY <1>3
  <2> QED
    BY <1>2, <1>3, <1>5, <1>6, <2>1, Made
<1>8. CanTell(host.path, host.transcript, m)
  <2>1. /\ host.transcript # <<>> /\ Due(host.transcript[Len(host.transcript)], host)
        /\ host.path # <<>> /\ Due(host.path[Len(host.path)].msg, host)
    BY <1>1 DEF Onward, Told
  <2>2. \A n : Due(n, host) => MayFollow(n, m)
    BY <1>2, <1>3 DEF Due, MayFollow
  <2>3. /\ host.path \in Seq(Entries) /\ Numbering(host.path) /\ host.transcript \in Seq(AnyMessage)
        /\ Story(host.path, host.transcript)
    BY <1>2 DEF Onward, Books, Logs
  <2> QED
    BY <1>3, <2>1, <2>2, <2>3 DEF CanTell
<1>9. Tells(host.path, m, t.path, t.transcript)
  BY <1>5, <1>8, ToldMore
<1>10. /\ Story(t.path, t.transcript)
       /\ t.transcript # <<>> /\ t.transcript[Len(t.transcript)] = m
       /\ t.path # <<>> /\ t.path[Len(t.path)].msg = m
  BY <1>9 DEF Tells
<1>11. /\ t.streak = host.streak /\ t.recovered = host.recovered /\ t.retry = host.retry
       /\ t.last = host.last /\ t.summaries = host.summaries /\ t.at = host.at
  BY <1>5 DEF Only, NewHost
<1>12. Steady(t) /\ Behind(t)
  BY <1>4, <1>7, <1>10, <1>11 DEF Steady, Failed, Behind, Allowed
<1>13. CASE host' = TurnOver(t, more)
  BY <1>3, <1>10, <1>12, <1>13, TurnsOn DEF Ending
<1>14. CASE host' = t
  <2>1. Due(m, t)
    BY <1>2, <1>3, <1>5 DEF Due
  <2>2. Told(t)
    BY <1>1, <1>10, <1>11, <2>1 DEF Told
  <2>3. Row(t)
    BY <1>1, <1>11, <1>12 DEF Row, Steady
  <2>4. Alone(t) /\ PlansHold(t)
    BY <1>12 DEF Alone, PlansHold, Steady
  <2> QED
    BY <1>10, <1>14, <2>2, <2>3, <2>4 DEF Onward
<1> QED
  BY <1>1, <1>13, <1>14

\* The end of a run.
LEMMA EndsOn ==
  ASSUME IInv, Onward(host), EndRun
  PROVE  Onward(host')
<1>1. /\ Books(host) /\ Fields(host) /\ DOMAIN host = DOMAIN NewHost /\ host.at = "ended"
      /\ host.last # {} /\ host.pending = <<>> /\ host.transcript # <<>>
  BY DEF IInv, Sound, Books, EndRun, Phase
<1> DEFINE s == [host EXCEPT !.last = {}, !.at = "idle"]
<1>2. PICK m \in host.last : host' \in AfterRun(s, m.stop)
  BY <1>1 DEF EndRun
<1>3. Only(host, s, {"last", "at"}) /\ s.last = {}
  BY <1>1 DEF Only, NewHost
<1> HIDE DEF s
<1>4. AsTold(host, s) /\ s.retry = host.retry /\ s.summaries = host.summaries /\ s.pending = host.pending
  BY <1>3 DEF Only, NewHost, AsTold
<1>5. Steady(s)
  <2>1. Books(s)
    BY <1>1, <1>3, BooksKept, SilentFields
  <2>2. host.summaries = {}
    <3>1. host.at \notin {"idle", "compacting", "turnEnd"}
      BY <1>1
    <3> QED
      BY <3>1, NoSummaries
  <2> QED
    BY <1>1, <1>3, <1>4, <2>1, <2>2 DEF Steady, AsTold, Onward, Row, Failed, Fields
<1>6. \A n \in host.last : n = m
  BY <1>1 DEF Fields
<1>7. Ending(s.transcript) => s.transcript[Len(s.transcript)] = m
  BY <1>1, <1>4, <1>6 DEF Onward, Told, AsTold
<1>8. IF m.stop \in Failures THEN s.streak = 0 \/ (s.streak <= Allowed(s) + 1 /\ Answered(s)) ELSE Behind(s)
  <2>1. Failed(host) <=> m.stop \in Failures
    BY <1>6 DEF Failed
  <2>2. IF Failed(host) THEN host.streak = 0 \/ (host.streak <= Allowed(host) + 1 /\ Answered(host)) ELSE Behind(host)
    BY <1>1 DEF Onward, Row
  <2> QED
    BY <1>4, <2>1, <2>2 DEF Behind, Allowed, Answered, AsTold
<1> DEFINE stop == m.stop
<1>9. /\ host' \in AfterRun(s, stop)
      /\ stop \in Failures \cup {"length"} /\ Ending(s.transcript) =>
           s.transcript[Len(s.transcript)].stop \in Failures \cup {"length"}
      /\ IF stop \in Failures THEN s.streak = 0 \/ (s.streak <= Allowed(s) + 1 /\ Answered(s)) ELSE Behind(s)
      /\ s.transcript # <<>> /\ s.pending = <<>>
  BY <1>1, <1>2, <1>4, <1>7, <1>8 DEF AsTold
<1> HIDE DEF stop
<1> QED
  BY <1>5, <1>9, RunsOn

\* The end of the sleep before a retry.
LEMMA WakesOn ==
  ASSUME IInv, Onward(host), Wake
  PROVE  Onward(host')
<1>1. /\ host.at = "sleeping" /\ host' = Continue(host)
      /\ host.transcript # <<>> /\ host.pending = <<>>
  BY DEF IInv, Sound, Phase, Wake
<1>2. Steady(host) /\ Behind(host)
  <2>1. host.at \notin {"idle", "compacting", "turnEnd", "ended"}
    BY <1>1
  <2> QED
    BY <1>1, <2>1, NoSummaries DEF Onward, Row
<1> QED
  BY <1>1, <1>2, ContinuesOn

\* A summary is written, and the session's messages are shown anew.
LEMMA CompactsOn ==
  ASSUME NEW s, Books(s), Story(s.path, s.transcript), s.summaries \subseteq Summaries,
         NEW c \in s.summaries, PlansHold(s)
  PROVE  LET u == Compacted(s, c)
             t == IF c.retry THEN DropFailedResponse(u) ELSE u
         IN  /\ Books(t) /\ Only(s, t, {"summaries", "path", "transcript"})
             /\ t.transcript # <<>> /\ t.summaries = s.summaries \ {c}
             /\ Story(t.path, t.transcript) /\ Grows(s.path, t.path)
             /\ ~c.retry /\ Answered(s) => Ending(t.transcript)
<1> DEFINE u == Compacted(s, c)
           t == IF c.retry THEN DropFailedResponse(u) ELSE u
           e == Entry(Len(s.path) + 1, Summary, c.prep.kept, c.prep.covers)
<1>1. /\ Books(u) /\ Only(s, u, {"summaries", "path", "transcript"})
      /\ u.transcript # <<>> /\ u.summaries = s.summaries \ {c}
  BY SummaryRecorded
<1>2. u.path = Append(s.path, e) /\ u.transcript = Messages(u.path)
  BY DEF Compacted, Books, NewHost
<1> HIDE DEF u
<1>3. s.path \in Seq(Entries) /\ Numbering(s.path) /\ Len(s.path) \in Nat
  BY DEF Books, Logs
<1>4. e \in Entries /\ e.msg = Summary /\ e.id = Len(s.path) + 1 /\ Carried(s.path, e)
  <2>1. c.prep \in Plans /\ Carried(s.path, c.prep)
    BY DEF PlansHold, Summaries
  <2>2. c.prep.kept \in Nat /\ c.prep.covers \in SUBSET Nat
    BY <2>1 DEF Plans
  <2>3. e.kept = c.prep.kept /\ e.covers = c.prep.covers /\ e.msg = Summary /\ e.id = Len(s.path) + 1
    BY DEF Entry
  <2>4. e \in Entries
    BY <1>3, <2>2, Kinds DEF Entry, Entries
  <2> HIDE DEF e
  <2> QED
    BY <2>1, <2>3, <2>4 DEF Carried
<1> HIDE DEF e
<1>5. /\ Story(u.path, u.transcript)
      /\ u.transcript[Len(u.transcript)] = s.path[Len(s.path)].msg
  BY <1>2, <1>3, <1>4, StoryFolds
<1>6. Grows(s.path, u.path)
  BY <1>2, <1>3, <1>4, OneMore DEF Grows
<1>7. CASE c.retry
  <2>1. t = IF u.transcript[Len(u.transcript)].stop \in Failures \cup {"length"} THEN DropLastResponse(u) ELSE u
    BY <1>1, <1>7 DEF DropFailedResponse, Last
  <2> DEFINE v == DropLastResponse(u)
  <2>2. u.transcript[Len(u.transcript)].stop \in Failures \cup {"length"} =>
          Books(v) /\ Only(u, v, {"transcript"}) /\ Story(v.path, v.transcript) /\ v.transcript # <<>>
    BY <1>1, <1>5, DropsOn
  <2>3. t = u \/ (Books(t) /\ Only(u, t, {"transcript"}) /\ Story(t.path, t.transcript) /\ t.transcript # <<>>)
    <3> HIDE DEF v
    <3> QED
      BY <2>1, <2>2 DEF v
  <2> HIDE DEF t, v
  <2>4. Only(u, t, {"transcript"}) => t.path = u.path /\ t.summaries = u.summaries
    BY DEF Only, NewHost
  <2>5. Only(u, t, {"transcript"}) => Only(s, t, {"summaries", "path", "transcript"})
    BY <1>1 DEF Only, NewHost
  <2> QED
    BY <1>1, <1>5, <1>6, <1>7, <2>3, <2>4, <2>5 DEF t, u
<1>8. CASE ~c.retry
  <2>1. t = u
    BY <1>8
  <2>2. Answered(s) => Ending(u.transcript)
    BY <1>1, <1>5 DEF Answered, Ending
  <2> QED
    BY <1>1, <1>5, <1>6, <2>1, <2>2 DEF u
<1> QED
  BY <1>7, <1>8

\* A summary that is over, with or without effect: other plans still hold.
LEMMA SummariesEndOn ==
  ASSUME IInv, Onward(host), NEW c \in host.summaries, NEW t, Books(t),
         Only(host, t, {"summaries", "path", "transcript"}), t.summaries = host.summaries \ {c},
         Story(t.path, t.transcript), Grows(host.path, t.path), t.transcript # <<>> \/ c.why # "runEnd",
         ~c.retry /\ Answered(host) => Ending(t.transcript)
  PROVE  /\ c.why # "runEnd" => Onward(t)
         /\ c.why = "runEnd" => Onward(ContinueIfQueued(t)) /\ Onward(Continue(t))
<1>1. /\ t.at = host.at /\ t.active = host.active /\ t.streak = host.streak /\ t.recovered = host.recovered
      /\ t.retry = host.retry /\ t.last = host.last /\ t.preflight = host.preflight /\ t.pending = host.pending
  BY DEF Only, NewHost
<1>2. /\ Fields(host) /\ Orderly(host) /\ Phase(host) /\ c.why \in {"prompt", "turn", "manual", "runEnd"}
  BY DEF IInv, Sound, Fields, Summaries
<1>3. Row(host) /\ Alone(host) /\ PlansHold(host)
  BY DEF Onward
<1>4. PlansHold(t) /\ Alone(t)
  <2>1. PlansHold(t)
    BY <1>3, PlansGrow
  <2> QED
    BY <1>1, <1>3, <2>1 DEF Alone
<1>5. CASE c.why # "runEnd"
  <2>1. host.at \in {"idle", "turnEnd"}
    BY <1>2, <1>3, <1>5 DEF Alone, Phase
  <2>2. Row(t) /\ Told(t)
    BY <1>1, <1>3, <2>1 DEF Row, Told, Behind, Allowed, Failed
  <2> QED
    BY <1>4, <1>5, <2>2 DEF Onward
<1>6. CASE c.why = "runEnd"
  <2>1. host.at = "compacting" /\ host.active = TRUE /\ host.pending = <<>>
    BY <1>2, <1>6 DEF Orderly, Phase
  <2>2. t.summaries = {}
    <3>1. ASSUME NEW d \in host.summaries PROVE d = c
      <4>1. d.why \in {"prompt", "turn", "manual", "runEnd"}
        BY <1>2 DEF Fields, Summaries
      <4>2. d.why = "runEnd"
        BY <1>3, <2>1, <4>1 DEF Alone
      <4> QED
        BY <1>2, <1>6, <4>2 DEF Orderly
    <3> QED
      BY <3>1
  <2>3. Steady(t)
    BY <1>1, <1>2, <1>3, <2>1, <2>2 DEF Steady, Row, Failed, Fields
  <2>4. Behind(t) \/ Ending(t.transcript)
    <3>1. Behind(host) \/ (Answered(host) /\ ~c.retry)
      BY <1>3, <2>1 DEF Row
    <3> QED
      BY <1>1, <3>1 DEF Behind, Allowed
  <2> QED
    BY <1>1, <1>6, <2>1, <2>3, <2>4, ContinuesOn
<1> QED
  BY <1>5, <1>6

\* A summary is written, or it fails or is cancelled.
LEMMA FinishesOn ==
  ASSUME IInv, Onward(host), NEW c, Finish(c) \/ Abandon(c)
  PROVE  Onward(host')
<1>1. /\ Books(host) /\ c \in host.summaries /\ host.summaries \subseteq Summaries
      /\ Story(host.path, host.transcript) /\ PlansHold(host)
  BY DEF IInv, Sound, Fields, Finish, Abandon, Onward
<1>2. CASE Finish(c)
  <2> DEFINE t == IF c.retry THEN DropFailedResponse(Compacted(host, c)) ELSE Compacted(host, c)
  <2>1. host' = (IF c.why # "runEnd" THEN t ELSE IF c.retry THEN Continue(t) ELSE ContinueIfQueued(t))
    BY <1>2 DEF Finish, FinishCompaction
  <2>2. /\ Books(t) /\ Only(host, t, {"summaries", "path", "transcript"})
        /\ t.transcript # <<>> /\ t.summaries = host.summaries \ {c}
        /\ Story(t.path, t.transcript) /\ Grows(host.path, t.path)
        /\ ~c.retry /\ Answered(host) => Ending(t.transcript)
    BY <1>1, CompactsOn
  <2> HIDE DEF t
  <2> QED
    BY <1>1, <2>1, <2>2, SummariesEndOn
<1>3. CASE Abandon(c)
  <2> DEFINE t == [host EXCEPT !.summaries = @ \ {c}]
  <2>1. host' = IF c.why = "runEnd" THEN ContinueIfQueued(t) ELSE t
    BY <1>3 DEF Abandon, AbandonCompaction
  <2>2. Only(host, t, {"summaries"}) /\ t.summaries = host.summaries \ {c}
    BY <1>1 DEF Only, NewHost, Books
  <2> HIDE DEF t
  <2>3. Books(t)
    BY <1>1, <2>2, BooksKept, SilentFields
  <2>4. Only(host, t, {"summaries", "path", "transcript"}) /\ t.transcript = host.transcript /\ t.path = host.path
    BY <2>2 DEF Only, NewHost
  <2>5. Grows(host.path, t.path)
    <3>1. Len(host.path) \in Nat
      BY <1>1 DEF Books, Logs
    <3> QED
      BY <2>4, <3>1 DEF Grows
  <2>6. c.why = "runEnd" => t.transcript # <<>>
    BY <1>1, <2>4 DEF IInv, Sound, Orderly, Phase
  <2>7. Answered(host) => Ending(t.transcript)
    BY <2>4 DEF Answered
  <2> QED
    BY <1>1, <2>1, <2>2, <2>3, <2>4, <2>5, <2>6, <2>7, SummariesEndOn
<1> QED
  BY <1>2, <1>3

-----------------------------------------------------------------------------
(* The steps of the callers keep the second invariant.                     *)

\* Nothing is said and the run is where it was.
Unsaid(s, t) == Alike(s, t) /\ t.at = s.at /\ t.active = s.active /\ t.done = s.done

LEMMA StaysOn ==
  ASSUME NEW s, Onward(s), NEW t, Unsaid(s, t),
         t.preflight = {} \/ s.preflight # {} \/ ~Summarising(s, "manual")
  PROVE  Onward(t)
<1>1. /\ t.transcript = s.transcript /\ t.path = s.path /\ t.streak = s.streak /\ t.recovered = s.recovered
      /\ t.retry = s.retry /\ t.last = s.last /\ t.summaries = s.summaries
      /\ t.at = s.at /\ t.active = s.active /\ t.done = s.done
  BY DEF Unsaid, Alike, AsTold
<1>2. Row(t)
  BY <1>1 DEF Onward, Row, Behind, Allowed, Failed, Answered
<1>3. Alone(t)
  BY <1>1 DEF Onward, Alone, Summarising
<1>4. PlansHold(t) /\ Told(t) /\ Story(t.path, t.transcript)
  BY <1>1 DEF Onward, PlansHold, Told, Due
<1> QED
  BY <1>2, <1>3, <1>4 DEF Onward

\* The fields that a caller may change without saying anything.
Desk == {"issued", "preflight", "refused", "cleared", "steer", "follow", "shownSteer", "shownFollow",
         "nextTurn", "custom", "bash"}

\* A step that only changes what waits.
LEMMA DeskOn ==
  ASSUME Onward(host), NEW F, F \subseteq Desk, Only(host, host', F),
         "preflight" \in F => host'.preflight = {} \/ host.preflight # {} \/ ~Summarising(host, "manual")
  PROVE  Onward(host')
<1>1. \A x \in DOMAIN NewHost \ Desk : host'[x] = host[x]
  BY DEF Only
<1>2. Unsaid(host, host')
  BY <1>1 DEF Desk, NewHost, Unsaid, Alike, AsTold
<1>3. "preflight" \notin F => host'.preflight = host.preflight
  BY DEF Only, NewHost
<1>4. host'.preflight = {} \/ host.preflight # {} \/ ~Summarising(host, "manual")
  <2>1. CASE "preflight" \in F
    BY <2>1
  <2>2. CASE "preflight" \notin F
    BY <1>3, <2>2
  <2> QED
    BY <2>1, <2>2
<1> QED
  BY <1>2, <1>4, StaysOn

\* A message is recorded in a session that rests.
LEMMA IdleOn ==
  ASSUME IInv, Onward(host), ~host.active, NEW m \in MessagesSent, NEW s,
         Only(host, s, {"issued"}), host' = Record(s, m)
  PROVE  Onward(host')
<1>1. /\ Books(host) /\ host.at = "idle" /\ Len(host.path) \in Nat
  BY Given DEF Books, Logs
<1>2. /\ host'.transcript = Append(host.transcript, m)
      /\ host'.path = Append(host.path, Entry(Len(host.path) + 1, m, 0, {}))
      /\ Only(host, host', {"issued", "transcript", "path"})
  BY DEF Record, Only, NewHost
<1>3. /\ host'.streak = host.streak /\ host'.recovered = host.recovered /\ host'.retry = host.retry
      /\ host'.last = host.last /\ host'.summaries = host.summaries /\ host'.at = host.at
      /\ host'.active = host.active /\ host'.preflight = host.preflight
  BY <1>2 DEF Only, NewHost
<1>4. CanTell(host.path, host.transcript, m)
  <2>1. m \in AnyMessage /\ m.role \notin {"summary", "result"}
    BY Kinds, SortsAssumption
  <2> QED
    BY <1>1, <2>1 DEF Books, Logs, Onward, CanTell
<1>5. Tells(host.path, m, host'.path, host'.transcript)
  BY <1>2, <1>4, ToldMore
<1>6. Story(host'.path, host'.transcript) /\ PlansHold(host')
  <2>1. PlansHold(host)
    BY DEF Onward
  <2> QED
    BY <1>3, <1>5, <2>1, PlansGrow DEF Tells
<1>7. Row(host')
  BY <1>1, <1>3 DEF Onward, Row, Failed
<1>8. Alone(host')
  BY <1>3 DEF Onward, Alone
<1>9. Told(host')
  BY <1>1, <1>3 DEF Told
<1> QED
  BY <1>6, <1>7, <1>8, <1>9 DEF Onward

\* prompt(), up to the first handler of "input"
LEMMA SubmitsOn ==
  ASSUME IInv, Onward(host), TakeTurns, NEW how, Submit(how)
  PROVE  Onward(host')
<1>1. ~Summarising(host, "manual") /\ Only(host, host', {"issued", "preflight"})
  BY Given DEF Submit, Only, NewHost
<1>2. {"issued", "preflight"} \subseteq Desk
  BY DEF Desk
<1> QED
  BY <1>1, <1>2, DeskOn

\* A prompt's text has been handled, or a handler or a missing key refuses it.
LEMMA PassesOn ==
  ASSUME IInv, Onward(host), NEW p, PassInput(p) \/ Refuse(p)
  PROVE  Onward(host')
<1> DEFINE s == [host EXCEPT !.preflight = @ \ {p}]
           u == FlushCustom(FlushBash(s))
           F == {"preflight", "refused", "steer", "follow", "shownSteer", "shownFollow"}
<1>0. /\ host.preflight # {} /\ DOMAIN host = DOMAIN NewHost
      /\ host.transcript \in Seq(AnyMessage) /\ host.path \in Seq(Entries)
  BY Given DEF PassInput, Refuse, Books, Logs
<1>1. Only(host, s, {"preflight"})
  BY <1>0 DEF Only, NewHost
<1>2. Only(host, host', F)
  <2>1. CASE Refuse(p)
    BY <1>0, <2>1 DEF Refuse, Only, NewHost
  <2>2. CASE PassInput(p) /\ ~host.active
    <3>1. PICK q : host' = [u EXCEPT !.preflight = @ \cup {q}]
      BY <1>1, <2>2 DEF PassInput, Only, NewHost
    <3>2. /\ DOMAIN s = DOMAIN NewHost /\ s.transcript = host.transcript /\ s.path = host.path
          /\ s.custom = <<>> /\ s.bash = <<>>
      BY <1>1, <2>2, Given DEF Only, NewHost
    <3> HIDE DEF s
    <3>3. Only(s, u, {})
      BY <1>0, <3>2, NothingFlushed
    <3> HIDE DEF u
    <3> QED
      BY <1>1, <3>1, <3>3 DEF Only, NewHost
  <2>3. CASE PassInput(p) /\ host.active /\ p.how = "none"
    <3>1. host' = [s EXCEPT !.refused = @ \cup {p.n}]
      BY <1>1, <2>3 DEF PassInput, Only, NewHost
    <3> QED
      BY <1>0, <3>1 DEF Only, NewHost
  <2>4. CASE PassInput(p) /\ host.active /\ p.how # "none"
    <3>1. host' = QueueUser(s, p.n, p.how)
      BY <1>1, <2>4 DEF PassInput, Only, NewHost
    <3>2. DOMAIN s = DOMAIN NewHost
      BY <1>1 DEF Only
    <3> HIDE DEF s
    <3>3. \E l \in {"steer", "follow"} : Only(s, host', {l, "shownSteer", "shownFollow"})
      BY <3>1, <3>2, UserQueued
    <3> QED
      BY <1>1, <3>3 DEF Only, NewHost
  <2> QED
    BY <2>1, <2>2, <2>3, <2>4
<1>3. F \subseteq Desk
  BY DEF Desk
<1> HIDE DEF F
<1> QED
  BY <1>0, <1>2, <1>3, DeskOn

\* steer() and followUp(), and clearQueue
LEMMA QueuesOn ==
  ASSUME IInv, Onward(host), NEW how, QueueMessage(how) \/ ClearQueue
  PROVE  Onward(host')
<1> DEFINE F == {"issued", "cleared", "steer", "follow", "shownSteer", "shownFollow"}
           s == [host EXCEPT !.issued = @ + 1]
<1>1. Only(host, host', F)
  <2>1. CASE ClearQueue
    BY <2>1, Given DEF ClearQueue, Only, NewHost
  <2>2. CASE QueueMessage(how)
    <3>1. Only(host, s, {"issued"}) /\ host' = QueueUser(s, host.issued + 1, how)
      BY <2>2, Given DEF QueueMessage, Next1, Only, NewHost
    <3>2. DOMAIN s = DOMAIN NewHost
      BY <3>1 DEF Only
    <3> HIDE DEF s
    <3>3. \E l \in {"steer", "follow"} : Only(s, host', {l, "shownSteer", "shownFollow"})
      BY <3>1, <3>2, UserQueued
    <3> QED
      BY <3>1, <3>3 DEF Only, NewHost
  <2> QED
    BY <2>1, <2>2
<1>2. F \subseteq Desk /\ "preflight" \notin F
  BY DEF Desk
<1> HIDE DEF F
<1> QED
  BY <1>1, <1>2, DeskOn

\* sendCustomMessage() without a turn of its own
LEMMA CustomsOn ==
  ASSUME IInv, Onward(host), NEW how, NEW trigger \in {"turn", "next", "no"}, trigger = "turn" => how # "none",
         trigger # "turn" => how = "none", SendCustom(how, trigger)
  PROVE  Onward(host')
<1> DEFINE m == Sent("custom", Next1(host))
           s == [host EXCEPT !.issued = @ + 1]
           F == {"issued", "nextTurn", "steer", "follow", "custom"}
<1>1. m \in MessagesSent
  BY Issues DEF SendCustom
<1>2. Only(host, s, {"issued"}) /\ s.active = host.active /\ DOMAIN s = DOMAIN NewHost
  BY Given DEF Only, NewHost
<1>3. CASE trigger = "next" \/ host.active
  <2>1. host' \in {[s EXCEPT !.nextTurn = Append(@, m)], [s EXCEPT !.custom = Append(@, m)], Enqueue(s, m, how)}
    BY <1>2, <1>3 DEF SendCustom
  <2> HIDE DEF m, s
  <2>2. Only(host, host', F)
    BY <1>2, <2>1 DEF Enqueue, Only, NewHost
  <2>3. F \subseteq Desk /\ "preflight" \notin F
    BY DEF Desk
  <2> HIDE DEF F
  <2> QED
    BY <2>2, <2>3, DeskOn
<1>4. CASE ~host.active /\ trigger # "next"
  <2>1. host' = Record(s, m)
    BY <1>2, <1>4 DEF SendCustom
  <2> HIDE DEF m, s
  <2> QED
    BY <1>1, <1>2, <1>4, <2>1, IdleOn
<1> QED
  BY <1>3, <1>4

\* recordBashResult()
LEMMA BashOn ==
  ASSUME IInv, Onward(host), RecordBash
  PROVE  Onward(host')
<1> DEFINE m == Sent("bash", Next1(host))
           s == [host EXCEPT !.issued = @ + 1]
           F == {"issued", "bash"}
<1>1. m \in MessagesSent
  BY Issues DEF RecordBash
<1>2. Only(host, s, {"issued"}) /\ s.active = host.active
  BY Given DEF Only, NewHost
<1>3. CASE host.active
  <2>1. host' = [s EXCEPT !.bash = Append(@, m)]
    BY <1>2, <1>3 DEF RecordBash
  <2> HIDE DEF m, s
  <2>2. Only(host, host', F) /\ F \subseteq Desk /\ "preflight" \notin F
    BY <1>2, <2>1 DEF Only, NewHost, Desk
  <2> HIDE DEF F
  <2> QED
    BY <2>2, DeskOn
<1>4. CASE ~host.active
  <2>1. host' = Record(s, m)
    BY <1>2, <1>4 DEF RecordBash
  <2> HIDE DEF m, s
  <2> QED
    BY <1>1, <1>2, <1>4, <2>1, IdleOn
<1> QED
  BY <1>3, <1>4

\* A resting session begins a run with the messages it is given.
LEMMA LaunchesOn ==
  ASSUME IInv, Onward(host), ~host.active, host.summaries = {}, NEW x, x.at = "begun",
         Only(host, x, {"issued", "preflight", "nextTurn", "active", "at", "skip", "aborted", "pending"}),
         NEW msgs \in Seq(MessagesSent), msgs # <<>>, host' = SayAll(x, msgs)
  PROVE  Onward(host')
<1>1. Books(host) /\ host.at = "idle" /\ host.retry \in 0..MaxRetries
  BY Given DEF Fields
<1>2. Steady(host)
  BY <1>1 DEF Onward, Row, Steady
<1>3. DOMAIN x = DOMAIN NewHost /\ Alike(host, x)
  BY DEF Only, NewHost, Alike, AsTold
<1>4. Logs(x) /\ x.recovered \in BOOLEAN
  BY <1>2, <1>3 DEF Steady, Books, Logs, Alike, AsTold
<1>5. Adds(x, host') /\ host'.streak = 0
  BY <1>3, <1>4, AddsSaid
<1>6. /\ host'.retry = x.retry /\ host'.last = x.last /\ host'.summaries = x.summaries /\ host'.at = "begun"
  BY <1>3 DEF SayAll, TakeOffLists, RecordAll, NewHost
<1>7. Adds(host, host')
  BY <1>3, <1>5, AddsAsTold DEF Alike, AsTold
<1>8. host'.retry = host.retry /\ host'.last = host.last /\ host'.summaries = host.summaries
  BY <1>3, <1>6 DEF Alike
<1> QED
  BY <1>2, <1>5, <1>6, <1>7, <1>8, LandsOn

\* A prompt is sent, or a message that triggers a turn: nothing is being summarised then.
LEMMA PromptsOn ==
  ASSUME IInv, Onward(host), TakeTurns, NEW p, Launch(p) \/ TriggerTurn
  PROVE  Onward(host')
<1> DEFINE m == Sent("user", p.n)
           n == Sent("custom", Next1(host))
           F == {"issued", "preflight", "nextTurn", "active", "at", "skip", "aborted", "pending"}
<1>1. ~host.active /\ host.at = "idle" /\ DOMAIN host = DOMAIN NewHost
  <2>1. ~host.active
    BY Given DEF Launch, TriggerTurn, Orderly
  <2> QED
    BY <2>1, Given
<1>2. host.summaries = {}
  <2>1. ASSUME NEW c \in host.summaries PROVE FALSE
    <3>1. c.why \in {"prompt", "turn", "manual", "runEnd"}
      BY Given DEF Fields, Summaries
    <3>2. c.why \notin {"turn", "runEnd"}
      BY <1>1, Given DEF Orderly, Onward, Alone
    <3>3. c.why # "prompt"
      BY DEF Launch, TriggerTurn, Busy, Summarising
    <3>4. c.why = "manual" => host.preflight = {}
      BY DEF Onward, Alone
    <3>5. c.why # "manual"
      BY <3>4 DEF Launch, TriggerTurn, Busy, Summarising
    <3> QED
      BY <3>1, <3>2, <3>3, <3>5
  <2> QED
    BY <2>1
<1>3. PICK x : /\ Only(host, x, F) /\ x.at = "begun"
               /\ \E msgs \in Seq(MessagesSent) : msgs # <<>> /\ host' = SayAll(x, msgs)
  <2>1. CASE Launch(p)
    <3> DEFINE y == [host EXCEPT !.preflight = @ \ {p}, !.nextTurn = <<>>, !.active = TRUE, !.at = "begun",
                                 !.skip = FALSE, !.aborted = FALSE, !.pending = <<>>]
    <3>1. host' = SayAll(y, <<m>> \o host.nextTurn)
      BY <1>1, <2>1 DEF Launch, RunAgentPrompt, BeginRun, Running, NewHost
    <3>2. Only(host, y, F) /\ y.at = "begun"
      BY <1>1 DEF Only, NewHost
    <3>3. m \in MessagesSent
      <4>1. p.n \in 1..MaxMessages /\ "user" \in Sorts
        BY <2>1, Given DEF Launch, Fields, Prompts
      <4> QED
        BY <4>1, Kinds
    <3>4. host.nextTurn \in Seq(MessagesSent)
      BY Given DEF Books, Lists, Stores
    <3> HIDE DEF m, y
    <3>5. <<m>> \o host.nextTurn \in Seq(MessagesSent) /\ <<m>> \o host.nextTurn # <<>>
      BY <3>3, <3>4
    <3> QED
      BY <3>1, <3>2, <3>5
  <2>2. CASE TriggerTurn
    <3> DEFINE y == [host EXCEPT !.issued = @ + 1, !.active = TRUE, !.at = "begun",
                                 !.skip = FALSE, !.aborted = FALSE, !.pending = <<>>]
    <3>1. host' = SayAll(y, <<n>>)
      BY <1>1, <2>2 DEF TriggerTurn, RunAgentPrompt, BeginRun, Running, NewHost
    <3>2. Only(host, y, F) /\ y.at = "begun"
      BY <1>1 DEF Only, NewHost
    <3>3. n \in MessagesSent
      BY <2>2, Issues DEF TriggerTurn
    <3> HIDE DEF n, y
    <3>4. <<n>> \in Seq(MessagesSent) /\ <<n>> # <<>>
      BY <3>3
    <3> QED
      BY <3>1, <3>2, <3>4
  <2> QED
    BY <2>1, <2>2
<1> HIDE DEF F
<1>4. Only(host, x, {"issued", "preflight", "nextTurn", "active", "at", "skip", "aborted", "pending"})
  BY <1>3 DEF F
<1> QED
  BY <1>1, <1>2, <1>3, <1>4, LaunchesOn

\* abort() ends the sleep before a retry, and signals a run.
LEMMA AbortsOn ==
  ASSUME IInv, Onward(host), Abort
  PROVE  Onward(host')
<1> DEFINE s == [host EXCEPT !.aborts = @ + 1, !.streak = 0]
           r == [s EXCEPT !.retry = 0, !.at = "idle"]
<1>1. Only(host, s, {"aborts", "streak"}) /\ s.at = host.at /\ s.streak = 0
  BY Given DEF Only, NewHost
<1>2. CASE host.at \in Running /\ host' = [s EXCEPT !.aborted = TRUE]
  <2> HIDE DEF s
  <2>1. /\ host'.transcript = host.transcript /\ host'.path = host.path /\ host'.recovered = host.recovered
        /\ host'.retry = host.retry /\ host'.last = host.last /\ host'.summaries = host.summaries
        /\ host'.at = host.at /\ host'.active = host.active /\ host'.done = host.done
        /\ host'.preflight = host.preflight /\ host'.streak = 0
    BY <1>1, <1>2 DEF Only, NewHost
  <2>2. host'.retry \in 0..MaxRetries
    BY <2>1, Given DEF Fields
  <2>3. Behind(host')
    BY <2>1, <2>2, BehindNone
  <2>4. host'.streak \in 0..(2 * Bound) /\ host.at # "compacting"
    BY <1>2, <2>1, Counts DEF Running
  <2>5. Row(host')
    BY <2>1, <2>3, <2>4 DEF Onward, Row, Failed
  <2>6. Alone(host') /\ PlansHold(host') /\ Told(host') /\ Story(host'.path, host'.transcript)
    BY <2>1 DEF Onward, Alone, PlansHold, Told, Due
  <2> QED
    BY <2>5, <2>6 DEF Onward
<1>3. CASE host.at = "sleeping" /\ host' \in AfterCheck(r, "error")
  <2>1. Only(host, r, {"aborts", "streak", "retry", "at"}) /\ r.retry = 0 /\ r.streak = 0
    BY <1>1 DEF Only, NewHost
  <2> HIDE DEF r, s
  <2>2. Steady(host) /\ host.transcript # <<>> /\ host.pending = <<>>
    <3>1. ~Failed(host)
      BY <1>3 DEF Onward, Row
    <3> QED
      BY <1>3, <3>1, NoSummaries, Given DEF Phase
  <2>3. Books(r)
    BY <2>1, <2>2, BooksKept, SilentFields DEF Steady
  <2>4. /\ r.transcript = host.transcript /\ r.path = host.path /\ r.recovered = host.recovered
        /\ r.last = host.last /\ r.summaries = host.summaries /\ r.pending = host.pending
    BY <2>1 DEF Only, NewHost
  <2>5. Steady(r) /\ Behind(r)
    <3>1. r.retry \in 0..MaxRetries /\ r.streak \in 0..(2 * Bound)
      BY <2>1, Counts
    <3> QED
      BY <2>1, <2>2, <2>3, <2>4, <3>1, BehindNone DEF Steady, Failed
  <2>6. ~Overflowed("error")
    BY DEF Overflowed
  <2> QED
    BY <1>3, <2>2, <2>4, <2>5, <2>6, ChecksOn
<1>4. (host.at \in Running /\ host' = [s EXCEPT !.aborted = TRUE]) \/ (host.at = "sleeping" /\ host' \in AfterCheck(r, "error"))
  BY <1>1 DEF Abort
<1> QED
  BY <1>2, <1>3, <1>4

\* The last response of those in the transcript, when it is the last word.
LEMMA LastSaid ==
  ASSUME NEW q \in Seq(AnyMessage), Ending(q)
  PROVE  Last(Selected(q, {i \in DOMAIN q : q[i].role = "assistant"})) = q[Len(q)]
<1> DEFINE P == {i \in DOMAIN q : q[i].role = "assistant"}
<1>1. Len(q) - 1 \in Nat /\ Len(q) = (Len(q) - 1) + 1 /\ Len(q) \in P
  BY DEF Ending
<1>2. PICK u \in Seq(AnyMessage), e \in AnyMessage : q = Append(u, e) /\ Len(u) = Len(q) - 1
  BY <1>1, LastOfSequence
<1>3. Len(u) + 1 \in P /\ q[Len(q)] = e
  BY <1>1, <1>2
<1> HIDE DEF P
<1>4. Selected(q, P) = Append(Selected(u, P), e)
  BY <1>2, <1>3, SelectedAppend
<1>5. Selected(u, P) \in Seq(AnyMessage)
  BY SelectedPlaces
<1>6. Last(Selected(q, P)) = e
  BY <1>2, <1>4, <1>5, OneMore DEF Last
<1> QED
  BY <1>3, <1>6 DEF P

\* A summary is begun where nothing else is said.
LEMMA BegunOn ==
  ASSUME NEW s, Books(s), Onward(s), NEW p \in Preparations(s.path), NEW why, why \in {"turn", "prompt", "manual"},
         NEW retry, why = "turn" => s.at = "turnEnd", why # "turn" => ~s.active /\ s.at = "idle",
         why = "manual" => s.preflight = {}
  PROVE  Onward(Summarise(s, why, p, retry))
<1> DEFINE t == Summarise(s, why, p, retry)
<1>1. /\ PlansHold(t) /\ AsTold(s, t) /\ Only(s, t, {"summaries", "compactions"})
      /\ t.summaries = s.summaries \cup {[why |-> why, prep |-> p, retry |-> retry]}
  BY PlansOn DEF Onward
<1> HIDE DEF t
<1>2. /\ t.transcript = s.transcript /\ t.path = s.path /\ t.streak = s.streak /\ t.recovered = s.recovered
      /\ t.retry = s.retry /\ t.last = s.last /\ t.at = s.at /\ t.active = s.active /\ t.done = s.done
      /\ t.preflight = s.preflight
  BY <1>1 DEF Only, NewHost
<1>3. s.at \in {"idle", "turnEnd"}
  OBVIOUS
<1>4. Row(t)
  BY <1>2, <1>3 DEF Onward, Row, Behind, Allowed, Failed
<1>5. Alone(t)
  <2>1. Alone(s)
    BY DEF Onward
  <2>2. ASSUME NEW c \in t.summaries
        PROVE  /\ c.why = "turn" => t.at = "turnEnd"
               /\ c.why \in {"prompt", "manual"} => ~t.active
               /\ c.why = "manual" => t.preflight = {}
    <3>1. c \in s.summaries \/ c.why = why
      BY <1>1
    <3> QED
      BY <1>2, <2>1, <3>1 DEF Alone
  <2> QED
    BY <2>2 DEF Alone
<1>6. Told(t) /\ Story(t.path, t.transcript)
  BY <1>2, <1>3 DEF Onward, Told
<1> QED
  BY <1>1, <1>4, <1>5, <1>6 DEF Onward, t

\* compact(), and the compaction between two turns.
LEMMA PausesOn ==
  ASSUME IInv, Onward(host), TakeTurns, NEW p \in Preparations(host.path),
         CompactManually(p) \/ CompactBetweenTurns(p)
  PROVE  Onward(host')
<1>1. CASE CompactManually(p)
  <2>1. ~host.active /\ host.preflight = {} /\ host' = Summarise(host, "manual", p, FALSE)
    BY <1>1 DEF CompactManually, Busy
  <2> DEFINE no == FALSE
  <2>2. host' = Summarise(host, "manual", p, no)
    BY <2>1
  <2> HIDE DEF no
  <2> QED
    BY <2>1, <2>2, Given, BegunOn
<1>2. CASE CompactBetweenTurns(p)
  <2>1. host.at = "turnEnd" /\ host' = Summarise(host, "turn", p, FALSE)
    BY <1>2 DEF CompactBetweenTurns
  <2> DEFINE no == FALSE
  <2>2. host' = Summarise(host, "turn", p, no)
    BY <2>1
  <2> HIDE DEF no
  <2> QED
    BY <2>1, <2>2, Given, BegunOn
<1> QED
  BY <1>1, <1>2

\* The context is compacted before a prompt is sent; an overflow is dropped, to be answered anew.
LEMMA BeforePromptOn ==
  ASSUME IInv, Onward(host), NEW p, NEW prep, CompactBeforePrompt(p, prep)
  PROVE  Onward(host')
<1> DEFINE q == [p EXCEPT !.stage = "ready"]
           s == [host EXCEPT !.preflight = (@ \ {p}) \cup {q}]
           r == [s EXCEPT !.recovered = TRUE]
           d == DropLastResponse(r)
           said == Selected(host.transcript,
                     {i \in DOMAIN host.transcript : host.transcript[i].role = "assistant"})
<1>1. p \in host.preflight /\ host.preflight = {p} /\ ~host.active /\ host.at = "idle"
      /\ Books(host) /\ DOMAIN host = DOMAIN NewHost
  BY Given DEF CompactBeforePrompt, Orderly
<1>2. Only(host, s, {"preflight"}) /\ s.preflight = {q}
  BY <1>1 DEF Only, NewHost
<1>3. PICK retry : LET t == IF retry THEN d ELSE s
                   IN  /\ retry => Overflowed(Last(said).stop)
                       /\ prep \in Preparations(t.path) /\ host' = Summarise(t, "prompt", prep, retry)
  BY DEF CompactBeforePrompt
<1> DEFINE t == IF retry THEN d ELSE s
<1> HIDE DEF q
<1>4. Books(s)
  <2>1. /\ SameLists(host, s) /\ s.path = host.path
        /\ s.transcript = host.transcript /\ s.cleared = host.cleared /\ s.refused = host.refused
        /\ s.issued = host.issued /\ DOMAIN s = DOMAIN NewHost
    BY <1>2 DEF Only, NewHost, SameLists, Stores
  <2>2. q.n = p.n
    <3>1. p \in Prompts
      BY <1>1, Given DEF Fields
    <3> QED
      BY <3>1 DEF q, Prompts
  <2> HIDE DEF s
  <2>3. Prompted(s) = Prompted(host) /\ \A c \in s.preflight : c.n \notin Gone(host) \cup Waits(host)
    BY <1>1, <1>2, <2>2 DEF Prompted, Books, Ledger
  <2>4. 1..s.issued = Gone(host) \cup s.refused \cup Prompted(s) \cup Waits(host)
    BY <1>1, <2>1, <2>3 DEF Books, Ledger
  <2> QED
    BY <1>1, <2>1, <2>3, <2>4, DeskChanges
<1> HIDE DEF s
<1>5. /\ Books(t) /\ Only(host, t, {"preflight", "recovered", "transcript"}) /\ t.preflight = {q}
      /\ Story(t.path, t.transcript) /\ t.recovered \in BOOLEAN
  <2>1. CASE ~retry
    <3>1. s.path = host.path /\ s.transcript = host.transcript /\ s.recovered = host.recovered
      BY <1>2 DEF Only, NewHost
    <3> QED
      BY <1>2, <1>4, <2>1, <3>1 DEF Only, Onward, Row
  <2>2. CASE retry
    <3>1. Only(s, r, {"recovered"}) /\ r.recovered = TRUE
      BY <1>2 DEF Only, NewHost
    <3> HIDE DEF r, said
    <3>2. Books(r) /\ r.path = host.path /\ r.transcript = host.transcript
      <4>1. r.path = host.path /\ r.transcript = host.transcript
        BY <1>2, <3>1 DEF Only, NewHost
      <4> QED
        BY <1>4, <3>1, <4>1, BooksKept, SilentFields
    <3>3. Ending(r.transcript) => r.transcript[Len(r.transcript)].stop \in Failures \cup {"length"}
      <4> SUFFICES ASSUME Ending(host.transcript)
                   PROVE  host.transcript[Len(host.transcript)].stop \in Failures \cup {"length"}
        BY <3>2
      <4>1. host.transcript \in Seq(AnyMessage)
        BY <1>1 DEF Books, Logs
      <4>2. Last(said) = host.transcript[Len(host.transcript)]
        BY <4>1, LastSaid DEF said
      <4> QED
        BY <1>3, <2>2, <4>2 DEF Overflowed, Failures
    <3>4. Books(d) /\ Only(r, d, {"transcript"}) /\ Story(d.path, d.transcript)
      BY <3>2, <3>3, DropsOn DEF Onward
    <3> HIDE DEF d
    <3>5. d.recovered = TRUE /\ d.preflight = {q} /\ Only(host, d, {"preflight", "recovered", "transcript"})
      BY <1>2, <3>1, <3>4 DEF Only, NewHost
    <3> QED
      BY <2>2, <3>4, <3>5
  <2> QED
    BY <2>1, <2>2
<1>6. prep \in Preparations(t.path) /\ host' = Summarise(t, "prompt", prep, retry)
  BY <1>3
<1> HIDE DEF t, d, r, said
<1>7. /\ t.at = "idle" /\ t.active = host.active /\ t.streak = host.streak /\ t.last = host.last
      /\ t.summaries = host.summaries /\ t.path = host.path
  BY <1>1, <1>5 DEF Only, NewHost
<1>8. Onward(t)
  <2>1. Row(t)
    BY <1>1, <1>5, <1>7 DEF Onward, Row, Failed
  <2>2. Alone(t) /\ PlansHold(t)
    BY <1>1, <1>7 DEF Onward, Alone, PlansHold
  <2>3. Told(t)
    BY <1>7 DEF Told
  <2> QED
    BY <1>5, <2>1, <2>2, <2>3 DEF Onward
<1> QED
  BY <1>1, <1>5, <1>6, <1>7, <1>8, BegunOn

-----------------------------------------------------------------------------
(* The second invariant holds.                                             *)

\* Nothing has been said in a new host.
LEMMA NewHostIsOnward == Init => Onward(host)
<1> SUFFICES ASSUME Init PROVE Onward(host)
  OBVIOUS
<1>1. /\ host.transcript = <<>> /\ host.path = <<>> /\ host.active = FALSE /\ host.retry = 0
      /\ host.last = {} /\ host.at = "idle" /\ host.summaries = {} /\ host.streak = 0
      /\ host.recovered = FALSE /\ host.preflight = {}
  BY DEF Init, NewHost
<1>2. Row(host) /\ Alone(host) /\ PlansHold(host) /\ Told(host)
  BY <1>1, Counts DEF Row, Failed, Alone, PlansHold, Told
<1>3. Story(<<>>, <<>>)
  <2>1. <<>> \in Seq(Entries) /\ <<>> \in Seq(AnyMessage) /\ Len(<<>>) = 0
    OBVIOUS
  <2>2. Folded(<<>>) /\ Numbering(<<>>)
    BY <2>1 DEF Folded, Numbering
  <2>3. Words(<<>>) = <<>>
    <3>1. Words(<<>>) \in Seq(AnyMessage) /\ Len(Words(<<>>)) = 0
      BY <2>1, WordsAre
    <3> QED
      BY <3>1
  <2>4. Messages(<<>>) = <<>>
    <3>1. LatestCompaction(<<>>) = 0
      <4> DEFINE none == <<>>
      <4>1. none \in Seq(Entries) /\ Len(none) = 0
        BY <2>1
      <4> HIDE DEF none
      <4>2. LatestCompaction(none) \in 0..Len(none)
        BY <4>1, Latest
      <4>3. LatestCompaction(none) = 0
        BY <4>1, <4>2
      <4> QED
        BY <4>3 DEF none
    <3>2. Messages(<<>>) = Words(ContextEntries(<<>>)) /\ ContextEntries(<<>>) = <<>>
      BY <2>1, <2>2, <3>1, ContextIs DEF Context
    <3> QED
      BY <2>3, <3>2
  <2>5. ResultsFollowTheirCall(<<>>)
    <3> DEFINE none == <<>>
    <3>1. none \in Seq(AnyMessage) /\ Len(none) = 0
      BY <2>1
    <3> HIDE DEF none
    <3>2. \A i \in 1..Len(none) : none[i].role = "result" => i > 1 /\ MayFollow(none[i - 1], none[i])
      BY <3>1
    <3>3. ResultsFollowTheirCall(none)
      BY <3>1, <3>2, FollowsIs
    <3> QED
      BY <3>3 DEF none
  <2> QED
    BY <2>2, <2>3, <2>4, <2>5 DEF Story
<1> QED
  BY <1>1, <1>2, <1>3 DEF Onward

\* The second invariant is kept.
LEMMA StepGoesOn ==
  ASSUME IInv, Onward(host), TakeTurns, [Next]_vars
  PROVE  Onward(host')
<1>1. CASE HostStep
  BY <1>1, PollsOn, EndsOn, WakesOn, FinishesOn, PassesOn, PromptsOn DEF HostStep
<1>2. CASE ModelStep
  BY <1>2, RespondsOn, ResultsOn DEF ModelStep
<1>3. CASE CallerStep
  <2>1. ASSUME NEW how \in {"steer", "followUp"}, SendCustom(how, "turn") PROVE Onward(host')
    <3>1. how # "none" /\ "turn" \in {"turn", "next", "no"}
      OBVIOUS
    <3> QED
      BY <2>1, <3>1, CustomsOn
  <2>2. ASSUME NEW trigger \in {"next", "no"}, SendCustom("none", trigger) PROVE Onward(host')
    <3>1. trigger # "turn" /\ trigger \in {"turn", "next", "no"}
      OBVIOUS
    <3> QED
      BY <2>2, <3>1, CustomsOn
  <2> QED
    BY <1>3, <2>1, <2>2, SubmitsOn, QueuesOn, PromptsOn, BashOn, AbortsOn, PausesOn DEF CallerStep
<1>4. CASE OtherStep
  BY <1>4, PausesOn, PassesOn, BeforePromptOn, FinishesOn DEF OtherStep
<1>5. CASE UNCHANGED vars
  BY <1>5 DEF vars
<1> QED
  BY <1>1, <1>2, <1>3, <1>4, <1>5 DEF Next, Rest

\* Both invariants hold for callers that take turns.
THEOREM HostGoesOn ==
  ASSUME TakeTurns
  PROVE  Spec => [](IInv /\ Onward(host))
<1> DEFINE Both == IInv /\ Onward(host)
<1>1. Init => Both
  BY NewHostIsSound, NewHostIsOnward
<1>2. Both /\ [Next]_vars => Both'
  BY StepKeeps, StepGoesOn
<1> QED
  BY <1>1, <1>2, PTL DEF Spec

\* Whatever is compacted, and when: every entry of the session is shown to the model, or
\* covered by the summary that is.
THEOREM HostForgetsNothing ==
  ASSUME TakeTurns
  PROVE  Spec => []CompactionForgetsNothing
<1>1. IInv /\ Onward(host) => CompactionForgetsNothing
  <2> SUFFICES ASSUME IInv, Onward(host) PROVE NothingForgotten(host.path)
    BY DEF CompactionForgetsNothing
  <2>1. host.path \in Seq(Entries) /\ Numbering(host.path)
    BY Given DEF Books, Logs
  <2>2. Folded(host.path) /\ ResultsFollowTheirCall(Words(host.path))
    BY DEF Onward, Story
  <2> QED
    BY <2>1, <2>2, Shown
<1> QED
  BY <1>1, HostGoesOn, PTL

\* Nothing comes between a tool call and its results, in the transcript and in what a reload
\* of the session shows: deferred messages wait for the end of the turn, and no compaction
\* cuts there.
THEOREM HostKeepsResultsWithCalls ==
  ASSUME TakeTurns
  PROVE  Spec => []ResultsStayWithTheirCall
<1>1. IInv /\ Onward(host) => ResultsStayWithTheirCall
  <2> SUFFICES ASSUME IInv, Onward(host) PROVE ResultsStayWithTheirCall
    OBVIOUS
  <2>1. host.path \in Seq(Entries) /\ Numbering(host.path)
    BY Given DEF Books, Logs
  <2>2. /\ Folded(host.path) /\ ResultsFollowTheirCall(Words(host.path))
        /\ ResultsFollowTheirCall(host.transcript)
    BY DEF Onward, Story
  <2> QED
    BY <2>1, <2>2, Shown DEF ResultsStayWithTheirCall
<1> QED
  BY <1>1, HostGoesOn, PTL

\* The agent works with what a reload of the session would give it, up to failed responses.
THEOREM HostTranscriptIsTheSession ==
  ASSUME TakeTurns
  PROVE  Spec => []TranscriptIsTheSession
<1>1. IInv /\ Onward(host) => TranscriptIsTheSession
  BY DEF Onward, Story, TranscriptIsTheSession
<1> QED
  BY <1>1, HostGoesOn, PTL

\* Between two messages, aborts or good responses the model fails at most twice as often as
\* the settings permit: _retryAttempt and _overflowRecoveryAttempted bound the row together.
THEOREM HostRetriesEnd ==
  ASSUME TakeTurns
  PROVE  Spec => []RetriesEnd
<1>1. IInv /\ Onward(host) => RetriesEnd
  BY Counts DEF Onward, Row, RetriesEnd
<1> QED
  BY <1>1, HostGoesOn, PTL

-----------------------------------------------------------------------------
(* What the user is shown of the queues.                                   *)
(*                                                                         *)
(* A third invariant: a shown list names the user's messages in its queue, *)
(* and before them those the agent has taken from it that have not started *)
(* yet, which come from one queue only; clearQueue takes them off, too.    *)

\* One member more, or fewer, to select from.
LEMMA WithoutOn ==
  ASSUME NEW T, NEW q \in Seq(T), NEW x \in T, NEW N
  PROVE  Without(Append(q, x), N) = IF x \in N THEN Without(q, N) ELSE Append(Without(q, N), x)
<1> DEFINE r == Append(q, x)
           P == {i \in DOMAIN q : q[i] \notin N}
           R == {i \in DOMAIN r : r[i] \notin N}
<1>1. /\ r \in Seq(T) /\ Len(r) = Len(q) + 1 /\ Len(q) \in Nat /\ r[Len(q) + 1] = x
      /\ \A i \in 1..Len(q) : r[i] = q[i]
  BY OneMore
<1>2. DOMAIN r = 1..Len(r) /\ DOMAIN q = 1..Len(q)
  BY <1>1
<1>3. \A i \in 1..Len(q) : i \in P <=> i \in R
  BY <1>1, <1>2
<1>4. Len(q) + 1 \in R <=> x \notin N
  BY <1>1, <1>2
<1>5. Without(r, N) = Selected(r, R) /\ Without(q, N) = Selected(q, P)
  BY DEF Without
<1> HIDE DEF P, R
<1>6. Selected(q, P) = Selected(q, R)
  BY <1>1, <1>3, SelectedSame
<1>7. /\ Len(q) + 1 \in R => Selected(r, R) = Append(Selected(q, R), x)
      /\ Len(q) + 1 \notin R => Selected(r, R) = Selected(q, R)
  BY SelectedAppend
<1> QED
  BY <1>4, <1>5, <1>6, <1>7

\* Of two lists only the second is left.
LEMMA WithoutFront ==
  ASSUME NEW T, NEW N, NEW p \in Seq(T), \A i \in 1..Len(p) : p[i] \in N,
         NEW q \in Seq(T), \A i \in 1..Len(q) : q[i] \notin N
  PROVE  Without(p \o q, N) = q
<1> DEFINE In(r)  == \A i \in 1..Len(r) : r[i] \in N
           Out(r) == \A i \in 1..Len(r) : r[i] \notin N
           S == {n \in Nat : \A r \in Seq(T) : Len(r) = n /\ In(r) => Without(r, N) = <<>>}
           U == {n \in Nat : \A r \in Seq(T) : Len(r) = n /\ Out(r) => Without(p \o r, N) = r}
<1>0. \A r \in Seq(T) : Len(r) = 0 => r = <<>>
  OBVIOUS
<1>1. 0 \in S
  <2>1. Without(<<>>, N) = <<>>
    BY SelectedEmpty DEF Without
  <2> QED
    BY <1>0, <2>1
<1>2. ASSUME NEW n \in Nat, n \in S PROVE n + 1 \in S
  <2> SUFFICES ASSUME NEW r \in Seq(T), Len(r) = n + 1, In(r) PROVE Without(r, N) = <<>>
    OBVIOUS
  <2>1. PICK u \in Seq(T), x \in T : r = Append(u, x) /\ Len(u) = n
    BY LastOfSequence
  <2>2. Len(r) \in 1..Len(r) /\ r[Len(r)] = x /\ \A i \in 1..Len(u) : i \in 1..Len(r) /\ r[i] = u[i]
    BY <2>1, OneMore
  <2>3. x \in N /\ In(u)
    BY <2>2
  <2>4. Without(u, N) = <<>>
    BY <1>2, <2>1, <2>3
  <2> QED
    BY <2>1, <2>3, <2>4, WithoutOn
<1>3. Nat \subseteq S
  <2> HIDE DEF S
  <2> QED
    BY <1>1, <1>2, Induction
<1>4. 0 \in U
  <2>1. Without(p, N) = <<>> /\ p \o <<>> = p
    BY <1>3
  <2> QED
    BY <1>0, <2>1
<1>5. ASSUME NEW n \in Nat, n \in U PROVE n + 1 \in U
  <2> SUFFICES ASSUME NEW r \in Seq(T), Len(r) = n + 1, Out(r) PROVE Without(p \o r, N) = r
    OBVIOUS
  <2>1. PICK u \in Seq(T), x \in T : r = Append(u, x) /\ Len(u) = n
    BY LastOfSequence
  <2>2. Len(r) \in 1..Len(r) /\ r[Len(r)] = x /\ \A i \in 1..Len(u) : i \in 1..Len(r) /\ r[i] = u[i]
    BY <2>1, OneMore
  <2>3. x \notin N /\ Out(u)
    BY <2>2
  <2>4. Without(p \o u, N) = u
    BY <1>5, <2>1, <2>3
  <2> DEFINE v == p \o u
  <2>5. p \o r = Append(v, x) /\ v \in Seq(T) /\ Without(v, N) = u
    BY <2>1, <2>4
  <2> HIDE DEF v
  <2>6. Without(Append(v, x), N) = Append(Without(v, N), x)
    BY <2>3, <2>5, WithoutOn
  <2> QED
    BY <2>1, <2>5, <2>6
<1>6. Nat \subseteq U
  <2> HIDE DEF U
  <2> QED
    BY <1>4, <1>5, Induction
<1> QED
  BY <1>6

\* Nothing is left out.
LEMMA WithoutNone ==
  ASSUME NEW T, NEW N, NEW q \in Seq(T), \A i \in 1..Len(q) : q[i] \notin N
  PROVE  Without(q, N) = q
<1> DEFINE none == <<>>
<1>1. none \in Seq(T) /\ Len(none) = 0 /\ none \o q = q
  OBVIOUS
<1> HIDE DEF none
<1>2. \A i \in 1..Len(none) : none[i] \in N
  BY <1>1
<1>3. Without(none \o q, N) = q
  BY <1>1, <1>2, WithoutFront
<1> QED
  BY <1>1, <1>3

\* A number behind one of two lists.
LEMMA NumberJoined ==
  ASSUME NEW p \in Seq(Nat), NEW q \in Seq(Nat), NEW n \in Nat
  PROVE  p \o Append(q, n) = Append(p \o q, n)
OBVIOUS

\* One message more in a queue.
LEMMA UsersOn ==
  ASSUME NEW q \in Seq(MessagesSent), UsersIn(q) \in Seq(Nat), NEW m \in MessagesSent
  PROVE  UsersIn(Append(q, m)) = IF m.role = "user" THEN Append(UsersIn(q), m.n) ELSE UsersIn(q)
<1> DEFINE r == Append(q, m)
           P == {i \in DOMAIN q : q[i].role = "user"}
           R == {i \in DOMAIN r : r[i].role = "user"}
           names(u) == [i \in DOMAIN u |-> u[i].n]
<1>1. /\ r \in Seq(MessagesSent) /\ Len(r) = Len(q) + 1 /\ Len(q) \in Nat /\ r[Len(q) + 1] = m
      /\ \A i \in 1..Len(q) : r[i] = q[i]
  BY OneMore
<1>2. DOMAIN r = 1..Len(r) /\ DOMAIN q = 1..Len(q)
  BY <1>1
<1>3. \A i \in 1..Len(q) : i \in P <=> i \in R
  BY <1>1, <1>2
<1>4. Len(q) + 1 \in R <=> m.role = "user"
  BY <1>1, <1>2
<1>5. UsersIn(r) = names(Selected(r, R)) /\ UsersIn(q) = names(Selected(q, P))
  BY DEF UsersIn
<1> HIDE DEF P, R
<1>6. Selected(q, P) = Selected(q, R) /\ Selected(q, P) \in Seq(MessagesSent)
  BY <1>1, <1>3, SelectedSame, SelectedPlaces
<1>7. /\ Len(q) + 1 \in R => Selected(r, R) = Append(Selected(q, R), m)
      /\ Len(q) + 1 \notin R => Selected(r, R) = Selected(q, R)
  BY SelectedAppend
<1>8. ASSUME NEW u \in Seq(MessagesSent), names(u) \in Seq(Nat)
      PROVE  names(Append(u, m)) = Append(names(u), m.n)
  <2> DEFINE v == Append(u, m)
             W == Append(names(u), m.n)
  <2>1. /\ v \in Seq(MessagesSent) /\ Len(v) = Len(u) + 1 /\ Len(u) \in Nat /\ v[Len(u) + 1] = m
        /\ \A i \in 1..Len(u) : v[i] = u[i]
        /\ \A i \in 1..Len(v) : i \in 1..Len(u) \/ i = Len(u) + 1
    BY OneMore
  <2>2. DOMAIN v = 1..Len(v) /\ DOMAIN u = 1..Len(u)
    BY <2>1
  <2>3. Len(names(u)) = Len(u) /\ \A i \in 1..Len(u) : names(u)[i] = u[i].n
    <3>1. DOMAIN names(u) = 1..Len(u)
      BY <2>2
    <3> QED
      BY <1>8, <2>1, <2>2, <3>1
  <2> HIDE DEF names
  <2>4. /\ W \in Seq(Nat) /\ Len(W) = Len(u) + 1 /\ W[Len(u) + 1] = m.n
        /\ \A i \in 1..Len(u) : W[i] = u[i].n
    <3>1. m.n \in Nat
      BY BoundsAssumption DEF MessagesSent
    <3> QED
      BY <1>8, <2>3, <3>1, OneMore
  <2>5. W = [i \in 1..Len(W) |-> W[i]] /\ \A i \in 1..Len(v) : v[i].n = W[i]
    BY <2>1, <2>4
  <2> QED
    BY <2>1, <2>2, <2>4, <2>5 DEF names
<1> HIDE DEF names, r
<1>9. names(Selected(q, P)) \in Seq(Nat)
  BY <1>5
<1>10. UsersIn(r) = IF m.role = "user" THEN Append(UsersIn(q), m.n) ELSE UsersIn(q)
  <2>1. CASE m.role = "user"
    <3>1. Selected(r, R) = Append(Selected(q, P), m)
      BY <1>4, <1>6, <1>7, <2>1
    <3>2. names(Append(Selected(q, P), m)) = Append(names(Selected(q, P)), m.n)
      BY <1>6, <1>8, <1>9
    <3> QED
      BY <1>5, <2>1, <3>1, <3>2
  <2>2. CASE m.role # "user"
    BY <1>4, <1>5, <1>6, <1>7, <2>2
  <2> QED
    BY <2>1, <2>2
<1> QED
  BY <1>10 DEF r

LEMMA UsersOfNone == UsersIn(<<>>) = <<>>
<1> DEFINE none == <<>>
           P == {i \in DOMAIN none : none[i].role = "user"}
<1>1. UsersIn(none) = [i \in DOMAIN Selected(none, P) |-> Selected(none, P)[i].n]
  BY DEF UsersIn
<1>2. Selected(none, P) = none
  BY SelectedEmpty
<1> QED
  BY <1>1, <1>2

\* They are among the numbers of the user's messages.
LEMMA UsersAre ==
  ASSUME NEW q \in Seq(MessagesSent)
  PROVE  UsersIn(q) \in Seq(Nat) /\ \A i \in 1..Len(UsersIn(q)) : UsersIn(q)[i] \in OfUser(q)
<1> DEFINE Fits(r) == UsersIn(r) \in Seq(Nat) /\ \A i \in 1..Len(UsersIn(r)) : UsersIn(r)[i] \in OfUser(r)
           S == {n \in Nat : \A r \in Seq(MessagesSent) : Len(r) = n => Fits(r)}
<1>1. 0 \in S
  <2>1. \A r \in Seq(MessagesSent) : Len(r) = 0 => r = <<>>
    OBVIOUS
  <2> DEFINE none == <<>>
  <2>2. none \in Seq(Nat) /\ Len(none) = 0 /\ UsersIn(none) = none
    BY UsersOfNone
  <2> HIDE DEF none
  <2>3. \A i \in 1..Len(none) : none[i] \in OfUser(none)
    BY <2>2
  <2>4. Fits(none)
    BY <2>2, <2>3
  <2> HIDE DEF Fits
  <2> QED
    BY <2>1, <2>4 DEF none
<1>2. ASSUME NEW n \in Nat, n \in S PROVE n + 1 \in S
  <2> SUFFICES ASSUME NEW r \in Seq(MessagesSent), Len(r) = n + 1 PROVE Fits(r)
    OBVIOUS
  <2>1. PICK u \in Seq(MessagesSent), m \in MessagesSent : r = Append(u, m) /\ Len(u) = n
    BY LastOfSequence
  <2>2. Fits(u) /\ m.n \in Nat
    <3>1. m.n \in Nat
      BY BoundsAssumption DEF MessagesSent
    <3> QED
      BY <1>2, <2>1, <3>1
  <2>3. UsersIn(r) = IF m.role = "user" THEN Append(UsersIn(u), m.n) ELSE UsersIn(u)
    BY <2>1, <2>2, UsersOn
  <2>4. OfUser(r) = OfUser(u) \cup (IF m.role = "user" THEN {m.n} ELSE {})
    BY <2>1, Appended
  <2>5. CASE m.role = "user"
    <3> DEFINE w == UsersIn(u)
    <3>1. UsersIn(r) = Append(w, m.n) /\ w \in Seq(Nat) /\ \A i \in 1..Len(w) : w[i] \in OfUser(u)
      BY <2>2, <2>3, <2>5
    <3> HIDE DEF w
    <3>2. LET v == Append(w, m.n)
          IN  /\ v \in Seq(Nat) /\ Len(v) = Len(w) + 1 /\ v[Len(w) + 1] = m.n
              /\ \A i \in 1..Len(w) : v[i] = w[i]
              /\ \A i \in 1..Len(v) : i \in 1..Len(w) \/ i = Len(w) + 1
      BY <2>2, <3>1, OneMore
    <3> QED
      BY <2>4, <2>5, <3>1, <3>2
  <2>6. CASE m.role # "user"
    BY <2>2, <2>3, <2>4, <2>6
  <2> QED
    BY <2>5, <2>6
<1>3. Nat \subseteq S
  <2> HIDE DEF S
  <2> QED
    BY <1>1, <1>2, Induction
<1> HIDE DEF Fits
<1>4. Fits(q)
  BY <1>3
<1> QED
  BY <1>4 DEF Fits

\* One queue behind another.
LEMMA UsersJoined ==
  ASSUME NEW p \in Seq(MessagesSent), NEW q \in Seq(MessagesSent)
  PROVE  UsersIn(p \o q) = UsersIn(p) \o UsersIn(q)
<1> DEFINE S == {n \in Nat : \A r \in Seq(MessagesSent) :
                               Len(r) = n => UsersIn(p \o r) = UsersIn(p) \o UsersIn(r)}
<1>1. 0 \in S
  <2>1. \A r \in Seq(MessagesSent) : Len(r) = 0 => r = <<>>
    OBVIOUS
  <2>2. p \o <<>> = p /\ UsersIn(p) \o <<>> = UsersIn(p)
    BY UsersAre
  <2> QED
    BY <2>1, <2>2, UsersOfNone
<1>2. ASSUME NEW n \in Nat, n \in S PROVE n + 1 \in S
  <2> SUFFICES ASSUME NEW r \in Seq(MessagesSent), Len(r) = n + 1
               PROVE  UsersIn(p \o r) = UsersIn(p) \o UsersIn(r)
    OBVIOUS
  <2>1. PICK u \in Seq(MessagesSent), m \in MessagesSent : r = Append(u, m) /\ Len(u) = n
    BY LastOfSequence
  <2>2. UsersIn(p \o u) = UsersIn(p) \o UsersIn(u)
    BY <1>2, <2>1
  <2>3. p \o r = Append(p \o u, m) /\ p \o u \in Seq(MessagesSent)
    BY <2>1
  <2> DEFINE v == p \o u
             a == UsersIn(p)
             b == UsersIn(u)
  <2>4. UsersIn(r) = IF m.role = "user" THEN Append(b, m.n) ELSE b
    BY <2>1, UsersAre, UsersOn
  <2>5. v \in Seq(MessagesSent) /\ p \o r = Append(v, m)
    BY <2>3
  <2>6. UsersIn(v) = a \o b
    BY <2>2
  <2> HIDE DEF v
  <2>7. UsersIn(p \o r) = IF m.role = "user" THEN Append(a \o b, m.n) ELSE a \o b
    BY <2>5, <2>6, UsersAre, UsersOn
  <2>8. a \in Seq(Nat) /\ b \in Seq(Nat) /\ m.n \in Nat
    <3>1. m.n \in Nat
      BY BoundsAssumption DEF MessagesSent
    <3> QED
      BY <3>1, UsersAre
  <2> HIDE DEF a, b
  <2>9. Append(a \o b, m.n) = a \o Append(b, m.n)
    BY <2>8, NumberJoined
  <2>10. UsersIn(p \o r) = a \o UsersIn(r)
    <3>1. CASE m.role = "user"
      BY <2>4, <2>7, <2>9, <3>1
    <3>2. CASE m.role # "user"
      BY <2>4, <2>7, <3>2
    <3> QED
      BY <3>1, <3>2
  <2> QED
    BY <2>10 DEF a
<1>3. Nat \subseteq S
  <2> HIDE DEF S
  <2> QED
    BY <1>1, <1>2, Induction
<1> QED
  BY <1>3

\* What is taken from a queue stood before what is left in it.
LEMMA DrainedUsers ==
  ASSUME NEW q \in Seq(MessagesSent)
  PROVE  UsersIn(q) = UsersIn(Drained(q)) \o UsersIn(Left(q))
<1>1. Drained(q) \in Seq(MessagesSent) /\ Left(q) \in Seq(MessagesSent)
  BY DrainedAndLeft
<1>2. q = Drained(q) \o Left(q)
  <2>1. CASE OneAtATime /\ q # <<>>
    <3>1. Drained(q) = <<Head(q)>> /\ Left(q) = Tail(q)
      BY <2>1 DEF Drained, Left
    <3>2. q = <<Head(q)>> \o Tail(q)
      BY <2>1
    <3> QED
      BY <3>1, <3>2
  <2>2. CASE ~(OneAtATime /\ q # <<>>)
    <3>1. Drained(q) = q /\ Left(q) = <<>>
      BY <2>2 DEF Drained, Left
    <3>2. q = q \o <<>>
      OBVIOUS
    <3> QED
      BY <3>1, <3>2
  <2> QED
    BY <2>1, <2>2
<1> QED
  BY <1>1, <1>2, UsersJoined

\* The fields that say what is queued, and what is shown of it.
Sights == {"steer", "follow", "pending", "shownSteer", "shownFollow"}

Still(s, t) == DOMAIN t = DOMAIN NewHost /\ \A x \in Sights : t[x] = s[x]

Queues(s) ==
  /\ DOMAIN s = DOMAIN NewHost
  /\ s.steer \in Seq(MessagesSent) /\ s.follow \in Seq(MessagesSent) /\ s.pending \in Seq(MessagesSent)
  /\ Distinct(s.steer) /\ Distinct(s.follow)
  /\ Numbers(s.steer) \cap Numbers(s.follow) = {}
  /\ Numbers(s.pending) \cap (Numbers(s.steer) \cup Numbers(s.follow)) = {}

\* The last case: clearQueue has emptied the lists.
Listed(s) ==
  \/ s.shownSteer = UsersIn(s.pending) \o UsersIn(s.steer) /\ s.shownFollow = UsersIn(s.follow)
  \/ s.shownSteer = UsersIn(s.steer) /\ s.shownFollow = UsersIn(s.pending) \o UsersIn(s.follow)
  \/ s.shownSteer = UsersIn(s.steer) /\ s.shownFollow = UsersIn(s.follow)

Shows(s) == Queues(s) /\ Listed(s)

LEMMA SightsAre == Sights \subseteq DOMAIN NewHost
BY DEF Sights, NewHost

LEMMA StillShows ==
  ASSUME NEW s, Shows(s), NEW t, Still(s, t)
  PROVE  Shows(t)
BY DEF Shows, Queues, Listed, Still, Sights

LEMMA StillOn ==
  ASSUME NEW r, NEW s, NEW t, Still(r, s), Still(s, t)
  PROVE  Still(r, t)
BY DEF Still

\* The books keep the queues apart.
LEMMA BookedQueues ==
  ASSUME NEW s, Books(s)
  PROVE  Queues(s)
<1>1. /\ DOMAIN s = DOMAIN NewHost
      /\ \A l \in Stores : s[l] \in Seq(MessagesSent) /\ Distinct(s[l])
      /\ \A l, k \in Stores : l # k => Numbers(s[l]) \cap Numbers(s[k]) = {}
  BY DEF Books, Lists, Ledger
<1>2. {"steer", "follow", "pending"} \subseteq Stores
  BY DEF Stores
<1>3. /\ s["steer"] \in Seq(MessagesSent) /\ s["follow"] \in Seq(MessagesSent)
      /\ s["pending"] \in Seq(MessagesSent) /\ Distinct(s["steer"]) /\ Distinct(s["follow"])
      /\ Numbers(s["steer"]) \cap Numbers(s["follow"]) = {}
      /\ Numbers(s["pending"]) \cap Numbers(s["steer"]) = {}
      /\ Numbers(s["pending"]) \cap Numbers(s["follow"]) = {}
  BY <1>1, <1>2
<1> QED
  BY <1>1, <1>3 DEF Queues

\* While the agent has taken nothing the lists are the queues.
LEMMA NothingTaken ==
  ASSUME NEW s, Queues(s), s.pending = <<>>
  PROVE  Listed(s) <=> s.shownSteer = UsersIn(s.steer) /\ s.shownFollow = UsersIn(s.follow)
<1> DEFINE a == UsersIn(s.steer)
           b == UsersIn(s.follow)
<1>1. a \in Seq(Nat) /\ b \in Seq(Nat) /\ UsersIn(s.pending) = <<>>
  BY UsersAre, UsersOfNone DEF Queues
<1> HIDE DEF a, b
<1>2. <<>> \o a = a /\ <<>> \o b = b
  BY <1>1
<1> QED
  BY <1>1, <1>2 DEF Listed, a, b

\* Messages of one queue are not among the user's of another.
LEMMA NotAmong ==
  ASSUME NEW q \in Seq(MessagesSent), NEW N, Numbers(q) \cap N = {}
  PROVE  /\ UsersIn(q) \in Seq(Nat) /\ \A i \in 1..Len(UsersIn(q)) : UsersIn(q)[i] \notin N
         /\ Without(UsersIn(q), N) = UsersIn(q)
<1>1. UsersIn(q) \in Seq(Nat) /\ \A i \in 1..Len(UsersIn(q)) : UsersIn(q)[i] \notin N
  <2>1. OfUser(q) \subseteq Numbers(q)
    BY Numbered
  <2>2. UsersIn(q) \in Seq(Nat) /\ \A i \in 1..Len(UsersIn(q)) : UsersIn(q)[i] \in OfUser(q)
    BY UsersAre
  <2> QED
    BY <2>1, <2>2
<1> QED
  BY <1>1, WithoutNone

\* What the agent has taken is taken off the lists.
LEMMA TakenLeft ==
  ASSUME NEW p \in Seq(MessagesSent), NEW q \in Seq(MessagesSent), NEW N,
         OfUser(p) \subseteq N, Numbers(q) \cap N = {}
  PROVE  Without(UsersIn(p) \o UsersIn(q), N) = UsersIn(q)
<1>1. UsersIn(p) \in Seq(Nat) /\ \A i \in 1..Len(UsersIn(p)) : UsersIn(p)[i] \in N
  BY UsersAre
<1>2. UsersIn(q) \in Seq(Nat) /\ \A i \in 1..Len(UsersIn(q)) : UsersIn(q)[i] \notin N
  BY NotAmong
<1> QED
  BY <1>1, <1>2, WithoutFront

\* The agent's messages start.
LEMMA TakenStart ==
  ASSUME NEW s, Shows(s), NEW x, Only(s, x, (DOMAIN NewHost \ Sights) \cup {"pending"}), x.pending = <<>>
  PROVE  Shows(SayAll(x, s.pending))
<1> DEFINE said == OfUser(s.pending)
           u == TakeOffLists(x, said)
           t == SayAll(x, s.pending)
           late == said \ ToSet(x.shownSteer)
<1>1. /\ DOMAIN x = DOMAIN NewHost /\ x.steer = s.steer /\ x.follow = s.follow
      /\ x.shownSteer = s.shownSteer /\ x.shownFollow = s.shownFollow
  BY DEF Only, Sights, NewHost
<1>2. /\ u.shownSteer = Without(s.shownSteer, said) /\ u.shownFollow = Without(s.shownFollow, late)
      /\ u.steer = s.steer /\ u.follow = s.follow /\ u.pending = <<>> /\ DOMAIN u = DOMAIN NewHost
  BY <1>1 DEF TakeOffLists, NewHost
<1>3. Still(u, t)
  <2> HIDE DEF u
  <2>1. t = RecordAll(u, s.pending)
    BY DEF SayAll, u
  <2> QED
    BY <1>2, <2>1 DEF RecordAll, Still, Sights, NewHost
<1>4. /\ s.steer \in Seq(MessagesSent) /\ s.follow \in Seq(MessagesSent) /\ s.pending \in Seq(MessagesSent)
      /\ said \subseteq Numbers(s.pending) /\ Numbers(s.steer) \cap said = {}
      /\ Numbers(s.follow) \cap said = {} /\ late \subseteq said
  <2>1. s.pending \in Seq(MessagesSent)
    BY DEF Shows, Queues
  <2>2. said \subseteq Numbers(s.pending)
    BY <2>1, Numbered
  <2> QED
    BY <2>1, <2>2 DEF Shows, Queues
<1> HIDE DEF u, t
<1>5. u.shownSteer = UsersIn(s.steer) /\ u.shownFollow = UsersIn(s.follow)
  <2>1. CASE s.shownSteer = UsersIn(s.pending) \o UsersIn(s.steer) /\ s.shownFollow = UsersIn(s.follow)
    <3>1. Without(s.shownSteer, said) = UsersIn(s.steer)
      BY <1>4, <2>1, TakenLeft
    <3>2. Without(s.shownFollow, late) = UsersIn(s.follow)
      <4>1. Numbers(s.follow) \cap late = {}
        BY <1>4
      <4> HIDE DEF late
      <4> QED
        BY <1>4, <2>1, <4>1, NotAmong
    <3> QED
      BY <1>2, <3>1, <3>2
  <2>2. CASE s.shownSteer = UsersIn(s.steer) /\ s.shownFollow = UsersIn(s.pending) \o UsersIn(s.follow)
    <3>1. Without(s.shownSteer, said) = UsersIn(s.steer)
      BY <1>4, <2>2, NotAmong
    <3>2. late = said
      <4> DEFINE w == UsersIn(s.steer)
      <4>1. w \in Seq(Nat) /\ \A i \in 1..Len(w) : w[i] \notin said
        BY <1>4, NotAmong
      <4>2. x.shownSteer = w
        BY <1>1, <2>2
      <4> HIDE DEF w
      <4>3. ToSet(w) \cap said = {}
        BY <4>1 DEF ToSet
      <4> QED
        BY <4>2, <4>3
    <3>3. Without(s.shownFollow, said) = UsersIn(s.follow)
      BY <1>4, <2>2, TakenLeft
    <3> QED
      BY <1>2, <3>1, <3>2, <3>3
  <2>3. CASE s.shownSteer = UsersIn(s.steer) /\ s.shownFollow = UsersIn(s.follow)
    <3>1. Numbers(s.follow) \cap late = {}
      BY <1>4
    <3> HIDE DEF late
    <3> QED
      BY <1>2, <1>4, <2>3, <3>1, NotAmong
  <2> QED
    BY <2>1, <2>2, <2>3 DEF Shows, Listed
<1>6. Shows(u)
  <2>1. Queues(u)
    BY <1>2, NothingWaits DEF Shows, Queues
  <2> QED
    BY <1>2, <1>5, <2>1, NothingTaken DEF Shows
<1> QED
  BY <1>3, <1>6, StillShows DEF t

\* So do messages that were in no queue.
LEMMA OthersStart ==
  ASSUME NEW s, Shows(s), s.pending = <<>>, NEW msgs,
         OfUser(msgs) \cap (Numbers(s.steer) \cup Numbers(s.follow)) = {}
  PROVE  Shows(SayAll(s, msgs))
<1> DEFINE said == OfUser(msgs)
           u == TakeOffLists(s, said)
           t == SayAll(s, msgs)
           late == said \ ToSet(s.shownSteer)
<1>1. /\ u.shownSteer = Without(s.shownSteer, said) /\ u.shownFollow = Without(s.shownFollow, late)
      /\ u.steer = s.steer /\ u.follow = s.follow /\ u.pending = <<>> /\ DOMAIN u = DOMAIN NewHost
  BY DEF TakeOffLists, NewHost, Shows, Queues
<1>2. Still(u, t)
  <2> HIDE DEF u
  <2>1. t = RecordAll(u, msgs)
    BY DEF SayAll, u
  <2> QED
    BY <1>1, <2>1 DEF RecordAll, Still, Sights, NewHost
<1>3. /\ s.steer \in Seq(MessagesSent) /\ s.follow \in Seq(MessagesSent)
      /\ Numbers(s.steer) \cap said = {} /\ Numbers(s.follow) \cap late = {}
      /\ s.shownSteer = UsersIn(s.steer) /\ s.shownFollow = UsersIn(s.follow)
  BY NothingTaken DEF Shows, Queues
<1> HIDE DEF u, t, said, late
<1>4. u.shownSteer = UsersIn(s.steer) /\ u.shownFollow = UsersIn(s.follow)
  BY <1>1, <1>3, NotAmong
<1>5. Queues(u)
  BY <1>1, NothingWaits DEF Shows, Queues
<1>6. Shows(u)
  BY <1>1, <1>4, <1>5, NothingTaken DEF Shows
<1> QED
  BY <1>2, <1>6, StillShows DEF t

\* The agent takes messages from a queue.
LEMMA DrainsShow ==
  ASSUME NEW s, Shows(s), s.pending = <<>>
  PROVE  Shows(DrainSteering(s)) /\ Shows(DrainFollowUps(s))
<1>1. /\ s.shownSteer = UsersIn(s.steer) /\ s.shownFollow = UsersIn(s.follow) /\ DOMAIN s = DOMAIN NewHost
      /\ s.steer \in Seq(MessagesSent) /\ s.follow \in Seq(MessagesSent)
      /\ Distinct(s.steer) /\ Distinct(s.follow) /\ Numbers(s.steer) \cap Numbers(s.follow) = {}
  BY NothingTaken DEF Shows, Queues
<1>2. ASSUME NEW q \in Seq(MessagesSent), Distinct(q)
      PROVE  /\ Drained(q) \in Seq(MessagesSent) /\ Left(q) \in Seq(MessagesSent) /\ Distinct(Left(q))
             /\ Numbers(q) = Numbers(Drained(q)) \cup Numbers(Left(q))
             /\ Numbers(Drained(q)) \cap Numbers(Left(q)) = {}
             /\ UsersIn(q) = UsersIn(Drained(q)) \o UsersIn(Left(q))
  BY <1>2, DrainedAndLeft, DrainedUsers
<1>3. Shows(DrainSteering(s))
  <2> DEFINE t == DrainSteering(s)
  <2>1. /\ DOMAIN t = DOMAIN NewHost /\ t.pending = Drained(s.steer) /\ t.steer = Left(s.steer)
        /\ t.follow = s.follow /\ t.shownSteer = s.shownSteer /\ t.shownFollow = s.shownFollow
    BY <1>1 DEF DrainSteering, NewHost
  <2> HIDE DEF t
  <2>2. Queues(t)
    <3>1. /\ t.steer \in Seq(MessagesSent) /\ t.follow \in Seq(MessagesSent)
          /\ t.pending \in Seq(MessagesSent) /\ Distinct(t.steer) /\ Distinct(t.follow)
      <4>1. /\ Drained(s.steer) \in Seq(MessagesSent) /\ Left(s.steer) \in Seq(MessagesSent)
            /\ Distinct(Left(s.steer))
        BY <1>1, <1>2
      <4> QED
        BY <1>1, <2>1, <4>1
    <3>2. /\ Numbers(s.steer) = Numbers(t.pending) \cup Numbers(t.steer)
          /\ Numbers(t.pending) \cap Numbers(t.steer) = {}
      BY <1>1, <1>2, <2>1
    <3> QED
      BY <1>1, <2>1, <3>1, <3>2 DEF Queues
  <2>3. Listed(t)
    BY <1>1, <1>2, <2>1 DEF Listed
  <2> QED
    BY <2>2, <2>3 DEF Shows, t
<1>4. Shows(DrainFollowUps(s))
  <2> DEFINE t == DrainFollowUps(s)
  <2>1. /\ DOMAIN t = DOMAIN NewHost /\ t.pending = Drained(s.follow) /\ t.follow = Left(s.follow)
        /\ t.steer = s.steer /\ t.shownSteer = s.shownSteer /\ t.shownFollow = s.shownFollow
    BY <1>1 DEF DrainFollowUps, NewHost
  <2> HIDE DEF t
  <2>2. Queues(t)
    <3>1. /\ t.steer \in Seq(MessagesSent) /\ t.follow \in Seq(MessagesSent)
          /\ t.pending \in Seq(MessagesSent) /\ Distinct(t.steer) /\ Distinct(t.follow)
      <4>1. /\ Drained(s.follow) \in Seq(MessagesSent) /\ Left(s.follow) \in Seq(MessagesSent)
            /\ Distinct(Left(s.follow))
        BY <1>1, <1>2
      <4> QED
        BY <1>1, <2>1, <4>1
    <3>2. /\ Numbers(s.follow) = Numbers(t.pending) \cup Numbers(t.follow)
          /\ Numbers(t.pending) \cap Numbers(t.follow) = {}
      BY <1>1, <1>2, <2>1
    <3> QED
      BY <1>1, <2>1, <3>1, <3>2 DEF Queues
  <2>3. Listed(t)
    BY <1>1, <1>2, <2>1 DEF Listed
  <2> QED
    BY <2>2, <2>3 DEF Shows, t
<1> QED
  BY <1>3, <1>4

-----------------------------------------------------------------------------
(* The helpers keep the lists.                                             *)

\* The lists are the queues, and the agent has taken nothing.
Waited(s) == Shows(s) /\ s.pending = <<>>

LEMMA WaitedOn ==
  ASSUME NEW s, Waited(s), NEW t, Still(s, t)
  PROVE  Waited(t)
<1>1. Shows(t)
  BY StillShows DEF Waited
<1> QED
  BY <1>1 DEF Waited, Still, Sights

\* What is recorded, dropped or summarised is not in the queues.
LEMMA RecordsStill ==
  ASSUME NEW s, DOMAIN s = DOMAIN NewHost
  PROVE  /\ \A m : Still(s, Record(s, m))
         /\ \A msgs : Still(s, RecordAll(s, msgs))
         /\ \A c : Still(s, Compacted(s, c))
         /\ \A why, prep, retry : Still(s, Summarise(s, why, prep, retry))
<1>1. \A m : Still(s, Record(s, m))
  BY DEF Record, Still, Sights, NewHost
<1>2. \A msgs : Still(s, RecordAll(s, msgs))
  BY DEF RecordAll, Still, Sights, NewHost
<1>3. \A c : Still(s, Compacted(s, c))
  BY DEF Compacted, Still, Sights, NewHost
<1>4. \A why, prep, retry : Still(s, Summarise(s, why, prep, retry))
  BY DEF Summarise, Still, Sights, NewHost
<1> QED
  BY <1>1, <1>2, <1>3, <1>4

LEMMA DropsStill ==
  ASSUME NEW s, DOMAIN s = DOMAIN NewHost
  PROVE  Still(s, DropLastResponse(s)) /\ Still(s, DropFailedResponse(s))
<1>1. Still(s, s)
  BY DEF Still
<1>2. Still(s, [s EXCEPT !.transcript = Front(@)])
  BY DEF Still, Sights, NewHost
<1>3. Still(s, DropLastResponse(s))
  BY <1>1, <1>2 DEF DropLastResponse
<1> QED
  BY <1>1, <1>3 DEF DropFailedResponse

\* Nor is what was deferred.
LEMMA FlushesStill ==
  ASSUME NEW s, DOMAIN s = DOMAIN NewHost
  PROVE  Still(s, FlushCustom(s)) /\ Still(s, FlushBash(s)) /\ Still(s, FlushCustom(FlushBash(s)))
<1>1. ASSUME NEW u, DOMAIN u = DOMAIN NewHost PROVE Still(u, FlushCustom(u)) /\ Still(u, FlushBash(u))
  <2> DEFINE x == [u EXCEPT !.custom = <<>>]
             y == [u EXCEPT !.bash = <<>>]
  <2>1. /\ Still(u, x) /\ Still(u, y) /\ DOMAIN x = DOMAIN NewHost /\ DOMAIN y = DOMAIN NewHost
        /\ FlushCustom(u) = RecordAll(x, u.custom) /\ FlushBash(u) = RecordAll(y, u.bash)
    BY <1>1 DEF Still, Sights, NewHost, FlushCustom, FlushBash
  <2> HIDE DEF x, y
  <2> QED
    BY <2>1, RecordsStill, StillOn
<1>2. DOMAIN FlushBash(s) = DOMAIN NewHost
  BY <1>1 DEF Still
<1> QED
  BY <1>1, <1>2, StillOn

\* The prompt is over.
LEMMA SettleStill ==
  ASSUME NEW s, DOMAIN s = DOMAIN NewHost
  PROVE  Still(s, Settle(s)) /\ Still(s, Settle([s EXCEPT !.at = "idle"]))
<1>1. ASSUME NEW u, DOMAIN u = DOMAIN NewHost PROVE Still(u, Settle(u))
  <2> DEFINE f == FlushCustom(FlushBash(u))
             at == IF u.at \in Running THEN u.at ELSE "idle"
  <2>1. Still(u, f) /\ Settle(u) = [f EXCEPT !.active = FALSE, !.at = at]
    BY <1>1, FlushesStill DEF Settle
  <2> HIDE DEF f, at
  <2>2. Still(f, Settle(u))
    BY <2>1 DEF Still, Sights, NewHost
  <2> QED
    BY <2>1, <2>2, StillOn
<1> DEFINE x == [s EXCEPT !.at = "idle"]
<1>2. Still(s, x) /\ DOMAIN x = DOMAIN NewHost
  BY DEF Still, Sights, NewHost
<1> HIDE DEF x
<1>3. Still(s, Settle(x))
  BY <1>1, <1>2, StillOn
<1> QED
  BY <1>1, <1>3 DEF x

\* A run begins with what the agent has taken, and the next turn does.
LEMMA BeginsShow ==
  ASSUME NEW s, Shows(s), NEW skip
  PROVE  Waited(BeginRun(s, s.pending, skip)) /\ Waited(Inject(s))
<1> DEFINE F == (DOMAIN NewHost \ Sights) \cup {"pending"}
<1>0. DOMAIN s = DOMAIN NewHost
  BY DEF Shows, Queues
<1>1. Waited(BeginRun(s, s.pending, skip))
  <2> DEFINE x == [s EXCEPT !.at = "begun", !.skip = skip, !.aborted = FALSE, !.pending = <<>>]
             t == SayAll(x, s.pending)
  <2>1. Only(s, x, F) /\ x.pending = <<>> /\ BeginRun(s, s.pending, skip) = t
    BY <1>0 DEF Only, Sights, NewHost, BeginRun
  <2> HIDE DEF x
  <2>2. Shows(t)
    BY <2>1, TakenStart
  <2>3. t.pending = <<>>
    BY <2>1 DEF SayAll, TakeOffLists, RecordAll, Only, NewHost
  <2> QED
    BY <2>1, <2>2, <2>3 DEF Waited
<1>2. Waited(Inject(s))
  <2> DEFINE x == [s EXCEPT !.pending = <<>>]
             t == SayAll(x, s.pending)
  <2>1. Only(s, x, F) /\ x.pending = <<>> /\ Inject(s) = [t EXCEPT !.at = "streaming"]
    BY <1>0 DEF Only, Sights, NewHost, Inject
  <2> HIDE DEF x
  <2>2. Shows(t)
    BY <2>1, TakenStart
  <2>3. t.pending = <<>>
    BY <2>1 DEF SayAll, TakeOffLists, RecordAll, Only, NewHost
  <2> HIDE DEF t
  <2>4. Still(t, Inject(s))
    BY <2>1, <2>2 DEF Shows, Queues, Still, Sights, NewHost
  <2> QED
    BY <2>2, <2>3, <2>4, WaitedOn DEF Waited
<1> QED
  BY <1>1, <1>2

\* The prompt goes on, or ends.
LEMMA ContinuesShow ==
  ASSUME NEW s, Waited(s)
  PROVE  Waited(Continue(s)) /\ Waited(ContinueIfQueued(s))
<1>0. Shows(s) /\ s.pending = <<>> /\ DOMAIN s = DOMAIN NewHost
  BY DEF Waited, Shows, Queues
<1>1. Waited(Settle([s EXCEPT !.at = "idle"]))
  BY <1>0, SettleStill, WaitedOn
<1>2. /\ DrainSteering(s).pending = Drained(s.steer) /\ Shows(DrainSteering(s))
      /\ DrainFollowUps(s).pending = Drained(s.follow) /\ Shows(DrainFollowUps(s))
  BY <1>0, DrainsShow DEF DrainSteering, DrainFollowUps, NewHost
<1>3. /\ Waited(BeginRun(s, <<>>, FALSE))
      /\ Waited(BeginRun(DrainSteering(s), Drained(s.steer), TRUE))
      /\ Waited(BeginRun(DrainFollowUps(s), Drained(s.follow), FALSE))
  <2>1. Waited(BeginRun(s, s.pending, FALSE))
    BY <1>0, BeginsShow
  <2>2. Waited(BeginRun(DrainSteering(s), DrainSteering(s).pending, TRUE))
    BY <1>2, BeginsShow
  <2>3. Waited(BeginRun(DrainFollowUps(s), DrainFollowUps(s).pending, FALSE))
    BY <1>2, BeginsShow
  <2> QED
    BY <1>0, <1>2, <2>1, <2>2, <2>3
<1>4. Waited(Continue(s))
  BY <1>1, <1>3 DEF Continue
<1> QED
  BY <1>1, <1>4 DEF ContinueIfQueued

\* _checkCompaction, and what follows a run
LEMMA ChecksShow ==
  ASSUME NEW s, Waited(s), NEW stop, NEW t \in AfterCheck(s, stop)
  PROVE  Waited(t)
<1> DEFINE r == [s EXCEPT !.recovered = TRUE]
           u == IF Overflowed(stop) /\ ~s.recovered THEN DropLastResponse(r) ELSE s
           at == [u EXCEPT !.at = "compacting"]
<1>1. t = ContinueIfQueued(u) \/ \E p : t = Summarise(at, "runEnd", p, Overflowed(stop))
  BY DEF AfterCheck
<1>2. Waited(u)
  <2>1. DOMAIN r = DOMAIN NewHost /\ Still(s, r)
    BY DEF Waited, Shows, Queues, Still, Sights, NewHost
  <2> HIDE DEF r
  <2>2. Waited(DropLastResponse(r))
    BY <2>1, DropsStill, StillOn, WaitedOn
  <2> QED
    BY <2>2
<1> HIDE DEF u
<1>3. Waited(ContinueIfQueued(u))
  BY <1>2, ContinuesShow
<1>4. DOMAIN at = DOMAIN NewHost /\ Still(u, at)
  BY <1>2 DEF Waited, Shows, Queues, Still, Sights, NewHost
<1> HIDE DEF at
<1>5. \A p : Waited(Summarise(at, "runEnd", p, Overflowed(stop)))
  BY <1>2, <1>4, RecordsStill, StillOn, WaitedOn
<1> QED
  BY <1>1, <1>3, <1>5

LEMMA RunsShow ==
  ASSUME NEW s, Waited(s), NEW stop, NEW t \in AfterRun(s, stop)
  PROVE  Waited(t)
<1>0. DOMAIN s = DOMAIN NewHost
  BY DEF Waited, Shows, Queues
<1>1. CASE stop = "error" /\ s.retry < MaxRetries
  <2> DEFINE u == DropLastResponse(s)
  <2>1. t = [u EXCEPT !.retry = @ + 1, !.at = "sleeping"]
    BY <1>1 DEF AfterRun
  <2>2. Still(s, u)
    BY <1>0, DropsStill
  <2> HIDE DEF u
  <2>3. Still(u, t)
    BY <2>1, <2>2 DEF Still, Sights, NewHost
  <2> QED
    BY <2>2, <2>3, StillOn, WaitedOn
<1>2. CASE ~(stop = "error" /\ s.retry < MaxRetries)
  <2> DEFINE u == [s EXCEPT !.retry = IF stop \in Failures THEN 0 ELSE @]
  <2>1. t \in AfterCheck(u, stop)
    BY <1>2 DEF AfterRun
  <2>2. Still(s, u)
    BY <1>0 DEF Still, Sights, NewHost
  <2> HIDE DEF u
  <2> QED
    BY <2>1, <2>2, WaitedOn, ChecksShow
<1> QED
  BY <1>1, <1>2

\* The end of a turn takes messages from one queue.
LEMMA TurnsShow ==
  ASSUME NEW s, Waited(s), NEW more
  PROVE  Shows(TurnOver(s, more))
<1> DEFINE f == FlushCustom(s)
           d == DrainSteering(f)
           t == [d EXCEPT !.more = more]
           u == DrainFollowUps(t)
<1>1. Waited(f) /\ DOMAIN f = DOMAIN NewHost
  <2>1. Still(s, f)
    BY FlushesStill DEF Waited, Shows, Queues
  <2> QED
    BY <2>1, WaitedOn DEF Still
<1> HIDE DEF f
<1>2. Shows(d) /\ DOMAIN d = DOMAIN NewHost
  BY <1>1, DrainsShow DEF Waited, Shows, Queues
<1> HIDE DEF d
<1>3. Shows(t) /\ DOMAIN t = DOMAIN NewHost
  <2>1. Still(d, t)
    BY <1>2 DEF Still, Sights, NewHost
  <2> QED
    BY <1>2, <2>1, StillShows DEF Still
<1>4. TurnOver(s, more) = IF more \/ t.pending # <<>> THEN [t EXCEPT !.at = "turnEnd"]
                          ELSE [u EXCEPT !.at = IF u.pending # <<>> THEN "turnEnd" ELSE "ended"]
  BY DEF TurnOver, f, d
<1> HIDE DEF t
<1>5. CASE more \/ t.pending # <<>>
  <2>1. Still(t, TurnOver(s, more))
    BY <1>3, <1>4, <1>5 DEF Still, Sights, NewHost
  <2> QED
    BY <1>3, <2>1, StillShows
<1>6. CASE ~(more \/ t.pending # <<>>)
  <2>1. Shows(u) /\ DOMAIN u = DOMAIN NewHost
    BY <1>3, <1>6, DrainsShow DEF Shows, Queues
  <2> HIDE DEF u
  <2>2. Still(u, TurnOver(s, more))
    BY <1>4, <1>6, <2>1 DEF Still, Sights, NewHost
  <2> QED
    BY <2>1, <2>2, StillShows
<1> QED
  BY <1>5, <1>6

\* A message is queued, a user's is shown.
LEMMA JoinsShow ==
  ASSUME NEW s, Shows(s), NEW m \in MessagesSent, NEW how,
         m.n \notin Numbers(s.steer) \cup Numbers(s.follow) \cup Numbers(s.pending)
  PROVE  /\ m.role # "user" => Shows(Enqueue(s, m, how))
         /\ m = Sent("user", m.n) => Shows(QueueUser(s, m.n, how))
<1> DEFINE a == UsersIn(s.steer)
           b == UsersIn(s.follow)
           c == UsersIn(s.pending)
<1>0. /\ Queues(s) /\ Listed(s) /\ DOMAIN s = DOMAIN NewHost
      /\ s.steer \in Seq(MessagesSent) /\ s.follow \in Seq(MessagesSent) /\ s.pending \in Seq(MessagesSent)
  BY DEF Shows, Queues
<1>1. m.n \in Nat /\ a \in Seq(Nat) /\ b \in Seq(Nat) /\ c \in Seq(Nat)
  <2>1. m.n \in Nat
    BY BoundsAssumption DEF MessagesSent
  <2> QED
    BY <1>0, <2>1, UsersAre
<1>2. ASSUME NEW q \in Seq(MessagesSent), Distinct(q), m.n \notin Numbers(q)
      PROVE  LET r == Append(q, m)
             IN  /\ r \in Seq(MessagesSent) /\ Distinct(r) /\ Numbers(r) = Numbers(q) \cup {m.n}
                 /\ UsersIn(r) = IF m.role = "user" THEN Append(UsersIn(q), m.n) ELSE UsersIn(q)
  BY <1>2, Appended, UsersAre, UsersOn
<1>3. ASSUME NEW t, DOMAIN t = DOMAIN NewHost, t.pending = s.pending,
             \/ t.steer = Append(s.steer, m) /\ t.follow = s.follow
             \/ t.follow = Append(s.follow, m) /\ t.steer = s.steer
      PROVE  Queues(t)
  <2>1. CASE t.steer = Append(s.steer, m) /\ t.follow = s.follow
    <3>1. t.steer \in Seq(MessagesSent) /\ Distinct(t.steer) /\ Numbers(t.steer) = Numbers(s.steer) \cup {m.n}
      BY <1>0, <1>2, <2>1 DEF Queues
    <3> QED
      BY <1>0, <1>3, <2>1, <3>1 DEF Queues
  <2>2. CASE t.follow = Append(s.follow, m) /\ t.steer = s.steer
    <3>1. /\ t.follow \in Seq(MessagesSent) /\ Distinct(t.follow)
          /\ Numbers(t.follow) = Numbers(s.follow) \cup {m.n}
      BY <1>0, <1>2, <2>2 DEF Queues
    <3> QED
      BY <1>0, <1>3, <2>2, <3>1 DEF Queues
  <2> QED
    BY <1>3, <2>1, <2>2
<1>4. /\ UsersIn(Append(s.steer, m)) = IF m.role = "user" THEN Append(a, m.n) ELSE a
      /\ UsersIn(Append(s.follow, m)) = IF m.role = "user" THEN Append(b, m.n) ELSE b
  BY <1>0, UsersAre, UsersOn
<1>5. c \o Append(a, m.n) = Append(c \o a, m.n) /\ c \o Append(b, m.n) = Append(c \o b, m.n)
  <2> HIDE DEF a, b, c
  <2> QED
    BY <1>1, NumberJoined
<1>6. ASSUME m.role # "user" PROVE Shows(Enqueue(s, m, how))
  <2> DEFINE t == Enqueue(s, m, how)
  <2>1. /\ DOMAIN t = DOMAIN NewHost /\ t.pending = s.pending
        /\ t.shownSteer = s.shownSteer /\ t.shownFollow = s.shownFollow
        /\ \/ t.steer = Append(s.steer, m) /\ t.follow = s.follow
           \/ t.follow = Append(s.follow, m) /\ t.steer = s.steer
    BY <1>0 DEF Enqueue, NewHost
  <2> HIDE DEF t
  <2>2. Queues(t)
    BY <1>3, <2>1
  <2>3. UsersIn(t.steer) = a /\ UsersIn(t.follow) = b
    BY <1>4, <1>6, <2>1
  <2>4. Listed(t)
    BY <1>0, <2>1, <2>3 DEF Listed
  <2> QED
    BY <2>2, <2>4 DEF Shows, t
<1>7. ASSUME m = Sent("user", m.n) PROVE Shows(QueueUser(s, m.n, how))
  <2> DEFINE t == QueueUser(s, m.n, how)
  <2>1. m.role = "user"
    BY <1>7 DEF Sent, Message
  <2>2. /\ DOMAIN t = DOMAIN NewHost /\ t.pending = s.pending
        /\ \/ /\ t.steer = Append(s.steer, m) /\ t.follow = s.follow
              /\ t.shownSteer = Append(s.shownSteer, m.n) /\ t.shownFollow = s.shownFollow
           \/ /\ t.follow = Append(s.follow, m) /\ t.steer = s.steer
              /\ t.shownFollow = Append(s.shownFollow, m.n) /\ t.shownSteer = s.shownSteer
    <3>1. t = IF how = "followUp"
              THEN [[s EXCEPT !.follow = Append(@, m)] EXCEPT !.shownFollow = Append(@, m.n)]
              ELSE [[s EXCEPT !.steer = Append(@, m)] EXCEPT !.shownSteer = Append(@, m.n)]
      BY <1>7 DEF QueueUser, Enqueue
    <3> HIDE DEF t
    <3> QED
      BY <1>0, <3>1 DEF NewHost
  <2> HIDE DEF t
  <2>3. Queues(t)
    BY <1>3, <2>2
  <2>4. Listed(t)
    <3>1. CASE t.steer = Append(s.steer, m) /\ t.follow = s.follow
               /\ t.shownSteer = Append(s.shownSteer, m.n) /\ t.shownFollow = s.shownFollow
      <4>1. UsersIn(t.steer) = Append(a, m.n) /\ UsersIn(t.follow) = b
        BY <1>4, <2>1, <3>1
      <4> QED
        BY <1>0, <1>5, <2>2, <3>1, <4>1 DEF Listed
    <3>2. CASE t.follow = Append(s.follow, m) /\ t.steer = s.steer
               /\ t.shownFollow = Append(s.shownFollow, m.n) /\ t.shownSteer = s.shownSteer
      <4>1. UsersIn(t.follow) = Append(b, m.n) /\ UsersIn(t.steer) = a
        BY <1>4, <2>1, <3>2
      <4> QED
        BY <1>0, <1>5, <2>2, <3>2, <4>1 DEF Listed
    <3> QED
      BY <2>2, <3>1, <3>2
  <2> QED
    BY <2>3, <2>4 DEF Shows, t
<1> QED
  BY <1>6, <1>7

-----------------------------------------------------------------------------
(* The steps keep the lists.                                               *)

\* Where the agent has taken nothing.
LEMMA NothingTakenAt ==
  ASSUME IInv, Shows(host)
  PROVE  DOMAIN host = DOMAIN NewHost /\ (host.at # "turnEnd" => Waited(host))
BY Given DEF Phase, Waited

\* Numbers of the queues are numbers that wait.
LEMMA QueuedWaits ==
  ASSUME NEW n, n \notin Waits(host)
  PROVE  n \notin Numbers(host.steer) \cup Numbers(host.follow) \cup Numbers(host.pending)
<1>1. \A l \in Stores : n \notin Numbers(host[l])
  BY WaitsIn
<1>2. {"steer", "follow", "pending"} \subseteq Stores
  BY DEF Stores
<1>3. n \notin Numbers(host["steer"]) /\ n \notin Numbers(host["follow"]) /\ n \notin Numbers(host["pending"])
  BY <1>1, <1>2
<1> QED
  BY <1>3

\* The first poll of a run for steering, and the next turn.
LEMMA PollsShow ==
  ASSUME IInv, Shows(host), Poll \/ NextTurn
  PROVE  Shows(host')
<1>0. DOMAIN host = DOMAIN NewHost /\ (host.pending = <<>> => Shows(DrainSteering(host)))
  BY NothingTakenAt, DrainsShow
<1>1. Shows([host EXCEPT !.skip = FALSE])
  <2>1. Still(host, [host EXCEPT !.skip = FALSE])
    BY <1>0 DEF Still, Sights, NewHost
  <2> QED
    BY <2>1, StillShows
<1>2. Poll => host.pending = <<>>
  BY NothingTakenAt DEF Poll, Waited
<1>3. PICK v : Shows(v) /\ host' = Inject(v)
  BY <1>0, <1>1, <1>2 DEF Poll, NextTurn
<1> QED
  BY <1>3, BeginsShow DEF Waited

\* A response, and the result of a tool.
LEMMA AnswersShow ==
  ASSUME IInv, Shows(host), ModelStep
  PROVE  Shows(host')
<1>0. DOMAIN host = DOMAIN NewHost /\ (host.at # "turnEnd" => Waited(host))
  BY NothingTakenAt
<1>1. ASSUME NEW stop, NEW calls, Respond(stop, calls) PROVE Shows(host')
  <2> DEFINE m == Response(stop, calls)
             s == [host EXCEPT !.toolTurns = @ + (IF calls > 0 THEN 1 ELSE 0),
                               !.failing = @ + (IF stop \in Failures \cup {"length"} THEN 1 ELSE 0)]
             r == Record(s, m)
             t == Responded(s, m)
  <2>1. host' = ResponseEnds(s, m) /\ Waited(host)
    BY <1>0, <1>1 DEF Respond, CanRespond
  <2>2. Still(host, s)
    BY <1>0 DEF Still, Sights, NewHost
  <2> HIDE DEF s
  <2>3. Still(s, r)
    BY <2>2, RecordsStill DEF Still
  <2>4. \E last, more, recovered, retry, streak :
          t = [r EXCEPT !.last = last, !.more = more, !.recovered = recovered,
                        !.retry = retry, !.streak = streak]
    BY DEF Responded
  <2> HIDE DEF r, t
  <2>5. Still(r, t)
    BY <2>3, <2>4 DEF Still, Sights, NewHost
  <2>6. Still(host, t) /\ DOMAIN t = DOMAIN NewHost
    BY <2>2, <2>3, <2>5, StillOn DEF Still
  <2>7. Waited(t)
    BY <2>1, <2>6, WaitedOn
  <2> DEFINE f == FlushCustom(t)
             all == RecordAll(t, [i \in 1..m.calls |-> ResultOf(i)])
  <2>8. /\ host' \in {[f EXCEPT !.at = "ended"], TurnOver(t, FALSE), TurnOver(all, TRUE),
                      [t EXCEPT !.at = "tools", !.calls = m.calls, !.done = 0]}
    BY <2>1 DEF ResponseEnds, t
  <2>9. Still(t, f) /\ Still(t, all)
    BY <2>6, RecordsStill, FlushesStill
  <2> HIDE DEF f, all
  <2>10. Shows([f EXCEPT !.at = "ended"])
    <3>1. Still(f, [f EXCEPT !.at = "ended"])
      BY <2>9 DEF Still, Sights, NewHost
    <3> QED
      BY <2>7, <2>9, <3>1, StillOn, StillShows DEF Waited
  <2>11. Shows(TurnOver(t, FALSE)) /\ Shows(TurnOver(all, TRUE))
    BY <2>7, <2>9, WaitedOn, TurnsShow
  <2>12. Shows([t EXCEPT !.at = "tools", !.calls = m.calls, !.done = 0])
    <3>1. Still(t, [t EXCEPT !.at = "tools", !.calls = m.calls, !.done = 0])
      BY <2>6 DEF Still, Sights, NewHost
    <3> QED
      BY <2>7, <3>1, StillShows DEF Waited
  <2> QED
    BY <2>8, <2>10, <2>11, <2>12
<1>2. ASSUME NEW break, NEW more, RecordResult(break, more) PROVE Shows(host')
  <2> DEFINE r == Record(host, ResultOf(host.done + 1))
             s == [r EXCEPT !.done = @ + 1]
  <2>1. Waited(host) /\ (host' = TurnOver(s, more) \/ host' = s)
    BY <1>0, <1>2 DEF RecordResult
  <2>2. Still(host, r)
    BY <1>0, RecordsStill
  <2> HIDE DEF r
  <2>3. Still(r, s)
    BY <2>2 DEF Still, Sights, NewHost
  <2> HIDE DEF s
  <2>4. Waited(s)
    BY <2>1, <2>2, <2>3, StillOn, WaitedOn
  <2> QED
    BY <2>1, <2>4, TurnsShow DEF Waited
<1> QED
  BY <1>1, <1>2 DEF ModelStep

\* A run ends, a retry begins, and a summary is written or given up.
LEMMA EndsShow ==
  ASSUME IInv, Shows(host), EndRun \/ Wake \/ \E c : Finish(c) \/ Abandon(c)
  PROVE  Shows(host')
<1>0. DOMAIN host = DOMAIN NewHost /\ (host.at # "turnEnd" => Waited(host))
  BY NothingTakenAt
<1>1. CASE EndRun
  <2>1. Waited(host)
    BY <1>0, <1>1 DEF EndRun
  <2>2. CASE host' = Settle([host EXCEPT !.at = "idle"])
    BY <1>0, <2>1, <2>2, SettleStill, WaitedOn DEF Waited
  <2>3. CASE host' # Settle([host EXCEPT !.at = "idle"])
    <3> DEFINE u == [host EXCEPT !.last = {}, !.at = "idle"]
    <3>1. PICK m : host' \in AfterRun(u, m.stop)
      BY <1>1, <2>3 DEF EndRun
    <3>2. Still(host, u)
      BY <1>0 DEF Still, Sights, NewHost
    <3> HIDE DEF u
    <3> QED
      BY <2>1, <3>1, <3>2, WaitedOn, RunsShow DEF Waited
  <2> QED
    BY <2>2, <2>3
<1>2. CASE Wake
  BY <1>0, <1>2, ContinuesShow DEF Wake, Waited
<1>3. ASSUME NEW c, c \in host.summaries, NEW t, Still(host, t) PROVE
        /\ c.why # "runEnd" => Shows(t)
        /\ c.why = "runEnd" => Shows(Continue(t)) /\ Shows(ContinueIfQueued(t))
  <2>1. Shows(t)
    BY <1>3, StillShows
  <2>2. ASSUME c.why = "runEnd" PROVE Waited(t)
    <3>1. host.at = "compacting"
      BY <1>3, <2>2, Given DEF Orderly
    <3> QED
      BY <1>0, <1>3, <3>1, WaitedOn
  <2> QED
    BY <2>1, <2>2, ContinuesShow DEF Waited
<1>4. ASSUME NEW c, Finish(c) PROVE Shows(host')
  <2> DEFINE r == Compacted(host, c)
             t == IF c.retry THEN DropFailedResponse(r) ELSE r
  <2>1. /\ c \in host.summaries
        /\ host' = IF c.why # "runEnd" THEN t ELSE IF c.retry THEN Continue(t) ELSE ContinueIfQueued(t)
    BY <1>4 DEF Finish, FinishCompaction
  <2>2. Still(host, r) /\ DOMAIN r = DOMAIN NewHost
    BY <1>0, RecordsStill DEF Still
  <2> HIDE DEF r
  <2>3. Still(host, t)
    BY <2>2, DropsStill, StillOn
  <2> HIDE DEF t
  <2> QED
    BY <1>3, <2>1, <2>3
<1>5. ASSUME NEW c, Abandon(c) PROVE Shows(host')
  <2> DEFINE t == [host EXCEPT !.summaries = @ \ {c}]
  <2>1. c \in host.summaries /\ host' = IF c.why = "runEnd" THEN ContinueIfQueued(t) ELSE t
    BY <1>5 DEF Abandon, AbandonCompaction
  <2>2. Still(host, t)
    BY <1>0 DEF Still, Sights, NewHost
  <2> HIDE DEF t
  <2> QED
    BY <1>3, <2>1, <2>2
<1> QED
  BY <1>1, <1>2, <1>4, <1>5

\* The text of a prompt has been handled; while the agent works it joins a queue.
LEMMA PassesShow ==
  ASSUME IInv, Shows(host), NEW p, PassInput(p)
  PROVE  Shows(host')
<1> DEFINE s == [host EXCEPT !.preflight = @ \ {p}]
           u == FlushCustom(FlushBash(s))
           m == Sent("user", p.n)
<1>0. DOMAIN host = DOMAIN NewHost
  BY NothingTakenAt
<1>1. /\ Still(host, s) /\ DOMAIN s = DOMAIN NewHost /\ s.active = host.active /\ s.refused = host.refused
      /\ s.steer = host.steer /\ s.follow = host.follow /\ s.pending = host.pending
  BY <1>0 DEF Still, Sights, NewHost
<1>2. CASE ~host.active
  <2>1. \E q : host' = [u EXCEPT !.preflight = @ \cup {q}]
    BY <1>1, <1>2 DEF PassInput
  <2> HIDE DEF s
  <2>2. Still(s, u)
    BY <1>1, FlushesStill
  <2> HIDE DEF u
  <2>3. Still(u, host')
    BY <2>1, <2>2 DEF Still, Sights, NewHost
  <2> QED
    BY <1>1, <2>2, <2>3, StillOn, StillShows
<1>3. CASE host.active /\ p.how = "none"
  <2>1. host' = [s EXCEPT !.refused = @ \cup {p.n}]
    BY <1>1, <1>3 DEF PassInput
  <2> HIDE DEF s
  <2>2. Still(s, host')
    BY <1>1, <2>1 DEF Still, Sights, NewHost
  <2> QED
    BY <1>1, <2>2, StillOn, StillShows
<1>4. CASE host.active /\ p.how # "none"
  <2>1. host' = QueueUser(s, m.n, p.how) /\ p \in host.preflight
    BY <1>1, <1>4 DEF PassInput, Sent, Message
  <2> HIDE DEF s
  <2>2. Shows(s)
    BY <1>1, StillShows
  <2>3. m \in MessagesSent /\ m = Sent("user", m.n) /\ m.n = p.n
    <3>1. p.n \in 1..MaxMessages /\ "user" \in Sorts
      BY <2>1, Given DEF Fields, Prompts
    <3>2. m.n = p.n
      BY DEF Sent, Message
    <3> QED
      BY <3>1, <3>2, Kinds
  <2>4. m.n \notin Numbers(s.steer) \cup Numbers(s.follow) \cup Numbers(s.pending)
    <3>1. p.n \notin Waits(host)
      BY <2>1, Given DEF Books, Ledger
    <3> QED
      BY <1>1, <2>3, <3>1, QueuedWaits
  <2> HIDE DEF m
  <2> QED
    BY <2>1, <2>2, <2>3, <2>4, JoinsShow
<1> QED
  BY <1>2, <1>3, <1>4

\* The session rests and begins a run with messages of which the queues know nothing.
LEMMA PromptsShow ==
  ASSUME IInv, Shows(host), NEW p, Launch(p) \/ TriggerTurn
  PROVE  Shows(host')
<1> DEFINE F == {"issued", "preflight", "nextTurn", "active", "at", "skip", "aborted", "pending"}
<1>1. ~host.active /\ host.at = "idle" /\ DOMAIN host = DOMAIN NewHost /\ host.pending = <<>>
  <2>1. ~host.active
    BY Given DEF Launch, TriggerTurn, Orderly
  <2> QED
    BY <2>1, Given
<1>2. PICK x : /\ Only(host, x, F) /\ x.pending = <<>>
               /\ \E msgs : /\ host' = SayAll(x, msgs)
                            /\ OfUser(msgs) \cap (Numbers(host.steer) \cup Numbers(host.follow)) = {}
  <2>1. CASE Launch(p)
    <3> DEFINE y == [host EXCEPT !.preflight = @ \ {p}, !.nextTurn = <<>>, !.active = TRUE, !.at = "begun",
                                 !.skip = FALSE, !.aborted = FALSE, !.pending = <<>>]
               m == Sent("user", p.n)
               msgs == <<m>> \o host.nextTurn
    <3>1. host' = SayAll(y, msgs) /\ p \in host.preflight
      BY <1>1, <2>1 DEF Launch, RunAgentPrompt, BeginRun, Running, NewHost
    <3>2. Only(host, y, F) /\ y.pending = <<>>
      BY <1>1 DEF Only, NewHost
    <3>3. p.n \notin Numbers(host.steer) \cup Numbers(host.follow)
      <4>1. p.n \notin Waits(host)
        BY <3>1, Given DEF Books, Ledger
      <4> QED
        BY <4>1, QueuedWaits
    <3>4. OfUser(msgs) \subseteq {p.n}
      <4>1. m.n = p.n
        BY DEF Sent, Message
      <4>2. m \in MessagesSent
        <5>1. p.n \in 1..MaxMessages /\ "user" \in Sorts
          BY <3>1, Given DEF Fields, Prompts
        <5> QED
          BY <5>1, Kinds
      <4>3. /\ host["nextTurn"] \in Seq(MessagesSent)
            /\ \A i \in 1..Len(host["nextTurn"]) : host["nextTurn"][i].role # "user"
        BY Given DEF Books, Lists, Stores
      <4> DEFINE q == host.nextTurn
      <4>4. q \in Seq(MessagesSent) /\ \A i \in 1..Len(q) : q[i].role # "user"
        BY <4>3
      <4> DEFINE r == <<m>> \o q
      <4> HIDE DEF q, m
      <4>5. /\ r \in Seq(MessagesSent) /\ Len(r) = Len(q) + 1
            /\ r[1] = m /\ \A i \in 1..Len(q) : r[i + 1] = q[i]
        BY <4>2, <4>4
      <4>6. \A i \in 1..Len(r) : i = 1 \/ (i - 1 \in 1..Len(q) /\ r[i] = q[i - 1])
        BY <4>4, <4>5
      <4>7. msgs = r
        BY DEF q
      <4> HIDE DEF r, msgs
      <4>8. \A n \in OfUser(r) : \E i \in 1..Len(r) : r[i].n = n /\ r[i].role = "user"
        BY <4>5, Numbered
      <4> QED
        BY <4>1, <4>4, <4>5, <4>6, <4>7, <4>8
    <3> HIDE DEF y, msgs
    <3> QED
      BY <3>1, <3>2, <3>3, <3>4
  <2>2. CASE TriggerTurn
    <3> DEFINE y == [host EXCEPT !.issued = @ + 1, !.active = TRUE, !.at = "begun",
                                 !.skip = FALSE, !.aborted = FALSE, !.pending = <<>>]
               m == Sent("custom", Next1(host))
    <3>1. host' = SayAll(y, <<m>>)
      BY <1>1, <2>2 DEF TriggerTurn, RunAgentPrompt, BeginRun, Running, NewHost
    <3>2. Only(host, y, F) /\ y.pending = <<>>
      BY <1>1 DEF Only, NewHost
    <3>3. OfUser(<<m>>) = {}
      <4>1. m.role = "custom"
        BY DEF Sent, Message
      <4> HIDE DEF m
      <4> QED
        BY <4>1 DEF OfUser
    <3> HIDE DEF y, m
    <3> QED
      BY <3>1, <3>2, <3>3
  <2> QED
    BY <2>1, <2>2
<1>3. Still(host, x)
  BY <1>1, <1>2 DEF Only, Still, Sights, NewHost
<1>4. Shows(x) /\ x.steer = host.steer /\ x.follow = host.follow
  BY <1>3, StillShows DEF Still, Sights
<1> QED
  BY <1>2, <1>4, OthersStart

\* Callers queue, record and withdraw.
LEMMA CallersShow ==
  ASSUME IInv, Shows(host), NEW how, NEW trigger,
         \/ Submit(how) \/ QueueMessage(how) \/ SendCustom(how, trigger) \/ RecordBash \/ ClearQueue \/ Abort
  PROVE  Shows(host')
<1> DEFINE s == [host EXCEPT !.issued = @ + 1]
           n == Next1(host)
<1>0. DOMAIN host = DOMAIN NewHost
  BY NothingTakenAt
<1>1. Still(host, s) /\ DOMAIN s = DOMAIN NewHost /\ s.active = host.active
  BY <1>0 DEF Still, Sights, NewHost
<1>2. /\ Shows(s) /\ n = host.issued + 1
      /\ n \notin Numbers(s.steer) \cup Numbers(s.follow) \cup Numbers(s.pending)
  <2>1. n \notin Waits(host)
    BY Given, FreshNumber DEF Next1
  <2>2. s.steer = host.steer /\ s.follow = host.follow /\ s.pending = host.pending
    BY <1>1 DEF Still, Sights
  <2> QED
    BY <1>1, <2>1, <2>2, StillShows, QueuedWaits DEF Next1
<1>3. \A t : Still(s, t) => Shows(t)
  BY <1>2, StillShows
<1>4. CASE Submit(how)
  <2>1. Still(host, host')
    BY <1>0, <1>4 DEF Submit, Still, Sights, NewHost
  <2> QED
    BY <2>1, StillShows
<1>5. CASE QueueMessage(how)
  <2> DEFINE m == Sent("user", n)
  <2>1. m \in MessagesSent /\ host' = QueueUser(s, n, how)
    BY <1>5, Issues DEF QueueMessage
  <2>2. m.n = n /\ m = Sent("user", m.n)
    BY DEF Sent, Message
  <2> HIDE DEF s, m, n
  <2> QED
    BY <1>2, <2>1, <2>2, JoinsShow
<1>6. CASE SendCustom(how, trigger)
  <2> DEFINE m == Sent("custom", n)
  <2>1. /\ m \in MessagesSent /\ m.role # "user" /\ m.n = n
        /\ host' \in {[s EXCEPT !.nextTurn = Append(@, m)], Enqueue(s, m, how),
                      [s EXCEPT !.custom = Append(@, m)], Record(s, m)}
    <3>1. CanIssue(host, "custom")
      BY <1>6 DEF SendCustom
    <3>2. m \in MessagesSent /\ m.role # "user" /\ m.n = n
      BY <3>1, Issues DEF Sent, Message
    <3> QED
      BY <1>6, <3>2 DEF SendCustom
  <2> HIDE DEF s, m, n
  <2>2. /\ Still(s, [s EXCEPT !.nextTurn = Append(@, m)]) /\ Still(s, [s EXCEPT !.custom = Append(@, m)])
        /\ Still(s, Record(s, m))
    <3>1. Still(s, Record(s, m))
      BY <1>1, RecordsStill
    <3> QED
      BY <1>1, <3>1 DEF Still, Sights, NewHost
  <2>3. Shows(Enqueue(s, m, how))
    BY <1>2, <2>1, JoinsShow
  <2> QED
    BY <1>3, <2>1, <2>2, <2>3
<1>7. CASE RecordBash
  <2> DEFINE m == Sent("bash", n)
  <2>1. host' \in {[s EXCEPT !.bash = Append(@, m)], Record(s, m)}
    BY <1>7 DEF RecordBash
  <2> HIDE DEF s, m
  <2>2. Still(s, [s EXCEPT !.bash = Append(@, m)]) /\ Still(s, Record(s, m))
    <3>1. Still(s, Record(s, m))
      BY <1>1, RecordsStill
    <3> QED
      BY <1>1, <3>1 DEF Still, Sights, NewHost
  <2> QED
    BY <1>3, <2>1, <2>2
<1>8. CASE ClearQueue
  <2>1. /\ DOMAIN host' = DOMAIN NewHost /\ host'.steer = <<>> /\ host'.follow = <<>>
        /\ host'.shownSteer = <<>> /\ host'.shownFollow = <<>> /\ host'.pending = host.pending
    BY <1>0, <1>8 DEF ClearQueue, NewHost
  <2>2. Queues(host')
    BY <2>1, NothingWaits DEF Shows, Queues
  <2>3. Listed(host')
    BY <2>1, UsersOfNone DEF Listed
  <2> QED
    BY <2>2, <2>3 DEF Shows
<1>9. CASE Abort
  <2> DEFINE a == [host EXCEPT !.aborts = @ + 1, !.streak = 0]
             b == [a EXCEPT !.retry = 0, !.at = "idle"]
  <2>1. Still(host, a) /\ a.at = host.at
    BY <1>0 DEF Still, Sights, NewHost
  <2>2. host' = [a EXCEPT !.aborted = TRUE] \/ (host.at = "sleeping" /\ host' \in AfterCheck(b, "error"))
    BY <1>9, <2>1 DEF Abort
  <2> HIDE DEF a
  <2>3. Still(a, [a EXCEPT !.aborted = TRUE]) /\ Still(a, b)
    BY <2>1 DEF Still, Sights, NewHost
  <2> HIDE DEF b
  <2>4. CASE host' = [a EXCEPT !.aborted = TRUE]
    BY <2>1, <2>3, <2>4, StillOn, StillShows
  <2>5. CASE host.at = "sleeping" /\ host' \in AfterCheck(b, "error")
    BY <2>1, <2>3, <2>5, NothingTakenAt, StillOn, WaitedOn, ChecksShow DEF Waited
  <2> QED
    BY <2>2, <2>4, <2>5
<1> QED
  BY <1>4, <1>5, <1>6, <1>7, <1>8, <1>9

\* A prompt is refused, and a compaction prepared, without a look at the queues.
LEMMA PausesShow ==
  ASSUME IInv, Shows(host), NEW p, NEW prep,
         Refuse(p) \/ CompactManually(prep) \/ CompactBetweenTurns(prep) \/ CompactBeforePrompt(p, prep)
  PROVE  Shows(host')
<1>0. DOMAIN host = DOMAIN NewHost
  BY NothingTakenAt
<1>1. CASE Refuse(p)
  <2>1. Still(host, host')
    BY <1>0, <1>1 DEF Refuse, Still, Sights, NewHost
  <2> QED
    BY <2>1, StillShows
<1>2. CASE CompactManually(prep) \/ CompactBetweenTurns(prep)
  <2>1. \E why : host' = Summarise(host, why, prep, FALSE)
    BY <1>2 DEF CompactManually, CompactBetweenTurns
  <2> QED
    BY <1>0, <2>1, RecordsStill, StillShows
<1>3. CASE CompactBeforePrompt(p, prep)
  <2> DEFINE s == [host EXCEPT !.preflight = (@ \ {p}) \cup {[p EXCEPT !.stage = "ready"]}]
             r == [s EXCEPT !.recovered = TRUE]
  <2>1. PICK t : (t = s \/ t = DropLastResponse(r)) /\ \E retry : host' = Summarise(t, "prompt", prep, retry)
    BY <1>3 DEF CompactBeforePrompt
  <2>2. Still(host, s) /\ Still(host, r) /\ DOMAIN r = DOMAIN NewHost
    BY <1>0 DEF Still, Sights, NewHost
  <2> HIDE DEF s, r
  <2>3. Still(host, t)
    <3>1. Still(r, DropLastResponse(r))
      BY <2>2, DropsStill
    <3> QED
      BY <2>1, <2>2, <3>1, StillOn
  <2>4. Still(t, host')
    <3>1. DOMAIN t = DOMAIN NewHost
      BY <2>3 DEF Still
    <3> QED
      BY <2>1, <3>1, RecordsStill
  <2> QED
    BY <2>3, <2>4, StillOn, StillShows
<1> QED
  BY <1>1, <1>2, <1>3

-----------------------------------------------------------------------------
(* The invariant of the lists.                                             *)

LEMMA NewHostShows == Init => Shows(host)
<1> SUFFICES ASSUME Init PROVE Shows(host)
  OBVIOUS
<1>1. Queues(host)
  BY NewHostIsSound, Given, BookedQueues
<1>2. /\ host.steer = <<>> /\ host.follow = <<>> /\ host.pending = <<>>
      /\ host.shownSteer = <<>> /\ host.shownFollow = <<>>
  BY DEF Init, NewHost
<1> QED
  BY <1>1, <1>2, UsersOfNone DEF Shows, Listed

LEMMA StepShows ==
  ASSUME IInv, Shows(host), TakeTurns, [Next]_vars
  PROVE  Shows(host')
<1>1. CASE HostStep
  BY <1>1, PollsShow, EndsShow, PassesShow, PromptsShow DEF HostStep
<1>2. CASE ModelStep
  BY <1>2, AnswersShow
<1>3. CASE CallerStep
  BY <1>3, CallersShow, PromptsShow, PausesShow DEF CallerStep
<1>4. CASE OtherStep
  BY <1>4, PausesShow, EndsShow DEF OtherStep
<1>5. CASE UNCHANGED vars
  BY <1>5 DEF vars
<1> QED
  BY <1>1, <1>2, <1>3, <1>4, <1>5 DEF Next, Rest

\* What the lists name apart from what the agent has taken is what is queued.
LEMMA ShownIsQueued ==
  ASSUME Shows(host)
  PROVE  ShownQueuesAreTheQueues
<1> DEFINE N == Numbers(host.pending)
           a == UsersIn(host.steer)
           b == UsersIn(host.follow)
           c == UsersIn(host.pending)
<1>1. /\ host.steer \in Seq(MessagesSent) /\ host.follow \in Seq(MessagesSent)
      /\ host.pending \in Seq(MessagesSent)
      /\ Numbers(host.steer) \cap N = {} /\ Numbers(host.follow) \cap N = {}
  BY DEF Shows, Queues
<1>2. OfUser(host.pending) \subseteq N
  BY <1>1, Numbered
<1> HIDE DEF N
<1>3. Without(a, N) = a /\ Without(b, N) = b
  BY <1>1, NotAmong
<1>4. Without(c \o a, N) = a /\ Without(c \o b, N) = b
  BY <1>1, <1>2, TakenLeft
<1>5. \/ host.shownSteer = c \o a /\ host.shownFollow = b
      \/ host.shownSteer = a /\ host.shownFollow = c \o b
      \/ host.shownSteer = a /\ host.shownFollow = b
  BY DEF Shows, Listed
<1> HIDE DEF a, b, c
<1>6. Without(host.shownSteer, N) = a /\ Without(host.shownFollow, N) = b
  BY <1>3, <1>4, <1>5
<1> QED
  BY <1>6 DEF ShownQueuesAreTheQueues, N, a, b

\* The user sees the messages that wait, in their order: what steer and followUp push, what a
\* start takes off and what clearQueue gives back agree with the queues of the agent.
THEOREM HostShowsItsQueues ==
  ASSUME TakeTurns
  PROVE  Spec => []ShownQueuesAreTheQueues
<1> DEFINE Both == IInv /\ Shows(host)
<1>1. Init => Both
  BY NewHostIsSound, NewHostShows
<1>2. Both /\ [Next]_vars => Both'
  BY StepKeeps, StepShows
<1>3. Both => ShownQueuesAreTheQueues
  BY ShownIsQueued
<1> QED
  BY <1>1, <1>2, <1>3, PTL DEF Spec

=============================================================================
