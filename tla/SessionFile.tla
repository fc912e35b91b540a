---------------------------- MODULE SessionFile ----------------------------
(***************************************************************************)
(* A SessionManager and its file: a tree of entries that only grows, a     *)
(* leaf that moves in it, and a file of one line per entry, which a crash  *)
(* or a full disk may leave with half a line at its end.                   *)
(*                                                                         *)
(* The file is written first when the session has an answer of the model.  *)
(***************************************************************************)
EXTENDS SessionContext

CONSTANTS
  Roles,           \* the messages that are appended: "user", "assistant", "none" for metadata
  MaxEntries,      \* bounds of the model: entries,
  MaxCompactions,  \*   compactions,
  MaxLabels,       \*   changes of labels,
  MaxMoves,        \*   moves of the leaf to another branch,
  MaxForks,        \*   sessions made of a branch,
  MaxTroubles,     \*   writes that throw or in which the process dies,
  MaxEnds          \*   and ends of the process between two writes

VARIABLES
  session,   \* the SessionManager, or NoSession while no process runs
  file,      \* the session's file
  failed,    \* history: a write to this file has thrown
  acked,     \*   entries whose append returned, up to then, with the file written
  count      \*   what has happened how often

vars == <<session, file, failed, acked, count>>

Entry(id, parent, role) ==
  [id |-> id, parent |-> parent, msg |-> [role |-> role], kept |-> 0, covers |-> {},
   target |-> 0, set |-> FALSE]

Header  == Entry(0, 0, "header")
Garbage == Entry(0, 0, "garbage")       \* a line that does not parse

IsLabel(e)     == e.target # 0
IsAssistant(e) == e.msg.role = "assistant"
Ids(entries)   == {entries[i].id : i \in DOMAIN entries}

NoSession == [up |-> FALSE, entries |-> <<>>, leaf |-> 0, labels |-> {}, flushed |-> FALSE]
NewSession == [NoSession EXCEPT !.up = TRUE]

\* An entry, its parent and so on.  A parent stands before its children.
Ancestry(entries, id) ==
  FoldRight(LAMBDA e, ids : IF e.id \in ids THEN ids \cup {e.parent} ELSE ids, entries, {id})

\* From the root to an entry.
PathTo(entries, id) ==
  LET ids == Ancestry(entries, id)
  IN Selected(entries, {i \in DOMAIN entries : entries[i].id \in ids})

Branch(s) == PathTo(s.entries, s.leaf)

\* The labels after all changes in the order of the file: the last change of each target sets it.
LabelsOf(entries) ==
  {entries[i].target : i \in
     {j \in DOMAIN entries :
        IsLabel(entries[j]) /\ entries[j].set
          /\ \A k \in DOMAIN entries : k > j => entries[k].target # entries[j].target}}

\* _buildIndex: the leaf is the last entry of the file, wherever it was before.
Indexed(s, entries) ==
  [s EXCEPT !.entries = entries, !.labels = LabelsOf(entries),
            !.leaf = IF entries = <<>> THEN 0 ELSE Last(entries).id]

-----------------------------------------------------------------------------
(* The file *)

NoFile == [exists |-> FALSE, lines |-> <<>>, open |-> FALSE]   \* open: no newline at the end

\* Lines are appended.  The first makes one unreadable line with a line that is open.
Written(f, lines) ==
  IF lines = <<>> THEN [f EXCEPT !.exists = TRUE]
  ELSE [exists |-> TRUE, open |-> FALSE,
        lines  |-> IF f.open THEN Append(Front(f.lines), Garbage) \o Tail(lines)
                   ELSE f.lines \o lines]

\* Half a line, or a line but for its newline.
Torn(f, line) == {[Written(f, <<l>>) EXCEPT !.open = TRUE] : l \in {line, Garbage}}

Partly(f, lines) ==
  UNION {LET g == Written(f, SubSeq(lines, 1, k)) IN {g} \cup Torn(g, lines[k + 1]) :
           k \in 0..(Len(lines) - 1)}

Parsed(f) == Selected(f.lines, {i \in DOMAIN f.lines : f.lines[i] # Garbage})
IsSessionFile(f) == Parsed(f) # <<>> /\ Head(Parsed(f)) = Header

HasAssistant(entries) == \E i \in DOMAIN entries : IsAssistant(entries[i])

\* Mutant: the first write forgets the header.
ToWriteHeadless(s) ==
  IF s.flushed THEN <<Last(s.entries)>>
  ELSE IF HasAssistant(s.entries) THEN s.entries ELSE <<>>

\* _persist: nothing before the first answer, then everything, then entry by entry.
ToWrite(s) ==
  IF s.flushed THEN <<Last(s.entries)>>
  ELSE IF HasAssistant(s.entries) THEN <<Header>> \o s.entries ELSE <<>>

\* The first write creates the file and refuses one that is there (flag "wx").
CanCreate(s) == s.flushed \/ ~file.exists

-----------------------------------------------------------------------------

Init ==
  /\ session = NewSession
  /\ file = NoFile /\ failed = FALSE /\ acked = {}
  /\ count = [issued |-> 0, compactions |-> 0, labels |-> 0, moves |-> 0, forks |-> 0, troubles |-> 0, ends |-> 0]

NextId == count.issued + 1
Issued(n)      == [count EXCEPT !.issued = n]
Count(what, n) == [Issued(n) EXCEPT ![what] = @ + 1]

Appended(e) == [session EXCEPT !.entries = Append(@, e), !.leaf = e.id]

Relabelled(labels, e) ==
  IF ~IsLabel(e) THEN labels ELSE IF e.set THEN labels \cup {e.target} ELSE labels \ {e.target}

\* The entry is in memory and in the file.
AppendEntry(e, counted) ==
  LET s == Appended(e)
      lines == ToWrite(s)
  IN /\ lines # <<>> => CanCreate(session)
     /\ session' = [s EXCEPT !.flushed = @ \/ lines # <<>>,
                             !.labels = Relabelled(@, e)]
     /\ file' = IF lines = <<>> THEN file ELSE Written(file, lines)
     /\ acked' = IF failed \/ lines = <<>> THEN acked ELSE ToSet(s.entries)
     /\ count' = counted
     /\ UNCHANGED failed

\* The entry is in memory, its child-to-be included, and not in the file; the caller sees the error.
AppendEntryFails(e, counted) ==
  LET s == Appended(e)
      lines == ToWrite(s)
  IN /\ lines # <<>> /\ count.troubles < MaxTroubles
     /\ file' \in IF CanCreate(session) THEN Partly(file, lines) ELSE {file}
     /\ session' = s
     /\ failed' = TRUE
     /\ count' = [counted EXCEPT !.troubles = @ + 1]
     /\ UNCHANGED acked

\* The process dies while it writes.
DieAppending(e, counted) ==
  LET lines == ToWrite(Appended(e))
  IN /\ lines # <<>> /\ CanCreate(session) /\ count.troubles < MaxTroubles
     /\ file' \in Partly(file, lines)
     /\ session' = NoSession
     /\ count' = [counted EXCEPT !.troubles = @ + 1]
     /\ UNCHANGED <<failed, acked>>

Add(e, counted) ==
  /\ session.up /\ NextId <= MaxEntries
  /\ \/ AppendEntry(e, counted) \/ AppendEntryFails(e, counted) \/ DieAppending(e, counted)

AppendMessage(role) == Add(Entry(NextId, session.leaf, role), Issued(NextId))

AppendLabelChange(target, set) ==
  /\ count.labels < MaxLabels /\ target \in Ids(session.entries)
  /\ Add([Entry(NextId, session.leaf, "none") EXCEPT !.target = target, !.set = set], Count("labels", NextId))

AppendCompaction(prep) ==
  /\ count.compactions < MaxCompactions /\ prep \in Preparations(Branch(session))
  /\ Add([Entry(NextId, session.leaf, "summary") EXCEPT !.kept = prep.kept, !.covers = prep.covers],
         Count("compactions", NextId))

\* Moving the leaf is not written down.
MoveLeaf(id) ==
  /\ session.up /\ id \in Ids(session.entries) \cup {0} /\ id # session.leaf
  /\ count.moves < MaxMoves
  /\ session' = [session EXCEPT !.leaf = id]
  /\ count' = Count("moves", count.issued)
  /\ UNCHANGED <<file, failed, acked>>

BranchWithSummary(id) ==
  /\ id \in Ids(session.entries) \cup {0} /\ count.moves < MaxMoves
  /\ Add(Entry(NextId, id, "branchSummary"), Count("moves", NextId))

WithoutLabels(path) == Selected(path, {i \in DOMAIN path : ~IsLabel(path[i])})

\* Mutant: an entry keeps the label as its parent.
RechainedNot(path) == WithoutLabels(path)

\* The path without its labels, each entry a child of the one before it.
Rechained(path) ==
  LET kept == WithoutLabels(path)
  IN [i \in DOMAIN kept |-> [kept[i] EXCEPT !.parent = IF i = 1 THEN 0 ELSE kept[i-1].id]]

\* The entries of the path that have a label.
Labelled(path) == Selected(path, {i \in DOMAIN path : path[i].id \in session.labels})

\* Mutants: the labels are given ids that are in use; they are forgotten.
LabelEntriesWithOldIds(path) ==
  LET labelled == Labelled(path)
  IN [i \in DOMAIN labelled |->
        [Entry(i, IF i = 1 THEN Last(path).id ELSE i - 1, "none")
           EXCEPT !.target = labelled[i].id, !.set = TRUE]]

LabelEntriesForgotten(path) == <<>>

\* The labels of the path, written anew behind it.
LabelEntries(path) ==
  LET labelled == Labelled(path)
  IN [i \in DOMAIN labelled |->
        [Entry(count.issued + i, IF i = 1 THEN Last(path).id ELSE count.issued + i - 1, "none")
           EXCEPT !.target = labelled[i].id, !.set = TRUE]]

CreateBranchedSession(leaf) ==
  /\ session.up /\ leaf \in Ids(session.entries) /\ count.forks < MaxForks
  /\ LET path    == Rechained(PathTo(session.entries, leaf))
         entries == path \o LabelEntries(path)
         s       == Indexed(session, entries)
         counted == Count("forks", count.issued + Len(entries) - Len(path))
         lines   == <<Header>> \o entries
     IN \/ /\ file' = IF HasAssistant(entries) THEN Written(NoFile, lines) ELSE NoFile
           /\ session' = [s EXCEPT !.flushed = HasAssistant(entries)]
           /\ failed' = FALSE
           /\ acked' = IF HasAssistant(entries) THEN ToSet(entries) ELSE {}
           /\ count' = counted
        \/ /\ HasAssistant(entries)
           /\ count.troubles < MaxTroubles
           /\ file' \in Partly(NoFile, lines)
           /\ acked' = {}
           /\ \/ session' = s /\ failed' = TRUE
              \/ session' = NoSession /\ failed' = FALSE
           /\ count' = [counted EXCEPT !.troubles = @ + 1]

\* The process ends between two writes, orderly or not.
End ==
  /\ session.up /\ count.ends < MaxEnds
  /\ session' = NoSession
  /\ count' = Count("ends", count.issued)
  /\ UNCHANGED <<file, failed, acked>>

\* Mutant: the last line stays without its newline.
OpenAsIs ==
  /\ ~session.up /\ IsSessionFile(file)
  /\ session' = Indexed([NewSession EXCEPT !.flushed = TRUE], Tail(Parsed(file)))
  /\ UNCHANGED <<file, failed, acked, count>>

\* Malformed lines are skipped and the last line gets its newline.  A file that is no session
\* is left alone and cannot be opened.
Open ==
  /\ ~session.up
  /\ \/ /\ ~file.exists
        /\ session' = NewSession /\ file' = file
     \/ /\ file.exists /\ file.lines = <<>>
        /\ session' = [NewSession EXCEPT !.flushed = TRUE]
        /\ file' = Written(file, <<Header>>)
     \/ /\ IsSessionFile(file)
        /\ session' = Indexed([NewSession EXCEPT !.flushed = TRUE], Tail(Parsed(file)))
        /\ file' = [file EXCEPT !.open = FALSE]
  /\ UNCHANGED <<failed, acked, count>>

Next ==
  \/ \E role \in Roles : AppendMessage(role)
  \/ \E target \in Ids(session.entries), set \in BOOLEAN : AppendLabelChange(target, set)
  \/ \E prep \in Preparations(Branch(session)) : AppendCompaction(prep)
  \/ \E id \in Ids(session.entries) \cup {0} :
       MoveLeaf(id) \/ BranchWithSummary(id) \/ CreateBranchedSession(id)
  \/ End \/ Open

Spec == Init /\ [][Next]_vars

-----------------------------------------------------------------------------
(* Properties *)

IdsIssued == 1..count.issued

AnyEntry ==
  [id : IdsIssued \cup {0}, parent : IdsIssued \cup {0},
   msg : [role : Roles \cup {"none", "summary", "branchSummary", "header", "garbage"}],
   kept : IdsIssued \cup {0}, covers : SUBSET IdsIssued, target : IdsIssued \cup {0}, set : BOOLEAN]

\* Entries have the fields of SessionEntry and name only entries that there were, and the ids of
\* a session are all different: byId and the walk from leaf to root depend on it.
TypeOK ==
  /\ \A i \in DOMAIN session.entries : session.entries[i] \in AnyEntry
  /\ \A i \in DOMAIN file.lines : file.lines[i] \in AnyEntry
  /\ session.leaf \in Ids(session.entries) \cup {0}
  /\ \A i, j \in DOMAIN session.entries : session.entries[i].id = session.entries[j].id => i = j

\* What a reader of the file would see is what the process works with, after any sequence of
\* appends, branches, forks and restarts in the middle of a write, as long as no write threw;
\* and the labels kept in memory are those that a restart would find.
FileIsTheSession ==
  session.up /\ ~failed =>
    /\ IF session.flushed THEN Parsed(file) = <<Header>> \o session.entries /\ ~file.open
       ELSE ~HasAssistant(session.entries)
    /\ session.labels = LabelsOf(session.entries)

\* An entry whose append has returned is found by every later start, whatever is written,
\* fails or dies after it (appends only ever add lines, and the torn line gets its newline).
AcknowledgedSurvives == acked \subseteq ToSet(Parsed(file))

\* Every entry hangs on the tree: no restart leaves an entry whose parent was not written.
NoOrphans ==
  session.up /\ ~failed =>
    \A i \in DOMAIN session.entries :
      session.entries[i].parent \in {0} \cup Ids(SubSeq(session.entries, 1, i - 1))

Forked == session'.up /\ count'.forks # count.forks

\* The last entry of the branch that the fork was made of.
ForkedAt ==
  LET path == WithoutLabels(session'.entries)
  IN IF path = <<>> THEN 0 ELSE Last(path).id

\* A fork has the labels of its entries, and no others (test/session-manager/labels.test.ts).
ForkKeepsLabels ==
  [][Forked =>
       \A last \in {ForkedAt} :
         session'.labels = session.labels \cap Ids(WithoutLabels(PathTo(session.entries, last)))]_vars

\* A fork shows the model what the branch showed it: the summary and the messages "from
\* firstKeptEntryId onwards" (docs/compaction.md).
ForkKeepsContext ==
  [][Forked =>
       Messages(Branch(session')) = Messages(PathTo(session.entries, ForkedAt))]_vars

=============================================================================
