--------------------------- MODULE SessionContext ---------------------------
(***************************************************************************)
(* What the model is shown of a session: the messages of one path through  *)
(* the session's entries, the summarised ones replaced by the summary of   *)
(* the latest compaction, and where a compaction may cut.                  *)
(*                                                                         *)
(* A path is a sequence of entries.  An entry has an id, the message it    *)
(* stands for (role "none" for labels, settings and other metadata) and,   *)
(* if it is a compaction, the id of the first entry it keeps.  "covers"    *)
(* are the entries its summary was made of, which the text of the summary  *)
(* carries in the program.                                                 *)
(***************************************************************************)
EXTENDS Naturals, Sequences, FiniteSets, FiniteSetsExt, SequencesExt

IsCompaction(e) == e.msg.role = "summary"
IsVisible(e)    == e.msg.role # "none"

\* The members of a sequence at some of its positions, in their order.  It is a
\* function of the project's own because the provers know nothing of SelectSeq.
Selected(seq, positions) ==
  LET upTo[n \in 0..Len(seq)] ==
        IF n = 0 THEN <<>>
        ELSE IF n \in positions THEN Append(upTo[n - 1], seq[n]) ELSE upTo[n - 1]
  IN upTo[Len(seq)]

\* The position of the latest compaction of the path, 0 if there is none.
LatestCompaction(path) ==
  Max({0} \cup {i \in DOMAIN path : IsCompaction(path[i])})

\* The position of the entry with this id, 0 if it is not on the path.
PositionOf(path, id) ==
  Max({0} \cup {i \in DOMAIN path : path[i].id = id})

\* The entries shown: the latest compaction, what it keeps, and what came after it.
ContextEntries(path) ==
  LET c    == LatestCompaction(path)
      kept == IF c = 0 THEN 0 ELSE PositionOf(SubSeq(path, 1, c - 1), path[c].kept)
  IN IF c = 0 THEN path
     ELSE <<path[c]>>
          \o (IF kept = 0 THEN <<>> ELSE SubSeq(path, kept, c - 1))
          \o SubSeq(path, c + 1, Len(path))

Messages(path) ==
  LET entries == ContextEntries(path)
      shown   == Selected(entries, {i \in DOMAIN entries : IsVisible(entries[i])})
  IN [i \in DOMAIN shown |-> shown[i].msg]

-----------------------------------------------------------------------------
(* Compaction *)

\* Mutant: what the last compaction kept is taken for summarised.
BoundaryAfterCompaction(path) == LatestCompaction(path) + 1

\* Where the part of the path begins that no summary covers yet.
BoundaryStart(path) ==
  LET c == LatestCompaction(path)
  IN IF c = 0 THEN 1
     ELSE LET kept == PositionOf(path, path[c].kept)
          IN IF kept # 0 THEN kept ELSE c + 1

\* A result is never separated from its call.
IsCutPoint(e) == IsVisible(e) /\ ~IsCompaction(e) /\ e.msg.role # "result"

CutPoints(path) == {i \in BoundaryStart(path)..Len(path) : IsCutPoint(path[i])}

\* Metadata just before the cut stays with what is kept.
WithMetadata(path, cut) ==
  Min({i \in BoundaryStart(path)..cut :
         \A j \in i..(cut - 1) : ~IsVisible(path[j])})

\* What a summary made at this cut is made of, the previous summary included.
CoveredUpTo(path, first) ==
  LET c == LatestCompaction(path)
      new == {i \in BoundaryStart(path)..(first - 1) :
                IsVisible(path[i]) /\ ~IsCompaction(path[i])}
  IN {path[i].id : i \in new} \cup (IF c = 0 THEN {} ELSE path[c].covers)

\* The compactions that may be prepared; how far the budget of tokens reaches is left open.
Preparations(path) ==
  IF path = <<>> \/ IsCompaction(Last(path)) THEN {}
  ELSE {p \in {[kept   |-> path[WithMetadata(path, cut)].id,
                covers |-> CoveredUpTo(path, WithMetadata(path, cut))] : cut \in CutPoints(path)} :
          p.covers # CoveredUpTo(path, BoundaryStart(path))}

-----------------------------------------------------------------------------
\* Nothing of the path is forgotten: what is not shown is in the summary that is.
NothingForgotten(path) ==
  LET shown == ToSet(ContextEntries(path))
      c     == LatestCompaction(path)
  IN \A i \in DOMAIN path :
       IsVisible(path[i]) /\ ~IsCompaction(path[i]) /\ path[i] \notin shown
         => c # 0 /\ path[i].id \in path[c].covers

\* Every result stands behind its call, with nothing but results of that call between.
ResultsFollowTheirCall(msgs) ==
  \A i \in DOMAIN msgs : msgs[i].role = "result" =>
    /\ i > 1
    /\ IF msgs[i].n = 1
       THEN msgs[i-1].role = "assistant" /\ msgs[i-1].calls > 0
       ELSE msgs[i-1].role = "result" /\ msgs[i-1].n = msgs[i].n - 1

=============================================================================
