-------------------------- MODULE AtomicDocuments --------------------------
(***************************************************************************)
(* What the writer of Documents/ promises: a commit changes the managed    *)
(* block of every document, or nothing at all, and only on documents that  *)
(* are still what the session captured.  DocumentsCommit is shown to       *)
(* implement it.                                                           *)
(***************************************************************************)
EXTENDS Naturals, DocumentContent

VARIABLES
  docs,     \* the documents as a reader would find them between two commits
  base,     \* the documents as the session captured them, if it did
  outcome   \* of the last commit; "incomplete" when it reports a failed roll-back,
            \* "throw" when it does not return

Init ==
  /\ docs \in InitialDocuments
  /\ base = {}
  /\ outcome = "none"

\* An editor gives one document a new text around the block, or removes it.
EditedAs(old, f) ==
  /\ f.text # 0
  /\ IF old = {} THEN f.block = 0 ELSE \A g \in old : f.text # g.text /\ f.block = g.block
Edit ==
  \E d \in Documents :
    /\ \/ \E f \in Files : EditedAs(docs[d], f) /\ docs' = [docs EXCEPT ![d] = {f}]
       \/ docs' = [docs EXCEPT ![d] = {}]
    /\ UNCHANGED <<base, outcome>>

\* The session captures the documents, or forgets what it captured.
Capture == base' = {docs} /\ UNCHANGED <<docs, outcome>>
Forget  == base' = {} /\ UNCHANGED <<docs, outcome>>

\* All documents at once; no editor came in between.
Commit(n) ==
  /\ docs \in base
  /\ docs' = [d \in Documents |-> Merge(docs[d], n)]
  /\ outcome' = "committed"
  /\ UNCHANGED base

\* Nothing is changed.
Refuse ==
  /\ base # {}
  /\ outcome' \in {"conflict", "failed"}
  /\ UNCHANGED <<docs, base>>

\* An error escapes after the documents are as they will be.
Throw ==
  /\ outcome' = "throw"
  /\ UNCHANGED <<docs, base>>

\* One document cannot be put back, and the caller is told so.
GiveUp(d, n) ==
  /\ outcome' = "incomplete"
  /\ \E left \in {{}, Merge(docs[d], n)} : docs' = [docs EXCEPT ![d] = left]
  /\ UNCHANGED base

\* The process dies: a document is as it was, gone or complete.
Crash(n) ==
  /\ DOMAIN docs' = Documents
  /\ \A d \in Documents : docs'[d] \in {docs[d], {}, Merge(docs[d], n)}
  /\ base' = {}
  /\ outcome' = "none"

Next ==
  \/ Edit \/ Capture \/ Forget \/ Refuse \/ Throw
  \/ \E n \in Bundles : Commit(n) \/ Crash(n) \/ (\E d \in Documents : GiveUp(d, n))

Spec == Init /\ [][Next]_<<docs, base, outcome>>

=============================================================================
