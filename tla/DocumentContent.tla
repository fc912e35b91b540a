-------------------------- MODULE DocumentContent --------------------------
(***************************************************************************)
(* The documents of Documents/ (CONTEXT.md, ADR.md and handoff.md in the   *)
(* source) and the managed block in them.                                  *)
(*                                                                         *)
(* A document is a set with at most one member: {} when the file is not    *)
(* there.  Its text is the number of the edit that wrote what stands       *)
(* outside the managed block, 0 for nothing; its block is the number of    *)
(* the bundle the managed block came from, 0 for no block; torn says that  *)
(* the markers of the block are incomplete or occur twice.                 *)
(***************************************************************************)
EXTENDS Naturals

CONSTANTS
  NumDocuments,   \* the documents of a bundle, in the order they are written
  MaxEdits,       \* edits made by others
  MaxCalls        \* bundles the session tries to commit

\* What stands in a document to begin with is the first edit.
ASSUME BoundsAssumption ==
  NumDocuments \in Nat \ {0} /\ MaxEdits \in Nat \ {0} /\ MaxCalls \in Nat

Documents == 1 .. NumDocuments
Bundles   == 1 .. MaxCalls
Files     == [text: 0 .. MaxEdits, block: 0 .. MaxCalls, torn: BOOLEAN]

\* The project has no Documents/ yet, or one document written by hand.
InitialDocuments ==
  {[d \in Documents |-> {}],
   [d \in Documents |-> IF d = 1 THEN {[text |-> 1, block |-> 0, torn |-> FALSE]} ELSE {}]}

\* renderManagedDocument: the block is put into the text, in the place of the
\* block that is there.
Merge(file, n) ==
  IF file = {} THEN {[text |-> 0, block |-> n, torn |-> FALSE]}
  ELSE {[f EXCEPT !.block = n] : f \in file}

=============================================================================
