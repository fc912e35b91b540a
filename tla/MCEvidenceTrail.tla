--------------------------- MODULE MCEvidenceTrail ---------------------------
(***************************************************************************)
(* A code document and one of the product itself, for TLC.                 *)
(***************************************************************************)
EXTENDS EvidenceTrail

CONSTANTS code, product, d1, consent   \* model values

MCDocuments   == {code, product}
\* A snapshot lists both documents, or none.
MCManifests   == {{}, {code, product}}
MCEvidenceIds == {<<code, "snapshot">>, <<code, "search">>, <<product, "snapshot">>}
MCDecisionIds == {d1, consent}
MCAnswers     == {"agree", "continue_one", "converge", "other"}

=============================================================================
