----------------------- MODULE DocumentsCommit_proofs -----------------------
(***************************************************************************)
(* What the writer of Documents/ guarantees for every number of documents, *)
(* edits, calls, faults and crashes.                                       *)
(*                                                                         *)
(* Shape says where a call stands: what is staged, moved away or put in    *)
(* place at each step, and that a .bak file outlasts the roll-back only    *)
(* when its failure is reported.  It holds whatever others do.             *)
(*                                                                         *)
(* Careful holds when nobody edits during the exchange.  Its parts: the    *)
(* texts are those of edits made so far; what is staged comes from the     *)
(* captured document, or else the exchange will not begin or not reach the *)
(* document; during the exchange the captured documents are all still      *)
(* there, in place or as .bak files; a document that the roll-back has not *)
(* come to is as the exchange left it; and the text of every edit is kept. *)
(***************************************************************************)
EXTENDS DocumentsCommit, FiniteSetTheorems, TLAPS

-----------------------------------------------------------------------------
(* The invariant.                                                          *)

\* TypeOK, with the one base spelled out.
Typed ==
  /\ files \in [Documents -> OptionalFiles] /\ staged \in [Documents -> OptionalFiles]
  /\ backup \in [Documents -> OptionalFiles] /\ litter \in [Documents -> SUBSET Files]
  /\ base = {} \/ \E b \in [Documents -> OptionalFiles] : base = {b}
  /\ pc \in {"idle", "stage", "recheck", "backup", "install", "drop", "remove", "restore",
             "clean", "tidy"}
  /\ i \in Documents /\ existed \subseteq Documents /\ installed \subseteq Documents
  /\ outcome \in {"none", "committed", "conflict", "failed", "incomplete", "throw"}
  /\ written \in [Documents -> 0 .. MaxEdits]
  /\ calls \in 0 .. MaxCalls /\ edits \in 0 .. MaxEdits
  /\ faults \in 0 .. MaxFaults /\ crashes \in 0 .. MaxCrashes

Shape ==
  /\ pc \in {"idle", "stage", "recheck"} => backup = Nothing /\ installed = {}
  /\ pc = "idle" => staged = Nothing /\ existed = {}
  /\ pc = "stage" => \A d \in existed : d < i
  /\ pc = "recheck" => i = 1
  /\ pc # "idle" => base # {} /\ calls \in Bundles
  /\ pc \in {"remove", "restore"} =>
       /\ outcome \in {"failed", "incomplete"}
       /\ \A d \in Documents : d > i => backup[d] = {} \/ outcome = "incomplete"
  /\ pc = "clean" => backup = Nothing \/ outcome \in {"incomplete", "committed"}
  /\ pc = "tidy" => outcome = "committed"

\* No text is newer than the last edit.
Dated ==
  \A d \in Documents :
    /\ \A f \in files[d] \cup staged[d] \cup backup[d] : f.text <= edits
    /\ \A b \in base : \A f \in b[d] : f.text <= edits

\* What is staged for d was made of the captured document; or that document is
\* gone for good, and the second comparison finds out; or a document is staged
\* as one that was there and was not captured, and the backup finds out.
StagedFrom(b, d) ==
  \/ staged[d] = Merge(b[d], calls) /\ (d \in existed <=> b[d] # {})
  \/ b[d] # {} /\ files[d] # b[d]
  \/ b[d] = {} /\ d \in existed

StagedRight ==
  pc \in {"stage", "recheck"} =>
    \A b \in base, d \in Documents : (pc # "stage" \/ d < i) => StagedFrom(b, d)

\* The exchange has come to document i.
Exchanged ==
  pc \in {"backup", "install", "drop"} =>
    \A b \in base, d \in Documents :
      /\ Original(d) = b[d]
      /\ d \in installed <=> d < i \/ (d = i /\ pc = "drop")
      /\ d > i \/ (d = i /\ pc = "backup") => backup[d] = {} /\ StagedFrom(b, d)
      /\ d = i /\ pc = "backup" => d \in existed
      /\ d = i /\ pc = "install" => files[d] = {} /\ staged[d] = Merge(b[d], calls)

\* A document in the exchange, when the roll-back has not come to it.
Held(d) ==
  /\ d \in installed => files[d] = Merge(backup[d], calls)
  /\ d \notin installed /\ backup[d] # {} => files[d] = {}

NotRolledBack(d) ==
  pc \in {"remove", "restore"} => d < i \/ (d = i /\ pc = "remove")

HeldBack ==
  /\ Exchanging => \A d \in Documents : NotRolledBack(d) => Held(d)
  /\ pc = "restore" /\ (i \in installed \/ backup[i] # {}) => files[i] = {}

\* The text last written is there, and when the .bak files are about to go it
\* is not only there.
Kept ==
  /\ UnmanagedContentKept
  /\ pc = "tidy" \/ (pc = "clean" /\ outcome = "committed") =>
       \A d \in Documents :
         written[d] # 0 => \E f \in files[d] \cup litter[d] : f.text = written[d]

Careful == Dated /\ StagedRight /\ Exchanged /\ HeldBack /\ Kept

-----------------------------------------------------------------------------
(* Documents and the merging of a block.                                   *)

LEMMA OptionalFile ==
  ASSUME NEW file
  PROVE  file \in OptionalFiles <=> file = {} \/ \E f \in Files : file = {f}
BY DEF OptionalFiles

LEMMA OptionalFilesAreSets == OptionalFiles \subseteq SUBSET Files
BY DEF OptionalFiles

\* renderManagedDocument gives a document its block and leaves the text.
LEMMA Merged ==
  ASSUME NEW file \in OptionalFiles, NEW n \in 0 .. MaxCalls
  PROVE  /\ Merge(file, n) \in OptionalFiles /\ Merge(file, n) # {}
         /\ file = {} => \A f \in Merge(file, n) : f.text = 0
         /\ file # {} => {f.text : f \in Merge(file, n)} = {f.text : f \in file}
<1>1. CASE file = {}
  <2> DEFINE g == [text |-> 0, block |-> n, torn |-> FALSE]
  <2>1. Merge(file, n) = {g}
    BY <1>1 DEF Merge
  <2>2. g \in Files /\ g.text = 0
    BY BoundsAssumption DEF Files
  <2> HIDE DEF g
  <2> QED
    BY <1>1, <2>1, <2>2 DEF OptionalFiles
<1>2. CASE file # {}
  <2>1. PICK f \in Files : file = {f}
    BY <1>2, OptionalFile
  <2>2. Merge(file, n) = {[f EXCEPT !.block = n]}
    BY <2>1 DEF Merge
  <2>3. [f EXCEPT !.block = n] \in Files /\ [f EXCEPT !.block = n].text = f.text
    BY DEF Files
  <2> DEFINE g == [f EXCEPT !.block = n]
  <2> HIDE DEF g
  <2>4. {x.text : x \in {g}} = {x.text : x \in {f}}
    BY <2>3 DEF g
  <2> QED
    BY <1>2, <2>1, <2>2, <2>3, <2>4 DEF OptionalFiles, g
<1> QED
  BY <1>1, <1>2

\* Before the first call nothing is staged, moved away or in place.
LEMMA InitTyped == Init => Typed /\ Shape
<1> SUFFICES ASSUME Init PROVE Typed /\ Shape
  OBVIOUS
<1>1. {} \in OptionalFiles /\ {[text |-> 1, block |-> 0, torn |-> FALSE]} \in OptionalFiles
  <2>1. [text |-> 1, block |-> 0, torn |-> FALSE] \in Files
    BY BoundsAssumption DEF Files
  <2> QED
    BY <2>1, OptionalFile
<1>2. files \in [Documents -> OptionalFiles]
  BY <1>1 DEF Init, InitialDocuments
<1>3. Nothing \in [Documents -> OptionalFiles] /\ Nothing \in [Documents -> SUBSET Files]
  BY <1>1 DEF Nothing
<1>4. 1 \in Documents /\ written \in [Documents -> 0 .. MaxEdits]
  BY BoundsAssumption DEF Init, Documents
<1>5. Typed
  BY <1>2, <1>3, <1>4, BoundsAssumption, EnvironmentAssumption DEF Init, Typed
<1> QED
  BY <1>5 DEF Init, Shape

\* Whatever ends a call leaves nothing of it but .bak files.
LEMMA Returned ==
  ASSUME Typed, NEW result \in {"none", "committed", "conflict", "failed", "incomplete", "throw"},
         NEW left \in [Documents -> OptionalFiles], Return(result, left)
  PROVE  /\ pc' = "idle" /\ i' = 1 /\ i' \in Documents /\ outcome' = result
         /\ staged' = Nothing /\ backup' = Nothing /\ existed' = {} /\ installed' = {}
         /\ Nothing \in [Documents -> OptionalFiles]
         /\ litter' \in [Documents -> SUBSET Files]
         /\ \A d \in Documents : litter'[d] = litter[d] \cup left[d]
BY BoundsAssumption, OptionalFilesAreSets, OptionalFile
DEF Return, Goto, Nothing, Typed, Documents

\* After the end of a call nothing is left of it to be misshapen.
LEMMA ReturnedTyped ==
  ASSUME Typed, NEW result \in {"none", "committed", "conflict", "failed", "incomplete", "throw"},
         NEW left \in [Documents -> OptionalFiles], Return(result, left),
         files' = files, written' = written, base' \in {base, {}}, calls' \in 0 .. MaxCalls,
         edits' = edits, faults' \in 0 .. MaxFaults, crashes' \in 0 .. MaxCrashes
  PROVE  Typed' /\ Shape'
<1>1. /\ pc' = "idle" /\ i' \in Documents /\ outcome' = result
      /\ staged' = Nothing /\ backup' = Nothing /\ existed' = {} /\ installed' = {}
      /\ Nothing \in [Documents -> OptionalFiles] /\ litter' \in [Documents -> SUBSET Files]
  BY Returned
<1>2. Typed'
  BY <1>1 DEF Typed
<1>3. Shape'
  BY <1>1 DEF Shape, Nothing
<1> QED
  BY <1>2, <1>3

\* The exception handler begins the roll-back with the last document.
LEMMA FailedShape ==
  ASSUME Shape, Fail, pc # "idle", base' = base, calls' = calls
  PROVE  Shape' /\ pc' = "remove" /\ i' = NumDocuments /\ i' \in Documents /\ outcome' = "failed"
BY BoundsAssumption DEF Shape, Fail, Goto, Documents

\* What an editor makes of a document.
LEMMA Edited ==
  ASSUME Typed, NEW d \in Documents, Edit(d)
  PROVE  /\ edits' = edits + 1 /\ edits' \in 0 .. MaxEdits /\ edits' # 0
         /\ \/ \E f \in Files :
                 /\ files' = [files EXCEPT ![d] = {f}] /\ f.text = edits'
                 /\ IF files[d] = {} THEN f.block = 0 ELSE \A g \in files[d] : f.block = g.block
                 /\ written' = [written EXCEPT ![d] = edits']
            \/ /\ files' = [files EXCEPT ![d] = {}]
               /\ written' = [written EXCEPT ![d] = 0]
<1>1. edits' = edits + 1 /\ edits' \in 0 .. MaxEdits /\ edits' # 0
  BY BoundsAssumption DEF Edit, Typed
<1>2. CASE \E torn \in BOOLEAN :
             /\ files' = [files EXCEPT ![d] =
                  {[text |-> edits',
                    block |-> IF @ = {} THEN 0 ELSE (CHOOSE f \in @ : TRUE).block,
                    torn |-> torn]}]
             /\ written' = [written EXCEPT ![d] = edits']
  <2> DEFINE block == IF files[d] = {} THEN 0 ELSE (CHOOSE f \in files[d] : TRUE).block
  <2>1. PICK torn \in BOOLEAN :
          /\ files' = [files EXCEPT ![d] = {[text |-> edits', block |-> block, torn |-> torn]}]
          /\ written' = [written EXCEPT ![d] = edits']
    BY <1>2 DEF Typed
  <2>2. files[d] = {} \/ \E g \in Files : files[d] = {g} /\ block = g.block
    BY OptionalFile DEF Typed
  <2>3. block \in 0 .. MaxCalls
    <3>1. CASE files[d] = {}
      BY <3>1, BoundsAssumption
    <3>2. CASE files[d] # {}
      BY <2>2, <3>2 DEF Files
    <3> QED
      BY <3>1, <3>2
  <2>4. IF files[d] = {} THEN block = 0 ELSE \A g \in files[d] : block = g.block
    BY <2>2
  <2> HIDE DEF block
  <2> DEFINE f == [text |-> edits', block |-> block, torn |-> torn]
  <2>5. f \in Files /\ f.text = edits' /\ f.block = block
    BY <1>1, <2>3 DEF Files
  <2> HIDE DEF f
  <2>6. files' = [files EXCEPT ![d] = {f}]
    BY <2>1 DEF f
  <2>7. IF files[d] = {} THEN f.block = 0 ELSE \A g \in files[d] : f.block = g.block
    BY <2>4, <2>5
  <2> QED
    BY <1>1, <2>1, <2>5, <2>6, <2>7
<1>3. CASE files' = [files EXCEPT ![d] = {}] /\ written' = [written EXCEPT ![d] = 0]
  BY <1>1, <1>3
<1> QED
  BY <1>2, <1>3 DEF Edit

\* Every step keeps the types and the shape of a call, whoever edits.
LEMMA NextTyped ==
  ASSUME Typed, Shape, [Next]_vars
  PROVE  Typed' /\ Shape'
<1> USE DEF Goto, call
<1>0. /\ 1 \in Documents /\ NumDocuments \in Documents /\ {} \in OptionalFiles
      /\ Nothing \in [Documents -> OptionalFiles] /\ \A d \in Documents : Nothing[d] = {}
  BY BoundsAssumption DEF Documents, OptionalFiles, Nothing
<1>1. ASSUME NEW d \in Documents, Edit(d)
      PROVE  Typed' /\ Shape'
  <2>1. files' \in [Documents -> OptionalFiles] /\ written' \in [Documents -> 0 .. MaxEdits]
    BY <1>0, <1>1, Edited, OptionalFile, BoundsAssumption DEF Typed
  <2>2. edits' \in 0 .. MaxEdits
    BY <1>1, Edited
  <2> QED
    BY <1>1, <2>1, <2>2 DEF Edit, Typed, Shape, Nothing
<1>2. CASE CaptureBase \/ ForgetBase
  BY <1>2 DEF CaptureBase, ForgetBase, Typed, Shape, Nothing
<1>3. CASE Begin
  <2>1. calls' \in Bundles /\ calls' \in 0 .. MaxCalls
    BY <1>3, BoundsAssumption DEF Begin, Typed, Bundles
  <2>2. CASE files \in base
    BY <1>0, <1>3, <2>1, <2>2 DEF Begin, Typed, Shape, Nothing
  <2>3. CASE files \notin base
    BY <1>0, <1>3, <2>1, <2>3, Returned DEF Begin, Typed, Shape, Nothing
  <2> QED
    BY <2>2, <2>3
<1>4. CASE Stage
  <2>1. Merge(files[i], calls) \in OptionalFiles
    BY Merged DEF Typed
  <2>2. CASE outcome' = outcome /\ faults' = faults /\ staged' = [staged EXCEPT ![i] = Merge(files[i], calls)]
           /\ existed' = (IF files[i] = {} THEN existed ELSE existed \cup {i})
           /\ (IF i = NumDocuments THEN pc' = "recheck" /\ i' = 1 ELSE pc' = "stage" /\ i' = i + 1)
    <3>1. i' \in Documents
      BY <1>0, <2>2, BoundsAssumption DEF Typed, Documents
    <3>2. pc' = "stage" => \A d \in existed' : d < i'
      BY <1>4, <2>2, BoundsAssumption DEF Stage, Shape, Typed, Documents
    <3> QED
      BY <1>4, <2>1, <2>2, <3>1, <3>2 DEF Stage, Typed, Shape, Nothing
  <2>3. CASE (Fault \/ UNCHANGED faults) /\ Fail /\ UNCHANGED <<staged, existed>>
    BY <1>0, <1>4, <2>3, EnvironmentAssumption DEF Stage, Typed, Shape, Fail, Fault, Nothing
  <2> QED
    BY <1>4, <2>2, <2>3 DEF Stage
<1>5. CASE Recheck
  BY <1>0, <1>5 DEF Recheck, FirstStep, Typed, Shape, Nothing
<1>6. CASE BackUp
  <2>1. CASE /\ files[i] # {} /\ backup' = [backup EXCEPT ![i] = files[i]]
             /\ files' = [files EXCEPT ![i] = {}] /\ Goto("install", i)
             /\ UNCHANGED <<outcome, faults>>
    BY <1>0, <1>6, <2>1 DEF BackUp, Typed, Shape
  <2>2. CASE (Fault \/ UNCHANGED faults) /\ Fail /\ UNCHANGED <<files, backup>>
    BY <1>6, <2>2, FailedShape, EnvironmentAssumption DEF BackUp, Fault, Typed
  <2> QED
    BY <1>6, <2>1, <2>2 DEF BackUp
<1>7. CASE Install
  <2>1. CASE /\ files[i] = {} /\ files' = [files EXCEPT ![i] = staged[i]]
             /\ installed' = installed \cup {i} /\ Goto("drop", i)
             /\ UNCHANGED <<outcome, faults>>
    BY <1>0, <1>7, <2>1 DEF Install, Typed, Shape
  <2>2. CASE (Fault \/ UNCHANGED faults) /\ Fail /\ UNCHANGED <<files, installed>>
    BY <1>7, <2>2, FailedShape, EnvironmentAssumption DEF Install, Fault, Typed
  <2> QED
    BY <1>7, <2>1, <2>2 DEF Install
<1>8. CASE Drop
  <2>1. CASE /\ staged' = [staged EXCEPT ![i] = {}] /\ UNCHANGED faults
             /\ IF i = NumDocuments THEN Goto("clean", 1) /\ outcome' = "committed"
                ELSE Goto(FirstStep(i + 1), i + 1) /\ UNCHANGED outcome
    <3>1. i' \in Documents
      BY <1>0, <2>1, BoundsAssumption DEF Typed, Documents
    <3>2. staged' \in [Documents -> OptionalFiles]
      BY <1>0, <2>1 DEF Typed
    <3>3. \/ pc' = "clean" /\ outcome' = "committed"
          \/ pc' \in {"backup", "install"} /\ outcome' = outcome
      BY <2>1 DEF FirstStep
    <3>4. Typed'
      BY <1>8, <2>1, <3>1, <3>2, <3>3 DEF Drop, Typed
    <3>5. Shape'
      BY <1>8, <3>3 DEF Drop, Shape
    <3> QED
      BY <3>4, <3>5
  <2>2. CASE Fault /\ Fail /\ UNCHANGED staged
    BY <1>8, <2>2, FailedShape, EnvironmentAssumption DEF Drop, Fault, Typed
  <2> QED
    BY <1>8, <2>1, <2>2 DEF Drop
<1>9. CASE Remove
  <2>1. CASE /\ files' = (IF i \in installed THEN [files EXCEPT ![i] = {}] ELSE files)
             /\ Goto("restore", i) /\ UNCHANGED <<outcome, faults>>
    BY <1>0, <1>9, <2>1 DEF Remove, Typed, Shape
  <2>2. CASE Fault /\ NextRollback /\ outcome' = "incomplete" /\ UNCHANGED files
    <3>1. i' \in Documents /\ pc' \in {"clean", "remove"}
      BY <1>0, <2>2, BoundsAssumption DEF NextRollback, Typed, Documents
    <3> QED
      BY <1>9, <2>2, <3>1, EnvironmentAssumption DEF Remove, Fault, Typed, Shape
  <2> QED
    BY <1>9, <2>1, <2>2 DEF Remove
<1>10. CASE Restore
  <2>1. /\ i' \in Documents
        /\ (pc' = "clean" /\ i = 1) \/ (pc' = "remove" /\ i' = i - 1)
    <3>1. i # 1 => i - 1 \in Documents
      BY BoundsAssumption DEF Typed, Documents
    <3> QED
      BY <1>0, <1>10, <3>1 DEF Restore, NextRollback
  <2>2. CASE /\ files' = (IF backup[i] # {} THEN [files EXCEPT ![i] = backup[i]] ELSE files)
             /\ backup' = [backup EXCEPT ![i] = {}] /\ UNCHANGED <<outcome, faults>>
    <3>1. Typed'
      BY <1>0, <1>10, <2>1, <2>2 DEF Restore, Typed
    <3>2. \A d \in Documents : d >= i => backup'[d] = {} \/ outcome' = "incomplete"
      BY <1>10, <2>2 DEF Restore, Typed, Shape, Documents
    <3>3. pc' = "remove" => \A d \in Documents : d > i' => backup'[d] = {} \/ outcome' = "incomplete"
      BY <2>1, <3>2 DEF Typed, Documents
    <3>4. pc' = "clean" => backup' = Nothing \/ outcome' = "incomplete"
      <4>1. CASE i = 1 /\ outcome' # "incomplete"
        <5>1. \A d \in Documents : backup'[d] = {}
          BY <3>2, <4>1 DEF Documents
        <5> QED
          BY <3>1, <5>1 DEF Typed, Nothing
      <4> QED
        BY <2>1, <4>1
    <3>5. Shape'
      BY <1>10, <2>1, <3>3, <3>4 DEF Restore, Shape
    <3> QED
      BY <3>1, <3>5
  <2>3. CASE Fault /\ outcome' = "incomplete" /\ UNCHANGED <<files, backup>>
    BY <1>10, <2>1, <2>3, EnvironmentAssumption DEF Restore, Fault, Typed, Shape
  <2> QED
    BY <1>10, <2>2, <2>3 DEF Restore
<1>11. CASE Clean
  <2>1. CASE outcome = "committed" /\ Goto("tidy", 1) /\ staged' = Nothing
             /\ UNCHANGED <<existed, backup, installed, outcome, litter, faults>>
    BY <1>0, <1>11, <2>1 DEF Clean, Typed, Shape
  <2>2. CASE Return(outcome, backup) /\ UNCHANGED faults
    BY <1>11, <2>2, ReturnedTyped DEF Clean, Typed
  <2>3. CASE Fault /\ Return("throw", backup)
    BY <1>11, <2>3, ReturnedTyped, EnvironmentAssumption DEF Clean, Fault, Typed
  <2> QED
    BY <1>11, <2>1, <2>2, <2>3 DEF Clean
<1>12. CASE Tidy
  <2>1. CASE Return("committed", Nothing) /\ base' = {} /\ UNCHANGED faults
    BY <1>0, <1>12, <2>1, ReturnedTyped DEF Tidy, Typed
  <2>2. CASE /\ Fault /\ UNCHANGED base
             /\ \E first \in 1 .. NumDocuments + 1 :
                  Return("throw", [d \in Documents |-> IF d >= first THEN backup[d] ELSE {}])
    <3>1. PICK first \in 1 .. NumDocuments + 1 :
            Return("throw", [d \in Documents |-> IF d >= first THEN backup[d] ELSE {}])
      BY <2>2
    <3> DEFINE left == [d \in Documents |-> IF d >= first THEN backup[d] ELSE {}]
    <3>2. left \in [Documents -> OptionalFiles]
      BY <1>0 DEF Typed
    <3> HIDE DEF left
    <3>3. Return("throw", left)
      BY <3>1 DEF left
    <3> QED
      BY <1>12, <2>2, <3>2, <3>3, ReturnedTyped, EnvironmentAssumption DEF Tidy, Fault, Typed
  <2> QED
    BY <1>12, <2>1, <2>2 DEF Tidy
<1>13. CASE Crash
  <2>1. crashes' \in 0 .. MaxCrashes
    BY <1>13, EnvironmentAssumption DEF Crash, Typed
  <2> QED
    BY <1>13, <2>1, ReturnedTyped DEF Crash, Typed
<1>14. CASE UNCHANGED vars
  BY <1>14 DEF vars, Typed, Shape
<1> QED
  BY <1>1, <1>2, <1>3, <1>4, <1>5, <1>6, <1>7, <1>8, <1>9, <1>10, <1>11, <1>12, <1>13, <1>14
  DEF Next

\* A call has its types and its shape whatever others do.
THEOREM CallTyped == Spec => [](Typed /\ Shape)
<1>1. Init => Typed /\ Shape
  BY InitTyped
<1>2. Typed /\ Shape /\ [Next]_vars => Typed' /\ Shape'
  BY NextTyped
<1> QED
  BY <1>1, <1>2, PTL DEF Spec

\* The variables keep their types, and the session one base at most.
THEOREM TypeCorrect == Spec => []TypeOK
<1>1. Typed => TypeOK
  <2> SUFFICES ASSUME Typed PROVE TypeOK
    OBVIOUS
  <2>1. Cardinality(base) <= 1
    <3>1. CASE base = {}
      <4>1. Cardinality(base) = 0
        BY <3>1, FS_EmptySet
      <4> QED
        BY <4>1
    <3>2. CASE \E b : base = {b}
      <4>1. Cardinality(base) = 1
        BY <3>2, FS_Singleton
      <4> QED
        BY <4>1
    <3> QED
      BY <3>1, <3>2 DEF Typed
  <2> QED
    BY <2>1 DEF Typed, TypeOK
<1> QED
  BY <1>1, CallTyped, PTL

\* The finally block and the removal of the .bak files leave one behind only
\* when a roll-back fails, an error escapes or the process dies.
THEOREM BackupsOnlyByTrouble == Spec => BackupsLeftOnlyByTrouble
<1>1. ASSUME Typed, Shape, [Next]_vars
      PROVE  [litter' # litter =>
                outcome' \in {"throw", "incomplete"} \/ crashes' > crashes]_vars
  <2> SUFFICES ASSUME Next, litter' # litter
               PROVE  outcome' \in {"throw", "incomplete"} \/ crashes' > crashes
    BY <1>1 DEF vars
  <2>1. ASSUME NEW result, Return(result, Nothing)
        PROVE  FALSE
    <3>1. litter' = [d \in Documents |-> litter[d]]
      BY <2>1 DEF Return, Nothing
    <3> QED
      BY <1>1, <3>1 DEF Typed
  <2>2. CASE Clean
    <3>1. CASE Return(outcome, backup) /\ outcome # "committed"
      BY <1>1, <2>1, <2>2, <3>1 DEF Clean, Shape, Return
    <3>2. CASE Return("throw", backup)
      BY <3>2 DEF Return
    <3> QED
      BY <2>2, <3>1, <3>2 DEF Clean
  <2>3. CASE Tidy
    BY <2>1, <2>3 DEF Tidy, Return
  <2>4. CASE Crash
    BY <1>1, <2>4 DEF Crash, Typed
  <2>5. CASE Begin
    BY <2>1, <2>5 DEF Begin
  <2> QED
    BY <2>2, <2>3, <2>4, <2>5
    DEF Next, Edit, CaptureBase, ForgetBase, Stage, Recheck, BackUp, Install, Drop, Remove, Restore
<1> QED
  BY <1>1, CallTyped, PTL DEF Spec, BackupsLeftOnlyByTrouble

-----------------------------------------------------------------------------
(* When nobody edits during the exchange.                                  *)

\* A captured document that nobody touched is staged as the one to come.
LEMMA StagedUntouched ==
  ASSUME NEW b, NEW d, StagedFrom(b, d), files[d] = b[d]
  PROVE  /\ d \in existed /\ b[d] # {} => staged[d] = Merge(b[d], calls)
         /\ d \notin existed => b[d] = {} /\ staged[d] = Merge(b[d], calls)
BY DEF StagedFrom

\* Texts are never newer than the last edit.
LEMMA DatedStep ==
  ASSUME Typed, Shape, Dated, [Next]_vars
  PROVE  Dated'
<1>0. /\ edits \in Nat
      /\ \A d \in Documents : /\ files[d] \in OptionalFiles
                              /\ \A f \in files[d] \cup staged[d] \cup backup[d] : f.text \in Nat
      /\ \A b \in base : b \in [Documents -> OptionalFiles]
      /\ \A b \in base, d \in Documents : \A f \in b[d] : f.text \in Nat
  BY OptionalFile, BoundsAssumption DEF Typed, Files
<1>1. ASSUME NEW e \in Documents, Edit(e)
      PROVE  Dated'
  <2>1. edits' = edits + 1 /\ \A d \in Documents : \A f \in files'[d] : f.text = edits' \/ f \in files[d]
    BY <1>1, Edited DEF Typed
  <2>2. UNCHANGED <<base, staged, backup>>
    BY <1>1 DEF Edit, call
  <2> QED
    BY <1>0, <2>1, <2>2 DEF Dated
<1>2. CASE CaptureBase
  BY <1>2 DEF CaptureBase, Dated, call
<1>3. CASE Stage
  <2>1. \A d \in Documents : \A f \in staged'[d] : f \in staged[d] \/ f \in Merge(files[i], calls)
    BY <1>3 DEF Stage, Typed
  <2>2. \A f \in Merge(files[i], calls) : f.text = 0 \/ \E g \in files[i] : g.text = f.text
    <3>1. /\ files[i] = {} => \A f \in Merge(files[i], calls) : f.text = 0
          /\ files[i] # {} => {f.text : f \in Merge(files[i], calls)} = {f.text : f \in files[i]}
      BY Merged DEF Typed
    <3>2. \A f \in Merge(files[i], calls) : f.text \in {g.text : g \in Merge(files[i], calls)}
      OBVIOUS
    <3> QED
      BY <3>1, <3>2
  <2>3. \A f \in Merge(files[i], calls) : f.text <= edits
    BY <1>0, <2>2 DEF Dated, Typed
  <2> QED
    BY <1>3, <2>1, <2>3 DEF Stage, Dated
<1>4. ASSUME UNCHANGED edits, base' \in {base, {}},
             \A d \in Documents : files'[d] \cup staged'[d] \cup backup'[d]
                                    \subseteq files[d] \cup staged[d] \cup backup[d]
      PROVE  Dated'
  BY <1>4 DEF Dated
<1>5. CASE ForgetBase \/ Recheck \/ UNCHANGED vars
  BY <1>4, <1>5 DEF ForgetBase, Recheck, vars, call
<1>6. CASE BackUp \/ Install \/ Drop \/ Remove \/ Restore
  BY <1>4, <1>6 DEF BackUp, Install, Drop, Remove, Restore, Typed
<1>7. CASE Begin \/ Clean \/ Tidy \/ Crash
  <2>1. UNCHANGED <<files, edits>> /\ base' \in {base, {}}
    BY <1>7 DEF Begin, Clean, Tidy, Crash
  <2>2. staged' \in {staged, Nothing} /\ backup' \in {backup, Nothing}
    BY <1>7 DEF Begin, Clean, Tidy, Crash, Return
  <2> QED
    BY <1>4, <2>1, <2>2 DEF Nothing
<1> QED
  BY <1>1, <1>2, <1>3, <1>5, <1>6, <1>7 DEF Next

\* What is staged stays what it was staged for: an edit has a text of its own.
LEMMA StagedRightStep ==
  ASSUME Typed, Shape, Dated, StagedRight, [Next]_vars
  PROVE  StagedRight'
<1>1. ASSUME NEW e \in Documents, Edit(e)
      PROVE  StagedRight'
  <2> SUFFICES ASSUME NEW b \in base, NEW d \in Documents, pc \in {"stage", "recheck"},
                      pc # "stage" \/ d < i
               PROVE  StagedFrom(b, d)'
    BY <1>1 DEF Edit, call, StagedRight
  <2>1. UNCHANGED <<staged, existed, calls>>
    BY <1>1 DEF Edit, call
  <2>2. StagedFrom(b, d)
    BY DEF StagedRight
  <2>3. CASE d # e
    BY <1>1, <2>1, <2>2, <2>3, Edited DEF StagedFrom, Typed
  <2>4. CASE d = e /\ b[d] # {}
    <3>1. files'[d] = {} \/ \E f \in files'[d] : f.text = edits + 1
      BY <1>1, <2>4, Edited DEF Typed
    <3>2. edits \in Nat /\ \A f \in b[d] : f.text \in Nat /\ f.text <= edits
      BY OptionalFile, BoundsAssumption DEF Dated, Typed, Files
    <3>3. files'[d] # b[d]
      BY <2>4, <3>1, <3>2
    <3> QED
      BY <2>4, <3>3 DEF StagedFrom
  <2>5. CASE d = e /\ b[d] = {}
    BY <2>1, <2>2, <2>5 DEF StagedFrom
  <2> QED
    BY <2>3, <2>4, <2>5
<1>2. CASE Stage
  <2>1. CASE /\ staged' = [staged EXCEPT ![i] = Merge(files[i], calls)]
             /\ existed' = IF files[i] = {} THEN existed ELSE existed \cup {i}
             /\ IF i = NumDocuments THEN Goto("recheck", 1) ELSE Goto("stage", i + 1)
    <3> SUFFICES ASSUME NEW b \in base, NEW d \in Documents, d < i \/ d = i
                 PROVE  StagedFrom(b, d)'
      BY <1>2, <2>1 DEF Stage, Goto, StagedRight, Typed, Documents
    <3>1. UNCHANGED <<files, calls>>
      BY <1>2 DEF Stage
    <3>2. CASE d < i
      <4>1. StagedFrom(b, d)
        BY <1>2, <3>2 DEF Stage, StagedRight
      <4>2. d # i
        BY <3>2 DEF Typed, Documents
      <4> QED
        BY <2>1, <3>1, <4>1, <4>2 DEF StagedFrom, Typed
    <3>3. CASE d = i
      <4>1. i \notin existed
        BY <1>2 DEF Stage, Shape, Typed, Documents
      <4> QED
        BY <2>1, <3>1, <3>3, <4>1 DEF StagedFrom, Typed
    <3> QED
      BY <3>2, <3>3
  <2>2. CASE Fail
    BY <2>2 DEF Fail, Goto, StagedRight
  <2> QED
    BY <1>2, <2>1, <2>2 DEF Stage
<1>3. CASE Begin
  BY <1>3 DEF Begin, Goto, Return, StagedRight, Documents
<1>4. CASE CaptureBase \/ ForgetBase
  BY <1>4 DEF CaptureBase, ForgetBase, call, StagedRight
<1>5. CASE Recheck \/ BackUp \/ Install \/ Drop \/ Remove \/ Restore \/ Clean \/ Tidy \/ Crash
  <2>1. pc' \notin {"stage", "recheck"}
    BY <1>5 DEF Recheck, BackUp, Install, Drop, Remove, Restore, Clean, Tidy, Crash, Goto, Fail,
                FirstStep, NextRollback, Return
  <2> QED
    BY <2>1 DEF StagedRight
<1>6. CASE UNCHANGED vars
  BY <1>6 DEF vars, call, StagedRight, StagedFrom
<1> QED
  BY <1>1, <1>2, <1>3, <1>4, <1>5, <1>6 DEF Next

\* During the exchange the captured documents are there, in place or as .bak
\* files, and what is put into place was made of them.
LEMMA ExchangedStep ==
  ASSUME EditorsWait, Typed, Shape, StagedRight, Exchanged, [Next]_vars
  PROVE  Exchanged'
<1>1. CASE Recheck
  <2>1. CASE files \in base /\ Goto(FirstStep(1), 1)
    <3> SUFFICES ASSUME NEW b \in base, NEW d \in Documents
                 PROVE  /\ Original(d)' = b[d]
                        /\ d \in installed' <=> d < i' \/ (d = i' /\ pc' = "drop")
                        /\ d > i' \/ (d = i' /\ pc' = "backup") =>
                             backup'[d] = {} /\ StagedFrom(b, d)'
                        /\ d = i' /\ pc' = "backup" => d \in existed'
                        /\ d = i' /\ pc' = "install" =>
                             files'[d] = {} /\ staged'[d] = Merge(b[d], calls')
      BY <1>1 DEF Recheck, Exchanged
    <3>1. b = files
      BY <2>1 DEF Typed
    <3>2. /\ UNCHANGED <<files, base, staged, existed, backup, installed, calls>>
          /\ installed = {} /\ backup[d] = {}
      BY <1>1 DEF Recheck, Shape, Nothing
    <3>3. StagedFrom(b, d)
      BY <1>1 DEF Recheck, StagedRight
    <3>4. Original(d)' = b[d] /\ StagedFrom(b, d)'
      BY <3>1, <3>2, <3>3 DEF Original, StagedFrom
    <3>5. i' = 1 /\ pc' = IF 1 \in existed THEN "backup" ELSE "install"
      BY <2>1 DEF Goto, FirstStep
    <3>6. d \notin existed => files[d] = {} /\ staged[d] = Merge(b[d], calls)
      BY <3>1, <3>3, StagedUntouched
    <3>7. ~(d < 1)
      BY DEF Documents
    <3> QED
      BY <3>2, <3>4, <3>5, <3>6, <3>7
  <2>2. CASE Goto("clean", 1)
    BY <2>2 DEF Goto, Exchanged
  <2> QED
    BY <1>1, <2>1, <2>2 DEF Recheck
<1>2. CASE BackUp
  <2>1. CASE /\ files[i] # {} /\ backup' = [backup EXCEPT ![i] = files[i]]
             /\ files' = [files EXCEPT ![i] = {}] /\ Goto("install", i)
    <3> SUFFICES ASSUME NEW b \in base, NEW d \in Documents
                 PROVE  /\ Original(d)' = b[d]
                        /\ d \in installed <=> d < i
                        /\ d > i => backup'[d] = {} /\ StagedFrom(b, d)'
                        /\ d = i => files'[d] = {} /\ staged[d] = Merge(b[d], calls)
      BY <1>2, <2>1 DEF BackUp, Goto, Exchanged
    <3>1. /\ Original(d) = b[d]
          /\ d \in installed <=> d < i
          /\ d >= i => backup[d] = {} /\ StagedFrom(b, d)
          /\ d = i => d \in existed
      BY <1>2 DEF BackUp, Exchanged, Typed, Documents
    <3>2. UNCHANGED <<staged, existed, installed, calls>>
      BY <1>2 DEF BackUp
    <3>3. CASE d # i
      BY <2>1, <3>1, <3>2, <3>3 DEF Original, StagedFrom, Typed, Documents
    <3>4. CASE d = i
      <4>1. d \notin installed /\ files[d] = b[d]
        BY <3>1, <3>4 DEF Original, Typed, Documents
      <4>2. staged[d] = Merge(b[d], calls)
        BY <2>1, <3>1, <3>4, <4>1, StagedUntouched DEF Typed, Documents
      <4> QED
        BY <2>1, <3>1, <3>4, <4>1, <4>2 DEF Original, Typed, Documents
    <3> QED
      BY <3>3, <3>4
  <2>2. CASE Fail
    BY <2>2 DEF Fail, Goto, Exchanged
  <2> QED
    BY <1>2, <2>1, <2>2 DEF BackUp
<1>3. CASE Install
  <2>1. CASE /\ files[i] = {} /\ files' = [files EXCEPT ![i] = staged[i]]
             /\ installed' = installed \cup {i} /\ Goto("drop", i)
    <3> SUFFICES ASSUME NEW b \in base, NEW d \in Documents
                 PROVE  /\ Original(d)' = b[d]
                        /\ d \in installed' <=> d < i \/ d = i
                        /\ d > i => backup[d] = {} /\ StagedFrom(b, d)'
      BY <1>3, <2>1 DEF Install, Goto, Exchanged
    <3>1. /\ Original(d) = b[d]
          /\ d \in installed <=> d < i
          /\ d > i => backup[d] = {} /\ StagedFrom(b, d)
      BY <1>3 DEF Install, Exchanged, Typed, Documents
    <3>2. UNCHANGED <<staged, existed, backup, calls>>
      BY <1>3 DEF Install
    <3>3. Original(d)' = Original(d)
      BY <2>1, <3>1, <3>2 DEF Original, Typed, Documents
    <3> QED
      BY <2>1, <3>1, <3>2, <3>3 DEF StagedFrom, Typed, Documents
  <2>2. CASE Fail
    BY <2>2 DEF Fail, Goto, Exchanged
  <2> QED
    BY <1>3, <2>1, <2>2 DEF Install
<1>4. CASE Drop
  <2>1. CASE i # NumDocuments /\ staged' = [staged EXCEPT ![i] = {}] /\ Goto(FirstStep(i + 1), i + 1)
    <3> SUFFICES ASSUME NEW b \in base, NEW d \in Documents
                 PROVE  /\ Original(d)' = b[d]
                        /\ d \in installed' <=> d < i' \/ (d = i' /\ pc' = "drop")
                        /\ d > i' \/ (d = i' /\ pc' = "backup") =>
                             backup'[d] = {} /\ StagedFrom(b, d)'
                        /\ d = i' /\ pc' = "backup" => d \in existed'
                        /\ d = i' /\ pc' = "install" =>
                             files'[d] = {} /\ staged'[d] = Merge(b[d], calls')
      BY <1>4 DEF Drop, Exchanged
    <3>1. /\ Original(d) = b[d]
          /\ d \in installed <=> d < i \/ d = i
          /\ d > i => backup[d] = {} /\ StagedFrom(b, d)
      BY <1>4 DEF Drop, Exchanged, Typed, Documents
    <3>2. UNCHANGED <<files, existed, backup, installed, calls>>
      BY <1>4 DEF Drop
    <3>3. i' = i + 1 /\ pc' = IF i + 1 \in existed THEN "backup" ELSE "install"
      BY <2>1 DEF Goto, FirstStep
    <3>4. d < i + 1 <=> d < i \/ d = i
      BY DEF Typed, Documents
    <3>5. d > i => d # i /\ staged'[d] = staged[d] /\ StagedFrom(b, d)'
      BY <2>1, <3>1, <3>2 DEF Typed, Documents, StagedFrom
    <3>6. d = i + 1 => d > i /\ files[d] = b[d]
      BY <3>1 DEF Original, Typed, Documents
    <3>7. d = i + 1 /\ d \notin existed => files[d] = {} /\ staged[d] = Merge(b[d], calls)
      BY <3>1, <3>6, StagedUntouched
    <3>8. Original(d)' = b[d]
      BY <3>1, <3>2 DEF Original
    <3>9. d > i + 1 => d > i
      BY DEF Typed, Documents
    <3> QED
      BY <3>1, <3>2, <3>3, <3>4, <3>5, <3>6, <3>7, <3>8, <3>9
  <2>2. CASE Goto("clean", 1) \/ Fail
    BY <2>2 DEF Fail, Goto, Exchanged
  <2> QED
    BY <1>4, <2>1, <2>2 DEF Drop
<1>5. CASE Begin \/ Stage \/ Remove \/ Restore \/ Clean \/ Tidy \/ Crash
  <2>1. pc' \notin {"backup", "install", "drop"}
    BY <1>5 DEF Begin, Stage, Remove, Restore, Clean, Tidy, Crash, Goto, Fail, NextRollback, Return
  <2> QED
    BY <2>1 DEF Exchanged
<1>6. CASE (\E d \in Documents : Edit(d)) \/ CaptureBase \/ ForgetBase
  BY <1>6 DEF Edit, Exchanging, CaptureBase, ForgetBase, call, Exchanged
<1>7. CASE UNCHANGED vars
  BY <1>7 DEF vars, call, Exchanged, Original, StagedFrom
<1> QED
  BY <1>1, <1>2, <1>3, <1>4, <1>5, <1>6, <1>7 DEF Next

\* A document that the roll-back has not come to is as the exchange left it.
LEMMA HeldBackStep ==
  ASSUME EditorsWait, Typed, Shape, Exchanged, HeldBack, [Next]_vars
  PROVE  HeldBack'
<1>0. {} \in OptionalFiles /\ \A d \in Documents : d <= NumDocuments
  BY DEF OptionalFiles, Documents
<1>1. ASSUME Fail, UNCHANGED <<files, installed, backup, calls>>,
             \A d \in Documents : Held(d)
      PROVE  HeldBack'
  BY <1>0, <1>1 DEF Fail, Goto, HeldBack, Held
<1>2. ASSUME pc \in {"backup", "install", "drop"}
      PROVE  \A d \in Documents : Held(d)
  BY <1>2 DEF HeldBack, Exchanging, NotRolledBack
<1>3. CASE Stage
  <2>1. CASE Fail
    <3>1. \A d \in Documents : Held(d)
      BY <1>3 DEF Stage, Shape, Nothing, Held
    <3> QED
      BY <1>1, <1>3, <2>1, <3>1 DEF Stage
  <2>2. CASE pc' \in {"stage", "recheck"}
    BY <2>2 DEF HeldBack, Exchanging
  <2> QED
    BY <1>3, <2>1, <2>2 DEF Stage, Goto
<1>4. CASE Recheck
  <2>1. backup' = Nothing /\ installed' = {} /\ pc' # "restore"
    BY <1>4 DEF Recheck, Shape, Goto, FirstStep
  <2> QED
    BY <2>1 DEF HeldBack, Held, Nothing
<1>5. CASE BackUp
  <2>1. CASE /\ backup' = [backup EXCEPT ![i] = files[i]]
             /\ files' = [files EXCEPT ![i] = {}] /\ Goto("install", i)
    <3>1. i \notin installed
      BY <1>5 DEF BackUp, Exchanged, Shape, Typed, Documents
    <3>2. \A d \in Documents : Held(d)'
      BY <1>2, <1>5, <2>1, <3>1 DEF BackUp, Held, Typed
    <3> QED
      BY <2>1, <3>2 DEF Goto, HeldBack
  <2>2. CASE Fail /\ UNCHANGED <<files, backup>>
    BY <1>1, <1>2, <1>5, <2>2 DEF BackUp
  <2> QED
    BY <1>5, <2>1, <2>2 DEF BackUp
<1>6. CASE Install
  <2>1. CASE /\ files[i] = {} /\ files' = [files EXCEPT ![i] = staged[i]]
             /\ installed' = installed \cup {i} /\ Goto("drop", i)
    <3>1. PICK b \in base : TRUE
      BY <1>6 DEF Install, Shape
    <3>2. Original(i) = b[i] /\ i \notin installed /\ staged[i] = Merge(b[i], calls)
      BY <1>6, <3>1 DEF Install, Exchanged, Typed, Documents
    <3>3. backup[i] = b[i]
      BY <2>1, <3>2 DEF Original
    <3>4. \A d \in Documents : Held(d)'
      BY <1>2, <1>6, <2>1, <3>2, <3>3 DEF Install, Held, Typed
    <3> QED
      BY <2>1, <3>4 DEF Goto, HeldBack
  <2>2. CASE Fail /\ UNCHANGED <<files, installed>>
    BY <1>1, <1>2, <1>6, <2>2 DEF Install
  <2> QED
    BY <1>6, <2>1, <2>2 DEF Install
<1>7. CASE Drop
  <2>1. CASE Fail
    BY <1>1, <1>2, <1>7, <2>1 DEF Drop
  <2>2. CASE pc' # "restore" /\ (\A d \in Documents : Held(d)')
    BY <2>2 DEF HeldBack
  <2> QED
    BY <1>2, <1>7, <2>1, <2>2 DEF Drop, Goto, FirstStep, Held
<1>8. CASE Remove
  <2>1. \A d \in Documents : d <= i => Held(d)
    BY <1>8 DEF Remove, HeldBack, Exchanging, NotRolledBack, Typed, Documents
  <2>2. CASE /\ files' = (IF i \in installed THEN [files EXCEPT ![i] = {}] ELSE files)
             /\ Goto("restore", i)
    <3>1. \A d \in Documents : d < i => Held(d)'
      BY <1>8, <2>1, <2>2 DEF Remove, Held, Typed, Documents
    <3>2. i \in installed \/ backup[i] # {} => files'[i] = {}
      BY <2>1, <2>2 DEF Held, Typed, Documents
    <3> QED
      BY <1>8, <2>2, <3>1, <3>2 DEF Remove, Goto, HeldBack, NotRolledBack
  <2>3. CASE NextRollback /\ UNCHANGED files
    <3>1. \A d \in Documents : d <= i - 1 => Held(d)'
      BY <1>8, <2>1, <2>3 DEF Remove, Held, Typed, Documents
    <3>2. \A d \in Documents : d < i - 1 \/ d = i - 1 => d <= i - 1
      BY DEF Typed, Documents
    <3> QED
      BY <2>3, <3>1, <3>2 DEF NextRollback, Goto, HeldBack, NotRolledBack, Exchanging
  <2> QED
    BY <1>8, <2>2, <2>3 DEF Remove
<1>9. CASE Restore
  <2>1. \A d \in Documents : d <= i - 1 => d # i /\ Held(d)
    BY <1>9 DEF Restore, HeldBack, Exchanging, NotRolledBack, Typed, Documents
  <2>2. \A d \in Documents : d # i => files'[d] = files[d] /\ backup'[d] = backup[d]
    BY <1>9 DEF Restore, Typed
  <2>3. \A d \in Documents : d <= i - 1 => Held(d)'
    BY <1>9, <2>1, <2>2 DEF Restore, Held
  <2>4. \A d \in Documents : d < i - 1 \/ d = i - 1 => d <= i - 1
    BY DEF Typed, Documents
  <2> QED
    BY <1>9, <2>3, <2>4 DEF Restore, NextRollback, Goto, HeldBack, NotRolledBack, Exchanging
<1>10. CASE Begin \/ Clean \/ Tidy \/ Crash
  <2>1. pc' \in {"stage", "idle", "tidy"}
    BY <1>10 DEF Begin, Clean, Tidy, Crash, Goto, Return
  <2> QED
    BY <2>1 DEF HeldBack, Exchanging
<1>11. CASE (\E d \in Documents : Edit(d)) \/ CaptureBase \/ ForgetBase
  BY <1>11 DEF Edit, Exchanging, CaptureBase, ForgetBase, call, HeldBack
<1>12. CASE UNCHANGED vars
  BY <1>12 DEF vars, call, HeldBack, Exchanging, NotRolledBack, Held
<1> QED
  BY <1>3, <1>4, <1>5, <1>6, <1>7, <1>8, <1>9, <1>10, <1>11, <1>12 DEF Next

\* A step that adds to what is there, or moves it, keeps the texts.
LEMMA MovedKept ==
  ASSUME UnmanagedContentKept, UNCHANGED written,
         \A d \in Documents : files[d] \cup backup[d] \cup litter[d]
                                \subseteq files'[d] \cup backup'[d] \cup litter'[d]
  PROVE  UnmanagedContentKept'
BY DEF UnmanagedContentKept

\* Every text is kept, and the .bak files go when they are not needed.
LEMMA KeptStep ==
  ASSUME EditorsWait, Typed, Shape, Exchanged, HeldBack, Kept, [Next]_vars
  PROVE  Kept'
<1>1. ASSUME NEW e \in Documents, Edit(e)
      PROVE  Kept'
  <2>1. UNCHANGED <<pc, outcome, backup, litter>>
    BY <1>1 DEF Edit, call
  <2>2. \/ \E f : /\ f.text = edits'
                  /\ files' = [files EXCEPT ![e] = {f}] /\ written' = [written EXCEPT ![e] = edits']
        \/ files' = [files EXCEPT ![e] = {}] /\ written' = [written EXCEPT ![e] = 0]
    BY <1>1, Edited
  <2>3. /\ \A d \in Documents : d # e => files'[d] = files[d] /\ written'[d] = written[d]
        /\ written'[e] # 0 => \E f \in files'[e] : f.text = written'[e]
    BY <2>2 DEF Typed
  <2> QED
    BY <2>1, <2>3 DEF Kept, UnmanagedContentKept
<1>2. CASE BackUp
  <2>1. backup'[i] = backup[i] \/ backup[i] = {}
    BY <1>2 DEF BackUp, Exchanged, Shape, Typed, Documents
  <2>2. UnmanagedContentKept'
    BY <1>2, <2>1, MovedKept DEF BackUp, Typed, Kept
  <2> QED
    BY <1>2, <2>2 DEF BackUp, Goto, Fail, Kept
<1>3. CASE Install
  <2>1. UnmanagedContentKept'
    BY <1>3, MovedKept DEF Install, Typed, Kept
  <2> QED
    BY <1>3, <2>1 DEF Install, Goto, Fail, Kept
<1>4. CASE Drop
  <2>1. UnmanagedContentKept'
    BY <1>4, MovedKept DEF Drop, Kept
  <2>2. CASE i = NumDocuments /\ pc' = "clean"
    <3> SUFFICES ASSUME NEW d \in Documents, written[d] # 0
                 PROVE  \E f \in files[d] \cup litter[d] : f.text = written[d]
      BY <1>4, <2>1, <2>2 DEF Drop, Kept
    <3>1. files[d] = Merge(backup[d], calls)
      <4>1. d \in installed
        BY <1>4, <2>2 DEF Drop, Exchanged, Shape, Typed, Documents
      <4> QED
        BY <1>4, <4>1 DEF Drop, HeldBack, Exchanging, NotRolledBack, Held
    <3>2. PICK f \in files[d] \cup backup[d] \cup litter[d] : f.text = written[d]
      BY DEF Kept, UnmanagedContentKept
    <3>3. CASE f \in backup[d]
      <4>1. {g.text : g \in files[d]} = {g.text : g \in backup[d]}
        BY <3>1, <3>3, Merged DEF Typed
      <4> QED
        BY <3>2, <3>3, <4>1
    <3> QED
      BY <3>2, <3>3
  <2>3. CASE pc' \in {"backup", "install", "remove"}
    BY <2>1, <2>3 DEF Kept
  <2> QED
    BY <1>4, <2>2, <2>3 DEF Drop, Goto, Fail, FirstStep
<1>5. CASE Remove
  <2>1. ASSUME NEW d \in Documents, written[d] # 0
        PROVE  \E f \in files'[d] \cup backup[d] \cup litter[d] : f.text = written[d]
    <3>1. PICK f \in files[d] \cup backup[d] \cup litter[d] : f.text = written[d]
      BY <2>1 DEF Kept, UnmanagedContentKept
    <3>2. CASE d = i /\ i \in installed /\ f \in files[d]
      <4>1. files[d] = Merge(backup[d], calls)
        BY <1>5, <3>2 DEF Remove, HeldBack, Exchanging, NotRolledBack, Held
      <4>2. backup[d] # {}
        BY <2>1, <3>1, <3>2, <4>1, Merged DEF Typed
      <4>3. {g.text : g \in files[d]} = {g.text : g \in backup[d]}
        BY <4>1, <4>2, Merged DEF Typed
      <4> QED
        BY <3>1, <3>2, <4>3
    <3>3. CASE ~(d = i /\ i \in installed /\ f \in files[d])
      <4>1. f \in files[d] => f \in files'[d]
        BY <1>5, <3>3 DEF Remove, Typed
      <4> QED
        BY <3>1, <4>1
    <3> QED
      BY <3>2, <3>3
  <2>2. UnmanagedContentKept'
    BY <1>5, <2>1 DEF Remove, UnmanagedContentKept
  <2>3. pc' # "tidy" /\ (pc' = "clean" => outcome' # "committed")
    BY <1>5 DEF Remove, NextRollback, Goto
  <2> QED
    BY <2>2, <2>3 DEF Kept
<1>6. CASE Restore
  <2>1. \A d \in Documents : files[d] \cup backup[d] \subseteq files'[d] \cup backup'[d]
    <3>1. backup[i] # {} => files[i] = {}
      BY <1>6 DEF Restore, HeldBack
    <3> QED
      BY <1>6, <3>1 DEF Restore, Typed
  <2>2. UnmanagedContentKept'
    BY <1>6, <2>1, MovedKept DEF Restore, Kept
  <2>3. pc' # "tidy" /\ outcome' # "committed"
    BY <1>6 DEF Restore, NextRollback, Goto, Shape
  <2> QED
    BY <2>2, <2>3 DEF Kept
<1>7. CASE Clean
  <2>1. CASE pc' = "tidy" /\ outcome = "committed" /\ UNCHANGED <<backup, litter>>
    BY <1>7, <2>1 DEF Clean, Kept, UnmanagedContentKept
  <2>2. ASSUME NEW result, Return(result, backup)
        PROVE  Kept'
    <3>1. \A d \in Documents : litter'[d] = litter[d] \cup backup[d]
      BY <2>2 DEF Return
    <3>2. UnmanagedContentKept'
      BY <1>7, <3>1, MovedKept DEF Clean, Kept
    <3> QED
      BY <2>2, <3>2 DEF Return, Goto, Kept
  <2> QED
    BY <1>7, <2>1, <2>2 DEF Clean, Goto
<1>8. CASE Tidy
  <2>1. pc' = "idle" /\ \A d \in Documents : litter[d] \subseteq litter'[d]
    BY <1>8 DEF Tidy, Return, Goto
  <2>2. \A d \in Documents :
          written[d] # 0 => \E f \in files[d] \cup litter[d] : f.text = written[d]
    BY <1>8 DEF Tidy, Kept
  <2> QED
    BY <1>8, <2>1, <2>2 DEF Tidy, Kept, UnmanagedContentKept
<1>9. CASE Crash
  <2>1. pc' = "idle" /\ \A d \in Documents : litter'[d] = litter[d] \cup backup[d]
    BY <1>9 DEF Crash, Return, Goto
  <2> QED
    BY <1>9, <2>1, MovedKept DEF Crash, Kept
<1>10. CASE Begin
  <2>1. pc' \in {"stage", "idle"} /\ \A d \in Documents : litter[d] \subseteq litter'[d]
    BY <1>10 DEF Begin, Return, Goto
  <2>2. \A d \in Documents : backup[d] = {}
    BY <1>10 DEF Begin, Shape, Nothing
  <2> QED
    BY <1>10, <2>1, <2>2, MovedKept DEF Begin, Kept
<1>11. CASE CaptureBase \/ ForgetBase \/ Stage \/ Recheck \/ UNCHANGED vars
  <2>1. UNCHANGED <<files, backup, litter, written>>
    BY <1>11 DEF CaptureBase, ForgetBase, Stage, Recheck, vars, call
  <2>2. \/ pc' = pc /\ outcome' = outcome
        \/ pc' # "tidy" /\ (pc' = "clean" => outcome' # "committed")
    BY <1>11 DEF CaptureBase, ForgetBase, Stage, Recheck, Goto, Fail, FirstStep, vars, call
  <2> QED
    BY <2>1, <2>2, MovedKept DEF Kept
<1> QED
  BY <1>1, <1>2, <1>3, <1>4, <1>5, <1>6, <1>7, <1>8, <1>9, <1>10, <1>11 DEF Next

\* At the start the documents are as somebody wrote them.
LEMMA InitCareful == Init => Careful
<1> SUFFICES ASSUME Init PROVE Careful
  OBVIOUS
<1>1. \A d \in Documents : files[d] = {} \/ \E f : files[d] = {f} /\ f.text = 1
  <2> DEFINE f == [text |-> 1, block |-> 0, torn |-> FALSE]
  <2>1. f.text = 1
    OBVIOUS
  <2> HIDE DEF f
  <2>2. \A d \in Documents : files[d] = {} \/ files[d] = {f}
    BY DEF Init, InitialDocuments, f
  <2> QED
    BY <2>1, <2>2
<1>2. Dated
  BY <1>1 DEF Init, Dated, Nothing
<1>3. StagedRight /\ Exchanged /\ HeldBack
  BY DEF Init, StagedRight, Exchanged, HeldBack, Exchanging
<1>4. Kept
  BY <1>1 DEF Init, Kept, UnmanagedContentKept
<1> QED
  BY <1>2, <1>3, <1>4 DEF Careful

CarefulInv == Typed /\ Shape /\ Careful

\* The exchange is careful when nobody edits meanwhile.
THEOREM CarefulExchange ==
  ASSUME EditorsWait
  PROVE  Spec => []CarefulInv
<1>1. Init => CarefulInv
  BY InitTyped, InitCareful DEF CarefulInv
<1>2. CarefulInv /\ [Next]_vars => CarefulInv'
  BY NextTyped, DatedStep, StagedRightStep, ExchangedStep, HeldBackStep, KeptStep
  DEF CarefulInv, Careful
<1> QED
  BY <1>1, <1>2, PTL DEF Spec

\* No failing call, no death of the process and no order of the two loses what
\* stands outside the managed block, when nobody edits during the exchange.
THEOREM ContentKept ==
  ASSUME EditorsWait
  PROVE  Spec => []UnmanagedContentKept
<1>1. CarefulInv => UnmanagedContentKept
  BY DEF CarefulInv, Careful, Kept
<1>2. Spec => []CarefulInv
  BY CarefulExchange
<1> QED
  BY <1>1, <1>2, PTL

-----------------------------------------------------------------------------
(* The commit is atomic.                                                   *)

\* The documents as AtomicDocuments has them.
view == [d \in Documents |-> IF Settled(d) THEN files[d] ELSE Original(d)]

\* Outside the exchange and the roll-back the view is the documents.
SettledView ==
  Typed /\ pc \in {"idle", "stage", "recheck", "clean", "tidy"} => view = files
LEMMA ViewSettled == SettledView
<1> SUFFICES ASSUME Typed, pc \in {"idle", "stage", "recheck", "clean", "tidy"}
             PROVE  view = files
  BY DEF SettledView
<1>1. \A d \in Documents : Settled(d)
  BY DEF Settled
<1>2. view = [d \in Documents |-> files[d]]
  BY <1>1 DEF view
<1> QED
  BY <1>2 DEF Typed

\* In the exchange it is what the session captured.
ExchangingView ==
  Typed /\ Shape /\ Exchanged /\ pc \in {"backup", "install", "drop"} => base = {view}
LEMMA ViewExchanging == ExchangingView
<1> SUFFICES ASSUME Typed, Shape, Exchanged, pc \in {"backup", "install", "drop"}
             PROVE  base = {view}
  BY DEF ExchangingView
<1>1. PICK b \in [Documents -> OptionalFiles] : base = {b}
  BY DEF Typed, Shape
<1>2. \A d \in Documents : ~Settled(d) /\ Original(d) = b[d]
  BY <1>1 DEF Settled, Exchanged
<1>3. view = [d \in Documents |-> b[d]]
  BY <1>2 DEF view
<1> QED
  BY <1>1, <1>3

\* Both hold before a step and after it.
LEMMA ViewsThroughout ==
  SettledView /\ SettledView' /\ ExchangingView /\ ExchangingView'
<1>1. SettledView /\ ExchangingView
  BY ViewSettled, ViewExchanging
<1> QED
  BY <1>1, PTL

\* A document that is installed or moved away is seen as the .bak file.
LEMMA ViewHeld ==
  ASSUME NEW d, d \in installed \/ backup[d] # {}
  PROVE  Original(d) = backup[d]
BY DEF Original

\* The abstract variables do not move.
Still == UNCHANGED <<view, base, outcome>>

\* An edit, a capture and the loss of the base are what they are there.
LEMMA AroundTheCall ==
  ASSUME EditorsWait, CarefulInv, CarefulInv',
         (\E d \in Documents : Edit(d)) \/ CaptureBase \/ ForgetBase
  PROVE  \/ \E d \in Documents :
              /\ UNCHANGED <<base, outcome>>
              /\ \/ \E f \in Files :
                      /\ f.text # 0
                      /\ IF view[d] = {} THEN f.block = 0
                         ELSE \A g \in view[d] : f.text # g.text /\ f.block = g.block
                      /\ view' = [view EXCEPT ![d] = {f}]
                 \/ view' = [view EXCEPT ![d] = {}]
         \/ base' \in {{view}, {}} /\ UNCHANGED <<view, outcome>>
<1>1. CASE CaptureBase \/ ForgetBase
  <2>1. view = files /\ view' = files'
    BY <1>1, ViewsThroughout DEF SettledView, CaptureBase, ForgetBase, call, CarefulInv
  <2> QED
    BY <1>1, <2>1 DEF CaptureBase, ForgetBase
<1>2. ASSUME NEW d \in Documents, Edit(d)
      PROVE  /\ UNCHANGED <<base, outcome>>
             /\ \/ \E f \in Files :
                     /\ f.text # 0
                     /\ IF view[d] = {} THEN f.block = 0
                        ELSE \A g \in view[d] : f.text # g.text /\ f.block = g.block
                     /\ view' = [view EXCEPT ![d] = {f}]
                \/ view' = [view EXCEPT ![d] = {}]
  <2>1. pc \in {"idle", "stage", "recheck", "clean", "tidy"} /\ pc' = pc
    BY <1>2 DEF Edit, Exchanging, call, CarefulInv, Typed
  <2>2. view = files /\ view' = files'
    BY <2>1, ViewsThroughout DEF SettledView, CarefulInv
  <2>3. edits' = edits + 1 /\ edits' # 0
    BY <1>2, Edited DEF CarefulInv
  <2>4. \A g \in files[d] : g.text # edits'
    BY <2>3, OptionalFile, BoundsAssumption DEF CarefulInv, Careful, Dated, Typed, Files
  <2>5. UNCHANGED <<base, outcome>>
    BY <1>2 DEF Edit
  <2>6. Typed
    BY DEF CarefulInv
  <2>7. \/ \E f \in Files :
             /\ files' = [files EXCEPT ![d] = {f}] /\ f.text = edits'
             /\ IF files[d] = {} THEN f.block = 0 ELSE \A g \in files[d] : f.block = g.block
        \/ files' = [files EXCEPT ![d] = {}]
    BY <1>2, <2>6, Edited
  <2> QED
    BY <2>2, <2>3, <2>4, <2>5, <2>7
<1> QED
  BY <1>1, <1>2

\* Up to the exchange a call does nothing or refuses; its failing steps change
\* nothing that is seen.
LEMMA CallRefuses ==
  ASSUME CarefulInv, CarefulInv', Begin \/ Stage \/ Recheck
  PROVE  Still \/ (base # {} /\ outcome' \in {"conflict", "failed"} /\ UNCHANGED <<view, base>>)
<1>1. view = files
  BY ViewsThroughout DEF SettledView, CarefulInv, Begin, Stage, Recheck
<1>2. UNCHANGED <<files, base>> /\ base # {}
  BY DEF Begin, Stage, Recheck, CarefulInv, Shape
<1>3. outcome' = outcome \/ outcome' \in {"conflict", "failed"}
  BY DEF Begin, Stage, Recheck, Return, Fail
<1>4. view' = files'
  <2>1. CASE pc' \in {"idle", "stage", "recheck", "clean", "tidy"}
    BY <2>1, ViewsThroughout DEF SettledView, CarefulInv
  <2>2. CASE pc' \notin {"idle", "stage", "recheck", "clean", "tidy"}
    <3>1. /\ backup' = Nothing /\ installed' = {}
          /\ pc' \in {"remove", "restore"} => i' = NumDocuments
      BY <2>2 DEF Begin, Stage, Recheck, CarefulInv, Shape, Goto, Return, Fail, FirstStep, Nothing
    <3>2. \A d \in Documents : Original(d)' = files'[d]
      BY <3>1 DEF Original, Nothing
    <3>3. view' = [d \in Documents |-> files'[d]]
      BY <3>2 DEF view
    <3> QED
      BY <3>3 DEF CarefulInv, Typed
  <2> QED
    BY <2>1, <2>2
<1> QED
  BY <1>1, <1>2, <1>3, <1>4 DEF Still

\* A file-system call of the exchange does not show; the last one shows the
\* whole bundle; one that fails changes nothing.
LEMMA ExchangeCommits ==
  ASSUME CarefulInv, CarefulInv', BackUp \/ Install \/ Drop
  PROVE  \/ Still
         \/ base # {} /\ outcome' = "failed" /\ UNCHANGED <<view, base>>
         \/ /\ view \in base /\ view' = [d \in Documents |-> Merge(view[d], calls)]
            /\ outcome' = "committed" /\ UNCHANGED base
<1>1. base = {view}
  BY ViewsThroughout DEF ExchangingView, CarefulInv, Careful, BackUp, Install, Drop
<1>2. UNCHANGED base
  BY DEF BackUp, Install, Drop
<1>3. CASE pc' \in {"backup", "install", "drop"}
  <2>1. base' = {view'}
    BY <1>3, ViewsThroughout DEF ExchangingView, CarefulInv, Careful
  <2>2. outcome' = outcome
    BY <1>3 DEF BackUp, Install, Drop, Goto, Fail
  <2> QED
    BY <1>1, <1>2, <2>1, <2>2 DEF Still
<1>4. CASE Fail
  <2>1. UNCHANGED <<files, backup, installed>>
    BY <1>4 DEF BackUp, Install, Drop, Goto, Fail, FirstStep
  <2>2. ASSUME NEW d \in Documents
        PROVE  ~Settled(d) /\ ~Settled(d)' /\ Original(d)' = Original(d)
    <3>1. pc' = "remove" /\ i' = NumDocuments /\ ~(d > NumDocuments)
      BY <1>4, BoundsAssumption DEF Fail, Goto, Documents
    <3>2. pc \in {"backup", "install", "drop"}
      BY DEF BackUp, Install, Drop
    <3> QED
      BY <2>1, <3>1, <3>2 DEF Settled, Original
  <2>3. view' = view
    BY <2>2 DEF view
  <2> QED
    BY <1>1, <1>2, <1>4, <2>3 DEF Fail
<1>5. CASE Drop /\ i = NumDocuments /\ pc' = "clean"
  <2>1. view' = files' /\ files' = files /\ outcome' = "committed"
    BY <1>5, ViewsThroughout DEF SettledView, Drop, Goto, Fail, CarefulInv
  <2>2. ASSUME NEW d \in Documents
        PROVE  files[d] = Merge(view[d], calls)
    <3>1. d \in installed
      BY <1>1, <1>5 DEF Drop, CarefulInv, Careful, Exchanged, Typed, Documents
    <3>2. view[d] = backup[d]
      BY <1>5, <3>1, ViewHeld DEF view, Settled, Drop
    <3> QED
      BY <1>5, <3>1, <3>2
      DEF Drop, CarefulInv, Careful, HeldBack, Exchanging, NotRolledBack, Held
  <2>3. files = [d \in Documents |-> Merge(view[d], calls)]
    BY <2>2 DEF CarefulInv, Typed
  <2> QED
    BY <1>1, <1>2, <2>1, <2>3
<1> QED
  BY <1>3, <1>4, <1>5 DEF BackUp, Install, Drop, Goto, FirstStep

\* The roll-back does not show, except where it fails: there one document is
\* left as the exchange made it.
LEMMA RollbackGivesUp ==
  ASSUME CarefulInv, CarefulInv', Remove \/ Restore
  PROVE  \/ Still
         \/ /\ outcome' = "incomplete" /\ UNCHANGED base
            /\ \E d \in Documents : \E left \in {{}, Merge(view[d], calls)} :
                 view' = [view EXCEPT ![d] = left]
<1>0. i \in Nat /\ i' \in Nat /\ \A d \in Documents : d \in Nat /\ d >= 1
  BY DEF CarefulInv, Typed, Documents
<1>1. CASE Remove /\ Goto("restore", i) /\ outcome' = outcome
  <2>1. ASSUME NEW d \in Documents
        PROVE  /\ Settled(d)' <=> Settled(d)
               /\ Settled(d) => files'[d] = files[d]
               /\ Original(d)' = Original(d)
    <3>1. d # i => files'[d] = files[d]
      BY <1>1 DEF Remove, CarefulInv, Typed
    <3>2. d \notin installed => files'[d] = files[d]
      BY <1>1 DEF Remove, CarefulInv, Typed
    <3> QED
      BY <1>0, <1>1, <3>1, <3>2 DEF Remove, Goto, Settled, Original
  <2>2. view' = view
    BY <2>1 DEF view
  <2> QED
    BY <1>1, <2>2 DEF Remove, Still
<1>2. ASSUME NextRollback, Remove \/ Restore
      PROVE  \A d \in Documents : Settled(d)' <=> Settled(d) \/ d = i
  BY <1>0, <1>2 DEF NextRollback, Goto, Settled, Remove, Restore
<1>3. CASE Remove /\ NextRollback /\ outcome' = "incomplete" /\ files' = files
  <2>1. i \in installed /\ i \in Documents
    BY <1>0, <1>3 DEF Remove, NextRollback, Goto, CarefulInv, Typed
  <2>2. files[i] = Merge(backup[i], calls)
    BY <1>3, <2>1
    DEF Remove, CarefulInv, Careful, HeldBack, Exchanging, NotRolledBack, Held
  <2>3. ~Settled(i)
    BY <1>0, <1>3 DEF Remove, Settled
  <2>4. view[i] = backup[i]
    BY <2>1, <2>3, ViewHeld DEF view
  <2>5. ASSUME NEW d \in Documents, d # i
        PROVE  view'[d] = view[d]
    BY <1>2, <1>3, <2>5 DEF view, Remove, Original
  <2>6. view'[i] = files[i]
    BY <1>2, <1>3, <2>1 DEF view
  <2>7. view' = [view EXCEPT ![i] = Merge(view[i], calls)]
    BY <2>1, <2>2, <2>4, <2>5, <2>6 DEF view
  <2> QED
    BY <1>3, <2>1, <2>7 DEF Remove
<1>4. CASE Restore
  <2>1. NextRollback /\ i \in Documents
    BY <1>4 DEF Restore, CarefulInv, Typed
  <2>2. ~Settled(i)
    BY <1>0, <1>4 DEF Restore, Settled
  <2>3. i \in installed \/ backup[i] # {} => files[i] = {}
    BY <1>4 DEF Restore, CarefulInv, Careful, HeldBack
  <2>4. ASSUME NEW d \in Documents, d # i
        PROVE  view'[d] = view[d]
    <3>1. files'[d] = files[d] /\ backup'[d] = backup[d] /\ installed' = installed
      BY <1>4, <2>4 DEF Restore, CarefulInv, Typed
    <3> QED
      BY <1>2, <1>4, <2>1, <2>4, <3>1 DEF view, Original
  <2>5. view'[i] = files'[i] /\ view[i] = Original(i)
    BY <1>2, <1>4, <2>1, <2>2 DEF view
  <2>6. CASE /\ files' = (IF backup[i] # {} THEN [files EXCEPT ![i] = backup[i]] ELSE files)
             /\ UNCHANGED outcome
    <3>1. files'[i] = Original(i)
      BY <2>1, <2>3, <2>6 DEF Original, CarefulInv, Typed
    <3>2. view' = view
      BY <2>4, <2>5, <3>1 DEF view
    <3> QED
      BY <1>4, <2>6, <3>2 DEF Restore, Still
  <2>7. CASE backup[i] # {} /\ outcome' = "incomplete" /\ UNCHANGED files
    <3>1. view' = [view EXCEPT ![i] = {}]
      BY <2>1, <2>3, <2>4, <2>5, <2>7 DEF view
    <3> QED
      BY <1>4, <2>1, <2>7, <3>1 DEF Restore
  <2> QED
    BY <1>4, <2>6, <2>7 DEF Restore
<1> QED
  BY <1>1, <1>3, <1>4 DEF Remove

\* The end of a call does not show; an error that escapes does.
LEMMA EndsQuietly ==
  ASSUME CarefulInv, CarefulInv', Clean \/ Tidy
  PROVE  \/ Still
         \/ base' = {} /\ UNCHANGED <<view, outcome>>
         \/ outcome' = "throw" /\ UNCHANGED <<view, base>>
<1>1. pc' \in {"tidy", "idle"} /\ UNCHANGED files
  BY DEF Clean, Tidy, Return, Goto
<1>2. view = files /\ view' = files'
  BY <1>1, ViewsThroughout DEF SettledView, Clean, Tidy, CarefulInv
<1>3. CASE Clean
  BY <1>1, <1>2, <1>3 DEF Clean, Return, Still
<1>4. CASE Tidy
  BY <1>1, <1>2, <1>4 DEF Tidy, Return, CarefulInv, Shape
<1> QED
  BY <1>3, <1>4

\* When the process dies, every document is as it was, gone or complete.
LEMMA CrashLeaves ==
  ASSUME CarefulInv, CarefulInv', Crash
  PROVE  /\ base' = {} /\ outcome' = "none"
         /\ \A d \in Documents : view'[d] \in {view[d], {}, Merge(view[d], calls)}
<1>1. pc' = "idle" /\ UNCHANGED files /\ base' = {} /\ outcome' = "none"
  BY DEF Crash, Return, Goto
<1>2. view' = files
  BY <1>1, ViewsThroughout DEF SettledView, CarefulInv
<1>3. ASSUME NEW d \in Documents
      PROVE  files[d] \in {view[d], {}, Merge(view[d], calls)}
  <2>1. CASE Settled(d)
    BY <2>1 DEF view
  <2>2. CASE ~Settled(d)
    <3>1. view[d] = Original(d)
      BY <2>2 DEF view
    <3>2. Exchanging /\ (NotRolledBack(d) \/ (pc = "restore" /\ d = i))
      BY <2>2 DEF Settled, Exchanging, NotRolledBack, CarefulInv, Typed, Documents
    <3>3. CASE Held(d)
      BY <3>1, <3>3, ViewHeld DEF Held, Original
    <3>4. CASE pc = "restore" /\ d = i
      BY <3>1, <3>4 DEF CarefulInv, Careful, HeldBack, Original
    <3> QED
      BY <3>2, <3>3, <3>4 DEF CarefulInv, Careful, HeldBack
  <2> QED
    BY <2>1, <2>2
<1> QED
  BY <1>1, <1>2, <1>3

\* The commit of a bundle is atomic as AtomicDocuments has it, when nobody edits
\* during the exchange: whatever fails and wherever the process dies, a reader
\* finds all documents changed or none, or the caller is told.
THEOREM CommitIsAtomic ==
  ASSUME EditorsWait
  PROVE  Spec => IsAtomic
<1> USE DEF Atomic!Documents, Documents, Atomic!Merge, Merge, Atomic!Files, Files,
            Atomic!Bundles, Bundles
<1>1. Init => Atomic!Init
  <2> SUFFICES ASSUME Init PROVE Atomic!Init
    OBVIOUS
  <2>1. view = files
    BY InitTyped, ViewSettled DEF SettledView, Init
  <2> QED
    BY <2>1 DEF Init, Atomic!Init, view, InitialDocuments, Atomic!InitialDocuments
<1>2. ASSUME CarefulInv, CarefulInv', [Next]_vars
      PROVE  [Atomic!Next]_<<view, base, outcome>>
  <2>1. CASE (\E d \in Documents : Edit(d)) \/ CaptureBase \/ ForgetBase
    <3>1. \/ \E d \in Documents :
               /\ UNCHANGED <<base, outcome>>
               /\ \/ \E f \in Files :
                       /\ f.text # 0
                       /\ IF view[d] = {} THEN f.block = 0
                          ELSE \A g \in view[d] : f.text # g.text /\ f.block = g.block
                       /\ view' = [view EXCEPT ![d] = {f}]
                  \/ view' = [view EXCEPT ![d] = {}]
          \/ base' \in {{view}, {}} /\ UNCHANGED <<view, outcome>>
      BY <1>2, <2>1, AroundTheCall
    <3> QED
      BY <3>1 DEF Atomic!Next, Atomic!Edit, Atomic!EditedAs, Atomic!Capture, Atomic!Forget, view
  <2>2. CASE Begin \/ Stage \/ Recheck
    <3>1. Still \/ (base # {} /\ outcome' \in {"conflict", "failed"} /\ UNCHANGED <<view, base>>)
      BY <1>2, <2>2, CallRefuses
    <3> QED
      BY <3>1 DEF Still, Atomic!Next, Atomic!Refuse, view
  <2>3. CASE BackUp \/ Install \/ Drop
    <3>1. \/ Still
          \/ base # {} /\ outcome' = "failed" /\ UNCHANGED <<view, base>>
          \/ /\ view \in base /\ view' = [d \in Documents |-> Merge(view[d], calls)]
             /\ outcome' = "committed" /\ UNCHANGED base
      BY <1>2, <2>3, ExchangeCommits
    <3>2. calls \in Bundles
      BY <1>2, <2>3 DEF BackUp, Install, Drop, CarefulInv, Shape
    <3> QED
      BY <3>1, <3>2 DEF Still, Atomic!Next, Atomic!Refuse, Atomic!Commit, view
  <2>4. CASE Remove \/ Restore
    <3>1. \/ Still
          \/ /\ outcome' = "incomplete" /\ UNCHANGED base
             /\ \E d \in Documents : \E left \in {{}, Merge(view[d], calls)} :
                  view' = [view EXCEPT ![d] = left]
      BY <1>2, <2>4, RollbackGivesUp
    <3>2. calls \in Bundles
      BY <1>2, <2>4 DEF Remove, Restore, CarefulInv, Shape
    <3> QED
      BY <3>1, <3>2 DEF Still, Atomic!Next, Atomic!GiveUp, view
  <2>5. CASE Clean \/ Tidy
    <3>1. \/ Still
          \/ base' = {} /\ UNCHANGED <<view, outcome>>
          \/ outcome' = "throw" /\ UNCHANGED <<view, base>>
      BY <1>2, <2>5, EndsQuietly
    <3> QED
      BY <3>1 DEF Still, Atomic!Next, Atomic!Forget, Atomic!Throw, view
  <2>6. CASE Crash
    <3>1. /\ base' = {} /\ outcome' = "none"
          /\ \A d \in Documents : view'[d] \in {view[d], {}, Merge(view[d], calls)}
      BY <1>2, <2>6, CrashLeaves
    <3>2. calls \in Bundles
      BY <1>2, <2>6 DEF Crash, CarefulInv, Shape
    <3> QED
      BY <3>1, <3>2 DEF Atomic!Next, Atomic!Crash, view
  <2>7. CASE UNCHANGED vars
    BY <2>7 DEF vars, call, view, Settled, Original
  <2> QED
    BY <1>2, <2>1, <2>2, <2>3, <2>4, <2>5, <2>6, <2>7 DEF Next
<1>3. Spec => []CarefulInv
  BY CarefulExchange
<1> QED
  BY <1>1, <1>2, <1>3, PTL DEF Spec, IsAtomic, Atomic!Spec, view

=============================================================================
