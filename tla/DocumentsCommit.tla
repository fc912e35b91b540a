-------------------------- MODULE DocumentsCommit --------------------------
(***************************************************************************)
(* commitDocumentsBundle of forge-runtime/src/artifacts/documents-writer.ts*)
(* one file-system call after the other, with the session that calls it,   *)
(* people who edit the documents meanwhile, calls that fail and a process  *)
(* that dies.                                                              *)
(*                                                                         *)
(* The hash of the documents is modelled by the documents: two contents    *)
(* never have one hash.  An edit writes a text that was not there before.  *)
(* The .tmp and .bak names of a call hold its UUID, so no later call meets *)
(* them.                                                                   *)
(***************************************************************************)
EXTENDS DocumentContent, FiniteSets

CONSTANTS
  MaxFaults,     \* file-system calls that fail
  MaxCrashes,    \* deaths of the process
  EditorsWait    \* nobody edits while files are being exchanged

ASSUME EnvironmentAssumption ==
  MaxFaults \in Nat /\ MaxCrashes \in Nat /\ EditorsWait \in BOOLEAN

VARIABLES
  files,      \* the documents
  base,       \* documentsBaseHash, if the session has one
  pc, i,      \* the step of the running call and the document it is at
  staged,     \* the .tmp file of each document
  existed,    \* the documents that were there when they were staged
  backup,     \* the .bak file of each document
  installed,  \* the documents whose staged file is linked into place
  outcome,    \* what the last call returned; "throw" when it did not return
  litter,     \* the .bak files that ended calls left behind
  written,    \* history: the text each document was last given by hand, or 0
  calls, edits, faults, crashes

call == <<pc, i, staged, existed, backup, installed>>
vars == <<files, base, call, outcome, litter, written, calls, edits, faults, crashes>>

-----------------------------------------------------------------------------
Nothing == [d \in Documents |-> {}]

Init ==
  /\ files \in InitialDocuments
  /\ base = {}
  /\ pc = "idle" /\ i = 1 /\ staged = Nothing /\ existed = {} /\ backup = Nothing /\ installed = {}
  /\ outcome = "none" /\ litter = Nothing
  /\ written = [d \in Documents |-> IF files[d] = {} THEN 0 ELSE 1]
  /\ calls = 0 /\ edits = 1 /\ faults = 0 /\ crashes = 0

\* The people.  They write around the block, may break its markers, and may
\* remove the file.
Exchanging == pc \in {"backup", "install", "drop", "remove", "restore"}

Edit(d) ==
  /\ edits < MaxEdits
  /\ EditorsWait => ~Exchanging
  /\ edits' = edits + 1
  /\ \/ \E torn \in BOOLEAN :
          /\ files' = [files EXCEPT ![d] =
               {[text |-> edits', block |-> IF @ = {} THEN 0 ELSE (CHOOSE f \in @ : TRUE).block,
                 torn |-> torn]}]
          /\ written' = [written EXCEPT ![d] = edits']
     \/ /\ files[d] # {}
        /\ files' = [files EXCEPT ![d] = {}]
        /\ written' = [written EXCEPT ![d] = 0]
  /\ UNCHANGED <<base, call, outcome, litter, calls, faults, crashes>>

\* Mutant: what was captured before is accepted too.
CaptureBaseAlso ==
  /\ pc = "idle"
  /\ base' = base \cup {files}
  /\ UNCHANGED <<files, call, outcome, litter, written, calls, edits, faults, crashes>>

\* The session: a Knowledge package was accepted, or the workflow cancelled.
CaptureBase ==
  /\ pc = "idle"
  /\ base' = {files}
  /\ UNCHANGED <<files, call, outcome, litter, written, calls, edits, faults, crashes>>
ForgetBase ==
  /\ pc = "idle"
  /\ base' = {}
  /\ UNCHANGED <<files, call, outcome, litter, written, calls, edits, faults, crashes>>

-----------------------------------------------------------------------------
(* The call.                                                               *)

Goto(step, d) == pc' = step /\ i' = d

\* The call is over; .bak files that are still there stay behind.
Return(result, left) ==
  /\ outcome' = result
  /\ Goto("idle", 1)
  /\ staged' = Nothing /\ existed' = {} /\ installed' = {} /\ backup' = Nothing
  /\ litter' = [d \in Documents |-> litter[d] \cup left[d]]

\* A file-system call fails and has no effect.
Fault == faults < MaxFaults /\ faults' = faults + 1

\* The exception handler: the roll-back goes from the last document to the first.
Fail == Goto("remove", NumDocuments) /\ outcome' = "failed"

\* The documents are compared with the base before anything is written.
Begin ==
  /\ pc = "idle" /\ base # {} /\ calls < MaxCalls
  /\ calls' = calls + 1
  /\ IF files \in base
       THEN Goto("stage", 1) /\ UNCHANGED <<staged, existed, backup, installed, outcome, litter>>
       ELSE Return("conflict", Nothing)
  /\ UNCHANGED <<files, base, written, edits, faults, crashes>>

\* A document is read and the new one is written beside it.  Broken markers
\* are an error.
Stage ==
  /\ pc = "stage"
  /\ \/ /\ \A f \in files[i] : ~f.torn
        /\ staged' = [staged EXCEPT ![i] = Merge(files[i], calls)]
        /\ existed' = IF files[i] = {} THEN existed ELSE existed \cup {i}
        /\ IF i = NumDocuments THEN Goto("recheck", 1) ELSE Goto("stage", i + 1)
        /\ UNCHANGED <<outcome, faults>>
     \/ (Fault \/ ((\E f \in files[i] : f.torn) /\ UNCHANGED faults)) /\ Fail
        /\ UNCHANGED <<staged, existed>>
  /\ UNCHANGED <<files, base, backup, installed, litter, written, calls, edits, crashes>>

\* A document that was there is moved away first.
FirstStep(d) == IF d \in existed THEN "backup" ELSE "install"

\* Mutant: the documents are not compared again.
RecheckNothing ==
  /\ pc = "recheck"
  /\ Goto(FirstStep(1), 1)
  /\ UNCHANGED <<files, base, staged, existed, backup, installed, outcome, litter, written, calls,
                 edits, faults, crashes>>

\* The documents are compared with the base again, before any is touched.
Recheck ==
  /\ pc = "recheck"
  /\ IF files \in base THEN Goto(FirstStep(1), 1) /\ UNCHANGED outcome
                       ELSE Goto("clean", 1) /\ outcome' = "conflict"
  /\ UNCHANGED <<files, base, staged, existed, backup, installed, litter, written, calls, edits,
                 faults, crashes>>

BackUp ==
  /\ pc = "backup"
  /\ \/ /\ files[i] # {}
        /\ backup' = [backup EXCEPT ![i] = files[i]]
        /\ files' = [files EXCEPT ![i] = {}]
        /\ Goto("install", i) /\ UNCHANGED <<outcome, faults>>
     \/ (Fault \/ (files[i] = {} /\ UNCHANGED faults)) /\ Fail
        /\ UNCHANGED <<files, backup>>
  /\ UNCHANGED <<base, staged, existed, installed, litter, written, calls, edits, crashes>>

\* The staged file is linked into place, which fails when there is a file.
Install ==
  /\ pc = "install"
  /\ \/ /\ files[i] = {}
        /\ files' = [files EXCEPT ![i] = staged[i]]
        /\ installed' = installed \cup {i}
        /\ Goto("drop", i) /\ UNCHANGED <<outcome, faults>>
     \/ (Fault \/ (files[i] # {} /\ UNCHANGED faults)) /\ Fail
        /\ UNCHANGED <<files, installed>>
  /\ UNCHANGED <<base, staged, existed, backup, litter, written, calls, edits, crashes>>

\* After the last document there is no way back.
Drop ==
  /\ pc = "drop"
  /\ \/ /\ staged' = [staged EXCEPT ![i] = {}]
        /\ IF i = NumDocuments THEN Goto("clean", 1) /\ outcome' = "committed"
                               ELSE Goto(FirstStep(i + 1), i + 1) /\ UNCHANGED outcome
        /\ UNCHANGED faults
     \/ Fault /\ Fail /\ UNCHANGED staged
  /\ UNCHANGED <<files, base, existed, backup, installed, litter, written, calls, edits, crashes>>

-----------------------------------------------------------------------------
(* The roll-back, the temporary files and the end of the call.             *)

NextRollback == IF i = 1 THEN Goto("clean", 1) ELSE Goto("remove", i - 1)

\* Mutant: a document that was not there before stays installed.
RemoveReplaced ==
  /\ pc = "remove"
  /\ \/ /\ files' = IF i \in installed /\ backup[i] # {} THEN [files EXCEPT ![i] = {}] ELSE files
        /\ Goto("restore", i) /\ UNCHANGED <<outcome, faults>>
     \/ i \in installed /\ Fault /\ NextRollback /\ outcome' = "incomplete" /\ UNCHANGED files
  /\ UNCHANGED <<base, staged, existed, backup, installed, litter, written, calls, edits, crashes>>

\* A document that cannot be removed is not restored either.
Remove ==
  /\ pc = "remove"
  /\ \/ /\ files' = IF i \in installed THEN [files EXCEPT ![i] = {}] ELSE files
        /\ Goto("restore", i) /\ UNCHANGED <<outcome, faults>>
     \/ i \in installed /\ Fault /\ NextRollback /\ outcome' = "incomplete" /\ UNCHANGED files
  /\ UNCHANGED <<base, staged, existed, backup, installed, litter, written, calls, edits, crashes>>

\* The rename puts the backup in the place of whatever is there.
Restore ==
  /\ pc = "restore"
  /\ NextRollback
  /\ \/ /\ files' = IF backup[i] # {} THEN [files EXCEPT ![i] = backup[i]] ELSE files
        /\ backup' = [backup EXCEPT ![i] = {}]
        /\ UNCHANGED <<outcome, faults>>
     \/ backup[i] # {} /\ Fault /\ outcome' = "incomplete" /\ UNCHANGED <<files, backup>>
  /\ UNCHANGED <<base, staged, existed, installed, litter, written, calls, edits, crashes>>

\* The finally block removes the staged files.
Clean ==
  /\ pc = "clean"
  /\ \/ /\ IF outcome = "committed"
             THEN /\ Goto("tidy", 1) /\ staged' = Nothing
                  /\ UNCHANGED <<existed, backup, installed, outcome, litter>>
             ELSE Return(outcome, backup)
        /\ UNCHANGED faults
     \/ Fault /\ Return("throw", backup)
  /\ UNCHANGED <<files, base, written, calls, edits, crashes>>

\* Mutant: the backups stay.
TidyNothing ==
  /\ pc = "tidy"
  /\ Return("committed", backup)
  /\ base' = {}
  /\ UNCHANGED <<files, written, calls, edits, faults, crashes>>

\* The .bak files are removed in order, and the documents are captured once
\* more, outside any exception handler.  The session has no use for the base
\* of a bundle that was committed.
Tidy ==
  /\ pc = "tidy"
  /\ \/ Return("committed", Nothing) /\ base' = {} /\ UNCHANGED faults
     \/ /\ Fault /\ UNCHANGED base
        /\ \E first \in 1 .. NumDocuments + 1 :
             Return("throw", [d \in Documents |-> IF d >= first THEN backup[d] ELSE {}])
  /\ UNCHANGED <<files, written, calls, edits, crashes>>

\* The session ends with its process; its next one knows nothing of this call.
Crash ==
  /\ pc # "idle" /\ crashes < MaxCrashes
  /\ crashes' = crashes + 1
  /\ base' = {}
  /\ Return("none", backup)
  /\ UNCHANGED <<files, written, calls, edits, faults>>

Next ==
  \/ (\E d \in Documents : Edit(d)) \/ CaptureBase \/ ForgetBase
  \/ Begin \/ Stage \/ Recheck \/ BackUp \/ Install \/ Drop
  \/ Remove \/ Restore \/ Clean \/ Tidy \/ Crash

Spec == Init /\ [][Next]_vars

-----------------------------------------------------------------------------
OptionalFiles == {{}} \cup {{f} : f \in Files}

TypeOK ==
  /\ files \in [Documents -> OptionalFiles] /\ staged \in [Documents -> OptionalFiles]
  /\ backup \in [Documents -> OptionalFiles] /\ litter \in [Documents -> SUBSET Files]
  /\ base \subseteq [Documents -> OptionalFiles] /\ Cardinality(base) <= 1
  /\ pc \in {"idle", "stage", "recheck", "backup", "install", "drop", "remove", "restore",
             "clean", "tidy"}
  /\ i \in Documents /\ existed \subseteq Documents /\ installed \subseteq Documents
  /\ outcome \in {"none", "committed", "conflict", "failed", "incomplete", "throw"}
  /\ written \in [Documents -> 0 .. MaxEdits]
  /\ calls \in 0 .. MaxCalls /\ edits \in 0 .. MaxEdits
  /\ faults \in 0 .. MaxFaults /\ crashes \in 0 .. MaxCrashes

\* What was written by hand is never lost: it stands in the document, or in a
\* .bak file beside it, at every moment, whatever fails and wherever the
\* process dies.
UnmanagedContentKept ==
  \A d \in Documents :
    written[d] # 0 => \E f \in files[d] \cup backup[d] \cup litter[d] : f.text = written[d]

\* A call that returns without reporting a failed roll-back removes its .bak
\* files.
BackupsLeftOnlyByTrouble ==
  [][litter' # litter => outcome' \in {"throw", "incomplete"} \/ crashes' > crashes]_vars

\* A reader's view of the documents while the call can still take its changes back.
Original(d) == IF backup[d] # {} THEN backup[d] ELSE IF d \in installed THEN {} ELSE files[d]

Settled(d) ==
  IF pc \in {"remove", "restore"} THEN d > i ELSE pc \notin {"backup", "install", "drop"}

Atomic == INSTANCE AtomicDocuments WITH
  docs <- [d \in Documents |-> IF Settled(d) THEN files[d] ELSE Original(d)]

\* The call is an atomic commit of the bundle, on the documents the session
\* captured: AtomicDocuments says what a failed roll-back and a crash may leave.
IsAtomic == Atomic!Spec

=============================================================================
