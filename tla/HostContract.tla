---------------------------- MODULE HostContract ----------------------------
(***************************************************************************)
(* What Forge Runtime relies on when it sends messages to its host: a      *)
(* session works or rests, a message waits until it is heard or withdrawn, *)
(* and a session settles only when no message waits, and does settle.      *)
(***************************************************************************)
EXTENDS Naturals

CONSTANT MaxMessages

VARIABLES working, waiting, heard, withdrawn

vars == <<working, waiting, heard, withdrawn>>

Numbers == 1..MaxMessages

Init == working = FALSE /\ waiting = {} /\ heard = {} /\ withdrawn = {}

Queue(n) ==
  /\ n \notin heard \cup withdrawn
  /\ waiting' = waiting \cup {n}
  /\ UNCHANGED <<working, heard, withdrawn>>

Withdraw(some) ==
  /\ some # {} /\ some \subseteq waiting
  /\ waiting' = waiting \ some
  /\ withdrawn' = withdrawn \cup some
  /\ UNCHANGED <<working, heard>>

\* A prompt, or a message with a turn, of a resting session is heard at once.
Start(new) ==
  /\ ~working
  /\ new \cap (heard \cup waiting \cup withdrawn) = {}
  /\ working' = TRUE
  /\ heard' = heard \cup new
  /\ UNCHANGED <<waiting, withdrawn>>

Hear(some) ==
  /\ working
  /\ some # {} /\ some \subseteq waiting
  /\ heard' = heard \cup some
  /\ waiting' = waiting \ some
  /\ UNCHANGED <<working, withdrawn>>

Settle ==
  /\ working /\ waiting = {}
  /\ working' = FALSE
  /\ UNCHANGED <<waiting, heard, withdrawn>>

Next ==
  \/ \E n \in Numbers : Queue(n)
  \/ \E new \in {{}} \cup {{n} : n \in Numbers} : Start(new)
  \/ \E some \in SUBSET waiting : Hear(some) \/ Withdraw(some)
  \/ Settle

Comes == working ~> ~working

Spec == Init /\ [][Next]_vars /\ Comes

=============================================================================
