------------------------------ MODULE Delivery ------------------------------
(***************************************************************************)
(* What the outbox promises about a message, whatever its workers do: once *)
(* queued it stays queued until it is finished or given up; it is finished *)
(* only after the recipient got it; neither end is ever taken back.        *)
(* The recipient may get it more than once, and even after it is over.     *)
(***************************************************************************)
CONSTANTS Messages

VARIABLES
  phase,  \* per message: new, queued, finished or given up
  got     \* messages the recipient has got

vars == <<phase, got>>

TypeOK ==
  /\ phase \in [Messages -> {"new", "queued", "finished", "given_up"}]
  /\ got \subseteq Messages

Init ==
  /\ phase = [m \in Messages |-> "new"]
  /\ got = {}

Move(m, from, to) ==
  /\ phase[m] = from
  /\ phase' = [phase EXCEPT ![m] = to]
  /\ UNCHANGED got

Queue(m) == Move(m, "new", "queued")

Arrive(m) ==
  /\ phase[m] # "new"
  /\ got' = got \cup {m}
  /\ UNCHANGED phase

Finish(m) == m \in got /\ Move(m, "queued", "finished")
GiveUp(m) == Move(m, "queued", "given_up")

Next == \E m \in Messages : Queue(m) \/ Arrive(m) \/ Finish(m) \/ GiveUp(m)

Spec == Init /\ [][Next]_vars
=============================================================================
