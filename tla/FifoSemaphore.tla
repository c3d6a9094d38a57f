--------------------------- MODULE FifoSemaphore ---------------------------
(***************************************************************************)
(* What the gate package promises its callers, without saying how: a       *)
(* first-come first-served counting semaphore with a bounded line.  At     *)
(* most Permits customers are inside, at most Places stand in line, a      *)
(* customer is turned away only when both are full, and whoever leaves     *)
(* hands the permit to the head of the line in the same step.              *)
(*                                                                         *)
(* Gate implements this specification: see Gate!Fifo and GateProofs.       *)
(***************************************************************************)
EXTENDS Integers, Sequences, FiniteSets

CONSTANTS Customers,   \* everybody who may ask for a permit
          Permits,     \* how many may be inside together
          Places       \* how many may stand in line

VARIABLES holders,     \* the customers that own a permit
          waiting,     \* the line, oldest first
          turnedAway   \* the customers that were refused and not yet gone

vars == <<holders, waiting, turnedAway>>

Inside == Cardinality(holders)
InLine == {waiting[i] : i \in DOMAIN waiting}

Init ==
  /\ holders = {}
  /\ waiting = <<>>
  /\ turnedAway = {}

Outside(c) == c \notin holders \cup InLine \cup turnedAway

Enter(c) ==
  /\ Outside(c)
  /\ Inside < Permits
  /\ holders' = holders \cup {c}
  /\ UNCHANGED <<waiting, turnedAway>>

LineUp(c) ==
  /\ Outside(c)
  /\ Inside = Permits
  /\ Len(waiting) < Places
  /\ waiting' = Append(waiting, c)
  /\ UNCHANGED <<holders, turnedAway>>

TurnAway(c) ==
  /\ Outside(c)
  /\ Inside = Permits
  /\ Len(waiting) = Places
  /\ turnedAway' = turnedAway \cup {c}
  /\ UNCHANGED <<holders, waiting>>

Depart(c) ==
  /\ c \in turnedAway
  /\ turnedAway' = turnedAway \ {c}
  /\ UNCHANGED <<holders, waiting>>

Leave(c) ==
  /\ c \in holders
  /\ IF waiting = <<>>
     THEN holders' = holders \ {c} /\ UNCHANGED waiting
     ELSE /\ holders' = (holders \ {c}) \cup {Head(waiting)}
          /\ waiting' = Tail(waiting)
  /\ UNCHANGED turnedAway

Next ==
  \E c \in Customers :
    Enter(c) \/ LineUp(c) \/ TurnAway(c) \/ Depart(c) \/ Leave(c)

Spec == Init /\ [][Next]_vars

=============================================================================
