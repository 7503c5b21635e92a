----------------------------- MODULE EventQueue -----------------------------
(***************************************************************************)
(* What keyboard.c promises whoever installs a callback: the latest        *)
(* Capacity events wait in a queue, the oldest one makes room when it is   *)
(* full, and once somebody listens each new event hands over the oldest    *)
(* one that waits.                                                         *)
(***************************************************************************)
EXTENDS Naturals, Sequences

CONSTANTS
  Capacity,
  Events

VARIABLES
  queue,     (* the events that wait, oldest first                          *)
  out,       (* the events handed to the listener                           *)
  listening

vars == <<queue, out, listening>>

\* The queue after an event, which pushes the oldest one out if there is no room.
With(e) ==
  IF Len(queue) < Capacity THEN Append(queue, e) ELSE Append(Tail(queue), e)

Init ==
  /\ queue = <<>>
  /\ out = <<>>
  /\ listening = FALSE

Listen ==
  /\ ~listening
  /\ listening' = TRUE
  /\ UNCHANGED <<queue, out>>

Wait(e) ==
  /\ ~listening
  /\ queue' = With(e)
  /\ UNCHANGED <<out, listening>>

Hand(e) ==
  /\ listening
  /\ queue' = Tail(With(e))
  /\ out' = Append(out, Head(With(e)))
  /\ UNCHANGED listening

Next == Listen \/ \E e \in Events : Wait(e) \/ Hand(e)

Spec == Init /\ [][Next]_vars
=============================================================================
