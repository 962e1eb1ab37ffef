------------------------------- MODULE RtSlot -------------------------------
(***************************************************************************)
(* What the control plane promises about the one real-time slot, without   *)
(* sessions, queues, messages or deadlines: the slot goes from an occupant *)
(* to the next only through warmup, and a fence that frames are checked    *)
(* against moves on with every grant and with every occupant that is cut   *)
(* off while active.  ControlPlane is shown to implement this module, with *)
(* the ring's generation as the fence.                                     *)
(*                                                                         *)
(* This is the promise the code keeps.  SPEC.md promises a fence that moves*)
(* exactly once for every grant; the code moves it twice when an occupant  *)
(* is cut off and another is granted the slot in the same step, see        *)
(* Handover.                                                               *)
(***************************************************************************)
EXTENDS Integers

CONSTANTS
  Clients,   \* those who may occupy the slot
  Nobody,    \* the holder of a free slot
  Modulus    \* the fence is a counter modulo this number

VARIABLES
  holder,   \* the occupant, or Nobody, who is not one of Clients
  stage,    \* "idle", or what the occupant is doing: "warmup", "active", "evicting"
  fence     \* the generation that publications must carry

vars == <<holder, stage, fence>>

Moved(n) == (fence + n) % Modulus

\* Bumps owed when the occupant leaves: an active one must be cut off.
Cut == IF stage = "active" THEN 1 ELSE 0

Init ==
  /\ holder = Nobody
  /\ stage = "idle"
  /\ fence = 0

Grant(i) ==
  /\ stage = "idle"
  /\ holder' = i
  /\ stage' = "warmup"
  /\ fence' = Moved(1)

Activate ==
  /\ stage = "warmup"
  /\ stage' = "active"
  /\ UNCHANGED <<holder, fence>>

\* The occupant is asked to stop.
Wind ==
  /\ stage = "active"
  /\ stage' = "evicting"
  /\ UNCHANGED <<holder, fence>>

\* The occupant has stopped, has gone, or is demoted.
End ==
  /\ stage # "idle"
  /\ holder' = Nobody
  /\ stage' = "idle"
  /\ fence' = Moved(Cut)

\* The occupant leaves and another one is granted the slot in the same step.  An
\* active occupant that times out or disconnects costs two bumps: one where it is
\* cut off and one in do_grant(), which always bumps (control_plane.c).
Handover(i) ==
  /\ stage # "idle"
  /\ i # holder
  /\ holder' = i
  /\ stage' = "warmup"
  /\ fence' = Moved(Cut + 1)

Next ==
  \/ Activate
  \/ Wind
  \/ End
  \/ \E i \in Clients : Grant(i) \/ Handover(i)

Spec == Init /\ [][Next]_vars
=============================================================================
