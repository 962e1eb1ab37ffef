------------------------- MODULE ControlPlaneProofs -------------------------
(***************************************************************************)
(* Proofs that the control plane keeps its invariants for every number of  *)
(* slots, set of client ids, set of modes, width of the generation counter *)
(* and bound on the stamps.                                                *)
(*                                                                         *)
(* The operators of ControlPlane are functions from record to record, and  *)
(* so are the lemmas: first what each C helper does to each field, then    *)
(* that each handler keeps Inv, then one step per action.                  *)
(*                                                                         *)
(* Inv adds two facts to the properties: a session past CONNECTED has a    *)
(* supported mode (a grant needs one), and a free slot is in CONNECTED (so *)
(* that a new connection starts outside the RT slot and the queue).        *)
(***************************************************************************)
EXTENDS ControlPlane, MinTheorems, FiniteSetTheorems, TLAPS

\* Slot indices are naturals, finitely many, and -1 is not one of them.
LEMMA SlotsNat == Slots \subseteq Nat /\ None \notin Slots /\ IsFiniteSet(Slots)
<1>1. IsFiniteSet(0 .. MaxClients - 1)
  BY FS_Interval, MaxClientsAssumption
<1> QED BY <1>1, MaxClientsAssumption DEF Slots, None

\* A table scan returns -1 exactly when nothing matches, and a matching slot
\* otherwise.
LEMMA FirstOfIsMember ==
  ASSUME NEW S \in SUBSET Slots
  PROVE  /\ S = {} => FirstOf(S) = None
         /\ S # {} => FirstOf(S) \in S
BY MinIsLeast, SlotsNat DEF FirstOf

\* wisps_evict_client() changes the generation and nothing else of the struct.
LEMMA EvictClientFields ==
  ASSUME NEW c \in ControlPlanes
  PROVE  /\ evict_client(c) \in ControlPlanes
         /\ evict_client(c).generation = (c.generation + 1) % GenModulus
         /\ evict_client(c).slots = c.slots
         /\ evict_client(c).active_slot = c.active_slot
         /\ evict_client(c).evicting_slot = c.evicting_slot
         /\ evict_client(c).pending_grant_target = c.pending_grant_target
         /\ evict_client(c).dp_mode = c.dp_mode
<1>1. (c.generation + 1) % GenModulus \in Generations
  BY GenAssumption DEF ControlPlanes, Generations
<1> QED BY <1>1 DEF evict_client, ControlPlanes

\* Sending a message changes only the outgoing messages.
LEMMA SendFields ==
  ASSUME NEW c \in ControlPlanes, NEW to \in Slots \cup {Admin},
         NEW kind \in MessageKinds, NEW arg \in Nat
  PROVE  /\ Send(c, to, kind, arg) \in ControlPlanes
         /\ Send(c, to, kind, arg).slots = c.slots
         /\ Send(c, to, kind, arg).active_slot = c.active_slot
         /\ Send(c, to, kind, arg).evicting_slot = c.evicting_slot
         /\ Send(c, to, kind, arg).pending_grant_target = c.pending_grant_target
         /\ Send(c, to, kind, arg).dp_mode = c.dp_mode
         /\ Send(c, to, kind, arg).generation = c.generation
<1>1. [to |-> to, kind |-> kind, arg |-> arg] \in Message
  BY DEF Message
<1>2. Append(c.out, [to |-> to, kind |-> kind, arg |-> arg]) \in Seq(Message)
  BY <1>1 DEF ControlPlanes
<1> QED BY <1>2 DEF Send, ControlPlanes

\* Storing a session changes one slot of the table and no other field.
LEMMA WithSessionFields ==
  ASSUME NEW c \in ControlPlanes, NEW i \in Slots, NEW s \in Session
  PROVE  /\ WithSession(c, i, s) \in ControlPlanes
         /\ WithSession(c, i, s).slots = [c.slots EXCEPT ![i] = s]
         /\ WithSession(c, i, s).active_slot = c.active_slot
         /\ WithSession(c, i, s).evicting_slot = c.evicting_slot
         /\ WithSession(c, i, s).pending_grant_target = c.pending_grant_target
         /\ WithSession(c, i, s).dp_mode = c.dp_mode
         /\ WithSession(c, i, s).generation = c.generation
<1>1. [c.slots EXCEPT ![i] = s] \in [Slots -> Session]
  BY DEF ControlPlanes
<1> QED BY <1>1 DEF ControlPlanes, WithSession

\* r differs from c, among the sessions, at most in slot i.
OnlySlot(r, c, i) == \A j \in Slots \ {i} : r.slots[j] = c.slots[j]

\* do_grant(): the slot moves to GRANTED_WARMUP with the bumped generation and
\* the data plane takes its mode; every other session and index is untouched.
LEMMA DoGrantFields ==
  ASSUME NEW c \in ControlPlanes, NEW i \in Slots,
         c.slots[i].negotiated_mode \in SupportedModes
  PROVE  /\ do_grant(c, i) \in ControlPlanes
         /\ OnlySlot(do_grant(c, i), c, i)
         /\ do_grant(c, i).slots[i].in_use = c.slots[i].in_use
         /\ do_grant(c, i).slots[i].state = "GRANTED_WARMUP"
         /\ do_grant(c, i).slots[i].granted_generation = do_grant(c, i).generation
         /\ do_grant(c, i).slots[i].negotiated_mode = c.slots[i].negotiated_mode
         /\ do_grant(c, i).generation = (c.generation + 1) % GenModulus
         /\ do_grant(c, i).active_slot = c.active_slot
         /\ do_grant(c, i).evicting_slot = c.evicting_slot
         /\ do_grant(c, i).pending_grant_target = c.pending_grant_target
         /\ do_grant(c, i).dp_mode = c.slots[i].negotiated_mode
<1> DEFINE d == evict_client(c)
           x == d.slots[i]
           s == [x EXCEPT !.state = "GRANTED_WARMUP",
                          !.granted_generation = d.generation]
           e == table_grant(d, i, d.generation)
           f == Send(e, i, "ACTIVATE_GRANT", d.generation)
           r == [f EXCEPT !.dp_mode = f.slots[i].negotiated_mode]
<1>0. do_grant(c, i) = r
  BY DEF do_grant
<1>1. /\ d \in ControlPlanes
      /\ d.generation = (c.generation + 1) % GenModulus
      /\ d.slots = c.slots
      /\ d.active_slot = c.active_slot
      /\ d.evicting_slot = c.evicting_slot
      /\ d.pending_grant_target = c.pending_grant_target
  BY EvictClientFields
<1> HIDE DEF d
<1>2. /\ s \in Session
      /\ s.in_use = c.slots[i].in_use
      /\ s.state = "GRANTED_WARMUP"
      /\ s.granted_generation = d.generation
      /\ s.negotiated_mode = c.slots[i].negotiated_mode
  <2>1. x \in Session /\ d.generation \in Generations /\ x = c.slots[i]
    BY <1>1 DEF ControlPlanes
  <2> HIDE DEF x
  <2>2. /\ s \in Session
        /\ s.in_use = x.in_use
        /\ s.state = "GRANTED_WARMUP"
        /\ s.granted_generation = d.generation
        /\ s.negotiated_mode = x.negotiated_mode
    BY <2>1 DEF Session, SessionStates
  <2> HIDE DEF s
  <2> QED BY <2>1, <2>2
<1>3. e = WithSession(d, i, s)
  BY DEF table_grant
<1> HIDE DEF e, s
<1>4. /\ e \in ControlPlanes
      /\ e.slots = [d.slots EXCEPT ![i] = s]
      /\ e.generation = d.generation
      /\ e.active_slot = d.active_slot
      /\ e.evicting_slot = d.evicting_slot
      /\ e.pending_grant_target = d.pending_grant_target
  BY <1>1, <1>2, <1>3, WithSessionFields
<1>5. /\ f \in ControlPlanes
      /\ f.slots = e.slots
      /\ f.generation = e.generation
      /\ f.active_slot = e.active_slot
      /\ f.evicting_slot = e.evicting_slot
      /\ f.pending_grant_target = e.pending_grant_target
  <2>1. d.generation \in Nat
    BY <1>1, GenAssumption DEF ControlPlanes, Generations
  <2>2. i \in Slots \cup {Admin} /\ "ACTIVATE_GRANT" \in MessageKinds
    BY DEF MessageKinds
  <2> QED BY <1>4, <2>1, <2>2, SendFields
<1> HIDE DEF f
<1>6. f.slots[i] = s /\ OnlySlot(f, c, i)
  BY <1>1, <1>4, <1>5 DEF ControlPlanes, OnlySlot
<1>7. /\ r \in ControlPlanes
      /\ r.slots = f.slots
      /\ r.generation = f.generation
      /\ r.active_slot = f.active_slot
      /\ r.evicting_slot = f.evicting_slot
      /\ r.pending_grant_target = f.pending_grant_target
      /\ r.dp_mode = f.slots[i].negotiated_mode
  BY <1>1, <1>2, <1>5, <1>6 DEF ControlPlanes
<1> HIDE DEF r
<1> QED BY <1>0, <1>1, <1>2, <1>4, <1>5, <1>6, <1>7 DEF OnlySlot

-----------------------------------------------------------------------------

\* A session past CONNECTED has negotiated a mode.
ModeKnown(c) ==
  \A i \in Slots :
    c.slots[i].state # "CONNECTED" => c.slots[i].negotiated_mode \in SupportedModes

\* A slot that is not in use is in its initial state.
FreeClean(c) ==
  \A i \in Slots : ~ c.slots[i].in_use => c.slots[i].state = "CONNECTED"

\* The inductive invariant.
Inv(c) ==
  /\ c \in ControlPlanes
  /\ AtMostOne(c)
  /\ ActiveCached(c)
  /\ EvictingCached(c)
  /\ PendingLive(c)
  /\ PendingReady(c)
  /\ HolderCurrent(c)
  /\ ModeMatches(c)
  /\ ModeKnown(c)
  /\ FreeClean(c)

\* do_grant() on a free RT slot keeps the invariant and makes the grantee the
\* only occupant.
LEMMA DoGrantInv ==
  ASSUME NEW c, Inv(c), NEW i \in Slots,
         c.slots[i].in_use, c.slots[i].state \in Grantable, Holders(c) = {}
  PROVE  Inv(do_grant(c, i)) /\ Holders(do_grant(c, i)) = {i}
<1> DEFINE r == do_grant(c, i)
<1>1. c \in ControlPlanes /\ c.slots[i].negotiated_mode \in SupportedModes
  BY DEF Inv, ModeKnown, Grantable
<1>2. /\ r \in ControlPlanes
      /\ OnlySlot(r, c, i)
      /\ r.slots[i].in_use
      /\ r.slots[i].state = "GRANTED_WARMUP"
      /\ r.slots[i].granted_generation = r.generation
      /\ r.slots[i].negotiated_mode = c.slots[i].negotiated_mode
      /\ r.active_slot = c.active_slot
      /\ r.evicting_slot = c.evicting_slot
      /\ r.pending_grant_target = c.pending_grant_target
      /\ r.dp_mode = c.slots[i].negotiated_mode
  BY <1>1, DoGrantFields
<1> HIDE DEF r
<1>3. \A j \in Slots \ {i} : r.slots[j] = c.slots[j]
  BY <1>2 DEF OnlySlot
<1>4. Holders(r) = {i}
  BY <1>2, <1>3 DEF Holders, HoldingStates
<1>5. AtMostOne(r) /\ HolderCurrent(r) /\ ModeMatches(r)
  BY <1>2, <1>3, <1>4 DEF AtMostOne, HolderCurrent, ModeMatches
<1>6. ActiveCached(r)
  BY <1>2, <1>3 DEF Inv, ActiveCached, Grantable
<1>7. EvictingCached(r)
  BY <1>2, <1>3 DEF Inv, EvictingCached, Grantable
<1>8. r.evicting_slot = None
  BY <1>2 DEF Inv, EvictingCached, Holders, HoldingStates, ControlPlanes, SlotOrNone
<1>9. PendingLive(r) /\ PendingReady(r)
  BY <1>1, <1>2, <1>3, <1>8
     DEF Inv, PendingLive, PendingReady, ControlPlanes, SlotOrNone
<1>10. ModeKnown(r) /\ FreeClean(r)
  BY <1>1, <1>2, <1>3 DEF Inv, ModeKnown, FreeClean
<1> QED BY <1>2, <1>4, <1>5, <1>6, <1>7, <1>9, <1>10 DEF Inv, r

\* pending_grant_target alone changes.
LEMMA SetPendingInv ==
  ASSUME NEW c, Inv(c), NEW t \in SlotOrNone,
         t # None => /\ c.slots[t].in_use
                     /\ c.slots[t].state \in Grantable
  PROVE  LET d == [c EXCEPT !.pending_grant_target = t]
         IN  Inv(d) /\ d.slots = c.slots /\ d.generation = c.generation
<1> DEFINE d == [c EXCEPT !.pending_grant_target = t]
<1>1. c \in ControlPlanes
  BY DEF Inv
<1>2. /\ d \in ControlPlanes
      /\ d.slots = c.slots
      /\ d.active_slot = c.active_slot
      /\ d.evicting_slot = c.evicting_slot
      /\ d.pending_grant_target = t
      /\ d.dp_mode = c.dp_mode
      /\ d.generation = c.generation
  BY <1>1 DEF ControlPlanes
<1> HIDE DEF d
<1>3. Holders(d) = Holders(c)
  BY <1>2 DEF Holders
<1>4. AtMostOne(d) /\ HolderCurrent(d) /\ ModeMatches(d)
  BY <1>2, <1>3 DEF Inv, AtMostOne, HolderCurrent, ModeMatches
<1>5. ActiveCached(d) /\ EvictingCached(d) /\ ModeKnown(d) /\ FreeClean(d)
  BY <1>2 DEF Inv, ActiveCached, EvictingCached, ModeKnown, FreeClean
<1>6. PendingLive(d) /\ PendingReady(d)
  BY <1>2 DEF PendingLive, PendingReady, Grantable, SlotOrNone
<1>7. Inv(d)
  BY <1>2, <1>4, <1>5, <1>6 DEF Inv
<1> QED BY <1>2, <1>7 DEF d

\* finish_pending_grant() keeps the invariant when the RT slot is free.
LEMMA FinishPendingInv ==
  ASSUME NEW c, Inv(c), Holders(c) = {}
  PROVE  Inv(finish_pending_grant(c))
<1> DEFINE t == c.pending_grant_target
           d == [c EXCEPT !.pending_grant_target = None]
<1>1. Inv(d) /\ d.slots = c.slots
  BY SetPendingInv DEF SlotOrNone
<1>2. Holders(d) = {} /\ t \in SlotOrNone
  BY <1>1 DEF Holders, Inv, ControlPlanes
<1> HIDE DEF d
<1>3. t # None /\ d.slots[t].in_use /\ d.slots[t].state \in Grantable
        => Inv(do_grant(d, t))
  BY <1>1, <1>2, DoGrantInv DEF SlotOrNone
<1> QED BY <1>1, <1>3 DEF finish_pending_grant, d

\* The occupant i moves to state s; nothing else about the sessions changes.
Moved(c, d, i, s) ==
  /\ Holders(c) = {i}
  /\ Holders(d) = {i}
  /\ OnlySlot(d, c, i)
  /\ d.slots[i].state = s
  /\ d.slots[i].granted_generation = c.slots[i].granted_generation
  /\ d.generation = c.generation

\* begin_eviction() of the active session in favour of a grantable one keeps the
\* invariant.
LEMMA BeginEvictionInv ==
  ASSUME NEW c, Inv(c), NEW p \in Slots, c.active_slot = p, NEW i \in Slots,
         c.slots[i].in_use, c.slots[i].state \in Grantable
  PROVE  /\ Inv(begin_eviction(c, p, i))
         /\ Moved(c, begin_eviction(c, p, i), p, "EVICTING_COOPERATIVE")
<1> DEFINE x == c.slots[p]
           s == [x EXCEPT !.state = "EVICTING_COOPERATIVE"]
           d == WithSession(c, p, s)
           e == [d EXCEPT !.active_slot = IF @ = p THEN None ELSE @]
           f == Send(e, p, "EVICT_PENDING", 0)
           r == [f EXCEPT !.evicting_slot = p,
                          !.pending_grant_target = i,
                          !.grace_over = FALSE]
<1>1. c \in ControlPlanes /\ x.in_use /\ x.state = "ACTIVE_RT" /\ i # p
  BY DEF Inv, ActiveCached, Grantable
<1>2. begin_eviction(c, p, i) = r
  BY <1>1 DEF begin_eviction, table_begin_eviction, LeaveActive, SetState
<1>3. x \in Session
  BY <1>1 DEF ControlPlanes
<1>4. /\ s \in Session
      /\ s.in_use = x.in_use
      /\ s.state = "EVICTING_COOPERATIVE"
      /\ s.granted_generation = x.granted_generation
      /\ s.negotiated_mode = x.negotiated_mode
  <2> HIDE DEF x
  <2> QED BY <1>3 DEF Session, SessionStates
<1> HIDE DEF s
<1>5. /\ d \in ControlPlanes
      /\ d.slots = [c.slots EXCEPT ![p] = s]
      /\ d.active_slot = p
      /\ d.evicting_slot = c.evicting_slot
      /\ d.dp_mode = c.dp_mode
      /\ d.generation = c.generation
  BY <1>1, <1>4, WithSessionFields
<1> HIDE DEF d
<1>6. /\ e \in ControlPlanes
      /\ e.slots = d.slots
      /\ e.active_slot = None
      /\ e.dp_mode = d.dp_mode
      /\ e.generation = d.generation
  BY <1>5 DEF ControlPlanes, SlotOrNone
<1> HIDE DEF e
<1>7. /\ f \in ControlPlanes
      /\ f.slots = e.slots
      /\ f.active_slot = None
      /\ f.dp_mode = e.dp_mode
      /\ f.generation = e.generation
  <2>1. p \in Slots \cup {Admin} /\ "EVICT_PENDING" \in MessageKinds /\ 0 \in Nat
    BY DEF MessageKinds
  <2> QED BY <1>6, <2>1, SendFields
<1> HIDE DEF f
<1>8. /\ r \in ControlPlanes
      /\ r.slots = f.slots
      /\ r.active_slot = None
      /\ r.evicting_slot = p
      /\ r.pending_grant_target = i
      /\ r.dp_mode = f.dp_mode
      /\ r.generation = f.generation
  BY <1>7 DEF ControlPlanes, SlotOrNone
<1> HIDE DEF r
<1>9. /\ \A j \in Slots \ {p} : r.slots[j] = c.slots[j]
      /\ r.slots[p] = s
      /\ r.dp_mode = c.dp_mode
      /\ r.generation = c.generation
  BY <1>1, <1>5, <1>6, <1>7, <1>8 DEF ControlPlanes
<1>10. Holders(c) = {p}
  BY <1>1 DEF Inv, AtMostOne, Holders, HoldingStates
<1>11. Holders(r) = {p}
  BY <1>4, <1>1, <1>9, <1>10, ZenonT(60) DEF Holders, HoldingStates
<1>12. AtMostOne(r) /\ HolderCurrent(r) /\ ModeMatches(r)
  BY <1>4, <1>9, <1>10, <1>11
     DEF Inv, AtMostOne, HolderCurrent, ModeMatches
<1>13. ActiveCached(r)
  BY <1>4, <1>8, <1>9, SlotsNat DEF Inv, ActiveCached
<1>14. EvictingCached(r)
  <2>1. \A j \in Slots : j # p =>
          ~ (c.slots[j].in_use /\ c.slots[j].state = "EVICTING_COOPERATIVE")
    BY <1>10 DEF Holders, HoldingStates
  <2>2. \A j \in Slots :
          r.evicting_slot = j
            <=> r.slots[j].in_use /\ r.slots[j].state = "EVICTING_COOPERATIVE"
    BY <1>1, <1>4, <1>8, <1>9, <2>1, ZenonT(60)
  <2>3. \A j \in Slots : c.slots[j].state \notin {"EVICTING_FORCED", "REJECTED"}
    BY DEF Inv, EvictingCached
  <2>4. \A j \in Slots : r.slots[j].state \notin {"EVICTING_FORCED", "REJECTED"}
    BY <1>4, <1>9, <2>3
  <2> QED BY <2>2, <2>4 DEF EvictingCached
<1>15. PendingLive(r) /\ PendingReady(r)
  BY <1>1, <1>8, <1>9 DEF PendingLive, PendingReady, Grantable
<1>16. ModeKnown(r) /\ FreeClean(r)
  BY <1>1, <1>4, <1>9, ZenonT(60) DEF Inv, ModeKnown, FreeClean
<1>17. Inv(r)
  BY <1>8, <1>12, <1>13, <1>14, <1>15, <1>16 DEF Inv
<1>18. Moved(c, r, p, "EVICTING_COOPERATIVE")
  BY <1>4, <1>9, <1>10, <1>11 DEF Moved, OnlySlot
<1> QED BY <1>2, <1>17, <1>18

\* grant_slot() keeps the invariant for every grantable session, in each of its
\* three cases: evict first, remember the target, grant at once.
LEMMA GrantSlotInv ==
  ASSUME NEW c, Inv(c), NEW i \in Slots,
         c.slots[i].in_use, c.slots[i].state \in Grantable
  PROVE  Inv(grant_slot(c, i))
<1>1. c.active_slot \in SlotOrNone /\ c.active_slot # i
  BY DEF Inv, ControlPlanes, ActiveCached, Grantable
<1>2. CASE c.active_slot # None
  <2>1. grant_slot(c, i) = begin_eviction(c, c.active_slot, i)
    BY <1>1, <1>2 DEF grant_slot
  <2> QED BY <1>1, <1>2, <2>1, BeginEvictionInv DEF SlotOrNone
<1>3. CASE c.active_slot = None /\ rt_slot_taken(c)
  <2>1. grant_slot(c, i) = [c EXCEPT !.pending_grant_target = i]
    BY <1>1, <1>3 DEF grant_slot
  <2> QED BY <2>1, SetPendingInv, Zenon DEF SlotOrNone
<1>4. CASE c.active_slot = None /\ ~ rt_slot_taken(c)
  BY <1>4, DoGrantInv DEF grant_slot, rt_slot_taken
<1> QED BY <1>2, <1>3, <1>4

\* find_next_queued() returns -1 or a QUEUED session.
LEMMA NextQueuedIsQueued ==
  ASSUME NEW c
  PROVE  find_next_queued(c) = None \/ find_next_queued(c) \in Queued(c)
<1> DEFINE S == {i \in Queued(c) : \A j \in Queued(c) : ~ ts_less(c, j, i)}
<1>1. S \in SUBSET Slots /\ S \subseteq Queued(c)
  BY DEF Queued
<1>2. find_next_queued(c) = FirstOf(S)
  BY DEF find_next_queued
<1> HIDE DEF S
<1> QED BY <1>1, <1>2, FirstOfIsMember

\* maybe_grant_next_queued() keeps the invariant.
LEMMA MaybeGrantInv ==
  ASSUME NEW c, Inv(c)
  PROVE  Inv(maybe_grant_next_queued(c))
<1> DEFINE next == find_next_queued(c)
<1>1. next # None => /\ next \in Slots
                     /\ c.slots[next].in_use
                     /\ c.slots[next].state \in Grantable
  BY NextQueuedIsQueued DEF Queued, Grantable
<1> HIDE DEF next
<1>2. next # None => Inv(grant_slot(c, next))
  BY <1>1, GrantSlotInv
<1> QED BY <1>2 DEF maybe_grant_next_queued, next

-----------------------------------------------------------------------------

\* What a handler that takes a session out of the RT slot, or changes one that
\* is not in it, must do: leave the other sessions alone, clear the caches that
\* name the session, keep the session well formed, and bump the generation only
\* when nobody else is in the slot.
LEMMA ReleaseInv ==
  ASSUME NEW c, Inv(c), NEW i \in Slots, NEW d \in ControlPlanes,
         OnlySlot(d, c, i),
         d.active_slot = IF c.active_slot = i THEN None ELSE c.active_slot,
         d.evicting_slot = IF c.evicting_slot = i THEN None ELSE c.evicting_slot,
         d.pending_grant_target \in {c.pending_grant_target, None},
         d.pending_grant_target = i =>
           d.slots[i].in_use /\ d.slots[i].state \in Grantable,
         d.slots[i].state \in Grantable \cup {"CONNECTED"},
         ~ d.slots[i].in_use => d.slots[i].state = "CONNECTED",
         d.slots[i].state # "CONNECTED" =>
           d.slots[i].negotiated_mode \in SupportedModes,
         d.dp_mode = c.dp_mode,
         d.generation = c.generation \/ Holders(c) \subseteq {i}
  PROVE  Inv(d) /\ Holders(d) = Holders(c) \ {i}
<1>1. \A j \in Slots \ {i} : d.slots[j] = c.slots[j]
  BY DEF OnlySlot
<1>2. c \in ControlPlanes
  BY DEF Inv
<1>3. Holders(d) = Holders(c) \ {i}
  BY <1>1 DEF Holders, HoldingStates, Grantable
<1>4. AtMostOne(d) /\ ModeMatches(d)
  BY <1>1, <1>3 DEF Inv, AtMostOne, ModeMatches, Holders
<1>5. HolderCurrent(d)
  BY <1>1, <1>3 DEF Inv, HolderCurrent, Holders
<1>6. ActiveCached(d)
  <2>1. \A j \in Slots : c.active_slot = j
          <=> c.slots[j].in_use /\ c.slots[j].state = "ACTIVE_RT"
    BY DEF Inv, ActiveCached
  <2>2. d.active_slot # i /\ d.slots[i].state # "ACTIVE_RT"
    BY SlotsNat DEF Grantable
  <2>3. \A j \in Slots : j # i => (d.active_slot = j <=> c.active_slot = j)
    BY SlotsNat
  <2> QED BY <1>1, <2>1, <2>2, <2>3 DEF ActiveCached
<1>7. EvictingCached(d)
  <2>1. /\ \A j \in Slots : c.evicting_slot = j
              <=> c.slots[j].in_use /\ c.slots[j].state = "EVICTING_COOPERATIVE"
        /\ \A j \in Slots : c.slots[j].state \notin {"EVICTING_FORCED", "REJECTED"}
    BY DEF Inv, EvictingCached
  <2>2. /\ d.evicting_slot # i
        /\ d.slots[i].state
             \notin {"EVICTING_COOPERATIVE", "EVICTING_FORCED", "REJECTED"}
    BY SlotsNat DEF Grantable
  <2>3. \A j \in Slots : j # i => (d.evicting_slot = j <=> c.evicting_slot = j)
    BY SlotsNat
  <2>4. \A j \in Slots : d.evicting_slot = j
          <=> d.slots[j].in_use /\ d.slots[j].state = "EVICTING_COOPERATIVE"
    BY <1>1, <2>1, <2>2, <2>3
  <2>5. \A j \in Slots : d.slots[j].state \notin {"EVICTING_FORCED", "REJECTED"}
    BY <1>1, <2>1, <2>2
  <2> QED BY <2>4, <2>5 DEF EvictingCached
<1>8. PendingLive(d)
  BY <1>1, <1>2 DEF Inv, PendingLive, Grantable, ControlPlanes, SlotOrNone
<1>9. PendingReady(d)
  BY <1>1, <1>2, SlotsNat
     DEF Inv, PendingReady, ControlPlanes, SlotOrNone
<1>10. ModeKnown(d) /\ FreeClean(d)
  BY <1>1 DEF Inv, ModeKnown, FreeClean
<1> QED BY <1>3, <1>4, <1>5, <1>6, <1>7, <1>8, <1>9, <1>10 DEF Inv

\* The bump of the generation that cuts off an active occupant.
CutOff(c, i) == IF c.slots[i].state = "ACTIVE_RT" THEN 1 ELSE 0

\* Nothing is bumped for a session that was not active.
LEMMA NoCut ==
  ASSUME NEW c \in ControlPlanes, NEW i \in Slots, c.slots[i].state # "ACTIVE_RT"
  PROVE  (c.generation + CutOff(c, i)) % GenModulus = c.generation
<1>1. c.generation \in Nat /\ c.generation < GenModulus
  BY GenAssumption DEF ControlPlanes, Generations
<1>2. c.generation % GenModulus = c.generation
  BY <1>1, GenAssumption
<1> QED BY <1>1, <1>2 DEF CutOff

\* How a handler leaves a session that it takes out of the RT slot, or that was
\* not in it: the other sessions are untouched, nobody was granted a generation,
\* and the counter moved only to cut off an active occupant.
Released(c, d, i) ==
  /\ OnlySlot(d, c, i)
  /\ d.slots[i].state \in {"CONNECTED", "NEGOTIATED"}
  /\ d.slots[i].granted_generation \in {c.slots[i].granted_generation, 0}
  /\ d.generation = (c.generation + CutOff(c, i)) % GenModulus
  /\ d.pending_grant_target \in {c.pending_grant_target, None}

\* The fields that Inv does not mention may change at will.
LEMMA SameInv ==
  ASSUME NEW c, Inv(c), NEW d \in ControlPlanes,
         d.slots = c.slots,
         d.active_slot = c.active_slot,
         d.evicting_slot = c.evicting_slot,
         d.pending_grant_target = c.pending_grant_target,
         d.generation = c.generation,
         d.dp_mode = c.dp_mode
  PROVE  Inv(d)
<1>1. Holders(d) = Holders(c)
  BY DEF Holders
<1>2. AtMostOne(d) /\ HolderCurrent(d) /\ ModeMatches(d)
  BY <1>1 DEF Inv, AtMostOne, HolderCurrent, ModeMatches
<1>3. ActiveCached(d) /\ EvictingCached(d) /\ ModeKnown(d) /\ FreeClean(d)
  BY DEF Inv, ActiveCached, EvictingCached, ModeKnown, FreeClean
<1>4. PendingLive(d) /\ PendingReady(d)
  BY DEF Inv, PendingLive, PendingReady
<1> QED BY <1>2, <1>3, <1>4 DEF Inv

\* A state change of a session leaves its other fields, the other sessions and
\* the indices alone.
LEMMA SetStateFields ==
  ASSUME NEW c \in ControlPlanes, NEW i \in Slots, NEW s \in SessionStates
  PROVE  /\ SetState(c, i, s) \in ControlPlanes
         /\ OnlySlot(SetState(c, i, s), c, i)
         /\ SetState(c, i, s).slots[i].in_use = c.slots[i].in_use
         /\ SetState(c, i, s).slots[i].state = s
         /\ SetState(c, i, s).slots[i].negotiated_mode = c.slots[i].negotiated_mode
         /\ SetState(c, i, s).slots[i].granted_generation
              = c.slots[i].granted_generation
         /\ SetState(c, i, s).active_slot = c.active_slot
         /\ SetState(c, i, s).evicting_slot = c.evicting_slot
         /\ SetState(c, i, s).pending_grant_target = c.pending_grant_target
         /\ SetState(c, i, s).dp_mode = c.dp_mode
         /\ SetState(c, i, s).generation = c.generation
<1> DEFINE x == c.slots[i]
           y == [x EXCEPT !.state = s]
           d == WithSession(c, i, y)
<1>1. SetState(c, i, s) = d
  BY DEF SetState
<1>2. x \in Session
  BY DEF ControlPlanes
<1>3. /\ y \in Session
      /\ y.in_use = x.in_use
      /\ y.state = s
      /\ y.negotiated_mode = x.negotiated_mode
      /\ y.granted_generation = x.granted_generation
  <2> HIDE DEF x
  <2> QED BY <1>2 DEF Session
<1> HIDE DEF y
<1>4. /\ d \in ControlPlanes
      /\ d.slots = [c.slots EXCEPT ![i] = y]
      /\ d.active_slot = c.active_slot
      /\ d.evicting_slot = c.evicting_slot
      /\ d.pending_grant_target = c.pending_grant_target
      /\ d.dp_mode = c.dp_mode
      /\ d.generation = c.generation
  BY <1>3, WithSessionFields
<1> HIDE DEF d
<1>5. d.slots[i] = y /\ \A j \in Slots \ {i} : d.slots[j] = c.slots[j]
  BY <1>4 DEF ControlPlanes
<1> QED BY <1>1, <1>3, <1>4, <1>5 DEF OnlySlot

\* Leaving ACTIVE_RT clears active_slot in the same step.
LEMMA LeaveActiveFields ==
  ASSUME NEW c \in ControlPlanes, NEW i \in Slots, NEW s \in SessionStates,
         c.slots[i].state = "ACTIVE_RT" <=> c.active_slot = i
  PROVE  /\ LeaveActive(c, i, s) \in ControlPlanes
         /\ OnlySlot(LeaveActive(c, i, s), c, i)
         /\ LeaveActive(c, i, s).slots[i].in_use = c.slots[i].in_use
         /\ LeaveActive(c, i, s).slots[i].state
              = IF c.active_slot = i THEN s ELSE c.slots[i].state
         /\ LeaveActive(c, i, s).slots[i].negotiated_mode
              = c.slots[i].negotiated_mode
         /\ LeaveActive(c, i, s).slots[i].granted_generation
              = c.slots[i].granted_generation
         /\ LeaveActive(c, i, s).active_slot
              = IF c.active_slot = i THEN None ELSE c.active_slot
         /\ LeaveActive(c, i, s).evicting_slot = c.evicting_slot
         /\ LeaveActive(c, i, s).pending_grant_target = c.pending_grant_target
         /\ LeaveActive(c, i, s).dp_mode = c.dp_mode
         /\ LeaveActive(c, i, s).generation = c.generation
<1>1. CASE c.active_slot # i
  <2>1. LeaveActive(c, i, s) = c
    BY <1>1 DEF LeaveActive
  <2> QED BY <1>1, <2>1 DEF OnlySlot
<1>2. CASE c.active_slot = i
  <2> DEFINE d == SetState(c, i, s)
             e == [d EXCEPT !.active_slot = IF @ = i THEN None ELSE @]
  <2>1. LeaveActive(c, i, s) = e
    BY <1>2 DEF LeaveActive
  <2>2. /\ d \in ControlPlanes
        /\ OnlySlot(d, c, i)
        /\ d.slots[i].in_use = c.slots[i].in_use
        /\ d.slots[i].state = s
        /\ d.slots[i].negotiated_mode = c.slots[i].negotiated_mode
        /\ d.slots[i].granted_generation = c.slots[i].granted_generation
        /\ d.active_slot = c.active_slot
        /\ d.evicting_slot = c.evicting_slot
        /\ d.pending_grant_target = c.pending_grant_target
        /\ d.dp_mode = c.dp_mode
        /\ d.generation = c.generation
    BY SetStateFields
  <2> HIDE DEF d
  <2>3. /\ e \in ControlPlanes
        /\ e.slots = d.slots
        /\ e.active_slot = None
        /\ e.evicting_slot = d.evicting_slot
        /\ e.pending_grant_target = d.pending_grant_target
        /\ e.dp_mode = d.dp_mode
        /\ e.generation = d.generation
    BY <1>2, <2>2 DEF ControlPlanes, SlotOrNone
  <2> HIDE DEF e
  <2> QED BY <1>2, <2>1, <2>2, <2>3 DEF OnlySlot
<1> QED BY <1>1, <1>2

\* A cleared slot is a well-formed session that is not in use.
LEMMA FreeSessionType ==
  /\ FreeSession \in Session
  /\ ~ FreeSession.in_use
  /\ FreeSession.state = "CONNECTED"
  /\ FreeSession.granted_generation = 0
BY GenAssumption, StampAssumption
   DEF FreeSession, Session, SessionStates, Generations

\* wisps_session_table_remove(): the slot is cleared, active_slot too if it named
\* the slot.
LEMMA RemoveFields ==
  ASSUME NEW c \in ControlPlanes, NEW i \in Slots,
         c.slots[i].state = "ACTIVE_RT" <=> c.active_slot = i
  PROVE  /\ table_remove(c, i) \in ControlPlanes
         /\ OnlySlot(table_remove(c, i), c, i)
         /\ table_remove(c, i).slots[i] = FreeSession
         /\ table_remove(c, i).active_slot
              = IF c.active_slot = i THEN None ELSE c.active_slot
         /\ table_remove(c, i).evicting_slot = c.evicting_slot
         /\ table_remove(c, i).pending_grant_target = c.pending_grant_target
         /\ table_remove(c, i).dp_mode = c.dp_mode
         /\ table_remove(c, i).generation = c.generation
<1> DEFINE d == LeaveActive(c, i, "NEGOTIATED")
           e == WithSession(d, i, FreeSession)
<1>1. table_remove(c, i) = e
  BY DEF table_remove, table_deactivate
<1>2. "NEGOTIATED" \in SessionStates
  BY DEF SessionStates
<1>3. /\ d \in ControlPlanes
      /\ OnlySlot(d, c, i)
      /\ d.active_slot = IF c.active_slot = i THEN None ELSE c.active_slot
      /\ d.evicting_slot = c.evicting_slot
      /\ d.pending_grant_target = c.pending_grant_target
      /\ d.dp_mode = c.dp_mode
      /\ d.generation = c.generation
  BY <1>2, LeaveActiveFields
<1> HIDE DEF d
<1>4. /\ e \in ControlPlanes
      /\ e.slots = [d.slots EXCEPT ![i] = FreeSession]
      /\ e.active_slot = d.active_slot
      /\ e.evicting_slot = d.evicting_slot
      /\ e.pending_grant_target = d.pending_grant_target
      /\ e.dp_mode = d.dp_mode
      /\ e.generation = d.generation
  BY <1>3, FreeSessionType, WithSessionFields
<1> HIDE DEF e
<1>5. /\ e.slots[i] = FreeSession
      /\ \A j \in Slots \ {i} : e.slots[j] = d.slots[j]
  BY <1>3, <1>4 DEF ControlPlanes
<1> QED BY <1>1, <1>3, <1>4, <1>5 DEF OnlySlot

\* Forgetting a pending target touches no other field.
LEMMA ForgetPendingFields ==
  ASSUME NEW c \in ControlPlanes, NEW i \in Slots
  PROVE  LET e == [c EXCEPT !.pending_grant_target = IF @ = i THEN None ELSE @]
         IN  /\ e \in ControlPlanes
             /\ e.slots = c.slots
             /\ e.active_slot = c.active_slot
             /\ e.evicting_slot = c.evicting_slot
             /\ e.pending_grant_target \in {c.pending_grant_target, None} \ {i}
             /\ e.dp_mode = c.dp_mode
             /\ e.generation = c.generation
BY SlotsNat DEF ControlPlanes, SlotOrNone

\* Clearing evicting_slot touches no other field.
LEMMA StopEvictingFields ==
  ASSUME NEW c \in ControlPlanes, NEW i \in Slots
  PROVE  /\ StopEvicting(c, i) \in ControlPlanes
         /\ StopEvicting(c, i).slots = c.slots
         /\ StopEvicting(c, i).active_slot = c.active_slot
         /\ StopEvicting(c, i).evicting_slot
              = IF c.evicting_slot = i THEN None ELSE c.evicting_slot
         /\ StopEvicting(c, i).pending_grant_target = c.pending_grant_target
         /\ StopEvicting(c, i).dp_mode = c.dp_mode
         /\ StopEvicting(c, i).generation = c.generation
BY DEF StopEvicting, ControlPlanes, SlotOrNone

\* The common end of handle_disconnect(): forget the pending target, free the
\* slot.
Freed(d, i) ==
  table_remove([d EXCEPT !.pending_grant_target = IF @ = i THEN None ELSE @], i)

\* Freeing a slot keeps the invariant and takes the session out of the RT slot.
LEMMA FreedInv ==
  ASSUME NEW c, Inv(c), NEW i \in Slots, NEW d \in ControlPlanes,
         OnlySlot(d, c, i),
         d.slots[i].state = "ACTIVE_RT" <=> d.active_slot = i,
         d.active_slot = c.active_slot,
         d.evicting_slot = IF c.evicting_slot = i THEN None ELSE c.evicting_slot,
         d.pending_grant_target = c.pending_grant_target,
         d.dp_mode = c.dp_mode,
         d.generation = c.generation \/ Holders(c) \subseteq {i},
         d.generation = (c.generation + CutOff(c, i)) % GenModulus
  PROVE  /\ Inv(Freed(d, i))
         /\ Holders(Freed(d, i)) = Holders(c) \ {i}
         /\ Released(c, Freed(d, i), i)
         /\ Freed(d, i).pending_grant_target # i
<1> DEFINE e == [d EXCEPT !.pending_grant_target = IF @ = i THEN None ELSE @]
           f == table_remove(e, i)
<1>1. /\ e \in ControlPlanes
      /\ e.slots = d.slots
      /\ e.active_slot = d.active_slot
      /\ e.evicting_slot = d.evicting_slot
      /\ e.pending_grant_target \in {d.pending_grant_target, None} \ {i}
      /\ e.dp_mode = d.dp_mode
      /\ e.generation = d.generation
  BY ForgetPendingFields, Zenon
<1>2. f = Freed(d, i)
  BY DEF Freed
<1> HIDE DEF e
<1>3. /\ f \in ControlPlanes
      /\ OnlySlot(f, e, i)
      /\ f.slots[i] = FreeSession
      /\ f.active_slot = IF e.active_slot = i THEN None ELSE e.active_slot
      /\ f.evicting_slot = e.evicting_slot
      /\ f.pending_grant_target = e.pending_grant_target
      /\ f.dp_mode = e.dp_mode
      /\ f.generation = e.generation
  BY <1>1, RemoveFields
<1> HIDE DEF f
<1>4. OnlySlot(f, c, i)
  BY <1>1, <1>3 DEF OnlySlot
<1>5. Inv(f) /\ Holders(f) = Holders(c) \ {i}
  <2>1. /\ f.active_slot = IF c.active_slot = i THEN None ELSE c.active_slot
        /\ f.evicting_slot = IF c.evicting_slot = i THEN None ELSE c.evicting_slot
        /\ f.pending_grant_target \in {c.pending_grant_target, None}
        /\ f.pending_grant_target # i
        /\ f.slots[i].state = "CONNECTED"
        /\ ~ f.slots[i].in_use
        /\ f.dp_mode = c.dp_mode
        /\ f.generation = c.generation \/ Holders(c) \subseteq {i}
    BY <1>1, <1>3, FreeSessionType
  <2> QED BY <1>3, <1>4, <2>1, ReleaseInv
<1>6. Released(c, f, i) /\ f.pending_grant_target # i
  BY <1>1, <1>3, <1>4, FreeSessionType DEF Released
<1> QED BY <1>2, <1>5, <1>6

\* A session in a holding state is the only occupant.
LEMMA SoleHolder ==
  ASSUME NEW c, Inv(c), NEW i \in Slots,
         c.slots[i].in_use, c.slots[i].state \in HoldingStates
  PROVE  Holders(c) = {i}
BY DEF Inv, AtMostOne, Holders

\* Handing a free RT slot on, to the pending target or else to the queue, keeps
\* the invariant.
LEMMA HandOnInv ==
  ASSUME NEW c, Inv(c), Holders(c) = {}
  PROVE  Inv(maybe_grant_next_queued(finish_pending_grant(c)))
BY FinishPendingInv, MaybeGrantInv

\* Taking back the slot of an evicted session.
LEMMA ReclaimFields ==
  ASSUME NEW c, Inv(c), NEW i \in Slots,
         c.slots[i].in_use, c.slots[i].state = "EVICTING_COOPERATIVE"
  PROVE  LET d == StopEvicting(table_reclaim_eviction(c, i), i)
         IN  /\ d \in ControlPlanes
             /\ OnlySlot(d, c, i)
             /\ d.slots[i].in_use
             /\ d.slots[i].state = "NEGOTIATED"
             /\ d.slots[i].negotiated_mode \in SupportedModes
             /\ d.slots[i].granted_generation = c.slots[i].granted_generation
             /\ d.active_slot = c.active_slot
             /\ d.evicting_slot = None
             /\ d.pending_grant_target = c.pending_grant_target
             /\ d.dp_mode = c.dp_mode
             /\ d.generation = c.generation
             /\ c.evicting_slot = i
             /\ c.active_slot # i
<1> DEFINE e == SetState(c, i, "NEGOTIATED")
           d == StopEvicting(e, i)
<1>1. /\ c \in ControlPlanes
      /\ c.evicting_slot = i
      /\ c.active_slot # i
      /\ c.slots[i].negotiated_mode \in SupportedModes
  BY DEF Inv, EvictingCached, ActiveCached, ModeKnown
<1>2. StopEvicting(table_reclaim_eviction(c, i), i) = d
  BY DEF table_reclaim_eviction
<1>3. "NEGOTIATED" \in SessionStates
  BY DEF SessionStates
<1>4. /\ e \in ControlPlanes
      /\ OnlySlot(e, c, i)
      /\ e.slots[i].in_use = c.slots[i].in_use
      /\ e.slots[i].state = "NEGOTIATED"
      /\ e.slots[i].negotiated_mode = c.slots[i].negotiated_mode
      /\ e.slots[i].granted_generation = c.slots[i].granted_generation
      /\ e.active_slot = c.active_slot
      /\ e.evicting_slot = c.evicting_slot
      /\ e.pending_grant_target = c.pending_grant_target
      /\ e.dp_mode = c.dp_mode
      /\ e.generation = c.generation
  <2>1. c \in ControlPlanes
    BY <1>1
  <2>2. e.slots[i].in_use = c.slots[i].in_use
    BY <1>3, <2>1, SetStateFields, Zenon
  <2>3. /\ e \in ControlPlanes
        /\ OnlySlot(e, c, i)
        /\ e.slots[i].state = "NEGOTIATED"
        /\ e.slots[i].negotiated_mode = c.slots[i].negotiated_mode
        /\ e.slots[i].granted_generation = c.slots[i].granted_generation
    BY <1>3, <2>1, SetStateFields
  <2>4. /\ e.active_slot = c.active_slot
        /\ e.evicting_slot = c.evicting_slot
        /\ e.pending_grant_target = c.pending_grant_target
        /\ e.dp_mode = c.dp_mode
        /\ e.generation = c.generation
    BY <1>3, <2>1, SetStateFields
  <2> HIDE DEF e
  <2> QED BY <2>2, <2>3, <2>4, Zenon
<1> HIDE DEF e
<1>5. /\ d \in ControlPlanes
      /\ d.slots = e.slots
      /\ d.active_slot = e.active_slot
      /\ d.evicting_slot = None
      /\ d.pending_grant_target = e.pending_grant_target
      /\ d.dp_mode = e.dp_mode
      /\ d.generation = e.generation
  BY <1>1, <1>4, StopEvictingFields
<1> HIDE DEF d
<1>6. OnlySlot(d, c, i)
  BY <1>4, <1>5 DEF OnlySlot
<1>7. /\ d.slots[i].in_use
      /\ d.slots[i].state = "NEGOTIATED"
      /\ d.slots[i].negotiated_mode \in SupportedModes
      /\ d.slots[i].granted_generation = c.slots[i].granted_generation
  BY <1>1, <1>4, <1>5
<1>8. /\ d.active_slot = c.active_slot
      /\ d.pending_grant_target = c.pending_grant_target
      /\ d.dp_mode = c.dp_mode
      /\ d.generation = c.generation
  BY <1>4, <1>5
<1> QED BY <1>1, <1>2, <1>5, <1>6, <1>7, <1>8, Zenon

\* handle_disconnect() up to the freeing of the slot.
Disconnected(c, i) ==
  LET s == c.slots[i].state
  IN  Freed(IF s = "ACTIVE_RT"
            THEN evict_client(c)
            ELSE IF s \in {"EVICTING_COOPERATIVE", "EVICTING_FORCED"}
                 THEN StopEvicting(table_reclaim_eviction(c, i), i)
                 ELSE c,
            i)

\* From every session state the slot is freed and forgotten, and an active
\* session is cut off.
LEMMA DisconnectedInv ==
  ASSUME NEW c, Inv(c), NEW i \in Slots, c.slots[i].in_use
  PROVE  /\ Inv(Disconnected(c, i))
         /\ Holders(Disconnected(c, i)) = Holders(c) \ {i}
         /\ Released(c, Disconnected(c, i), i)
         /\ Disconnected(c, i).pending_grant_target # i
<1> DEFINE s == c.slots[i].state
<1>1. /\ c \in ControlPlanes
      /\ s = "ACTIVE_RT" <=> c.active_slot = i
      /\ s = "EVICTING_COOPERATIVE" <=> c.evicting_slot = i
      /\ s # "EVICTING_FORCED"
  BY DEF Inv, ActiveCached, EvictingCached
<1>2. CASE s = "ACTIVE_RT"
  <2> DEFINE d == evict_client(c)
  <2>1. Disconnected(c, i) = Freed(d, i)
    BY <1>2 DEF Disconnected
  <2>2. Holders(c) = {i}
    BY <1>2, SoleHolder DEF HoldingStates
  <2>3. /\ d \in ControlPlanes
        /\ d.slots = c.slots
        /\ d.active_slot = c.active_slot
        /\ d.evicting_slot = c.evicting_slot
        /\ d.pending_grant_target = c.pending_grant_target
        /\ d.dp_mode = c.dp_mode
        /\ d.generation = (c.generation + 1) % GenModulus
    BY <1>1, EvictClientFields
  <2> HIDE DEF d
  <2>4. /\ OnlySlot(d, c, i)
        /\ d.slots[i].state = "ACTIVE_RT" <=> d.active_slot = i
        /\ d.evicting_slot = IF c.evicting_slot = i THEN None ELSE c.evicting_slot
        /\ d.generation = (c.generation + CutOff(c, i)) % GenModulus
    BY <1>1, <1>2, <2>3 DEF OnlySlot, CutOff
  <2> QED BY <2>1, <2>2, <2>3, <2>4, FreedInv
<1>3. CASE s = "EVICTING_COOPERATIVE"
  <2> DEFINE d == StopEvicting(table_reclaim_eviction(c, i), i)
  <2>1. Disconnected(c, i) = Freed(d, i)
    BY <1>3 DEF Disconnected
  <2>2. /\ d \in ControlPlanes
        /\ OnlySlot(d, c, i)
        /\ d.slots[i].state = "NEGOTIATED"
        /\ d.active_slot = c.active_slot
        /\ d.evicting_slot = None
        /\ d.pending_grant_target = c.pending_grant_target
        /\ d.dp_mode = c.dp_mode
        /\ d.generation = c.generation
    BY <1>3, ReclaimFields, Zenon
  <2>3. Holders(c) \subseteq {i}
    BY <1>3, SoleHolder DEF HoldingStates
  <2> HIDE DEF d
  <2>4. /\ d.slots[i].state = "ACTIVE_RT" <=> d.active_slot = i
        /\ d.evicting_slot = IF c.evicting_slot = i THEN None ELSE c.evicting_slot
        /\ d.generation = (c.generation + CutOff(c, i)) % GenModulus
    <3>1. d.generation = (c.generation + CutOff(c, i)) % GenModulus
      BY <1>1, <1>3, <2>2, NoCut
    <3> QED BY <1>1, <1>3, <2>2, <3>1
  <2>5. /\ Inv(Freed(d, i))
        /\ Holders(Freed(d, i)) = Holders(c) \ {i}
        /\ Released(c, Freed(d, i), i)
        /\ Freed(d, i).pending_grant_target # i
    BY <2>2, <2>3, <2>4, FreedInv
  <2> QED BY <2>1, <2>5
<1>4. CASE s \notin {"ACTIVE_RT", "EVICTING_COOPERATIVE"}
  <2>1. Disconnected(c, i) = Freed(c, i)
    BY <1>1, <1>4 DEF Disconnected
  <2>2. /\ OnlySlot(c, c, i)
        /\ c.evicting_slot = IF c.evicting_slot = i THEN None ELSE c.evicting_slot
        /\ c.generation = (c.generation + CutOff(c, i)) % GenModulus
    BY <1>1, <1>4, NoCut DEF OnlySlot
  <2> QED BY <1>1, <2>1, <2>2, FreedInv
<1> QED BY <1>2, <1>3, <1>4

\* What handle_disconnect() does once the slot is freed.
LEMMA DisconnectSteps ==
  ASSUME NEW c, NEW i
  PROVE  handle_disconnect(c, i)
           = IF c.slots[i].state \in HoldingStates
             THEN maybe_grant_next_queued(finish_pending_grant(Disconnected(c, i)))
             ELSE Disconnected(c, i)
BY DEF handle_disconnect, Disconnected, Freed

\* handle_disconnect() keeps the invariant from every session state.
LEMMA DisconnectInv ==
  ASSUME NEW c, Inv(c), NEW i \in Slots, c.slots[i].in_use
  PROVE  Inv(handle_disconnect(c, i))
<1>1. Inv(Disconnected(c, i)) /\ Holders(Disconnected(c, i)) = Holders(c) \ {i}
  BY DisconnectedInv
<1>2. c.slots[i].state \in HoldingStates => Holders(Disconnected(c, i)) = {}
  BY <1>1, SoleHolder
<1>3. c.slots[i].state \in HoldingStates
        => Inv(maybe_grant_next_queued(finish_pending_grant(Disconnected(c, i))))
  BY <1>1, <1>2, HandOnInv
<1> QED BY <1>1, <1>3, DisconnectSteps

-----------------------------------------------------------------------------

\* Sending a message keeps the invariant.
LEMMA SendInv ==
  ASSUME NEW c, Inv(c), NEW to \in Slots \cup {Admin},
         NEW kind \in MessageKinds, NEW arg \in Nat
  PROVE  Inv(Send(c, to, kind, arg))
<1>1. c \in ControlPlanes
  BY DEF Inv
<1> QED BY <1>1, SendFields, SameInv

\* So does passing the messages to the sockets.
LEMMA SentInv ==
  ASSUME NEW c, Inv(c)
  PROVE  Inv(Sent(c))
<1> DEFINE d == [c EXCEPT !.out = <<>>]
<1>1. c \in ControlPlanes /\ <<>> \in Seq(Message)
  BY DEF Inv
<1>2. /\ d \in ControlPlanes
      /\ d.slots = c.slots
      /\ d.active_slot = c.active_slot
      /\ d.evicting_slot = c.evicting_slot
      /\ d.pending_grant_target = c.pending_grant_target
      /\ d.generation = c.generation
      /\ d.dp_mode = c.dp_mode
  BY <1>1 DEF ControlPlanes
<1> HIDE DEF d
<1>3. Inv(d)
  BY <1>2, SameInv
<1> QED BY <1>3 DEF Sent, d

\* wisps_session_table_add(), a full table included, keeps the invariant.
LEMMA AddInv ==
  ASSUME NEW c, Inv(c)
  PROVE  /\ Inv(table_add(c))
         /\ \/ table_add(c) = c
            \/ \E i \in Slots : /\ c.slots[i].state = "CONNECTED"
                               /\ Released(c, table_add(c), i)
<1> DEFINE S == {j \in Slots : ~ c.slots[j].in_use}
           i == FirstOf(S)
           s == [FreeSession EXCEPT !.in_use = TRUE]
           d == WithSession(c, i, s)
<1>1. table_add(c) = IF i = None THEN c ELSE d
  BY DEF table_add
<1>2. i # None => i \in S
  <2>1. S \in SUBSET Slots
    OBVIOUS
  <2> HIDE DEF S
  <2> QED BY <2>1, FirstOfIsMember
<1> HIDE DEF i
<1>3. CASE i # None
  <2>1. i \in Slots /\ ~ c.slots[i].in_use
    BY <1>2, <1>3
  <2>2. /\ c \in ControlPlanes
        /\ c.slots[i].state = "CONNECTED"
        /\ c.active_slot # i
        /\ c.evicting_slot # i
        /\ c.pending_grant_target # i
    BY <2>1, SlotsNat
       DEF Inv, FreeClean, ActiveCached, EvictingCached, PendingLive
  <2>3. s \in Session /\ s.state = "CONNECTED" /\ s.granted_generation = 0
    BY FreeSessionType DEF Session
  <2> HIDE DEF s
  <2>4. /\ d \in ControlPlanes
        /\ d.slots = [c.slots EXCEPT ![i] = s]
        /\ d.active_slot = c.active_slot
        /\ d.evicting_slot = c.evicting_slot
        /\ d.pending_grant_target = c.pending_grant_target
        /\ d.dp_mode = c.dp_mode
        /\ d.generation = c.generation
    BY <2>1, <2>2, <2>3, WithSessionFields
  <2> HIDE DEF d
  <2>5. d.slots[i] = s /\ OnlySlot(d, c, i)
    BY <2>1, <2>2, <2>4 DEF ControlPlanes, OnlySlot
  <2>6. /\ d.slots[i].state = "CONNECTED"
        /\ d.active_slot = IF c.active_slot = i THEN None ELSE c.active_slot
        /\ d.evicting_slot = IF c.evicting_slot = i THEN None ELSE c.evicting_slot
        /\ d.pending_grant_target \in {c.pending_grant_target, None}
        /\ d.pending_grant_target # i
    BY <2>2, <2>3, <2>4, <2>5
  <2>7. Inv(d)
    BY <2>1, <2>4, <2>5, <2>6, ReleaseInv
  <2>8. Released(c, d, i)
    BY <2>1, <2>2, <2>3, <2>4, <2>5, NoCut DEF Released
  <2> QED BY <1>1, <1>3, <2>1, <2>2, <2>7, <2>8
<1> QED BY <1>1, <1>3

\* negotiate_mode() returns a supported mode or none.
LEMMA NegotiatedModeSupported ==
  ASSUME NEW o \in Offers
  PROVE  negotiate_mode(o) \in SupportedModes \cup {NoMode}
<1> DEFINE K == {k \in DOMAIN o : o[k] \in SupportedModes}
<1>1. K \in SUBSET Nat
  BY ModeAssumption
<1>2. K # {} => Min(K) \in K
  <2> HIDE DEF K
  <2> QED BY <1>1, MinIsLeast
<1>3. K # {} => o[Min(K)] \in SupportedModes
  BY <1>2
<1>4. negotiate_mode(o) = IF K = {} THEN NoMode ELSE o[Min(K)]
  BY DEF negotiate_mode
<1> HIDE DEF K
<1> QED BY <1>3, <1>4

\* Rejecting a session that has not negotiated yet keeps the invariant.
LEMMA RejectInv ==
  ASSUME NEW c, Inv(c), NEW i \in Slots,
         c.slots[i].in_use, c.slots[i].state = "CONNECTED"
  PROVE  Inv(Reject(c, i)) /\ Released(c, Reject(c, i), i)
<1> DEFINE d == SetState(c, i, "REJECTED")
<1>1. /\ c \in ControlPlanes
      /\ c.active_slot # i
      /\ c.evicting_slot # i
  BY DEF Inv, ActiveCached, EvictingCached
<1>2. "REJECTED" \in SessionStates
  BY DEF SessionStates
<1>3. /\ d \in ControlPlanes
      /\ OnlySlot(d, c, i)
      /\ d.slots[i].state = "REJECTED"
      /\ d.active_slot = c.active_slot
      /\ d.evicting_slot = c.evicting_slot
      /\ d.pending_grant_target = c.pending_grant_target
      /\ d.dp_mode = c.dp_mode
      /\ d.generation = c.generation
  <2>1. c \in ControlPlanes
    BY <1>1
  <2> QED BY <1>2, <2>1, SetStateFields
<1>4. Reject(c, i) = handle_disconnect(d, i)
  BY DEF Reject
<1> HIDE DEF d
<1>5. handle_disconnect(d, i) = Freed(d, i)
  BY <1>3 DEF handle_disconnect, Freed, HoldingStates
<1>6. /\ d.slots[i].state = "ACTIVE_RT" <=> d.active_slot = i
      /\ d.evicting_slot = IF c.evicting_slot = i THEN None ELSE c.evicting_slot
      /\ d.generation = (c.generation + CutOff(c, i)) % GenModulus
  BY <1>1, <1>3, NoCut
<1>7. Inv(Freed(d, i)) /\ Released(c, Freed(d, i), i)
  BY <1>3, <1>6, FreedInv
<1> QED BY <1>4, <1>5, <1>7

\* The first CONNECT of a connection keeps the invariant, accepted or rejected.
LEMMA ConnectInv ==
  ASSUME NEW c, Inv(c), NEW i \in Slots, NEW msg \in ConnectMessages,
         c.slots[i].in_use, c.slots[i].state = "CONNECTED"
  PROVE  /\ Inv(handle_connect(c, i, msg))
         /\ Released(c, handle_connect(c, i, msg), i)
<1> DEFINE chosen == negotiate_mode(msg.modes)
           x == c.slots[i]
           s == [x EXCEPT !.client_id = msg.client_id,
                          !.negotiated_mode = chosen,
                          !.state = "NEGOTIATED"]
           m == Send(c, i, "MODE", 1)
           d == WithSession(m, i, s)
<1>1. /\ c \in ControlPlanes
      /\ c.active_slot # i
      /\ c.evicting_slot # i
      /\ c.pending_grant_target # i
  BY SlotsNat DEF Inv, ActiveCached, EvictingCached, PendingLive
<1>2. msg.client_id \in ClientIds /\ chosen \in SupportedModes \cup {NoMode}
  BY NegotiatedModeSupported DEF ConnectMessages
<1>3. /\ i \in Slots \cup {Admin} /\ 0 \in Nat /\ 1 \in Nat
      /\ "MODE" \in MessageKinds /\ "VERSION_MISMATCH" \in MessageKinds
  BY DEF MessageKinds
<1>4. ASSUME NEW kind \in MessageKinds
      PROVE  /\ Inv(Reject(Send(c, i, kind, 0), i))
             /\ Released(c, Reject(Send(c, i, kind, 0), i), i)
  <2> DEFINE n == Send(c, i, kind, 0)
  <2>1. Inv(n)
    BY <1>3, SendInv
  <2>2. /\ n.slots = c.slots
        /\ n.generation = c.generation
        /\ n.pending_grant_target = c.pending_grant_target
    BY <1>1, <1>3, SendFields
  <2> HIDE DEF n
  <2>3. Inv(Reject(n, i)) /\ Released(n, Reject(n, i), i)
    BY <2>1, <2>2, RejectInv
  <2>4. Released(c, Reject(n, i), i)
    BY <2>2, <2>3 DEF Released, OnlySlot, CutOff
  <2> QED BY <2>3, <2>4 DEF n
<1>5. chosen # NoMode => Inv(d) /\ Released(c, d, i)
  <2> HAVE chosen # NoMode
  <2>1. x \in Session
    BY <1>1 DEF ControlPlanes
  <2>2. chosen \in SupportedModes
    BY <1>2
  <2>3. /\ s \in Session
        /\ s.state = "NEGOTIATED"
        /\ s.negotiated_mode = chosen
        /\ s.granted_generation = x.granted_generation
    <3> HIDE DEF x, chosen
    <3> QED BY <1>2, <2>1, <2>2 DEF Session, SessionStates
  <2>4. s.in_use = x.in_use
    <3> HIDE DEF x, chosen
    <3> QED BY <2>1 DEF Session
  <2> HIDE DEF s, chosen
  <2>5. /\ m \in ControlPlanes
        /\ m.slots = c.slots
        /\ m.active_slot = c.active_slot
        /\ m.evicting_slot = c.evicting_slot
        /\ m.pending_grant_target = c.pending_grant_target
        /\ m.dp_mode = c.dp_mode
        /\ m.generation = c.generation
    BY <1>1, <1>3, SendFields
  <2> HIDE DEF m
  <2>6. /\ d \in ControlPlanes
        /\ d.slots = [m.slots EXCEPT ![i] = s]
        /\ d.active_slot = m.active_slot
        /\ d.evicting_slot = m.evicting_slot
        /\ d.pending_grant_target = m.pending_grant_target
        /\ d.dp_mode = m.dp_mode
        /\ d.generation = m.generation
    BY <2>3, <2>5, WithSessionFields
  <2> HIDE DEF d
  <2>7. d.slots[i] = s /\ OnlySlot(d, c, i)
    BY <1>1, <2>5, <2>6 DEF ControlPlanes, OnlySlot
  <2>8. d.slots[i].in_use
    BY <2>4, <2>7, Zenon
  <2>9. /\ d.slots[i].state \in Grantable \cup {"CONNECTED"}
        /\ d.slots[i].negotiated_mode \in SupportedModes
        /\ d.active_slot = IF c.active_slot = i THEN None ELSE c.active_slot
        /\ d.evicting_slot = IF c.evicting_slot = i THEN None ELSE c.evicting_slot
        /\ d.pending_grant_target \in {c.pending_grant_target, None}
        /\ d.pending_grant_target # i
        /\ d.dp_mode = c.dp_mode
        /\ d.generation = c.generation
    BY <1>1, <2>2, <2>3, <2>5, <2>6, <2>7 DEF Grantable
  <2>10. Inv(d)
    BY <2>6, <2>7, <2>8, <2>9, ReleaseInv
  <2>11. d.generation = (c.generation + CutOff(c, i)) % GenModulus
    BY <1>1, <2>9, NoCut
  <2>12. Released(c, d, i)
    BY <2>3, <2>7, <2>9, <2>11 DEF Released
  <2> QED BY <2>10, <2>12
<1>6. handle_connect(c, i, msg)
        = IF ~ msg.version_ok
          THEN Reject(Send(c, i, "VERSION_MISMATCH", 0), i)
          ELSE IF chosen = NoMode THEN Reject(Send(c, i, "MODE", 0), i) ELSE d
  BY DEF handle_connect
<1> HIDE DEF d, chosen
<1> QED BY <1>3, <1>4, <1>5, <1>6

\* A queue position is a natural number.
LEMMA QueuePositionIsNat ==
  ASSUME NEW c, NEW i
  PROVE  queue_position(c, i) \in Nat
<1> DEFINE S == {j \in Queued(c) \ {i} : Ahead(c, j, i)}
<1>1. S \subseteq Slots
  BY DEF Queued
<1>2. queue_position(c, i) = IF i \notin Queued(c) THEN 0 ELSE 1 + Cardinality(S)
  BY DEF queue_position
<1> HIDE DEF S
<1>3. Cardinality(S) \in Nat
  BY <1>1, SlotsNat, FS_Subset, FS_CardinalityType
<1> QED BY <1>2, <1>3

\* Request stamps stay within their bound.
LEMMA RequestStampType ==
  ASSUME NEW c, NEW t \in RequestStamps(c)
  PROVE  t \in 0 .. MaxStamp
BY StampAssumption DEF RequestStamps

\* The session as handle_activate_request() queues it.
Enqueued(c, i, t) ==
  WithSession(c, i, [c.slots[i] EXCEPT !.activate_requested = t,
                                       !.state = "QUEUED"])

\* Queueing a session keeps the invariant and grants nobody a generation.
LEMMA EnqueuedInv ==
  ASSUME NEW c, Inv(c), NEW i \in Slots, NEW t \in 0 .. MaxStamp,
         c.slots[i].in_use, c.slots[i].state = "NEGOTIATED"
  PROVE  LET d == Enqueued(c, i, t)
         IN  /\ Inv(d)
             /\ OnlySlot(d, c, i)
             /\ d.slots[i].state = "QUEUED"
             /\ d.slots[i].granted_generation = c.slots[i].granted_generation
             /\ d.generation = c.generation
<1> DEFINE x == c.slots[i]
           s == [x EXCEPT !.activate_requested = t, !.state = "QUEUED"]
           d == WithSession(c, i, s)
<1>1. /\ c \in ControlPlanes
      /\ x.negotiated_mode \in SupportedModes
      /\ c.active_slot # i
      /\ c.evicting_slot # i
  BY DEF Inv, ModeKnown, ActiveCached, EvictingCached
<1>2. x \in Session
  BY <1>1 DEF ControlPlanes
<1>3. /\ s \in Session
      /\ s.state = "QUEUED"
      /\ s.negotiated_mode = x.negotiated_mode
      /\ s.granted_generation = x.granted_generation
  <2> HIDE DEF x
  <2> QED BY <1>2 DEF Session, SessionStates
<1>4. s.in_use = x.in_use
  <2> HIDE DEF x
  <2> QED BY <1>2 DEF Session
<1>5. Enqueued(c, i, t) = d
  BY DEF Enqueued
<1> HIDE DEF s
<1>6. /\ d \in ControlPlanes
      /\ d.slots = [c.slots EXCEPT ![i] = s]
      /\ d.active_slot = c.active_slot
      /\ d.evicting_slot = c.evicting_slot
      /\ d.pending_grant_target = c.pending_grant_target
      /\ d.dp_mode = c.dp_mode
      /\ d.generation = c.generation
  BY <1>1, <1>3, WithSessionFields
<1> HIDE DEF d
<1>7. d.slots[i] = s /\ OnlySlot(d, c, i)
  BY <1>1, <1>6 DEF ControlPlanes, OnlySlot
<1>8. d.slots[i].in_use
  BY <1>4, <1>7, Zenon
<1>9. /\ d.slots[i].state \in Grantable
      /\ d.slots[i].negotiated_mode \in SupportedModes
      /\ d.active_slot = IF c.active_slot = i THEN None ELSE c.active_slot
      /\ d.evicting_slot = IF c.evicting_slot = i THEN None ELSE c.evicting_slot
      /\ d.pending_grant_target \in {c.pending_grant_target, None}
  BY <1>1, <1>3, <1>6, <1>7 DEF Grantable
<1>10. Inv(d)
  BY <1>6, <1>7, <1>8, <1>9, ReleaseInv
<1> QED BY <1>3, <1>5, <1>6, <1>7, <1>10

\* The three ways of handle_activate_request().
LEMMA ActivateRequestSteps ==
  ASSUME NEW c, NEW i, NEW t
  PROVE  handle_activate_request(c, i, t)
           = IF c.slots[i].state # "NEGOTIATED"
             THEN c
             ELSE IF ~ rt_slot_taken(c)
                  THEN grant_slot(c, i)
                  ELSE Send(Enqueued(c, i, t), i, "ACTIVATE_QUEUED",
                            queue_position(Enqueued(c, i, t), i))
BY DEF handle_activate_request, Enqueued

\* handle_activate_request() keeps the invariant, granting at once or queueing.
LEMMA ActivateRequestInv ==
  ASSUME NEW c, Inv(c), NEW i \in Slots, c.slots[i].in_use, NEW t \in 0 .. MaxStamp
  PROVE  Inv(handle_activate_request(c, i, t))
<1> DEFINE d == Enqueued(c, i, t)
<1>1. c.slots[i].state = "NEGOTIATED" => Inv(grant_slot(c, i))
  BY GrantSlotInv DEF Grantable
<1>2. c.slots[i].state = "NEGOTIATED"
        => Inv(Send(d, i, "ACTIVATE_QUEUED", queue_position(d, i)))
  <2>1. i \in Slots \cup {Admin} /\ "ACTIVATE_QUEUED" \in MessageKinds
    BY DEF MessageKinds
  <2>2. c.slots[i].state = "NEGOTIATED" => Inv(d)
    BY EnqueuedInv, Zenon
  <2> QED BY <2>1, <2>2, SendInv, QueuePositionIsNat
<1> HIDE DEF d
<1> QED BY <1>1, <1>2, ActivateRequestSteps DEF d

\* Activating a session after its warmup keeps the invariant: no other session can
\* be active then.
LEMMA ActivateInv ==
  ASSUME NEW c, Inv(c), NEW i \in Slots,
         c.slots[i].in_use, c.slots[i].state = "GRANTED_WARMUP"
  PROVE  Inv(table_activate(c, i)) /\ Moved(c, table_activate(c, i), i, "ACTIVE_RT")
<1> DEFINE d == SetState(c, i, "ACTIVE_RT")
           e == [d EXCEPT !.active_slot = i, !.heartbeat_late = FALSE]
<1>1. Holders(c) = {i}
  BY SoleHolder DEF HoldingStates
<1>2. c \in ControlPlanes /\ c.slots[i].negotiated_mode \in SupportedModes
  BY DEF Inv, ModeKnown
<1>3. c.active_slot = None /\ c.evicting_slot = None
  <2>1. \A j \in Slots : c.slots[j].in_use =>
          c.slots[j].state \notin {"ACTIVE_RT", "EVICTING_COOPERATIVE"}
    BY <1>1 DEF Holders, HoldingStates
  <2> QED BY <1>2, <2>1
          DEF Inv, ActiveCached, EvictingCached, ControlPlanes, SlotOrNone
<1>4. table_activate(c, i) = e
  BY <1>3 DEF table_activate
<1>5. "ACTIVE_RT" \in SessionStates
  BY DEF SessionStates
<1>6. d.slots[i].in_use
  <2>1. d.slots[i].in_use = c.slots[i].in_use
    BY <1>2, <1>5, SetStateFields, Zenon
  <2> QED BY <2>1, Zenon
<1>7. /\ d \in ControlPlanes
      /\ OnlySlot(d, c, i)
      /\ d.slots[i].state = "ACTIVE_RT"
      /\ d.slots[i].negotiated_mode = c.slots[i].negotiated_mode
      /\ d.slots[i].granted_generation = c.slots[i].granted_generation
      /\ d.evicting_slot = None
      /\ d.pending_grant_target = c.pending_grant_target
      /\ d.dp_mode = c.dp_mode
      /\ d.generation = c.generation
  <2>1. c \in ControlPlanes
    BY <1>2
  <2> QED BY <1>3, <1>5, <2>1, SetStateFields
<1> HIDE DEF d
<1>8. /\ e \in ControlPlanes
      /\ e.slots = d.slots
      /\ e.active_slot = i
      /\ e.evicting_slot = None
      /\ e.pending_grant_target = d.pending_grant_target
      /\ e.dp_mode = d.dp_mode
      /\ e.generation = d.generation
  BY <1>7 DEF ControlPlanes, SlotOrNone
<1> HIDE DEF e
<1>9. /\ \A j \in Slots \ {i} : e.slots[j] = c.slots[j]
      /\ e.slots[i].in_use
      /\ e.slots[i].state = "ACTIVE_RT"
  BY <1>6, <1>7, <1>8 DEF OnlySlot
<1>10. \A j \in Slots \ {i} : ~ (c.slots[j].in_use /\ c.slots[j].state \in HoldingStates)
  BY <1>1 DEF Holders
<1>11. Holders(e) = {i}
  BY <1>9, <1>10 DEF Holders, HoldingStates
<1>12. AtMostOne(e) /\ HolderCurrent(e) /\ ModeMatches(e)
  BY <1>1, <1>7, <1>8, <1>11 DEF Inv, AtMostOne, HolderCurrent, ModeMatches
<1>13. ActiveCached(e)
  BY <1>8, <1>9, <1>10 DEF ActiveCached, HoldingStates
<1>14. EvictingCached(e)
  <2>1. \A j \in Slots : c.slots[j].state \notin {"EVICTING_FORCED", "REJECTED"}
    BY DEF Inv, EvictingCached
  <2>2. \A j \in Slots : e.slots[j].state \notin {"EVICTING_FORCED", "REJECTED"}
    BY <1>9, <2>1
  <2>3. \A j \in Slots :
          ~ (e.slots[j].in_use /\ e.slots[j].state = "EVICTING_COOPERATIVE")
    BY <1>9, <1>10 DEF HoldingStates
  <2>4. \A j \in Slots : e.evicting_slot # j
    BY <1>8, SlotsNat
  <2> QED BY <2>2, <2>3, <2>4 DEF EvictingCached
<1>15. PendingLive(e) /\ PendingReady(e)
  <2>1. PendingReady(e)
    BY <1>8 DEF PendingReady
  <2> DEFINE t == c.pending_grant_target
  <2>2. /\ e.pending_grant_target = t
        /\ t = None \/ t \in Slots
    BY <1>2, <1>7, <1>8 DEF ControlPlanes, SlotOrNone
  <2>3. t # None => c.slots[t].in_use /\ c.slots[t].state # "CONNECTED"
    BY DEF Inv, PendingLive
  <2> HIDE DEF t
  <2>4. t # None => e.slots[t].in_use /\ e.slots[t].state # "CONNECTED"
    BY <1>9, <2>2, <2>3
  <2> QED BY <2>1, <2>2, <2>4 DEF PendingLive
<1>16. ModeKnown(e) /\ FreeClean(e)
  BY <1>2, <1>7, <1>8, <1>9 DEF Inv, ModeKnown, FreeClean
<1>17. Inv(e)
  BY <1>8, <1>12, <1>13, <1>14, <1>15, <1>16 DEF Inv
<1>18. Moved(c, e, i, "ACTIVE_RT")
  BY <1>1, <1>7, <1>8, <1>9, <1>11 DEF Moved, OnlySlot
<1> QED BY <1>4, <1>17, <1>18

\* handle_ready_for_rt() keeps the invariant.
LEMMA ReadyForRtInv ==
  ASSUME NEW c, Inv(c), NEW i \in Slots, c.slots[i].in_use
  PROVE  Inv(handle_ready_for_rt(c, i))
BY ActivateInv DEF handle_ready_for_rt

\* A session that declines leaves the RT slot.
LEMMA DeclinedInv ==
  ASSUME NEW c, Inv(c), NEW i \in Slots,
         c.slots[i].in_use, c.slots[i].state = "GRANTED_WARMUP"
  PROVE  LET d == SetState(c, i, "NEGOTIATED")
         IN  Inv(d) /\ Holders(d) = Holders(c) \ {i} /\ Released(c, d, i)
<1> DEFINE d == SetState(c, i, "NEGOTIATED")
<1>1. /\ c \in ControlPlanes
      /\ c.slots[i].negotiated_mode \in SupportedModes
      /\ c.active_slot # i
      /\ c.evicting_slot # i
  BY DEF Inv, ModeKnown, ActiveCached, EvictingCached
<1>2. c \in ControlPlanes /\ "NEGOTIATED" \in SessionStates
  BY <1>1 DEF SessionStates
<1>3. d.slots[i].in_use
  <2>1. d.slots[i].in_use = c.slots[i].in_use
    BY <1>2, SetStateFields, Zenon
  <2> QED BY <2>1, Zenon
<1>4. /\ d \in ControlPlanes
      /\ OnlySlot(d, c, i)
      /\ d.slots[i].state = "NEGOTIATED"
      /\ d.slots[i].negotiated_mode = c.slots[i].negotiated_mode
      /\ d.slots[i].granted_generation = c.slots[i].granted_generation
      /\ d.active_slot = c.active_slot
      /\ d.evicting_slot = c.evicting_slot
      /\ d.pending_grant_target = c.pending_grant_target
      /\ d.dp_mode = c.dp_mode
      /\ d.generation = c.generation
  BY <1>2, SetStateFields
<1> HIDE DEF d
<1>5. /\ d.slots[i].state \in Grantable
      /\ d.slots[i].negotiated_mode \in SupportedModes
      /\ d.active_slot = IF c.active_slot = i THEN None ELSE c.active_slot
      /\ d.evicting_slot = IF c.evicting_slot = i THEN None ELSE c.evicting_slot
      /\ d.pending_grant_target \in {c.pending_grant_target, None}
  BY <1>1, <1>4 DEF Grantable
<1>6. Inv(d) /\ Holders(d) = Holders(c) \ {i}
  BY <1>3, <1>4, <1>5, ReleaseInv
<1>7. Released(c, d, i)
  BY <1>1, <1>4, NoCut DEF Released
<1> QED BY <1>6, <1>7 DEF d

\* handle_grant_decline() keeps the invariant.
LEMMA GrantDeclineInv ==
  ASSUME NEW c, Inv(c), NEW i \in Slots, c.slots[i].in_use
  PROVE  Inv(handle_grant_decline(c, i))
<1>1. c.slots[i].state = "GRANTED_WARMUP" => Inv(SetState(c, i, "NEGOTIATED"))
  BY DeclinedInv
<1> QED BY <1>1, MaybeGrantInv DEF handle_grant_decline

\* After the evicted session is reclaimed the RT slot is free.
LEMMA ReclaimInv ==
  ASSUME NEW c, Inv(c), NEW i \in Slots,
         c.slots[i].in_use, c.slots[i].state = "EVICTING_COOPERATIVE"
  PROVE  LET d == StopEvicting(table_reclaim_eviction(c, i), i)
         IN  /\ Inv(d)
             /\ Holders(d) = {}
             /\ Released(c, d, i)
             /\ d.pending_grant_target # i
<1> DEFINE d == StopEvicting(table_reclaim_eviction(c, i), i)
<1>1. /\ d \in ControlPlanes
      /\ OnlySlot(d, c, i)
      /\ d.slots[i].in_use
      /\ d.slots[i].state = "NEGOTIATED"
      /\ d.slots[i].negotiated_mode \in SupportedModes
      /\ d.slots[i].granted_generation = c.slots[i].granted_generation
      /\ d.active_slot = c.active_slot
      /\ d.evicting_slot = None
      /\ d.pending_grant_target = c.pending_grant_target
      /\ d.dp_mode = c.dp_mode
      /\ d.generation = c.generation
      /\ c.evicting_slot = i
      /\ c.active_slot # i
  BY ReclaimFields, Zenon
<1> HIDE DEF d
<1>2. /\ d.slots[i].state \in Grantable
      /\ d.active_slot = IF c.active_slot = i THEN None ELSE c.active_slot
      /\ d.evicting_slot = IF c.evicting_slot = i THEN None ELSE c.evicting_slot
      /\ d.pending_grant_target \in {c.pending_grant_target, None}
  BY <1>1 DEF Grantable
<1>3. Inv(d) /\ Holders(d) = Holders(c) \ {i}
  BY <1>1, <1>2, ReleaseInv
<1>4. Holders(c) = {i}
  BY SoleHolder DEF HoldingStates
<1>5. Inv(d) /\ Holders(d) = {}
  BY <1>3, <1>4
<1>6. c.pending_grant_target # i
  BY <1>1, SlotsNat DEF Inv, PendingReady, Grantable
<1>7. (c.generation + CutOff(c, i)) % GenModulus = c.generation
  <2>1. c \in ControlPlanes
    BY DEF Inv
  <2> QED BY <2>1, NoCut
<1>8. Released(c, d, i)
  BY <1>1, <1>7 DEF Released
<1> QED BY <1>1, <1>5, <1>6, <1>8 DEF d

\* handle_stopped() keeps the invariant, late and stray messages included.
LEMMA StoppedInv ==
  ASSUME NEW c, Inv(c), NEW i \in Slots, c.slots[i].in_use
  PROVE  Inv(handle_stopped(c, i))
<1> DEFINE d == StopEvicting(table_reclaim_eviction(c, i), i)
<1>1. c.slots[i].state = "EVICTING_COOPERATIVE" => Inv(d) /\ Holders(d) = {}
  BY ReclaimInv, Zenon
<1>2. handle_stopped(c, i) = IF c.slots[i].state # "EVICTING_COOPERATIVE"
                             THEN c
                             ELSE finish_pending_grant(d)
  BY DEF handle_stopped
<1> HIDE DEF d
<1> QED BY <1>1, <1>2, FinishPendingInv

\* handle_heartbeat() keeps the invariant.
LEMMA HeartbeatInv ==
  ASSUME NEW c, Inv(c), NEW i \in Slots
  PROVE  Inv(handle_heartbeat(c, i))
<1> DEFINE d == [c EXCEPT !.heartbeat_late = FALSE]
<1>1. c \in ControlPlanes
  BY DEF Inv
<1>2. /\ d \in ControlPlanes
      /\ d.slots = c.slots
      /\ d.active_slot = c.active_slot
      /\ d.evicting_slot = c.evicting_slot
      /\ d.pending_grant_target = c.pending_grant_target
      /\ d.generation = c.generation
      /\ d.dp_mode = c.dp_mode
  BY <1>1 DEF ControlPlanes
<1> HIDE DEF d
<1>3. Inv(d)
  BY <1>2, SameInv
<1> QED BY <1>3 DEF handle_heartbeat, d

\* Handlers that only answer keep the invariant.
LEMMA QueriesInv ==
  ASSUME NEW c, Inv(c)
  PROVE  /\ \A i \in Slots : Inv(handle_dmabuf_announce(c, i))
         /\ Inv(handle_list_query(c))
<1>1. Cardinality({i \in Slots : c.slots[i].in_use}) \in Nat
  <2>1. {i \in Slots : c.slots[i].in_use} \subseteq Slots
    OBVIOUS
  <2> QED BY <2>1, SlotsNat, FS_Subset, FS_CardinalityType
<1>2. /\ Admin \in Slots \cup {Admin} /\ 0 \in Nat
      /\ "DMABUF_ACK" \in MessageKinds /\ "LIST_RESPONSE" \in MessageKinds
  BY DEF MessageKinds
<1> QED BY <1>1, <1>2, SendInv DEF handle_dmabuf_announce, handle_list_query

\* find_by_client_id() returns -1 or a session in use.
LEMMA FoundIsInUse ==
  ASSUME NEW c, NEW id
  PROVE  \/ find_by_client_id(c, id) = None
         \/ /\ find_by_client_id(c, id) \in Slots
            /\ c.slots[find_by_client_id(c, id)].in_use
<1> DEFINE S == {i \in Slots : c.slots[i].in_use /\ c.slots[i].client_id = id}
<1>1. S \in SUBSET Slots /\ \A i \in S : c.slots[i].in_use
  OBVIOUS
<1>2. find_by_client_id(c, id) = FirstOf(S)
  BY DEF find_by_client_id
<1> HIDE DEF S
<1> QED BY <1>1, <1>2, FirstOfIsMember

\* An admin switch keeps the invariant, whatever the state of its target.
LEMMA SwitchInv ==
  ASSUME NEW c, Inv(c), NEW id
  PROVE  Inv(handle_switch_query(c, id))
<1> DEFINE i == find_by_client_id(c, id)
           Reply(d, ok) == Send(d, Admin, "SWITCH_RESPONSE", ok)
<1>1. ASSUME NEW d, Inv(d), NEW ok \in Nat
      PROVE  Inv(Reply(d, ok))
  BY <1>1, SendInv DEF MessageKinds
<1>2. i # None /\ c.slots[i].state \in Grantable => Inv(grant_slot(c, i))
  BY FoundIsInUse, GrantSlotInv
<1>3. handle_switch_query(c, id)
        = IF i = None
          THEN Reply(c, 0)
          ELSE IF c.slots[i].state = "ACTIVE_RT"
               THEN Reply(c, 1)
               ELSE IF c.slots[i].state \notin Grantable
                    THEN Reply(c, 0)
                    ELSE Reply(grant_slot(c, i), 1)
  BY DEF handle_switch_query
<1> HIDE DEF Reply, i
<1>4. Inv(Reply(c, 0)) /\ Inv(Reply(c, 1))
  BY <1>1
<1>5. i # None /\ c.slots[i].state \in Grantable => Inv(Reply(grant_slot(c, i), 1))
  BY <1>1, <1>2
<1> QED BY <1>3, <1>4, <1>5

\* heartbeat_timeout() up to the grant of the freed slot.
TimedOut(c) ==
  LET i == c.active_slot
      d == evict_client(table_deactivate(c, i))
  IN  Send(Send(d, i, "LIVENESS_TIMEOUT", 0), i, "DEACTIVATE", 0)

\* A silent active session is cut off and leaves the RT slot.
LEMMA TimedOutInv ==
  ASSUME NEW c, Inv(c), c.active_slot # None
  PROVE  /\ Inv(TimedOut(c))
         /\ c.active_slot \in Slots
         /\ Holders(c) = {c.active_slot}
         /\ Holders(TimedOut(c)) = {}
         /\ Released(c, TimedOut(c), c.active_slot)
         /\ TimedOut(c).slots[c.active_slot].in_use
<1> DEFINE i == c.active_slot
           b == LeaveActive(c, i, "NEGOTIATED")
           d == evict_client(b)
           m == Send(d, i, "LIVENESS_TIMEOUT", 0)
           e == Send(m, i, "DEACTIVATE", 0)
<1>1. /\ c \in ControlPlanes
      /\ i \in Slots
      /\ c.slots[i].in_use
      /\ c.slots[i].state = "ACTIVE_RT"
      /\ c.slots[i].negotiated_mode \in SupportedModes
      /\ c.evicting_slot # i
  BY DEF Inv, ControlPlanes, SlotOrNone, ActiveCached, EvictingCached, ModeKnown
<1>2. TimedOut(c) = e
  BY DEF TimedOut, table_deactivate
<1>3. "NEGOTIATED" \in SessionStates
  BY DEF SessionStates
<1>4. b.slots[i].in_use
  <2>1. b.slots[i].in_use = c.slots[i].in_use
    BY <1>1, <1>3, LeaveActiveFields, Zenon
  <2> QED BY <1>1, <2>1, Zenon
<1>5. /\ b \in ControlPlanes
      /\ OnlySlot(b, c, i)
      /\ b.slots[i].state = "NEGOTIATED"
      /\ b.slots[i].negotiated_mode = c.slots[i].negotiated_mode
      /\ b.slots[i].granted_generation = c.slots[i].granted_generation
      /\ b.active_slot = None
      /\ b.evicting_slot = c.evicting_slot
      /\ b.pending_grant_target = c.pending_grant_target
      /\ b.dp_mode = c.dp_mode
      /\ b.generation = c.generation
  <2>1. /\ c \in ControlPlanes
        /\ i \in Slots
        /\ c.slots[i].state = "ACTIVE_RT" <=> c.active_slot = i
    BY <1>1
  <2> QED BY <1>3, <2>1, LeaveActiveFields
<1> HIDE DEF b
<1>6. /\ d \in ControlPlanes
      /\ d.slots = b.slots
      /\ d.active_slot = b.active_slot
      /\ d.evicting_slot = b.evicting_slot
      /\ d.pending_grant_target = b.pending_grant_target
      /\ d.dp_mode = b.dp_mode
      /\ d.generation = (b.generation + 1) % GenModulus
  BY <1>5, EvictClientFields
<1> HIDE DEF d
<1>7. d.slots[i].in_use
  BY <1>4, <1>6
<1>8. /\ OnlySlot(d, c, i)
      /\ d.slots[i].state \in Grantable
      /\ d.slots[i].negotiated_mode \in SupportedModes
      /\ d.active_slot = None
      /\ d.evicting_slot = c.evicting_slot
      /\ d.pending_grant_target = c.pending_grant_target
      /\ d.dp_mode = c.dp_mode
  BY <1>1, <1>5, <1>6 DEF OnlySlot, Grantable
<1>9. Holders(c) = {i}
  BY <1>1, SoleHolder DEF HoldingStates
<1>10. /\ d.active_slot = IF c.active_slot = i THEN None ELSE c.active_slot
       /\ d.evicting_slot = IF c.evicting_slot = i THEN None ELSE c.evicting_slot
       /\ d.pending_grant_target \in {c.pending_grant_target, None}
       /\ d.slots[i].state \in Grantable \cup {"CONNECTED"}
       /\ d.slots[i].state # "CONNECTED"
  BY <1>1, <1>8 DEF Grantable
<1>11. Inv(d) /\ Holders(d) = Holders(c) \ {i}
  <2> HIDE DEF i
  <2> QED BY <1>1, <1>6, <1>7, <1>8, <1>9, <1>10, ReleaseInv
<1>12. Released(c, d, i)
  <2>1. /\ d.slots[i].state \in {"CONNECTED", "NEGOTIATED"}
        /\ d.slots[i].granted_generation = c.slots[i].granted_generation
    BY <1>5, <1>6
  <2>2. d.generation = (c.generation + CutOff(c, i)) % GenModulus
    BY <1>1, <1>5, <1>6 DEF CutOff
  <2> QED BY <1>8, <2>1, <2>2 DEF Released
<1>13. /\ i \in Slots \cup {Admin}
       /\ "LIVENESS_TIMEOUT" \in MessageKinds
       /\ "DEACTIVATE" \in MessageKinds
       /\ 0 \in Nat
  BY <1>1 DEF MessageKinds
<1>14. /\ m \in ControlPlanes
       /\ m.slots = d.slots
       /\ m.generation = d.generation
       /\ m.pending_grant_target = d.pending_grant_target
  <2> HIDE DEF i
  <2> QED BY <1>6, <1>13, SendFields, ZenonT(60)
<1>15. Inv(m)
  BY <1>11, <1>13, SendInv
<1> HIDE DEF m
<1>16. /\ e.slots = m.slots
       /\ e.generation = m.generation
       /\ e.pending_grant_target = m.pending_grant_target
  <2> HIDE DEF i
  <2> QED BY <1>13, <1>14, SendFields
<1>17. Inv(e)
  BY <1>13, <1>15, SendInv
<1> HIDE DEF e
<1>18. Holders(e) = {}
  BY <1>9, <1>11, <1>14, <1>16 DEF Holders
<1>19. Released(c, e, i)
  BY <1>12, <1>14, <1>16 DEF Released, OnlySlot
<1>20. e.slots[i].in_use
  BY <1>7, <1>14, <1>16
<1> QED BY <1>1, <1>2, <1>9, <1>17, <1>18, <1>19, <1>20

\* The heartbeat timeout keeps the invariant.
LEMMA HeartbeatTimeoutInv ==
  ASSUME NEW c, Inv(c), c.active_slot # None
  PROVE  Inv(heartbeat_timeout(c))
<1>1. heartbeat_timeout(c) = maybe_grant_next_queued(TimedOut(c))
  BY DEF heartbeat_timeout, TimedOut
<1> QED BY <1>1, TimedOutInv, MaybeGrantInv

\* grace_deadline() up to the hand-over of the slot.
Expired(c) ==
  LET i == c.evicting_slot
      d == [c EXCEPT !.evicting_slot = None]
  IN  table_reclaim_eviction(table_mark_eviction_forced(d, i), i)

\* A session that does not stop in time goes through EVICTING_FORCED and out of
\* the RT slot.
LEMMA ExpiredInv ==
  ASSUME NEW c, Inv(c), c.evicting_slot # None
  PROVE  /\ Inv(Expired(c))
         /\ c.evicting_slot \in Slots
         /\ Holders(c) = {c.evicting_slot}
         /\ Holders(Expired(c)) = {}
         /\ Released(c, Expired(c), c.evicting_slot)
         /\ Expired(c).pending_grant_target # c.evicting_slot
         /\ Expired(c).slots[c.evicting_slot].in_use
<1> DEFINE i == c.evicting_slot
           d == [c EXCEPT !.evicting_slot = None]
           m == SetState(d, i, "EVICTING_FORCED")
           e == SetState(m, i, "NEGOTIATED")
<1>1. /\ c \in ControlPlanes
      /\ i \in Slots
      /\ c.slots[i].in_use
      /\ c.slots[i].state = "EVICTING_COOPERATIVE"
      /\ c.slots[i].negotiated_mode \in SupportedModes
      /\ c.active_slot # i
  BY DEF Inv, ControlPlanes, SlotOrNone, ActiveCached, EvictingCached, ModeKnown
<1>2. /\ d \in ControlPlanes
      /\ d.slots = c.slots
      /\ d.active_slot = c.active_slot
      /\ d.evicting_slot = None
      /\ d.pending_grant_target = c.pending_grant_target
      /\ d.dp_mode = c.dp_mode
      /\ d.generation = c.generation
  BY <1>1 DEF ControlPlanes, SlotOrNone
<1>3. Expired(c) = table_reclaim_eviction(table_mark_eviction_forced(d, i), i)
  BY DEF Expired
<1> HIDE DEF d
<1>4. "NEGOTIATED" \in SessionStates /\ "EVICTING_FORCED" \in SessionStates
  BY DEF SessionStates
<1>5. m.slots[i].in_use = d.slots[i].in_use
  <2>1. i \in Slots /\ d \in ControlPlanes /\ "EVICTING_FORCED" \in SessionStates
    BY <1>1, <1>2, <1>4
  <2> HIDE DEF i
  <2> QED BY <2>1, SetStateFields
<1>6. /\ m \in ControlPlanes
      /\ OnlySlot(m, d, i)
      /\ m.slots[i].state = "EVICTING_FORCED"
      /\ m.slots[i].negotiated_mode = d.slots[i].negotiated_mode
      /\ m.slots[i].granted_generation = d.slots[i].granted_generation
      /\ m.active_slot = d.active_slot
      /\ m.evicting_slot = d.evicting_slot
      /\ m.pending_grant_target = d.pending_grant_target
      /\ m.dp_mode = d.dp_mode
      /\ m.generation = d.generation
  <2>1. i \in Slots
    BY <1>1
  <2> QED BY <1>2, <1>4, <2>1, SetStateFields
<1>7. table_mark_eviction_forced(d, i) = m
  BY <1>1, <1>2 DEF table_mark_eviction_forced
<1> HIDE DEF m
<1>8. e.slots[i].in_use = m.slots[i].in_use
  <2>1. i \in Slots /\ m \in ControlPlanes /\ "NEGOTIATED" \in SessionStates
    BY <1>1, <1>4, <1>6
  <2> HIDE DEF i
  <2> QED BY <2>1, SetStateFields
<1>9. /\ e \in ControlPlanes
      /\ OnlySlot(e, m, i)
      /\ e.slots[i].state = "NEGOTIATED"
      /\ e.slots[i].negotiated_mode = m.slots[i].negotiated_mode
      /\ e.slots[i].granted_generation = m.slots[i].granted_generation
      /\ e.active_slot = m.active_slot
      /\ e.evicting_slot = m.evicting_slot
      /\ e.pending_grant_target = m.pending_grant_target
      /\ e.dp_mode = m.dp_mode
      /\ e.generation = m.generation
  <2>1. i \in Slots
    BY <1>1
  <2> QED BY <1>4, <1>6, <2>1, SetStateFields
<1>10. table_reclaim_eviction(m, i) = e
  BY <1>6 DEF table_reclaim_eviction
<1> HIDE DEF e
<1>11. e.slots[i].in_use
  BY <1>1, <1>2, <1>5, <1>8, Zenon
<1>12. OnlySlot(e, c, i)
  BY <1>2, <1>6, <1>9 DEF OnlySlot
<1>13. /\ e.slots[i].state \in Grantable
       /\ e.slots[i].negotiated_mode \in SupportedModes
       /\ e.active_slot = IF c.active_slot = i THEN None ELSE c.active_slot
       /\ e.evicting_slot = IF c.evicting_slot = i THEN None ELSE c.evicting_slot
       /\ e.pending_grant_target \in {c.pending_grant_target, None}
       /\ e.dp_mode = c.dp_mode
       /\ e.generation = c.generation
  BY <1>1, <1>2, <1>6, <1>9 DEF Grantable
<1>14. Holders(c) = {i}
  BY <1>1, SoleHolder DEF HoldingStates
<1>15. Inv(e) /\ Holders(e) = Holders(c) \ {i}
  <2> HIDE DEF i
  <2> QED BY <1>1, <1>9, <1>11, <1>12, <1>13, ReleaseInv
<1>16. Holders(e) = {}
  BY <1>14, <1>15
<1>17. c.pending_grant_target # i
  BY <1>1, SlotsNat DEF Inv, PendingReady, Grantable
<1>18. e.pending_grant_target # i
  BY <1>1, <1>13, <1>17, SlotsNat
<1>19. (c.generation + CutOff(c, i)) % GenModulus = c.generation
  BY <1>1, NoCut
<1>20. Released(c, e, i)
  BY <1>2, <1>6, <1>9, <1>12, <1>13, <1>19 DEF Released
<1> QED BY <1>1, <1>3, <1>7, <1>10, <1>11, <1>14, <1>15, <1>16, <1>18, <1>20

\* The grace deadline keeps the invariant, with the hand-over that follows.
LEMMA GraceDeadlineInv ==
  ASSUME NEW c, Inv(c), c.evicting_slot # None
  PROVE  Inv(grace_deadline(c))
<1>1. grace_deadline(c) = maybe_grant_next_queued(finish_pending_grant(Expired(c)))
  BY DEF grace_deadline, Expired
<1> QED BY <1>1, ExpiredInv, HandOnInv

\* The passage of time keeps the invariant.
LEMMA LapseInv ==
  ASSUME NEW c, Inv(c)
  PROVE  /\ Inv([c EXCEPT !.heartbeat_late = TRUE])
         /\ Inv([c EXCEPT !.grace_over = TRUE])
<1> DEFINE d == [c EXCEPT !.heartbeat_late = TRUE]
           e == [c EXCEPT !.grace_over = TRUE]
<1>1. c \in ControlPlanes
  BY DEF Inv
<1>2. /\ d \in ControlPlanes
      /\ d.slots = c.slots
      /\ d.active_slot = c.active_slot
      /\ d.evicting_slot = c.evicting_slot
      /\ d.pending_grant_target = c.pending_grant_target
      /\ d.generation = c.generation
      /\ d.dp_mode = c.dp_mode
  BY <1>1 DEF ControlPlanes
<1>3. /\ e \in ControlPlanes
      /\ e.slots = c.slots
      /\ e.active_slot = c.active_slot
      /\ e.evicting_slot = c.evicting_slot
      /\ e.pending_grant_target = c.pending_grant_target
      /\ e.generation = c.generation
      /\ e.dp_mode = c.dp_mode
  BY <1>1 DEF ControlPlanes
<1> HIDE DEF d, e
<1>4. Inv(d) /\ Inv(e)
  BY <1>2, <1>3, SameInv
<1> QED BY <1>4 DEF d, e

-----------------------------------------------------------------------------

\* With no session at all the invariant holds.
LEMMA IdleInv ==
  ASSUME NEW c \in ControlPlanes,
         c.slots = [i \in Slots |-> FreeSession],
         c.active_slot = None, c.evicting_slot = None, c.pending_grant_target = None
  PROVE  Inv(c)
<1>1. \A i \in Slots : c.slots[i].state = "CONNECTED" /\ ~ c.slots[i].in_use
  BY FreeSessionType
<1>2. Holders(c) = {}
  BY <1>1 DEF Holders
<1>3. AtMostOne(c) /\ HolderCurrent(c) /\ ModeMatches(c)
  BY <1>2 DEF AtMostOne, HolderCurrent, ModeMatches
<1>4. ActiveCached(c) /\ EvictingCached(c)
  BY <1>1, SlotsNat DEF ActiveCached, EvictingCached
<1>5. PendingLive(c) /\ PendingReady(c) /\ ModeKnown(c) /\ FreeClean(c)
  BY <1>1 DEF PendingLive, PendingReady, ModeKnown, FreeClean
<1> QED BY <1>3, <1>4, <1>5 DEF Inv

\* The invariant holds when the server starts.
LEMMA InitInv == Init => Inv(cp)
<1> SUFFICES ASSUME Init PROVE Inv(cp)
  OBVIOUS
<1>1. /\ cp.slots = [i \in Slots |-> FreeSession]
      /\ cp.active_slot = None
      /\ cp.evicting_slot = None
      /\ cp.pending_grant_target = None
  BY DEF Init
<1>2. cp.slots \in [Slots -> Session]
  BY <1>1, FreeSessionType
<1>3. 0 \in Generations /\ <<>> \in Seq(Message)
  BY GenAssumption DEF Generations
<1>4. cp \in ControlPlanes
  BY <1>2, <1>3, ModeAssumption DEF Init, ControlPlanes, SlotOrNone
<1> QED BY <1>1, <1>4, IdleInv

\* Every step of the control thread keeps the invariant, as long as a connection
\* sends CONNECT once.
LEMMA NextInv ==
  ASSUME ConnectOnce, Inv(cp), [Next]_cp
  PROVE  Inv(cp')
<1>1. CASE Accept
  BY <1>1, AddInv, SentInv DEF Accept
<1>2. ASSUME NEW i \in Slots, Disconnect(i)
      PROVE  Inv(cp')
  BY <1>2, DisconnectInv, SentInv DEF Disconnect, InUse
<1>3. ASSUME NEW i \in Slots, NEW msg \in ConnectMessages, RecvConnect(i, msg)
      PROVE  Inv(cp')
  BY <1>3, ConnectInv, SentInv DEF RecvConnect, InUse
<1>4. ASSUME NEW i \in Slots, RecvActivateRequest(i)
      PROVE  Inv(cp')
  <2>1. PICK t \in RequestStamps(cp) :
          cp' = Sent(handle_activate_request(cp, i, t))
    BY <1>4 DEF RecvActivateRequest
  <2>2. t \in 0 .. MaxStamp
    BY RequestStampType
  <2>3. cp.slots[i].in_use
    BY <1>4 DEF RecvActivateRequest, InUse
  <2> QED BY <2>1, <2>2, <2>3, ActivateRequestInv, SentInv
<1>5. ASSUME NEW i \in Slots, RecvReadyForRt(i)
      PROVE  Inv(cp')
  BY <1>5, ReadyForRtInv, SentInv DEF RecvReadyForRt, InUse
<1>6. ASSUME NEW i \in Slots, RecvGrantDecline(i)
      PROVE  Inv(cp')
  BY <1>6, GrantDeclineInv, SentInv DEF RecvGrantDecline, InUse
<1>7. ASSUME NEW i \in Slots, RecvStopped(i)
      PROVE  Inv(cp')
  BY <1>7, StoppedInv, SentInv DEF RecvStopped, InUse
<1>8. ASSUME NEW i \in Slots, RecvHeartbeat(i)
      PROVE  Inv(cp')
  BY <1>8, HeartbeatInv, SentInv DEF RecvHeartbeat
<1>9. ASSUME NEW i \in Slots, RecvDmabufAnnounce(i)
      PROVE  Inv(cp')
  BY <1>9, QueriesInv, SentInv DEF RecvDmabufAnnounce
<1>10. CASE ListQuery
  BY <1>10, QueriesInv, SentInv DEF ListQuery
<1>11. ASSUME NEW id \in ClientIds \cup {NoId}, SwitchQuery(id)
       PROVE  Inv(cp')
  BY <1>11, SwitchInv, SentInv DEF SwitchQuery
<1>12. CASE HeartbeatLapse
  BY <1>12, LapseInv DEF HeartbeatLapse
<1>13. CASE GraceLapse
  BY <1>13, LapseInv DEF GraceLapse
<1>14. CASE HeartbeatTimeout
  BY <1>14, HeartbeatTimeoutInv, SentInv DEF HeartbeatTimeout
<1>15. CASE GraceDeadline
  BY <1>15, GraceDeadlineInv, SentInv DEF GraceDeadline
<1>16. CASE UNCHANGED cp
  BY <1>16
<1> QED
  BY <1>1, <1>2, <1>3, <1>4, <1>5, <1>6, <1>7, <1>8, <1>9, <1>10, <1>11,
     <1>12, <1>13, <1>14, <1>15, <1>16 DEF Next, ButStopped

Invariant == Inv(cp)

\* The inductive invariant holds in every behaviour of the control plane.
THEOREM Invariance == ASSUME ConnectOnce PROVE Spec => []Invariant
<1>1. Init => Invariant
  BY InitInv DEF Invariant
<1>2. Invariant /\ [Next]_cp => Invariant'
  BY NextInv DEF Invariant
<1> QED BY <1>1, <1>2, PTL DEF Spec

\* The struct stays well formed, for every table size, id set, mode set and
\* generation width.
THEOREM TypeCorrect == ASSUME ConnectOnce PROVE Spec => []TypeOK
<1>1. Invariant => TypeOK
  BY DEF Invariant, Inv, TypeOK
<1> QED BY <1>1, Invariance, PTL

\* The RT slot never has two occupants, however many clients connect and in
\* whatever order their messages, deadlines and admin switches are handled.
THEOREM OneOccupant == ASSUME ConnectOnce PROVE Spec => []SingleHolder
<1>1. Invariant => SingleHolder
  BY DEF Invariant, Inv, SingleHolder
<1> QED BY <1>1, Invariance, PTL

\* active_slot always names the ACTIVE_RT session, as session_table.h promises.
THEOREM ActiveCacheCorrect == ASSUME ConnectOnce PROVE Spec => []ActiveSlotIsCache
<1>1. Invariant => ActiveSlotIsCache
  BY DEF Invariant, Inv, ActiveSlotIsCache
<1> QED BY <1>1, Invariance, PTL

\* evicting_slot always names the session that is winding down, so a grace
\* deadline never falls on a slot that was freed or reused.
THEOREM EvictingCacheCorrect == ASSUME ConnectOnce PROVE Spec => []EvictingSlotIsCache
<1>1. Invariant => EvictingSlotIsCache
  BY DEF Invariant, Inv, EvictingSlotIsCache
<1> QED BY <1>1, Invariance, PTL

\* pending_grant_target never names a freed or reused slot.
THEOREM PendingTargetCorrect == ASSUME ConnectOnce PROVE Spec => []PendingTargetIsLive
<1>1. Invariant => PendingTargetIsLive
  BY DEF Invariant, Inv, PendingTargetIsLive
<1> QED BY <1>1, Invariance, PTL

\* The target of an eviction in flight stays grantable.
THEOREM EvictionEndsInGrant == ASSUME ConnectOnce PROVE Spec => []EvictionTargetGrantable
<1>1. Invariant => EvictionTargetGrantable
  BY DEF Invariant, Inv, EvictionTargetGrantable
<1> QED BY <1>1, Invariance, PTL

\* The occupant of the RT slot holds the current generation, wrap of the counter
\* included.
THEOREM HolderMayPublish == ASSUME ConnectOnce PROVE Spec => []HolderGenerationCurrent
<1>1. Invariant => HolderGenerationCurrent
  BY DEF Invariant, Inv, HolderGenerationCurrent
<1> QED BY <1>1, Invariance, PTL

\* The data plane is set to the mode that the occupant negotiated.
THEOREM BlitModeCorrect == ASSUME ConnectOnce PROVE Spec => []DataPlaneModeFollowsHolder
<1>1. Invariant => DataPlaneModeFollowsHolder
  BY DEF Invariant, Inv, DataPlaneModeFollowsHolder
<1> QED BY <1>1, Invariance, PTL

-----------------------------------------------------------------------------
(***************************************************************************)
(* The steps of the control plane: it implements the arbiter of RtSlot, the*)
(* generation fences off former occupants, and the slot is handed on in the*)
(* order of the queue and not left free.                                   *)
(*                                                                         *)
(* All of these follow from one summary of what a handler may do to the RT *)
(* slot, SlotTurn, which is proved for one handler after the other.  A     *)
(* handler leaves the occupant alone, moves it to its next state, grants a *)
(* free slot, ends the occupancy with nobody waiting, or hands the slot on;*)
(* in the last two cases the generation moves by one more if the occupant  *)
(* was active.  Only STOPPED may end the occupancy with sessions waiting,  *)
(* which AnyTurn allows.                                                   *)
(***************************************************************************)


\* No session other than those in S has been granted a generation; a slot that
\* was freed has forgotten the one it had.
NoGrantBut(c, d, S) ==
  \A j \in Slots \ S :
    d.slots[j].granted_generation \in {c.slots[j].granted_generation, 0}

\* The occupant is left alone and the queue of a free slot does not grow.
SlotKept(c, d) ==
  /\ Holders(d) = Holders(c)
  /\ \A i \in Holders(c) : d.slots[i].state = c.slots[i].state
  /\ d.generation = c.generation
  /\ NoGrantBut(c, d, {})
  /\ Holders(c) = {} => Queued(d) \subseteq Queued(c)

\* The occupant i goes from state s to state t.
SlotMoves(c, d, i, s, t) ==
  /\ Holders(c) = {i} /\ c.slots[i].state = s
  /\ Holders(d) = {i} /\ d.slots[i].state = t
  /\ d.generation = c.generation
  /\ NoGrantBut(c, d, {})

\* The free slot is granted to j.
SlotGranted(c, d, j) ==
  /\ Holders(c) = {}
  /\ Holders(d) = {j} /\ d.slots[j].state = "GRANTED_WARMUP"
  /\ d.generation = (c.generation + 1) % GenModulus
  /\ NoGrantBut(c, d, {j})

\* The occupant i leaves and nobody follows.
Leaves(c, d, i) ==
  /\ Holders(c) = {i}
  /\ Holders(d) = {}
  /\ d.generation = (c.generation + CutOff(c, i)) % GenModulus
  /\ NoGrantBut(c, d, {})

\* Nobody who is queued in c has waited longer than j.
Oldest(c, j) == \A k \in Queued(c) : ~ ts_less(c, k, j)

\* The occupant i leaves and j, the pending target or else the head of the queue,
\* is granted the slot.
HandsOn(c, d, i, j) ==
  /\ Holders(c) = {i}
  /\ i # j
  /\ Holders(d) = {j} /\ d.slots[j].state = "GRANTED_WARMUP"
  /\ d.generation = (c.generation + CutOff(c, i) + 1) % GenModulus
  /\ NoGrantBut(c, d, {j})
  /\ c.pending_grant_target = j \/ Oldest(c, j)

\* A turn that bumps no generation.
Still(c, d) ==
  \/ SlotKept(c, d)
  \/ \E i \in Slots :
       \/ SlotMoves(c, d, i, "GRANTED_WARMUP", "ACTIVE_RT")
       \/ SlotMoves(c, d, i, "ACTIVE_RT", "EVICTING_COOPERATIVE")

\* A turn that serves the queue.
SlotTurn(c, d) ==
  \/ Still(c, d)
  \/ \E i \in Slots : SlotGranted(c, d, i)
  \/ Queued(d) = {} /\ \E i \in Slots : Leaves(c, d, i)
  \/ \E i, j \in Slots : HandsOn(c, d, i, j)

AnyTurn(c, d) == SlotTurn(c, d) \/ \E i \in Slots : Leaves(c, d, i)

-----------------------------------------------------------------------------
(* What the shared steps of the handlers do to the RT slot *)

\* A handler that changes one session outside the RT slot keeps the occupant.
LEMMA KeptBySlot ==
  ASSUME NEW c, NEW d, NEW i \in Slots,
         OnlySlot(d, c, i),
         c.slots[i].state \notin HoldingStates,
         d.slots[i].state \notin HoldingStates,
         d.slots[i].granted_generation \in {c.slots[i].granted_generation, 0},
         d.generation = c.generation,
         Holders(c) = {} => d.slots[i].state # "QUEUED"
  PROVE  SlotKept(c, d)
<1>1. \A j \in Slots \ {i} : d.slots[j] = c.slots[j]
  BY DEF OnlySlot
<1>2. Holders(d) = Holders(c)
  BY <1>1 DEF Holders
<1>3. \A j \in Holders(c) : d.slots[j].state = c.slots[j].state
  BY <1>1 DEF Holders
<1>4. NoGrantBut(c, d, {})
  BY <1>1 DEF NoGrantBut
<1>5. Holders(c) = {} => Queued(d) \subseteq Queued(c)
  BY <1>1 DEF Queued
<1> QED BY <1>2, <1>3, <1>4, <1>5 DEF SlotKept

\* In particular one that releases a session which was not in the RT slot.
LEMMA ReleasedKept ==
  ASSUME NEW c \in ControlPlanes, NEW d, NEW i \in Slots, Released(c, d, i),
         c.slots[i].state \notin HoldingStates
  PROVE  SlotKept(c, d)
<1>1. d.generation = c.generation
  <2>1. c.slots[i].state # "ACTIVE_RT"
    BY DEF HoldingStates
  <2> QED BY <2>1, NoCut DEF Released
<1>2. d.slots[i].state \notin HoldingStates /\ d.slots[i].state # "QUEUED"
  BY DEF Released, HoldingStates
<1> QED BY <1>1, <1>2, KeptBySlot DEF Released

\* j, who was waiting for it, is granted a free slot.
GivenTo(c, d, j) ==
  /\ j \in Slots
  /\ c.slots[j].in_use /\ c.slots[j].state \in Grantable
  /\ OnlySlot(d, c, j)
  /\ Holders(d) = {j} /\ d.slots[j].state = "GRANTED_WARMUP"
  /\ d.generation = (c.generation + 1) % GenModulus

\* do_grant() on a free slot gives it to the session named.
LEMMA DoGrantGives ==
  ASSUME NEW c, Inv(c), NEW j \in Slots,
         c.slots[j].in_use, c.slots[j].state \in Grantable, Holders(c) = {}
  PROVE  GivenTo(c, do_grant(c, j), j)
<1>1. c \in ControlPlanes /\ c.slots[j].negotiated_mode \in SupportedModes
  BY DEF Inv, ModeKnown, Grantable
<1> QED BY <1>1, DoGrantFields, DoGrantInv DEF GivenTo

\* finish_pending_grant() gives a free slot to the pending target or leaves the
\* sessions alone.
LEMMA FinishGives ==
  ASSUME NEW c, Inv(c), Holders(c) = {}
  PROVE  LET f == finish_pending_grant(c)
         IN  \/ /\ f.slots = c.slots
                /\ f.generation = c.generation
                /\ f.pending_grant_target = None
             \/ GivenTo(c, f, c.pending_grant_target)
<1> DEFINE t == c.pending_grant_target
           d == [c EXCEPT !.pending_grant_target = None]
           f == finish_pending_grant(c)
<1>1. Inv(d) /\ d.slots = c.slots /\ d.generation = c.generation
  BY SetPendingInv DEF SlotOrNone
<1>2. d.pending_grant_target = None
  BY DEF Inv, ControlPlanes
<1>3. Holders(d) = {} /\ t \in SlotOrNone
  BY <1>1 DEF Holders, Inv, ControlPlanes
<1>4. f = IF t = None
          THEN d
          ELSE IF d.slots[t].in_use /\ d.slots[t].state \in Grantable
               THEN do_grant(d, t)
               ELSE d
  BY DEF finish_pending_grant
<1> HIDE DEF d, f
<1>5. t # None /\ d.slots[t].in_use /\ d.slots[t].state \in Grantable
        => GivenTo(d, do_grant(d, t), t)
  BY <1>1, <1>3, DoGrantGives DEF SlotOrNone
<1>6. \A r : GivenTo(d, r, t) => GivenTo(c, r, t)
  BY <1>1 DEF GivenTo, OnlySlot
<1>7. \/ /\ f.slots = c.slots
         /\ f.generation = c.generation
         /\ f.pending_grant_target = None
      \/ GivenTo(c, f, t)
  BY <1>1, <1>2, <1>4, <1>5, <1>6
<1> QED BY <1>7 DEF f

\* Among the queued sessions the scan finds one that waited longest, and it finds
\* one whenever there is one.
LEMMA NextIsOldest ==
  ASSUME NEW c \in ControlPlanes, Queued(c) # {}
  PROVE  find_next_queued(c) \in Queued(c) /\ Oldest(c, find_next_queued(c))
<1> DEFINE Stamp(k) == c.slots[k].activate_requested
           T == {Stamp(k) : k \in Queued(c)}
           S == {i \in Queued(c) : \A j \in Queued(c) : ~ ts_less(c, j, i)}
<1>1. \A k \in Queued(c) : k \in Slots /\ Stamp(k) \in Nat
  BY StampAssumption DEF Queued, ControlPlanes, Session
<1>2. T \in SUBSET Nat /\ T # {}
  BY <1>1
<1>3. PICK k \in Queued(c) : Stamp(k) = Min(T)
  <2>1. Min(T) \in T
    <3> HIDE DEF T
    <3> QED BY <1>2, MinIsLeast
  <2> QED BY <2>1
<1>4. \A j \in Queued(c) : Stamp(k) <= Stamp(j)
  <2>1. \A y \in T : Min(T) <= y
    <3> HIDE DEF T
    <3> QED BY <1>2, MinIsLeast
  <2> QED BY <1>3, <2>1
<1>5. k \in S
  BY <1>1, <1>4 DEF ts_less
<1>6. S \in SUBSET Slots /\ find_next_queued(c) = FirstOf(S)
  BY <1>1 DEF find_next_queued
<1>7. find_next_queued(c) \in S
  <2> HIDE DEF S
  <2> QED BY <1>5, <1>6, FirstOfIsMember
<1> QED BY <1>7 DEF Oldest

\* maybe_grant_next_queued() leaves an occupied slot alone and gives a free one to
\* a session that waited longest, if any waits.
LEMMA MaybeGives ==
  ASSUME NEW c, Inv(c)
  PROVE  LET m == maybe_grant_next_queued(c)
         IN  /\ Holders(c) # {} => m = c
             /\ Holders(c) = {} =>
                  \/ Queued(c) = {} /\ m = c
                  \/ \E j \in Queued(c) : Oldest(c, j) /\ GivenTo(c, m, j)
<1> DEFINE m == maybe_grant_next_queued(c)
           n == find_next_queued(c)
<1>1. c \in ControlPlanes
  BY DEF Inv
<1>2. m = IF rt_slot_taken(c) \/ n = None THEN c ELSE grant_slot(c, n)
  BY DEF maybe_grant_next_queued
<1>3. Holders(c) # {} => m = c
  BY <1>2 DEF rt_slot_taken
<1>4. ASSUME Holders(c) = {}, Queued(c) = {}
      PROVE  m = c
  BY <1>2, <1>4, NextQueuedIsQueued
<1>5. ASSUME Holders(c) = {}, Queued(c) # {}
      PROVE  \E j \in Queued(c) : Oldest(c, j) /\ GivenTo(c, m, j)
  <2>1. n \in Queued(c) /\ Oldest(c, n)
    BY <1>1, <1>5, NextIsOldest
  <2>2. /\ n \in Slots /\ n # None
        /\ c.slots[n].in_use
        /\ c.slots[n].state \in Grantable
    BY <2>1, SlotsNat DEF Queued, Grantable
  <2>3. c.active_slot = None
    BY <1>1, <1>5 DEF Inv, ActiveCached, Holders, HoldingStates, ControlPlanes,
                      SlotOrNone
  <2> HIDE DEF n
  <2>4. m = do_grant(c, n)
    BY <1>2, <1>5, <2>2, <2>3 DEF grant_slot, rt_slot_taken
  <2>5. GivenTo(c, m, n)
    BY <1>5, <2>2, <2>4, DoGrantGives
  <2> QED BY <2>1, <2>5
<1> HIDE DEF m
<1>6. /\ Holders(c) # {} => m = c
      /\ Holders(c) = {} =>
           \/ Queued(c) = {} /\ m = c
           \/ \E j \in Queued(c) : Oldest(c, j) /\ GivenTo(c, m, j)
  BY <1>3, <1>4, <1>5
<1> QED BY <1>6 DEF m

-----------------------------------------------------------------------------
(* How an occupancy ends *)

\* Two bumps of the counter are a bump by two.
LEMMA BumpTwice ==
  ASSUME NEW g \in Generations, NEW n \in {0, 1}
  PROVE  (((g + n) % GenModulus) + 1) % GenModulus = (g + n + 1) % GenModulus
<1>1. \A x \in 0 .. GenModulus - 1 : x % GenModulus = x
  BY GenAssumption
<1>2. GenModulus % GenModulus = 0 /\ (GenModulus + 1) % GenModulus = 1
  BY GenAssumption
<1>3. CASE g + n < GenModulus
  BY <1>1, <1>3, GenAssumption DEF Generations
<1>4. CASE g + n = GenModulus
  BY <1>1, <1>2, <1>4, GenAssumption DEF Generations
<1> QED BY <1>3, <1>4, GenAssumption DEF Generations

\* The occupant i is released and the slot given to j, who is somebody else.
LEMMA ReleasedGiven ==
  ASSUME NEW c, Inv(c), NEW e, NEW d, NEW i \in Slots, NEW j \in Slots,
         Holders(c) = {i}, Released(c, e, i), GivenTo(e, d, j),
         \/ j # i /\ c.pending_grant_target = j
         \/ j \in Queued(e) /\ Oldest(e, j)
  PROVE  HandsOn(c, d, i, j)
<1>1. /\ c \in ControlPlanes
      /\ \A k \in Slots \ {i} : e.slots[k] = c.slots[k]
      /\ \A k \in Slots \ {j} : d.slots[k] = e.slots[k]
      /\ e.slots[i].state \in {"CONNECTED", "NEGOTIATED"}
      /\ e.slots[i].granted_generation \in {c.slots[i].granted_generation, 0}
      /\ e.generation = (c.generation + CutOff(c, i)) % GenModulus
      /\ d.generation = (e.generation + 1) % GenModulus
      /\ Holders(d) = {j} /\ d.slots[j].state = "GRANTED_WARMUP"
  BY DEF Inv, Released, GivenTo, OnlySlot
<1>2. i \notin Queued(e) /\ Queued(c) = Queued(e)
  <2>1. i \notin Queued(e)
    BY <1>1 DEF Queued
  <2>2. i \notin Queued(c)
    BY DEF Queued, Holders, HoldingStates
  <2>3. \A k \in Slots \ {i} : k \in Queued(c) <=> k \in Queued(e)
    BY <1>1 DEF Queued
  <2>4. Queued(c) \subseteq Slots /\ Queued(e) \subseteq Slots
    BY DEF Queued
  <2> QED BY <2>1, <2>2, <2>3, <2>4
<1>3. i # j
  BY <1>2
<1>4. c.pending_grant_target = j \/ Oldest(c, j)
  <2>1. ASSUME Oldest(e, j) PROVE Oldest(c, j)
    <3>1. \A k \in Queued(c) : k \in Slots \ {i}
      BY <1>2 DEF Queued
    <3>2. \A k \in Slots \ {i} : ts_less(e, k, j) <=> ts_less(c, k, j)
      BY <1>1, <1>3 DEF ts_less
    <3> QED BY <1>2, <2>1, <3>1, <3>2 DEF Oldest
  <2> QED BY <2>1
<1>5. NoGrantBut(c, d, {j})
  BY <1>1 DEF NoGrantBut
<1>6. d.generation = (c.generation + CutOff(c, i) + 1) % GenModulus
  <2>1. c.generation \in Generations /\ CutOff(c, i) \in {0, 1}
    BY <1>1 DEF ControlPlanes, CutOff
  <2> QED BY <1>1, <2>1, BumpTwice
<1> QED BY <1>1, <1>3, <1>4, <1>5, <1>6 DEF HandsOn

\* The occupant i is released and the slot stays free.
LEMMA ReleasedFree ==
  ASSUME NEW c, NEW e, NEW d, NEW i \in Slots,
         Holders(c) = {i}, Holders(e) = {}, Released(c, e, i),
         d.slots = e.slots, d.generation = e.generation
  PROVE  Leaves(c, d, i)
<1>1. Holders(d) = {}
  BY DEF Holders
<1>2. NoGrantBut(c, d, {})
  BY DEF NoGrantBut, Released, OnlySlot
<1> QED BY <1>1, <1>2 DEF Leaves, Released

\* After the occupant is released, a grant to the head of the queue is a turn.
LEMMA ReleasedThenQueue ==
  ASSUME NEW c, Inv(c), NEW e, Inv(e), NEW i \in Slots,
         Holders(c) = {i}, Holders(e) = {}, Released(c, e, i)
  PROVE  SlotTurn(c, maybe_grant_next_queued(e))
<1> DEFINE m == maybe_grant_next_queued(e)
<1>1. \/ Queued(e) = {} /\ m = e
      \/ \E j \in Queued(e) : Oldest(e, j) /\ GivenTo(e, m, j)
  BY MaybeGives, Zenon
<1> SUFFICES SlotTurn(c, m)
  OBVIOUS
<1> HIDE DEF m
<1>2. CASE Queued(e) = {} /\ m = e
  <2>1. Leaves(c, m, i)
    BY <1>2, ReleasedFree
  <2> QED BY <1>2, <2>1 DEF SlotTurn
<1>3. CASE \E j \in Queued(e) : Oldest(e, j) /\ GivenTo(e, m, j)
  <2>1. PICK j \in Queued(e) : Oldest(e, j) /\ GivenTo(e, m, j)
    BY <1>3
  <2>2. j \in Slots
    BY DEF Queued
  <2>3. HandsOn(c, m, i, j)
    BY <2>1, <2>2, ReleasedGiven
  <2> QED BY <2>2, <2>3 DEF SlotTurn
<1> QED BY <1>1, <1>2, <1>3

\* So is a grant to the pending target.
LEMMA ReleasedThenPending ==
  ASSUME NEW c, Inv(c), NEW e, NEW i \in Slots, NEW f,
         Holders(c) = {i}, Released(c, e, i),
         e.pending_grant_target # i, GivenTo(e, f, e.pending_grant_target)
  PROVE  SlotTurn(c, f)
<1> DEFINE j == e.pending_grant_target
<1>1. j \in Slots
  BY DEF GivenTo
<1>2. c.pending_grant_target = j
  BY <1>1, SlotsNat DEF Released
<1>3. HandsOn(c, f, i, j)
  BY <1>1, <1>2, ReleasedGiven
<1> QED BY <1>1, <1>3 DEF SlotTurn

\* So is a grant to the pending target or else to the head of the queue.
LEMMA ReleasedThenHandOn ==
  ASSUME NEW c, Inv(c), NEW e, Inv(e), NEW i \in Slots,
         Holders(c) = {i}, Holders(e) = {}, Released(c, e, i),
         e.pending_grant_target # i
  PROVE  SlotTurn(c, maybe_grant_next_queued(finish_pending_grant(e)))
<1> DEFINE f == finish_pending_grant(e)
<1>1. Inv(f)
  BY FinishPendingInv
<1>2. \/ /\ f.slots = e.slots
         /\ f.generation = e.generation
         /\ f.pending_grant_target = None
      \/ GivenTo(e, f, e.pending_grant_target)
  BY FinishGives, Zenon
<1> SUFFICES SlotTurn(c, maybe_grant_next_queued(f))
  OBVIOUS
<1> HIDE DEF f
<1>3. CASE /\ f.slots = e.slots
           /\ f.generation = e.generation
           /\ f.pending_grant_target = None
  <2>1. Holders(f) = {} /\ Released(c, f, i)
    BY <1>3 DEF Holders, Released, OnlySlot
  <2> QED BY <1>1, <2>1, ReleasedThenQueue
<1>4. CASE GivenTo(e, f, e.pending_grant_target)
  <2>1. Holders(f) # {}
    BY <1>4 DEF GivenTo
  <2>2. maybe_grant_next_queued(f) = f
    BY <1>1, <2>1, MaybeGives, Zenon
  <2>3. SlotTurn(c, f)
    BY <1>4, ReleasedThenPending
  <2> QED BY <2>2, <2>3
<1> QED BY <1>2, <1>3, <1>4

-----------------------------------------------------------------------------
(* Every handler takes a turn *)

\* A handler that changes neither the sessions nor the generation keeps the
\* occupant.
LEMMA SameKept ==
  ASSUME NEW c, NEW d, d.slots = c.slots, d.generation = c.generation
  PROVE  SlotKept(c, d)
BY DEF SlotKept, Holders, Queued, NoGrantBut

\* Whatever else a handler writes, messages above all, does not matter for a turn.
LEMMA SameTurn ==
  ASSUME NEW c, NEW d, NEW e, e.slots = d.slots, e.generation = d.generation
  PROVE  /\ Still(c, d) => Still(c, e)
         /\ SlotTurn(c, d) => SlotTurn(c, e)
         /\ AnyTurn(c, d) => AnyTurn(c, e)
<1>1. Holders(e) = Holders(d) /\ Queued(e) = Queued(d)
  BY DEF Holders, Queued
<1>2. \A S : NoGrantBut(c, d, S) => NoGrantBut(c, e, S)
  BY DEF NoGrantBut
<1>3. SlotKept(c, d) => SlotKept(c, e)
  BY <1>1, <1>2 DEF SlotKept
<1>4. \A i, s, t : SlotMoves(c, d, i, s, t) => SlotMoves(c, e, i, s, t)
  BY <1>1, <1>2 DEF SlotMoves
<1>5. \A i : SlotGranted(c, d, i) => SlotGranted(c, e, i)
  BY <1>1, <1>2 DEF SlotGranted
<1>6. \A i : Leaves(c, d, i) => Leaves(c, e, i)
  BY <1>1, <1>2 DEF Leaves
<1>7. \A i, j : HandsOn(c, d, i, j) => HandsOn(c, e, i, j)
  BY <1>1, <1>2 DEF HandsOn
<1>8. Still(c, d) => Still(c, e)
  BY <1>3, <1>4 DEF Still
<1>9. SlotTurn(c, d) => SlotTurn(c, e)
  BY <1>1, <1>5, <1>6, <1>7, <1>8 DEF SlotTurn
<1> QED BY <1>6, <1>8, <1>9 DEF AnyTurn

\* Passing the messages to the sockets, in particular.
LEMMA SentTurn ==
  ASSUME NEW c, NEW d \in ControlPlanes
  PROVE  /\ Still(c, d) => Still(c, Sent(d))
         /\ SlotTurn(c, d) => SlotTurn(c, Sent(d))
         /\ AnyTurn(c, d) => AnyTurn(c, Sent(d))
<1> DEFINE e == [d EXCEPT !.out = <<>>]
<1>1. e.slots = d.slots /\ e.generation = d.generation
  BY DEF ControlPlanes
<1> HIDE DEF e
<1>2. /\ Still(c, d) => Still(c, e)
      /\ SlotTurn(c, d) => SlotTurn(c, e)
      /\ AnyTurn(c, d) => AnyTurn(c, e)
  BY <1>1, SameTurn
<1> QED BY <1>2 DEF Sent, e

\* A new connection is no turn of the slot.
LEMMA AddStill ==
  ASSUME NEW c, Inv(c)
  PROVE  Still(c, table_add(c))
<1>1. c \in ControlPlanes
  BY DEF Inv
<1>2. CASE table_add(c) = c
  BY <1>2, SameKept DEF Still
<1>3. ASSUME NEW i \in Slots, c.slots[i].state = "CONNECTED",
             Released(c, table_add(c), i)
      PROVE  Still(c, table_add(c))
  <2>1. SlotKept(c, table_add(c))
    BY <1>1, <1>3, ReleasedKept DEF HoldingStates
  <2> QED BY <2>1 DEF Still
<1> QED BY <1>2, <1>3, AddInv

\* A disconnection ends the occupancy of the occupant, cut off if it was active,
\* and hands the slot on.
LEMMA DisconnectTurn ==
  ASSUME NEW c, Inv(c), NEW i \in Slots, c.slots[i].in_use
  PROVE  SlotTurn(c, handle_disconnect(c, i))
<1> DEFINE f == Disconnected(c, i)
<1>1. /\ c \in ControlPlanes
      /\ Inv(f)
      /\ Holders(f) = Holders(c) \ {i}
      /\ Released(c, f, i)
      /\ f.pending_grant_target # i
  BY DisconnectedInv DEF Inv
<1> HIDE DEF f
<1>2. CASE c.slots[i].state \in HoldingStates
  <2>1. Holders(c) = {i} /\ Holders(f) = {}
    BY <1>1, <1>2, SoleHolder
  <2>2. handle_disconnect(c, i) = maybe_grant_next_queued(finish_pending_grant(f))
    BY <1>2, DisconnectSteps DEF f
  <2>3. SlotTurn(c, maybe_grant_next_queued(finish_pending_grant(f)))
    BY <1>1, <2>1, ReleasedThenHandOn
  <2> QED BY <2>2, <2>3
<1>3. CASE c.slots[i].state \notin HoldingStates
  <2>1. handle_disconnect(c, i) = f
    BY <1>3, DisconnectSteps DEF f
  <2>2. SlotKept(c, f)
    BY <1>1, <1>3, ReleasedKept
  <2> QED BY <2>1, <2>2 DEF SlotTurn, Still
<1> QED BY <1>2, <1>3

\* The first CONNECT of a connection is no turn of the slot.
LEMMA ConnectStill ==
  ASSUME NEW c, Inv(c), NEW i \in Slots, NEW msg \in ConnectMessages,
         c.slots[i].in_use, c.slots[i].state = "CONNECTED"
  PROVE  Still(c, handle_connect(c, i, msg))
<1>1. c \in ControlPlanes /\ c.slots[i].state \notin HoldingStates
  BY DEF Inv, HoldingStates
<1>2. SlotKept(c, handle_connect(c, i, msg))
  BY <1>1, ConnectInv, ReleasedKept
<1> QED BY <1>2 DEF Still

\* A move of the occupant, as the lemmas on the handlers describe it.
LEMMA MovedMoves ==
  ASSUME NEW c, NEW d, NEW i \in Slots, NEW s, Moved(c, d, i, s)
  PROVE  SlotMoves(c, d, i, c.slots[i].state, s)
<1>1. NoGrantBut(c, d, {})
  BY DEF Moved, OnlySlot, NoGrantBut
<1> QED BY <1>1 DEF Moved, SlotMoves

\* grant_slot() grants a free slot, winds an active occupant down, or waits for
\* the occupant that warms up or winds down.
LEMMA GrantSlotTurn ==
  ASSUME NEW c, Inv(c), NEW i \in Slots,
         c.slots[i].in_use, c.slots[i].state \in Grantable
  PROVE  SlotTurn(c, grant_slot(c, i))
<1>1. c \in ControlPlanes /\ c.active_slot \in SlotOrNone /\ c.active_slot # i
  BY DEF Inv, ControlPlanes, ActiveCached, Grantable
<1>2. CASE c.active_slot # None
  <2> DEFINE p == c.active_slot
             d == begin_eviction(c, p, i)
  <2>1. p \in Slots /\ c.slots[p].state = "ACTIVE_RT" /\ grant_slot(c, i) = d
    BY <1>1, <1>2 DEF Inv, ActiveCached, SlotOrNone, grant_slot
  <2>2. Moved(c, d, p, "EVICTING_COOPERATIVE")
    BY <2>1, BeginEvictionInv
  <2> HIDE DEF d
  <2>3. SlotMoves(c, d, p, "ACTIVE_RT", "EVICTING_COOPERATIVE")
    BY <2>1, <2>2, MovedMoves
  <2> QED BY <2>1, <2>3 DEF SlotTurn, Still
<1>3. CASE c.active_slot = None /\ rt_slot_taken(c)
  <2> DEFINE d == [c EXCEPT !.pending_grant_target = i]
  <2>1. grant_slot(c, i) = d
    BY <1>1, <1>3 DEF grant_slot
  <2>2. d.slots = c.slots /\ d.generation = c.generation
    BY <1>1 DEF ControlPlanes
  <2> HIDE DEF d
  <2>3. SlotKept(c, d)
    BY <2>2, SameKept
  <2> QED BY <2>1, <2>3 DEF SlotTurn, Still
<1>4. CASE c.active_slot = None /\ ~ rt_slot_taken(c)
  <2>1. Holders(c) = {} /\ grant_slot(c, i) = do_grant(c, i)
    BY <1>4 DEF grant_slot, rt_slot_taken
  <2>2. GivenTo(c, do_grant(c, i), i)
    BY <2>1, DoGrantGives
  <2>3. NoGrantBut(c, do_grant(c, i), {i})
    BY <2>2 DEF GivenTo, OnlySlot, NoGrantBut
  <2>4. SlotGranted(c, do_grant(c, i), i)
    BY <2>1, <2>2, <2>3 DEF GivenTo, SlotGranted
  <2> QED BY <2>1, <2>4 DEF SlotTurn
<1> QED BY <1>2, <1>3, <1>4

\* A request is granted when the slot is free and queued when it is not.
LEMMA ActivateRequestTurn ==
  ASSUME NEW c, Inv(c), NEW i \in Slots, c.slots[i].in_use, NEW t \in 0 .. MaxStamp
  PROVE  SlotTurn(c, handle_activate_request(c, i, t))
<1> DEFINE d == Enqueued(c, i, t)
           q == queue_position(d, i)
           e == Send(d, i, "ACTIVATE_QUEUED", q)
<1>1. CASE c.slots[i].state # "NEGOTIATED"
  <2>1. handle_activate_request(c, i, t) = c
    BY <1>1, ActivateRequestSteps
  <2> QED BY <2>1, SameKept DEF SlotTurn, Still
<1>2. CASE c.slots[i].state = "NEGOTIATED" /\ ~ rt_slot_taken(c)
  <2>1. handle_activate_request(c, i, t) = grant_slot(c, i)
    BY <1>2, ActivateRequestSteps
  <2> QED BY <1>2, <2>1, GrantSlotTurn DEF Grantable
<1>3. CASE c.slots[i].state = "NEGOTIATED" /\ rt_slot_taken(c)
  <2>1. handle_activate_request(c, i, t) = e
    BY <1>3, ActivateRequestSteps
  <2>2. /\ Inv(d)
        /\ OnlySlot(d, c, i)
        /\ d.slots[i].state = "QUEUED"
        /\ d.slots[i].granted_generation = c.slots[i].granted_generation
        /\ d.generation = c.generation
    BY <1>3, EnqueuedInv, Zenon
  <2> HIDE DEF d
  <2>3. SlotKept(c, d)
    BY <1>3, <2>2, KeptBySlot DEF HoldingStates, rt_slot_taken
  <2>4. /\ i \in Slots \cup {Admin} /\ "ACTIVATE_QUEUED" \in MessageKinds
        /\ q \in Nat /\ d \in ControlPlanes
    BY <2>2, QueuePositionIsNat DEF MessageKinds, Inv
  <2>5. e.slots = d.slots /\ e.generation = d.generation
    <3> HIDE DEF q
    <3> QED BY <2>4, SendFields
  <2> HIDE DEF e
  <2>6. SlotTurn(c, e)
    BY <2>3, <2>5, SameTurn DEF SlotTurn, Still
  <2> QED BY <2>1, <2>6
<1> QED BY <1>1, <1>2, <1>3

\* READY_FOR_RT ends the warmup.
LEMMA ReadyForRtStill ==
  ASSUME NEW c, Inv(c), NEW i \in Slots, c.slots[i].in_use
  PROVE  Still(c, handle_ready_for_rt(c, i))
<1>1. CASE c.slots[i].state # "GRANTED_WARMUP"
  <2>1. handle_ready_for_rt(c, i) = c
    BY <1>1 DEF handle_ready_for_rt
  <2> QED BY <2>1, SameKept DEF Still
<1>2. CASE c.slots[i].state = "GRANTED_WARMUP"
  <2> DEFINE d == table_activate(c, i)
  <2>1. handle_ready_for_rt(c, i) = d
    BY <1>2 DEF handle_ready_for_rt
  <2>2. Moved(c, d, i, "ACTIVE_RT")
    BY <1>2, ActivateInv
  <2> HIDE DEF d
  <2>3. SlotMoves(c, d, i, "GRANTED_WARMUP", "ACTIVE_RT")
    BY <1>2, <2>2, MovedMoves
  <2> QED BY <2>1, <2>3 DEF Still
<1> QED BY <1>1, <1>2

\* A declined grant goes to the head of the queue.
LEMMA GrantDeclineTurn ==
  ASSUME NEW c, Inv(c), NEW i \in Slots, c.slots[i].in_use
  PROVE  SlotTurn(c, handle_grant_decline(c, i))
<1>1. CASE c.slots[i].state # "GRANTED_WARMUP"
  <2>1. handle_grant_decline(c, i) = c
    BY <1>1 DEF handle_grant_decline
  <2> QED BY <2>1, SameKept DEF SlotTurn, Still
<1>2. CASE c.slots[i].state = "GRANTED_WARMUP"
  <2> DEFINE d == SetState(c, i, "NEGOTIATED")
  <2>1. handle_grant_decline(c, i) = maybe_grant_next_queued(d)
    BY <1>2 DEF handle_grant_decline
  <2>2. Inv(d) /\ Holders(d) = Holders(c) \ {i} /\ Released(c, d, i)
    BY <1>2, DeclinedInv
  <2> HIDE DEF d
  <2>3. Holders(c) = {i} /\ Holders(d) = {}
    BY <1>2, <2>2, SoleHolder DEF HoldingStates
  <2> QED BY <2>1, <2>2, <2>3, ReleasedThenQueue
<1> QED BY <1>1, <1>2

\* STOPPED hands the slot to the pending target, or leaves it free.
LEMMA StoppedTurn ==
  ASSUME NEW c, Inv(c), NEW i \in Slots, c.slots[i].in_use
  PROVE  AnyTurn(c, handle_stopped(c, i))
<1>1. CASE c.slots[i].state # "EVICTING_COOPERATIVE"
  <2>1. handle_stopped(c, i) = c
    BY <1>1 DEF handle_stopped
  <2> QED BY <2>1, SameKept DEF AnyTurn, SlotTurn, Still
<1>2. CASE c.slots[i].state = "EVICTING_COOPERATIVE"
  <2> DEFINE e == StopEvicting(table_reclaim_eviction(c, i), i)
             f == finish_pending_grant(e)
  <2>1. handle_stopped(c, i) = f
    BY <1>2 DEF handle_stopped
  <2>2. /\ Inv(e)
        /\ Holders(e) = {}
        /\ Released(c, e, i)
        /\ e.pending_grant_target # i
    BY <1>2, ReclaimInv, Zenon
  <2> HIDE DEF e
  <2>4. Holders(c) = {i}
    BY <1>2, SoleHolder DEF HoldingStates
  <2>5. \/ f.slots = e.slots /\ f.generation = e.generation
        \/ GivenTo(e, f, e.pending_grant_target)
    BY <2>2, FinishGives, Zenon
  <2> HIDE DEF f
  <2>6. f.slots = e.slots /\ f.generation = e.generation => Leaves(c, f, i)
    BY <2>2, <2>4, ReleasedFree
  <2>7. GivenTo(e, f, e.pending_grant_target) => SlotTurn(c, f)
    BY <2>2, <2>4, ReleasedThenPending
  <2>8. AnyTurn(c, f)
    BY <2>5, <2>6, <2>7 DEF AnyTurn
  <2> QED BY <2>1, <2>8
<1> QED BY <1>1, <1>2

\* Heartbeats, answers and the passage of time are no turns of the slot.
LEMMA MinorStill ==
  ASSUME NEW c, Inv(c)
  PROVE  /\ \A i \in Slots : Still(c, handle_heartbeat(c, i))
         /\ \A i \in Slots : Still(c, handle_dmabuf_announce(c, i))
         /\ Still(c, handle_list_query(c))
         /\ Still(c, [c EXCEPT !.heartbeat_late = TRUE])
         /\ Still(c, [c EXCEPT !.grace_over = TRUE])
<1>1. c \in ControlPlanes
  BY DEF Inv
<1>2. \A d : d.slots = c.slots /\ d.generation = c.generation => Still(c, d)
  BY SameKept DEF Still
<1>3. \A x \in BOOLEAN :
        LET d == [c EXCEPT !.heartbeat_late = x]
        IN  d.slots = c.slots /\ d.generation = c.generation
  BY <1>1 DEF ControlPlanes
<1>4. LET d == [c EXCEPT !.grace_over = TRUE]
      IN  d.slots = c.slots /\ d.generation = c.generation
  BY <1>1 DEF ControlPlanes
<1>5. \A to, kind, arg :
        LET d == Send(c, to, kind, arg)
        IN  d.slots = c.slots /\ d.generation = c.generation
  BY <1>1 DEF Send, ControlPlanes
<1>6. ASSUME NEW i \in Slots PROVE Still(c, handle_heartbeat(c, i))
  BY <1>2, <1>3 DEF handle_heartbeat
<1>7. /\ Still(c, [c EXCEPT !.heartbeat_late = TRUE])
      /\ Still(c, [c EXCEPT !.grace_over = TRUE])
  BY <1>2, <1>3, <1>4
<1>8. \A to, kind, arg : Still(c, Send(c, to, kind, arg))
  BY <1>2, <1>5
<1> QED BY <1>6, <1>7, <1>8 DEF handle_dmabuf_announce, handle_list_query

\* An admin switch is at most what grant_slot() does.
LEMMA SwitchTurn ==
  ASSUME NEW c, Inv(c), NEW id
  PROVE  SlotTurn(c, handle_switch_query(c, id))
<1> DEFINE i == find_by_client_id(c, id)
           Reply(d, ok) == Send(d, Admin, "SWITCH_RESPONSE", ok)
<1>1. ASSUME NEW d, Inv(d), NEW ok \in Nat, SlotTurn(c, d)
      PROVE  SlotTurn(c, Reply(d, ok))
  <2>1. d \in ControlPlanes /\ "SWITCH_RESPONSE" \in MessageKinds
    BY <1>1 DEF Inv, MessageKinds
  <2>2. Reply(d, ok).slots = d.slots /\ Reply(d, ok).generation = d.generation
    BY <1>1, <2>1, SendFields
  <2> HIDE DEF Reply
  <2> QED BY <1>1, <2>2, SameTurn
<1>2. i # None /\ c.slots[i].state \in Grantable
        => Inv(grant_slot(c, i)) /\ SlotTurn(c, grant_slot(c, i))
  BY FoundIsInUse, GrantSlotInv, GrantSlotTurn
<1>3. handle_switch_query(c, id)
        = IF i = None
          THEN Reply(c, 0)
          ELSE IF c.slots[i].state = "ACTIVE_RT"
               THEN Reply(c, 1)
               ELSE IF c.slots[i].state \notin Grantable
                    THEN Reply(c, 0)
                    ELSE Reply(grant_slot(c, i), 1)
  BY DEF handle_switch_query
<1> HIDE DEF Reply, i
<1>4. SlotTurn(c, c)
  BY SameKept DEF SlotTurn, Still
<1>5. SlotTurn(c, Reply(c, 0)) /\ SlotTurn(c, Reply(c, 1))
  BY <1>1, <1>4
<1>6. i # None /\ c.slots[i].state \in Grantable
        => SlotTurn(c, Reply(grant_slot(c, i), 1))
  BY <1>1, <1>2
<1> QED BY <1>3, <1>5, <1>6

\* A heartbeat timeout cuts the active occupant off and grants the slot to the
\* head of the queue.
LEMMA HeartbeatTimeoutTurn ==
  ASSUME NEW c, Inv(c), c.active_slot # None
  PROVE  SlotTurn(c, heartbeat_timeout(c))
<1>1. heartbeat_timeout(c) = maybe_grant_next_queued(TimedOut(c))
  BY DEF heartbeat_timeout, TimedOut
<1> QED BY <1>1, TimedOutInv, ReleasedThenQueue

\* A grace deadline takes the slot from the evicted occupant and hands it on.
LEMMA GraceDeadlineTurn ==
  ASSUME NEW c, Inv(c), c.evicting_slot # None
  PROVE  SlotTurn(c, grace_deadline(c))
<1>1. grace_deadline(c) = maybe_grant_next_queued(finish_pending_grant(Expired(c)))
  BY DEF grace_deadline, Expired
<1> QED BY <1>1, ExpiredInv, ReleasedThenHandOn

\* Every step of the control thread but STOPPED takes a turn that serves the
\* queue, and one that has no room for a bump of the generation makes none.
LEMMA ServingTurn ==
  ASSUME ConnectOnce, Inv(cp), ButStopped
  PROVE  \/ Still(cp, cp')
         \/ CanBump /\ SlotTurn(cp, cp')
<1>0. \A d : Inv(d) => d \in ControlPlanes
  BY DEF Inv
<1>1. ASSUME Accept PROVE Still(cp, cp')
  <2>1. Still(cp, Sent(table_add(cp)))
    BY <1>0, AddInv, AddStill, SentTurn
  <2> QED BY <1>1, <2>1 DEF Accept
<1>2. ASSUME NEW i \in Slots, Disconnect(i)
      PROVE  CanBump /\ SlotTurn(cp, cp')
  <2>1. cp.slots[i].in_use /\ CanBump /\ cp' = Sent(handle_disconnect(cp, i))
    BY <1>2 DEF Disconnect, InUse
  <2> QED BY <1>0, <2>1, DisconnectInv, DisconnectTurn, SentTurn
<1>3. ASSUME NEW i \in Slots, NEW msg \in ConnectMessages, RecvConnect(i, msg)
      PROVE  Still(cp, cp')
  <2>1. /\ cp.slots[i].in_use /\ cp.slots[i].state = "CONNECTED"
        /\ cp' = Sent(handle_connect(cp, i, msg))
    BY <1>3 DEF RecvConnect, InUse
  <2> QED BY <1>0, <2>1, ConnectInv, ConnectStill, SentTurn
<1>4. ASSUME NEW i \in Slots, RecvActivateRequest(i)
      PROVE  CanBump /\ SlotTurn(cp, cp')
  <2>1. PICK t \in RequestStamps(cp) :
          cp' = Sent(handle_activate_request(cp, i, t))
    BY <1>4 DEF RecvActivateRequest
  <2>2. t \in 0 .. MaxStamp
    BY RequestStampType
  <2>3. cp.slots[i].in_use /\ CanBump
    BY <1>4 DEF RecvActivateRequest, InUse
  <2> QED BY <1>0, <2>1, <2>2, <2>3, ActivateRequestInv, ActivateRequestTurn, SentTurn
<1>5. ASSUME NEW i \in Slots, RecvReadyForRt(i)
      PROVE  Still(cp, cp')
  <2>1. cp.slots[i].in_use /\ cp' = Sent(handle_ready_for_rt(cp, i))
    BY <1>5 DEF RecvReadyForRt, InUse
  <2> QED BY <1>0, <2>1, ReadyForRtInv, ReadyForRtStill, SentTurn
<1>6. ASSUME NEW i \in Slots, RecvGrantDecline(i)
      PROVE  CanBump /\ SlotTurn(cp, cp')
  <2>1. cp.slots[i].in_use /\ CanBump /\ cp' = Sent(handle_grant_decline(cp, i))
    BY <1>6 DEF RecvGrantDecline, InUse
  <2> QED BY <1>0, <2>1, GrantDeclineInv, GrantDeclineTurn, SentTurn
<1>7. ASSUME NEW i \in Slots, RecvHeartbeat(i)
      PROVE  Still(cp, cp')
  <2>1. cp' = Sent(handle_heartbeat(cp, i))
    BY <1>7 DEF RecvHeartbeat
  <2> QED BY <1>0, <2>1, HeartbeatInv, MinorStill, SentTurn
<1>8. ASSUME NEW i \in Slots, RecvDmabufAnnounce(i)
      PROVE  Still(cp, cp')
  <2>1. cp' = Sent(handle_dmabuf_announce(cp, i))
    BY <1>8 DEF RecvDmabufAnnounce
  <2> QED BY <1>0, <2>1, QueriesInv, MinorStill, SentTurn
<1>9. ASSUME ListQuery PROVE Still(cp, cp')
  <2>1. Still(cp, Sent(handle_list_query(cp)))
    BY <1>0, QueriesInv, MinorStill, SentTurn
  <2> QED BY <1>9, <2>1 DEF ListQuery
<1>10. ASSUME NEW id \in ClientIds \cup {NoId}, SwitchQuery(id)
       PROVE  CanBump /\ SlotTurn(cp, cp')
  <2>1. CanBump /\ cp' = Sent(handle_switch_query(cp, id))
    BY <1>10 DEF SwitchQuery
  <2> QED BY <1>0, <2>1, SwitchInv, SwitchTurn, SentTurn
<1>11. ASSUME HeartbeatLapse PROVE Still(cp, cp')
  BY <1>11, MinorStill DEF HeartbeatLapse
<1>12. ASSUME GraceLapse PROVE Still(cp, cp')
  BY <1>12, MinorStill DEF GraceLapse
<1>13. ASSUME HeartbeatTimeout PROVE CanBump /\ SlotTurn(cp, cp')
  <2>1. /\ cp.active_slot # None
        /\ CanBump
        /\ cp' = Sent(heartbeat_timeout(cp))
    BY <1>13 DEF HeartbeatTimeout
  <2> QED BY <1>0, <2>1, HeartbeatTimeoutInv, HeartbeatTimeoutTurn, SentTurn
<1>14. ASSUME GraceDeadline PROVE CanBump /\ SlotTurn(cp, cp')
  <2>1. /\ cp.evicting_slot # None
        /\ CanBump
        /\ cp' = Sent(grace_deadline(cp))
    BY <1>14 DEF GraceDeadline
  <2> QED BY <1>0, <2>1, GraceDeadlineInv, GraceDeadlineTurn, SentTurn
<1> QED
  BY <1>1, <1>2, <1>3, <1>4, <1>5, <1>6, <1>7, <1>8, <1>9, <1>10, <1>11,
     <1>12, <1>13, <1>14 DEF ButStopped

\* STOPPED takes any turn.
LEMMA NextTurn ==
  ASSUME ConnectOnce, Inv(cp), [Next]_cp
  PROVE  \/ Still(cp, cp')
         \/ CanBump /\ AnyTurn(cp, cp')
<1>1. ASSUME NEW i \in Slots, RecvStopped(i)
      PROVE  CanBump /\ AnyTurn(cp, cp')
  <2>1. handle_stopped(cp, i) \in ControlPlanes
    BY <1>1, StoppedInv DEF RecvStopped, InUse, Inv
  <2>2. cp.slots[i].in_use /\ CanBump /\ cp' = Sent(handle_stopped(cp, i))
    BY <1>1 DEF RecvStopped, InUse
  <2> QED BY <2>1, <2>2, StoppedTurn, SentTurn
<1>2. ASSUME ButStopped PROVE Still(cp, cp') \/ (CanBump /\ AnyTurn(cp, cp'))
  BY <1>2, ServingTurn DEF AnyTurn
<1>3. ASSUME UNCHANGED cp PROVE Still(cp, cp')
  BY <1>3, SameKept DEF Still
<1> QED BY <1>1, <1>2, <1>3 DEF Next

-----------------------------------------------------------------------------
(* Former occupants are fenced off *)

\* What FormerHoldersFenced needs to be inductive: nobody was granted a generation
\* that is still to come, not even while the slot is free, and the generation of
\* an occupant is not the 0 that a session starts with.
Fence(c) ==
  /\ \A j \in Slots : c.slots[j].granted_generation <= c.generation
  /\ Holders(c) # {} => c.generation > 0
  /\ OthersFenced(c)

\* A turn short of a wrap of the counter keeps the fence.
LEMMA FenceStep ==
  ASSUME NEW c, NEW d, Inv(c), Inv(d), Fence(c),
         Still(c, d) \/ (c.generation + 2 < GenModulus /\ AnyTurn(c, d))
  PROVE  Fence(d)
<1> DEFINE G(e, j) == e.slots[j].granted_generation
           g == c.generation
           h == d.generation
<1>1. g \in Nat /\ h \in Nat /\ \A j \in Slots : G(c, j) \in Nat /\ G(d, j) \in Nat
  BY GenAssumption DEF Inv, ControlPlanes, Session, Generations
<1>2. \A i \in Holders(d) : G(d, i) = h
  BY DEF Inv, HolderCurrent
<1>3. Holders(c) \subseteq Slots /\ Holders(d) \subseteq Slots
  BY DEF Holders
<1>4. ASSUME h = g, Holders(d) = Holders(c), NoGrantBut(c, d, {})
      PROVE  Fence(d)
  <2>1. \A j \in Slots : G(d, j) \in {G(c, j), 0}
    BY <1>4 DEF NoGrantBut
  <2> HIDE DEF G, g, h
  <2>2. \A j \in Slots : G(d, j) <= h
    <3>1. \A j \in Slots : G(c, j) <= g
      BY DEF Fence, G, g
    <3> QED BY <1>1, <1>4, <2>1, <3>1
  <2>3. Holders(d) # {} => h > 0
    BY <1>4 DEF Fence, g
  <2>4. \A i \in Holders(d), j \in Slots : i # j => G(d, j) < h
    <3>1. \A i \in Holders(c), j \in Slots : i # j => G(c, j) < g
      BY DEF Fence, OthersFenced, G, g
    <3> QED BY <1>1, <1>4, <2>1, <2>3, <3>1
  <2> QED BY <2>2, <2>3, <2>4 DEF Fence, OthersFenced, G, h
<1>5. \A x \in Nat : x < GenModulus => x % GenModulus = x
  BY GenAssumption
<1>6. ASSUME NEW j \in Slots, NEW n \in {1, 2}, Holders(d) = {j},
             h = (g + n) % GenModulus, g + 2 < GenModulus, NoGrantBut(c, d, {j})
      PROVE  Fence(d)
  <2>1. h = g + n
    BY <1>1, <1>5, <1>6, GenAssumption
  <2>2. \A k \in Slots \ {j} : G(d, k) \in {G(c, k), 0}
    BY <1>6 DEF NoGrantBut
  <2>3. \A k \in Slots : G(c, k) <= g
    BY DEF Fence
  <2> HIDE DEF G, g, h
  <2>4. \A k \in Slots \ {j} : G(d, k) < h
    BY <1>1, <2>1, <2>2, <2>3
  <2>5. G(d, j) = h
    BY <1>2, <1>6
  <2>6. \A k \in Slots : G(d, k) <= h
    BY <1>1, <2>4, <2>5
  <2>7. h > 0
    BY <1>1, <2>1
  <2>8. \A i \in Holders(d), k \in Slots : i # k => G(d, k) < h
    BY <1>6, <2>4
  <2> QED BY <2>6, <2>7, <2>8 DEF Fence, OthersFenced, G, h
<1>7. ASSUME NEW n \in {0, 1}, Holders(d) = {},
             h = (g + n) % GenModulus, g + 2 < GenModulus, NoGrantBut(c, d, {})
      PROVE  Fence(d)
  <2>1. h = g + n
    BY <1>1, <1>5, <1>7, GenAssumption
  <2>2. \A k \in Slots : G(d, k) \in {G(c, k), 0}
    BY <1>7 DEF NoGrantBut
  <2>3. \A k \in Slots : G(c, k) <= g
    BY DEF Fence
  <2> HIDE DEF G, g, h
  <2>4. \A k \in Slots : G(d, k) <= h
    BY <1>1, <2>1, <2>2, <2>3
  <2> QED BY <1>7, <2>4 DEF Fence, OthersFenced, G, h
<1>8. CASE Still(c, d)
  <2>1. h = g /\ Holders(d) = Holders(c) /\ NoGrantBut(c, d, {})
    BY <1>8 DEF Still, SlotKept, SlotMoves
  <2> QED BY <1>4, <2>1
<1>9. ASSUME g + 2 < GenModulus, NEW j \in Slots, SlotGranted(c, d, j)
      PROVE  Fence(d)
  BY <1>6, <1>9 DEF SlotGranted
<1>10. ASSUME g + 2 < GenModulus, NEW i \in Slots, Leaves(c, d, i)
       PROVE  Fence(d)
  BY <1>7, <1>10 DEF Leaves, CutOff
<1>11. ASSUME g + 2 < GenModulus, NEW i \in Slots, NEW j \in Slots,
              HandsOn(c, d, i, j)
       PROVE  Fence(d)
  <2>1. CutOff(c, i) \in {0, 1}
    BY DEF CutOff
  <2>2. CutOff(c, i) + 1 \in {1, 2} /\ h = (g + (CutOff(c, i) + 1)) % GenModulus
    BY <1>1, <1>11, <2>1 DEF HandsOn
  <2> QED BY <1>6, <1>11, <2>2 DEF HandsOn
<1> QED BY <1>8, <1>9, <1>10, <1>11 DEF SlotTurn, AnyTurn

Fenced == ~ AllowWrap => Fence(cp)

\* Short of a wrap of the counter, no session but the occupant holds the current
\* generation: whoever had the slot before is kept out of the ring, for every
\* number of clients and every order of grants, evictions and disconnections.
THEOREM FormerHoldersKeptOut == ASSUME ConnectOnce PROVE Spec => []FormerHoldersFenced
<1>1. Init => Fenced
  <2> SUFFICES ASSUME Init PROVE Fence(cp)
    BY DEF Fenced
  <2>1. /\ cp.slots = [i \in Slots |-> FreeSession]
        /\ cp.generation = 0
    BY DEF Init
  <2>2. \A i \in Slots : /\ cp.slots[i].granted_generation = 0
                         /\ cp.slots[i].state = "CONNECTED"
    BY <2>1, FreeSessionType
  <2>3. Holders(cp) = {}
    BY <2>2 DEF Holders, HoldingStates
  <2> QED BY <2>1, <2>2, <2>3 DEF Fence, OthersFenced
<1>2. Fenced /\ Invariant /\ Invariant' /\ [Next]_cp => Fenced'
  <2> SUFFICES ASSUME Fenced, Invariant, Invariant', [Next]_cp, ~ AllowWrap
               PROVE  Fence(cp')
    BY DEF Fenced
  <2>1. Inv(cp) /\ Inv(cp') /\ Fence(cp)
    BY DEF Invariant, Fenced
  <2>2. \/ Still(cp, cp')
        \/ cp.generation + 2 < GenModulus /\ AnyTurn(cp, cp')
    BY <2>1, NextTurn DEF CanBump
  <2> QED BY <2>1, <2>2, FenceStep
<1>3. Fenced => FormerHoldersFenced
  BY DEF Fenced, Fence, FormerHoldersFenced
<1> QED BY <1>1, <1>2, <1>3, Invariance, PTL DEF Spec

-----------------------------------------------------------------------------
(* The slot is handed on at once and in order *)

\* No handler but that of STOPPED leaves the slot free while sessions are queued,
\* however many are queued and whatever ended the occupancy, the grace deadline
\* of an eviction included (handle_disconnect(), handle_grant_decline() and
\* wisps_control_plane_run(), control_plane.c).
THEOREM SlotHandedOn == ASSUME ConnectOnce PROVE Spec => WorkConserving
<1> DEFINE A == Idle(cp') /\ ButStopped => Idle(cp)
<1>1. Invariant => [A]_cp
  <2> SUFFICES ASSUME Invariant, ButStopped, Idle(cp')
               PROVE  Idle(cp)
    OBVIOUS
  <2>1. SlotTurn(cp, cp')
    BY ServingTurn DEF Invariant, SlotTurn
  <2>2. Holders(cp') = {} /\ Queued(cp') # {}
    BY DEF Idle, rt_slot_taken
  <2>3. \A i, s, t : ~ SlotMoves(cp, cp', i, s, t)
    BY <2>2 DEF SlotMoves
  <2>4. \A i, j : ~ SlotGranted(cp, cp', i) /\ ~ HandsOn(cp, cp', i, j)
    BY <2>2 DEF SlotGranted, HandsOn
  <2>5. SlotKept(cp, cp')
    BY <2>1, <2>2, <2>3, <2>4 DEF SlotTurn, Still
  <2> QED BY <2>2, <2>5 DEF SlotKept, Idle, rt_slot_taken
<1> QED BY <1>1, Invariance, PTL DEF Spec, WorkConserving

\* The slot passes from an occupant to the session that has waited longest, unless
\* an admin switch named another.
THEOREM GrantsInOrder == ASSUME ConnectOnce PROVE Spec => FifoGrant
<1> DEFINE A == \A i \in Queued(cp) :
                  /\ rt_slot_taken(cp)
                  /\ cp.pending_grant_target # i
                  /\ cp'.slots[i].state = "GRANTED_WARMUP"
                  => \A j \in Queued(cp) : ~ ts_less(cp, j, i)
<1>1. Invariant /\ Invariant' /\ [Next]_cp => [A]_cp
  <2> SUFFICES ASSUME Invariant, Invariant', [Next]_cp, NEW i \in Queued(cp),
                      rt_slot_taken(cp), cp.pending_grant_target # i,
                      cp'.slots[i].state = "GRANTED_WARMUP"
               PROVE  Oldest(cp, i)
    BY DEF Oldest
  <2>1. AnyTurn(cp, cp')
    BY NextTurn DEF Invariant, SlotTurn, AnyTurn
  <2>2. i \in Slots /\ i \notin Holders(cp) /\ Holders(cp) # {}
    BY DEF Queued, Holders, HoldingStates, rt_slot_taken
  <2>3. i \in Holders(cp')
    <3>1. cp'.slots[i].in_use
      BY <2>2 DEF Invariant, Inv, FreeClean
    <3> QED BY <2>2, <3>1 DEF Holders, HoldingStates
  <2>4. ~ Still(cp, cp')
    BY <2>2, <2>3 DEF Still, SlotKept, SlotMoves
  <2>5. \A j : ~ SlotGranted(cp, cp', j) /\ ~ Leaves(cp, cp', j)
    BY <2>2, <2>3 DEF SlotGranted, Leaves
  <2>6. PICK k \in Slots, j \in Slots : HandsOn(cp, cp', k, j)
    BY <2>1, <2>4, <2>5 DEF SlotTurn, AnyTurn
  <2>7. i = j
    BY <2>3, <2>6 DEF HandsOn
  <2> QED BY <2>6, <2>7 DEF HandsOn
<1> QED BY <1>1, Invariance, PTL DEF Spec, FifoGrant

-----------------------------------------------------------------------------
(* The control plane implements the arbiter *)

\* The refinement mapping on an occupied and on a free slot.
LEMMA SlotOccupied ==
  ASSUME NEW c, NEW i \in Slots, Holders(c) = {i}
  PROVE  SlotHolder(c) = i /\ SlotStage(c) = StageOf(c.slots[i].state)
<1>1. FirstOf({i}) \in {i}
  BY FirstOfIsMember
<1> QED BY <1>1 DEF SlotHolder, SlotStage, rt_slot_taken

LEMMA SlotFree ==
  ASSUME NEW c, Holders(c) = {}
  PROVE  SlotHolder(c) = None /\ SlotStage(c) = "idle"
BY DEF SlotHolder, SlotStage, rt_slot_taken, FirstOf

\* The stages of an occupant, whose state is one of the four of HoldingStates.
LEMMA StageFacts ==
  /\ StageOf("GRANTED_WARMUP") = "warmup"
  /\ StageOf("ACTIVE_RT") = "active"
  /\ StageOf("EVICTING_COOPERATIVE") = "evicting"
  /\ StageOf("EVICTING_FORCED") = "evicting"
BY DEF StageOf

\* The occupant owes a bump exactly when its stage says so.
LEMMA CutIsCutOff ==
  ASSUME NEW c, NEW i \in Slots, Holders(c) = {i}
  PROVE  /\ SlotStage(c) # "idle"
         /\ CutOff(c, i) = IF SlotStage(c) = "active" THEN 1 ELSE 0
<1>1. c.slots[i].state \in HoldingStates
  BY DEF Holders
<1> QED BY <1>1, SlotOccupied, StageFacts DEF HoldingStates, CutOff

\* Every turn is a step of the arbiter, or changes nothing that it shows.
LEMMA TurnIsArbiterStep ==
  ASSUME Inv(cp), AnyTurn(cp, cp')
  PROVE  [Arbiter!Next]_(Arbiter!vars)
<1> DEFINE g == cp.generation
<1>0. g \in Nat
  BY GenAssumption DEF Inv, ControlPlanes, Generations
<1>1. ASSUME SlotKept(cp, cp') PROVE UNCHANGED Arbiter!vars
  <2>1. CASE Holders(cp) = {}
    <3>1. SlotHolder(cp)' = SlotHolder(cp) /\ SlotStage(cp)' = SlotStage(cp)
      BY <1>1, <2>1, SlotFree DEF SlotKept
    <3> QED BY <1>1, <3>1 DEF SlotKept, Arbiter!vars
  <2>2. CASE Holders(cp) # {}
    <3>1. PICK i \in Slots : Holders(cp) = {i}
      BY <2>2 DEF Inv, AtMostOne, Holders
    <3>2. Holders(cp') = {i} /\ cp'.slots[i].state = cp.slots[i].state
      BY <1>1, <3>1 DEF SlotKept
    <3>3. SlotHolder(cp') = SlotHolder(cp) /\ SlotStage(cp') = SlotStage(cp)
      BY <3>1, <3>2, SlotOccupied
    <3> QED BY <1>1, <3>3 DEF SlotKept, Arbiter!vars
  <2> QED BY <2>1, <2>2
<1>2. ASSUME NEW i \in Slots, SlotMoves(cp, cp', i, "GRANTED_WARMUP", "ACTIVE_RT")
      PROVE  Arbiter!Activate
  BY <1>2, SlotOccupied, StageFacts DEF SlotMoves, Arbiter!Activate
<1>3. ASSUME NEW i \in Slots, SlotMoves(cp, cp', i, "ACTIVE_RT", "EVICTING_COOPERATIVE")
      PROVE  Arbiter!Wind
  BY <1>3, SlotOccupied, StageFacts DEF SlotMoves, Arbiter!Wind
<1>4. ASSUME NEW i \in Slots, SlotGranted(cp, cp', i)
      PROVE  Arbiter!Grant(i)
  BY <1>4, SlotFree, SlotOccupied, StageFacts
     DEF SlotGranted, Arbiter!Grant, Arbiter!Moved
<1>5. ASSUME NEW i \in Slots, Leaves(cp, cp', i)
      PROVE  Arbiter!End
  BY <1>5, SlotFree, SlotOccupied, CutIsCutOff
     DEF Leaves, Arbiter!End, Arbiter!Moved, Arbiter!Cut
<1>6. ASSUME NEW i \in Slots, NEW j \in Slots, HandsOn(cp, cp', i, j)
      PROVE  Arbiter!Handover(j)
  <2>1. /\ SlotStage(cp) # "idle"
        /\ SlotHolder(cp) = i
        /\ CutOff(cp, i) = Arbiter!Cut
    BY <1>6, SlotOccupied, CutIsCutOff DEF HandsOn, Arbiter!Cut
  <2>2. SlotHolder(cp') = j /\ SlotStage(cp') = "warmup"
    BY <1>6, SlotOccupied, StageFacts DEF HandsOn
  <2>3. cp'.generation = (g + (CutOff(cp, i) + 1)) % GenModulus
    BY <1>0, <1>6 DEF HandsOn, CutOff
  <2> QED BY <1>6, <2>1, <2>2, <2>3 DEF HandsOn, Arbiter!Handover, Arbiter!Moved
<1> QED BY <1>1, <1>2, <1>3, <1>4, <1>5, <1>6 DEF SlotTurn, AnyTurn, Still, Arbiter!Next

\* The control plane implements RtSlot, for every number of clients, every width
\* of the generation counter and across its wrap; two bumps for an occupant that
\* is cut off and followed at once included (see OneBumpPerGrant).
THEOREM Refinement == ASSUME ConnectOnce PROVE Spec => ImplementsArbiter
<1>1. Init => Arbiter!Init
  <2> SUFFICES ASSUME Init PROVE Arbiter!Init
    OBVIOUS
  <2>1. cp.generation = 0 /\ cp.slots = [i \in Slots |-> FreeSession]
    BY DEF Init
  <2>2. Holders(cp) = {}
    BY <2>1, FreeSessionType DEF Holders
  <2> QED BY <2>1, <2>2, SlotFree DEF Arbiter!Init
<1>2. Invariant /\ [Next]_cp => [Arbiter!Next]_(Arbiter!vars)
  <2> SUFFICES ASSUME Invariant, [Next]_cp PROVE [Arbiter!Next]_(Arbiter!vars)
    OBVIOUS
  <2>1. AnyTurn(cp, cp')
    BY NextTurn DEF Invariant, SlotTurn, AnyTurn
  <2> QED BY <2>1, TurnIsArbiterStep DEF Invariant
<1> QED BY <1>1, <1>2, Invariance, PTL DEF Spec, ImplementsArbiter, Arbiter!Spec

-----------------------------------------------------------------------------
(* The two scans of the queue agree *)

\* The sessions that queue_position() counts.
Before(c, i) == {j \in Queued(c) \ {i} : Ahead(c, j, i)}

\* The order of the queue is total and transitive, equal stamps included.
LEMMA AheadOrder ==
  ASSUME NEW c \in ControlPlanes
  PROVE  /\ \A i \in Slots : ~ Ahead(c, i, i)
         /\ \A i, j \in Slots : i = j \/ Ahead(c, i, j) \/ Ahead(c, j, i)
         /\ \A i, j \in Slots : ~ (Ahead(c, i, j) /\ Ahead(c, j, i))
         /\ \A i, j, k \in Slots :
              Ahead(c, i, j) /\ Ahead(c, j, k) => Ahead(c, i, k)
<1> DEFINE Stamp(i) == c.slots[i].activate_requested
<1>1. \A i \in Slots : i \in Nat /\ Stamp(i) \in Nat
  BY SlotsNat, StampAssumption DEF ControlPlanes, Session
<1>2. \A i, j \in Slots :
        Ahead(c, i, j)
          <=> \/ Stamp(i) < Stamp(j)
              \/ ~ (Stamp(j) < Stamp(i)) /\ i < j
  BY DEF Ahead, ts_less
<1> HIDE DEF Stamp
<1> QED BY <1>1, <1>2

\* A position is one more than the number of sessions before it, and there are
\* fewer of these than there are in the queue.
LEMMA PositionFacts ==
  ASSUME NEW c, NEW i \in Queued(c)
  PROVE  /\ IsFiniteSet(Queued(c)) /\ Cardinality(Queued(c)) \in Nat
         /\ IsFiniteSet(Before(c, i)) /\ Cardinality(Before(c, i)) \in Nat
         /\ queue_position(c, i) = 1 + Cardinality(Before(c, i))
         /\ queue_position(c, i) \in 1 .. Cardinality(Queued(c))
<1>1. IsFiniteSet(Queued(c)) /\ Cardinality(Queued(c)) \in Nat
  <2>1. Queued(c) \subseteq Slots
    BY DEF Queued
  <2> QED BY <2>1, SlotsNat, FS_Subset, FS_CardinalityType
<1>2. /\ IsFiniteSet(Queued(c) \ {i})
      /\ Cardinality(Queued(c) \ {i}) = Cardinality(Queued(c)) - 1
  BY <1>1, FS_RemoveElement
<1>3. Before(c, i) \subseteq Queued(c) \ {i}
  BY DEF Before
<1>4. /\ IsFiniteSet(Before(c, i))
      /\ Cardinality(Before(c, i)) <= Cardinality(Queued(c)) - 1
  BY <1>2, <1>3, FS_Subset
<1>5. Cardinality(Before(c, i)) \in Nat
  BY <1>4, FS_CardinalityType
<1>6. queue_position(c, i) = 1 + Cardinality(Before(c, i))
  BY DEF queue_position, Before
<1> QED BY <1>1, <1>4, <1>5, <1>6

\* A session further back in the queue has a higher position.
LEMMA PositionGrows ==
  ASSUME NEW c \in ControlPlanes, NEW i \in Queued(c), NEW j \in Queued(c),
         Ahead(c, i, j)
  PROVE  queue_position(c, i) < queue_position(c, j)
<1>1. Queued(c) \subseteq Slots
  BY DEF Queued
<1>2. i \notin Before(c, i) /\ Before(c, i) \cup {i} \subseteq Before(c, j)
  <2>1. i # j
    BY <1>1, AheadOrder
  <2>2. \A k \in Before(c, i) : k \in Queued(c) /\ k # j /\ Ahead(c, k, j)
    BY <1>1, AheadOrder DEF Before
  <2> QED BY <2>1, <2>2 DEF Before
<1>3. Cardinality(Before(c, i) \cup {i}) = Cardinality(Before(c, i)) + 1
  BY <1>2, PositionFacts, FS_AddElement
<1>4. Cardinality(Before(c, i) \cup {i}) <= Cardinality(Before(c, j))
  BY <1>2, PositionFacts, FS_Subset
<1> QED BY <1>3, <1>4, PositionFacts

\* Positions number the queue without gap or repetition.
LEMMA PositionsNumberQueue ==
  ASSUME NEW c \in ControlPlanes
  PROVE  {queue_position(c, i) : i \in Queued(c)} = 1 .. Cardinality(Queued(c))
<1> DEFINE Q == Queued(c)
           n == Cardinality(Q)
           f == [i \in Q |-> queue_position(c, i)]
<1>1. IsFiniteSet(Q) /\ n \in Nat /\ Q \subseteq Slots
  <2>1. Q \subseteq Slots
    BY DEF Queued
  <2> QED BY <2>1, SlotsNat, FS_Subset, FS_CardinalityType
<1>2. f \in [Q -> 1 .. n]
  BY PositionFacts
<1>3. \A i, j \in Q : f[i] = f[j] => i = j
  <2>1. \A i \in Q : queue_position(c, i) \in Int
    BY PositionFacts
  <2>2. \A i, j \in Q : i # j => queue_position(c, i) # queue_position(c, j)
    BY <1>1, <2>1, AheadOrder, PositionGrows
  <2> QED BY <2>2
<1>4. f \in Injection(Q, 1 .. n)
  BY <1>2, <1>3 DEF Injection, IsInjective
<1>5. IsFiniteSet(1 .. n) /\ Cardinality(1 .. n) = n
  <2>1. 1 \in Int /\ n \in Int /\ (n < 1 => n = 0)
    BY <1>1
  <2> HIDE DEF n
  <2> QED BY <2>1, FS_Interval
<1>6. f \in Surjection(Q, 1 .. n)
  <2> HIDE DEF f
  <2> QED BY <1>4, <1>5, FS_Injection
<1>7. \A p \in 1 .. n : \E i \in Q : f[i] = p
  <2> HIDE DEF f
  <2> QED BY <1>6 DEF Surjection
<1> QED BY <1>2, <1>7

\* The session at position 1 is the one that find_next_queued() returns.
LEMMA FirstPositionIsNext ==
  ASSUME NEW c \in ControlPlanes, NEW i \in Queued(c)
  PROVE  queue_position(c, i) = 1 <=> find_next_queued(c) = i
<1> DEFINE S == {k \in Queued(c) : \A j \in Queued(c) : ~ ts_less(c, j, k)}
           Stamp(k) == c.slots[k].activate_requested
           n == find_next_queued(c)
<1>1. Queued(c) \subseteq Slots /\ i \in Slots
  BY DEF Queued
<1>2. \A k \in Slots : k \in Nat /\ Stamp(k) \in Nat
  BY SlotsNat, StampAssumption DEF ControlPlanes, Session
<1>3. n \in Queued(c) /\ \A k \in Queued(c) : ~ ts_less(c, k, n)
  BY NextIsOldest DEF Oldest
<1>4. \A k \in S : n <= k
  <2>1. S \in SUBSET Nat /\ S # {} /\ n = Min(S)
    BY <1>1, <1>2, <1>3 DEF find_next_queued, FirstOf
  <2> HIDE DEF S, n
  <2> QED BY <2>1, MinIsLeast
<1>5. \A k \in Queued(c) : ~ Ahead(c, k, n)
  <2> SUFFICES ASSUME NEW k \in Queued(c), Ahead(c, k, n) PROVE FALSE
    OBVIOUS
  <2>1. ~ ts_less(c, n, k) /\ k < n
    BY <1>3 DEF Ahead
  <2>2. k \in S
    <3>1. \A j \in Queued(c) : ~ ts_less(c, j, k)
      BY <1>1, <1>2, <1>3, <2>1 DEF ts_less
    <3> QED BY <3>1
  <2>3. n <= k
    BY <1>4, <2>2
  <2>4. k \in Nat /\ n \in Nat
    BY <1>1, <1>2, <1>3
  <2> HIDE DEF n
  <2> QED BY <2>1, <2>3, <2>4
<1>6. queue_position(c, i) = 1 <=> Before(c, i) = {}
  BY PositionFacts, FS_EmptySet
<1>7. Before(c, i) = {} => n = i
  <2> HIDE DEF n
  <2> QED BY <1>1, <1>3, <1>5, AheadOrder DEF Before
<1>8. n = i => Before(c, i) = {}
  BY <1>5 DEF Before
<1> HIDE DEF n
<1> QED BY <1>6, <1>7, <1>8 DEF n

\* queue_position() and find_next_queued() agree on the order of every queue: the
\* client told that it is first is the one that is served, and the positions told
\* are 1, 2, and so on.
THEOREM QueueOrderConsistent == ASSUME ConnectOnce PROVE Spec => []QueuePositionsAgree
<1>1. Invariant => QueuePositionsAgree
  BY FirstPositionIsNext, PositionsNumberQueue DEF Invariant, Inv, QueuePositionsAgree
<1> QED BY <1>1, Invariance, PTL
=============================================================================
