---------------------------- MODULE ControlPlane ----------------------------
(***************************************************************************)
(* The control thread of wisp_server and the session table it owns:        *)
(* server/src/control/control_plane.c and server/src/session/              *)
(* session_table.c.                                                        *)
(*                                                                         *)
(* The state is the struct wisps_control_plane_t, with its table and the   *)
(* ring generation it bumps, held in one record variable cp.  Every C      *)
(* function that changes it is an operator from the old record to the new  *)
(* one, so that a handler reads as the sequence of calls it makes, and     *)
(* every message, admin query or deadline the poll loop reacts to is one   *)
(* action.  The poll loop runs these one at a time, in an order that       *)
(* depends on which descriptors are ready; the model allows every order.   *)
(*                                                                         *)
(* Abstractions.  A client id and a render mode are opaque values.  A      *)
(* CLOCK_MONOTONIC stamp is compared only with the stamps of the sessions  *)
(* that are QUEUED at the same time, so it is a small number that starts   *)
(* again from 1 when the queue is empty.  The two deadlines are flags that *)
(* the passage of time raises.  The fields of a slot that is not in use    *)
(* are cleared when the slot is freed instead of when it is next taken.    *)
(***************************************************************************)
EXTENDS Integers, Sequences, FiniteSets, FiniteSetsExt

CONSTANTS
  MaxClients,      \* WISPS_SESSION_MAX_CLIENTS
  ClientIds,       \* client ids that CONNECT messages carry
  NoId,            \* the empty client id of a session before its CONNECT
  SupportedModes,  \* the modes the server was started with
  InitialMode,     \* supported_modes[0], the data plane's first mode
  NoMode,          \* no mode negotiated
  Offers,          \* mode lists that CONNECT messages carry, in preference order
  GenModulus,      \* the generation counter is a uint32_t: 2^32 in the code
  AllowWrap,       \* whether behaviours go on past a wrap of the generation
  MaxStamp,        \* bound on the stamps of sessions queued together
  ConnectOnce      \* whether a connection sends CONNECT once, as the SDK does

Slots == 0 .. MaxClients - 1
None == -1
SlotOrNone == Slots \cup {None}
Admin == MaxClients    \* the addressee of the replies to admin queries

ASSUME MaxClientsAssumption == MaxClients \in Nat \ {0}
ASSUME IdAssumption == NoId \notin ClientIds
ASSUME ModeAssumption ==
  /\ InitialMode \in SupportedModes
  /\ NoMode \notin SupportedModes
  /\ \A o \in Offers : Len(o) \in Nat /\ DOMAIN o = 1 .. Len(o)
ASSUME GenAssumption == GenModulus \in Nat /\ GenModulus > 2
ASSUME FlagAssumption == AllowWrap \in BOOLEAN /\ ConnectOnce \in BOOLEAN
ASSUME StampAssumption == MaxStamp \in Nat \ {0}

SessionStates ==
  {"CONNECTED", "NEGOTIATED", "QUEUED", "GRANTED_WARMUP", "ACTIVE_RT",
   "EVICTING_COOPERATIVE", "EVICTING_FORCED", "REJECTED"}

\* The states in which a session counts as the occupant of the RT slot.
HoldingStates ==
  {"GRANTED_WARMUP", "ACTIVE_RT", "EVICTING_COOPERATIVE", "EVICTING_FORCED"}

Grantable == {"NEGOTIATED", "QUEUED"}

Generations == 0 .. GenModulus - 1

\* struct wisps_session_t
Session ==
  [in_use : BOOLEAN, state : SessionStates, client_id : ClientIds \cup {NoId},
   negotiated_mode : SupportedModes \cup {NoMode},
   granted_generation : Generations, activate_requested : 0 .. MaxStamp]

FreeSession ==
  [in_use |-> FALSE, state |-> "CONNECTED", client_id |-> NoId,
   negotiated_mode |-> NoMode, granted_generation |-> 0,
   activate_requested |-> 0]

VARIABLE
  cp   \* struct wisps_control_plane_t; its field out collects the messages that
       \* a handler sends, in order

-----------------------------------------------------------------------------
(* Session table, session_table.c *)

InUse(c, i) == c.slots[i].in_use

\* The first slot of S in a scan from 0, or -1.
FirstOf(S) == IF S = {} THEN None ELSE Min(S)

Queued(c) == {i \in Slots : c.slots[i].in_use /\ c.slots[i].state = "QUEUED"}

\* Mutant of Holders: winding-down sessions are not counted.
HoldersMutant(c) ==
  {i \in Slots :
     c.slots[i].in_use /\ c.slots[i].state \in {"GRANTED_WARMUP", "ACTIVE_RT"}}

Holders(c) ==
  {i \in Slots : c.slots[i].in_use /\ c.slots[i].state \in HoldingStates}

rt_slot_taken(c) == Holders(c) # {}

WithSession(c, i, s) == [c EXCEPT !.slots[i] = s]

SetState(c, i, s) == WithSession(c, i, [c.slots[i] EXCEPT !.state = s])

table_add(c) ==
  LET i == FirstOf({j \in Slots : ~ c.slots[j].in_use})
  IN  IF i = None
      THEN c
      ELSE WithSession(c, i, [FreeSession EXCEPT !.in_use = TRUE])

find_by_client_id(c, id) ==
  FirstOf({i \in Slots : c.slots[i].in_use /\ c.slots[i].client_id = id})

table_grant(c, i, generation) ==
  WithSession(c, i, [c.slots[i] EXCEPT !.state = "GRANTED_WARMUP",
                                       !.granted_generation = generation])

\* Mutant of LeaveActive: the active_slot cache is not cleared.
LeaveActiveMutant(c, i, s) ==
  IF c.slots[i].state # "ACTIVE_RT" THEN c ELSE SetState(c, i, s)

\* ACTIVE_RT -> s, keeping the active_slot cache in step; any other state is
\* left alone.  Shared by deactivate() and begin_eviction().
LeaveActive(c, i, s) ==
  IF c.slots[i].state # "ACTIVE_RT"
  THEN c
  ELSE [SetState(c, i, s) EXCEPT !.active_slot = IF @ = i THEN None ELSE @]

table_deactivate(c, i) == LeaveActive(c, i, "NEGOTIATED")

table_begin_eviction(c, i) == LeaveActive(c, i, "EVICTING_COOPERATIVE")

table_activate(c, i) ==
  LET d == IF c.active_slot # None /\ c.active_slot # i
           THEN table_deactivate(c, c.active_slot)
           ELSE c
  IN  [SetState(d, i, "ACTIVE_RT") EXCEPT !.active_slot = i,
                                          !.heartbeat_late = FALSE]

table_mark_eviction_forced(c, i) ==
  IF c.slots[i].state = "EVICTING_COOPERATIVE"
  THEN SetState(c, i, "EVICTING_FORCED")
  ELSE c

table_reclaim_eviction(c, i) ==
  IF c.slots[i].state \in {"EVICTING_COOPERATIVE", "EVICTING_FORCED"}
  THEN SetState(c, i, "NEGOTIATED")
  ELSE c

table_remove(c, i) == WithSession(table_deactivate(c, i), i, FreeSession)

ts_less(c, i, j) ==
  c.slots[i].activate_requested < c.slots[j].activate_requested

\* Mutant of find_next_queued: the scan takes the first queued slot.
find_next_queuedMutant(c) == FirstOf(Queued(c))

\* The scan replaces its candidate only by a strictly earlier one, so the
\* lowest index wins among equal stamps.
find_next_queued(c) ==
  FirstOf({i \in Queued(c) : \A j \in Queued(c) : ~ ts_less(c, j, i)})

\* Mutant of Ahead: no tie-break between equal stamps.
AheadMutant(c, i, j) == ts_less(c, i, j)

\* Whether i is served before j, as queue_position() orders them.
Ahead(c, i, j) ==
  \/ ts_less(c, i, j)
  \/ ~ ts_less(c, j, i) /\ i < j

queue_position(c, i) ==
  IF i \notin Queued(c)
  THEN 0
  ELSE 1 + Cardinality({j \in Queued(c) \ {i} : Ahead(c, j, i)})

-----------------------------------------------------------------------------
(* Shared steps of the handlers, control_plane.c *)

Send(c, to, kind, arg) ==
  [c EXCEPT !.out = Append(@, [to |-> to, kind |-> kind, arg |-> arg])]

evict_client(c) == [c EXCEPT !.generation = (@ + 1) % GenModulus]

\* Mutant of negotiate_mode: the client's first choice, supported or not.
negotiate_modeMutant(offered) ==
  IF offered = <<>> THEN NoMode ELSE offered[1]

\* The first offered mode that the server supports.
negotiate_mode(offered) ==
  LET matches == {k \in DOMAIN offered : offered[k] \in SupportedModes}
  IN  IF matches = {} THEN NoMode ELSE offered[Min(matches)]

\* Mutants of do_grant: the generation is loaded before the bump, there is no
\* bump, and the data plane is not told the new mode.
do_grantMutantStale(c, i) ==
  LET d == table_grant(c, i, c.generation)
      e == Send(evict_client(d), i, "ACTIVATE_GRANT", c.generation)
  IN  [e EXCEPT !.dp_mode = e.slots[i].negotiated_mode]

do_grantMutantNoBump(c, i) ==
  LET d == table_grant(c, i, c.generation)
      e == Send(d, i, "ACTIVATE_GRANT", c.generation)
  IN  [e EXCEPT !.dp_mode = e.slots[i].negotiated_mode]

do_grantMutantMode(c, i) ==
  LET d == evict_client(c)
      e == table_grant(d, i, d.generation)
  IN  Send(e, i, "ACTIVATE_GRANT", d.generation)

do_grant(c, i) ==
  LET d == evict_client(c)
      e == table_grant(d, i, d.generation)
      f == Send(e, i, "ACTIVATE_GRANT", d.generation)
  IN  [f EXCEPT !.dp_mode = f.slots[i].negotiated_mode]

begin_eviction(c, prev, target) ==
  LET d == Send(table_begin_eviction(c, prev), prev, "EVICT_PENDING", 0)
  IN  [d EXCEPT !.evicting_slot = prev,
                !.pending_grant_target = target,
                !.grace_over = FALSE]

finish_pending_grant(c) ==
  LET target == c.pending_grant_target
      d == [c EXCEPT !.pending_grant_target = None]
  IN  IF target = None
      THEN d
      ELSE IF d.slots[target].in_use /\ d.slots[target].state \in Grantable
           THEN do_grant(d, target)
           ELSE d

\* Mutant of grant_slot: a warmup or an eviction in flight does not count as
\* occupying the slot.
grant_slotMutant(c, i) ==
  IF c.active_slot # None /\ c.active_slot # i
  THEN begin_eviction(c, c.active_slot, i)
  ELSE do_grant(c, i)

grant_slot(c, i) ==
  IF c.active_slot # None /\ c.active_slot # i
  THEN begin_eviction(c, c.active_slot, i)
  ELSE IF rt_slot_taken(c)
       THEN [c EXCEPT !.pending_grant_target = i]
       ELSE do_grant(c, i)

maybe_grant_next_queued(c) ==
  LET next == find_next_queued(c)
  IN  IF rt_slot_taken(c) \/ next = None THEN c ELSE grant_slot(c, next)

\* Mutant of StopEvicting: evicting_slot keeps naming the reclaimed slot.
StopEvictingMutant(c, i) == c

\* if (cp->evicting_slot == idx) cp->evicting_slot = -1
StopEvicting(c, i) ==
  [c EXCEPT !.evicting_slot = IF @ = i THEN None ELSE @]

\* Mutant of handle_disconnect: the pending target is not forgotten.
handle_disconnectMutant(c, i) ==
  LET s == c.slots[i].state
      d == IF s = "ACTIVE_RT"
           THEN evict_client(c)
           ELSE IF s \in {"EVICTING_COOPERATIVE", "EVICTING_FORCED"}
                THEN StopEvicting(table_reclaim_eviction(c, i), i)
                ELSE c
      f == table_remove(d, i)
  IN  IF s \in HoldingStates
      THEN maybe_grant_next_queued(finish_pending_grant(f))
      ELSE f

handle_disconnect(c, i) ==
  LET s == c.slots[i].state
      d == IF s = "ACTIVE_RT"
           THEN evict_client(c)
           ELSE IF s \in {"EVICTING_COOPERATIVE", "EVICTING_FORCED"}
                THEN StopEvicting(table_reclaim_eviction(c, i), i)
                ELSE c
      e == [d EXCEPT !.pending_grant_target = IF @ = i THEN None ELSE @]
      f == table_remove(e, i)
  IN  IF s \in HoldingStates
      THEN maybe_grant_next_queued(finish_pending_grant(f))
      ELSE f

-----------------------------------------------------------------------------
(* Handlers of messages, queries and deadlines, control_plane.c *)

\* A CONNECT message, as far as the handler looks at it.  A message of the
\* wrong length is read as all zeroes, which fails the magic check.
ConnectMessages ==
  [version_ok : BOOLEAN, client_id : ClientIds, modes : Offers]

Reject(c, i) == handle_disconnect(SetState(c, i, "REJECTED"), i)

\* The handler does not look at the session's state.
handle_connect(c, i, msg) ==
  LET chosen == negotiate_mode(msg.modes)
  IN  IF ~ msg.version_ok
      THEN Reject(Send(c, i, "VERSION_MISMATCH", 0), i)
      ELSE IF chosen = NoMode
           THEN Reject(Send(c, i, "MODE", 0), i)
           ELSE WithSession(Send(c, i, "MODE", 1), i,
                            [c.slots[i] EXCEPT !.client_id = msg.client_id,
                                               !.negotiated_mode = chosen,
                                               !.state = "NEGOTIATED"])

\* t is what the clock reads.
handle_activate_request(c, i, t) ==
  LET d == WithSession(c, i, [c.slots[i] EXCEPT !.activate_requested = t,
                                                !.state = "QUEUED"])
  IN  IF c.slots[i].state # "NEGOTIATED"
      THEN c
      ELSE IF ~ rt_slot_taken(c)
           THEN grant_slot(c, i)
           ELSE Send(d, i, "ACTIVATE_QUEUED", queue_position(d, i))

handle_ready_for_rt(c, i) ==
  IF c.slots[i].state # "GRANTED_WARMUP" THEN c ELSE table_activate(c, i)

\* Mutant of handle_grant_decline: the slot is not offered onward.
handle_grant_declineMutant(c, i) ==
  IF c.slots[i].state # "GRANTED_WARMUP"
  THEN c
  ELSE SetState(c, i, "NEGOTIATED")

handle_grant_decline(c, i) ==
  IF c.slots[i].state # "GRANTED_WARMUP"
  THEN c
  ELSE maybe_grant_next_queued(SetState(c, i, "NEGOTIATED"))

handle_stopped(c, i) ==
  IF c.slots[i].state # "EVICTING_COOPERATIVE"
  THEN c
  ELSE finish_pending_grant(StopEvicting(table_reclaim_eviction(c, i), i))

\* Only the stamp of the session that active_slot names is ever read.
handle_heartbeat(c, i) ==
  IF c.slots[i].state # "ACTIVE_RT" \/ c.active_slot # i
  THEN c
  ELSE [c EXCEPT !.heartbeat_late = FALSE]

\* GPU import is refused and the descriptors are closed.  (A message of the wrong
\* length is ignored: a stuttering step.)
handle_dmabuf_announce(c, i) == Send(c, i, "DMABUF_ACK", 0)

handle_list_query(c) ==
  Send(c, Admin, "LIST_RESPONSE", Cardinality({i \in Slots : c.slots[i].in_use}))

handle_switch_query(c, id) ==
  LET i == find_by_client_id(c, id)
      Reply(d, ok) == Send(d, Admin, "SWITCH_RESPONSE", ok)
  IN  IF i = None
      THEN Reply(c, 0)
      ELSE IF c.slots[i].state = "ACTIVE_RT"
           THEN Reply(c, 1)
           ELSE IF c.slots[i].state \notin Grantable
                THEN Reply(c, 0)
                ELSE Reply(grant_slot(c, i), 1)

\* Mutant of heartbeat_timeout: the generation is not bumped, so the silent
\* client is not cut off.
heartbeat_timeoutMutant(c) ==
  LET i == c.active_slot
      d == table_deactivate(c, i)
      e == Send(Send(d, i, "LIVENESS_TIMEOUT", 0), i, "DEACTIVATE", 0)
  IN  maybe_grant_next_queued(e)

\* Another: the client is warned but not told to stop.
heartbeat_timeoutMutantSilent(c) ==
  LET i == c.active_slot
      d == evict_client(table_deactivate(c, i))
  IN  maybe_grant_next_queued(Send(d, i, "LIVENESS_TIMEOUT", 0))

\* The active session's last heartbeat is too old.
heartbeat_timeout(c) ==
  LET i == c.active_slot
      d == evict_client(table_deactivate(c, i))
      e == Send(Send(d, i, "LIVENESS_TIMEOUT", 0), i, "DEACTIVATE", 0)
  IN  maybe_grant_next_queued(e)

\* Mutant of grace_deadline: the slot is reclaimed but not handed on.
grace_deadlineMutant(c) ==
  LET i == c.evicting_slot
      d == [c EXCEPT !.evicting_slot = None]
  IN  table_reclaim_eviction(table_mark_eviction_forced(d, i), i)

\* Another: the pending target is served, the queue is not.
grace_deadlineMutantQueue(c) ==
  LET i == c.evicting_slot
      d == [c EXCEPT !.evicting_slot = None]
  IN  finish_pending_grant(table_reclaim_eviction(table_mark_eviction_forced(d, i), i))

\* The eviction deadline passed with no STOPPED.
grace_deadline(c) ==
  LET i == c.evicting_slot
      d == [c EXCEPT !.evicting_slot = None]
      e == table_reclaim_eviction(table_mark_eviction_forced(d, i), i)
  IN  maybe_grant_next_queued(finish_pending_grant(e))

-----------------------------------------------------------------------------
(* Actions *)

\* The handler has returned: its messages are with the sockets and leave this
\* module.
Sent(c) == [c EXCEPT !.out = <<>>]

\* A handler bumps the generation at most twice.  Without AllowWrap the
\* behaviours stop short of the wrap.
CanBump == AllowWrap \/ cp.generation + 2 < GenModulus

Init ==
  cp = [slots |-> [i \in Slots |-> FreeSession],
        active_slot |-> None,
        evicting_slot |-> None,
        pending_grant_target |-> None,
        heartbeat_late |-> FALSE,
        grace_over |-> FALSE,
        generation |-> 0,
        dp_mode |-> InitialMode,
        out |-> <<>>]

\* accept() on the listening socket; a full table closes the connection.
Accept == cp' = Sent(table_add(cp))

\* DISCONNECT message, end of file or socket error.
Disconnect(i) ==
  /\ InUse(cp, i)
  /\ CanBump
  /\ cp' = Sent(handle_disconnect(cp, i))

RecvConnect(i, msg) ==
  /\ InUse(cp, i)
  /\ ConnectOnce => cp.slots[i].state = "CONNECTED"
  /\ cp' = Sent(handle_connect(cp, i, msg))

\* What the clock can read relative to the stamps of the queued sessions: the
\* same instant as the latest of them, or a later one.
RequestStamps(c) ==
  IF Queued(c) = {}
  THEN {1}
  ELSE LET latest == Max({c.slots[j].activate_requested : j \in Queued(c)})
       IN  {latest, latest + 1} \cap (1 .. MaxStamp)

RecvActivateRequest(i) ==
  /\ InUse(cp, i)
  /\ CanBump
  /\ \E t \in RequestStamps(cp) :
       cp' = Sent(handle_activate_request(cp, i, t))

RecvReadyForRt(i) ==
  /\ InUse(cp, i)
  /\ cp' = Sent(handle_ready_for_rt(cp, i))

RecvGrantDecline(i) ==
  /\ InUse(cp, i)
  /\ CanBump
  /\ cp' = Sent(handle_grant_decline(cp, i))

RecvStopped(i) ==
  /\ InUse(cp, i)
  /\ CanBump
  /\ cp' = Sent(handle_stopped(cp, i))

RecvHeartbeat(i) ==
  /\ InUse(cp, i)
  /\ cp' = Sent(handle_heartbeat(cp, i))

RecvDmabufAnnounce(i) ==
  /\ InUse(cp, i)
  /\ cp' = Sent(handle_dmabuf_announce(cp, i))

ListQuery == cp' = Sent(handle_list_query(cp))

SwitchQuery(id) ==
  /\ CanBump
  /\ cp' = Sent(handle_switch_query(cp, id))

\* Time passes: the last heartbeat of the active session grows older than
\* WISP_CLIENT_HEARTBEAT_TIMEOUT_MS, or the eviction deadline is reached.
HeartbeatLapse ==
  /\ cp.active_slot # None
  /\ ~ cp.heartbeat_late
  /\ cp' = [cp EXCEPT !.heartbeat_late = TRUE]

GraceLapse ==
  /\ cp.evicting_slot # None
  /\ ~ cp.grace_over
  /\ cp' = [cp EXCEPT !.grace_over = TRUE]

\* The deadline checks at the end of a turn of the poll loop.
HeartbeatTimeout ==
  /\ cp.active_slot # None
  /\ cp.heartbeat_late
  /\ CanBump
  /\ cp' = Sent(heartbeat_timeout(cp))

GraceDeadline ==
  /\ cp.evicting_slot # None
  /\ cp.grace_over
  /\ CanBump
  /\ cp' = Sent(grace_deadline(cp))

\* Everything the thread does but handle a STOPPED.
ButStopped ==
  \/ Accept
  \/ \E i \in Slots :
       \/ Disconnect(i)
       \/ \E msg \in ConnectMessages : RecvConnect(i, msg)
       \/ RecvActivateRequest(i)
       \/ RecvReadyForRt(i)
       \/ RecvGrantDecline(i)
       \/ RecvHeartbeat(i)
       \/ RecvDmabufAnnounce(i)
  \/ ListQuery
  \/ \E id \in ClientIds \cup {NoId} : SwitchQuery(id)
  \/ HeartbeatLapse
  \/ GraceLapse
  \/ HeartbeatTimeout
  \/ GraceDeadline

Next == ButStopped \/ \E i \in Slots : RecvStopped(i)

Spec == Init /\ [][Next]_cp

\* Time passes and the poll loop keeps turning: poll() returns at least every
\* WISPS_CONTROL_POLL_TIMEOUT_MS, and every turn checks the grace deadline.
FairSpec ==
  /\ Spec
  /\ WF_cp(GraceLapse)
  /\ WF_cp(GraceDeadline)

-----------------------------------------------------------------------------
(* Properties *)

MessageKinds ==
  {"MODE", "VERSION_MISMATCH", "ACTIVATE_GRANT", "ACTIVATE_QUEUED",
   "EVICT_PENDING", "LIVENESS_TIMEOUT", "DEACTIVATE", "DMABUF_ACK",
   "LIST_RESPONSE", "SWITCH_RESPONSE"}

Message == [to : Slots \cup {Admin}, kind : MessageKinds, arg : Nat]

ControlPlanes ==
  [slots : [Slots -> Session],
   active_slot : SlotOrNone,
   evicting_slot : SlotOrNone,
   pending_grant_target : SlotOrNone,
   heartbeat_late : BOOLEAN,
   grace_over : BOOLEAN,
   generation : Generations,
   dp_mode : SupportedModes,
   out : Seq(Message)]

\* Type invariant: struct wisps_control_plane_t stays well formed; in
\* particular no session is ever granted a mode the server does not support.
TypeOK == cp \in ControlPlanes

AtMostOne(c) == \A i, j \in Holders(c) : i = j

\* The RT slot has at most one occupant, whatever the order of messages,
\* disconnects, admin switches and deadlines (session_table.h: "Only one
\* session may be in this state at a time").
SingleHolder == AtMostOne(cp)

ActiveCached(c) ==
  \A i \in Slots :
    c.active_slot = i <=> c.slots[i].in_use /\ c.slots[i].state = "ACTIVE_RT"

\* active_slot is a cache of the table: it names exactly the in-use session that
\* is ACTIVE_RT, or is -1 (comment on struct wisps_session_table_t).
ActiveSlotIsCache == ActiveCached(cp)

EvictingCached(c) ==
  /\ \A i \in Slots :
       c.evicting_slot = i
         <=> c.slots[i].in_use /\ c.slots[i].state = "EVICTING_COOPERATIVE"
  /\ \A i \in Slots :
       c.slots[i].state \notin {"EVICTING_FORCED", "REJECTED"}

\* evicting_slot names exactly the session that is winding down, so the grace
\* deadline can never demote a slot that was freed or reused; and the two
\* passing states EVICTING_FORCED and REJECTED never outlive the handler that
\* enters them, so LIST never shows them.
EvictingSlotIsCache == EvictingCached(cp)

PendingLive(c) ==
  c.pending_grant_target # None =>
    /\ c.slots[c.pending_grant_target].in_use
    /\ c.slots[c.pending_grant_target].state # "CONNECTED"

\* pending_grant_target never names a slot that was freed, or freed and taken
\* by a new connection: a slot that is reused passes through CONNECTED.
PendingTargetIsLive == PendingLive(cp)

PendingReady(c) ==
  c.evicting_slot # None /\ c.pending_grant_target # None =>
    c.slots[c.pending_grant_target].state \in Grantable

\* While an eviction is in flight its pending target stays grantable, so the
\* eviction always ends in the grant it was started for or in the target's
\* disconnection (the "defensive" return of finish_pending_grant() is not
\* taken).
EvictionTargetGrantable == PendingReady(cp)

HolderCurrent(c) ==
  \A i \in Holders(c) : c.slots[i].granted_generation = c.generation

\* The occupant of the RT slot was granted the generation the ring has now, so
\* its publishes pass the generation check of wispc_publish().
HolderGenerationCurrent == HolderCurrent(cp)

OthersFenced(c) ==
  \A i \in Holders(c), j \in Slots :
    i # j => c.slots[j].granted_generation < c.generation

\* While a session occupies the RT slot no other session holds a grant of the
\* same generation, so an earlier occupant's publishes are dropped (as long as
\* the 32-bit counter has not wrapped).
FormerHoldersFenced == ~ AllowWrap => OthersFenced(cp)

ModeMatches(c) ==
  \A i \in Holders(c) : c.slots[i].negotiated_mode = c.dp_mode

\* The data plane's frame size is the mode negotiated by the occupant.
DataPlaneModeFollowsHolder == ModeMatches(cp)

\* Two scans of the table agree on the queue: the session told position 1 is
\* the one find_next_queued() will serve, and positions number the queue
\* without gap or repetition, equal stamps included.
QueuePositionsAgree ==
  /\ \A i \in Queued(cp) :
       queue_position(cp, i) = 1 <=> find_next_queued(cp) = i
  /\ {queue_position(cp, i) : i \in Queued(cp)} = 1 .. Cardinality(Queued(cp))

\* When the slot passes straight from one session to a queued one that no
\* admin switch named, nobody in the queue has waited longer.
FifoGrant ==
  [][\A i \in Queued(cp) :
       /\ rt_slot_taken(cp)
       /\ cp.pending_grant_target # i
       /\ cp'.slots[i].state = "GRANTED_WARMUP"
       => \A j \in Queued(cp) : ~ ts_less(cp, j, i)]_cp

Idle(c) == ~ rt_slot_taken(c) /\ Queued(c) # {}

\* No handler but that of STOPPED leaves the slot free with sessions queued:
\* neither a decline, a disconnection, a heartbeat timeout nor a grace deadline,
\* which ends the same eviction as STOPPED but goes on to serve the queue
\* (maybe_grant_next_queued(), control_plane.c; see SlotNeverIdleWhileQueued for
\* what STOPPED does).
WorkConserving == [][Idle(cp') /\ ButStopped => Idle(cp)]_cp

StageOf(state) ==
  CASE state = "GRANTED_WARMUP" -> "warmup"
    [] state = "ACTIVE_RT" -> "active"
    [] state \in {"EVICTING_COOPERATIVE", "EVICTING_FORCED"} -> "evicting"

SlotHolder(c) == FirstOf(Holders(c))

SlotStage(c) ==
  IF rt_slot_taken(c) THEN StageOf(c.slots[SlotHolder(c)].state) ELSE "idle"

Arbiter == INSTANCE RtSlot WITH
  Clients <- Slots,
  Nobody <- None,
  Modulus <- GenModulus,
  holder <- SlotHolder(cp),
  stage <- SlotStage(cp),
  fence <- cp.generation

\* The control plane implements the arbiter of RtSlot: whatever a handler does
\* between two turns of the poll loop, what the outside sees of the RT slot is
\* one grant, activation, wind-down, end or handover, with exactly the bumps of
\* the generation that the code makes: one for a grant and one more for an
\* occupant cut off while active.  The documents promise one in all (see
\* OneBumpPerGrant).
ImplementsArbiter == Arbiter!Spec

\* An admin switch that started an eviction is carried out: unless another
\* switch supersedes it, its target is granted the slot or disconnects, even
\* if the evicted client never answers.
SwitchCarriedOut ==
  \A i \in Slots :
    cp.evicting_slot # None /\ cp.pending_grant_target = i
      ~> \/ cp.slots[i].state = "GRANTED_WARMUP"
         \/ ~ cp.slots[i].in_use
         \/ cp.pending_grant_target \in Slots \ {i}

\* "every grant the reader ever sends is preceded by exactly one generation bump,
\* full stop" (SPEC.md) and a timeout or disconnect grants the next session "using
\* the SAME generation bump from step 1"; wisps_evict_client() is "called exactly
\* once per activation switch" (control_plane.h): a step that grants the slot
\* moves the generation by one.
OneBumpPerGrant ==
  [][\A i \in Slots :
       /\ cp.slots[i].state # "GRANTED_WARMUP"
       /\ cp'.slots[i].state = "GRANTED_WARMUP"
       => cp'.generation = (cp.generation + 1) % GenModulus]_cp

\* "Called whenever the RT slot becomes free with clients still waiting"
\* (maybe_grant_next_queued(), control_plane.c): no session waits in the queue
\* of a free slot.
SlotNeverIdleWhileQueued == ~ Idle(cp)

\* "applied once that warmup resolves one way or the other" (grant_slot(),
\* control_plane.c): a remembered target outlives neither the warmup nor the
\* eviction it waits for.
PendingAppliedAfterWarmup ==
  cp.pending_grant_target # None =>
    \E i \in Holders(cp) : cp.slots[i].state # "ACTIVE_RT"
=============================================================================
