------------------------------ MODULE DataPath ------------------------------
(***************************************************************************)
(* The way of a frame: the render threads of the clients, the shared ring, *)
(* the frame eventfd and the data plane thread, while the control thread   *)
(* grants the RT slot and takes it away.                                   *)
(*                                                                         *)
(* A client process has two threads.  The application's render loop calls  *)
(* wispc_is_active(), wispc_write_slot() and wispc_publish(); each step    *)
(* between two accesses to shared state is an action.  The SDK's control   *)
(* thread handles the notices in the inbox and so changes active and       *)
(* granted_generation under the render loop's feet.  The control thread of *)
(* the server is reduced to what it does to the ring and to the inboxes:   *)
(* one action per access to the ring, since the other processes run        *)
(* between two of them.  A handler that frees the slot and then grants it  *)
(* to a queued session is such a pair here; module ControlPlane has the    *)
(* handlers in full.                                                       *)
(***************************************************************************)
EXTENDS ShmRing, Sequences, FiniteSets

CONSTANTS
  Clients,   \* client processes
  NoClient,  \* nobody
  CanStop    \* whether the server may be shut down

ASSUME ClientsAssumption == NoClient \notin Clients
ASSUME CanStopAssumption == CanStop \in BOOLEAN

VARIABLES
  ring,      \* the shared ring
  signal,    \* whether frame_fd is readable
  client,    \* the client processes
  rt,        \* the RT slot, as the control thread sees it
  newest,    \* the frame in buffer latest_ready
  dp,        \* the data plane thread
  stop,      \* the data plane's running flag, the kick that stop() still owes,
             \* and whether abort_fd is readable
  settled    \* history: whether nobody was in the middle of a frame at the
             \* last eviction

vars == <<ring, signal, client, rt, newest, dp, stop, settled>>

\* A frame is known by the generation it was checked against and how far it got.
Frame == [gen : Generations, fate : {"none", "stored", "posted", "shown"}]
NoFrame == [gen |-> 0, fate |-> "none"]

Notices == [kind : {"GRANT", "DEACTIVATE", "EVICT_PENDING"}, gen : Generations]

\* Steps of the render loop.  "gone": no process or a connection the server has
\* already dropped; "crashed" and "aborted": dead, the server does not know yet.
Phases ==
  {"gone", "idle", "claim", "render", "stale", "store", "signal",
   "crashed", "aborted"}

NewClient ==
  [phase |-> "idle", idx |-> None, active |-> FALSE, granted |-> 0,
   seen |-> 0, inbox |-> <<>>]

Alive(c) == client[c].phase \notin {"gone", "crashed", "aborted"}

\* The render thread of c is between write_slot() and the end of publish_slot().
Writing(c) == client[c].phase \in {"render", "store"}

Blitting == dp.phase = "blit"

MidFrame == Blitting \/ \E c \in Clients : Writing(c)

Init ==
  /\ ring = ring_create
  /\ signal = FALSE
  /\ client = [c \in Clients |-> [NewClient EXCEPT !.phase = "gone"]]
  /\ rt = [holder |-> NoClient, state |-> "free"]
  /\ newest = NoFrame
  /\ dp = [phase |-> "top", events |-> {}, idx |-> None, legal |-> TRUE]
  /\ stop = [running |-> TRUE, asked |-> FALSE, abort |-> FALSE]
  /\ settled = TRUE

\* The render loop holds no buffer between publish and the next write_slot.
Between(s, phase) == [s EXCEPT !.phase = phase, !.idx = None, !.seen = 0]

\* What is left of a process that has died: the READY_FOR_RT that answered its
\* last grant may still be on its way.
Dead(s, phase) == [NewClient EXCEPT !.phase = phase, !.granted = s.granted]

Goto(c, phase) == client' = [client EXCEPT ![c].phase = phase]

-----------------------------------------------------------------------------
(* The render loop of a client, clients/moving_sine_wave_cpu/main.c and     *)
(* wispc_publish()                                                          *)

\* wispc_is_active()
IsActive(c) ==
  /\ client[c].phase = "idle"
  /\ client[c].active
  /\ Goto(c, "claim")
  /\ UNCHANGED <<ring, signal, rt, newest, dp, stop, settled>>

\* wispc_write_slot()
WriteSlot(c) ==
  /\ client[c].phase = "claim"
  /\ CanLock(ring)
  /\ IF ClaimAborts(ring)
     THEN /\ client' = [client EXCEPT ![c] = Dead(@, "aborted")]
          /\ ring' = ring_lock(ring)
     ELSE /\ ring' = write_slot(ring)
          /\ client' = [client EXCEPT ![c].phase = "render",
                                      ![c].idx = ring'.client_locked]
  /\ UNCHANGED <<signal, rt, newest, dp, stop, settled>>

\* Mutant of PublishCheck: the generation is not compared.
PublishCheckMutant(c) ==
  /\ client[c].phase = "render"
  /\ client' = [client EXCEPT ![c] =
       IF ~ @.active
       THEN Between(@, "idle")
       ELSE [@ EXCEPT !.phase = "store", !.seen = client[c].granted]]
  /\ UNCHANGED <<ring, signal, rt, newest, dp, stop, settled>>

\* The checks at the head of wispc_publish(), outside the mutex.  The claim is
\* not released when they fail.  The three loads are one step: a change between
\* them has the outcome of a change before or after them.
PublishCheck(c) ==
  /\ client[c].phase = "render"
  /\ client' = [client EXCEPT ![c] =
       IF ~ @.active
       THEN Between(@, "idle")
       ELSE IF ring.generation # @.granted
            THEN Between(@, "stale")
            ELSE [@ EXCEPT !.phase = "store", !.seen = client[c].granted]]
  /\ UNCHANGED <<ring, signal, rt, newest, dp, stop, settled>>

\* wispc_publish() found another generation: active = false, return.
GiveUp(c) ==
  /\ client[c].phase = "stale"
  /\ client' = [client EXCEPT ![c].phase = "idle", ![c].active = FALSE]
  /\ UNCHANGED <<ring, signal, rt, newest, dp, stop, settled>>

\* wisp_shm_ring_publish_slot()
PublishSlot(c) ==
  /\ client[c].phase = "store"
  /\ CanLock(ring)
  /\ ring' = publish_slot(ring, client[c].idx)
  /\ newest' = [gen |-> client[c].seen, fate |-> "stored"]
  /\ client' = [client EXCEPT ![c] = Between(@, "signal")]
  /\ UNCHANGED <<signal, rt, dp, stop, settled>>

\* write(frame_fd)
PostFrame(c) ==
  /\ client[c].phase = "signal"
  /\ signal' = TRUE
  /\ newest' = [newest EXCEPT !.fate = IF @ = "stored" THEN "posted" ELSE @]
  /\ Goto(c, "idle")
  /\ UNCHANGED <<ring, rt, dp, stop, settled>>

-----------------------------------------------------------------------------
(* The SDK's control thread, client_control.c *)

\* wispc_handle_grant(); the READY_FOR_RT it sends is the guard of Ready below.
HandleGrant(s, gen) == [s EXCEPT !.granted = gen, !.active = TRUE]

\* The ACTIVATE_GRANT, DEACTIVATE and EVICT_PENDING cases of wispc_control(): none
\* of them waits for the render thread.
RecvNotice(c) ==
  /\ Alive(c)
  /\ client[c].inbox # <<>>
  /\ LET n == Head(client[c].inbox)
         s == [client[c] EXCEPT !.inbox = Tail(@)]
     IN  client' = [client EXCEPT ![c] =
           IF n.kind = "GRANT"
           THEN HandleGrant(s, n.gen)
           ELSE [s EXCEPT !.active = FALSE]]
  /\ UNCHANGED <<ring, signal, rt, newest, dp, stop, settled>>

-----------------------------------------------------------------------------
(* Processes come and go *)

\* wispc_connect(): a new process with a negotiated session that has asked for the
\* slot.  The grant that may end it, or come later, is Grant and RecvNotice.
Connect(c) ==
  /\ client[c].phase = "gone"
  /\ rt.holder # c
  /\ client' = [client EXCEPT ![c] = NewClient]
  /\ UNCHANGED <<ring, signal, rt, newest, dp, stop, settled>>

\* A process ends: by wispc_disconnect() when its render loop is idle, or by dying
\* anywhere, inside a section of the mutex included.
Crash(c) ==
  /\ Alive(c)
  /\ client' = [client EXCEPT ![c] = Dead(@, "crashed")]
  /\ \/ UNCHANGED <<ring, newest>>
     \/ /\ client[c].phase = "claim"
        /\ ~ ClaimAborts(ring)
        /\ ring' = DieInClaim(ring)
        /\ UNCHANGED newest
     \/ /\ client[c].phase = "store"
        /\ ring' = DieInPublish(ring, client[c].idx)
        /\ newest' = [gen |-> client[c].seen, fate |-> "stored"]
  /\ UNCHANGED <<signal, rt, dp, stop, settled>>

-----------------------------------------------------------------------------
(* What the server's control thread does to the ring, control_plane.c *)

CanEvict == CanLock(ring) /\ ring.generation < MaxGeneration

\* wisps_evict_client(), then wisps_data_plane_kick().
Evict ==
  /\ CanEvict
  /\ ring' = evict_client(ring)
  /\ stop' = [stop EXCEPT !.abort = TRUE]
  /\ newest' = IF ring'.latest_ready = None THEN NoFrame ELSE newest
  /\ settled' = ~ MidFrame

\* A message to a process that has died is lost.
Notify(c, kind) ==
  IF Alive(c)
  THEN [client EXCEPT ![c].inbox =
          Append(@, [kind |-> kind, gen |-> ring'.generation])]
  ELSE client

\* do_grant()
Grant(c) ==
  /\ rt.state = "free"
  /\ client[c].phase # "gone"
  /\ Evict
  /\ client' = Notify(c, "GRANT")
  /\ rt' = [holder |-> c, state |-> "warmup"]
  /\ UNCHANGED <<signal, dp>>

\* READY_FOR_RT, which the client sends when it has handled the grant.
Ready ==
  /\ rt.state = "warmup"
  /\ client[rt.holder].granted = ring.generation
  /\ rt' = [rt EXCEPT !.state = "active"]
  /\ UNCHANGED <<ring, signal, client, newest, dp, stop, settled>>

HeartbeatTimeout ==
  /\ rt.state = "active"
  /\ Evict
  /\ client' = Notify(rt.holder, "DEACTIVATE")
  /\ rt' = [holder |-> NoClient, state |-> "free"]
  /\ UNCHANGED <<signal, dp>>

\* begin_eviction()
BeginEviction ==
  /\ rt.state = "active"
  /\ ring' = ring
  /\ client' = Notify(rt.holder, "EVICT_PENDING")
  /\ rt' = [rt EXCEPT !.state = "evicting"]
  /\ UNCHANGED <<signal, newest, dp, stop, settled>>

\* STOPPED or the grace deadline, whichever is first; the generation is left to
\* the grant that may follow.
EndEviction ==
  /\ rt.state = "evicting"
  /\ rt' = [holder |-> NoClient, state |-> "free"]
  /\ UNCHANGED <<ring, signal, client, newest, dp, stop, settled>>

\* handle_disconnect() after end of file on the connection of a dead client.
\* The generation is bumped for an active session only.
Disconnect(c) ==
  /\ client[c].phase \in {"crashed", "aborted"}
  /\ client' = [client EXCEPT ![c] = [NewClient EXCEPT !.phase = "gone"]]
  /\ IF rt.holder = c
     THEN /\ rt' = [holder |-> NoClient, state |-> "free"]
          /\ IF rt.state = "active"
             THEN Evict
             ELSE UNCHANGED <<ring, newest, stop, settled>>
     ELSE UNCHANGED <<rt, ring, newest, stop, settled>>
  /\ UNCHANGED <<signal, dp>>

-----------------------------------------------------------------------------
(* The data plane thread, data_plane.c *)

\* while (running)
LoopTop ==
  /\ dp.phase = "top"
  /\ dp' = [dp EXCEPT !.phase = IF stop.running THEN "wait" ELSE "done"]
  /\ UNCHANGED <<ring, signal, client, rt, newest, stop, settled>>

EpollWait ==
  /\ dp.phase = "wait"
  /\ signal \/ stop.abort
  /\ dp' = [dp EXCEPT !.phase = "woken",
                      !.events = (IF signal THEN {"frame"} ELSE {})
                                   \cup (IF stop.abort THEN {"abort"} ELSE {})]
  /\ UNCHANGED <<ring, signal, client, rt, newest, stop, settled>>

\* The second look at running, then the reads that clear the counters of the
\* descriptors that were reported.
Drain ==
  /\ dp.phase = "woken"
  /\ IF ~ stop.running
     THEN /\ dp' = [dp EXCEPT !.phase = "done", !.events = {}]
          /\ UNCHANGED <<signal, stop>>
     ELSE /\ dp' = [dp EXCEPT
                      !.phase = IF "frame" \in dp.events THEN "checkout" ELSE "top",
                      !.events = {}]
          /\ signal' = (signal /\ "frame" \notin dp.events)
          /\ stop' = [stop EXCEPT !.abort = @ /\ "abort" \notin dp.events]
  /\ UNCHANGED <<ring, client, rt, newest, settled>>

Checkout ==
  /\ dp.phase = "checkout"
  /\ CanLock(ring)
  /\ ring' = checkout(ring)
  /\ IF ring.latest_ready = None
     THEN /\ dp' = [dp EXCEPT !.phase = "top"]
          /\ UNCHANGED newest
     ELSE /\ dp' = [dp EXCEPT !.phase = "blit", !.idx = ring.latest_ready,
                              !.legal = newest.gen = ring.generation]
          /\ newest' = [newest EXCEPT !.fate = "shown"]
  /\ UNCHANGED <<signal, client, rt, stop, settled>>

\* Mutant of Release: the counter is cleared after the blit once more.
ReleaseMutant ==
  /\ dp.phase = "blit"
  /\ CanLock(ring)
  /\ ring' = release(ring)
  /\ signal' = FALSE
  /\ dp' = [dp EXCEPT !.phase = "top", !.idx = None, !.legal = TRUE]
  /\ UNCHANGED <<client, rt, newest, stop, settled>>

\* The blit is over.
Release ==
  /\ dp.phase = "blit"
  /\ CanLock(ring)
  /\ ring' = release(ring)
  /\ dp' = [dp EXCEPT !.phase = "top", !.idx = None, !.legal = TRUE]
  /\ UNCHANGED <<signal, client, rt, newest, stop, settled>>

\* Mutant of Stop: the loop is not kicked.
StopMutant ==
  /\ CanStop
  /\ stop.running
  /\ stop' = [stop EXCEPT !.running = FALSE]
  /\ UNCHANGED <<ring, signal, client, rt, newest, dp, settled>>

\* wisps_data_plane_stop() on the main thread: store, then kick.
Stop ==
  /\ CanStop
  /\ stop.running
  /\ stop' = [stop EXCEPT !.running = FALSE, !.asked = TRUE]
  /\ UNCHANGED <<ring, signal, client, rt, newest, dp, settled>>

Kick ==
  /\ stop.asked
  /\ stop' = [stop EXCEPT !.abort = TRUE, !.asked = FALSE]
  /\ UNCHANGED <<ring, signal, client, rt, newest, dp, settled>>

-----------------------------------------------------------------------------

DataPlane == LoopTop \/ EpollWait \/ Drain \/ Checkout \/ Release

Next ==
  \/ \E c \in Clients :
       \/ IsActive(c)
       \/ WriteSlot(c)
       \/ PublishCheck(c)
       \/ GiveUp(c)
       \/ PublishSlot(c)
       \/ PostFrame(c)
       \/ RecvNotice(c)
       \/ Connect(c)
       \/ Crash(c)
       \/ Grant(c)
       \/ Disconnect(c)
  \/ Ready
  \/ HeartbeatTimeout
  \/ BeginEviction
  \/ EndEviction
  \/ DataPlane
  \/ Stop
  \/ Kick

Spec == Init /\ [][Next]_vars

\* The data plane thread keeps running and wisps_data_plane_stop() runs to its
\* end.  Clients need not make progress.
FairSpec == Spec /\ WF_vars(DataPlane) /\ WF_vars(Kick)

-----------------------------------------------------------------------------
(* Properties *)

ClientState ==
  [phase : Phases, idx : BufferOrNone, active : BOOLEAN, granted : Generations,
   seen : Generations, inbox : Seq(Notices)]

\* Type invariant: in particular a client that writes has a buffer, so the scan
\* of write_slot() always finds one that is neither published nor being read.
TypeOK ==
  /\ ring \in Ring
  /\ signal \in BOOLEAN
  /\ client \in [Clients -> ClientState]
  /\ rt \in [holder : Clients \cup {NoClient},
             state : {"free", "warmup", "active", "evicting"}]
  /\ newest \in Frame
  /\ dp \in [phase : {"top", "wait", "woken", "checkout", "blit", "done"},
             events : SUBSET {"frame", "abort"}, idx : BufferOrNone,
             legal : BOOLEAN]
  /\ stop \in [running : BOOLEAN, asked : BOOLEAN, abort : BOOLEAN]
  /\ settled \in BOOLEAN
  /\ \A c \in Clients : Writing(c) => client[c].idx \in Buffers

Torn == Blitting /\ \E c \in Clients : Writing(c) /\ client[c].idx = dp.idx

\* No buffer is written while the data plane blits it, unless the last eviction
\* fell in the middle of a frame: late claims and crashes inside the mutex are
\* harmless.
NoTearOnceSettled == settled => ~ Torn

\* Nor does the data plane show a frame that was published under an earlier
\* grant.
NoStaleFrameOnceSettled == settled /\ Blitting => dp.legal

\* No wakeup is lost: once a frame has been posted, the ring's newest frame is
\* checked out or evicted, unless the data plane is stopped first; a process that
\* dies inside the mutex does not prevent it.
PostedFrameReachesSink ==
  newest.fate = "posted"
    ~> newest.fate \in {"shown", "none"} \/ ~ stop.running

\* wisps_data_plane_stop() ends the loop wherever it is, parked in epoll_wait()
\* included.
DataPlaneStops == ~ stop.running ~> dp.phase = "done"

\* "guaranteeing the write never tears a frame the server (or the flip-away-from
\* logic in dmabuf mode) is using" (wisp_shm_ring_write_slot(), wire.h).
NeverTorn == ~ Torn

\* "a clients publish already does a generation check which guarantees an evicted
\* client's frame stop landing in the ring, so this frame is legal"
\* (wisps_data_plane_run(), data_plane.c).
BlitIsLegal == Blitting => dp.legal

\* "calling this again before wisp_shm_ring_publish_slot() releases the previous
\* claim is a caller bug and aborts the process" (wire.h): a client whose calls
\* alternate, as here, is never aborted.
NoAbort == \A c \in Clients : client[c].phase # "aborted"
=============================================================================
