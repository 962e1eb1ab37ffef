--------------------------- MODULE DataPathProofs ---------------------------
(***************************************************************************)
(* Proofs about DataPath, for every number of buffers above two, of client *)
(* processes and of generations: the types, and that after an eviction     *)
(* that found nobody in the middle of a frame no buffer is written while   *)
(* the data plane blits it and no frame of an earlier grant is shown.      *)
(*                                                                         *)
(* The operators of ShmRing work on records, so what each does to each     *)
(* field comes first.  Inv then says what the ring's three indices mean to *)
(* the threads as long as settled holds: client_locked is the buffer of    *)
(* the only writer, server_locked the buffer of the blit, and a frame in   *)
(* latest_ready carries the current generation.                            *)
(***************************************************************************)
EXTENDS DataPath, MinTheorems, TLAPS

\* Whoever has the slot is a client.
HolderKnown == rt.state # "free" => rt.holder \in Clients

\* At most one render thread is between write_slot() and publish_slot().
OneWriter == \A c, d \in Clients : Writing(c) /\ Writing(d) => c = d

\* Its buffer is the one claimed in the ring, neither published nor being read.
ClaimHeld ==
  \A c \in Clients : Writing(c) =>
    /\ client[c].idx = ring.client_locked
    /\ client[c].idx \notin {ring.latest_ready, ring.server_locked}

\* A writer past the check of wispc_publish() has seen the ring's generation.
StoreCurrent ==
  \A c \in Clients : client[c].phase = "store" => client[c].seen = ring.generation

\* So the published frame is of that generation.
FrameCurrent == ring.latest_ready # None => newest.gen = ring.generation

\* The data plane blits the buffer it has locked, with a frame that was legal.
BlitLocked == Blitting => dp.idx = ring.server_locked /\ dp.legal

Settled == OneWriter /\ ClaimHeld /\ StoreCurrent /\ FrameCurrent /\ BlitLocked

Inv == TypeOK /\ HolderKnown /\ (settled => Settled)

-----------------------------------------------------------------------------
(* The ring *)

\* Buffers are naturals; a free one is found because there are more than two.
LEMMA FreeBufferFound ==
  ASSUME NEW r \in Ring
  PROVE  /\ FreeBuffer(r) \in Buffers
         /\ FreeBuffer(r) \notin {r.latest_ready, r.server_locked}
<1>1. Buffers \subseteq Nat
  BY BuffersAssumption DEF Buffers
<1>2. Writable(r) # {}
  <2>1. 0 \in Buffers /\ 1 \in Buffers /\ 2 \in Buffers
    BY BuffersAssumption DEF Buffers
  <2> QED BY <2>1 DEF Writable
<1>3. Writable(r) \in SUBSET Nat
  BY <1>1 DEF Writable
<1>4. Min(Writable(r)) \in Writable(r)
  BY <1>2, <1>3, MinIsLeast
<1> QED BY <1>2, <1>4 DEF FreeBuffer, Writable

\* -1 is not a buffer.
LEMMA NoneIsNoBuffer == None \notin Buffers
BY BuffersAssumption DEF None, Buffers

\* The mutex does not show in the indices.
LEMMA LockFields ==
  ASSUME NEW r \in Ring
  PROVE  /\ ring_lock(r) \in Ring
         /\ ring_lock(r).latest_ready = r.latest_ready
         /\ ring_lock(r).server_locked = r.server_locked
         /\ ring_lock(r).client_locked = r.client_locked
         /\ ring_lock(r).generation = r.generation
BY DEF ring_lock, Ring

\* A claim, completed or cut short by death, takes a free buffer and changes no
\* other index.
LEMMA ClaimFields ==
  ASSUME NEW r \in Ring, NEW q, q \in {write_slot(r), DieInClaim(r)}
  PROVE  /\ q \in Ring
         /\ q.client_locked = FreeBuffer(r)
         /\ q.latest_ready = r.latest_ready
         /\ q.server_locked = r.server_locked
         /\ q.generation = r.generation
<1> DEFINE b == FreeBuffer(r)
<1>1. b \in BufferOrNone
  BY FreeBufferFound DEF BufferOrNone
<1>2. \/ q = [ring_lock(r) EXCEPT !.client_locked = b]
      \/ q = [[ring_lock(r) EXCEPT !.client_locked = b] EXCEPT !.mutex = "dead"]
  BY DEF write_slot, DieInClaim
<1> HIDE DEF b
<1>3. /\ q \in Ring
      /\ q.client_locked = b
      /\ q.latest_ready = r.latest_ready
      /\ q.server_locked = r.server_locked
      /\ q.generation = r.generation
  BY <1>1, <1>2 DEF ring_lock, Ring
<1> QED BY <1>3 DEF b

\* A publication makes the writer's buffer the latest; one cut short by death
\* leaves the claim.
LEMMA PublishFields ==
  ASSUME NEW r \in Ring, NEW b \in Buffers, NEW q,
         q \in {publish_slot(r, b), DieInPublish(r, b)}
  PROVE  /\ q \in Ring
         /\ q.latest_ready = b
         /\ q.server_locked = r.server_locked
         /\ q.generation = r.generation
BY DEF publish_slot, DieInPublish, ring_lock, Ring, BufferOrNone

\* checkout() locks the latest buffer, if there is one.
LEMMA CheckoutFields ==
  ASSUME NEW r \in Ring
  PROVE  /\ checkout(r) \in Ring
         /\ checkout(r).latest_ready = r.latest_ready
         /\ checkout(r).client_locked = r.client_locked
         /\ checkout(r).generation = r.generation
         /\ checkout(r).server_locked = IF r.latest_ready = None
                                        THEN r.server_locked
                                        ELSE r.latest_ready
<1>1. CASE r.latest_ready = None
  BY <1>1, LockFields DEF checkout
<1>2. CASE r.latest_ready # None
  BY <1>2 DEF checkout, ring_lock, Ring
<1> QED BY <1>1, <1>2

\* release() unlocks it.
LEMMA ReleaseFields ==
  ASSUME NEW r \in Ring
  PROVE  /\ release(r) \in Ring
         /\ release(r).latest_ready = r.latest_ready
         /\ release(r).client_locked = r.client_locked
         /\ release(r).generation = r.generation
         /\ release(r).server_locked = None
BY DEF release, ring_lock, Ring, BufferOrNone

\* An eviction clears the three indices and bumps the generation.
LEMMA EvictFields ==
  ASSUME NEW r \in Ring, r.generation < MaxGeneration
  PROVE  /\ evict_client(r) \in Ring
         /\ evict_client(r).latest_ready = None
         /\ evict_client(r).server_locked = None
         /\ evict_client(r).client_locked = None
         /\ evict_client(r).generation = r.generation + 1
<1>1. r.generation + 1 \in Generations
  BY MaxGenerationAssumption DEF Ring, Generations
<1> QED BY <1>1 DEF evict_client, ring_lock, Ring, BufferOrNone

-----------------------------------------------------------------------------
(* The clients *)

\* A process that has just connected, and one that is not there.
LEMMA NewClientType ==
  /\ NewClient \in ClientState
  /\ NewClient.phase = "idle"
  /\ [NewClient EXCEPT !.phase = "gone"] \in ClientState
  /\ [NewClient EXCEPT !.phase = "gone"].phase = "gone"
<1>1. /\ {"idle", "gone"} \subseteq Phases
      /\ 0 \in Generations /\ None \in BufferOrNone
      /\ <<>> \in Seq(Notices)
  BY MaxGenerationAssumption DEF Phases, Generations, BufferOrNone
<1>2. NewClient \in ClientState /\ NewClient.phase = "idle"
  BY <1>1 DEF NewClient, ClientState
<1>3. /\ [NewClient EXCEPT !.phase = "gone"] \in ClientState
      /\ [NewClient EXCEPT !.phase = "gone"].phase = "gone"
  BY <1>1, <1>2 DEF ClientState
<1> QED BY <1>2, <1>3

\* The updates that the actions make to a client keep its type.
LEMMA ClientUpdates ==
  ASSUME NEW s \in ClientState
  PROVE  /\ \A ph \in Phases : [s EXCEPT !.phase = ph] \in ClientState
         /\ \A ph \in Phases : Between(s, ph) \in ClientState
         /\ \A ph \in Phases : Dead(s, ph) \in ClientState
         /\ \A b \in Buffers :
              [s EXCEPT !.phase = "render", !.idx = b] \in ClientState
         /\ \A g \in Generations :
              [s EXCEPT !.phase = "store", !.seen = g] \in ClientState
         /\ [s EXCEPT !.phase = "idle", !.active = FALSE] \in ClientState
         /\ \A n \in Notices :
              [s EXCEPT !.inbox = Append(@, n)] \in ClientState
<1>1. /\ {"idle", "render", "store"} \subseteq Phases
      /\ 0 \in Generations /\ None \in BufferOrNone
      /\ Buffers \subseteq BufferOrNone
      /\ <<>> \in Seq(Notices)
  BY MaxGenerationAssumption DEF Phases, Generations, BufferOrNone
<1>2. \A ph \in Phases : [s EXCEPT !.phase = ph] \in ClientState
  BY DEF ClientState
<1>3. \A ph \in Phases : Between(s, ph) \in ClientState
  BY <1>1 DEF ClientState, Between
<1>4. NewClient \in ClientState
  BY NewClientType
<1>5. \A ph \in Phases : Dead(s, ph) \in ClientState
  BY <1>4 DEF ClientState, Dead
<1>6. \A b \in Buffers : [s EXCEPT !.phase = "render", !.idx = b] \in ClientState
  BY <1>1 DEF ClientState
<1>7. \A g \in Generations :
        [s EXCEPT !.phase = "store", !.seen = g] \in ClientState
  BY <1>1 DEF ClientState
<1>8. [s EXCEPT !.phase = "idle", !.active = FALSE] \in ClientState
  BY <1>1 DEF ClientState
<1>9. \A n \in Notices : [s EXCEPT !.inbox = Append(@, n)] \in ClientState
  BY DEF ClientState
<1> QED BY <1>2, <1>3, <1>5, <1>6, <1>7, <1>8, <1>9

\* What s may differ in from t without starting or finishing a frame.
SameFrame(s, t) ==
  s.phase \in {"render", "store"} =>
    s.phase = t.phase /\ s.idx = t.idx /\ s.seen = t.seen

\* A notice is added to the inbox of a living client, or lost.
LEMMA NotifyFacts ==
  ASSUME TypeOK, NEW c \in Clients,
         NEW kind \in {"GRANT", "DEACTIVATE", "EVICT_PENDING"},
         ring'.generation \in Generations,
         client' = Notify(c, kind)
  PROVE  /\ client' \in [Clients -> ClientState]
         /\ \A d \in Clients : SameFrame(client'[d], client[d])
<1> DEFINE n == [kind |-> kind, gen |-> ring'.generation]
           s == [client[c] EXCEPT !.inbox = Append(@, n)]
<1>1. n \in Notices
  BY DEF Notices
<1>2. client \in [Clients -> ClientState] /\ client[c] \in ClientState
  BY DEF TypeOK
<1>3. s \in ClientState
  <2> HIDE DEF n
  <2> QED BY <1>1, <1>2, ClientUpdates
<1>4. s.phase = client[c].phase /\ s.idx = client[c].idx /\ s.seen = client[c].seen
  BY <1>2 DEF ClientState
<1>5. client' = client \/ client' = [client EXCEPT ![c] = s]
  BY DEF Notify
<1> HIDE DEF s
<1> QED BY <1>2, <1>3, <1>4, <1>5 DEF SameFrame

-----------------------------------------------------------------------------
(* Steps *)

\* A step that starts no frame, finishes none and leaves the ring's indices, the
\* generation and the blit alone.
LEMMA QuietStep ==
  ASSUME Inv,
         ring' \in Ring,
         ring'.latest_ready = ring.latest_ready,
         ring'.server_locked = ring.server_locked,
         ring'.client_locked = ring.client_locked,
         ring'.generation = ring.generation,
         client' \in [Clients -> ClientState],
         \A d \in Clients : SameFrame(client'[d], client[d]),
         newest' \in Frame, newest'.gen = newest.gen,
         signal' \in BOOLEAN,
         rt' \in [holder : Clients \cup {NoClient},
                 state : {"free", "warmup", "active", "evicting"}],
         HolderKnown',
         UNCHANGED <<dp, settled>>,
         stop' \in [running : BOOLEAN, asked : BOOLEAN, abort : BOOLEAN]
  PROVE  Inv'
<1>1. \A d \in Clients : Writing(d)' =>
        /\ Writing(d)
        /\ client'[d].idx = client[d].idx
        /\ client'[d].seen = client[d].seen
        /\ client'[d].phase = client[d].phase
  BY DEF SameFrame, Writing
<1>2. TypeOK'
  BY <1>1 DEF Inv, TypeOK
<1>3. settled => Settled'
  <2> HAVE settled
  <2>1. OneWriter'
    BY <1>1 DEF Inv, Settled, OneWriter
  <2>2. ClaimHeld'
    BY <1>1 DEF Inv, Settled, ClaimHeld
  <2>3. StoreCurrent'
    BY <1>1 DEF Inv, Settled, StoreCurrent, Writing
  <2>4. FrameCurrent' /\ BlitLocked'
    BY DEF Inv, Settled, FrameCurrent, BlitLocked, Blitting
  <2> QED BY <2>1, <2>2, <2>3, <2>4 DEF Settled
<1> QED BY <1>2, <1>3 DEF Inv

\* The same for a step of one client's own threads, which leave rt, dp, stop and
\* settled alone.
LEMMA QuietClientStep ==
  ASSUME Inv, NEW c \in Clients, NEW s \in ClientState,
         client' = [client EXCEPT ![c] = s],
         SameFrame(s, client[c]),
         ring' \in Ring,
         ring'.latest_ready = ring.latest_ready,
         ring'.server_locked = ring.server_locked,
         ring'.client_locked = ring.client_locked,
         ring'.generation = ring.generation,
         newest' \in Frame, newest'.gen = newest.gen,
         signal' \in BOOLEAN,
         UNCHANGED <<rt, dp, stop, settled>>
  PROVE  Inv'
<1>1. client \in [Clients -> ClientState]
  BY DEF Inv, TypeOK
<1>2. client' \in [Clients -> ClientState]
  BY <1>1
<1>3. \A d \in Clients : SameFrame(client'[d], client[d])
  BY <1>1 DEF SameFrame
<1>4. /\ rt' \in [holder : Clients \cup {NoClient},
                  state : {"free", "warmup", "active", "evicting"}]
      /\ HolderKnown'
      /\ stop' \in [running : BOOLEAN, asked : BOOLEAN, abort : BOOLEAN]
  BY DEF Inv, TypeOK, HolderKnown
<1> QED BY <1>2, <1>3, <1>4, QuietStep

\* An eviction: settled says that nobody was in the middle of a frame, and the
\* ring has been cleared.
LEMMA EvictStep ==
  ASSUME Inv, Evict,
         client' \in [Clients -> ClientState],
         \A d \in Clients : SameFrame(client'[d], client[d]),
         rt' \in [holder : Clients \cup {NoClient},
                 state : {"free", "warmup", "active", "evicting"}],
         HolderKnown',
         UNCHANGED <<signal, dp>>
  PROVE  Inv'
<1>1. /\ ring' \in Ring
      /\ ring'.latest_ready = None
  BY EvictFields DEF Inv, TypeOK, Evict, CanEvict
<1>2. NoFrame \in Frame
  BY MaxGenerationAssumption DEF NoFrame, Frame, Generations
<1>3. newest' \in Frame /\ settled' \in BOOLEAN /\ settled' = ~ MidFrame
  BY <1>1, <1>2 DEF Evict
<1>4. stop' \in [running : BOOLEAN, asked : BOOLEAN, abort : BOOLEAN]
  BY DEF Inv, TypeOK, Evict
<1>5. \A d \in Clients : Writing(d)' => Writing(d) /\ client'[d].idx = client[d].idx
  BY DEF SameFrame, Writing
<1>6. TypeOK'
  BY <1>1, <1>3, <1>4, <1>5 DEF Inv, TypeOK
<1>7. settled' => Settled'
  <2> HAVE settled'
  <2>1. /\ ~ Blitting'
        /\ \A d \in Clients : ~ Writing(d)'
    BY <1>3, <1>5 DEF MidFrame, Blitting
  <2> QED BY <1>1, <2>1
          DEF Settled, OneWriter, ClaimHeld, StoreCurrent, FrameCurrent,
              BlitLocked, Writing
<1> QED BY <1>6, <1>7 DEF Inv

\* Steps of the render loop and of the SDK's control thread that touch neither
\* the claim nor the published buffer.
LEMMA RenderStep ==
  ASSUME Inv, NEW c \in Clients,
         IsActive(c) \/ GiveUp(c) \/ PostFrame(c) \/ RecvNotice(c) \/ Connect(c)
  PROVE  Inv'
<1>1. /\ ring \in Ring
      /\ client \in [Clients -> ClientState]
      /\ client[c] \in ClientState
      /\ newest \in Frame
      /\ signal \in BOOLEAN
  BY DEF Inv, TypeOK
<1>2. {"idle", "claim"} \subseteq Phases
  BY DEF Phases
<1>3. CASE IsActive(c)
  <2> DEFINE t == [client[c] EXCEPT !.phase = "claim"]
  <2>1. t \in ClientState
    BY <1>1, <1>2, ClientUpdates
  <2>2. client' = [client EXCEPT ![c] = t] /\ SameFrame(t, client[c])
    BY <1>1, <1>3 DEF IsActive, Goto, SameFrame, ClientState
  <2> HIDE DEF t
  <2> QED BY <1>1, <1>3, <2>1, <2>2, QuietClientStep DEF IsActive
<1>4. CASE GiveUp(c)
  <2> DEFINE t == [client[c] EXCEPT !.phase = "idle", !.active = FALSE]
  <2>1. t \in ClientState
    BY <1>1, ClientUpdates
  <2>2. client' = [client EXCEPT ![c] = t] /\ SameFrame(t, client[c])
    BY <1>1, <1>4 DEF GiveUp, SameFrame, ClientState
  <2> HIDE DEF t
  <2> QED BY <1>1, <1>4, <2>1, <2>2, QuietClientStep DEF GiveUp
<1>5. CASE PostFrame(c)
  <2> DEFINE t == [client[c] EXCEPT !.phase = "idle"]
  <2>1. t \in ClientState
    BY <1>1, <1>2, ClientUpdates
  <2>2. client' = [client EXCEPT ![c] = t] /\ SameFrame(t, client[c])
    BY <1>1, <1>5 DEF PostFrame, Goto, SameFrame, ClientState
  <2>3. newest' \in Frame /\ newest'.gen = newest.gen /\ signal' \in BOOLEAN
    BY <1>1, <1>5 DEF PostFrame, Frame
  <2> HIDE DEF t
  <2> QED BY <1>1, <1>5, <2>1, <2>2, <2>3, QuietClientStep DEF PostFrame
<1>6. CASE RecvNotice(c)
  <2> DEFINE x == client[c]
             n == Head(x.inbox)
             q == [x EXCEPT !.inbox = Tail(@)]
             t == IF n.kind = "GRANT"
                  THEN HandleGrant(q, n.gen)
                  ELSE [q EXCEPT !.active = FALSE]
  <2>1. x.inbox \in Seq(Notices) /\ x.inbox # <<>>
    BY <1>1, <1>6 DEF RecvNotice, ClientState
  <2>2. n \in Notices /\ Tail(x.inbox) \in Seq(Notices)
    BY <2>1
  <2>3. /\ q \in ClientState
        /\ q.phase = x.phase /\ q.idx = x.idx /\ q.seen = x.seen
    BY <1>1, <2>2 DEF ClientState
  <2>4. client' = [client EXCEPT ![c] = t]
    BY <1>6 DEF RecvNotice
  <2>5. t \in ClientState /\ SameFrame(t, x)
    <3> HIDE DEF q, n, x
    <3> QED BY <2>2, <2>3 DEF HandleGrant, ClientState, Notices, SameFrame
  <2> HIDE DEF t
  <2> QED BY <1>1, <1>6, <2>4, <2>5, QuietClientStep DEF RecvNotice
<1>7. CASE Connect(c)
  <2>1. NewClient \in ClientState /\ SameFrame(NewClient, client[c])
    BY NewClientType DEF SameFrame
  <2> QED BY <1>1, <1>7, <2>1, QuietClientStep DEF Connect
<1> QED BY <1>3, <1>4, <1>5, <1>6, <1>7

\* A claim: there was none in the ring, so nobody is writing, and the buffer is
\* neither published nor being read.
LEMMA ClaimStep ==
  ASSUME Inv, NEW c \in Clients, WriteSlot(c)
  PROVE  Inv'
<1>1. /\ ring \in Ring
      /\ client \in [Clients -> ClientState]
      /\ client[c] \in ClientState
      /\ newest \in Frame
      /\ signal \in BOOLEAN
  BY DEF Inv, TypeOK
<1>2. CASE ClaimAborts(ring)
  <2> DEFINE t == Dead(client[c], "aborted")
  <2>1. t \in ClientState
    BY <1>1, ClientUpdates DEF Phases
  <2>2. client' = [client EXCEPT ![c] = t] /\ SameFrame(t, client[c])
    BY <1>1, <1>2 DEF WriteSlot, Dead, NewClient, SameFrame
  <2> HIDE DEF t
  <2>3. ring' = ring_lock(ring) /\ UNCHANGED <<signal, rt, newest, dp, stop, settled>>
    BY <1>2 DEF WriteSlot
  <2> QED BY <1>1, <2>1, <2>2, <2>3, LockFields, QuietClientStep
<1>3. CASE ~ ClaimAborts(ring)
  <2> DEFINE b == FreeBuffer(ring)
             t == [client[c] EXCEPT !.phase = "render", !.idx = b]
  <2>1. b \in Buffers /\ b \notin {ring.latest_ready, ring.server_locked}
    BY <1>1, FreeBufferFound
  <2>2. ring' = write_slot(ring) /\ UNCHANGED <<signal, rt, newest, dp, stop, settled>>
    BY <1>3 DEF WriteSlot
  <2>3. /\ ring' \in Ring
        /\ ring'.client_locked = b
        /\ ring'.latest_ready = ring.latest_ready
        /\ ring'.server_locked = ring.server_locked
        /\ ring'.generation = ring.generation
    BY <1>1, <2>2, ClaimFields
  <2>4. client' = [client EXCEPT ![c] = t]
    BY <1>1, <1>3, <2>3 DEF WriteSlot
  <2> HIDE DEF b
  <2>5. t \in ClientState /\ t.phase = "render" /\ t.idx = b
    BY <1>1, <2>1, ClientUpdates DEF ClientState
  <2>6. ring.client_locked = None
    BY <1>3 DEF ClaimAborts
  <2> HIDE DEF t
  <2>7. /\ client' \in [Clients -> ClientState]
        /\ client'[c] = t
        /\ \A d \in Clients \ {c} : client'[d] = client[d]
    BY <1>1, <2>4, <2>5
  <2>8. TypeOK'
    BY <2>1, <2>2, <2>3, <2>5, <2>7 DEF Inv, TypeOK, Writing
  <2>9. settled => \A d \in Clients : ~ Writing(d)
    BY <2>6, NoneIsNoBuffer DEF Inv, TypeOK, Settled, ClaimHeld
  <2>10. settled => \A d \in Clients : Writing(d)' => d = c
    BY <2>7, <2>9 DEF Writing
  <2>11. settled => Settled'
    <3> HAVE settled
    <3>1. OneWriter'
      BY <2>10 DEF OneWriter
    <3>2. ClaimHeld'
      BY <2>1, <2>3, <2>5, <2>7, <2>10 DEF ClaimHeld
    <3>3. StoreCurrent'
      BY <2>3, <2>5, <2>7 DEF Inv, Settled, StoreCurrent
    <3>4. FrameCurrent' /\ BlitLocked'
      BY <2>2, <2>3 DEF Inv, Settled, FrameCurrent, BlitLocked, Blitting
    <3> QED BY <3>1, <3>2, <3>3, <3>4 DEF Settled
  <2>12. HolderKnown'
    BY <2>2 DEF Inv, HolderKnown
  <2> QED BY <2>2, <2>8, <2>11, <2>12 DEF Inv
<1> QED BY <1>2, <1>3

\* The checks of wispc_publish(): a frame goes on only with the ring's generation.
LEMMA CheckStep ==
  ASSUME Inv, NEW c \in Clients, PublishCheck(c)
  PROVE  Inv'
<1>1. /\ ring \in Ring
      /\ client \in [Clients -> ClientState]
      /\ client[c] \in ClientState
      /\ client[c].phase = "render"
      /\ client[c].granted \in Generations
      /\ UNCHANGED <<ring, signal, rt, newest, dp, stop, settled>>
  BY DEF Inv, TypeOK, PublishCheck, ClientState
<1>2. CASE ~ client[c].active \/ ring.generation # client[c].granted
  <2>1. PICK ph \in {"idle", "stale"} :
          client' = [client EXCEPT ![c] = Between(client[c], ph)]
    BY <1>2 DEF PublishCheck
  <2> DEFINE t == Between(client[c], ph)
  <2>2. t \in ClientState
    BY <1>1, ClientUpdates DEF Phases
  <2>3. SameFrame(t, client[c])
    BY <1>1 DEF Between, SameFrame, ClientState
  <2> HIDE DEF t
  <2>4. ring' \in Ring /\ newest' \in Frame /\ signal' \in BOOLEAN
    BY <1>1 DEF Inv, TypeOK
  <2>5. client' = [client EXCEPT ![c] = t]
    BY <2>1 DEF t
  <2> QED BY <1>1, <2>2, <2>3, <2>4, <2>5, QuietClientStep
<1>3. CASE client[c].active /\ ring.generation = client[c].granted
  <2> DEFINE g == client[c].granted
             t == [client[c] EXCEPT !.phase = "store", !.seen = g]
  <2>1. client' = [client EXCEPT ![c] = t]
    BY <1>3 DEF PublishCheck
  <2>2. g \in Generations /\ g = ring.generation
    BY <1>1, <1>3
  <2> HIDE DEF g
  <2>3. /\ t \in ClientState
        /\ t.phase = "store" /\ t.seen = g /\ t.idx = client[c].idx
    BY <1>1, <2>2, ClientUpdates DEF ClientState
  <2> HIDE DEF t
  <2>4. /\ client' \in [Clients -> ClientState]
        /\ client'[c] = t
        /\ \A d \in Clients \ {c} : client'[d] = client[d]
    BY <1>1, <2>1, <2>3
  <2>5. \A d \in Clients : (Writing(d)' <=> Writing(d)) /\ client'[d].idx = client[d].idx
    BY <1>1, <2>3, <2>4 DEF Writing
  <2>6. TypeOK'
    BY <1>1, <2>4, <2>5 DEF Inv, TypeOK
  <2>7. settled => Settled'
    <3> HAVE settled
    <3>1. OneWriter' /\ ClaimHeld'
      BY <1>1, <2>5 DEF Inv, Settled, OneWriter, ClaimHeld
    <3>2. StoreCurrent'
      BY <1>1, <2>2, <2>3, <2>4 DEF Inv, Settled, StoreCurrent
    <3>3. FrameCurrent' /\ BlitLocked'
      BY <1>1 DEF Inv, Settled, FrameCurrent, BlitLocked, Blitting
    <3> QED BY <3>1, <3>2, <3>3 DEF Settled
  <2>8. HolderKnown'
    BY <1>1 DEF Inv, HolderKnown
  <2> QED BY <1>1, <2>6, <2>7, <2>8 DEF Inv
<1> QED BY <1>2, <1>3

\* The stores of publish_slot(), all of them or the first alone: the writer was
\* the only one and its frame carries the ring's generation.
LEMMA StoreStep ==
  ASSUME Inv, NEW c \in Clients, client[c].phase = "store",
         NEW s \in ClientState, s.phase \notin {"render", "store"},
         client' = [client EXCEPT ![c] = s],
         ring' \in {publish_slot(ring, client[c].idx), DieInPublish(ring, client[c].idx)},
         newest' = [gen |-> client[c].seen, fate |-> "stored"],
         UNCHANGED <<signal, rt, dp, stop, settled>>
  PROVE  Inv'
<1> DEFINE b == client[c].idx
<1>1. /\ ring \in Ring
      /\ client \in [Clients -> ClientState]
      /\ client[c] \in ClientState
      /\ client[c].seen \in Generations
      /\ b \in Buffers
      /\ Writing(c)
  BY DEF Inv, TypeOK, ClientState, Writing
<1>2. /\ ring' \in Ring
      /\ ring'.latest_ready = b
      /\ ring'.server_locked = ring.server_locked
      /\ ring'.generation = ring.generation
  <2> HIDE DEF b
  <2> QED BY <1>1, PublishFields DEF b
<1>3. newest' \in Frame /\ newest'.gen = client[c].seen
  BY <1>1 DEF Frame
<1>4. /\ client' \in [Clients -> ClientState]
      /\ client'[c] = s
      /\ \A d \in Clients \ {c} : client'[d] = client[d]
  BY <1>1
<1>5. \A d \in Clients : Writing(d)' =>
        d # c /\ Writing(d) /\ client'[d] = client[d]
  BY <1>4 DEF Writing
<1>6. TypeOK'
  BY <1>2, <1>3, <1>4, <1>5 DEF Inv, TypeOK
<1>7. settled => Settled'
  <2> HAVE settled
  <2>1. \A d \in Clients : ~ Writing(d)'
    BY <1>1, <1>5 DEF Inv, Settled, OneWriter
  <2>2. OneWriter' /\ ClaimHeld' /\ StoreCurrent'
    BY <2>1 DEF OneWriter, ClaimHeld, StoreCurrent, Writing
  <2>3. FrameCurrent'
    BY <1>2, <1>3 DEF Inv, Settled, StoreCurrent, FrameCurrent
  <2>4. BlitLocked'
    BY <1>2 DEF Inv, Settled, BlitLocked, Blitting
  <2> QED BY <2>2, <2>3, <2>4 DEF Settled
<1>8. HolderKnown'
  BY DEF Inv, HolderKnown
<1> QED BY <1>6, <1>7, <1>8 DEF Inv

\* wisp_shm_ring_publish_slot()
LEMMA PublishStep ==
  ASSUME Inv, NEW c \in Clients, PublishSlot(c)
  PROVE  Inv'
<1> DEFINE t == Between(client[c], "signal")
<1>1. client[c] \in ClientState
  BY DEF Inv, TypeOK
<1>2. t \in ClientState /\ t.phase = "signal"
  <2>1. t \in ClientState
    BY <1>1, ClientUpdates DEF Phases
  <2>2. t.phase = "signal"
    BY <1>1 DEF Between, ClientState
  <2> QED BY <2>1, <2>2
<1>3. /\ client[c].phase = "store"
      /\ client' = [client EXCEPT ![c] = t]
      /\ ring' = publish_slot(ring, client[c].idx)
      /\ newest' = [gen |-> client[c].seen, fate |-> "stored"]
      /\ UNCHANGED <<signal, rt, dp, stop, settled>>
  BY DEF PublishSlot
<1> HIDE DEF t
<1> QED BY <1>2, <1>3, StoreStep

\* The death of a process, inside a section of the mutex included.
LEMMA CrashStep ==
  ASSUME Inv, NEW c \in Clients, Crash(c)
  PROVE  Inv'
<1> DEFINE t == Dead(client[c], "crashed")
<1>1. /\ ring \in Ring
      /\ client[c] \in ClientState
      /\ newest \in Frame
      /\ signal \in BOOLEAN
      /\ client \in [Clients -> ClientState]
  BY DEF Inv, TypeOK
<1>2. t \in ClientState /\ t.phase = "crashed"
  BY <1>1, ClientUpdates DEF Phases, Dead, NewClient
<1>3. client' = [client EXCEPT ![c] = t] /\ UNCHANGED <<signal, rt, dp, stop, settled>>
  BY DEF Crash
<1> HIDE DEF t
<1>4. SameFrame(t, client[c])
  BY <1>2 DEF SameFrame
<1>5. CASE UNCHANGED <<ring, newest>>
  BY <1>1, <1>2, <1>3, <1>4, <1>5, QuietClientStep
<1>6. CASE /\ ~ ClaimAborts(ring)
           /\ ring' = DieInClaim(ring)
           /\ UNCHANGED newest
  <2>1. /\ ring' \in Ring
        /\ ring'.latest_ready = ring.latest_ready
        /\ ring'.server_locked = ring.server_locked
        /\ ring'.generation = ring.generation
    BY <1>1, <1>6, ClaimFields
  <2>2. ring.client_locked = None
    BY <1>6 DEF ClaimAborts
  <2>3. /\ client' \in [Clients -> ClientState]
        /\ client'[c] = t
        /\ \A d \in Clients \ {c} : client'[d] = client[d]
    BY <1>1, <1>2, <1>3
  <2>4. \A d \in Clients : Writing(d)' => Writing(d) /\ client'[d] = client[d]
    BY <1>2, <2>3 DEF Writing
  <2>5. settled => \A d \in Clients : ~ Writing(d)'
    BY <2>2, <2>4, NoneIsNoBuffer DEF Inv, TypeOK, Settled, ClaimHeld
  <2>6. TypeOK'
    BY <1>3, <1>6, <2>1, <2>3, <2>4 DEF Inv, TypeOK
  <2>7. settled => Settled'
    <3> HAVE settled
    <3>1. OneWriter' /\ ClaimHeld' /\ StoreCurrent'
      BY <2>5 DEF OneWriter, ClaimHeld, StoreCurrent, Writing
    <3>2. FrameCurrent' /\ BlitLocked'
      BY <1>3, <1>6, <2>1 DEF Inv, Settled, FrameCurrent, BlitLocked, Blitting
    <3> QED BY <3>1, <3>2 DEF Settled
  <2>8. HolderKnown'
    BY <1>3 DEF Inv, HolderKnown
  <2> QED BY <1>3, <2>6, <2>7, <2>8 DEF Inv
<1>7. CASE /\ client[c].phase = "store"
           /\ ring' = DieInPublish(ring, client[c].idx)
           /\ newest' = [gen |-> client[c].seen, fate |-> "stored"]
  BY <1>2, <1>3, <1>7, StoreStep
<1> QED BY <1>5, <1>6, <1>7 DEF Crash

\* The types of the RT slot's states.
LEMMA RtTypes ==
  ASSUME TypeOK, HolderKnown
  PROVE  LET Rt == [holder : Clients \cup {NoClient},
                    state : {"free", "warmup", "active", "evicting"}]
         IN  /\ rt \in Rt
             /\ [holder |-> NoClient, state |-> "free"] \in Rt
             /\ \A c \in Clients : [holder |-> c, state |-> "warmup"] \in Rt
             /\ \A st \in {"active", "evicting"} : [rt EXCEPT !.state = st] \in Rt
BY DEF TypeOK

\* Every step of the server's control thread, grants and evictions included.
LEMMA ControlStep ==
  ASSUME Inv,
         \/ \E c \in Clients : Grant(c) \/ Disconnect(c)
         \/ Ready \/ HeartbeatTimeout \/ BeginEviction \/ EndEviction
  PROVE  Inv'
<1> DEFINE Rt == [holder : Clients \cup {NoClient},
                  state : {"free", "warmup", "active", "evicting"}]
<1>1. /\ TypeOK
      /\ HolderKnown
      /\ ring \in Ring
      /\ ring.generation \in Generations
      /\ client \in [Clients -> ClientState]
      /\ newest \in Frame
      /\ signal \in BOOLEAN
      /\ stop \in [running : BOOLEAN, asked : BOOLEAN, abort : BOOLEAN]
  BY DEF Inv, TypeOK, Ring
<1>2. /\ rt \in Rt
      /\ [holder |-> NoClient, state |-> "free"] \in Rt
      /\ \A c \in Clients : [holder |-> c, state |-> "warmup"] \in Rt
      /\ \A st \in {"active", "evicting"} : [rt EXCEPT !.state = st] \in Rt
  BY <1>1, RtTypes, Zenon
<1>3. Evict => ring'.generation \in Generations
  <2>1. Evict => ring' \in Ring
    BY <1>1, EvictFields DEF Evict, CanEvict
  <2> QED BY <2>1 DEF Ring
<1>4. ASSUME NEW c \in Clients, Grant(c)
      PROVE  Inv'
  <2>1. Evict /\ client' = Notify(c, "GRANT") /\ UNCHANGED <<signal, dp>>
    BY <1>4 DEF Grant
  <2>2. rt' \in Rt /\ HolderKnown'
    BY <1>2, <1>4 DEF Grant, HolderKnown
  <2>3. /\ client' \in [Clients -> ClientState]
        /\ \A d \in Clients : SameFrame(client'[d], client[d])
    BY <1>1, <1>3, <2>1, NotifyFacts
  <2> QED BY <2>1, <2>2, <2>3, EvictStep
<1>5. CASE HeartbeatTimeout
  <2>1. /\ Evict
        /\ client' = Notify(rt.holder, "DEACTIVATE")
        /\ rt.holder \in Clients
        /\ UNCHANGED <<signal, dp>>
    BY <1>1, <1>5 DEF HeartbeatTimeout, HolderKnown
  <2>2. rt' \in Rt /\ HolderKnown'
    BY <1>2, <1>5 DEF HeartbeatTimeout, HolderKnown
  <2>3. PICK c \in Clients : c = rt.holder
    BY <2>1
  <2>4. /\ client' \in [Clients -> ClientState]
        /\ \A d \in Clients : SameFrame(client'[d], client[d])
    BY <1>1, <1>3, <2>1, <2>3, NotifyFacts
  <2> QED BY <2>1, <2>2, <2>4, EvictStep
<1>6. CASE BeginEviction
  <2>1. PICK c \in Clients : c = rt.holder
    BY <1>1, <1>6 DEF BeginEviction, HolderKnown
  <2>2. /\ ring' = ring
        /\ client' = Notify(c, "EVICT_PENDING")
        /\ UNCHANGED <<signal, newest, dp, stop, settled>>
    BY <1>6, <2>1 DEF BeginEviction
  <2>3. rt' \in Rt /\ HolderKnown'
    BY <1>1, <1>2, <1>6 DEF BeginEviction, HolderKnown, TypeOK
  <2>4. /\ client' \in [Clients -> ClientState]
        /\ \A d \in Clients : SameFrame(client'[d], client[d])
    BY <1>1, <2>2, NotifyFacts
  <2> QED BY <1>1, <2>2, <2>3, <2>4, QuietStep
<1>7. CASE Ready \/ EndEviction
  <2>1. UNCHANGED <<ring, signal, client, newest, dp, stop, settled>>
    BY <1>7 DEF Ready, EndEviction
  <2>2. rt' \in Rt /\ HolderKnown'
    BY <1>1, <1>2, <1>7 DEF Ready, EndEviction, HolderKnown, TypeOK
  <2>3. /\ client' \in [Clients -> ClientState]
        /\ \A d \in Clients : SameFrame(client'[d], client[d])
    BY <1>1, <2>1 DEF SameFrame
  <2> QED BY <1>1, <2>1, <2>2, <2>3, QuietStep
<1>8. ASSUME NEW c \in Clients, Disconnect(c)
      PROVE  Inv'
  <2> DEFINE t == [NewClient EXCEPT !.phase = "gone"]
  <2>1. t \in ClientState /\ SameFrame(t, client[c])
    BY NewClientType DEF SameFrame
  <2>2. client' = [client EXCEPT ![c] = t] /\ UNCHANGED <<signal, dp>>
    BY <1>8 DEF Disconnect
  <2> HIDE DEF t
  <2>3. /\ client' \in [Clients -> ClientState]
        /\ \A d \in Clients : SameFrame(client'[d], client[d])
    BY <1>1, <2>1, <2>2 DEF SameFrame
  <2>4. rt' \in Rt /\ HolderKnown'
    BY <1>1, <1>2, <1>8 DEF Disconnect, HolderKnown
  <2>5. Evict \/ UNCHANGED <<ring, newest, stop, settled>>
    BY <1>8 DEF Disconnect
  <2>6. CASE Evict
    BY <2>2, <2>3, <2>4, <2>6, EvictStep
  <2>7. CASE UNCHANGED <<ring, newest, stop, settled>>
    BY <1>1, <2>2, <2>3, <2>4, <2>7, QuietStep
  <2> QED BY <2>5, <2>6, <2>7
<1> QED BY <1>4, <1>5, <1>6, <1>7, <1>8

\* What the steps of the data plane outside the ring keep.
LEMMA LoopStep ==
  ASSUME Inv, LoopTop \/ EpollWait \/ Drain \/ Stop \/ Kick
  PROVE  Inv'
<1>1. UNCHANGED <<ring, client, rt, newest, settled>>
  BY DEF LoopTop, EpollWait, Drain, Stop, Kick
<1>2. signal' \in BOOLEAN
  BY DEF Inv, TypeOK, LoopTop, EpollWait, Drain, Stop, Kick
<1>3. stop' \in [running : BOOLEAN, asked : BOOLEAN, abort : BOOLEAN]
  <2>1. stop \in [running : BOOLEAN, asked : BOOLEAN, abort : BOOLEAN]
    BY DEF Inv, TypeOK
  <2>2. CASE LoopTop \/ EpollWait
    BY <2>1, <2>2 DEF LoopTop, EpollWait
  <2>3. CASE Drain
    <3>1. stop' = stop \/ stop' = [stop EXCEPT !.abort = @ /\ "abort" \notin dp.events]
      BY <2>3 DEF Drain
    <3> QED BY <2>1, <3>1
  <2>4. CASE Stop
    BY <2>1, <2>4 DEF Stop
  <2>5. CASE Kick
    BY <2>1, <2>5 DEF Kick
  <2> QED BY <2>2, <2>3, <2>4, <2>5
<1>4. /\ dp' \in [phase : {"top", "wait", "woken", "checkout", "blit", "done"},
                  events : SUBSET {"frame", "abort"}, idx : BufferOrNone,
                  legal : BOOLEAN]
      /\ Blitting' => Blitting /\ dp' = dp
  <2> DEFINE Dp == [phase : {"top", "wait", "woken", "checkout", "blit", "done"},
                    events : SUBSET {"frame", "abort"}, idx : BufferOrNone,
                    legal : BOOLEAN]
  <2>1. dp \in Dp
    BY DEF Inv, TypeOK
  <2>2. CASE UNCHANGED dp
    BY <2>1, <2>2 DEF Blitting
  <2>3. ASSUME NEW ph \in {"top", "wait", "woken", "checkout", "done"},
               NEW ev \in SUBSET {"frame", "abort"},
               dp' = [dp EXCEPT !.phase = ph, !.events = ev]
        PROVE  dp' \in Dp /\ ~ Blitting'
    BY <2>1, <2>3 DEF Blitting
  <2>4. CASE LoopTop
    <3>1. PICK ph \in {"wait", "done"} : dp' = [dp EXCEPT !.phase = ph]
      BY <2>4 DEF LoopTop
    <3>2. dp' = [dp EXCEPT !.phase = ph, !.events = dp.events]
      BY <2>1, <3>1
    <3> QED BY <2>1, <2>3, <3>1, <3>2
  <2>5. CASE EpollWait
    <3> DEFINE ev == (IF signal THEN {"frame"} ELSE {})
                       \cup (IF stop.abort THEN {"abort"} ELSE {})
    <3>1. ev \in SUBSET {"frame", "abort"}
      OBVIOUS
    <3>2. dp' = [dp EXCEPT !.phase = "woken", !.events = ev]
      BY <2>5 DEF EpollWait
    <3> HIDE DEF ev
    <3> QED BY <2>3, <3>1, <3>2
  <2>6. CASE Drain
    <3>1. PICK ph \in {"done", "checkout", "top"} :
            dp' = [dp EXCEPT !.phase = ph, !.events = {}]
      BY <2>6 DEF Drain
    <3>2. {} \in SUBSET {"frame", "abort"}
      OBVIOUS
    <3>3. ph \in {"top", "wait", "woken", "checkout", "done"}
      OBVIOUS
    <3> QED BY <2>3, <3>1, <3>2, <3>3
  <2> QED BY <2>2, <2>4, <2>5, <2>6 DEF Stop, Kick
<1>5. TypeOK' /\ HolderKnown'
  BY <1>1, <1>2, <1>3, <1>4 DEF Inv, TypeOK, HolderKnown, Writing
<1>6. settled => Settled'
  BY <1>1, <1>4
     DEF Inv, Settled, OneWriter, ClaimHeld, StoreCurrent, FrameCurrent,
         BlitLocked, Writing
<1> QED BY <1>1, <1>5, <1>6 DEF Inv

\* The data plane takes the published buffer: nobody is writing that one, and its
\* frame is of the current generation.
LEMMA CheckoutStep ==
  ASSUME Inv, Checkout
  PROVE  Inv'
<1>1. /\ ring \in Ring
      /\ newest \in Frame
      /\ dp \in [phase : {"top", "wait", "woken", "checkout", "blit", "done"},
                 events : SUBSET {"frame", "abort"}, idx : BufferOrNone,
                 legal : BOOLEAN]
      /\ ring.latest_ready \in BufferOrNone
      /\ dp.phase = "checkout"
      /\ UNCHANGED <<signal, client, rt, stop, settled>>
  BY DEF Inv, TypeOK, Ring, Checkout
<1>2. /\ ring' \in Ring
      /\ ring'.latest_ready = ring.latest_ready
      /\ ring'.client_locked = ring.client_locked
      /\ ring'.generation = ring.generation
      /\ ring'.server_locked = IF ring.latest_ready = None
                              THEN ring.server_locked
                              ELSE ring.latest_ready
  BY <1>1, CheckoutFields DEF Checkout
<1>3. newest' \in Frame /\ newest'.gen = newest.gen
  BY <1>1 DEF Checkout, Frame
<1>4. /\ dp' \in [phase : {"top", "wait", "woken", "checkout", "blit", "done"},
                  events : SUBSET {"frame", "abort"}, idx : BufferOrNone,
                  legal : BOOLEAN]
      /\ Blitting' =>
           /\ ring.latest_ready # None
           /\ dp'.idx = ring.latest_ready
           /\ newest.gen = ring.generation => dp'.legal
  <2>1. CASE ring.latest_ready = None
    BY <1>1, <2>1 DEF Checkout, Blitting
  <2>2. CASE ring.latest_ready # None
    <3> DEFINE ok == newest.gen = ring.generation
    <3>1. dp' = [dp EXCEPT !.phase = "blit", !.idx = ring.latest_ready, !.legal = ok]
      BY <2>2 DEF Checkout
    <3>2. ok \in BOOLEAN
      OBVIOUS
    <3> HIDE DEF ok
    <3>3. /\ dp' \in [phase : {"top", "wait", "woken", "checkout", "blit", "done"},
                      events : SUBSET {"frame", "abort"}, idx : BufferOrNone,
                      legal : BOOLEAN]
          /\ dp'.idx = ring.latest_ready
      BY <1>1, <3>1, <3>2
    <3>4. dp'.legal = ok
      BY <1>1, <3>1
    <3> QED BY <2>2, <3>3, <3>4 DEF ok
  <2> QED BY <2>1, <2>2
<1>5. TypeOK' /\ HolderKnown'
  BY <1>1, <1>2, <1>3, <1>4 DEF Inv, TypeOK, HolderKnown, Writing
<1>6. settled => Settled'
  <2> HAVE settled
  <2>1. OneWriter' /\ StoreCurrent'
    BY <1>1, <1>2 DEF Inv, Settled, OneWriter, StoreCurrent, Writing
  <2>2. ClaimHeld'
    BY <1>1, <1>2 DEF Inv, Settled, ClaimHeld, Writing
  <2>3. FrameCurrent'
    BY <1>2, <1>3 DEF Inv, Settled, FrameCurrent
  <2>4. BlitLocked'
    BY <1>2, <1>4 DEF Inv, Settled, FrameCurrent, BlitLocked
  <2> QED BY <2>1, <2>2, <2>3, <2>4 DEF Settled
<1> QED BY <1>1, <1>5, <1>6 DEF Inv

\* The end of the blit.
LEMMA ReleaseStep ==
  ASSUME Inv, Release
  PROVE  Inv'
<1>1. /\ ring \in Ring
      /\ UNCHANGED <<signal, client, rt, newest, stop, settled>>
      /\ dp' = [dp EXCEPT !.phase = "top", !.idx = None, !.legal = TRUE]
  BY DEF Inv, TypeOK, Release
<1>2. /\ ring' \in Ring
      /\ ring'.latest_ready = ring.latest_ready
      /\ ring'.client_locked = ring.client_locked
      /\ ring'.generation = ring.generation
      /\ ring'.server_locked = None
  BY <1>1, ReleaseFields DEF Release
<1>3. /\ dp' \in [phase : {"top", "wait", "woken", "checkout", "blit", "done"},
                  events : SUBSET {"frame", "abort"}, idx : BufferOrNone,
                  legal : BOOLEAN]
      /\ ~ Blitting'
  BY <1>1 DEF Inv, TypeOK, BufferOrNone, Blitting
<1>4. TypeOK' /\ HolderKnown'
  BY <1>1, <1>2, <1>3 DEF Inv, TypeOK, HolderKnown, Writing
<1>5. settled => Settled'
  <2> HAVE settled
  <2>1. OneWriter' /\ StoreCurrent'
    BY <1>1, <1>2 DEF Inv, Settled, OneWriter, StoreCurrent, Writing
  <2>2. ClaimHeld'
    BY <1>1, <1>2, NoneIsNoBuffer DEF Inv, TypeOK, Settled, ClaimHeld, Writing
  <2>3. FrameCurrent' /\ BlitLocked'
    BY <1>1, <1>2, <1>3 DEF Inv, Settled, FrameCurrent, BlitLocked
  <2> QED BY <2>1, <2>2, <2>3 DEF Settled
<1> QED BY <1>1, <1>4, <1>5 DEF Inv

-----------------------------------------------------------------------------

\* The invariant holds when the ring has just been created.
LEMMA InitInv == Init => Inv
<1> SUFFICES ASSUME Init PROVE Inv
  OBVIOUS
<1>1. /\ ring \in Ring /\ ring.latest_ready = None
      /\ newest \in Frame
  BY MaxGenerationAssumption
     DEF Init, ring_create, Ring, BufferOrNone, Generations, NoFrame, Frame
<1>2. /\ client \in [Clients -> ClientState]
      /\ \A c \in Clients : client[c].phase = "gone"
  BY NewClientType DEF Init
<1>3. \A c \in Clients : ~ Writing(c)
  BY <1>2 DEF Writing
<1>4. TypeOK
  BY <1>1, <1>2, <1>3 DEF Init, TypeOK, BufferOrNone
<1>5. HolderKnown
  BY DEF Init, HolderKnown
<1>6. Settled
  BY <1>1, <1>2, <1>3
     DEF Init, Settled, OneWriter, ClaimHeld, StoreCurrent, FrameCurrent,
         BlitLocked, Blitting
<1> QED BY <1>4, <1>5, <1>6 DEF Inv

\* Every step of every process keeps the invariant.
LEMMA NextInv == Inv /\ [Next]_vars => Inv'
<1> SUFFICES ASSUME Inv, [Next]_vars PROVE Inv'
  OBVIOUS
<1>1. CASE UNCHANGED vars
  BY <1>1
     DEF vars, Inv, TypeOK, HolderKnown, Settled, OneWriter, ClaimHeld,
         StoreCurrent, FrameCurrent, BlitLocked, Blitting, Writing
<1>2. CASE DataPlane \/ Stop \/ Kick
  BY <1>2, LoopStep, CheckoutStep, ReleaseStep DEF DataPlane
<1>3. CASE Ready \/ HeartbeatTimeout \/ BeginEviction \/ EndEviction
  BY <1>3, ControlStep
<1>4. ASSUME NEW c \in Clients,
             \/ IsActive(c) \/ WriteSlot(c) \/ PublishCheck(c) \/ GiveUp(c)
             \/ PublishSlot(c) \/ PostFrame(c) \/ RecvNotice(c) \/ Connect(c)
             \/ Crash(c) \/ Grant(c) \/ Disconnect(c)
      PROVE  Inv'
  BY <1>4, RenderStep, ClaimStep, CheckStep, PublishStep, CrashStep, ControlStep
<1> QED BY <1>1, <1>2, <1>3, <1>4 DEF Next

\* The inductive invariant holds in every behaviour of the data path.
THEOREM Invariance == Spec => []Inv
<1>1. Init => Inv
  BY InitInv
<1>2. Inv /\ [Next]_vars => Inv'
  BY NextInv
<1> QED BY <1>1, <1>2, PTL DEF Spec

\* The ring, the clients and the data plane keep their types with any number of
\* buffers above two: the scan of write_slot() always finds a free one.
THEOREM TypeCorrect == Spec => []TypeOK
<1>1. Inv => TypeOK
  BY DEF Inv
<1> QED BY <1>1, Invariance, PTL

\* Claims that come late, that are never released and that a death cuts short do
\* not make the ring hand out the buffer that the data plane is blitting, as long
\* as the last eviction found nobody in the middle of a frame.
THEOREM NoTear == Spec => []NoTearOnceSettled
<1>1. Inv => NoTearOnceSettled
  BY DEF Inv, Settled, ClaimHeld, BlitLocked, NoTearOnceSettled, Torn
<1> QED BY <1>1, Invariance, PTL

\* Under the same condition the data plane shows no frame that was published under
\* an earlier grant.
THEOREM NoStaleFrame == Spec => []NoStaleFrameOnceSettled
<1>1. Inv => NoStaleFrameOnceSettled
  BY DEF Inv, Settled, BlitLocked, NoStaleFrameOnceSettled
<1> QED BY <1>1, Invariance, PTL
=============================================================================
