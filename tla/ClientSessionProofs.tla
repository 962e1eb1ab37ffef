------------------------ MODULE ClientSessionProofs ------------------------
(***************************************************************************)
(* Proofs about clients and server together, for any number of processes   *)
(* and slots: the two ends of every connection agree, a client that        *)
(* believes it is active is right or about to be told, and at most one     *)
(* process passes the tests of wispc_publish().                            *)
(*                                                                         *)
(* Effect says what any handler means for the clients (whom it grants the  *)
(* slot, whose warmup it ends, whom it tells to stop, whom it removes) and *)
(* is proved for one handler after the other.  The invariant has a part    *)
(* for each process and its connection (Alone), one for these and the      *)
(* session the server keeps (Together), and one that sessions and          *)
(* connections correspond (Matched).  The steps of a process keep it for   *)
(* that process (Moves); for the server, Effect is all that is needed.     *)
(***************************************************************************)
EXTENDS ClientSession, ControlPlaneProofs

-----------------------------------------------------------------------------
(* What a handler puts on the stream of one client *)

DownMessage == [kind : MessageKinds, arg : Nat]

\* The step of the loop that copies the n-th message of out to the stream of i.
Copied(out, i, s, n) ==
  IF out[n].to # i THEN s
  ELSE Append(s, [kind |-> out[n].kind, arg |-> out[n].arg])

\* f is that loop, run over the first l messages.
Copies(f, out, i, l) ==
  f = [n \in 0 .. l |->
         IF n = 0 THEN <<>>
         ELSE IF out[n].to # i THEN f[n - 1]
         ELSE Append(f[n - 1], [kind |-> out[n].kind, arg |-> out[n].arg])]

\* The loop is defined for every number of messages.
LEMMA CopiesExist ==
  ASSUME NEW out, NEW i, NEW l \in Nat
  PROVE  \E f : Copies(f, out, i, l)
<1> DEFINE T == {m \in Nat : \E f : Copies(f, out, i, m)}
<1>1. 0 \in T
  <2> DEFINE f == [n \in 0 .. 0 |-> <<>>]
  <2>1. Copies(f, out, i, 0)
    BY DEF Copies
  <2> QED BY <2>1
<1>2. \A m \in T : m + 1 \in T
  <2> SUFFICES ASSUME NEW m \in Nat, NEW f, Copies(f, out, i, m)
               PROVE  \E g : Copies(g, out, i, m + 1)
    OBVIOUS
  <2> DEFINE g == [n \in 0 .. (m + 1) |->
                     IF n = m + 1 THEN Copied(out, i, f[m], m + 1) ELSE f[n]]
             h == [n \in 0 .. (m + 1) |->
                     IF n = 0 THEN <<>>
                     ELSE IF out[n].to # i THEN g[n - 1]
                     ELSE Append(g[n - 1], [kind |-> out[n].kind, arg |-> out[n].arg])]
  <2>1. ASSUME NEW n \in 0 .. (m + 1) PROVE g[n] = h[n]
    <3>1. CASE n = m + 1
      BY <3>1 DEF Copied
    <3>2. CASE n # m + 1
      <4>1. n \in 0 .. m /\ g[n] = f[n]
        BY <3>2
      <4>2. n # 0 => n - 1 \in 0 .. m /\ g[n - 1] = f[n - 1]
        BY <3>2
      <4> HIDE DEF g
      <4> QED BY <4>1, <4>2 DEF Copies
    <3> QED BY <3>1, <3>2
  <2>2. g = h
    BY <2>1
  <2>3. Copies(g, out, i, m + 1)
    BY <2>2 DEF Copies
  <2> QED BY <2>3
<1> HIDE DEF T
<1>3. T = Nat
  <2>1. T \in SUBSET Nat
    BY DEF T
  <2> QED BY <1>1, <1>2, <2>1, NatBySuccessor
<1> QED BY <1>3 DEF T

\* The messages of out that grant the slot.
Grants(c) == {n \in DOMAIN c.out : c.out[n].kind = "ACTIVATE_GRANT"}

\* The stream s holds exactly the first l messages of out that are for i, and a
\* grant once if out has one grant.
Carries(s, c, i, l) ==
  /\ s \in Seq(DownMessage)
  /\ \A k \in DOMAIN s : \E n \in 1 .. l :
       /\ c.out[n].to = i
       /\ s[k].kind = c.out[n].kind
       /\ s[k].arg = c.out[n].arg
  /\ \A n \in 1 .. l : c.out[n].to = i =>
       \E k \in DOMAIN s : s[k].kind = c.out[n].kind
  /\ (\A m, n \in Grants(c) : m = n) =>
       \A j, k \in DOMAIN s :
         s[j].kind = "ACTIVATE_GRANT" /\ s[k].kind = "ACTIVATE_GRANT" => j = k

\* One more message keeps that.
LEMMA CarriesNext ==
  ASSUME NEW c \in ControlPlanes, NEW i, NEW s, NEW l \in Nat,
         l + 1 <= Len(c.out), Carries(s, c, i, l)
  PROVE  Carries(Copied(c.out, i, s, l + 1), c, i, l + 1)
<1> DEFINE x == c.out[l + 1]
           y == [kind |-> x.kind, arg |-> x.arg]
           t == Append(s, y)
<1>1. /\ c.out \in Seq(Message)
      /\ l + 1 \in DOMAIN c.out
  BY DEF ControlPlanes
<1>2. x \in Message
  BY <1>1
<1>3. y \in DownMessage /\ y.kind = x.kind /\ y.arg = x.arg
  <2> HIDE DEF x
  <2> QED BY <1>2 DEF Message, DownMessage
<1>4. CASE x.to # i
  <2>1. Copied(c.out, i, s, l + 1) = s
    BY <1>4 DEF Copied
  <2>2. \A n \in 1 .. (l + 1) : c.out[n].to = i => n \in 1 .. l
    BY <1>4
  <2>3. 1 .. l \subseteq 1 .. (l + 1)
    OBVIOUS
  <2> HIDE DEF x, y, t
  <2>4. Carries(s, c, i, l + 1)
    <3> DEFINE From(k, n) == /\ c.out[n].to = i
                             /\ s[k].kind = c.out[n].kind
                             /\ s[k].arg = c.out[n].arg
    <3>1. \A k \in DOMAIN s : \E n \in 1 .. l : From(k, n)
      BY DEF Carries
    <3> HIDE DEF From
    <3>2. \A k \in DOMAIN s : \E n \in 1 .. (l + 1) : From(k, n)
      BY <2>3, <3>1
    <3>3. \A n \in 1 .. (l + 1) : c.out[n].to = i =>
            \E k \in DOMAIN s : s[k].kind = c.out[n].kind
      BY <2>2 DEF Carries
    <3> QED BY <3>2, <3>3, Zenon DEF Carries, From
  <2> QED BY <2>1, <2>4
<1>5. CASE x.to = i
  <2>1. Copied(c.out, i, s, l + 1) = t
    BY <1>5 DEF Copied
  <2>2. s \in Seq(DownMessage)
    BY DEF Carries
  <2> HIDE DEF y
  <2>3. /\ t \in Seq(DownMessage)
        /\ DOMAIN t = 1 .. (Len(s) + 1)
        /\ DOMAIN s = 1 .. Len(s)
        /\ t[Len(s) + 1] = y
        /\ \A k \in DOMAIN s : t[k] = s[k]
    BY <1>3, <2>2
  <2>4. \A k \in DOMAIN t : k = Len(s) + 1 \/ k \in DOMAIN s
    BY <2>2, <2>3
  <2> HIDE DEF t
  <2>5. \A k \in DOMAIN t : \E n \in 1 .. (l + 1) :
          c.out[n].to = i /\ t[k].kind = c.out[n].kind /\ t[k].arg = c.out[n].arg
    <3> SUFFICES ASSUME NEW k \in DOMAIN t
                 PROVE  \E n \in 1 .. (l + 1) :
                          /\ c.out[n].to = i
                          /\ t[k].kind = c.out[n].kind
                          /\ t[k].arg = c.out[n].arg
      OBVIOUS
    <3>1. CASE k = Len(s) + 1
      <4>1. l + 1 \in 1 .. (l + 1)
        OBVIOUS
      <4> QED BY <1>3, <1>5, <2>3, <3>1, <4>1
    <3>2. CASE k \in DOMAIN s
      <4>1. PICK n \in 1 .. l :
              c.out[n].to = i /\ s[k].kind = c.out[n].kind /\ s[k].arg = c.out[n].arg
        BY <3>2 DEF Carries
      <4>2. n \in 1 .. (l + 1)
        OBVIOUS
      <4> QED BY <2>3, <3>2, <4>1, <4>2
    <3> QED BY <2>4, <3>1, <3>2
  <2>6. \A n \in 1 .. (l + 1) : c.out[n].to = i =>
          \E k \in DOMAIN t : t[k].kind = c.out[n].kind
    <3> SUFFICES ASSUME NEW n \in 1 .. (l + 1), c.out[n].to = i
                 PROVE  \E k \in DOMAIN t : t[k].kind = c.out[n].kind
      OBVIOUS
    <3>1. CASE n = l + 1
      <4>1. Len(s) + 1 \in DOMAIN t
        BY <2>2, <2>3
      <4> QED BY <1>3, <2>3, <3>1, <4>1
    <3>2. CASE n \in 1 .. l
      <4>1. PICK k \in DOMAIN s : s[k].kind = c.out[n].kind
        BY <3>2 DEF Carries
      <4>2. k \in DOMAIN t
        BY <2>2, <2>3
      <4> QED BY <2>3, <4>1, <4>2
    <3> QED BY <3>1, <3>2
  <2>7. ASSUME \A m, n \in Grants(c) : m = n,
               NEW j \in DOMAIN t, NEW k \in DOMAIN t,
               t[j].kind = "ACTIVATE_GRANT", t[k].kind = "ACTIVATE_GRANT"
        PROVE  j = k
    <3>1. ASSUME NEW h \in DOMAIN s, s[h].kind = "ACTIVATE_GRANT",
                 x.kind = "ACTIVATE_GRANT"
          PROVE  FALSE
      <4>1. PICK n \in 1 .. l : s[h].kind = c.out[n].kind
        BY <3>1 DEF Carries
      <4>2. n \in DOMAIN c.out /\ n # l + 1
        BY <1>1
      <4>3. n \in Grants(c) /\ l + 1 \in Grants(c)
        BY <1>1, <3>1, <4>1, <4>2 DEF Grants
      <4> QED BY <2>7, <4>2, <4>3
    <3>2. CASE j \in DOMAIN s /\ k \in DOMAIN s
      BY <2>3, <2>7, <3>2 DEF Carries
    <3> QED BY <1>3, <2>3, <2>4, <2>7, <3>1, <3>2
  <2> QED BY <2>1, <2>3, <2>5, <2>6, <2>7, ZenonT(60) DEF Carries
<1> QED BY <1>4, <1>5

\* SentTo() is the stream of all messages of out that are for i.
LEMMA SentToCarries ==
  ASSUME NEW c \in ControlPlanes, NEW i
  PROVE  Carries(SentTo(c, i), c, i, Len(c.out))
<1> DEFINE f == CHOOSE g : Copies(g, c.out, i, Len(c.out))
           T == {m \in Nat : m <= Len(c.out) => Carries(f[m], c, i, m)}
<1>1. Len(c.out) \in Nat
  BY DEF ControlPlanes
<1>2. Copies(f, c.out, i, Len(c.out))
  BY <1>1, CopiesExist
<1>3. SentTo(c, i) = f[Len(c.out)]
  BY Zenon DEF SentTo, Copies
<1> HIDE DEF f
<1>4. /\ f[0] = <<>>
      /\ \A m \in Nat : m + 1 <= Len(c.out) =>
           f[m + 1] = Copied(c.out, i, f[m], m + 1)
  <2> DEFINE l == Len(c.out)
             h == [n \in 0 .. l |->
                     IF n = 0 THEN <<>>
                     ELSE IF c.out[n].to # i THEN f[n - 1]
                     ELSE Append(f[n - 1], [kind |-> c.out[n].kind, arg |-> c.out[n].arg])]
  <2>1. f = h
    BY <1>2 DEF Copies
  <2>2. l \in Nat
    BY <1>1
  <2> HIDE DEF l
  <2>3. f[0] = <<>>
    <3>1. h[0] = <<>>
      BY <2>2
    <3> QED BY <2>1, <3>1
  <2>4. ASSUME NEW m \in Nat, m + 1 <= l
        PROVE  f[m + 1] = Copied(c.out, i, f[m], m + 1)
    <3>1. m + 1 \in 0 .. l /\ m + 1 # 0 /\ (m + 1) - 1 = m
      BY <2>2, <2>4
    <3>2. h[m + 1] = Copied(c.out, i, f[m], m + 1)
      BY <3>1 DEF Copied
    <3> QED BY <2>1, <3>2
  <2> QED BY <2>3, <2>4 DEF l
<1>5. 0 \in T
  <2>1. Carries(<<>>, c, i, 0)
    BY DEF Carries
  <2> QED BY <1>4, <2>1
<1>6. \A m \in T : m + 1 \in T
  <2> SUFFICES ASSUME NEW m \in Nat, m + 1 <= Len(c.out),
                      m <= Len(c.out) => Carries(f[m], c, i, m)
               PROVE  Carries(f[m + 1], c, i, m + 1)
    OBVIOUS
  <2>1. Carries(f[m], c, i, m)
    BY <1>1
  <2>2. Carries(Copied(c.out, i, f[m], m + 1), c, i, m + 1)
    BY <2>1, CarriesNext
  <2> QED BY <1>4, <2>2
<1>7. T = Nat
  <2>1. T \in SUBSET Nat
    OBVIOUS
  <2> HIDE DEF T
  <2> QED BY <1>5, <1>6, <2>1, NatBySuccessor
<1> QED BY <1>1, <1>3, <1>7

-----------------------------------------------------------------------------
(* What a handler means for every client.  c is the control plane before it,
   d at some point of it or after it, i the slot whose message is handled (or
   None) and kind that message. *)

\* At most one session is granted the slot, with the generation the ring has now
\* and did not have before; a grant starts a warmup that was not under way.
GrantsTold(c, d) ==
  /\ \A n \in Grants(d) :
       /\ d.out[n].to \in Slots
       /\ d.out[n].arg = d.generation
       /\ d.slots[d.out[n].to].state = "GRANTED_WARMUP"
       /\ c.slots[d.out[n].to].state # "GRANTED_WARMUP"
  /\ \A m, n \in Grants(d) : m = n
  /\ Grants(d) # {} => d.generation # c.generation

\* Only READY_FOR_RT of the session itself ends its warmup.
WarmupKept(c, d, i, kind) ==
  \A j \in Slots : c.slots[j].state = "GRANTED_WARMUP" /\ d.slots[j].in_use =>
    d.slots[j].state = IF j = i /\ kind = "READY_FOR_RT"
                       THEN "ACTIVE_RT" ELSE "GRANTED_WARMUP"

Told(d, j, kinds) == \E n \in DOMAIN d.out : d.out[n].to = j /\ d.out[n].kind \in kinds

StopKinds == {"DEACTIVATE", "EVICT_PENDING"}

\* An active session stays so, or its client is told.
ActiveTold(c, d) ==
  \A j \in Slots : c.slots[j].state = "ACTIVE_RT" /\ d.slots[j].in_use =>
    d.slots[j].state = "ACTIVE_RT" \/ Told(d, j, StopKinds)

\* A session whose CONNECT was not read yet is left alone.
NewcomersKept(c, d, i) ==
  \A j \in Slots \ {i} : c.slots[j].state = "CONNECTED" =>
    /\ d.slots[j] = c.slots[j]
    /\ \A n \in DOMAIN d.out : d.out[n].to # j

\* Sessions are removed only because of their own CONNECT or the end of their
\* connection, and none appears.
RemovedOnly(c, d, i, kind) ==
  \A j \in Slots :
    /\ d.slots[j].in_use => c.slots[j].in_use
    /\ c.slots[j].in_use /\ ~ d.slots[j].in_use =>
         j = i /\ kind \in {"CONNECT", "DISCONNECT"}

Effect(c, d, i, kind) ==
  /\ GrantsTold(c, d)
  /\ WarmupKept(c, d, i, kind)
  /\ ActiveTold(c, d)
  /\ NewcomersKept(c, d, i)
  /\ RemovedOnly(c, d, i, kind)

\* The counter was bumped at most once so far, and nobody was granted the slot.
NoGrantYet(c, d) ==
  /\ Grants(d) = {}
  /\ d.generation \in {c.generation, (c.generation + 1) % GenModulus}

\* What the handler does not change does not matter.
LEMMA EffectSame ==
  ASSUME NEW c, NEW d, NEW e, NEW i, NEW kind, Effect(c, d, i, kind),
         e.slots = d.slots, e.out = d.out, e.generation = d.generation
  PROVE  Effect(c, e, i, kind) /\ Grants(e) = Grants(d)
<1>1. Grants(e) = Grants(d)
  BY DEF Grants
<1>2. GrantsTold(c, e)
  BY <1>1 DEF Effect, GrantsTold
<1>3. WarmupKept(c, e, i, kind) /\ RemovedOnly(c, e, i, kind) /\ NewcomersKept(c, e, i)
  BY DEF Effect, WarmupKept, RemovedOnly, NewcomersKept
<1>4. ActiveTold(c, e)
  BY DEF Effect, ActiveTold, Told
<1> QED BY <1>1, <1>2, <1>3, <1>4 DEF Effect

\* The messages after one more was sent.
LEMMA SendOut ==
  ASSUME NEW d \in ControlPlanes, NEW to, NEW kind, NEW arg
  PROVE  /\ Len(d.out) \in Nat
         /\ DOMAIN d.out = 1 .. Len(d.out)
         /\ DOMAIN Send(d, to, kind, arg).out = 1 .. (Len(d.out) + 1)
         /\ \A n \in DOMAIN d.out : Send(d, to, kind, arg).out[n] = d.out[n]
         /\ Send(d, to, kind, arg).out[Len(d.out) + 1].to = to
         /\ Send(d, to, kind, arg).out[Len(d.out) + 1].kind = kind
         /\ Send(d, to, kind, arg).out[Len(d.out) + 1].arg = arg
<1> DEFINE e == Send(d, to, kind, arg)
           m == [to |-> to, kind |-> kind, arg |-> arg]
<1>1. d.out \in Seq(Message)
  BY DEF ControlPlanes
<1>2. e.out = Append(d.out, m)
  BY DEF Send, ControlPlanes
<1>3. m.to = to /\ m.kind = kind /\ m.arg = arg
  OBVIOUS
<1> HIDE DEF e, m
<1>4. /\ Len(d.out) \in Nat
      /\ DOMAIN d.out = 1 .. Len(d.out)
      /\ DOMAIN e.out = 1 .. (Len(d.out) + 1)
      /\ \A n \in DOMAIN d.out : e.out[n] = d.out[n]
      /\ e.out[Len(d.out) + 1] = m
  BY <1>1, <1>2
<1> QED BY <1>3, <1>4 DEF e

\* A message that is no grant, to a session whose CONNECT was read or to an admin.
LEMMA EffectSend ==
  ASSUME NEW c, NEW d \in ControlPlanes, NEW i, NEW kind, Effect(c, d, i, kind),
         NEW to \in Slots \cup {Admin}, NEW what \in MessageKinds, NEW arg \in Nat,
         what # "ACTIVATE_GRANT",
         \/ to \in Slots /\ (to = i \/ c.slots[to].state # "CONNECTED")
         \/ to = Admin
  PROVE  /\ Effect(c, Send(d, to, what, arg), i, kind)
         /\ Grants(Send(d, to, what, arg)) = Grants(d)
         /\ Told(Send(d, to, what, arg), to, {what})
<1> DEFINE e == Send(d, to, what, arg)
           l == Len(d.out)
<1>1. e.slots = d.slots /\ e.generation = d.generation
  BY SendFields
<1>2. /\ l \in Nat
      /\ DOMAIN d.out = 1 .. l
      /\ DOMAIN e.out = 1 .. (l + 1)
      /\ \A n \in DOMAIN d.out : e.out[n] = d.out[n]
      /\ e.out[l + 1].to = to
      /\ e.out[l + 1].kind = what
  BY SendOut
<1>3. \A n \in DOMAIN e.out : n \in DOMAIN d.out \/ n = l + 1
  BY <1>2
<1>4. DOMAIN d.out \subseteq DOMAIN e.out /\ l + 1 \in DOMAIN e.out
  BY <1>2
<1> HIDE DEF e, l
<1>5. Grants(e) = Grants(d)
  BY <1>2, <1>3, <1>4 DEF Grants
<1>6. \A n \in Grants(d) : e.out[n] = d.out[n]
  BY <1>2 DEF Grants
<1>7. GrantsTold(c, e)
  BY <1>1, <1>5, <1>6 DEF Effect, GrantsTold
<1>8. WarmupKept(c, e, i, kind) /\ RemovedOnly(c, e, i, kind)
  BY <1>1 DEF Effect, WarmupKept, RemovedOnly
<1>9. \A j, K : Told(d, j, K) => Told(e, j, K)
  BY <1>2, <1>4 DEF Told
<1>10. ActiveTold(c, e)
  BY <1>1, <1>9 DEF Effect, ActiveTold
<1>11. NewcomersKept(c, e, i)
  <2>1. \A j \in Slots \ {i} : c.slots[j].state = "CONNECTED" => to # j
    BY MaxClientsAssumption DEF Slots, Admin
  <2> QED BY <1>1, <1>2, <1>3, <2>1 DEF Effect, NewcomersKept
<1>12. Told(e, to, {what})
  BY <1>2, <1>4 DEF Told
<1> QED BY <1>5, <1>7, <1>8, <1>10, <1>11, <1>12 DEF Effect, e

\* The helpers that change the table and the indices send nothing.
LEMMA OutKept ==
  ASSUME NEW c \in ControlPlanes, NEW i \in Slots
  PROVE  /\ evict_client(c).out = c.out
         /\ \A s : WithSession(c, i, s).out = c.out
         /\ \A s : SetState(c, i, s).out = c.out
         /\ \A s : LeaveActive(c, i, s).out = c.out
         /\ StopEvicting(c, i).out = c.out
         /\ \A t : [c EXCEPT !.pending_grant_target = t].out = c.out
         /\ \A t : [c EXCEPT !.evicting_slot = t].out = c.out
<1>1. /\ evict_client(c).out = c.out
      /\ StopEvicting(c, i).out = c.out
  BY DEF ControlPlanes, evict_client, StopEvicting
<1>2. \A s : WithSession(c, i, s).out = c.out
  BY DEF ControlPlanes, WithSession
<1>3. \A s : SetState(c, i, s).out = c.out
  BY <1>2 DEF SetState
<1>4. ASSUME NEW s PROVE LeaveActive(c, i, s).out = c.out
  <2> DEFINE x == SetState(c, i, s)
  <2>1. x.out = c.out /\ "out" \in DOMAIN x
    <3>1. "out" \in DOMAIN x
      BY DEF SetState, WithSession, ControlPlanes
    <3> QED BY <1>3, <3>1
  <2> HIDE DEF x
  <2>2. [x EXCEPT !.active_slot = IF @ = i THEN None ELSE @].out = x.out
    BY <2>1
  <2> QED BY <2>1, <2>2 DEF LeaveActive, x
<1>5. /\ \A t : [c EXCEPT !.pending_grant_target = t].out = c.out
      /\ \A t : [c EXCEPT !.evicting_slot = t].out = c.out
  BY DEF ControlPlanes
<1> QED BY <1>1, <1>2, <1>3, <1>4, <1>5

\* do_grant() sends one message: the grant, with the new generation.
LEMMA DoGrantOut ==
  ASSUME NEW d \in ControlPlanes, NEW t \in Slots,
         d.slots[t].negotiated_mode \in SupportedModes
  PROVE  /\ Len(d.out) \in Nat
         /\ DOMAIN d.out = 1 .. Len(d.out)
         /\ DOMAIN do_grant(d, t).out = 1 .. (Len(d.out) + 1)
         /\ \A n \in DOMAIN d.out : do_grant(d, t).out[n] = d.out[n]
         /\ do_grant(d, t).out[Len(d.out) + 1].to = t
         /\ do_grant(d, t).out[Len(d.out) + 1].kind = "ACTIVATE_GRANT"
         /\ do_grant(d, t).out[Len(d.out) + 1].arg = do_grant(d, t).generation
<1> DEFINE b == evict_client(d)
           x == b.slots[t]
           s == [x EXCEPT !.state = "GRANTED_WARMUP",
                          !.granted_generation = b.generation]
           e == WithSession(b, t, s)
           f == Send(e, t, "ACTIVATE_GRANT", b.generation)
           r == [f EXCEPT !.dp_mode = f.slots[t].negotiated_mode]
<1>1. do_grant(d, t) = r
  BY DEF do_grant, table_grant
<1>2. /\ b \in ControlPlanes
      /\ b.out = d.out
      /\ b.generation = (d.generation + 1) % GenModulus
  BY EvictClientFields, OutKept
<1> HIDE DEF b
<1>3. s \in Session
  <2>1. x \in Session /\ b.generation \in Generations
    BY <1>2 DEF ControlPlanes
  <2> HIDE DEF x
  <2> QED BY <2>1 DEF Session, SessionStates
<1> HIDE DEF s
<1>4. e \in ControlPlanes /\ e.out = b.out
  <2>1. e \in ControlPlanes
    BY <1>2, <1>3, WithSessionFields
  <2>2. e.out = b.out
    BY <1>2, OutKept
  <2> QED BY <2>1, <2>2
<1> HIDE DEF e
<1>5. r.out = f.out
  BY <1>4 DEF Send, ControlPlanes
<1>6. r.generation = b.generation
  <2>1. do_grant(d, t).generation = (d.generation + 1) % GenModulus
    BY DoGrantFields
  <2> HIDE DEF r
  <2> QED BY <1>1, <1>2, <2>1
<1> HIDE DEF r
<1>7. /\ Len(e.out) \in Nat
      /\ DOMAIN e.out = 1 .. Len(e.out)
      /\ DOMAIN f.out = 1 .. (Len(e.out) + 1)
      /\ \A n \in DOMAIN e.out : f.out[n] = e.out[n]
      /\ f.out[Len(e.out) + 1].to = t
      /\ f.out[Len(e.out) + 1].kind = "ACTIVATE_GRANT"
      /\ f.out[Len(e.out) + 1].arg = b.generation
  BY <1>4, SendOut
<1> HIDE DEF f
<1> QED BY <1>1, <1>2, <1>4, <1>5, <1>6, <1>7

\* A bump after at most one bump is no wrap back to the start.
LEMMA BumpDiffers ==
  ASSUME NEW g \in Generations, NEW h \in {g, (g + 1) % GenModulus}
  PROVE  (h + 1) % GenModulus # g
<1>1. g \in Nat /\ g < GenModulus /\ GenModulus \in Nat /\ GenModulus > 2
  BY GenAssumption DEF Generations
<1>2. \A x \in Nat : x < GenModulus =>
        (x + 1) % GenModulus = IF x + 1 = GenModulus THEN 0 ELSE x + 1
  <2> SUFFICES ASSUME NEW x \in Nat, x < GenModulus
               PROVE  (x + 1) % GenModulus = IF x + 1 = GenModulus THEN 0 ELSE x + 1
    OBVIOUS
  <2>1. CASE x + 1 = GenModulus
    BY <1>1, <2>1
  <2>2. CASE x + 1 # GenModulus
    <3>1. x + 1 \in 0 .. (GenModulus - 1)
      BY <1>1, <2>2
    <3> QED BY <1>1, <2>2, <3>1
  <2> QED BY <2>1, <2>2
<1> QED BY <1>1, <1>2

\* The grant of a free slot to a grantable session.
LEMMA EffectGrant ==
  ASSUME NEW c \in ControlPlanes, NEW d, Inv(d), NEW i, NEW kind, Effect(c, d, i, kind),
         NoGrantYet(c, d), NEW t \in Slots,
         d.slots[t].in_use, d.slots[t].state \in Grantable
  PROVE  Effect(c, do_grant(d, t), i, kind)
<1> DEFINE e == do_grant(d, t)
           l == Len(d.out)
<1>1. d \in ControlPlanes /\ d.slots[t].negotiated_mode \in SupportedModes
  BY DEF Inv, ModeKnown, Grantable
<1>2. /\ OnlySlot(e, d, t)
      /\ e.slots[t].state = "GRANTED_WARMUP"
      /\ e.generation = (d.generation + 1) % GenModulus
  BY <1>1, DoGrantFields
<1>3. e.slots[t].in_use = d.slots[t].in_use
  BY <1>1, DoGrantFields, Zenon
<1>4. /\ l \in Nat
      /\ DOMAIN d.out = 1 .. l
      /\ DOMAIN e.out = 1 .. (l + 1)
      /\ \A n \in DOMAIN d.out : e.out[n] = d.out[n]
      /\ e.out[l + 1].to = t
      /\ e.out[l + 1].kind = "ACTIVATE_GRANT"
      /\ e.out[l + 1].arg = e.generation
  BY <1>1, DoGrantOut
<1>5. \A n \in DOMAIN e.out : n \in DOMAIN d.out \/ n = l + 1
  BY <1>4
<1>6. DOMAIN d.out \subseteq DOMAIN e.out /\ l + 1 \in DOMAIN e.out
  BY <1>4
<1> HIDE DEF e, l
<1>7. Grants(e) = {l + 1}
  BY <1>4, <1>5, <1>6 DEF Grants, NoGrantYet
<1>8. c.slots[t].state \notin {"GRANTED_WARMUP"}
  BY DEF Effect, WarmupKept, Grantable
<1>9. c.slots[t].state = "CONNECTED" => t = i
  BY DEF Effect, NewcomersKept, Grantable
<1>10. e.generation # c.generation
  <2>1. c.generation \in Generations
    BY DEF ControlPlanes
  <2> QED BY <1>2, <2>1, BumpDiffers DEF NoGrantYet
<1>11. GrantsTold(c, e)
  BY <1>2, <1>4, <1>7, <1>8, <1>10 DEF GrantsTold
<1>12. \A j \in Slots : j # t => e.slots[j] = d.slots[j]
  BY <1>2 DEF OnlySlot
<1>13. WarmupKept(c, e, i, kind)
  BY <1>8, <1>12 DEF Effect, WarmupKept
<1>14. \A j, K : Told(d, j, K) => Told(e, j, K)
  BY <1>4, <1>6 DEF Told
<1>15. ActiveTold(c, e)
  <2> SUFFICES ASSUME NEW j \in Slots, c.slots[j].state = "ACTIVE_RT", e.slots[j].in_use
               PROVE  e.slots[j].state = "ACTIVE_RT" \/ Told(e, j, StopKinds)
    BY DEF ActiveTold
  <2>1. d.slots[j].in_use
    BY <1>12
  <2>2. d.slots[j].state = "ACTIVE_RT" \/ Told(d, j, StopKinds)
    BY <2>1 DEF Effect, ActiveTold
  <2>3. j = t => d.slots[j].state # "ACTIVE_RT"
    BY DEF Grantable
  <2> QED BY <1>12, <1>14, <2>2, <2>3
<1>16. NewcomersKept(c, e, i)
  BY <1>4, <1>5, <1>9, <1>12 DEF Effect, NewcomersKept
<1>17. RemovedOnly(c, e, i, kind)
  <2> SUFFICES ASSUME NEW j \in Slots
               PROVE  /\ e.slots[j].in_use => c.slots[j].in_use
                      /\ c.slots[j].in_use /\ ~ e.slots[j].in_use =>
                           j = i /\ kind \in {"CONNECT", "DISCONNECT"}
    BY DEF RemovedOnly
  <2>1. e.slots[j].in_use <=> d.slots[j].in_use
    BY <1>3, <1>12
  <2> QED BY <2>1 DEF Effect, RemovedOnly
<1> QED BY <1>11, <1>13, <1>15, <1>16, <1>17 DEF Effect, e

\* finish_pending_grant() on a free slot: the pending target is granted it or nobody.
LEMMA EffectFinish ==
  ASSUME NEW c \in ControlPlanes, NEW d, Inv(d), NEW i, NEW kind, Effect(c, d, i, kind),
         NoGrantYet(c, d), Holders(d) = {}
  PROVE  LET f == finish_pending_grant(d)
         IN  Effect(c, f, i, kind) /\ (NoGrantYet(c, f) \/ Holders(f) # {})
<1> DEFINE f == finish_pending_grant(d)
           t == d.pending_grant_target
           e == [d EXCEPT !.pending_grant_target = None]
<1>1. d \in ControlPlanes /\ t \in SlotOrNone
  BY DEF Inv, ControlPlanes
<1>2. Inv(e) /\ e.slots = d.slots /\ e.generation = d.generation
  BY SetPendingInv DEF SlotOrNone
<1>3. e.out = d.out
  BY <1>1 DEF ControlPlanes
<1>4. f = IF t # None /\ e.slots[t].in_use /\ e.slots[t].state \in Grantable
          THEN do_grant(e, t) ELSE e
  BY DEF finish_pending_grant
<1> HIDE DEF e, t, f
<1>5. Effect(c, e, i, kind) /\ NoGrantYet(c, e)
  BY <1>2, <1>3, EffectSame DEF NoGrantYet
<1>6. Holders(e) = {}
  BY <1>2 DEF Holders
<1>7. ASSUME t # None, e.slots[t].in_use, e.slots[t].state \in Grantable
      PROVE  Effect(c, do_grant(e, t), i, kind) /\ Holders(do_grant(e, t)) # {}
  <2>1. t \in Slots
    BY <1>1, <1>7 DEF SlotOrNone
  <2>2. Effect(c, do_grant(e, t), i, kind)
    BY <1>2, <1>5, <1>7, <2>1, EffectGrant
  <2>3. Holders(do_grant(e, t)) = {t}
    BY <1>2, <1>6, <1>7, <2>1, DoGrantInv
  <2> QED BY <2>2, <2>3
<1>8. Effect(c, f, i, kind) /\ (NoGrantYet(c, f) \/ Holders(f) # {})
  BY <1>4, <1>5, <1>7
<1> QED BY <1>8 DEF f

\* maybe_grant_next_queued(): the head of the queue is granted a free slot.
LEMMA EffectMaybe ==
  ASSUME NEW c \in ControlPlanes, NEW d, Inv(d), NEW i, NEW kind, Effect(c, d, i, kind),
         NoGrantYet(c, d) \/ Holders(d) # {}
  PROVE  Effect(c, maybe_grant_next_queued(d), i, kind)
<1> DEFINE next == find_next_queued(d)
<1>1. next # None => /\ next \in Slots
                     /\ d.slots[next].in_use
                     /\ d.slots[next].state \in Grantable
  BY NextQueuedIsQueued DEF Queued, Grantable
<1>2. maybe_grant_next_queued(d)
        = IF rt_slot_taken(d) \/ next = None THEN d ELSE grant_slot(d, next)
  BY DEF maybe_grant_next_queued
<1> HIDE DEF next
<1>3. CASE rt_slot_taken(d) \/ next = None
  BY <1>2, <1>3
<1>4. CASE ~ rt_slot_taken(d) /\ next # None
  <2>1. d.active_slot = None
    BY <1>4 DEF Inv, ActiveCached, ControlPlanes, SlotOrNone, rt_slot_taken, Holders,
                HoldingStates
  <2>2. grant_slot(d, next) = do_grant(d, next)
    BY <1>4, <2>1 DEF grant_slot
  <2>3. NoGrantYet(c, d)
    BY <1>4 DEF rt_slot_taken
  <2> QED BY <1>1, <1>2, <1>4, <2>2, <2>3, EffectGrant
<1> QED BY <1>3, <1>4

\* Both, one after the other.
LEMMA EffectHandOn ==
  ASSUME NEW c \in ControlPlanes, NEW d, Inv(d), NEW i, NEW kind, Effect(c, d, i, kind),
         NoGrantYet(c, d), Holders(d) = {}
  PROVE  Effect(c, maybe_grant_next_queued(finish_pending_grant(d)), i, kind)
<1> DEFINE f == finish_pending_grant(d)
<1>1. Effect(c, f, i, kind) /\ (NoGrantYet(c, f) \/ Holders(f) # {})
  BY EffectFinish, Zenon
<1>2. Inv(f)
  BY FinishPendingInv
<1> HIDE DEF f
<1>3. Effect(c, maybe_grant_next_queued(f), i, kind)
  BY <1>1, <1>2, EffectMaybe
<1> QED BY <1>3 DEF f

\* A handler that only changes the session x, and sends only to it.
LEMMA EffectSlot ==
  ASSUME NEW c, c.out = <<>>, NEW d, NEW i, NEW kind, NEW x \in Slots,
         OnlySlot(d, c, x),
         Grants(d) = {},
         \A n \in DOMAIN d.out : d.out[n].to = x,
         x = i \/ c.slots[x].state # "CONNECTED",
         kind = "READY_FOR_RT" => x = i /\ d.slots[x].state = "ACTIVE_RT",
         d.slots[x].in_use => c.slots[x].in_use,
         c.slots[x].in_use /\ ~ d.slots[x].in_use =>
           x = i /\ kind \in {"CONNECT", "DISCONNECT"},
         c.slots[x].state = "GRANTED_WARMUP" /\ d.slots[x].in_use => kind = "READY_FOR_RT",
         c.slots[x].state = "ACTIVE_RT" /\ d.slots[x].in_use => Told(d, x, StopKinds)
  PROVE  Effect(c, d, i, kind)
<1>1. \A j \in Slots : j # x => d.slots[j] = c.slots[j]
  BY DEF OnlySlot
<1>2. GrantsTold(c, d)
  BY DEF GrantsTold
<1>3. WarmupKept(c, d, i, kind)
  BY <1>1 DEF WarmupKept
<1>4. ActiveTold(c, d)
  BY <1>1 DEF ActiveTold
<1>5. NewcomersKept(c, d, i)
  BY <1>1 DEF NewcomersKept
<1>6. RemovedOnly(c, d, i, kind)
  BY <1>1 DEF RemovedOnly
<1> QED BY <1>2, <1>3, <1>4, <1>5, <1>6 DEF Effect

\* A handler that leaves the sessions and sends nothing.
LEMMA EffectNone ==
  ASSUME NEW c, c.out = <<>>, NEW d, NEW i, NEW kind,
         d.slots = c.slots, d.out = <<>>, d.generation = c.generation,
         \/ kind # "READY_FOR_RT"
         \/ i \in Slots /\ c.slots[i].state # "GRANTED_WARMUP"
  PROVE  Effect(c, d, i, kind) /\ NoGrantYet(c, d)
<1>1. Grants(d) = {} /\ DOMAIN d.out = {}
  BY DEF Grants
<1>2. GrantsTold(c, d) /\ NoGrantYet(c, d)
  BY <1>1 DEF GrantsTold, NoGrantYet
<1>3. WarmupKept(c, d, i, kind)
  BY DEF WarmupKept
<1>4. ActiveTold(c, d) /\ NewcomersKept(c, d, i) /\ RemovedOnly(c, d, i, kind)
  BY <1>1 DEF ActiveTold, NewcomersKept, RemovedOnly
<1> QED BY <1>2, <1>3, <1>4 DEF Effect

-----------------------------------------------------------------------------
(* The handlers *)

\* Freeing a slot sends nothing.
LEMMA FreedOut ==
  ASSUME NEW d \in ControlPlanes, NEW i \in Slots,
         d.slots[i].state = "ACTIVE_RT" <=> d.active_slot = i
  PROVE  Freed(d, i).out = d.out /\ Freed(d, i).slots[i] = FreeSession
<1> DEFINE e == [d EXCEPT !.pending_grant_target = IF @ = i THEN None ELSE @]
           f == LeaveActive(e, i, "NEGOTIATED")
<1>1. Freed(d, i) = table_remove(e, i) /\ table_remove(e, i) = WithSession(f, i, FreeSession)
  BY DEF Freed, table_remove, table_deactivate
<1>2. e \in ControlPlanes /\ e.slots = d.slots /\ e.active_slot = d.active_slot
  BY ForgetPendingFields, SMT
<1>3. e.out = d.out
  BY DEF ControlPlanes
<1> HIDE DEF e
<1>4. table_remove(e, i).slots[i] = FreeSession
  BY <1>2, RemoveFields
<1>5. f \in ControlPlanes
  <2>1. "NEGOTIATED" \in SessionStates
    BY DEF SessionStates
  <2> QED BY <1>2, <2>1, LeaveActiveFields
<1>6. f.out = e.out
  BY <1>2, OutKept
<1> HIDE DEF f
<1>7. WithSession(f, i, FreeSession).out = f.out
  BY <1>5, OutKept
<1> QED BY <1>1, <1>3, <1>4, <1>6, <1>7

\* Nor does handle_disconnect() before it hands the slot on.
LEMMA DisconnectedOut ==
  ASSUME NEW c, Inv(c), NEW i \in Slots, c.slots[i].in_use
  PROVE  Disconnected(c, i).out = c.out /\ Disconnected(c, i).slots[i] = FreeSession
<1> DEFINE s == c.slots[i].state
<1>1. /\ c \in ControlPlanes
      /\ s = "ACTIVE_RT" <=> c.active_slot = i
      /\ s # "EVICTING_FORCED"
  BY DEF Inv, ActiveCached, EvictingCached
<1>2. CASE s = "ACTIVE_RT"
  <2> DEFINE d == evict_client(c)
  <2>1. Disconnected(c, i) = Freed(d, i)
    BY <1>2 DEF Disconnected
  <2>2. d \in ControlPlanes /\ d.slots = c.slots /\ d.active_slot = c.active_slot
    BY <1>1, EvictClientFields
  <2>3. d.out = c.out
    BY <1>1, OutKept
  <2> HIDE DEF d
  <2> QED BY <1>1, <2>1, <2>2, <2>3, FreedOut
<1>3. CASE s = "EVICTING_COOPERATIVE"
  <2> DEFINE e == SetState(c, i, "NEGOTIATED")
             d == StopEvicting(table_reclaim_eviction(c, i), i)
  <2>1. Disconnected(c, i) = Freed(d, i) /\ d = StopEvicting(e, i)
    BY <1>3 DEF Disconnected, table_reclaim_eviction
  <2>2. /\ d \in ControlPlanes
        /\ d.slots[i].state = "NEGOTIATED"
        /\ d.active_slot = c.active_slot
        /\ c.active_slot # i
    BY <1>3, ReclaimFields, Zenon
  <2>3. e \in ControlPlanes
    BY <1>1, SetStateFields DEF SessionStates
  <2>4. e.out = c.out
    BY <1>1, OutKept
  <2> HIDE DEF e
  <2>5. d.out = e.out
    BY <2>1, <2>3, OutKept
  <2> HIDE DEF d
  <2>6. d.slots[i].state = "ACTIVE_RT" <=> d.active_slot = i
    BY <2>2
  <2>7. Freed(d, i).out = d.out /\ Freed(d, i).slots[i] = FreeSession
    BY <2>2, <2>6, FreedOut
  <2> QED BY <2>1, <2>4, <2>5, <2>7
<1>4. CASE s \notin {"ACTIVE_RT", "EVICTING_COOPERATIVE"}
  <2>1. Disconnected(c, i) = Freed(c, i)
    BY <1>1, <1>4 DEF Disconnected
  <2> QED BY <1>1, <2>1, FreedOut
<1> QED BY <1>2, <1>3, <1>4

\* A Released session is the start of a hand-over.
LEMMA ReleasedNoGrant ==
  ASSUME NEW c \in ControlPlanes, NEW d, NEW i \in Slots, Released(c, d, i), Grants(d) = {}
  PROVE  NoGrantYet(c, d)
<1>1. CASE c.slots[i].state = "ACTIVE_RT"
  BY <1>1 DEF Released, CutOff, NoGrantYet
<1>2. CASE c.slots[i].state # "ACTIVE_RT"
  BY <1>2, NoCut DEF Released, NoGrantYet
<1> QED BY <1>1, <1>2

\* The end of a connection: its session is removed and the slot handed on.
LEMMA DisconnectEffect ==
  ASSUME NEW c, Inv(c), c.out = <<>>, NEW i \in Slots, c.slots[i].in_use
  PROVE  Effect(c, handle_disconnect(c, i), i, "DISCONNECT")
<1> DEFINE d == Disconnected(c, i)
<1>1. /\ Inv(d)
      /\ Holders(d) = Holders(c) \ {i}
      /\ Released(c, d, i)
      /\ d.out = <<>>
      /\ ~ d.slots[i].in_use
  BY DisconnectedInv, DisconnectedOut, FreeSessionType
<1>2. c.slots[i].state \in HoldingStates => Holders(d) = {}
  BY <1>1, SoleHolder
<1>3. c \in ControlPlanes
  BY DEF Inv
<1> HIDE DEF d
<1>4. Grants(d) = {} /\ DOMAIN d.out = {}
  BY <1>1 DEF Grants
<1>5. Effect(c, d, i, "DISCONNECT")
  <2>1. OnlySlot(d, c, i)
    BY <1>1 DEF Released
  <2> QED BY <1>1, <1>4, <2>1, EffectSlot
<1>6. NoGrantYet(c, d)
  BY <1>1, <1>3, <1>4, ReleasedNoGrant
<1>7. c.slots[i].state \in HoldingStates =>
        Effect(c, maybe_grant_next_queued(finish_pending_grant(d)), i, "DISCONNECT")
  BY <1>1, <1>2, <1>3, <1>5, <1>6, EffectHandOn
<1> QED BY <1>5, <1>7, DisconnectSteps DEF d

\* STOPPED, late and stray ones included.
LEMMA StoppedEffect ==
  ASSUME NEW c, Inv(c), c.out = <<>>, NEW i \in Slots, c.slots[i].in_use
  PROVE  Effect(c, handle_stopped(c, i), i, "STOPPED")
<1> DEFINE e == SetState(c, i, "NEGOTIATED")
           d == StopEvicting(table_reclaim_eviction(c, i), i)
<1>1. c \in ControlPlanes
  BY DEF Inv
<1>2. CASE c.slots[i].state # "EVICTING_COOPERATIVE"
  <2>1. handle_stopped(c, i) = c
    BY <1>2 DEF handle_stopped
  <2> QED BY <2>1, EffectNone
<1>3. CASE c.slots[i].state = "EVICTING_COOPERATIVE"
  <2>1. handle_stopped(c, i) = finish_pending_grant(d) /\ d = StopEvicting(e, i)
    BY <1>3 DEF handle_stopped, table_reclaim_eviction
  <2>2. Inv(d) /\ Holders(d) = {} /\ Released(c, d, i)
    BY <1>3, ReclaimInv, Zenon
  <2>3. d.slots[i].in_use
    BY <1>3, ReclaimFields, Zenon
  <2>4. e \in ControlPlanes
    BY <1>1, SetStateFields DEF SessionStates
  <2>5. e.out = c.out
    BY <1>1, OutKept
  <2> HIDE DEF e
  <2>6. d.out = <<>>
    BY <2>1, <2>4, <2>5, OutKept
  <2> HIDE DEF d
  <2>7. Grants(d) = {} /\ DOMAIN d.out = {}
    BY <2>6 DEF Grants
  <2>8. Effect(c, d, i, "STOPPED")
    <3>1. OnlySlot(d, c, i)
      BY <2>2 DEF Released
    <3> QED BY <1>3, <2>3, <2>7, <3>1, EffectSlot
  <2>9. NoGrantYet(c, d)
    BY <1>1, <2>2, <2>7, ReleasedNoGrant
  <2>10. Effect(c, finish_pending_grant(d), i, "STOPPED")
    BY <1>1, <2>2, <2>8, <2>9, EffectFinish, Zenon
  <2> QED BY <2>1, <2>10
<1> QED BY <1>2, <1>3

\* READY_FOR_RT ends the warmup; anywhere else it is ignored.
LEMMA ReadyForRtEffect ==
  ASSUME NEW c, Inv(c), c.out = <<>>, NEW i \in Slots, c.slots[i].in_use
  PROVE  Effect(c, handle_ready_for_rt(c, i), i, "READY_FOR_RT")
<1>1. c \in ControlPlanes
  BY DEF Inv
<1>2. CASE c.slots[i].state # "GRANTED_WARMUP"
  <2>1. handle_ready_for_rt(c, i) = c
    BY <1>2 DEF handle_ready_for_rt
  <2> QED BY <1>2, <2>1, EffectNone
<1>3. CASE c.slots[i].state = "GRANTED_WARMUP"
  <2> DEFINE e == SetState(c, i, "ACTIVE_RT")
             d == [e EXCEPT !.active_slot = i, !.heartbeat_late = FALSE]
  <2>1. Holders(c) = {i}
    BY <1>3, SoleHolder DEF HoldingStates
  <2>2. c.active_slot = None
    BY <1>3, <2>1 DEF Inv, ActiveCached, ControlPlanes, SlotOrNone, Holders, HoldingStates
  <2>3. handle_ready_for_rt(c, i) = d
    BY <1>3, <2>2 DEF handle_ready_for_rt, table_activate
  <2>4. Inv(d) /\ Moved(c, d, i, "ACTIVE_RT")
    BY <1>3, <2>3, ActivateInv DEF handle_ready_for_rt
  <2>5. e \in ControlPlanes
    BY <1>1, SetStateFields DEF SessionStates
  <2>6. e.out = c.out
    BY <1>1, OutKept
  <2> HIDE DEF e
  <2>7. d.out = <<>>
    BY <2>5, <2>6 DEF ControlPlanes
  <2> HIDE DEF d
  <2>8. Grants(d) = {} /\ DOMAIN d.out = {}
    BY <2>7 DEF Grants
  <2>9. OnlySlot(d, c, i) /\ d.slots[i].state = "ACTIVE_RT" /\ d.slots[i].in_use
    BY <2>4 DEF Moved, Holders
  <2>10. Effect(c, d, i, "READY_FOR_RT")
    BY <1>3, <2>8, <2>9, EffectSlot
  <2> QED BY <2>3, <2>10
<1> QED BY <1>2, <1>3

\* begin_eviction(): the active session's client is asked to stop.
LEMMA BeginEvictionEffect ==
  ASSUME NEW c, Inv(c), c.out = <<>>, NEW p \in Slots, c.active_slot = p, NEW t \in Slots,
         c.slots[t].in_use, c.slots[t].state \in Grantable,
         NEW i, NEW kind, kind # "READY_FOR_RT"
  PROVE  Effect(c, begin_eviction(c, p, t), i, kind)
<1> DEFINE e == LeaveActive(c, p, "EVICTING_COOPERATIVE")
           m == Send(e, p, "EVICT_PENDING", 0)
           d == [m EXCEPT !.evicting_slot = p,
                          !.pending_grant_target = t,
                          !.grace_over = FALSE]
<1>1. begin_eviction(c, p, t) = d
  BY DEF begin_eviction, table_begin_eviction
<1>2. /\ c \in ControlPlanes
      /\ c.slots[p].in_use
      /\ c.slots[p].state = "ACTIVE_RT" <=> c.active_slot = p
      /\ c.slots[p].state = "ACTIVE_RT"
  BY DEF Inv, ActiveCached
<1>3. Moved(c, d, p, "EVICTING_COOPERATIVE")
  BY <1>1, BeginEvictionInv
<1>4. e \in ControlPlanes
  BY <1>2, LeaveActiveFields DEF SessionStates
<1>5. e.out = <<>>
  BY <1>2, OutKept
<1> HIDE DEF e
<1>6. /\ DOMAIN m.out = 1 .. 1
      /\ m.out[1].to = p
      /\ m.out[1].kind = "EVICT_PENDING"
  BY <1>4, <1>5, SendOut
<1>7. d.out = m.out
  BY <1>4 DEF Send, ControlPlanes
<1> HIDE DEF d, m
<1>8. DOMAIN d.out = {1}
  BY <1>6, <1>7
<1>9. Grants(d) = {} /\ Told(d, p, StopKinds)
  BY <1>6, <1>7, <1>8 DEF Grants, Told, StopKinds
<1>10. OnlySlot(d, c, p) /\ d.slots[p].in_use
  BY <1>3 DEF Moved, Holders
<1> QED BY <1>1, <1>2, <1>6, <1>7, <1>8, <1>9, <1>10, EffectSlot

\* grant_slot(): evict first, remember the target, or grant at once.
LEMMA GrantSlotEffect ==
  ASSUME NEW c, Inv(c), c.out = <<>>, NEW t \in Slots,
         c.slots[t].in_use, c.slots[t].state \in Grantable,
         NEW i, NEW kind, kind # "READY_FOR_RT"
  PROVE  Effect(c, grant_slot(c, t), i, kind)
<1>1. /\ c \in ControlPlanes
      /\ c.active_slot \in SlotOrNone
      /\ c.active_slot # t
  BY DEF Inv, ControlPlanes, ActiveCached, Grantable
<1>2. CASE c.active_slot # None
  <2>1. grant_slot(c, t) = begin_eviction(c, c.active_slot, t)
    BY <1>1, <1>2 DEF grant_slot
  <2> QED BY <1>1, <1>2, <2>1, BeginEvictionEffect DEF SlotOrNone
<1>3. CASE c.active_slot = None /\ rt_slot_taken(c)
  <2> DEFINE d == [c EXCEPT !.pending_grant_target = t]
  <2>1. grant_slot(c, t) = d
    BY <1>1, <1>3 DEF grant_slot
  <2>2. d.slots = c.slots /\ d.out = <<>> /\ d.generation = c.generation
    BY <1>1 DEF ControlPlanes
  <2> HIDE DEF d
  <2> QED BY <2>1, <2>2, EffectNone
<1>4. CASE c.active_slot = None /\ ~ rt_slot_taken(c)
  <2>1. grant_slot(c, t) = do_grant(c, t)
    BY <1>4 DEF grant_slot
  <2>2. Effect(c, c, i, kind) /\ NoGrantYet(c, c)
    BY EffectNone
  <2> QED BY <1>1, <2>1, <2>2, EffectGrant
<1> QED BY <1>2, <1>3, <1>4

\* ACTIVATE_REQUEST: granted at once, queued or ignored.
LEMMA ActivateRequestEffect ==
  ASSUME NEW c, Inv(c), c.out = <<>>, NEW i \in Slots, c.slots[i].in_use,
         NEW t \in 0 .. MaxStamp
  PROVE  Effect(c, handle_activate_request(c, i, t), i, "ACTIVATE_REQUEST")
<1> DEFINE d == Enqueued(c, i, t)
           r == handle_activate_request(c, i, t)
<1>1. c \in ControlPlanes
  BY DEF Inv
<1>2. CASE c.slots[i].state # "NEGOTIATED"
  <2>1. r = c
    BY <1>2 DEF handle_activate_request
  <2> QED BY <2>1, EffectNone
<1>3. CASE c.slots[i].state = "NEGOTIATED" /\ ~ rt_slot_taken(c)
  <2>1. r = grant_slot(c, i)
    BY <1>3 DEF handle_activate_request
  <2> QED BY <1>3, <2>1, GrantSlotEffect DEF Grantable
<1>4. CASE c.slots[i].state = "NEGOTIATED" /\ rt_slot_taken(c)
  <2>1. r = Send(d, i, "ACTIVATE_QUEUED", queue_position(d, i))
    BY <1>4, ActivateRequestSteps
  <2>2. Inv(d) /\ OnlySlot(d, c, i) /\ d.slots[i].state = "QUEUED"
    BY <1>4, EnqueuedInv, Zenon
  <2>3. d.slots[i].in_use
    BY <2>2 DEF Inv, FreeClean
  <2>4. d.out = <<>>
    BY <1>1, OutKept DEF Enqueued
  <2>5. queue_position(d, i) \in Nat
    BY QueuePositionIsNat
  <2> HIDE DEF d
  <2>6. Grants(d) = {} /\ DOMAIN d.out = {}
    BY <2>4 DEF Grants
  <2>7. Effect(c, d, i, "ACTIVATE_REQUEST")
    BY <1>4, <2>2, <2>3, <2>6, EffectSlot
  <2>8. d \in ControlPlanes /\ "ACTIVATE_QUEUED" \in MessageKinds
    BY <2>2 DEF Inv, MessageKinds
  <2> QED BY <1>4, <2>1, <2>5, <2>7, <2>8, EffectSend
<1> QED BY <1>2, <1>3, <1>4

\* HEARTBEAT changes no session and sends nothing.
LEMMA HeartbeatEffect ==
  ASSUME NEW c, Inv(c), c.out = <<>>, NEW i \in Slots
  PROVE  Effect(c, handle_heartbeat(c, i), i, "HEARTBEAT")
<1> DEFINE d == [c EXCEPT !.heartbeat_late = FALSE]
<1>1. d.slots = c.slots /\ d.out = <<>> /\ d.generation = c.generation
  BY DEF Inv, ControlPlanes
<1>2. handle_heartbeat(c, i) \in {c, d}
  BY DEF handle_heartbeat
<1> HIDE DEF d
<1> QED BY <1>1, <1>2, EffectNone

\* CONNECT: the session negotiates a mode, or is told why not and removed.
LEMMA ConnectEffect ==
  ASSUME NEW c, Inv(c), c.out = <<>>, NEW i \in Slots, NEW msg \in ConnectMessages,
         c.slots[i].in_use, c.slots[i].state = "CONNECTED"
  PROVE  Effect(c, handle_connect(c, i, msg), i, "CONNECT")
<1> DEFINE chosen == negotiate_mode(msg.modes)
           s == [c.slots[i] EXCEPT !.client_id = msg.client_id,
                                   !.negotiated_mode = chosen,
                                   !.state = "NEGOTIATED"]
           m == Send(c, i, "MODE", 1)
           d == handle_connect(c, i, msg)
<1>1. c \in ControlPlanes /\ c.active_slot # i
  BY DEF Inv, ActiveCached
<1>2. OnlySlot(d, c, i)
  BY ConnectInv DEF Released
<1>3. ASSUME NEW kind \in MessageKinds, NEW arg \in Nat
      PROVE  /\ Send(c, i, kind, arg) \in ControlPlanes
             /\ Send(c, i, kind, arg).slots = c.slots
             /\ Send(c, i, kind, arg).active_slot = c.active_slot
             /\ DOMAIN Send(c, i, kind, arg).out = {1}
             /\ Send(c, i, kind, arg).out[1].to = i
             /\ Send(c, i, kind, arg).out[1].kind = kind
  BY <1>1, SendFields, SendOut
<1>4. ASSUME NEW kind \in MessageKinds
      PROVE  Reject(Send(c, i, kind, 0), i).out = Send(c, i, kind, 0).out
  <2> DEFINE n == Send(c, i, kind, 0)
             e == SetState(n, i, "REJECTED")
  <2>1. n \in ControlPlanes /\ n.active_slot # i
    BY <1>1, <1>3
  <2> HIDE DEF n
  <2>2. /\ e \in ControlPlanes
        /\ e.slots[i].state = "REJECTED"
        /\ e.active_slot # i
        /\ e.out = n.out
    <3>1. "REJECTED" \in SessionStates
      BY DEF SessionStates
    <3>2. e \in ControlPlanes /\ e.slots[i].state = "REJECTED" /\ e.active_slot # i
      BY <2>1, <3>1, SetStateFields
    <3>3. e.out = n.out
      BY <2>1, OutKept
    <3> QED BY <3>2, <3>3
  <2>3. Reject(n, i) = handle_disconnect(e, i)
    BY DEF Reject
  <2> HIDE DEF e
  <2>4. handle_disconnect(e, i) = Freed(e, i)
    BY <2>2 DEF handle_disconnect, Freed, HoldingStates
  <2>5. Freed(e, i).out = e.out
    BY <2>2, FreedOut
  <2> QED BY <2>2, <2>3, <2>4, <2>5 DEF n
<1>5. WithSession(m, i, s).out = m.out
  BY <1>3, OutKept DEF MessageKinds
<1>6. \E kind \in {"MODE", "VERSION_MISMATCH"}, arg \in {0, 1} :
        d.out = Send(c, i, kind, arg).out
  <2>1. \/ d = Reject(Send(c, i, "VERSION_MISMATCH", 0), i)
        \/ d = Reject(Send(c, i, "MODE", 0), i)
        \/ d = WithSession(m, i, s)
    BY DEF handle_connect
  <2>2. "VERSION_MISMATCH" \in MessageKinds /\ "MODE" \in MessageKinds
    BY DEF MessageKinds
  <2> HIDE DEF d, s
  <2> QED BY <1>4, <1>5, <2>1, <2>2
<1> HIDE DEF d
<1>7. \A n \in DOMAIN d.out :
        d.out[n].to = i /\ d.out[n].kind \in {"MODE", "VERSION_MISMATCH"}
  BY <1>3, <1>6 DEF MessageKinds
<1>8. Grants(d) = {}
  BY <1>7 DEF Grants
<1> QED BY <1>2, <1>7, <1>8, EffectSlot DEF d

\* An admin's SWITCH, whatever the state of its target.
LEMMA SwitchEffect ==
  ASSUME NEW c, Inv(c), c.out = <<>>, NEW id
  PROVE  Effect(c, handle_switch_query(c, id), None, "SWITCH")
<1> DEFINE i == find_by_client_id(c, id)
           Reply(d, ok) == Send(d, Admin, "SWITCH_RESPONSE", ok)
<1>1. ASSUME NEW d, Inv(d), Effect(c, d, None, "SWITCH"), NEW ok \in Nat
      PROVE  Effect(c, Reply(d, ok), None, "SWITCH")
  <2>1. d \in ControlPlanes /\ "SWITCH_RESPONSE" \in MessageKinds
    BY <1>1 DEF Inv, MessageKinds
  <2> QED BY <1>1, <2>1, EffectSend
<1>2. Effect(c, c, None, "SWITCH")
  BY EffectNone
<1>3. i # None /\ c.slots[i].state \in Grantable =>
        Inv(grant_slot(c, i)) /\ Effect(c, grant_slot(c, i), None, "SWITCH")
  BY FoundIsInUse, GrantSlotInv, GrantSlotEffect
<1>4. handle_switch_query(c, id)
        = IF i = None
          THEN Reply(c, 0)
          ELSE IF c.slots[i].state = "ACTIVE_RT"
               THEN Reply(c, 1)
               ELSE IF c.slots[i].state \notin Grantable
                    THEN Reply(c, 0)
                    ELSE Reply(grant_slot(c, i), 1)
  BY DEF handle_switch_query
<1> HIDE DEF i
<1>5. Effect(c, Reply(c, 0), None, "SWITCH") /\ Effect(c, Reply(c, 1), None, "SWITCH")
  BY <1>1, <1>2
<1>6. i # None /\ c.slots[i].state \in Grantable =>
        Effect(c, Reply(grant_slot(c, i), 1), None, "SWITCH")
  BY <1>1, <1>3
<1> QED BY <1>4, <1>5, <1>6

\* A silent active client is told to stop, and the slot is granted onward.
LEMMA HeartbeatTimeoutEffect ==
  ASSUME NEW c, Inv(c), c.out = <<>>, c.active_slot # None
  PROVE  Effect(c, heartbeat_timeout(c), None, "TIMEOUT")
<1> DEFINE i == c.active_slot
           b == LeaveActive(c, i, "NEGOTIATED")
           d == evict_client(b)
           m == Send(d, i, "LIVENESS_TIMEOUT", 0)
           e == Send(m, i, "DEACTIVATE", 0)
<1>1. /\ c \in ControlPlanes
      /\ i \in Slots
      /\ c.slots[i].in_use
      /\ c.slots[i].state = "ACTIVE_RT"
  BY DEF Inv, ControlPlanes, SlotOrNone, ActiveCached
<1>2. TimedOut(c) = e
  BY DEF TimedOut, table_deactivate
<1>3. /\ Inv(e)
      /\ Holders(e) = {}
      /\ Released(c, e, i)
      /\ e.slots[i].in_use
  <2> HIDE DEF e, i
  <2> QED BY <1>2, TimedOutInv DEF i
<1>4. b \in ControlPlanes /\ b.out = <<>>
  <2>1. /\ "NEGOTIATED" \in SessionStates
        /\ c.slots[i].state = "ACTIVE_RT" <=> c.active_slot = i
    BY <1>1 DEF SessionStates
  <2>2. b \in ControlPlanes
    <3> HIDE DEF i
    <3> QED BY <1>1, <2>1, LeaveActiveFields
  <2>3. b.out = c.out
    <3> HIDE DEF i
    <3> QED BY <1>1, OutKept
  <2> QED BY <2>2, <2>3
<1> HIDE DEF i, b
<1>5. d \in ControlPlanes /\ d.out = <<>>
  BY <1>1, <1>4, EvictClientFields, OutKept
<1> HIDE DEF d
<1>6. /\ m \in ControlPlanes
      /\ \A n \in DOMAIN m.out : m.out[n].to = i /\ m.out[n].kind = "LIVENESS_TIMEOUT"
  <2>1. m \in ControlPlanes
    BY <1>1, <1>5, SendFields DEF MessageKinds
  <2>2. DOMAIN m.out = 1 .. 1 /\ m.out[1].to = i /\ m.out[1].kind = "LIVENESS_TIMEOUT"
    BY <1>5, SendOut
  <2> HIDE DEF m
  <2> QED BY <2>1, <2>2
<1> HIDE DEF m
<1>7. /\ Len(m.out) \in Nat
      /\ DOMAIN m.out = 1 .. Len(m.out)
      /\ DOMAIN e.out = 1 .. (Len(m.out) + 1)
      /\ \A n \in DOMAIN m.out : e.out[n] = m.out[n]
      /\ e.out[Len(m.out) + 1].to = i
      /\ e.out[Len(m.out) + 1].kind = "DEACTIVATE"
  BY <1>6, SendOut
<1> HIDE DEF e
<1>8. /\ \A n \in DOMAIN e.out : n \in DOMAIN m.out \/ n = Len(m.out) + 1
      /\ Len(m.out) + 1 \in DOMAIN e.out
  BY <1>7
<1>9. /\ \A n \in DOMAIN e.out : e.out[n].to = i
      /\ Grants(e) = {}
      /\ Told(e, i, StopKinds)
  BY <1>6, <1>7, <1>8 DEF Grants, Told, StopKinds
<1>10. Effect(c, e, None, "TIMEOUT")
  <2>1. OnlySlot(e, c, i)
    BY <1>3 DEF Released
  <2> QED BY <1>1, <1>3, <1>9, <2>1, EffectSlot
<1>11. NoGrantYet(c, e)
  BY <1>1, <1>3, <1>9, ReleasedNoGrant
<1>12. Effect(c, maybe_grant_next_queued(e), None, "TIMEOUT")
  BY <1>1, <1>3, <1>10, <1>11, EffectMaybe
<1>13. heartbeat_timeout(c) = maybe_grant_next_queued(TimedOut(c))
  BY DEF heartbeat_timeout, TimedOut
<1> QED BY <1>2, <1>12, <1>13

\* A client that does not stop in time loses the slot to the pending target.
LEMMA GraceDeadlineEffect ==
  ASSUME NEW c, Inv(c), c.out = <<>>, c.evicting_slot # None
  PROVE  Effect(c, grace_deadline(c), None, "GRACE")
<1> DEFINE i == c.evicting_slot
           d == [c EXCEPT !.evicting_slot = None]
           m == SetState(d, i, "EVICTING_FORCED")
           e == Expired(c)
<1>1. /\ c \in ControlPlanes
      /\ i \in Slots
      /\ c.slots[i].in_use
      /\ c.slots[i].state = "EVICTING_COOPERATIVE"
  BY DEF Inv, ControlPlanes, SlotOrNone, EvictingCached
<1>2. /\ Inv(e)
      /\ Holders(e) = {}
      /\ Released(c, e, i)
      /\ e.slots[i].in_use
  BY ExpiredInv
<1>3. e.out = <<>>
  <2>1. d \in ControlPlanes /\ d.slots = c.slots /\ d.out = <<>>
    BY <1>1 DEF ControlPlanes, SlotOrNone
  <2> HIDE DEF d
  <2>2. m \in ControlPlanes /\ m.slots[i].state = "EVICTING_FORCED"
    <3> HIDE DEF i
    <3> QED BY <1>1, <2>1, SetStateFields DEF SessionStates
  <2>3. m.out = <<>> /\ SetState(m, i, "NEGOTIATED").out = m.out
    <3> HIDE DEF i
    <3>1. m.out = d.out
      BY <1>1, <2>1, OutKept
    <3> HIDE DEF m
    <3>2. SetState(m, i, "NEGOTIATED").out = m.out
      BY <1>1, <2>2, OutKept
    <3> QED BY <2>1, <3>1, <3>2
  <2>4. table_mark_eviction_forced(d, i) = m
    BY <1>1, <2>1 DEF table_mark_eviction_forced
  <2>5. e = table_reclaim_eviction(table_mark_eviction_forced(d, i), i)
    BY DEF Expired, d
  <2> HIDE DEF m, e
  <2>6. e = SetState(m, i, "NEGOTIATED")
    BY <2>2, <2>4, <2>5 DEF table_reclaim_eviction
  <2> QED BY <2>3, <2>6
<1> HIDE DEF e, i
<1>4. Grants(e) = {} /\ DOMAIN e.out = {}
  BY <1>3 DEF Grants
<1>5. Effect(c, e, None, "GRACE")
  <2>1. OnlySlot(e, c, i)
    BY <1>2 DEF Released
  <2> QED BY <1>1, <1>2, <1>4, <2>1, EffectSlot
<1>6. NoGrantYet(c, e)
  BY <1>1, <1>2, <1>4, ReleasedNoGrant
<1>7. Effect(c, maybe_grant_next_queued(finish_pending_grant(e)), None, "GRACE")
  BY <1>1, <1>2, <1>5, <1>6, EffectHandOn
<1>8. grace_deadline(c) = maybe_grant_next_queued(finish_pending_grant(Expired(c)))
  BY DEF grace_deadline, Expired
<1> QED BY <1>7, <1>8 DEF e

-----------------------------------------------------------------------------
(* The invariant of clients, connections and server *)

Clients ==
  [pc : {"new", "mode", "grant", "run", "gone"}, mode : BOOLEAN, active : BOOLEAN,
   granted_generation : Nat, publish : {"out", "entered", "loaded", "stale"},
   seen : Nat, attached : BOOLEAN]

UpKinds == {"ACTIVATE_REQUEST", "READY_FOR_RT", "STOPPED", "HEARTBEAT", "DISCONNECT"}

UpMessage ==
  [kind : UpKinds, body : {<<>>}] \cup [kind : {"CONNECT"}, body : ConnectMessages]

Connections ==
  [up : Seq(UpMessage), down : Seq(DownMessage), slot : SlotOrNone, open : BOOLEAN]

\* Whether message k of a queue has this kind.
At(queue, k, kind) == k \in DOMAIN queue /\ queue[k].kind = kind

\* A process x and its connection y, whatever the server does: a closed
\* connection carries nothing upward, CONNECT is the first message and nothing is
\* answered before it is read, only a process that has gone has sent DISCONNECT,
\* and one that goes on without a mode has no connection.
Alone(x, y) ==
  /\ y.slot # None => y.open
  /\ ~ y.open => y.up = <<>>
  /\ x.pc = "new" => ~ y.open /\ y.down = <<>>
  /\ \A k \in Nat : At(y.up, k, "CONNECT") =>
       k = 1 /\ y.down = <<>> /\ x.pc \in {"mode", "gone"}
  /\ \A k \in Nat : At(y.up, k, "DISCONNECT") => x.pc = "gone"
  /\ x.pc \in {"grant", "run"} /\ ~ x.mode => ~ y.open /\ y.down = <<>>
  /\ x.active => x.pc = "run" /\ x.mode

\* A session in warmup whose grant is in the stream of process x.
GrantUnderWay(x, y, c) ==
  x.pc # "gone" => \A k \in Nat : At(y.down, k, "ACTIVATE_GRANT") =>
    /\ y.slot # None
    /\ c.slots[y.slot].state = "GRANTED_WARMUP"
    /\ \A j \in Nat : ~ At(y.up, j, "READY_FOR_RT")
    /\ \A j \in Nat : At(y.down, j, "ACTIVATE_GRANT") => j = k

\* A session in warmup whose READY_FOR_RT is in the stream of the server.
ReadyUnderWay(x, y, c) ==
  x.pc # "gone" => \A k \in Nat : At(y.up, k, "READY_FOR_RT") =>
    /\ y.slot # None
    /\ c.slots[y.slot].state = "GRANTED_WARMUP"
    /\ \A j \in Nat : At(y.up, j, "READY_FOR_RT") => j = k

\* What an active process can count on.
ActiveKnown(x, y, c) ==
  x.active =>
    \/ y.slot # None /\ c.slots[y.slot].state = "ACTIVE_RT"
    \/ y.slot # None /\ \E k \in Nat : At(y.up, k, "READY_FOR_RT")
    \/ InFlight(y.down, StopKinds)

\* A process, its connection and the session that the server c keeps for it.
Together(x, y, c) ==
  /\ y.slot # None => c.slots[y.slot].in_use
  /\ \A k \in Nat : At(y.up, k, "CONNECT") /\ y.slot # None =>
       c.slots[y.slot].state = "CONNECTED"
  /\ GrantUnderWay(x, y, c)
  /\ ReadyUnderWay(x, y, c)
  /\ ActiveKnown(x, y, c)

\* Connections n and sessions of c correspond one to one.
Matched(n, c) ==
  /\ \A p, q \in Procs : n[p].slot # None /\ n[p].slot = n[q].slot => p = q
  /\ \A i \in Slots : c.slots[i].in_use => \E p \in Procs : n[p].slot = i

\* The inductive invariant.
SessionInv(c, cl, n, s) ==
  /\ Inv(c) /\ c.out = <<>>
  /\ cl \in [Procs -> Clients]
  /\ n \in [Procs -> Connections]
  /\ \A p \in Procs : Alone(cl[p], n[p])
  /\ s = "running" => Matched(n, c) /\ \A p \in Procs : Together(cl[p], n[p], c)

LEMMA EmptyAt == \A k : \A kind : ~ At(<<>>, k, kind)
BY DEF At

\* The kinds in a queue when its head is taken.
LEMMA TailAt ==
  ASSUME NEW S, NEW q \in Seq(S), q # <<>>
  PROVE  /\ Tail(q) \in Seq(S)
         /\ Head(q) = q[1] /\ Head(q) \in S /\ 1 \in DOMAIN q
         /\ \A k \in Nat : \A kind : At(Tail(q), k, kind) => At(q, k + 1, kind) /\ k > 0
         /\ \A k \in Nat : \A kind : At(q, k, kind) => k > 0
         /\ \A k \in Nat : \A kind : At(q, k, kind) /\ k # 1 => At(Tail(q), k - 1, kind)
<1>1. /\ Tail(q) \in Seq(S)
      /\ Head(q) = q[1] /\ Head(q) \in S
      /\ Len(q) \in Nat /\ Len(q) > 0
      /\ DOMAIN q = 1 .. Len(q)
      /\ DOMAIN Tail(q) = 1 .. (Len(q) - 1)
      /\ \A k \in 1 .. (Len(q) - 1) : Tail(q)[k] = q[k + 1]
  OBVIOUS
<1>2. \A k \in Nat : \A kind : At(Tail(q), k, kind) => At(q, k + 1, kind) /\ k > 0
  BY <1>1 DEF At
<1>3. \A k \in Nat : \A kind : At(q, k, kind) => k > 0
  BY <1>1 DEF At
<1>4. ASSUME NEW k \in Nat, NEW kind, At(q, k, kind), k # 1
      PROVE  At(Tail(q), k - 1, kind)
  <2>1. k - 1 \in 1 .. (Len(q) - 1) /\ (k - 1) + 1 = k
    BY <1>1, <1>4 DEF At
  <2> QED BY <1>1, <1>4, <2>1 DEF At
<1> QED BY <1>1, <1>2, <1>3, <1>4

\* And when a message is added at the end.
LEMMA AppendAt ==
  ASSUME NEW S, NEW q \in Seq(S), NEW m \in S
  PROVE  /\ Append(q, m) \in Seq(S)
         /\ Len(q) + 1 \in Nat
         /\ \A k \in Nat : \A kind :
              At(Append(q, m), k, kind) <=> At(q, k, kind) \/ (k = Len(q) + 1 /\ m.kind = kind)
         /\ \A kind : ~ At(q, Len(q) + 1, kind)
<1> DEFINE r == Append(q, m)
<1>1. /\ r \in Seq(S)
      /\ Len(q) \in Nat
      /\ DOMAIN q = 1 .. Len(q)
      /\ DOMAIN r = 1 .. (Len(q) + 1)
      /\ \A k \in 1 .. Len(q) : r[k] = q[k]
      /\ r[Len(q) + 1] = m
  OBVIOUS
<1> HIDE DEF r
<1>2. ASSUME NEW k \in Nat, NEW kind
      PROVE  At(r, k, kind) <=> At(q, k, kind) \/ (k = Len(q) + 1 /\ m.kind = kind)
  <2>1. CASE k = Len(q) + 1
    BY <1>1, <2>1 DEF At
  <2>2. CASE k # Len(q) + 1
    <3>1. k \in DOMAIN r <=> k \in DOMAIN q
      BY <1>1, <2>2
    <3>2. k \in DOMAIN q => r[k] = q[k]
      BY <1>1
    <3>3. At(r, k, kind) <=> At(q, k, kind)
      BY <3>1, <3>2, Zenon DEF At
    <3> QED BY <2>2, <3>3
  <2> QED BY <2>1, <2>2
<1>3. \A kind : ~ At(q, Len(q) + 1, kind)
  BY <1>1 DEF At
<1> QED BY <1>1, <1>2, <1>3 DEF r

\* And when a handler's messages are.
LEMMA ConcatAt ==
  ASSUME NEW S, NEW q \in Seq(S), NEW r \in Seq(S)
  PROVE  /\ q \o r \in Seq(S)
         /\ \A k \in Nat : k \in DOMAIN q => (q \o r)[k] = q[k] /\ k \in DOMAIN (q \o r)
         /\ \A k \in Nat : k \in DOMAIN r =>
              /\ (q \o r)[Len(q) + k] = r[k]
              /\ Len(q) + k \in DOMAIN (q \o r)
         /\ \A k \in Nat : k \in DOMAIN (q \o r) /\ k \notin DOMAIN q =>
              k - Len(q) \in DOMAIN r /\ (q \o r)[k] = r[k - Len(q)]
         /\ Len(q) \in Nat
<1> DEFINE t == q \o r
<1>1. /\ t \in Seq(S)
      /\ Len(q) \in Nat /\ Len(r) \in Nat
      /\ DOMAIN q = 1 .. Len(q)
      /\ DOMAIN r = 1 .. Len(r)
      /\ DOMAIN t = 1 .. (Len(q) + Len(r))
      /\ \A k \in 1 .. (Len(q) + Len(r)) :
           t[k] = IF k <= Len(q) THEN q[k] ELSE r[k - Len(q)]
  OBVIOUS
<1> HIDE DEF t
<1>2. \A k \in Nat : k \in DOMAIN q => t[k] = q[k] /\ k \in DOMAIN t
  BY <1>1
<1>3. ASSUME NEW k \in Nat, k \in DOMAIN r
      PROVE  t[Len(q) + k] = r[k] /\ Len(q) + k \in DOMAIN t
  <2>1. Len(q) + k \in 1 .. (Len(q) + Len(r)) /\ (Len(q) + k) - Len(q) = k
        /\ ~ (Len(q) + k <= Len(q))
    BY <1>1, <1>3
  <2> QED BY <1>1, <2>1
<1>4. \A k \in Nat : k \in DOMAIN t /\ k \notin DOMAIN q =>
        k - Len(q) \in DOMAIN r /\ t[k] = r[k - Len(q)]
  BY <1>1
<1> QED BY <1>1, <1>2, <1>3, <1>4 DEF t

\* A step of one process that keeps its session keeps the invariant if it does so
\* for that process.
LEMMA ClientStep ==
  ASSUME NEW c, NEW cl, NEW n, NEW s, SessionInv(c, cl, n, s),
         NEW p \in Procs, NEW cm \in [Procs -> Clients], NEW m \in [Procs -> Connections],
         \A q \in Procs : q # p => cm[q] = cl[q] /\ m[q] = n[q],
         m[p].slot = n[p].slot,
         Alone(cm[p], m[p]),
         s = "running" => Together(cm[p], m[p], c)
  PROVE  SessionInv(c, cm, m, s)
<1>1. \A q \in Procs : Alone(cm[q], m[q])
  BY DEF SessionInv
<1>2. \A q \in Procs : m[q].slot = n[q].slot
  OBVIOUS
<1>3. ASSUME s = "running"
      PROVE  Matched(m, c) /\ \A q \in Procs : Together(cm[q], m[q], c)
  <2>1. Matched(m, c)
    BY <1>2, <1>3 DEF SessionInv, Matched
  <2>2. \A q \in Procs : Together(cm[q], m[q], c)
    BY <1>3 DEF SessionInv
  <2> QED BY <2>1, <2>2
<1>4. Inv(c) /\ c.out = <<>>
  BY DEF SessionInv
<1> QED BY <1>1, <1>3, <1>4 DEF SessionInv

-----------------------------------------------------------------------------
(* The steps of a process *)

\* Where a process's generations come from: what it was granted before, or a
\* grant it just read.
Inherits(x, y, u, v) ==
  /\ \A k \in DOMAIN v.down : \E j \in DOMAIN y.down : v.down[k] = y.down[j]
  /\ \/ u.granted_generation = x.granted_generation /\ (u.active => x.active)
     \/ u.granted_generation = 0 /\ ~ u.active
     \/ \E j \in DOMAIN y.down : /\ y.down[j].kind = "ACTIVATE_GRANT"
                                 /\ y.down[j].arg = u.granted_generation

\* Process x on connection y may go on as u on v, when the server is s with
\* control plane c.
Moves(x, y, u, v, c, s) ==
  /\ v.slot = y.slot
  /\ Alone(u, v)
  /\ s = "running" => Together(u, v, c)
  /\ Inherits(x, y, u, v)

\* The connection after a message was read, and after one was sent.
Read(y) == [y EXCEPT !.down = Tail(@)]

Up(y, kind) ==
  IF y.open THEN [y EXCEPT !.up = Append(@, [kind |-> kind, body |-> <<>>])] ELSE y

LEMMA ReadFields ==
  ASSUME NEW y \in Connections, y.down # <<>>
  PROVE  /\ Read(y) \in Connections
         /\ Read(y).down = Tail(y.down)
         /\ Read(y).up = y.up
         /\ Read(y).slot = y.slot
         /\ Read(y).open = y.open
<1>1. y.down \in Seq(DownMessage)
  BY DEF Connections
<1>2. Tail(y.down) \in Seq(DownMessage)
  BY <1>1
<1>3. Read(y) \in Connections /\ Read(y).down = Tail(y.down)
  BY <1>2 DEF Read, Connections
<1>4. Read(y).up = y.up /\ Read(y).slot = y.slot
  BY DEF Read, Connections
<1>5. Read(y).open = y.open
  BY Zenon DEF Read, Connections
<1> QED BY <1>3, <1>4, <1>5

LEMMA UpFields ==
  ASSUME NEW y \in Connections, NEW kind \in UpKinds
  PROVE  /\ Up(y, kind) \in Connections
         /\ Up(y, kind).down = y.down
         /\ Up(y, kind).slot = y.slot
         /\ Up(y, kind).open = y.open
         /\ ~ y.open => Up(y, kind) = y
         /\ Len(y.up) + 1 \in Nat
         /\ \A k \in Nat : \A what :
              At(Up(y, kind).up, k, what) <=>
                At(y.up, k, what) \/ (y.open /\ k = Len(y.up) + 1 /\ what = kind)
         /\ \A what : ~ At(y.up, Len(y.up) + 1, what)
<1> DEFINE m == [kind |-> kind, body |-> <<>>]
           z == [y EXCEPT !.up = Append(y.up, m)]
<1>1. y.up \in Seq(UpMessage) /\ m \in UpMessage /\ m.kind = kind
  BY DEF Connections, UpMessage
<1> HIDE DEF m
<1>2. /\ Append(y.up, m) \in Seq(UpMessage)
      /\ Len(y.up) + 1 \in Nat
      /\ \A k \in Nat : \A what : At(Append(y.up, m), k, what) <=>
           At(y.up, k, what) \/ (k = Len(y.up) + 1 /\ m.kind = what)
      /\ \A what : ~ At(y.up, Len(y.up) + 1, what)
  BY <1>1, AppendAt
<1>3. Up(y, kind) = IF y.open THEN z ELSE y
  BY DEF Up, m
<1>4. z \in Connections /\ z.up = Append(y.up, m) /\ z.down = y.down /\ z.slot = y.slot
  BY <1>2 DEF Connections
<1>5. z.open = y.open
  BY Zenon DEF Connections
<1> HIDE DEF z
<1>6. ASSUME NEW k \in Nat, NEW what
      PROVE  At(Up(y, kind).up, k, what) <=>
               At(y.up, k, what) \/ (y.open /\ k = Len(y.up) + 1 /\ what = kind)
  <2>1. CASE y.open
    <3>1. Up(y, kind).up = Append(y.up, m)
      BY <1>3, <1>4, <2>1
    <3> QED BY <1>1, <1>2, <2>1, <3>1
  <2>2. CASE ~ y.open
    BY <1>3, <2>2
  <2> QED BY <2>1, <2>2
<1>7. Up(y, kind).open = y.open
  BY <1>3, <1>5, Zenon
<1> QED BY <1>2, <1>3, <1>4, <1>6, <1>7

\* SendUp() changes one connection.
LEMMA SendUpIs ==
  ASSUME NEW n \in [Procs -> Connections], NEW p \in Procs, NEW kind \in UpKinds
  PROVE  /\ SendUp(n, p, kind) \in [Procs -> Connections]
         /\ SendUp(n, p, kind)[p] = Up(n[p], kind)
         /\ \A q \in Procs : q # p => SendUp(n, p, kind)[q] = n[q]
<1> DEFINE y == n[p]
           msg == [kind |-> kind, body |-> <<>>]
           z == [y EXCEPT !.up = Append(@, msg)]
<1>1. Up(y, kind) \in Connections
  BY UpFields
<1>2. CASE y.open
  <2>1. SendUp(n, p, kind) = [n EXCEPT ![p] = z]
    BY <1>2, Zenon DEF SendUp
  <2>2. Up(y, kind) = z
    BY <1>2, Zenon DEF Up
  <2> HIDE DEF y, z
  <2> QED BY <1>1, <2>1, <2>2 DEF y
<1>3. CASE ~ y.open
  BY <1>3 DEF SendUp, Up
<1> QED BY <1>2, <1>3

\* Reading a message other than one the process has to act on.
LEMMA ReadAlone ==
  ASSUME NEW x, NEW y \in Connections, y.down # <<>>, Alone(x, y)
  PROVE  Alone(x, Read(y)) /\ \A k \in Nat : ~ At(y.up, k, "CONNECT")
<1>1. /\ Read(y).up = y.up
      /\ Read(y).slot = y.slot
  BY ReadFields
<1>2. Read(y).open = y.open
  BY ReadFields
<1>3. \A k \in Nat : ~ At(y.up, k, "CONNECT")
  BY DEF Alone
<1> QED BY <1>1, <1>2, <1>3 DEF Alone

LEMMA ReadTogether ==
  ASSUME NEW x, NEW y \in Connections, y.down # <<>>, NEW c, Together(x, y, c),
         x.active => Head(y.down).kind \notin StopKinds
  PROVE  Together(x, Read(y), c)
<1> DEFINE z == Read(y)
           q == y.down
<1>1. /\ z \in Connections
      /\ z.down = Tail(q)
      /\ z.up = y.up
      /\ z.slot = y.slot
  BY ReadFields
<1>2. /\ Head(q) = q[1]
      /\ \A k \in Nat : \A kind : At(Tail(q), k, kind) => At(q, k + 1, kind) /\ k > 0
      /\ \A k \in Nat : \A kind : At(q, k, kind) /\ k # 1 => At(Tail(q), k - 1, kind)
      /\ DOMAIN q \subseteq Nat
  <2>1. q \in Seq(DownMessage)
    BY DEF Connections
  <2> HIDE DEF q
  <2> QED BY <2>1, TailAt DEF q
<1>3. InFlight(q, StopKinds) /\ Head(q).kind \notin StopKinds => InFlight(Tail(q), StopKinds)
  <2> SUFFICES ASSUME NEW k \in DOMAIN q, q[k].kind \in StopKinds,
                      Head(q).kind \notin StopKinds
               PROVE  InFlight(Tail(q), StopKinds)
    BY DEF InFlight
  <2>1. k \in Nat /\ k # 1 /\ At(q, k, q[k].kind)
    BY <1>2 DEF At
  <2>2. At(Tail(q), k - 1, q[k].kind)
    BY <1>2, <2>1
  <2> QED BY <2>2 DEF At, InFlight
<1> HIDE DEF z, q
<1>4. GrantUnderWay(x, z, c)
  <2> SUFFICES ASSUME x.pc # "gone", NEW k \in Nat, At(z.down, k, "ACTIVATE_GRANT")
               PROVE  /\ z.slot # None
                      /\ c.slots[z.slot].state = "GRANTED_WARMUP"
                      /\ \A j \in Nat : ~ At(z.up, j, "READY_FOR_RT")
                      /\ \A j \in Nat : At(z.down, j, "ACTIVATE_GRANT") => j = k
    BY DEF GrantUnderWay
  <2>1. At(q, k + 1, "ACTIVATE_GRANT") /\ k + 1 \in Nat
    BY <1>1, <1>2
  <2>2. GrantUnderWay(x, y, c)
    BY DEF Together
  <2>3. ASSUME NEW j \in Nat, At(z.down, j, "ACTIVATE_GRANT") PROVE j = k
    <3>1. At(q, j + 1, "ACTIVATE_GRANT") /\ j + 1 \in Nat
      BY <1>1, <1>2, <2>3
    <3>2. j + 1 = k + 1
      BY <2>1, <2>2, <3>1 DEF GrantUnderWay, q
    <3> QED BY <3>2
  <2>4. /\ y.slot # None
        /\ c.slots[y.slot].state = "GRANTED_WARMUP"
        /\ \A j \in Nat : ~ At(y.up, j, "READY_FOR_RT")
    BY <2>1, <2>2 DEF GrantUnderWay, q
  <2> QED BY <1>1, <2>3, <2>4
<1>5. ReadyUnderWay(x, z, c)
  BY <1>1 DEF Together, ReadyUnderWay
<1>6. ActiveKnown(x, z, c)
  BY <1>1, <1>3 DEF Together, ActiveKnown, q
<1>7. /\ z.slot # None => c.slots[z.slot].in_use
      /\ \A k \in Nat : At(z.up, k, "CONNECT") /\ z.slot # None =>
           c.slots[z.slot].state = "CONNECTED"
  BY <1>1 DEF Together
<1>8. Together(x, z, c)
  BY <1>4, <1>5, <1>6, <1>7, Zenon DEF Together
<1> QED BY <1>8 DEF z

\* Sending a message of the timers, or the answer STOPPED.
LEMMA UpKeeps ==
  ASSUME NEW x, NEW y \in Connections, Alone(x, y), NEW c,
         NEW kind \in {"ACTIVATE_REQUEST", "STOPPED", "HEARTBEAT"}
  PROVE  /\ Alone(x, Up(y, kind))
         /\ Together(x, y, c) => Together(x, Up(y, kind), c)
<1> DEFINE z == Up(y, kind)
<1>1. kind \in UpKinds
  BY DEF UpKinds
<1>2. /\ z.down = y.down
      /\ z.slot = y.slot
      /\ ~ y.open => z = y
  BY <1>1, UpFields
<1>3. z.open = y.open
  BY <1>1, UpFields
<1>4. \A k \in Nat : \A what \in {"CONNECT", "DISCONNECT", "READY_FOR_RT"} :
        At(z.up, k, what) <=> At(y.up, k, what)
  BY <1>1, UpFields
<1> HIDE DEF z
<1>5. Alone(x, z)
  BY <1>2, <1>3, <1>4 DEF Alone
<1>6. ASSUME Together(x, y, c) PROVE Together(x, z, c)
  <2>1. GrantUnderWay(x, z, c)
    BY <1>2, <1>4, <1>6 DEF Together, GrantUnderWay
  <2>2. ReadyUnderWay(x, z, c)
    BY <1>2, <1>4, <1>6 DEF Together, ReadyUnderWay
  <2>3. ActiveKnown(x, z, c)
    BY <1>2, <1>4, <1>6 DEF Together, ActiveKnown
  <2>4. /\ z.slot # None => c.slots[z.slot].in_use
        /\ \A k \in Nat : At(z.up, k, "CONNECT") /\ z.slot # None =>
             c.slots[z.slot].state = "CONNECTED"
    BY <1>2, <1>4, <1>6 DEF Together
  <2> QED BY <2>1, <2>2, <2>3, <2>4 DEF Together
<1> QED BY <1>5, <1>6 DEF z

\* A process that stays where it is or starts its control thread, and does not
\* become active.
LEMMA ProcessKeeps ==
  ASSUME NEW x, NEW y, Alone(x, y), NEW c, NEW u,
         u.pc = x.pc \/ (x.pc = "grant" /\ u.pc = "run"),
         u.mode = x.mode,
         u.active => x.active
  PROVE  /\ Alone(u, y)
         /\ Together(x, y, c) => Together(u, y, c)
<1>1. Alone(u, y)
  BY DEF Alone
<1>2. ASSUME Together(x, y, c) PROVE Together(u, y, c)
  <2>1. GrantUnderWay(u, y, c) /\ ReadyUnderWay(u, y, c) /\ ActiveKnown(u, y, c)
    BY <1>2 DEF Together, GrantUnderWay, ReadyUnderWay, ActiveKnown
  <2> QED BY <1>2, <2>1 DEF Together
<1> QED BY <1>1, <1>2

\* A process that is gone.
LEMMA GoneKeeps ==
  ASSUME NEW x, NEW y, Alone(x, y), NEW c,
         NEW u, u.pc = "gone", ~ u.active,
         NEW z, z.slot = y.slot, z.open = y.open, z.down = <<>>,
         ~ y.open => z.up = <<>>,
         \A k \in Nat : At(z.up, k, "CONNECT") => At(y.up, k, "CONNECT")
  PROVE  /\ Alone(u, z)
         /\ Together(x, y, c) => Together(u, z, c)
<1>1. Alone(u, z)
  BY DEF Alone
<1>2. ASSUME Together(x, y, c) PROVE Together(u, z, c)
  <2>1. GrantUnderWay(u, z, c) /\ ReadyUnderWay(u, z, c) /\ ActiveKnown(u, z, c)
    BY DEF GrantUnderWay, ReadyUnderWay, ActiveKnown
  <2> QED BY <1>2, <2>1 DEF Together
<1> QED BY <1>1, <1>2

\* wispc_handle_grant(): the session is in warmup, and READY_FOR_RT ends it.
LEMMA GrantKeeps ==
  ASSUME NEW x, x.pc \in {"grant", "run"}, NEW y \in Connections, y.down # <<>>,
         Head(y.down).kind = "ACTIVATE_GRANT", Alone(x, y), NEW c,
         NEW u, u.pc = "run", u.mode = x.mode
  PROVE  /\ Alone(u, Up(Read(y), "READY_FOR_RT"))
         /\ Together(x, y, c) => Together(u, Up(Read(y), "READY_FOR_RT"), c)
<1> DEFINE r == Read(y)
           z == Up(r, "READY_FOR_RT")
           q == y.down
<1>1. /\ r \in Connections
      /\ r.down = Tail(q)
      /\ r.up = y.up
      /\ r.slot = y.slot
  BY ReadFields
<1>2. r.open = y.open
  BY ReadFields
<1> HIDE DEF r
<1>3. "READY_FOR_RT" \in UpKinds
  BY DEF UpKinds
<1>4. /\ z.down = Tail(q)
      /\ z.slot = y.slot
      /\ ~ y.open => z = r
  BY <1>1, <1>2, <1>3, UpFields
<1>5. z.open = y.open
  BY <1>1, <1>2, <1>3, UpFields
<1>6. /\ \A k \in Nat : \A what : At(z.up, k, what) <=>
           At(y.up, k, what) \/ (y.open /\ k = Len(y.up) + 1 /\ what = "READY_FOR_RT")
      /\ Len(y.up) + 1 \in Nat
  <2>1. /\ \A k \in Nat : \A what : At(z.up, k, what) <=>
             At(r.up, k, what) \/ (r.open /\ k = Len(r.up) + 1 /\ what = "READY_FOR_RT")
        /\ Len(r.up) + 1 \in Nat
    BY <1>1, <1>3, UpFields
  <2> HIDE DEF z
  <2> QED BY <1>1, <1>2, <2>1, Zenon
<1> HIDE DEF z
<1>7. /\ Head(q) = q[1] /\ 1 \in DOMAIN q
      /\ \A k \in Nat : \A kind : At(Tail(q), k, kind) => At(q, k + 1, kind) /\ k > 0
  <2>1. q \in Seq(DownMessage)
    BY DEF Connections
  <2> HIDE DEF q
  <2> QED BY <2>1, TailAt DEF q
<1>8. \A k \in Nat : ~ At(y.up, k, "CONNECT")
  BY ReadAlone
<1>9. Alone(u, z)
  <2>1. /\ z.slot # None => z.open
        /\ ~ z.open => z.up = <<>>
        /\ u.mode
    BY <1>1, <1>4, <1>5 DEF Alone
  <2>2. \A k \in Nat : ~ At(z.up, k, "CONNECT") /\ ~ At(z.up, k, "DISCONNECT")
    BY <1>6, <1>8 DEF Alone
  <2> QED BY <2>1, <2>2 DEF Alone
<1>10. ASSUME Together(x, y, c) PROVE Together(u, z, c)
  <2>1. At(q, 1, "ACTIVATE_GRANT")
    BY <1>7 DEF At
  <2>2. /\ y.slot # None
        /\ c.slots[y.slot].state = "GRANTED_WARMUP"
        /\ \A j \in Nat : ~ At(y.up, j, "READY_FOR_RT")
        /\ \A j \in Nat : At(q, j, "ACTIVATE_GRANT") => j = 1
    BY <1>10, <2>1 DEF Together, GrantUnderWay
  <2>3. y.open
    BY <2>2 DEF Alone
  <2>4. \A j \in Nat : At(z.up, j, "READY_FOR_RT") <=> j = Len(y.up) + 1
    BY <1>6, <2>2, <2>3
  <2>5. ASSUME NEW k \in Nat PROVE ~ At(z.down, k, "ACTIVATE_GRANT")
    <3> SUFFICES ASSUME At(z.down, k, "ACTIVATE_GRANT") PROVE FALSE
      OBVIOUS
    <3>1. At(q, k + 1, "ACTIVATE_GRANT") /\ k > 0 /\ k + 1 \in Nat
      BY <1>4, <1>7
    <3>2. k + 1 = 1
      BY <2>2, <3>1
    <3> QED BY <3>1, <3>2
  <2>6. GrantUnderWay(u, z, c)
    BY <2>5 DEF GrantUnderWay
  <2>7. ReadyUnderWay(u, z, c)
    BY <1>4, <2>2, <2>4 DEF ReadyUnderWay
  <2>8. ActiveKnown(u, z, c)
    BY <1>4, <1>6, <2>2, <2>4 DEF ActiveKnown
  <2>9. /\ z.slot # None => c.slots[z.slot].in_use
        /\ \A k \in Nat : At(z.up, k, "CONNECT") /\ z.slot # None =>
             c.slots[z.slot].state = "CONNECTED"
    BY <1>4, <1>6, <1>8, <1>10 DEF Together
  <2> QED BY <2>6, <2>7, <2>8, <2>9 DEF Together
<1> QED BY <1>9, <1>10 DEF r, z

\* Some step of process p alone.
ClientMoves(p) ==
  /\ cp' = cp /\ server' = server
  /\ client' \in [Procs -> Clients]
  /\ net' \in [Procs -> Connections]
  /\ \A q \in Procs : q # p => client'[q] = client[q] /\ net'[q] = net[q]
  /\ Moves(client[p], net[p], client'[p], net'[p], cp, server)

\* Both ends of a connection.
LEMMA Ends ==
  ASSUME SessionInv(cp, client, net, server), NEW p \in Procs
  PROVE  /\ client \in [Procs -> Clients] /\ net \in [Procs -> Connections]
         /\ client[p] \in Clients /\ net[p] \in Connections
         /\ Alone(client[p], net[p])
         /\ server = "running" => Together(client[p], net[p], cp)
BY DEF SessionInv

\* What is read was in the stream.
LEMMA ReadInherits ==
  ASSUME NEW y \in Connections, y.down # <<>>
  PROVE  /\ \A k \in DOMAIN Tail(y.down) : \E j \in DOMAIN y.down :
              Tail(y.down)[k] = y.down[j]
         /\ 1 \in DOMAIN y.down /\ Head(y.down) = y.down[1]
         /\ Head(y.down) \in DownMessage
<1> DEFINE q == y.down
<1>1. q \in Seq(DownMessage)
  BY DEF Connections
<1> HIDE DEF q
<1>2. /\ Len(q) \in Nat
      /\ DOMAIN q = 1 .. Len(q)
      /\ q # <<>> => /\ DOMAIN Tail(q) = 1 .. (Len(q) - 1)
                     /\ \A k \in 1 .. (Len(q) - 1) : Tail(q)[k] = q[k + 1]
                     /\ Len(q) > 0
                     /\ Head(q) = q[1] /\ Head(q) \in DownMessage
  BY <1>1
<1>3. \A k \in 1 .. (Len(q) - 1) : k + 1 \in 1 .. Len(q)
  BY <1>2
<1>4. q # <<>> => \A k \in DOMAIN Tail(q) : \E j \in DOMAIN q : Tail(q)[k] = q[j]
  BY <1>2, <1>3
<1>5. q # <<>> => 1 \in DOMAIN q
  BY <1>2
<1> QED BY <1>2, <1>4, <1>5 DEF q

\* A process that ends, with a last message or without one.
LEMMA GoneMoves ==
  ASSUME SessionInv(cp, client, net, server), NEW p \in Procs,
         client' = [client EXCEPT ![p] = [NewProcess EXCEPT !.pc = "gone"]],
         \/ net' = [net EXCEPT ![p].down = <<>>]
         \/ net' = SendUp([net EXCEPT ![p].down = <<>>], p, "DISCONNECT"),
         UNCHANGED <<cp, server>>
  PROVE  ClientMoves(p)
<1> DEFINE x == client[p]
           y == net[p]
           u == [NewProcess EXCEPT !.pc = "gone"]
           z == [y EXCEPT !.down = <<>>]
           n == [net EXCEPT ![p] = z]
           v == net'[p]
<1>1. /\ client \in [Procs -> Clients] /\ net \in [Procs -> Connections]
      /\ y \in Connections
      /\ Alone(x, y)
      /\ server = "running" => Together(x, y, cp)
  BY Ends
<1>2. u \in Clients /\ u.pc = "gone" /\ ~ u.active /\ u.granted_generation = 0
  BY DEF NewProcess, Clients
<1>3. /\ z \in Connections
      /\ z.down = <<>>
      /\ z.slot = y.slot
      /\ z.up = y.up
  <2>1. <<>> \in Seq(DownMessage)
    OBVIOUS
  <2> HIDE DEF y
  <2> QED BY <1>1, <2>1 DEF Connections
<1>4. z.open = y.open
  <2> HIDE DEF y
  <2> QED BY <1>1, Zenon DEF Connections
<1>5. /\ net' = n \/ net' = SendUp(n, p, "DISCONNECT")
      /\ client' = [client EXCEPT ![p] = u]
  OBVIOUS
<1> HIDE DEF u, z
<1>6. /\ n \in [Procs -> Connections] /\ n[p] = z
      /\ \A q \in Procs : q # p => n[q] = net[q]
  BY <1>1, <1>3
<1> HIDE DEF n
<1>7. "DISCONNECT" \in UpKinds
  BY DEF UpKinds
<1>8. /\ net' \in [Procs -> Connections]
      /\ v = z \/ v = Up(z, "DISCONNECT")
      /\ \A q \in Procs : q # p => net'[q] = net[q]
  BY <1>5, <1>6, <1>7, SendUpIs
<1>9. /\ client' \in [Procs -> Clients] /\ client'[p] = u
      /\ \A q \in Procs : q # p => client'[q] = client[q]
  BY <1>1, <1>2, <1>5
<1> HIDE DEF x, y, v
<1>10. /\ v.down = <<>>
       /\ v.slot = y.slot
       /\ ~ y.open => v = z
  BY <1>3, <1>4, <1>7, <1>8, UpFields
<1>11. v.open = y.open
  BY <1>3, <1>4, <1>7, <1>8, UpFields
<1>12. \A k \in Nat : At(v.up, k, "CONNECT") => At(y.up, k, "CONNECT")
  <2>1. \A k \in Nat : \A what : At(Up(z, "DISCONNECT").up, k, what) <=>
          At(z.up, k, what) \/ (z.open /\ k = Len(z.up) + 1 /\ what = "DISCONNECT")
    BY <1>3, <1>7, UpFields, Zenon
  <2> QED BY <1>3, <1>8, <2>1
<1>13. ~ y.open => v.up = <<>>
  BY <1>1, <1>3, <1>10 DEF Alone
<1>14. Alone(u, v) /\ (server = "running" => Together(u, v, cp))
  BY <1>1, <1>2, <1>10, <1>11, <1>12, <1>13, GoneKeeps
<1>15. Inherits(x, y, u, v)
  BY <1>2, <1>10 DEF Inherits
<1>16. Moves(x, y, u, v, cp, server)
  BY <1>10, <1>14, <1>15 DEF Moves
<1> QED BY <1>8, <1>9, <1>16 DEF ClientMoves, x, y, v

LEMMA CloseMoves ==
  ASSUME SessionInv(cp, client, net, server), NEW p \in Procs, Close(p),
         UNCHANGED <<cp, server>>
  PROVE  ClientMoves(p)
BY GoneMoves DEF Close

LEMMA LeaveMoves ==
  ASSUME SessionInv(cp, client, net, server), NEW p \in Procs, Leave(p)
  PROVE  ClientMoves(p)
BY GoneMoves DEF Leave

LEMMA CrashMoves ==
  ASSUME SessionInv(cp, client, net, server), NEW p \in Procs, Crash(p)
  PROVE  ClientMoves(p)
BY CloseMoves DEF Crash

\* The connections when process p has read a message.
ReadNet(p) == [net EXCEPT ![p].down = Tail(@)]

LEMMA ReadNetFields ==
  ASSUME SessionInv(cp, client, net, server), NEW p \in Procs, net[p].down # <<>>
  PROVE  /\ ReadNet(p) \in [Procs -> Connections]
         /\ ReadNet(p)[p] = Read(net[p])
         /\ \A q \in Procs : q # p => ReadNet(p)[q] = net[q]
<1>1. net \in [Procs -> Connections] /\ net[p] \in Connections
  BY Ends
<1>2. Read(net[p]) \in Connections
  BY <1>1, ReadFields
<1>3. ReadNet(p) = [net EXCEPT ![p] = Read(net[p])]
  BY DEF ReadNet, Read
<1> QED BY <1>1, <1>2, <1>3

\* A process that keeps what it knows, or gives up being active, and reads at most
\* one message that it need not act on and sends at most one.
LEMMA KeepMoves ==
  ASSUME SessionInv(cp, client, net, server), NEW p \in Procs, NEW u,
         u.pc = client[p].pc \/ (client[p].pc = "grant" /\ u.pc = "run"),
         u.mode = client[p].mode,
         u.active => client[p].active,
         u.granted_generation = client[p].granted_generation,
         NEW v,
         \/ v = net[p]
         \/ /\ net[p].down # <<>> /\ v = Read(net[p])
            /\ u.active => Head(net[p].down).kind \notin StopKinds,
         NEW w,
         \/ w = v
         \/ \E kind \in {"ACTIVATE_REQUEST", "STOPPED", "HEARTBEAT"} : w = Up(v, kind)
  PROVE  Moves(client[p], net[p], u, w, cp, server)
<1> DEFINE x == client[p]
           y == net[p]
<1>1. /\ y \in Connections
      /\ Alone(x, y)
      /\ server = "running" => Together(x, y, cp)
  BY Ends
<1>2. Alone(u, y) /\ (server = "running" => Together(u, y, cp))
  BY <1>1, ProcessKeeps
<1>3. /\ v \in Connections
      /\ Alone(u, v) /\ (server = "running" => Together(u, v, cp))
      /\ v.slot = y.slot
  <2>1. CASE v = y
    BY <1>1, <1>2, <2>1
  <2>2. CASE /\ y.down # <<>> /\ v = Read(y)
             /\ u.active => Head(y.down).kind \notin StopKinds
    BY <1>1, <1>2, <2>2, ReadFields, ReadAlone, ReadTogether
  <2> QED BY <2>1, <2>2
<1>4. \A k \in DOMAIN v.down : \E j \in DOMAIN y.down : v.down[k] = y.down[j]
  <2>1. CASE v = y
    BY <2>1
  <2>2. CASE y.down # <<>> /\ v = Read(y)
    <3>1. v.down = Tail(y.down)
      BY <1>1, <2>2, ReadFields
    <3> QED BY <1>1, <2>2, <3>1, ReadInherits
  <2> QED BY <2>1, <2>2
<1> HIDE DEF x, y
<1>5. /\ w.slot = y.slot /\ w.down = v.down
      /\ Alone(u, w) /\ (server = "running" => Together(u, w, cp))
  <2>1. CASE w = v
    BY <1>3, <2>1
  <2>2. ASSUME NEW kind \in {"ACTIVATE_REQUEST", "STOPPED", "HEARTBEAT"}, w = Up(v, kind)
        PROVE  /\ w.slot = y.slot /\ w.down = v.down
               /\ Alone(u, w) /\ (server = "running" => Together(u, w, cp))
    <3>1. kind \in UpKinds
      BY DEF UpKinds
    <3> QED BY <1>3, <2>2, <3>1, UpFields, UpKeeps
  <2> QED BY <2>1, <2>2
<1>6. Inherits(x, y, u, w)
  BY <1>4, <1>5 DEF Inherits, x
<1> QED BY <1>5, <1>6 DEF Moves, x, y

\* Taking a grant, in wispc_connect() or in the control thread.
LEMMA TakeGrantMoves ==
  ASSUME SessionInv(cp, client, net, server), NEW p \in Procs, net[p].down # <<>>,
         client[p].pc \in {"grant", "run"},
         Head(net[p].down).kind = "ACTIVATE_GRANT",
         TakeGrant(p, ReadNet(p), Head(net[p].down).arg),
         UNCHANGED <<cp, server>>
  PROVE  ClientMoves(p)
<1> DEFINE x == client[p]
           y == net[p]
           g == Head(y.down).arg
           u == [x EXCEPT !.pc = "run", !.granted_generation = g, !.active = TRUE]
           v == Up(Read(y), "READY_FOR_RT")
<1>1. /\ client \in [Procs -> Clients]
      /\ x \in Clients /\ y \in Connections
      /\ Alone(x, y)
      /\ server = "running" => Together(x, y, cp)
  BY Ends
<1>2. /\ \A k \in DOMAIN Tail(y.down) : \E j \in DOMAIN y.down : Tail(y.down)[k] = y.down[j]
      /\ 1 \in DOMAIN y.down /\ Head(y.down) = y.down[1]
      /\ Head(y.down) \in DownMessage
  BY <1>1, ReadInherits
<1>3. g \in Nat
  BY <1>2 DEF DownMessage
<1>4. /\ client' = [client EXCEPT ![p] = u]
      /\ net' = SendUp(ReadNet(p), p, "READY_FOR_RT")
  BY DEF TakeGrant
<1>5. "READY_FOR_RT" \in UpKinds
  BY DEF UpKinds
<1>6. /\ net' \in [Procs -> Connections]
      /\ net'[p] = v
      /\ \A q \in Procs : q # p => net'[q] = net[q]
  BY <1>4, <1>5, ReadNetFields, SendUpIs
<1>7. /\ u \in Clients
      /\ u.pc = "run"
      /\ u.granted_generation = g
  <2> HIDE DEF x, g
  <2> QED BY <1>1, <1>3 DEF Clients
<1>8. u.mode = x.mode
  <2> HIDE DEF x, g
  <2> QED BY <1>1, Zenon DEF Clients
<1> HIDE DEF u
<1>9. /\ client' \in [Procs -> Clients] /\ client'[p] = u
      /\ \A q \in Procs : q # p => client'[q] = client[q]
  BY <1>1, <1>4, <1>7
<1>10. Alone(u, v) /\ (server = "running" => Together(u, v, cp))
  <2>1. x.pc \in {"grant", "run"} /\ y.down # <<>> /\ Head(y.down).kind = "ACTIVATE_GRANT"
    OBVIOUS
  <2> HIDE DEF x, y
  <2> QED BY <1>1, <1>7, <1>8, <2>1, GrantKeeps, SMTT(30)
<1>11. v.slot = y.slot /\ v.down = Tail(y.down)
  BY <1>1, <1>5, ReadFields, UpFields
<1>12. Inherits(x, y, u, v)
  <2> HIDE DEF v
  <2> QED BY <1>2, <1>7, <1>11 DEF Inherits
<1>13. Moves(x, y, u, v, cp, server)
  BY <1>10, <1>11, <1>12 DEF Moves
<1> QED BY <1>6, <1>9, <1>13 DEF ClientMoves

LEMMA ConnectMoves ==
  ASSUME SessionInv(cp, client, net, server), NEW p \in Procs, Connect(p)
  PROVE  ClientMoves(p)
<1> DEFINE x == client[p]
           y == net[p]
           u == [x EXCEPT !.pc = "mode"]
<1>1. /\ client \in [Procs -> Clients] /\ net \in [Procs -> Connections]
      /\ x \in Clients /\ y \in Connections
      /\ Alone(x, y)
      /\ server = "running" => Together(x, y, cp)
  BY Ends
<1>2. PICK msg \in ConnectMessages :
        net' = [net EXCEPT ![p].open = TRUE,
                           ![p].up = <<[kind |-> "CONNECT", body |-> msg]>>]
  BY DEF Connect
<1> DEFINE m == [kind |-> "CONNECT", body |-> msg]
           v == [y EXCEPT !.open = TRUE, !.up = <<m>>]
<1>3. net' = [net EXCEPT ![p] = v] /\ client' = [client EXCEPT ![p] = u]
  BY <1>1, <1>2 DEF Connect
<1>4. m \in UpMessage /\ m.kind = "CONNECT"
  BY DEF UpMessage
<1>5. /\ u \in Clients /\ u.pc = "mode"
      /\ u.granted_generation = x.granted_generation
  <2> HIDE DEF x
  <2> QED BY <1>1 DEF Clients
<1>6. u.active = x.active
  <2> HIDE DEF x
  <2> QED BY <1>1, Zenon DEF Clients
<1>7. x.pc = "new"
  BY DEF Connect
<1>8. ~ x.active /\ y.slot = None /\ y.down = <<>>
  BY <1>1, <1>7 DEF Alone
<1> HIDE DEF m
<1>9. /\ v \in Connections
      /\ v.up = <<m>>
      /\ v.slot = None
      /\ v.down = <<>>
  <2> HIDE DEF y
  <2>1. <<m>> \in Seq(UpMessage)
    BY <1>4
  <2> QED BY <1>1, <1>8, <2>1 DEF Connections
<1>10. v.open
  <2> HIDE DEF y
  <2> QED BY <1>1 DEF Connections
<1> HIDE DEF x, y, u, v
<1>11. \A k \in Nat : \A what : At(v.up, k, what) => k = 1 /\ what = "CONNECT"
  BY <1>4, <1>9 DEF At
<1>12. Alone(u, v)
  BY <1>5, <1>6, <1>8, <1>9, <1>10, <1>11 DEF Alone
<1>13. Together(u, v, cp)
  <2>1. GrantUnderWay(u, v, cp) /\ ReadyUnderWay(u, v, cp) /\ ActiveKnown(u, v, cp)
    BY <1>6, <1>8, <1>9, <1>11 DEF GrantUnderWay, ReadyUnderWay, ActiveKnown, At
  <2> QED BY <1>9, <2>1 DEF Together
<1>14. Inherits(x, y, u, v)
  BY <1>5, <1>6, <1>9 DEF Inherits
<1>15. Moves(x, y, u, v, cp, server)
  BY <1>8, <1>9, <1>12, <1>13, <1>14 DEF Moves
<1>16. /\ client' \in [Procs -> Clients] /\ client'[p] = u
       /\ net' \in [Procs -> Connections] /\ net'[p] = v
       /\ \A q \in Procs : q # p => client'[q] = client[q] /\ net'[q] = net[q]
  BY <1>1, <1>3, <1>5, <1>9
<1> QED BY <1>15, <1>16 DEF ClientMoves, Connect, x, y

\* wispc_connect() asks for the slot, when its CONNECT was read.
LEMMA AskKeeps ==
  ASSUME NEW x, NEW y, Alone(x, y), NEW c, x.pc = "mode",
         \A k \in Nat : ~ At(y.up, k, "CONNECT"),
         NEW u, u.pc = "grant", ~ u.active,
         ~ u.mode => ~ y.open /\ y.down = <<>>
  PROVE  /\ Alone(u, y)
         /\ Together(x, y, c) => Together(u, y, c)
<1>1. Alone(u, y)
  BY DEF Alone
<1>2. ASSUME Together(x, y, c) PROVE Together(u, y, c)
  <2>1. GrantUnderWay(u, y, c) /\ ReadyUnderWay(u, y, c) /\ ActiveKnown(u, y, c)
    BY <1>2 DEF Together, GrantUnderWay, ReadyUnderWay, ActiveKnown
  <2> QED BY <1>2, <2>1 DEF Together
<1> QED BY <1>1, <1>2

\* A process that only changes its own state.
LEMMA SilentMoves ==
  ASSUME SessionInv(cp, client, net, server), NEW p \in Procs, NEW u \in Clients,
         client' = [client EXCEPT ![p] = u],
         UNCHANGED <<cp, net, server>>,
         Moves(client[p], net[p], u, net[p], cp, server)
  PROVE  ClientMoves(p)
<1>1. client \in [Procs -> Clients] /\ net \in [Procs -> Connections]
  BY Ends
<1>2. /\ client' \in [Procs -> Clients] /\ client'[p] = u
      /\ \A q \in Procs : q # p => client'[q] = client[q]
  BY <1>1
<1> QED BY <1>1, <1>2 DEF ClientMoves

LEMMA RecvModeMoves ==
  ASSUME SessionInv(cp, client, net, server), NEW p \in Procs, RecvMode(p)
  PROVE  ClientMoves(p)
<1> DEFINE x == client[p]
           y == net[p]
           r == Read(y)
           u == [x EXCEPT !.pc = "grant", !.mode = TRUE]
           v == Up(r, "ACTIVATE_REQUEST")
<1>1. /\ client \in [Procs -> Clients]
      /\ x \in Clients /\ y \in Connections
      /\ Alone(x, y)
      /\ server = "running" => Together(x, y, cp)
  BY Ends
<1>2. y.down # <<>> /\ x.pc = "mode" /\ UNCHANGED <<cp, server>>
  BY DEF RecvMode
<1>3. Close(p) \/ AskFirst(p, ReadNet(p), TRUE)
  BY DEF RecvMode, ReadNet
<1>4. CASE Close(p)
  BY <1>2, <1>4, CloseMoves
<1>5. CASE AskFirst(p, ReadNet(p), TRUE)
  <2>1. /\ client' = [client EXCEPT ![p] = u]
        /\ net' = SendUp(ReadNet(p), p, "ACTIVATE_REQUEST")
    BY <1>5 DEF AskFirst
  <2>2. "ACTIVATE_REQUEST" \in UpKinds
    BY DEF UpKinds
  <2>3. /\ net' \in [Procs -> Connections]
        /\ net'[p] = v
        /\ \A q \in Procs : q # p => net'[q] = net[q]
    BY <1>2, <2>1, <2>2, ReadNetFields, SendUpIs
  <2>4. /\ u \in Clients /\ u.pc = "grant" /\ u.mode
        /\ u.granted_generation = x.granted_generation
    <3> HIDE DEF x
    <3> QED BY <1>1 DEF Clients
  <2>5. ~ u.active
    <3>1. ~ x.active
      BY <1>1, <1>2 DEF Alone
    <3>2. u.active = x.active
      <4> HIDE DEF x
      <4> QED BY <1>1, Zenon DEF Clients
    <3> QED BY <3>1, <3>2
  <2> HIDE DEF u
  <2>6. /\ client' \in [Procs -> Clients] /\ client'[p] = u
        /\ \A q \in Procs : q # p => client'[q] = client[q]
    BY <1>1, <2>1, <2>4
  <2> HIDE DEF x, y
  <2>7. /\ r \in Connections
        /\ r.slot = y.slot
        /\ r.down = Tail(y.down)
        /\ r.up = y.up
    BY <1>1, <1>2, ReadFields
  <2>8. ~ x.active /\ Alone(x, r) /\ \A k \in Nat : ~ At(r.up, k, "CONNECT")
    BY <1>1, <1>2, <2>7, ReadAlone DEF Alone
  <2>9. server = "running" => Together(x, r, cp)
    BY <1>1, <1>2, <2>8, ReadTogether
  <2> HIDE DEF r
  <2>10. Alone(u, r) /\ (server = "running" => Together(u, r, cp))
    BY <1>2, <2>4, <2>5, <2>8, <2>9, AskKeeps
  <2>11. Alone(u, v) /\ (server = "running" => Together(u, v, cp))
    BY <2>7, <2>10, UpKeeps
  <2>12. v.slot = y.slot /\ v.down = Tail(y.down)
    BY <2>2, <2>7, UpFields
  <2> HIDE DEF v
  <2>13. Inherits(x, y, u, v)
    BY <1>1, <1>2, <2>4, <2>5, <2>12, ReadInherits DEF Inherits
  <2>14. Moves(x, y, u, v, cp, server)
    BY <2>11, <2>12, <2>13 DEF Moves
  <2> QED BY <1>2, <2>3, <2>6, <2>14 DEF ClientMoves, x, y
<1> QED BY <1>3, <1>4, <1>5

LEMMA RecvNoModeMoves ==
  ASSUME SessionInv(cp, client, net, server), NEW p \in Procs, RecvNoMode(p)
  PROVE  ClientMoves(p)
<1> DEFINE x == client[p]
           y == net[p]
           u == [x EXCEPT !.pc = "grant", !.mode = FALSE]
<1>1. /\ client \in [Procs -> Clients] /\ net \in [Procs -> Connections]
      /\ x \in Clients /\ y \in Connections
      /\ Alone(x, y)
      /\ server = "running" => Together(x, y, cp)
  BY Ends
<1>2. ~ y.open /\ y.down = <<>> /\ x.pc = "mode" /\ UNCHANGED <<cp, server>>
  BY DEF RecvNoMode, AtEnd
<1>3. Close(p) \/ AskFirst(p, net, FALSE)
  BY DEF RecvNoMode
<1>4. CASE Close(p)
  BY <1>2, <1>4, CloseMoves
<1>5. CASE AskFirst(p, net, FALSE)
  <2>1. /\ client' = [client EXCEPT ![p] = u]
        /\ net' = SendUp(net, p, "ACTIVATE_REQUEST")
    BY <1>5 DEF AskFirst
  <2>2. net' = net
    BY <1>2, <2>1 DEF SendUp
  <2>3. /\ u \in Clients /\ u.pc = "grant"
        /\ u.granted_generation = x.granted_generation
    <3> HIDE DEF x
    <3> QED BY <1>1 DEF Clients
  <2>4. ~ u.active
    <3>1. ~ x.active
      BY <1>1, <1>2 DEF Alone
    <3>2. u.active = x.active
      <4> HIDE DEF x
      <4> QED BY <1>1, Zenon DEF Clients
    <3> QED BY <3>1, <3>2
  <2>5. \A k \in Nat : ~ At(y.up, k, "CONNECT")
    BY <1>1, <1>2 DEF Alone, At
  <2> HIDE DEF u
  <2>6. Alone(u, y) /\ (server = "running" => Together(u, y, cp))
    BY <1>1, <1>2, <2>3, <2>4, <2>5, AskKeeps
  <2>7. Inherits(x, y, u, y)
    BY <2>3, <2>4 DEF Inherits
  <2>8. Moves(x, y, u, y, cp, server)
    BY <2>6, <2>7 DEF Moves
  <2> QED BY <1>2, <2>1, <2>2, <2>3, <2>8, SilentMoves
<1> QED BY <1>3, <1>4, <1>5

\* A process that keeps what it knows and reads a message, sends one, or both.
LEMMA QuietMoves ==
  ASSUME SessionInv(cp, client, net, server), NEW p \in Procs, NEW u \in Clients,
         client' = [client EXCEPT ![p] = u],
         u.pc = client[p].pc \/ (client[p].pc = "grant" /\ u.pc = "run"),
         u.mode = client[p].mode,
         u.active => client[p].active,
         u.granted_generation = client[p].granted_generation,
         UNCHANGED <<cp, server>>,
         NEW n, net' = n \/ \E kind \in {"ACTIVATE_REQUEST", "STOPPED", "HEARTBEAT"} :
                              net' = SendUp(n, p, kind),
         \/ n = net
         \/ /\ net[p].down # <<>> /\ n = ReadNet(p)
            /\ u.active => Head(net[p].down).kind \notin StopKinds
  PROVE  ClientMoves(p)
<1> DEFINE y == net[p]
<1>1. client \in [Procs -> Clients] /\ net \in [Procs -> Connections]
  BY Ends
<1>2. /\ client' \in [Procs -> Clients] /\ client'[p] = u
      /\ \A q \in Procs : q # p => client'[q] = client[q]
  BY <1>1
<1>3. /\ n \in [Procs -> Connections]
      /\ n[p] = y \/ (y.down # <<>> /\ n[p] = Read(y)
                      /\ (u.active => Head(y.down).kind \notin StopKinds))
      /\ \A q \in Procs : q # p => n[q] = net[q]
  BY <1>1, ReadNetFields
<1>4. /\ net' \in [Procs -> Connections]
      /\ \/ net'[p] = n[p]
         \/ \E kind \in {"ACTIVATE_REQUEST", "STOPPED", "HEARTBEAT"} :
              net'[p] = Up(n[p], kind)
      /\ \A q \in Procs : q # p => net'[q] = net[q]
  <2>1. CASE net' = n
    BY <1>3, <2>1
  <2>2. ASSUME NEW kind \in {"ACTIVATE_REQUEST", "STOPPED", "HEARTBEAT"},
               net' = SendUp(n, p, kind)
        PROVE  /\ net' \in [Procs -> Connections]
               /\ net'[p] = Up(n[p], kind)
               /\ \A q \in Procs : q # p => net'[q] = net[q]
    <3>1. kind \in UpKinds
      BY DEF UpKinds
    <3> QED BY <1>3, <2>2, <3>1, SendUpIs
  <2> QED BY <2>1, <2>2
<1>5. Moves(client[p], net[p], u, net'[p], cp, server)
  BY <1>3, <1>4, KeepMoves
<1> QED BY <1>2, <1>4, <1>5 DEF ClientMoves

\* What the steps that keep a process as it is write.
LEMMA ClientFields ==
  ASSUME NEW x \in Clients, NEW u,
         \/ u = x
         \/ u = [x EXCEPT !.attached = FALSE]
         \/ u = [x EXCEPT !.active = FALSE]
         \/ x.pc = "grant" /\ u = [x EXCEPT !.pc = "run"]
         \/ \E w \in {"out", "entered", "stale"} : u = [x EXCEPT !.publish = w]
         \/ \E w \in {"out", "loaded", "stale"}, g \in Nat :
              u = [x EXCEPT !.publish = w, !.seen = g]
         \/ u = [x EXCEPT !.publish = "out", !.active = FALSE]
  PROVE  /\ u \in Clients
         /\ u.pc = x.pc \/ (x.pc = "grant" /\ u.pc = "run")
         /\ u.mode = x.mode
         /\ u.active => x.active
         /\ u.granted_generation = x.granted_generation
<1>1. /\ u \in Clients
      /\ u.pc = x.pc \/ (x.pc = "grant" /\ u.pc = "run")
      /\ u.granted_generation = x.granted_generation
  BY DEF Clients
<1>2. u.mode = x.mode
  BY DEF Clients
<1>3. u.active => x.active
  BY DEF Clients
<1> QED BY <1>1, <1>2, <1>3

LEMMA RecvFirstMoves ==
  ASSUME SessionInv(cp, client, net, server), NEW p \in Procs, RecvFirst(p)
  PROVE  ClientMoves(p)
<1> DEFINE x == client[p]
           u == [x EXCEPT !.pc = "run"]
           msg == Head(net[p].down)
<1>1. x \in Clients /\ Alone(x, net[p])
  BY Ends
<1>2. /\ x.pc = "grant" /\ net[p].down # <<>> /\ UNCHANGED <<cp, server>>
      /\ \/ msg.kind = "ACTIVATE_GRANT" /\ TakeGrant(p, ReadNet(p), msg.arg)
         \/ Close(p)
         \/ client' = [client EXCEPT ![p] = u] /\ net' = ReadNet(p)
  BY DEF RecvFirst, ReadNet
<1>3. CASE msg.kind = "ACTIVATE_GRANT" /\ TakeGrant(p, ReadNet(p), msg.arg)
  BY <1>2, <1>3, TakeGrantMoves
<1>4. CASE Close(p)
  BY <1>2, <1>4, CloseMoves
<1>5. CASE client' = [client EXCEPT ![p] = u] /\ net' = ReadNet(p)
  <2>1. /\ u \in Clients
        /\ u.pc = x.pc \/ (x.pc = "grant" /\ u.pc = "run")
        /\ u.mode = x.mode
        /\ u.active => x.active
        /\ u.granted_generation = x.granted_generation
    <3>1. u = [x EXCEPT !.pc = "run"]
      OBVIOUS
    <3> HIDE DEF u, x
    <3> QED BY <1>1, <1>2, <3>1, ClientFields
  <2>2. ~ x.active
    BY <1>1, <1>2 DEF Alone
  <2> HIDE DEF u
  <2> QED BY <1>2, <1>5, <2>1, <2>2, QuietMoves
<1> QED BY <1>2, <1>3, <1>4, <1>5

LEMMA RecvNoFirstMoves ==
  ASSUME SessionInv(cp, client, net, server), NEW p \in Procs, RecvNoFirst(p)
  PROVE  ClientMoves(p)
<1> DEFINE x == client[p]
           u == [x EXCEPT !.pc = "run"]
<1>1. x \in Clients
  BY Ends
<1>2. /\ x.pc = "grant" /\ client' = [client EXCEPT ![p] = u] /\ net' = net
      /\ UNCHANGED <<cp, server>>
  BY DEF RecvNoFirst
<1>3. /\ u \in Clients
      /\ u.pc = x.pc \/ (x.pc = "grant" /\ u.pc = "run")
      /\ u.mode = x.mode
      /\ u.active => x.active
      /\ u.granted_generation = x.granted_generation
  <2>1. u = [x EXCEPT !.pc = "run"]
    OBVIOUS
  <2> HIDE DEF u, x
  <2> QED BY <1>1, <1>2, <2>1, ClientFields
<1> HIDE DEF u
<1> QED BY <1>2, <1>3, QuietMoves

LEMMA RecvMessageMoves ==
  ASSUME SessionInv(cp, client, net, server), NEW p \in Procs, RecvMessage(p)
  PROVE  ClientMoves(p)
<1> DEFINE x == client[p]
           msg == Head(net[p].down)
           off == [x EXCEPT !.active = FALSE]
           lost == [x EXCEPT !.attached = FALSE]
<1>1. x \in Clients /\ client \in [Procs -> Clients]
  BY Ends
<1>2. x.pc = "run" /\ net[p].down # <<>> /\ UNCHANGED <<cp, server>>
  BY DEF RecvMessage, Running
<1>3. \/ msg.kind = "ACTIVATE_GRANT" /\ TakeGrant(p, ReadNet(p), msg.arg)
      \/ /\ msg.kind = "ACTIVATE_GRANT" /\ net' = ReadNet(p)
         /\ client' = [client EXCEPT ![p] = lost]
      \/ net' = ReadNet(p) /\ client' = [client EXCEPT ![p] = off]
      \/ net' = SendUp(ReadNet(p), p, "STOPPED") /\ client' = [client EXCEPT ![p] = off]
      \/ msg.kind \notin StopKinds /\ net' = ReadNet(p) /\ client' = client
  BY DEF RecvMessage, ReadNet, StopKinds
<1>4. CASE msg.kind = "ACTIVATE_GRANT" /\ TakeGrant(p, ReadNet(p), msg.arg)
  BY <1>2, <1>4, TakeGrantMoves
<1>5. /\ off \in Clients
      /\ off.pc = x.pc \/ (x.pc = "grant" /\ off.pc = "run")
      /\ off.mode = x.mode
      /\ ~ off.active
      /\ off.granted_generation = x.granted_generation
  <2>1. off = [x EXCEPT !.active = FALSE]
    OBVIOUS
  <2>2. ~ off.active
    <3> HIDE DEF x
    <3> QED BY <1>1 DEF Clients
  <2> HIDE DEF off, x
  <2> QED BY <1>1, <2>1, <2>2, ClientFields
<1>6. /\ lost \in Clients
      /\ lost.pc = x.pc \/ (x.pc = "grant" /\ lost.pc = "run")
      /\ lost.mode = x.mode
      /\ lost.active => x.active
      /\ lost.granted_generation = x.granted_generation
  <2>1. lost = [x EXCEPT !.attached = FALSE]
    OBVIOUS
  <2> HIDE DEF lost, x
  <2> QED BY <1>1, <2>1, ClientFields
<1> HIDE DEF off, lost
<1>7. CASE /\ msg.kind = "ACTIVATE_GRANT" /\ net' = ReadNet(p)
           /\ client' = [client EXCEPT ![p] = lost]
  <2>1. msg.kind \notin StopKinds
    BY <1>7 DEF StopKinds
  <2> QED BY <1>2, <1>6, <1>7, <2>1, QuietMoves
<1>8. CASE /\ net' = ReadNet(p) \/ net' = SendUp(ReadNet(p), p, "STOPPED")
           /\ client' = [client EXCEPT ![p] = off]
  BY <1>2, <1>5, <1>8, QuietMoves
<1>9. CASE msg.kind \notin StopKinds /\ net' = ReadNet(p) /\ client' = client
  <2>1. client' = [client EXCEPT ![p] = x]
    BY <1>1, <1>9
  <2> QED BY <1>1, <1>2, <1>9, <2>1, QuietMoves
<1> QED BY <1>3, <1>4, <1>7, <1>8, <1>9

LEMMA TimerMoves ==
  ASSUME SessionInv(cp, client, net, server), NEW p \in Procs,
         Heartbeat(p) \/ RetryActivate(p)
  PROVE  ClientMoves(p)
<1> DEFINE x == client[p]
<1>1. x \in Clients /\ client \in [Procs -> Clients]
  BY Ends
<1>2. /\ UNCHANGED <<cp, client, server>>
      /\ \E kind \in {"ACTIVATE_REQUEST", "STOPPED", "HEARTBEAT"} :
           net' = SendUp(net, p, kind)
  BY DEF Heartbeat, RetryActivate
<1>3. client' = [client EXCEPT ![p] = x]
  BY <1>1, <1>2
<1> QED BY <1>1, <1>2, <1>3, QuietMoves

LEMMA PublishMoves ==
  ASSUME SessionInv(cp, client, net, server), NEW p \in Procs, Publish(p)
  PROVE  ClientMoves(p)
<1> DEFINE x == client[p]
<1>1. x \in Clients /\ client \in [Procs -> Clients]
  BY Ends
<1>2. cp.generation \in Nat
  BY DEF SessionInv, Inv, ControlPlanes, Generations
<1>3. PICK u : /\ client' = [client EXCEPT ![p] = u]
               /\ \/ \E w \in {"out", "entered", "stale"} : u = [x EXCEPT !.publish = w]
                  \/ \E w \in {"out", "loaded", "stale"}, g \in Nat :
                       u = [x EXCEPT !.publish = w, !.seen = g]
                  \/ u = [x EXCEPT !.publish = "out", !.active = FALSE]
  <2>1. CASE client' = [client EXCEPT ![p].publish = "entered"]
    BY <2>1
  <2>2. CASE client' = [client EXCEPT ![p].publish = "loaded", ![p].seen = cp.generation]
    <3> DEFINE u == [x EXCEPT !.publish = "loaded", !.seen = cp.generation]
    <3>1. client' = [client EXCEPT ![p] = u]
      BY <1>1, <2>2
    <3> QED BY <1>2, <3>1
  <2>3. CASE client' = [client EXCEPT ![p].publish = IF @ = "loaded" /\ client[p].seen
                                            # client[p].granted_generation
                                       THEN "stale" ELSE "out",
                                      ![p].seen = 0]
    <3> DEFINE w == IF x.publish = "loaded" /\ x.seen # x.granted_generation
                    THEN "stale" ELSE "out"
               u == [x EXCEPT !.publish = w, !.seen = 0]
    <3>1. client' = [client EXCEPT ![p] = u]
      BY <1>1, <2>3
    <3>2. w \in {"out", "loaded", "stale"}
      OBVIOUS
    <3> QED BY <3>1, <3>2
  <2>4. CASE client' = [client EXCEPT ![p].publish = "out", ![p].active = FALSE]
    <3> DEFINE u == [x EXCEPT !.publish = "out", !.active = FALSE]
    <3>1. client' = [client EXCEPT ![p] = u]
      BY <1>1, <2>4
    <3> QED BY <3>1
  <2> QED BY <2>1, <2>2, <2>3, <2>4 DEF Publish
<1>4. /\ u \in Clients
      /\ u.pc = x.pc \/ (x.pc = "grant" /\ u.pc = "run")
      /\ u.mode = x.mode
      /\ u.active => x.active
      /\ u.granted_generation = x.granted_generation
  BY <1>1, <1>3, ClientFields
<1>5. UNCHANGED <<cp, net, server>>
  BY DEF Publish
<1> QED BY <1>3, <1>4, <1>5, QuietMoves

-----------------------------------------------------------------------------
(* Generations, short of a wrap of the counter *)

\* The generations process x on connection y was granted, or will read a grant of.
Owns(x, y, g) ==
  \/ x.granted_generation = g
  \/ \E k \in DOMAIN y.down : y.down[k].kind = "ACTIVATE_GRANT" /\ y.down[k].arg = g

\* Nobody owns a generation that is yet to come, and but for the initial 0 each
\* one has one owner; an active process owns one.
OwnedOnce(c, cl, n) ==
  /\ \A p \in Procs : \A g \in Nat : Owns(cl[p], n[p], g) => g <= c.generation
  /\ \A p, q \in Procs : \A g \in Nat :
       g > 0 /\ Owns(cl[p], n[p], g) /\ Owns(cl[q], n[q], g) => p = q
  /\ \A p \in Procs : cl[p].active => cl[p].granted_generation > 0
  /\ \A p \in Procs : \A k \in DOMAIN n[p].down :
       n[p].down[k].kind = "ACTIVATE_GRANT" => n[p].down[k].arg > 0

\* The steps of the processes keep both invariants.
LEMMA ClientMovesInv ==
  ASSUME SessionInv(cp, client, net, server), NEW p \in Procs, ClientMoves(p)
  PROVE  /\ SessionInv(cp', client', net', server')
         /\ OwnedOnce(cp, client, net) => OwnedOnce(cp', client', net')
<1> DEFINE x == client[p]
           y == net[p]
           u == client'[p]
           v == net'[p]
<1>1. /\ cp' = cp /\ server' = server
      /\ client' \in [Procs -> Clients] /\ net' \in [Procs -> Connections]
      /\ \A q \in Procs : q # p => client'[q] = client[q] /\ net'[q] = net[q]
      /\ v.slot = y.slot
      /\ Alone(u, v)
      /\ server = "running" => Together(u, v, cp)
      /\ Inherits(x, y, u, v)
  BY DEF ClientMoves, Moves
<1>2. SessionInv(cp', client', net', server')
  BY <1>1, ClientStep
<1>3. ASSUME OwnedOnce(cp, client, net) PROVE OwnedOnce(cp', client', net')
  <2>0. cp.generation \in Nat /\ u.granted_generation \in Nat
    BY <1>1 DEF SessionInv, Inv, ControlPlanes, Generations, Clients
  <2>1. ASSUME NEW g \in Nat, g > 0, Owns(u, v, g) PROVE Owns(x, y, g)
    <3>1. CASE u.granted_generation = g
      BY <1>1, <2>1, <3>1 DEF Inherits, Owns
    <3>2. CASE \E k \in DOMAIN v.down :
                 v.down[k].kind = "ACTIVATE_GRANT" /\ v.down[k].arg = g
      BY <1>1, <3>2 DEF Inherits, Owns
    <3> QED BY <2>1, <3>1, <3>2 DEF Owns
  <2> DEFINE Old(q, g) == Owns(client[q], net[q], g)
             New(q, g) == Owns(client'[q], net'[q], g)
  <2>2. \A q \in Procs : \A g \in Nat : g > 0 /\ New(q, g) => Old(q, g)
    BY <1>1, <2>1
  <2>3. /\ \A q \in Procs : \A g \in Nat : Old(q, g) => g <= cp.generation
        /\ \A q, r \in Procs : \A g \in Nat : g > 0 /\ Old(q, g) /\ Old(r, g) => q = r
    BY <1>3 DEF OwnedOnce
  <2> HIDE DEF Old, New
  <2>4. \A q \in Procs : \A g \in Nat : New(q, g) => g <= cp'.generation
    BY <1>1, <2>0, <2>2, <2>3
  <2>5. \A q, r \in Procs : \A g \in Nat : g > 0 /\ New(q, g) /\ New(r, g) => q = r
    BY <2>2, <2>3
  <2>6. \A k \in DOMAIN v.down : v.down[k].kind = "ACTIVATE_GRANT" => v.down[k].arg > 0
    BY <1>1, <1>3 DEF Inherits, OwnedOnce
  <2>7. u.active => u.granted_generation > 0
    BY <1>1, <1>3 DEF Inherits, OwnedOnce
  <2>8. /\ \A q \in Procs : client'[q].active => client'[q].granted_generation > 0
        /\ \A q \in Procs : \A k \in DOMAIN net'[q].down :
             net'[q].down[k].kind = "ACTIVATE_GRANT" => net'[q].down[k].arg > 0
    BY <1>1, <1>3, <2>6, <2>7 DEF OwnedOnce
  <2> QED BY <2>4, <2>5, <2>8 DEF OwnedOnce, New
<1> QED BY <1>2, <1>3

-----------------------------------------------------------------------------
(* What a handler does to the connections *)

\* The connection y of process x is z once the server has read the message (of
\* this kind, from slot i) that it handles.
Handed(x, y, z, i, kind) ==
  /\ z \in Connections
  /\ z.slot = y.slot /\ z.open = y.open /\ z.down = y.down
  /\ \/ /\ z.up = y.up
        /\ y.slot # None /\ y.slot = i => x.pc = "gone" /\ y.up = <<>>
     \/ /\ y.slot # None /\ y.slot = i
        /\ y.up # <<>> /\ z.up = Tail(y.up) /\ kind = Head(y.up).kind

LEMMA HandedAt ==
  ASSUME NEW x, NEW y \in Connections, NEW z, NEW i, NEW kind, Handed(x, y, z, i, kind)
  PROVE  \E s \in {0, 1} :
           /\ \A k \in Nat : \A what : At(z.up, k, what) => At(y.up, k + s, what) /\ k > 0
           /\ \A k \in Nat : \A what : At(y.up, k, what) /\ (s = 1 => k # 1) =>
                At(z.up, k - s, what) /\ k - s \in Nat
           /\ s = 1 => y.slot # None /\ y.slot = i /\ At(y.up, 1, kind)
           /\ s = 0 /\ y.slot # None => y.slot # i \/ (x.pc = "gone" /\ y.up = <<>>)
<1>1. y.up \in Seq(UpMessage) /\ z.up \in Seq(UpMessage)
  BY DEF Connections, Handed
<1>2. CASE /\ z.up = y.up
           /\ y.slot # None /\ y.slot = i => x.pc = "gone" /\ y.up = <<>>
  <2>1. \A k \in Nat : \A what : At(y.up, k, what) => k > 0
    BY <1>1 DEF At
  <2>2. /\ \A k \in Nat : \A what : At(z.up, k, what) => At(y.up, k + 0, what) /\ k > 0
        /\ \A k \in Nat : \A what : At(y.up, k, what) => At(z.up, k - 0, what) /\ k - 0 \in Nat
    <3>1. \A k \in Nat : k + 0 = k /\ k - 0 = k
      OBVIOUS
    <3> QED BY <1>2, <2>1, <3>1, Zenon
  <2> QED BY <1>2, <2>2
<1>3. CASE /\ y.slot # None /\ y.slot = i
           /\ y.up # <<>> /\ z.up = Tail(y.up) /\ kind = Head(y.up).kind
  <2>1. /\ Head(y.up) = y.up[1] /\ 1 \in DOMAIN y.up
        /\ \A k \in Nat : \A what : At(Tail(y.up), k, what) => At(y.up, k + 1, what) /\ k > 0
        /\ \A k \in Nat : \A what : At(y.up, k, what) => k > 0
        /\ \A k \in Nat : \A what : At(y.up, k, what) /\ k # 1 => At(Tail(y.up), k - 1, what)
    BY <1>1, <1>3, TailAt
  <2>2. \A k \in Nat : k > 0 => k - 1 \in Nat
    OBVIOUS
  <2>3. At(y.up, 1, kind)
    BY <1>3, <2>1 DEF At
  <2> QED BY <1>3, <2>1, <2>2, <2>3
<1> QED BY <1>2, <1>3 DEF Handed

\* The connection z of process x after a handler that leaves d.
Delivered(x, z, d) ==
  LET i == z.slot
  IN  IF i = None
      THEN z
      ELSE [z EXCEPT !.down = IF x.pc = "gone" THEN @ ELSE @ \o SentTo(d, i),
                     !.slot = IF d.slots[i].in_use THEN i ELSE None,
                     !.open = d.slots[i].in_use,
                     !.up = IF d.slots[i].in_use THEN @ ELSE <<>>]

LEMMA DeliveredFields ==
  ASSUME NEW x, NEW z \in Connections, NEW d \in ControlPlanes
  PROVE  /\ Delivered(x, z, d) \in Connections
         /\ z.slot = None => Delivered(x, z, d) = z
         /\ z.slot # None =>
              /\ z.slot \in Slots
              /\ x.pc = "gone" => Delivered(x, z, d).down = z.down
              /\ x.pc # "gone" => Delivered(x, z, d).down = z.down \o SentTo(d, z.slot)
              /\ d.slots[z.slot].in_use =>
                   /\ Delivered(x, z, d).slot = z.slot
                   /\ Delivered(x, z, d).open
                   /\ Delivered(x, z, d).up = z.up
              /\ ~ d.slots[z.slot].in_use =>
                   /\ Delivered(x, z, d).slot = None
                   /\ ~ Delivered(x, z, d).open
                   /\ Delivered(x, z, d).up = <<>>
<1> DEFINE i == z.slot
           b == d.slots[i].in_use
           q == IF x.pc = "gone" THEN z.down ELSE z.down \o SentTo(d, i)
           j == IF b THEN i ELSE None
           r == IF b THEN z.up ELSE <<>>
           w == [z EXCEPT !.down = q, !.slot = j, !.open = b, !.up = r]
<1>1. Delivered(x, z, d) = IF i = None THEN z ELSE w
  BY Zenon DEF Delivered
<1>2. i \in SlotOrNone /\ z.down \in Seq(DownMessage) /\ z.up \in Seq(UpMessage)
  BY DEF Connections
<1>3. SentTo(d, i) \in Seq(DownMessage)
  BY SentToCarries DEF Carries
<1>4. q \in Seq(DownMessage)
  <2>1. \A s, t \in Seq(DownMessage) : s \o t \in Seq(DownMessage)
    OBVIOUS
  <2> QED BY <1>2, <1>3, <2>1
<1>5. j \in SlotOrNone /\ r \in Seq(UpMessage)
  <2>1. <<>> \in Seq(UpMessage)
    OBVIOUS
  <2> HIDE DEF b, i
  <2> QED BY <1>2, <2>1 DEF SlotOrNone
<1>6. i # None => i \in Slots /\ b \in BOOLEAN
  BY <1>2 DEF SlotOrNone, ControlPlanes, Session
<1> HIDE DEF i, b, q, j, r
<1>7. i # None =>
        /\ w \in Connections
        /\ w.down = q
        /\ w.slot = j
        /\ w.up = r
  BY <1>4, <1>5, <1>6 DEF Connections
<1>8. w.open = b
  BY Zenon DEF Connections
<1> HIDE DEF w
<1>9. i # None => (Delivered(x, z, d).open <=> b)
  BY <1>1, <1>8
<1> QED BY <1>1, <1>6, <1>7, <1>9 DEF i, b, q, j, r

\* The connection of a session that is removed carries nothing upward.
LEMMA DeliveredClosed ==
  ASSUME NEW x, NEW z \in Connections, NEW d \in ControlPlanes,
         z.slot # None, ~ d.slots[z.slot].in_use
  PROVE  Delivered(x, z, d).up = <<>>
<1> DEFINE i == z.slot
           b == d.slots[i].in_use
           q == IF x.pc = "gone" THEN z.down ELSE z.down \o SentTo(d, i)
           j == IF b THEN i ELSE None
           r == IF b THEN z.up ELSE <<>>
           w == [z EXCEPT !.down = q, !.slot = j, !.open = b, !.up = r]
<1>1. Delivered(x, z, d) = w
  BY Zenon DEF Delivered
<1>2. r = <<>>
  BY Zenon
<1> HIDE DEF i, b, q, j, r
<1>3. w.up = r
  BY DEF Connections
<1> QED BY <1>1, <1>2, <1>3, Zenon

OneGrant(queue) ==
  \A k, l \in Nat : At(queue, k, "ACTIVATE_GRANT") /\ At(queue, l, "ACTIVATE_GRANT") => k = l

FreshGrants(queue, c, d, j) ==
  \A k \in Nat : At(queue, k, "ACTIVATE_GRANT") =>
    /\ queue[k].arg = d.generation
    /\ d.slots[j].state = "GRANTED_WARMUP"
    /\ c.slots[j].state # "GRANTED_WARMUP"
    /\ d.generation # c.generation
    /\ \E n \in Grants(d) : d.out[n].to = j

\* What the client in slot j reads of a handler's messages.
LEMMA SentFacts ==
  ASSUME NEW c, NEW d \in ControlPlanes, NEW i, NEW kind, Effect(c, d, i, kind),
         NEW j \in Slots
  PROVE  /\ SentTo(d, j) \in Seq(DownMessage)
         /\ FreshGrants(SentTo(d, j), c, d, j)
         /\ OneGrant(SentTo(d, j))
         /\ Told(d, j, StopKinds) => InFlight(SentTo(d, j), StopKinds)
<1> DEFINE S == SentTo(d, j)
<1>1. /\ S \in Seq(DownMessage)
      /\ \A k \in DOMAIN S : \E n \in 1 .. Len(d.out) :
           /\ d.out[n].to = j
           /\ S[k].kind = d.out[n].kind
           /\ S[k].arg = d.out[n].arg
      /\ \A n \in 1 .. Len(d.out) : d.out[n].to = j =>
           \E k \in DOMAIN S : S[k].kind = d.out[n].kind
      /\ (\A m, n \in Grants(d) : m = n) =>
           \A h, k \in DOMAIN S :
             S[h].kind = "ACTIVATE_GRANT" /\ S[k].kind = "ACTIVATE_GRANT" => h = k
  BY SentToCarries DEF Carries
<1>2. DOMAIN d.out = 1 .. Len(d.out)
  BY DEF ControlPlanes
<1> HIDE DEF S
<1>3. /\ GrantsTold(c, d)
      /\ NewcomersKept(c, d, i)
  BY DEF Effect
<1>4. ASSUME NEW k \in Nat, At(S, k, "ACTIVATE_GRANT")
      PROVE  /\ S[k].arg = d.generation
             /\ d.slots[j].state = "GRANTED_WARMUP"
             /\ c.slots[j].state # "GRANTED_WARMUP"
             /\ d.generation # c.generation
             /\ \E n \in Grants(d) : d.out[n].to = j
  <2>1. PICK n \in DOMAIN d.out : /\ d.out[n].to = j
                                  /\ S[k].kind = d.out[n].kind
                                  /\ S[k].arg = d.out[n].arg
    BY <1>1, <1>2, <1>4 DEF At
  <2>2. n \in Grants(d)
    BY <1>4, <2>1 DEF Grants, At
  <2> QED BY <1>3, <2>1, <2>2 DEF GrantsTold
<1>5. OneGrant(S)
  BY <1>1, <1>3 DEF GrantsTold, At, OneGrant
<1>6. ASSUME Told(d, j, StopKinds) PROVE InFlight(S, StopKinds)
  BY <1>1, <1>2, <1>6 DEF Told, InFlight
<1>7. FreshGrants(S, c, d, j)
  BY <1>4 DEF FreshGrants
<1> QED BY <1>1, <1>5, <1>6, <1>7 DEF S

\* The client whose CONNECT was not read yet is sent nothing.
LEMMA NothingSent ==
  ASSUME NEW c, NEW d \in ControlPlanes, NEW i, NEW kind, Effect(c, d, i, kind),
         NEW j \in Slots, j # i, c.slots[j].state = "CONNECTED"
  PROVE  SentTo(d, j) = <<>>
<1> DEFINE S == SentTo(d, j)
<1>1. /\ S \in Seq(DownMessage)
      /\ \A k \in DOMAIN S : \E n \in 1 .. Len(d.out) : d.out[n].to = j
  BY SentToCarries DEF Carries
<1>2. DOMAIN d.out = 1 .. Len(d.out)
  BY DEF ControlPlanes
<1> HIDE DEF S
<1>3. \A n \in DOMAIN d.out : d.out[n].to # j
  BY DEF Effect, NewcomersKept
<1>4. DOMAIN S = {}
  BY <1>1, <1>2, <1>3
<1>5. S = <<>>
  BY <1>1, <1>4
<1> QED BY <1>5, Zenon DEF S

\* A session whose client is there is removed only by its own CONNECT.
LEMMA RemovedBy ==
  ASSUME NEW c, NEW d, NEW i, NEW kind, Effect(c, d, i, kind),
         NEW x, NEW y \in Connections, Alone(x, y), x.pc # "gone", y.slot # None,
         c.slots[y.slot].in_use,
         NEW z, Handed(x, y, z, i, kind),
         ~ d.slots[y.slot].in_use
  PROVE  At(y.up, 1, "CONNECT")
<1>1. y.slot \in Slots
  BY DEF Connections, SlotOrNone
<1>2. y.slot = i /\ kind \in {"CONNECT", "DISCONNECT"}
  BY <1>1 DEF Effect, RemovedOnly
<1>3. At(y.up, 1, kind)
  BY <1>2, HandedAt
<1>4. kind # "DISCONNECT"
  BY <1>3 DEF Alone
<1> QED BY <1>2, <1>3, <1>4

\* The same from the connection y as it was before the message was read.
DeliveredFrom(w, x, y, z, d) ==
  /\ y.slot = None => w = z
  /\ y.slot # None =>
       /\ y.slot \in Slots
       /\ x.pc = "gone" => w.down = y.down
       /\ x.pc # "gone" => w.down = y.down \o SentTo(d, y.slot)
       /\ d.slots[y.slot].in_use => w.slot = y.slot /\ w.open /\ w.up = z.up
       /\ ~ d.slots[y.slot].in_use => w.slot = None /\ ~ w.open /\ w.up = <<>>

LEMMA DeliveredFromRead ==
  ASSUME NEW x, NEW y \in Connections, NEW z, NEW i, NEW kind, Handed(x, y, z, i, kind),
         NEW d \in ControlPlanes
  PROVE  DeliveredFrom(Delivered(x, z, d), x, y, z, d)
<1> DEFINE w == Delivered(x, z, d)
<1>0. /\ z \in Connections
      /\ z.slot = y.slot /\ z.down = y.down
  BY DEF Handed
<1>1. z.slot = None => w = z
  BY Zenon DEF Delivered
<1>2. z.slot # None => z.slot \in Slots
  BY <1>0, DeliveredFields
<1>3. z.slot # None /\ x.pc = "gone" => w.down = z.down
  BY <1>0, DeliveredFields
<1>4. z.slot # None /\ x.pc # "gone" => w.down = z.down \o SentTo(d, z.slot)
  BY <1>0, DeliveredFields
<1>5. z.slot # None /\ d.slots[z.slot].in_use => w.slot = z.slot /\ w.open /\ w.up = z.up
  BY <1>0, DeliveredFields
<1>6. z.slot # None /\ ~ d.slots[z.slot].in_use => w.slot = None /\ ~ w.open /\ w.up = <<>>
  <2> SUFFICES ASSUME z.slot # None, ~ d.slots[z.slot].in_use
               PROVE  w.slot = None /\ ~ w.open /\ w.up = <<>>
    OBVIOUS
  <2>1. w.slot = None /\ ~ w.open
    BY <1>0, DeliveredFields, ZenonT(60)
  <2>2. w.up = <<>>
    BY <1>0, DeliveredClosed, Zenon
  <2> QED BY <2>1, <2>2
<1> HIDE DEF w
<1>7. DeliveredFrom(w, x, y, z, d)
  BY <1>0, <1>1, <1>2, <1>3, <1>4, <1>5, <1>6 DEF DeliveredFrom
<1> QED BY <1>7 DEF w

\* A handler's messages keep what holds of a process and its connection.
LEMMA DeliverAlone ==
  ASSUME NEW c, NEW d \in ControlPlanes, NEW i, NEW kind, Effect(c, d, i, kind),
         NEW x, NEW y \in Connections, Alone(x, y), Together(x, y, c),
         NEW z, Handed(x, y, z, i, kind)
  PROVE  /\ Alone(x, Delivered(x, z, d))
         /\ \A k \in Nat : At(Delivered(x, z, d).up, k, "CONNECT")
                            /\ Delivered(x, z, d).slot # None =>
              d.slots[Delivered(x, z, d).slot].state = "CONNECTED"
<1> DEFINE w == Delivered(x, z, d)
           j == y.slot
<1>1. /\ z \in Connections
      /\ z.slot = j /\ z.down = y.down
  BY DEF Handed
<1>2. z.open = y.open
  BY DEF Handed
<1>3. PICK s \in {0, 1} :
        /\ \A k \in Nat : \A what : At(z.up, k, what) => At(y.up, k + s, what) /\ k > 0
        /\ s = 0 /\ j # None => j # i \/ (x.pc = "gone" /\ y.up = <<>>)
  BY HandedAt, ZenonT(60)
<1>4. /\ j = None => w = z
      /\ j # None =>
           /\ j \in Slots
           /\ x.pc = "gone" => w.down = y.down
           /\ x.pc # "gone" => w.down = y.down \o SentTo(d, j)
           /\ d.slots[j].in_use => w.slot = j /\ w.open /\ w.up = z.up
           /\ ~ d.slots[j].in_use => w.slot = None /\ ~ w.open /\ w.up = <<>>
  <2>1. DeliveredFrom(w, x, y, z, d)
    BY DeliveredFromRead
  <2> HIDE DEF w
  <2> QED BY <2>1 DEF DeliveredFrom
<1>5. j = None => z.up = y.up
  BY DEF Handed
<1> HIDE DEF w
<1>6. CASE j = None
  <2>1. Alone(x, w)
    BY <1>1, <1>2, <1>4, <1>5, <1>6 DEF Alone
  <2>2. w.slot = None
    BY <1>1, <1>4, <1>6
  <2> QED BY <2>1, <2>2 DEF w
<1>7. CASE j # None
  <2>0. y.open
    BY <1>7 DEF Alone
  <2>1. x.pc # "new" /\ (x.pc \in {"grant", "run"} => x.mode) /\ (x.active => x.pc = "run")
    BY <2>0 DEF Alone
  <2>2. /\ w.slot # None => w.open
        /\ ~ w.open => w.up = <<>>
    BY <1>4, <1>7
  <2>3. \A k \in Nat : At(w.up, k, "DISCONNECT") => x.pc = "gone"
    <3> SUFFICES ASSUME NEW k \in Nat, At(w.up, k, "DISCONNECT") PROVE x.pc = "gone"
      OBVIOUS
    <3>1. At(z.up, k, "DISCONNECT")
      BY <1>4, <1>7, EmptyAt, Zenon
    <3>2. At(y.up, k + s, "DISCONNECT") /\ k + s \in Nat
      BY <1>3, <3>1
    <3> QED BY <3>2 DEF Alone
  <2>4. ASSUME NEW k \in Nat, At(w.up, k, "CONNECT")
        PROVE  /\ k = 1 /\ w.down = <<>> /\ x.pc \in {"mode", "gone"}
               /\ d.slots[j].state = "CONNECTED"
    <3>1. At(z.up, k, "CONNECT")
      BY <1>4, <1>7, <2>4, EmptyAt, Zenon
    <3>2. At(y.up, k + s, "CONNECT") /\ k > 0 /\ k + s \in Nat
      BY <1>3, <3>1
    <3>3. k + s = 1 /\ y.down = <<>> /\ x.pc \in {"mode", "gone"}
      BY <3>2 DEF Alone
    <3>4. k = 1 /\ s = 0
      BY <3>2, <3>3
    <3>5. c.slots[j].state = "CONNECTED"
      BY <1>7, <3>2 DEF Together
    <3>6. j # i
      BY <1>3, <1>7, <3>2, <3>4 DEF At
    <3>7. SentTo(d, j) = <<>> /\ d.slots[j] = c.slots[j]
      <4>1. j \in Slots
        BY <1>4, <1>7
      <4>2. SentTo(d, j) = <<>>
        BY <3>5, <3>6, <4>1, NothingSent, Zenon
      <4>3. d.slots[j] = c.slots[j]
        BY <3>5, <3>6, <4>1 DEF Effect, NewcomersKept
      <4> QED BY <4>2, <4>3
    <3>8. w.down = <<>>
      <4>1. <<>> \o <<>> = <<>>
        OBVIOUS
      <4> QED BY <1>4, <1>7, <3>3, <3>7, <4>1
    <3> QED BY <3>3, <3>4, <3>5, <3>7, <3>8
  <2>5. Alone(x, w)
    BY <2>1, <2>2, <2>3, <2>4 DEF Alone
  <2>6. w.slot # None => w.slot = j
    BY <1>4, <1>7
  <2> QED BY <2>4, <2>5, <2>6 DEF w
<1> QED BY <1>6, <1>7
\* The session of a process that is there and whose CONNECT was read stays.
LEMMA SessionStays ==
  ASSUME NEW c, NEW d, NEW i, NEW kind, Effect(c, d, i, kind),
         NEW x, NEW y \in Connections, Alone(x, y), Together(x, y, c),
         NEW z, Handed(x, y, z, i, kind),
         y.slot # None, x.pc \in {"grant", "run"} \/ (x.pc # "gone" /\ y.down # <<>>)
  PROVE  d.slots[y.slot].in_use
<1>1. c.slots[y.slot].in_use
  BY DEF Together
<1>2. x.pc # "gone"
  OBVIOUS
<1>3. ~ At(y.up, 1, "CONNECT")
  BY DEF Alone
<1> QED BY <1>1, <1>2, <1>3, RemovedBy

\* The warmup of a process that is there ends with its READY_FOR_RT.
LEMMA WarmupStays ==
  ASSUME NEW c, NEW d, NEW i, NEW kind, Effect(c, d, i, kind),
         NEW x, NEW y \in Connections, x.pc # "gone", y.slot # None,
         NEW z, Handed(x, y, z, i, kind),
         c.slots[y.slot].state = "GRANTED_WARMUP", d.slots[y.slot].in_use,
         ~ At(y.up, 1, "READY_FOR_RT")
  PROVE  d.slots[y.slot].state = "GRANTED_WARMUP"
<1>1. y.slot \in Slots
  BY DEF Connections, SlotOrNone
<1>2. y.slot = i => At(y.up, 1, kind)
  BY HandedAt
<1>3. ~ (y.slot = i /\ kind = "READY_FOR_RT")
  BY <1>2
<1> QED BY <1>1, <1>3 DEF Effect, WarmupKept

LEMMA DeliverGrant ==
  ASSUME NEW c, NEW d, Inv(d), NEW i, NEW kind, Effect(c, d, i, kind),
         NEW x, NEW y \in Connections, Alone(x, y), Together(x, y, c),
         NEW z, Handed(x, y, z, i, kind)
  PROVE  GrantUnderWay(x, Delivered(x, z, d), d)
<1> DEFINE w == Delivered(x, z, d)
           j == y.slot
           S == SentTo(d, j)
<1>1. DeliveredFrom(w, x, y, z, d) /\ d \in ControlPlanes /\ FreeClean(d)
  BY DeliveredFromRead DEF Inv
<1>2. \A k \in Nat : At(z.up, k, "READY_FOR_RT") =>
        \E l \in Nat : At(y.up, l, "READY_FOR_RT")
  <2>1. PICK s \in {0, 1} :
          \A k \in Nat : \A what : At(z.up, k, what) => At(y.up, k + s, what) /\ k > 0
    BY HandedAt
  <2> QED BY <2>1
<1>3. GrantUnderWay(x, y, c) /\ ReadyUnderWay(x, y, c)
  BY DEF Together
<1> HIDE DEF w
<1>4. CASE j = None
  <2>1. w.slot = None /\ w.down = y.down
    BY <1>1, <1>4 DEF DeliveredFrom, Handed
  <2>2. x.pc # "gone" => \A k \in Nat : ~ At(y.down, k, "ACTIVATE_GRANT")
    BY <1>3, <1>4 DEF GrantUnderWay
  <2> QED BY <2>1, <2>2 DEF GrantUnderWay, w
<1>5. CASE j # None /\ x.pc # "gone"
  <2>1. j \in Slots /\ w.down = y.down \o S
    BY <1>1, <1>5 DEF DeliveredFrom
  <2>2. d.slots[j].in_use => w.slot = j /\ w.up = z.up
    BY <1>1, <1>5 DEF DeliveredFrom
  <2>3. /\ S \in Seq(DownMessage)
        /\ \A k \in Nat : At(S, k, "ACTIVATE_GRANT") =>
             d.slots[j].state = "GRANTED_WARMUP" /\ c.slots[j].state # "GRANTED_WARMUP"
        /\ OneGrant(S)
    <3> HIDE DEF j
    <3>1. Effect(c, d, i, kind) /\ d \in ControlPlanes /\ j \in Slots
      BY <1>1, <2>1
    <3>2. S \in Seq(DownMessage)
      BY <3>1, SentFacts
    <3>3. FreshGrants(S, c, d, j) /\ OneGrant(S)
      BY <3>1, SentFacts
    <3> HIDE DEF S
    <3> QED BY <3>2, <3>3 DEF FreshGrants
  <2>4. y.down \in Seq(DownMessage)
    BY DEF Connections
  <2> HIDE DEF S, j
  <2>5. /\ Len(y.down) \in Nat
        /\ \A k \in Nat : k \in DOMAIN y.down => w.down[k] = y.down[k]
        /\ \A k \in Nat : k \in DOMAIN w.down /\ k \notin DOMAIN y.down =>
             k - Len(y.down) \in DOMAIN S /\ w.down[k] = S[k - Len(y.down)]
    BY <2>1, <2>3, <2>4, ConcatAt
  <2>6. DOMAIN S \subseteq Nat
    BY <2>3
  <2>7. \A k \in Nat : At(w.down, k, "ACTIVATE_GRANT") =>
          \/ At(y.down, k, "ACTIVATE_GRANT")
          \/ k - Len(y.down) \in Nat /\ At(S, k - Len(y.down), "ACTIVATE_GRANT")
    BY <2>5, <2>6 DEF At
  <2>8. CASE \E k \in Nat : At(y.down, k, "ACTIVATE_GRANT")
    <3>1. /\ c.slots[j].state = "GRANTED_WARMUP"
          /\ \A k \in Nat : ~ At(y.up, k, "READY_FOR_RT")
          /\ \A k, l \in Nat : At(y.down, k, "ACTIVATE_GRANT") /\ At(y.down, l, "ACTIVATE_GRANT")
               => k = l
      BY <1>3, <1>5, <2>8 DEF GrantUnderWay, j
    <3>2. y.down # <<>>
      BY <2>8, EmptyAt, Zenon
    <3>3. d.slots[j].in_use
      BY <1>5, <3>2, SessionStays DEF j
    <3>4. d.slots[j].state = "GRANTED_WARMUP"
      BY <1>5, <3>1, <3>3, WarmupStays DEF j
    <3>5. \A k \in Nat : ~ At(w.up, k, "READY_FOR_RT")
      BY <1>2, <2>2, <3>1, <3>3
    <3>6. \A k \in Nat : At(w.down, k, "ACTIVATE_GRANT") => At(y.down, k, "ACTIVATE_GRANT")
      BY <2>3, <2>7, <3>1
    <3>7. w.slot = j /\ j # None
      BY <1>5, <2>2, <3>3
    <3> QED BY <3>1, <3>4, <3>5, <3>6, <3>7 DEF GrantUnderWay, w
  <2>9. CASE ~ \E k \in Nat : At(y.down, k, "ACTIVATE_GRANT")
    <3> SUFFICES ASSUME NEW k \in Nat, At(w.down, k, "ACTIVATE_GRANT")
                 PROVE  /\ w.slot # None
                        /\ d.slots[w.slot].state = "GRANTED_WARMUP"
                        /\ \A l \in Nat : ~ At(w.up, l, "READY_FOR_RT")
                        /\ \A l \in Nat : At(w.down, l, "ACTIVATE_GRANT") => l = k
      BY DEF GrantUnderWay, w
    <3>1. \A l \in Nat : At(w.down, l, "ACTIVATE_GRANT") =>
            l - Len(y.down) \in Nat /\ At(S, l - Len(y.down), "ACTIVATE_GRANT")
      BY <2>7, <2>9
    <3>2. d.slots[j].state = "GRANTED_WARMUP" /\ c.slots[j].state # "GRANTED_WARMUP"
      BY <2>3, <3>1
    <3>3. d.slots[j].in_use
      BY <1>1, <2>1, <3>2 DEF FreeClean
    <3>4. \A l \in Nat : ~ At(y.up, l, "READY_FOR_RT")
      BY <1>3, <1>5, <3>2 DEF ReadyUnderWay, j
    <3>5. \A l \in Nat : ~ At(w.up, l, "READY_FOR_RT")
      BY <1>2, <2>2, <3>3, <3>4
    <3>6. ASSUME NEW l \in Nat, At(w.down, l, "ACTIVATE_GRANT") PROVE l = k
      <4>1. l - Len(y.down) = k - Len(y.down)
        BY <2>3, <3>1, <3>6 DEF OneGrant
      <4> QED BY <2>5, <4>1
    <3>7. w.slot = j /\ j # None
      BY <1>5, <2>2, <3>3
    <3> QED BY <3>2, <3>5, <3>6, <3>7
  <2> QED BY <2>8, <2>9
<1>6. CASE x.pc = "gone"
  BY <1>6 DEF GrantUnderWay
<1> QED BY <1>4, <1>5, <1>6

LEMMA DeliverReady ==
  ASSUME NEW c, NEW d, Inv(d), NEW i, NEW kind, Effect(c, d, i, kind),
         NEW x, NEW y \in Connections, Alone(x, y), Together(x, y, c),
         NEW z, Handed(x, y, z, i, kind)
  PROVE  ReadyUnderWay(x, Delivered(x, z, d), d)
<1> DEFINE w == Delivered(x, z, d)
           j == y.slot
<1>1. DeliveredFrom(w, x, y, z, d)
  BY DeliveredFromRead DEF Inv
<1>2. PICK s \in {0, 1} :
        /\ \A k \in Nat : \A what : At(z.up, k, what) => At(y.up, k + s, what) /\ k > 0
        /\ s = 1 => At(y.up, 1, kind)
        /\ s = 0 /\ j # None => j # i \/ (x.pc = "gone" /\ y.up = <<>>)
  BY HandedAt, ZenonT(60)
<1>3. ReadyUnderWay(x, y, c)
  BY DEF Together
<1> HIDE DEF w
<1> SUFFICES ASSUME x.pc # "gone", NEW k \in Nat, At(w.up, k, "READY_FOR_RT")
             PROVE  /\ w.slot # None
                    /\ d.slots[w.slot].state = "GRANTED_WARMUP"
                    /\ \A l \in Nat : At(w.up, l, "READY_FOR_RT") => l = k
  BY DEF ReadyUnderWay, w
<1>4. w.up # <<>>
  BY EmptyAt, Zenon
<1>5. CASE j = None
  <2>1. w.up = y.up
    BY <1>1, <1>5 DEF DeliveredFrom, Handed
  <2> QED BY <1>3, <1>5, <2>1 DEF ReadyUnderWay
<1>6. CASE j # None
  <2>1. j \in Slots /\ d.slots[j].in_use /\ w.slot = j /\ w.up = z.up
    BY <1>1, <1>4, <1>6 DEF DeliveredFrom
  <2>2. \A l \in Nat : At(w.up, l, "READY_FOR_RT") =>
          At(y.up, l + s, "READY_FOR_RT") /\ l > 0 /\ l + s \in Nat
    BY <1>2, <2>1
  <2>3. c.slots[j].state = "GRANTED_WARMUP"
    BY <1>3, <2>2 DEF ReadyUnderWay
  <2>4. \A l \in Nat : At(w.up, l, "READY_FOR_RT") => l = k
    <3> SUFFICES ASSUME NEW l \in Nat, At(w.up, l, "READY_FOR_RT") PROVE l = k
      OBVIOUS
    <3>1. l + s = k + s
      BY <1>3, <2>2 DEF ReadyUnderWay
    <3> QED BY <3>1
  <2>5. ~ (j = i /\ kind = "READY_FOR_RT")
    <3> SUFFICES ASSUME j = i, kind = "READY_FOR_RT" PROVE FALSE
      OBVIOUS
    <3>1. s = 1 /\ At(y.up, 1, "READY_FOR_RT")
      BY <1>2, <1>6
    <3>2. k + 1 = 1 /\ k > 0
      BY <1>3, <2>2, <3>1 DEF ReadyUnderWay
    <3> QED BY <3>2
  <2>6. d.slots[j].state = "GRANTED_WARMUP"
    BY <2>1, <2>3, <2>5 DEF Effect, WarmupKept
  <2> QED BY <1>6, <2>1, <2>4, <2>6
<1> QED BY <1>5, <1>6

LEMMA DeliverActive ==
  ASSUME NEW c, NEW d, Inv(d), NEW i, NEW kind, Effect(c, d, i, kind),
         NEW x, NEW y \in Connections, Alone(x, y), Together(x, y, c),
         NEW z, Handed(x, y, z, i, kind)
  PROVE  ActiveKnown(x, Delivered(x, z, d), d)
<1> DEFINE w == Delivered(x, z, d)
           j == y.slot
           S == SentTo(d, j)
<1>1. DeliveredFrom(w, x, y, z, d) /\ d \in ControlPlanes
  BY DeliveredFromRead DEF Inv
<1>2. PICK s \in {0, 1} :
        /\ \A k \in Nat : \A what : At(z.up, k, what) => At(y.up, k + s, what) /\ k > 0
        /\ \A k \in Nat : \A what : At(y.up, k, what) /\ (s = 1 => k # 1) =>
             At(z.up, k - s, what) /\ k - s \in Nat
        /\ s = 1 => y.slot # None /\ y.slot = i /\ At(y.up, 1, kind)
        /\ s = 0 /\ y.slot # None => y.slot # i \/ (x.pc = "gone" /\ y.up = <<>>)
  BY HandedAt, ZenonT(60)
<1>3. ActiveKnown(x, y, c) /\ ReadyUnderWay(x, y, c)
  BY DEF Together
<1> HIDE DEF w
<1> SUFFICES ASSUME x.active PROVE ActiveKnown(x, w, d)
  BY DEF ActiveKnown, w
<1>4. x.pc = "run"
  BY DEF Alone
<1>5. CASE j = None
  <2>1. w.slot = None /\ w.down = y.down
    BY <1>1, <1>5 DEF DeliveredFrom, Handed
  <2> QED BY <1>3, <1>5, <2>1 DEF ActiveKnown
<1>6. CASE j # None
  <2>1. d.slots[j].in_use
    BY <1>4, <1>6, SessionStays
  <2>2. j \in Slots /\ w.slot = j /\ w.up = z.up /\ w.down = y.down \o S
    BY <1>1, <1>4, <1>6, <2>1 DEF DeliveredFrom
  <2>3. S \in Seq(DownMessage) /\ (Told(d, j, StopKinds) => InFlight(S, StopKinds))
    BY <1>1, <2>2, SentFacts
  <2>4. y.down \in Seq(DownMessage)
    BY DEF Connections
  <2> HIDE DEF S, j
  <2>5. /\ \A k \in Nat : k \in DOMAIN y.down =>
             w.down[k] = y.down[k] /\ k \in DOMAIN w.down
        /\ \A k \in Nat : k \in DOMAIN S =>
             w.down[Len(y.down) + k] = S[k] /\ Len(y.down) + k \in DOMAIN w.down
    <3>1. \A k \in Nat : k \in DOMAIN y.down =>
            w.down[k] = y.down[k] /\ k \in DOMAIN w.down
      BY <2>2, <2>3, <2>4, ConcatAt
    <3>2. \A k \in Nat : k \in DOMAIN S =>
            w.down[Len(y.down) + k] = S[k] /\ Len(y.down) + k \in DOMAIN w.down
      BY <2>2, <2>3, <2>4, ConcatAt
    <3> QED BY <3>1, <3>2
  <2>6. DOMAIN S \subseteq Nat /\ DOMAIN y.down \subseteq Nat
    BY <2>3, <2>4
  <2>7. InFlight(y.down, StopKinds) \/ InFlight(S, StopKinds) => InFlight(w.down, StopKinds)
    BY <2>5, <2>6 DEF InFlight
  <2>8. ASSUME c.slots[j].state = "ACTIVE_RT" PROVE ActiveKnown(x, w, d)
    <3>1. d.slots[j].state = "ACTIVE_RT" \/ Told(d, j, StopKinds)
      BY <2>1, <2>2, <2>8 DEF Effect, ActiveTold
    <3> QED BY <1>6, <2>2, <2>3, <2>7, <3>1 DEF ActiveKnown
  <2>9. ASSUME NEW k \in Nat, At(y.up, k, "READY_FOR_RT") PROVE ActiveKnown(x, w, d)
    <3>1. CASE s = 1 /\ k = 1
      <4>1. j = i /\ kind = "READY_FOR_RT"
        BY <1>2, <2>9, <3>1 DEF At, j
      <4>2. c.slots[j].state = "GRANTED_WARMUP"
        BY <1>3, <1>4, <2>9 DEF ReadyUnderWay, j
      <4>3. d.slots[j].state = "ACTIVE_RT"
        BY <2>1, <2>2, <4>1, <4>2 DEF Effect, WarmupKept
      <4> QED BY <1>6, <2>2, <4>3 DEF ActiveKnown
    <3>2. CASE ~ (s = 1 /\ k = 1)
      <4>1. At(w.up, k - s, "READY_FOR_RT") /\ k - s \in Nat
        BY <1>2, <2>2, <2>9, <3>2
      <4> QED BY <1>6, <2>2, <4>1 DEF ActiveKnown
    <3> QED BY <3>1, <3>2
  <2>10. ASSUME InFlight(y.down, StopKinds) PROVE ActiveKnown(x, w, d)
    BY <2>7, <2>10 DEF ActiveKnown
  <2> QED BY <1>3, <2>8, <2>9, <2>10 DEF ActiveKnown, j
<1> QED BY <1>5, <1>6

\* A handler's messages keep what holds of a process, its connection and its
\* session.
LEMMA DeliverTogether ==
  ASSUME NEW c, NEW d, Inv(d), NEW i, NEW kind, Effect(c, d, i, kind),
         NEW x, NEW y \in Connections, Alone(x, y), Together(x, y, c),
         NEW z, Handed(x, y, z, i, kind)
  PROVE  Together(x, Delivered(x, z, d), d)
<1> DEFINE w == Delivered(x, z, d)
<1>1. d \in ControlPlanes
  BY DEF Inv
<1>2. DeliveredFrom(w, x, y, z, d)
  BY <1>1, DeliveredFromRead
<1>3. \A k \in Nat : At(w.up, k, "CONNECT") /\ w.slot # None =>
        d.slots[w.slot].state = "CONNECTED"
  BY <1>1, DeliverAlone
<1>4. GrantUnderWay(x, w, d) /\ ReadyUnderWay(x, w, d) /\ ActiveKnown(x, w, d)
  BY DeliverGrant, DeliverReady, DeliverActive
<1> HIDE DEF w
<1>5. w.slot # None => d.slots[w.slot].in_use
  BY <1>2 DEF DeliveredFrom, Handed
<1>6. Together(x, w, d)
  BY <1>3, <1>4, <1>5, Zenon DEF Together
<1> QED BY <1>6 DEF w

LEMMA SentFields ==
  ASSUME NEW d \in ControlPlanes
  PROVE  /\ Sent(d).slots = d.slots /\ Sent(d).generation = d.generation
         /\ Sent(d).out = <<>>
BY DEF Sent, ControlPlanes

LEMMA DeliverFields ==
  ASSUME NEW n \in [Procs -> Connections], NEW d \in ControlPlanes
  PROVE  /\ Deliver(n, d) \in [Procs -> Connections]
         /\ \A p \in Procs : Deliver(n, d)[p] = Delivered(client[p], n[p], d)
<1>1. Deliver(n, d) = [p \in Procs |-> Delivered(client[p], n[p], d)]
  BY Zenon DEF Deliver, Delivered, Gone
<1>2. \A p \in Procs : Delivered(client[p], n[p], d) \in Connections
  <2> TAKE p \in Procs
  <2>1. n[p] \in Connections
    OBVIOUS
  <2> QED BY <2>1, DeliveredFields
<1> QED BY <1>1, <1>2

\* A closed connection keeps only what its process has yet to read.
LEMMA ClosedFields ==
  ASSUME NEW n \in [Procs -> Connections]
  PROVE  /\ Closed(n) \in [Procs -> Connections]
         /\ \A p \in Procs : /\ Closed(n)[p].down = n[p].down
                             /\ Closed(n)[p].slot = None
                             /\ ~ Closed(n)[p].open
                             /\ Closed(n)[p].up = <<>>
<1> DEFINE r(y) == [y EXCEPT !.open = FALSE, !.slot = None, !.up = <<>>]
<1>1. ASSUME NEW y \in Connections
      PROVE  /\ r(y) \in Connections
             /\ r(y).down = y.down /\ r(y).slot = None /\ ~ r(y).open /\ r(y).up = <<>>
  <2>1. <<>> \in Seq(UpMessage) /\ None \in SlotOrNone
    BY DEF SlotOrNone
  <2> QED BY <2>1 DEF Connections
<1>2. Closed(n) = [p \in Procs |-> r(n[p])]
  BY Zenon DEF Closed
<1> HIDE DEF r
<1> QED BY <1>1, <1>2

\* The handler's messages keep connections and sessions in step.
LEMMA DeliverMatched ==
  ASSUME NEW c, NEW d \in ControlPlanes, NEW i, NEW kind, Effect(c, d, i, kind),
         NEW x, NEW n \in [Procs -> Connections], Matched(n, c),
         NEW m, NEW w,
         \A p \in Procs : Handed(x[p], n[p], m[p], i, kind),
         \A p \in Procs : w[p] = Delivered(x[p], m[p], d)
  PROVE  Matched(w, d)
<1>1. \A p \in Procs : DeliveredFrom(w[p], x[p], n[p], m[p], d)
  <2> TAKE p \in Procs
  <2>1. n[p] \in Connections /\ Handed(x[p], n[p], m[p], i, kind)
    OBVIOUS
  <2>2. DeliveredFrom(Delivered(x[p], m[p], d), x[p], n[p], m[p], d)
    BY <2>1, DeliveredFromRead
  <2> QED BY <2>2
<1>2. \A p \in Procs : m[p].slot = n[p].slot
  BY DEF Handed
<1>3. \A p \in Procs : w[p].slot # None => w[p].slot = n[p].slot
  BY <1>1, <1>2 DEF DeliveredFrom
<1>4. \A p, q \in Procs : w[p].slot # None /\ w[p].slot = w[q].slot => p = q
  BY <1>3 DEF Matched
<1>5. ASSUME NEW j \in Slots, d.slots[j].in_use PROVE \E p \in Procs : w[p].slot = j
  <2>1. c.slots[j].in_use
    BY <1>5 DEF Effect, RemovedOnly
  <2>2. PICK p \in Procs : n[p].slot = j
    BY <2>1 DEF Matched
  <2>3. j # None
    BY SlotsNat
  <2> QED BY <1>1, <1>5, <2>2, <2>3 DEF DeliveredFrom
<1> QED BY <1>4, <1>5 DEF Matched

\* A process owns what it owned, and a new grant of the generation there is now.
GrantsFrom(w, y, c, d) ==
  \A k \in DOMAIN w.down : w.down[k].kind = "ACTIVATE_GRANT" =>
    \/ \E l \in DOMAIN y.down : y.down[l] = w.down[k]
    \/ /\ y.slot # None
       /\ w.down[k].arg = d.generation
       /\ d.generation # c.generation
       /\ \E n \in Grants(d) : d.out[n].to = y.slot

LEMMA DeliverOwns ==
  ASSUME NEW c, NEW d \in ControlPlanes, NEW i, NEW kind, Effect(c, d, i, kind),
         NEW x, NEW y \in Connections, NEW z, Handed(x, y, z, i, kind)
  PROVE  GrantsFrom(Delivered(x, z, d), y, c, d)
<1> DEFINE w == Delivered(x, z, d)
           j == y.slot
           S == SentTo(d, j)
<1>1. DeliveredFrom(w, x, y, z, d)
  BY DeliveredFromRead
<1> HIDE DEF w
<1> SUFFICES ASSUME NEW k \in DOMAIN w.down, w.down[k].kind = "ACTIVATE_GRANT"
             PROVE  \/ \E l \in DOMAIN y.down : y.down[l] = w.down[k]
                    \/ /\ y.slot # None
                       /\ w.down[k].arg = d.generation
                       /\ d.generation # c.generation
                       /\ \E n \in Grants(d) : d.out[n].to = y.slot
  BY DEF GrantsFrom, w
<1>2. CASE w.down = y.down
  BY <1>2
<1>3. CASE w.down # y.down
  <2>1. j # None
    BY <1>1, <1>3 DEF DeliveredFrom, Handed
  <2>2. j \in Slots /\ w.down = y.down \o S
    BY <1>1, <1>3, <2>1 DEF DeliveredFrom
  <2>3. S \in Seq(DownMessage) /\ FreshGrants(S, c, d, j)
    BY <2>2, SentFacts
  <2>4. y.down \in Seq(DownMessage)
    BY DEF Connections
  <2> HIDE DEF S, j
  <2>5. /\ Len(y.down) \in Nat
        /\ \A l \in Nat : l \in DOMAIN y.down => w.down[l] = y.down[l]
        /\ \A l \in Nat : l \in DOMAIN w.down /\ l \notin DOMAIN y.down =>
             l - Len(y.down) \in DOMAIN S /\ w.down[l] = S[l - Len(y.down)]
        /\ w.down \in Seq(DownMessage)
    BY <2>2, <2>3, <2>4, ConcatAt
  <2>6. DOMAIN S \subseteq Nat /\ k \in Nat
    BY <2>3, <2>5
  <2>7. CASE k \in DOMAIN y.down
    BY <2>5, <2>6, <2>7
  <2>8. CASE k \notin DOMAIN y.down
    <3>1. /\ k - Len(y.down) \in Nat /\ w.down[k] = S[k - Len(y.down)]
          /\ At(S, k - Len(y.down), "ACTIVATE_GRANT")
      BY <2>5, <2>6, <2>8 DEF At
    <3> QED BY <2>1, <2>3, <3>1 DEF FreshGrants, j
  <2> QED BY <2>7, <2>8
<1> QED BY <1>2, <1>3

\* Short of a wrap, the generation of a new grant had no owner.
LEMMA DeliverOwned ==
  ASSUME NEW c \in ControlPlanes, NEW d \in ControlPlanes, NEW i, NEW kind,
         Effect(c, d, i, kind), d.generation >= c.generation,
         NEW x \in [Procs -> Clients], NEW n \in [Procs -> Connections], Matched(n, c),
         OwnedOnce(c, x, n),
         NEW m, NEW w,
         \A p \in Procs : Handed(x[p], n[p], m[p], i, kind),
         \A p \in Procs : w[p] = Delivered(x[p], m[p], d)
  PROVE  OwnedOnce(d, x, w)
<1> DEFINE Granted(p) == n[p].slot # None /\ \E k \in Grants(d) : d.out[k].to = n[p].slot
           Old(p, g) == Owns(x[p], n[p], g)
           New(p, g) == Owns(x[p], w[p], g)
<1>1. c.generation \in Nat /\ d.generation \in Nat
  BY DEF ControlPlanes, Generations
<1>2. ASSUME NEW p \in Procs, NEW k \in DOMAIN w[p].down,
             w[p].down[k].kind = "ACTIVATE_GRANT"
      PROVE  \/ \E l \in DOMAIN n[p].down : n[p].down[l] = w[p].down[k]
             \/ /\ w[p].down[k].arg = d.generation
                /\ d.generation > c.generation
                /\ Granted(p)
  <2>1. n[p] \in Connections /\ Handed(x[p], n[p], m[p], i, kind)
        /\ w[p] = Delivered(x[p], m[p], d)
    OBVIOUS
  <2>2. GrantsFrom(w[p], n[p], c, d)
    BY <2>1, DeliverOwns
  <2> QED BY <1>1, <1>2, <2>2 DEF GrantsFrom
<1>3. \A p, q \in Procs : Granted(p) /\ Granted(q) => p = q
  BY DEF Effect, GrantsTold, Matched
<1> HIDE DEF Granted
<1>4. \A p \in Procs : \A g \in Nat : New(p, g) =>
        Old(p, g) \/ (g = d.generation /\ d.generation > c.generation /\ Granted(p))
  BY <1>2 DEF Owns
<1>5. /\ \A p \in Procs : \A g \in Nat : Old(p, g) => g <= c.generation
      /\ \A p, q \in Procs : \A g \in Nat : g > 0 /\ Old(p, g) /\ Old(q, g) => p = q
      /\ \A p \in Procs : x[p].active => x[p].granted_generation > 0
  BY DEF OwnedOnce
<1>6. \A p \in Procs : \A k \in DOMAIN w[p].down :
        w[p].down[k].kind = "ACTIVATE_GRANT" => w[p].down[k].arg > 0
  BY <1>1, <1>2 DEF OwnedOnce
<1> HIDE DEF Old, New
<1>7. \A p \in Procs : \A g \in Nat : New(p, g) => g <= d.generation
  BY <1>1, <1>4, <1>5
<1>8. \A p, q \in Procs : \A g \in Nat : g > 0 /\ New(p, g) /\ New(q, g) => p = q
  BY <1>1, <1>3, <1>4, <1>5
<1> QED BY <1>5, <1>6, <1>7, <1>8 DEF OwnedOnce, New

\* Ending the server closes every connection.
LEMMA ClosedKeeps ==
  ASSUME NEW x \in [Procs -> Clients], NEW n \in [Procs -> Connections],
         \A p \in Procs : Alone(x[p], n[p]),
         NEW m \in [Procs -> Connections], \A p \in Procs : m[p].down = n[p].down
  PROVE  /\ Closed(m) \in [Procs -> Connections]
         /\ \A p \in Procs : Alone(x[p], Closed(m)[p])
<1> DEFINE w == Closed(m)
<1>1. /\ w \in [Procs -> Connections]
      /\ \A p \in Procs : w[p].down = n[p].down
      /\ \A p \in Procs : w[p].slot = None
  BY ClosedFields
<1>2. \A p \in Procs : ~ w[p].open
  BY ClosedFields
<1>3. \A p \in Procs : w[p].up = <<>>
  BY ClosedFields, Zenon
<1> HIDE DEF w
<1>4. ASSUME NEW p \in Procs PROVE Alone(x[p], w[p])
  <2>1. \A k \in Nat : \A kind : ~ At(w[p].up, k, kind)
    BY <1>3, EmptyAt, Zenon
  <2>2. Alone(x[p], n[p])
    OBVIOUS
  <2>3. w[p].slot = None /\ ~ w[p].open /\ w[p].down = n[p].down /\ w[p].up = <<>>
    BY <1>1, <1>2, <1>3
  <2> QED BY <2>1, <2>2, <2>3 DEF Alone
<1> QED BY <1>1, <1>4 DEF w

\* As long as nothing new is on its way, the counter may go on.
LEMMA SameOwned ==
  ASSUME NEW c \in ControlPlanes, NEW d \in ControlPlanes, c.generation <= d.generation,
         NEW x \in [Procs -> Clients], NEW n, NEW w,
         \A p \in Procs : w[p].down = n[p].down,
         OwnedOnce(c, x, n)
  PROVE  OwnedOnce(d, x, w)
<1>1. c.generation \in Nat /\ d.generation \in Nat
  BY DEF ControlPlanes, Generations
<1>2. \A p \in Procs : \A g \in Nat : Owns(x[p], w[p], g) <=> Owns(x[p], n[p], g)
  BY DEF Owns
<1>3. \A p \in Procs : \A g \in Nat : Owns(x[p], w[p], g) => g <= d.generation
  BY <1>1, <1>2 DEF OwnedOnce
<1>4. \A p, q \in Procs : \A g \in Nat :
        g > 0 /\ Owns(x[p], w[p], g) /\ Owns(x[q], w[q], g) => p = q
  BY <1>2 DEF OwnedOnce
<1>5. /\ \A p \in Procs : x[p].active => x[p].granted_generation > 0
      /\ \A p \in Procs : \A k \in DOMAIN w[p].down :
           w[p].down[k].kind = "ACTIVATE_GRANT" => w[p].down[k].arg > 0
  BY DEF OwnedOnce
<1> QED BY <1>3, <1>4, <1>5 DEF OwnedOnce

-----------------------------------------------------------------------------
(* The steps of the server *)

\* A step keeps the invariant and, short of a wrap, the owners of generations.
Kept ==
  /\ SessionInv(cp', client', net', server')
  /\ ~ AllowWrap /\ OwnedOnce(cp, client, net) => OwnedOnce(cp', client', net')

LEMMA HandleKeeps ==
  ASSUME SessionInv(cp, client, net, server),
         NEW m \in [Procs -> Connections], NEW i, NEW kind,
         \A p \in Procs : Handed(client[p], net[p], m[p], i, kind),
         NEW results, \A d \in results : Inv(d) /\ Effect(cp, d, i, kind),
         Handle(m, results)
  PROVE  Kept
<1>1. PICK d \in results :
        /\ AllowWrap \/ d.generation >= cp.generation
        /\ cp' = Sent(d)
        /\ \/ server' = "killed" /\ net' = Closed(m)
           \/ UNCHANGED server /\ net' = Deliver(m, d)
  BY DEF Handle
<1>2. server = "running" /\ client' = client
  BY DEF Handle
<1>3. Inv(d) /\ Effect(cp, d, i, kind) /\ d \in ControlPlanes
  BY <1>1 DEF Inv
<1>4. /\ Inv(cp) /\ cp \in ControlPlanes
      /\ client \in [Procs -> Clients]
      /\ net \in [Procs -> Connections]
      /\ \A p \in Procs : Alone(client[p], net[p])
      /\ Matched(net, cp)
      /\ \A p \in Procs : Together(client[p], net[p], cp)
  BY <1>2 DEF SessionInv, Inv
<1>5. cp'.slots = d.slots /\ cp'.generation = d.generation
  BY <1>1, <1>3, SentFields
<1>6. Inv(cp') /\ cp'.out = <<>> /\ cp' \in ControlPlanes
  <2>1. Inv(cp')
    BY <1>1, <1>3, SentInv
  <2>2. cp'.out = <<>>
    BY <1>1, <1>3, SentFields
  <2> QED BY <2>1, <2>2 DEF Inv
<1>7. CASE server' = "killed" /\ net' = Closed(m)
  <2>1. \A p \in Procs : m[p].down = net[p].down
    BY DEF Handed
  <2>2. /\ net' \in [Procs -> Connections]
        /\ \A p \in Procs : Alone(client[p], net'[p])
    BY <1>4, <1>7, <2>1, ClosedKeeps
  <2>3. SessionInv(cp', client', net', server')
    BY <1>2, <1>4, <1>6, <1>7, <2>2 DEF SessionInv
  <2>4. ASSUME ~ AllowWrap, OwnedOnce(cp, client, net)
        PROVE  OwnedOnce(cp', client', net')
    <3>1. \A p \in Procs : net'[p].down = net[p].down
      BY <1>7, <2>1, ClosedFields
    <3>2. cp.generation <= cp'.generation
      BY <1>1, <1>3, <1>4, <1>5, <2>4 DEF ControlPlanes, Generations
    <3> QED BY <1>2, <1>4, <1>6, <2>4, <3>1, <3>2, SameOwned
  <2> QED BY <2>3, <2>4 DEF Kept
<1>8. CASE UNCHANGED server /\ net' = Deliver(m, d)
  <2>1. /\ net' \in [Procs -> Connections]
        /\ \A p \in Procs : net'[p] = Delivered(client[p], m[p], d)
    BY <1>3, <1>8, DeliverFields
  <2>2. ASSUME NEW p \in Procs
        PROVE  Alone(client[p], net'[p]) /\ Together(client[p], net'[p], d)
    <3>1. /\ net[p] \in Connections /\ Alone(client[p], net[p])
          /\ Together(client[p], net[p], cp)
          /\ Handed(client[p], net[p], m[p], i, kind)
      BY <1>4
    <3>2. Alone(client[p], Delivered(client[p], m[p], d))
      BY <1>3, <3>1, DeliverAlone
    <3>3. Together(client[p], Delivered(client[p], m[p], d), d)
      BY <1>3, <3>1, DeliverTogether
    <3> QED BY <2>1, <3>2, <3>3
  <2>3. Matched(net', d)
    BY <1>3, <1>4, <2>1, DeliverMatched
  <2>4. Matched(net', cp') /\ \A p \in Procs : Together(client[p], net'[p], cp')
    BY <1>5, <2>2, <2>3
       DEF Matched, Together, GrantUnderWay, ReadyUnderWay, ActiveKnown
  <2>5. SessionInv(cp', client', net', server')
    BY <1>2, <1>4, <1>6, <2>1, <2>2, <2>4 DEF SessionInv
  <2>6. ASSUME ~ AllowWrap, OwnedOnce(cp, client, net)
        PROVE  OwnedOnce(cp', client', net')
    <3>1. d.generation >= cp.generation
      BY <1>1, <2>6
    <3>2. OwnedOnce(d, client, net')
      BY <1>3, <1>4, <2>1, <2>6, <3>1, DeliverOwned
    <3> QED BY <1>2, <1>5, <3>2 DEF OwnedOnce
  <2> QED BY <2>5, <2>6 DEF Kept
<1> QED BY <1>1, <1>7, <1>8

\* What handling a message of an open connection leads to.
LEMMA DispatchEffect ==
  ASSUME SessionInv(cp, client, net, server), server = "running",
         NEW p \in Procs, net[p].slot # None, net[p].up # <<>>,
         NEW d \in Dispatch(net[p].slot, Head(net[p].up))
  PROVE  Inv(d) /\ Effect(cp, d, net[p].slot, Head(net[p].up).kind)
<1> DEFINE i == net[p].slot
           msg == Head(net[p].up)
<1>1. Inv(cp) /\ cp.out = <<>>
  BY DEF SessionInv
<1>2. /\ net[p] \in Connections
      /\ Together(client[p], net[p], cp)
  BY DEF SessionInv
<1>3. i \in Slots /\ net[p].up \in Seq(UpMessage)
  BY <1>2 DEF Connections, SlotOrNone
<1>4. cp.slots[i].in_use
  BY <1>2 DEF Together
<1>5. msg \in UpMessage /\ At(net[p].up, 1, msg.kind)
  BY <1>3, TailAt DEF At
<1>6. msg.kind = "CONNECT" => cp.slots[i].state = "CONNECTED"
  BY <1>2, <1>5 DEF Together
<1> HIDE DEF i, msg
<1>7. d \in Dispatch(i, msg)
  BY DEF i, msg
<1>8. \/ msg.kind = "CONNECT" /\ msg.body \in ConnectMessages
      \/ msg.kind \in UpKinds
  BY <1>5 DEF UpMessage
<1> SUFFICES Inv(d) /\ Effect(cp, d, i, msg.kind)
  BY DEF i, msg
<1>9. CASE msg.kind = "CONNECT"
  <2>1. d = handle_connect(cp, i, msg.body) /\ msg.body \in ConnectMessages
    BY <1>7, <1>8, <1>9 DEF Dispatch, UpKinds
  <2> QED BY <1>1, <1>3, <1>4, <1>6, <1>9, <2>1, ConnectInv, ConnectEffect
<1>10. CASE msg.kind = "ACTIVATE_REQUEST"
  <2>1. PICK t \in RequestStamps(cp) : d = handle_activate_request(cp, i, t)
    BY <1>7, <1>10 DEF Dispatch
  <2>2. t \in 0 .. MaxStamp
    BY RequestStampType
  <2> QED BY <1>1, <1>3, <1>4, <1>10, <2>1, <2>2, ActivateRequestInv, ActivateRequestEffect
<1>11. CASE msg.kind = "READY_FOR_RT"
  <2>1. d = handle_ready_for_rt(cp, i)
    BY <1>7, <1>11 DEF Dispatch
  <2> QED BY <1>1, <1>3, <1>4, <1>11, <2>1, ReadyForRtInv, ReadyForRtEffect
<1>12. CASE msg.kind = "STOPPED"
  <2>1. d = handle_stopped(cp, i)
    BY <1>7, <1>12 DEF Dispatch
  <2> QED BY <1>1, <1>3, <1>4, <1>12, <2>1, StoppedInv, StoppedEffect
<1>13. CASE msg.kind = "HEARTBEAT"
  <2>1. d = handle_heartbeat(cp, i)
    BY <1>7, <1>13 DEF Dispatch
  <2> QED BY <1>1, <1>3, <1>13, <2>1, HeartbeatInv, HeartbeatEffect
<1>14. CASE msg.kind = "DISCONNECT"
  <2>1. d = handle_disconnect(cp, i)
    BY <1>7, <1>14 DEF Dispatch
  <2> QED BY <1>1, <1>3, <1>4, <1>14, <2>1, DisconnectInv, DisconnectEffect
<1> QED BY <1>8, <1>9, <1>10, <1>11, <1>12, <1>13, <1>14 DEF UpKinds

\* Reading the first message that waits on a connection.
LEMMA PopFields ==
  ASSUME NEW n \in [Procs -> Connections], NEW p \in Procs, n[p].up # <<>>
  PROVE  /\ [n EXCEPT ![p].up = Tail(@)] \in [Procs -> Connections]
         /\ [n EXCEPT ![p].up = Tail(@)][p].up = Tail(n[p].up)
         /\ [n EXCEPT ![p].up = Tail(@)][p].slot = n[p].slot
         /\ [n EXCEPT ![p].up = Tail(@)][p].down = n[p].down
         /\ [n EXCEPT ![p].up = Tail(@)][p].open = n[p].open
         /\ \A q \in Procs \ {p} : [n EXCEPT ![p].up = Tail(@)][q] = n[q]
<1> DEFINE t == Tail(n[p].up)
           z == [n[p] EXCEPT !.up = t]
           m == [n EXCEPT ![p] = z]
<1>1. n[p] \in Connections /\ n[p].up \in Seq(UpMessage)
  BY DEF Connections
<1>2. t \in Seq(UpMessage)
  BY <1>1, TailAt
<1> HIDE DEF t
<1>3. z \in Connections /\ z.up = t /\ z.slot = n[p].slot /\ z.down = n[p].down
  BY <1>1, <1>2 DEF Connections
<1>4. z.open = n[p].open
  BY <1>1, Zenon DEF Connections
<1> HIDE DEF z
<1>5. m \in [Procs -> Connections] /\ m[p] = z /\ \A q \in Procs \ {p} : m[q] = n[q]
  BY <1>3
<1>6. [n EXCEPT ![p].up = Tail(@)] = m
  BY Zenon DEF z, t
<1> HIDE DEF m
<1> QED BY <1>3, <1>4, <1>5, <1>6, Zenon DEF t

LEMMA ServeKeeps ==
  ASSUME SessionInv(cp, client, net, server), NEW p \in Procs, Serve(p)
  PROVE  Kept
<1> DEFINE m == [net EXCEPT ![p].up = Tail(@)]
           i == net[p].slot
           kind == Head(net[p].up).kind
           results == Dispatch(net[p].slot, Head(net[p].up))
<1>1. /\ i # None /\ net[p].up # <<>>
      /\ Handle(m, results)
  BY DEF Serve
<1>2. server = "running"
  BY <1>1 DEF Handle
<1>3. net \in [Procs -> Connections] /\ Matched(net, cp)
  BY <1>2 DEF SessionInv
<1>4. \A d \in results : Inv(d) /\ Effect(cp, d, i, kind)
  BY <1>1, <1>2, DispatchEffect
<1>5. /\ m \in [Procs -> Connections]
      /\ m[p].up = Tail(net[p].up) /\ m[p].slot = i /\ m[p].down = net[p].down
      /\ \A q \in Procs \ {p} : m[q] = net[q]
  BY <1>1, <1>3, PopFields
<1>6. m[p].open = net[p].open
  BY <1>1, <1>3, PopFields
<1> HIDE DEF m, results, kind
<1>7. Handed(client[p], net[p], m[p], i, kind)
  BY <1>1, <1>5, <1>6 DEF Handed, kind
<1>8. ASSUME NEW q \in Procs, q # p PROVE Handed(client[q], net[q], m[q], i, kind)
  <2>1. m[q] = net[q] /\ net[q] \in Connections
    BY <1>3, <1>5, <1>8
  <2>2. net[q].slot # i
    BY <1>1, <1>3, <1>8 DEF Matched
  <2> QED BY <2>1, <2>2 DEF Handed
<1>9. \A q \in Procs : Handed(client[q], net[q], m[q], i, kind)
  BY <1>7, <1>8
<1> HIDE DEF i
<1> QED BY <1>1, <1>4, <1>5, <1>9, HandleKeeps

LEMMA HangupKeeps ==
  ASSUME SessionInv(cp, client, net, server), NEW p \in Procs, Hangup(p)
  PROVE  Kept
<1> DEFINE i == net[p].slot
           d == handle_disconnect(cp, i)
<1>1. /\ i # None /\ net[p].up = <<>> /\ client[p].pc = "gone"
      /\ Handle(net, {d})
  BY DEF Hangup, Gone
<1>2. server = "running"
  BY <1>1 DEF Handle
<1>3. /\ net \in [Procs -> Connections] /\ Matched(net, cp)
      /\ Together(client[p], net[p], cp)
      /\ Inv(cp) /\ cp.out = <<>>
  BY <1>2 DEF SessionInv
<1>4. i \in Slots /\ cp.slots[i].in_use
  BY <1>1, <1>3 DEF Connections, SlotOrNone, Together
<1> HIDE DEF i
<1>5. Inv(d) /\ Effect(cp, d, i, "DISCONNECT")
  BY <1>3, <1>4, DisconnectInv, DisconnectEffect
<1> HIDE DEF d
<1>6. ASSUME NEW q \in Procs PROVE Handed(client[q], net[q], net[q], i, "DISCONNECT")
  <2>1. net[q].slot # None /\ net[q].slot = i => q = p
    BY <1>1, <1>3 DEF Matched, i
  <2>2. net[q] \in Connections
    BY <1>3
  <2> QED BY <1>1, <2>1, <2>2 DEF Handed
<1> QED BY <1>1, <1>3, <1>5, <1>6, HandleKeeps

\* The handlers that no client's message calls.
LEMMA UnaskedKeeps ==
  ASSUME SessionInv(cp, client, net, server), NEW d, NEW kind,
         Inv(d), Effect(cp, d, None, kind), Handle(net, {d})
  PROVE  Kept
<1>1. net \in [Procs -> Connections]
  BY DEF SessionInv
<1>2. \A q \in Procs : Handed(client[q], net[q], net[q], None, kind)
  BY <1>1 DEF Handed
<1> QED BY <1>1, <1>2, HandleKeeps

LEMMA SwitchKeeps ==
  ASSUME SessionInv(cp, client, net, server), NEW p \in Procs, Switch(p)
  PROVE  Kept
<1>1. Inv(cp) /\ cp.out = <<>>
  BY DEF SessionInv
<1>2. Handle(net, {handle_switch_query(cp, p)})
  BY DEF Switch
<1>3. /\ Inv(handle_switch_query(cp, p))
      /\ Effect(cp, handle_switch_query(cp, p), None, "SWITCH")
  BY <1>1, SwitchInv, SwitchEffect
<1> QED BY <1>2, <1>3, UnaskedKeeps

LEMMA DeadlineKeeps ==
  ASSUME SessionInv(cp, client, net, server), CheckHeartbeat \/ CheckGrace
  PROVE  Kept
<1>1. Inv(cp) /\ cp.out = <<>>
  BY DEF SessionInv
<1>2. CASE CheckHeartbeat
  <2>1. Handle(net, {heartbeat_timeout(cp)}) /\ cp.active_slot # None
    BY <1>2 DEF CheckHeartbeat
  <2>2. Inv(heartbeat_timeout(cp)) /\ Effect(cp, heartbeat_timeout(cp), None, "TIMEOUT")
    BY <1>1, <2>1, HeartbeatTimeoutInv, HeartbeatTimeoutEffect
  <2> QED BY <2>1, <2>2, UnaskedKeeps
<1>3. CASE CheckGrace
  <2>1. Handle(net, {grace_deadline(cp)}) /\ cp.evicting_slot # None
    BY <1>3 DEF CheckGrace
  <2>2. Inv(grace_deadline(cp)) /\ Effect(cp, grace_deadline(cp), None, "GRACE")
    BY <1>1, <2>1, GraceDeadlineInv, GraceDeadlineEffect
  <2> QED BY <2>1, <2>2, UnaskedKeeps
<1> QED BY <1>2, <1>3

\* Steps that touch neither sessions nor counter nor connections.
LEMMA IdleKeeps ==
  ASSUME SessionInv(cp, client, net, server),
         Inv(cp'), cp'.out = <<>>, cp'.slots = cp.slots, cp'.generation = cp.generation,
         UNCHANGED <<client, net, server>>
  PROVE  Kept
<1>1. Matched(net, cp) => Matched(net, cp')
  BY DEF Matched
<1>2. \A p \in Procs : Together(client[p], net[p], cp) => Together(client[p], net[p], cp')
  BY DEF Together, GrantUnderWay, ReadyUnderWay, ActiveKnown
<1>3. SessionInv(cp', client', net', server')
  BY <1>1, <1>2 DEF SessionInv
<1>4. OwnedOnce(cp, client, net) => OwnedOnce(cp', client', net')
  BY DEF OwnedOnce
<1> QED BY <1>3, <1>4 DEF Kept

LEMMA TimePassesKeeps ==
  ASSUME SessionInv(cp, client, net, server), TimePasses
  PROVE  Kept
<1>1. Inv(cp) /\ cp.out = <<>> /\ cp \in ControlPlanes
  BY DEF SessionInv, Inv
<1>2. /\ \/ cp' = [cp EXCEPT !.heartbeat_late = TRUE]
         \/ cp' = [cp EXCEPT !.grace_over = TRUE]
      /\ UNCHANGED <<client, net, server>>
  BY DEF TimePasses, HeartbeatLapse, GraceLapse
<1>3. Inv(cp')
  BY <1>1, <1>2, LapseInv
<1>4. cp'.slots = cp.slots /\ cp'.generation = cp.generation /\ cp'.out = cp.out
  BY <1>1, <1>2 DEF ControlPlanes
<1> QED BY <1>1, <1>2, <1>3, <1>4, IdleKeeps

LEMMA ShutdownKeeps ==
  ASSUME SessionInv(cp, client, net, server), Shutdown
  PROVE  Kept
<1>1. /\ Inv(cp) /\ cp.out = <<>> /\ cp \in ControlPlanes
      /\ client \in [Procs -> Clients]
      /\ net \in [Procs -> Connections]
      /\ \A p \in Procs : Alone(client[p], net[p])
  BY DEF SessionInv, Inv
<1>2. server' = "stopped" /\ net' = Closed(net) /\ client' = client
  BY DEF Shutdown
<1>3. cp' = [cp EXCEPT !.slots = [i \in Slots |-> FreeSession],
                       !.active_slot = None,
                       !.evicting_slot = None,
                       !.pending_grant_target = None,
                       !.heartbeat_late = FALSE,
                       !.grace_over = FALSE,
                       !.dp_mode = InitialMode]
  BY DEF Shutdown
<1>4. [i \in Slots |-> FreeSession] \in [Slots -> Session]
  BY FreeSessionType
<1>5. /\ cp' \in ControlPlanes
      /\ cp'.slots = [i \in Slots |-> FreeSession]
      /\ cp'.active_slot = None
      /\ cp'.evicting_slot = None
      /\ cp'.pending_grant_target = None
      /\ cp'.generation = cp.generation
      /\ cp'.out = cp.out
  BY <1>1, <1>3, <1>4, ModeAssumption DEF ControlPlanes, SlotOrNone
<1>6. Inv(cp')
  BY <1>5, IdleInv
<1>7. /\ net' \in [Procs -> Connections]
      /\ \A p \in Procs : Alone(client[p], net'[p])
  BY <1>1, <1>2, ClosedKeeps
<1>8. SessionInv(cp', client', net', server')
  BY <1>1, <1>2, <1>5, <1>6, <1>7 DEF SessionInv
<1>9. OwnedOnce(cp, client, net) => OwnedOnce(cp', client', net')
  <2>1. \A p \in Procs : net'[p].down = net[p].down
    BY <1>1, <1>2, ClosedFields
  <2>2. cp.generation <= cp'.generation
    BY <1>1, <1>5 DEF ControlPlanes, Generations
  <2> QED BY <1>1, <1>2, <1>5, <2>1, <2>2, SameOwned, SMTT(30)
<1> QED BY <1>8, <1>9 DEF Kept

\* The session accept() makes of a free slot.
LEMMA AddedFields ==
  ASSUME NEW c \in ControlPlanes
  PROVE  LET i == FirstOf({j \in Slots : ~ InUse(c, j)})
             d == table_add(c)
         IN  /\ d.generation = c.generation
             /\ i = None => d = c
             /\ i # None =>
                  /\ i \in Slots /\ ~ c.slots[i].in_use
                  /\ d.slots[i].in_use /\ d.slots[i].state = "CONNECTED"
                  /\ \A j \in Slots \ {i} : d.slots[j] = c.slots[j]
<1> DEFINE S == {j \in Slots : ~ c.slots[j].in_use}
           i == FirstOf(S)
           s == [FreeSession EXCEPT !.in_use = TRUE]
           d == WithSession(c, i, s)
<1>1. table_add(c) = IF i = None THEN c ELSE d
  BY DEF table_add
<1>2. i # None => i \in S
  <2>1. S \in SUBSET Slots
    OBVIOUS
  <2> HIDE DEF S
  <2> QED BY <2>1, FirstOfIsMember
<1>3. {j \in Slots : ~ InUse(c, j)} = S
  BY DEF InUse
<1>4. s \in Session /\ s.state = "CONNECTED" /\ s.in_use
  BY FreeSessionType DEF Session
<1> HIDE DEF s, i
<1>5. i # None =>
        /\ d.slots = [c.slots EXCEPT ![i] = s]
        /\ d.generation = c.generation
  BY <1>2, <1>4, WithSessionFields
<1>6. i # None => d.slots[i] = s /\ \A j \in Slots \ {i} : d.slots[j] = c.slots[j]
  BY <1>2, <1>5 DEF ControlPlanes
<1> HIDE DEF d
<1> QED BY <1>1, <1>2, <1>3, <1>4, <1>5, <1>6 DEF i

\* accept() looks only at a connection that has no session.
LEMMA AcceptOne ==
  ASSUME NEW x, NEW y \in Connections, NEW v, NEW c, NEW d,
         Alone(x, y), Together(x, y, c), y.open, y.slot = None,
         v.down = y.down,
         \/ v.slot = None /\ ~ v.open /\ v.up = <<>>
         \/ /\ v.slot # None /\ v.open /\ v.up = y.up
            /\ d.slots[v.slot].in_use /\ d.slots[v.slot].state = "CONNECTED"
  PROVE  Alone(x, v) /\ Together(x, v, d)
<1>1. /\ GrantUnderWay(x, y, c) /\ ReadyUnderWay(x, y, c) /\ ActiveKnown(x, y, c)
  BY DEF Together
<1>2. /\ x.pc # "gone" => \A k \in Nat : ~ At(y.down, k, "ACTIVATE_GRANT")
      /\ x.pc # "gone" => \A k \in Nat : ~ At(y.up, k, "READY_FOR_RT")
      /\ x.active => InFlight(y.down, StopKinds)
  BY <1>1 DEF GrantUnderWay, ReadyUnderWay, ActiveKnown
<1>3. CASE v.slot = None /\ ~ v.open /\ v.up = <<>>
  <2>1. \A k \in Nat : \A kind : ~ At(v.up, k, kind)
    BY <1>3, EmptyAt, Zenon
  <2>2. Alone(x, v)
    BY <1>3, <2>1 DEF Alone
  <2>3. GrantUnderWay(x, v, d) /\ ReadyUnderWay(x, v, d) /\ ActiveKnown(x, v, d)
    BY <1>2, <2>1 DEF GrantUnderWay, ReadyUnderWay, ActiveKnown
  <2> QED BY <1>3, <2>2, <2>3 DEF Together
<1>4. CASE /\ v.slot # None /\ v.open /\ v.up = y.up
           /\ d.slots[v.slot].in_use /\ d.slots[v.slot].state = "CONNECTED"
  <2>1. Alone(x, v)
    BY <1>4 DEF Alone
  <2>2. GrantUnderWay(x, v, d) /\ ReadyUnderWay(x, v, d) /\ ActiveKnown(x, v, d)
    BY <1>2, <1>4 DEF GrantUnderWay, ReadyUnderWay, ActiveKnown
  <2> QED BY <1>4, <2>1, <2>2 DEF Together
<1> QED BY <1>3, <1>4

LEMMA AcceptKeeps ==
  ASSUME SessionInv(cp, client, net, server), NEW p \in Procs, AcceptFrom(p)
  PROVE  Kept
<1> DEFINE i == FirstOf({j \in Slots : ~ InUse(cp, j)})
           d == table_add(cp)
           y == net[p]
           v == net'[p]
<1>1. /\ server = "running" /\ y.open /\ y.slot = None
      /\ i = None => net' = [net EXCEPT ![p].open = FALSE, ![p].up = <<>>]
      /\ i # None => net' = [net EXCEPT ![p].slot = i]
      /\ cp' = Sent(d)
      /\ UNCHANGED <<client, server>>
  BY DEF AcceptFrom
<1>2. /\ Inv(cp) /\ cp \in ControlPlanes
      /\ client \in [Procs -> Clients]
      /\ net \in [Procs -> Connections]
      /\ \A q \in Procs : Alone(client[q], net[q])
      /\ Matched(net, cp)
      /\ \A q \in Procs : Together(client[q], net[q], cp)
  BY <1>1 DEF SessionInv, Inv
<1>3. Inv(d) /\ d \in ControlPlanes
  BY <1>2, AddInv DEF Inv
<1>4. /\ d.generation = cp.generation
      /\ i = None => d = cp
      /\ i # None =>
           /\ i \in Slots /\ ~ cp.slots[i].in_use
           /\ d.slots[i].in_use /\ d.slots[i].state = "CONNECTED"
           /\ \A j \in Slots \ {i} : d.slots[j] = cp.slots[j]
  BY <1>2, AddedFields
<1> HIDE DEF i, d
<1>5. cp'.slots = d.slots /\ cp'.generation = cp.generation
  BY <1>1, <1>3, <1>4, SentFields
<1>6. Inv(cp') /\ cp'.out = <<>> /\ cp' \in ControlPlanes
  <2>1. Inv(cp')
    BY <1>1, <1>3, SentInv
  <2>2. cp'.out = <<>>
    BY <1>1, <1>3, SentFields
  <2> QED BY <2>1, <2>2 DEF Inv
<1>7. y \in Connections
  BY <1>2
<1>8. /\ net' \in [Procs -> Connections]
      /\ \A q \in Procs : q # p => net'[q] = net[q]
      /\ v.down = y.down
      /\ \/ i = None /\ v.slot = None /\ ~ v.open /\ v.up = <<>>
         \/ i # None /\ v.slot = i /\ v.open /\ v.up = y.up
  <2>1. CASE i = None
    <3> DEFINE z == [y EXCEPT !.open = FALSE, !.up = <<>>]
    <3>1. net' = [net EXCEPT ![p] = z]
      BY <1>1, <2>1, Zenon
    <3>2. z \in Connections /\ z.slot = None /\ ~ z.open /\ z.up = <<>> /\ z.down = y.down
      <4>1. <<>> \in Seq(UpMessage)
        OBVIOUS
      <4> QED BY <1>1, <1>7, <4>1 DEF Connections
    <3> HIDE DEF z
    <3> QED BY <1>2, <2>1, <3>1, <3>2
  <2>2. CASE i # None
    <3> DEFINE z == [y EXCEPT !.slot = i]
    <3>1. net' = [net EXCEPT ![p] = z]
      BY <1>1, <2>2, Zenon
    <3>2. z \in Connections /\ z.slot = i /\ z.up = y.up /\ z.down = y.down
      BY <1>4, <1>7, <2>2 DEF Connections, SlotOrNone
    <3>3. z.open = y.open
      BY <1>7, Zenon DEF Connections
    <3> HIDE DEF z
    <3> QED BY <1>1, <1>2, <2>2, <3>1, <3>2, <3>3
  <2> QED BY <2>1, <2>2
<1>9. Alone(client[p], v) /\ Together(client[p], v, cp')
  <2>1. \/ v.slot = None /\ ~ v.open /\ v.up = <<>>
        \/ /\ v.slot # None /\ v.open /\ v.up = y.up
           /\ cp'.slots[v.slot].in_use /\ cp'.slots[v.slot].state = "CONNECTED"
    BY <1>4, <1>5, <1>8
  <2>2. Alone(client[p], y) /\ Together(client[p], y, cp)
    BY <1>2
  <2> HIDE DEF v, y
  <2> QED BY <1>1, <1>7, <1>8, <2>1, <2>2, AcceptOne
<1>10. ASSUME NEW q \in Procs, q # p
       PROVE  /\ Alone(client[q], net'[q])
              /\ Together(client[q], net'[q], cp')
              /\ net[q].slot # None => net[q].slot # i
  <2>1. Alone(client[q], net[q]) /\ Together(client[q], net[q], cp) /\ net'[q] = net[q]
        /\ net[q] \in Connections
    BY <1>2, <1>8, <1>10
  <2>2. net[q].slot # None =>
          net[q].slot \in Slots /\ cp.slots[net[q].slot].in_use
    BY <2>1 DEF Together, Connections, SlotOrNone
  <2>3. net[q].slot # None => cp'.slots[net[q].slot] = cp.slots[net[q].slot]
                              /\ (i # None => net[q].slot # i)
    BY <1>4, <1>5, <2>2
  <2>4. Together(client[q], net[q], cp')
    BY <2>1, <2>3 DEF Together, GrantUnderWay, ReadyUnderWay, ActiveKnown
  <2> QED BY <2>1, <2>3, <2>4
<1>11. Matched(net', cp')
  <2>1. \A q \in Procs : q # p /\ net'[q].slot # None => net'[q].slot # v.slot
    BY <1>8, <1>10
  <2>2. \A q, r \in Procs : net'[q].slot # None /\ net'[q].slot = net'[r].slot => q = r
    BY <1>2, <1>8, <2>1 DEF Matched
  <2>3. ASSUME NEW j \in Slots, cp'.slots[j].in_use PROVE \E q \in Procs : net'[q].slot = j
    <3>1. CASE i # None /\ j = i
      BY <1>8, <3>1
    <3>2. CASE ~ (i # None /\ j = i)
      <4>1. cp.slots[j].in_use
        BY <1>4, <1>5, <2>3, <3>2
      <4>2. PICK q \in Procs : net[q].slot = j
        BY <1>2, <4>1 DEF Matched
      <4>3. q # p
        BY <1>1, <4>2, SlotsNat
      <4> QED BY <1>8, <4>2, <4>3
    <3> QED BY <3>1, <3>2
  <2> QED BY <2>2, <2>3 DEF Matched
<1>12. SessionInv(cp', client', net', server')
  BY <1>1, <1>2, <1>6, <1>8, <1>9, <1>10, <1>11 DEF SessionInv
<1>13. OwnedOnce(cp, client, net) => OwnedOnce(cp', client', net')
  <2>1. \A q \in Procs : net'[q].down = net[q].down
    BY <1>8
  <2>2. cp.generation <= cp'.generation
    BY <1>2, <1>5 DEF ControlPlanes, Generations
  <2> QED BY <1>1, <1>2, <1>6, <2>1, <2>2, SameOwned
<1> QED BY <1>12, <1>13 DEF Kept

-----------------------------------------------------------------------------
(* Theorems *)

LEMMA InitKept ==
  ASSUME InitSession
  PROVE  SessionInv(cp, client, net, server) /\ OwnedOnce(cp, client, net)
<1> DEFINE x == NewProcess
           y == NewConnection
<1>1. /\ Init /\ server = "running"
      /\ client = [p \in Procs |-> x]
      /\ net = [p \in Procs |-> y]
  BY DEF InitSession
<1>2. /\ x \in Clients
      /\ x.pc = "new" /\ ~ x.active /\ x.granted_generation = 0
  BY DEF NewProcess, Clients
<1>3. /\ y \in Connections
      /\ y.slot = None /\ ~ y.open /\ y.down = <<>> /\ y.up = <<>>
  <2>1. <<>> \in Seq(UpMessage) /\ <<>> \in Seq(DownMessage)
    OBVIOUS
  <2> QED BY <2>1 DEF NewConnection, Connections, SlotOrNone
<1> HIDE DEF x, y
<1>4. \A k \in Nat : \A kind : ~ At(y.up, k, kind) /\ ~ At(y.down, k, kind)
  BY <1>3, EmptyAt, Zenon
<1>5. Alone(x, y)
  BY <1>2, <1>3, <1>4 DEF Alone
<1>6. Together(x, y, cp)
  BY <1>2, <1>3, <1>4
     DEF Together, GrantUnderWay, ReadyUnderWay, ActiveKnown
<1>7. Inv(cp)
  BY <1>1, InitInv
<1>8. cp.out = <<>> /\ cp.generation = 0 /\ cp.slots = [i \in Slots |-> FreeSession]
  BY <1>1 DEF Init
<1>9. Matched(net, cp)
  <2>1. \A i \in Slots : ~ cp.slots[i].in_use
    BY <1>8, FreeSessionType
  <2> QED BY <1>1, <1>3, <2>1 DEF Matched
<1>10. SessionInv(cp, client, net, server)
  <2>1. client \in [Procs -> Clients] /\ net \in [Procs -> Connections]
    BY <1>1, <1>2, <1>3
  <2>2. \A p \in Procs : client[p] = x /\ net[p] = y
    BY <1>1
  <2> QED BY <1>5, <1>6, <1>7, <1>8, <1>9, <2>1, <2>2 DEF SessionInv
<1>11. OwnedOnce(cp, client, net)
  <2>1. \A p \in Procs : client[p] = x /\ net[p] = y
    BY <1>1
  <2>2. DOMAIN y.down = {}
    BY <1>3
  <2>3. \A p \in Procs : \A g \in Nat : Owns(client[p], net[p], g) => g = 0
    BY <1>2, <2>1, <2>2 DEF Owns
  <2> QED BY <1>2, <1>8, <2>1, <2>2, <2>3 DEF OwnedOnce
<1> QED BY <1>10, <1>11

\* Every step of clients and server keeps the invariant.
LEMMA NextKept ==
  ASSUME SessionInv(cp, client, net, server), [NextSession]_allVars
  PROVE  Kept
<1>1. ASSUME NEW p \in Procs, ClientMoves(p) PROVE Kept
  BY <1>1, ClientMovesInv DEF Kept
<1>2. ASSUME NEW p \in Procs, Connect(p) \/ Receive(p) PROVE Kept
  <2>1. ClientMoves(p)
    BY <1>2, ConnectMoves, RecvModeMoves, RecvNoModeMoves, RecvFirstMoves,
       RecvNoFirstMoves, RecvMessageMoves DEF Receive
  <2> QED BY <1>1, <2>1
<1>3. ASSUME NEW p \in Procs, Heartbeat(p) \/ RetryActivate(p) PROVE Kept
  BY <1>1, <1>3, TimerMoves
<1>4. ASSUME NEW p \in Procs, Publish(p) \/ Leave(p) \/ Crash(p) PROVE Kept
  BY <1>1, <1>4, PublishMoves, LeaveMoves, CrashMoves
<1>5. ASSUME NEW p \in Procs, Turn(p) \/ Switch(p) PROVE Kept
  BY <1>5, AcceptKeeps, ServeKeeps, HangupKeeps, SwitchKeeps DEF Turn
<1>6. CASE CheckHeartbeat \/ CheckGrace
  BY <1>6, DeadlineKeeps
<1>7. CASE TimePasses
  BY <1>7, TimePassesKeeps
<1>8. CASE Shutdown
  BY <1>8, ShutdownKeeps
<1>9. CASE UNCHANGED allVars
  BY <1>9 DEF Kept, allVars
<1> QED BY <1>2, <1>3, <1>4, <1>5, <1>6, <1>7, <1>8, <1>9 DEF NextSession

SessionInvariant == SessionInv(cp, client, net, server)

\* The inductive invariant holds in every behaviour of clients and server.
THEOREM SessionInvariance == SessionSpec => []SessionInvariant
<1>1. InitSession => SessionInvariant
  BY InitKept DEF SessionInvariant
<1>2. SessionInvariant /\ [NextSession]_allVars => SessionInvariant'
  BY NextKept DEF SessionInvariant, Kept
<1> QED BY <1>1, <1>2, PTL DEF SessionSpec

\* With the SDK's clients, which send CONNECT once per connection, the invariant
\* of the control plane needs no assumption.
THEOREM ServerInvariance == SessionSpec => []Invariant
<1>1. SessionInvariant => Invariant
  BY DEF SessionInvariant, SessionInv, Invariant
<1> QED BY <1>1, SessionInvariance, PTL

\* The two ends of every connection agree: as long as the server runs, each
\* session in use belongs to one connection and each free slot to none, and a
\* connection with a session is open.
THEOREM SessionTypeCorrect == SessionSpec => []SessionTypeOK
<1>1. SessionInvariant => SessionTypeOK
  <2> SUFFICES ASSUME SessionInvariant PROVE SessionTypeOK
    OBVIOUS
  <2>1. /\ cp \in ControlPlanes /\ cp.out = <<>>
        /\ \A p \in Procs : Alone(client[p], net[p])
        /\ net \in [Procs -> Connections]
        /\ server = "running" =>
             Matched(net, cp) /\ \A p \in Procs : Together(client[p], net[p], cp)
    BY DEF SessionInvariant, SessionInv, Inv
  <2>2. \A p \in Procs :
          /\ client[p].active => client[p].pc = "run"
          /\ net[p].slot # None => net[p].open
    BY <2>1 DEF Alone
  <2>3. ASSUME server = "running", NEW i \in Slots
        PROVE  Cardinality({p \in Procs : net[p].slot = i}) = IF InUse(cp, i) THEN 1 ELSE 0
    <3> DEFINE C == {p \in Procs : net[p].slot = i}
    <3>1. i # None
      BY SlotsNat
    <3>2. CASE cp.slots[i].in_use
      <4>1. PICK p \in Procs : net[p].slot = i
        BY <2>1, <2>3, <3>2 DEF Matched
      <4>2. C = {p}
        BY <2>1, <2>3, <3>1, <4>1 DEF Matched
      <4>3. Cardinality(C) = 1
        BY <4>2, FS_Singleton
      <4> QED BY <3>2, <4>3 DEF InUse
    <3>3. CASE ~ cp.slots[i].in_use
      <4>1. C = {}
        BY <2>1, <2>3, <3>1, <3>3 DEF Together
      <4>2. Cardinality(C) = 0
        BY <4>1, FS_EmptySet
      <4> QED BY <3>3, <4>2 DEF InUse
    <3> QED BY <3>2, <3>3
  <2> QED BY <2>1, <2>2, <2>3 DEF SessionTypeOK
<1> QED BY <1>1, SessionInvariance, PTL

\* A client that believes it is active is right, or what will tell it otherwise is
\* on its way, whatever is in flight in either direction, and it has a mode.
THEOREM ActiveClientsRight == SessionSpec => []ActiveClientKnown
<1>1. SessionInvariant => ActiveClientKnown
  <2> SUFFICES ASSUME SessionInvariant, NEW p \in Procs,
                      client[p].active, server = "running"
               PROVE  /\ client[p].mode
                      /\ \/ Holds(p, {"ACTIVE_RT"})
                         \/ Holds(p, {"GRANTED_WARMUP"}) /\ InFlight(net[p].up, {"READY_FOR_RT"})
                         \/ InFlight(net[p].down, {"DEACTIVATE", "EVICT_PENDING"})
    BY DEF ActiveClientKnown
  <2>1. Alone(client[p], net[p]) /\ Together(client[p], net[p], cp)
    BY DEF SessionInvariant, SessionInv
  <2>2. client[p].mode /\ client[p].pc = "run"
    BY <2>1 DEF Alone
  <2>3. \/ net[p].slot # None /\ cp.slots[net[p].slot].state = "ACTIVE_RT"
        \/ net[p].slot # None /\ \E k \in Nat : At(net[p].up, k, "READY_FOR_RT")
        \/ InFlight(net[p].down, StopKinds)
    BY <2>1 DEF Together, ActiveKnown
  <2>4. ASSUME NEW k \in Nat, At(net[p].up, k, "READY_FOR_RT")
        PROVE  /\ cp.slots[net[p].slot].state = "GRANTED_WARMUP"
               /\ InFlight(net[p].up, {"READY_FOR_RT"})
    BY <2>1, <2>2, <2>4 DEF Together, ReadyUnderWay, At, InFlight
  <2> QED BY <2>2, <2>3, <2>4 DEF Holds, StopKinds
<1> QED BY <1>1, SessionInvariance, PTL

SessionOwned == SessionInvariant /\ OwnedOnce(cp, client, net)

\* Short of a wrap of the generation, at most one process passes the two tests of
\* wispc_publish(), however many clients there are and whatever is in flight.
THEOREM SinglePublisher == ASSUME ~ AllowWrap PROVE SessionSpec => []OnePublisher
<1>1. InitSession => SessionOwned
  BY InitKept DEF SessionOwned, SessionInvariant
<1>2. SessionOwned /\ [NextSession]_allVars => SessionOwned'
  BY NextKept DEF SessionOwned, SessionInvariant, Kept
<1>3. SessionOwned => OnePublisher
  <2> SUFFICES ASSUME SessionOwned, NEW p \in Procs, NEW q \in Procs,
                      client[p].active, client[p].granted_generation = cp.generation,
                      client[q].active, client[q].granted_generation = cp.generation
               PROVE  p = q
    BY DEF OnePublisher
  <2>1. cp.generation \in Nat /\ cp.generation > 0
    BY DEF SessionOwned, SessionInvariant, SessionInv, Inv, ControlPlanes, Generations, OwnedOnce
  <2> QED BY <2>1 DEF SessionOwned, OwnedOnce, Owns
<1> QED BY <1>1, <1>2, <1>3, PTL DEF SessionSpec


=============================================================================
