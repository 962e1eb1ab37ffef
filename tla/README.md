# Verification of wisp and of its documentation build

This directory holds TLA+ models of `wisp` (`wisp/` in the repository): a server
that lets one producer at a time draw on a display through a shared-memory ring,
and the SDK that producers link; and of the kernel-doc tools under `docs/` that
turn the comments of its headers into pages. This file says what the parts are,
which module models which, what TLC checks on small instances, what TLAPS proves
for all instances, and where code and documentation disagree.

## The system

| part | state it keeps | operations |
| --- | --- | --- |
| control plane (`server/src/control/control_plane.c`) | session table, `evicting_slot`, `pending_grant_target`, eviction deadline | one `poll()` loop: accept, one handler per message, admin queries, heartbeat and grace deadlines |
| session table (`server/src/session/session_table.c`) | one slot per connection (state, id, mode, granted generation, request time), `active_slot` | add, remove, grant, activate, deactivate, evict, reclaim, queue scans |
| control-query channel (`server/src/control/control_query.c`) | one pending pointer, one pipe | submit (admin thread), drain and complete (control thread) |
| admin plane (`server/src/admin/admin_plane.c`) | listening socket, stop pipe | one connection at a time: LIST, SWITCH |
| shared ring (`protocol/include/wisp/wire.h`, `server/src/shm/server_shm.c`) | `latest_ready`, `server_locked`, `client_locked`, `generation`, robust mutex, three buffers | claim, publish (producer); checkout, release (data plane); evict (control plane) |
| data plane (`server/src/dataplane/data_plane.c`) | mode, `running`, two eventfds | wait, drain, checkout, blit, release; stop, kick, set_mode |
| client SDK (`client_sdk/src/client_control.c`) | `active`, `granted_generation`, `frame_fd` | connect, is_active, write_slot, publish, control thread |
| server (`server/src/server.c`) | three threads | start, wait for a signal, stop, join and release in order |
| message framing (`protocol/src/socket_message.c`) | none | send and receive, with descriptors |
| file sink (`server/src/dataplane/fb_sink_file.c`) | snapshot ring | blit to PPM |
| kernel-doc parser (`docs/kerneldoc-src/tools/lib/python/kdoc/kdoc_parser.py`) | state of the line machine, the entry being gathered, items found | one handler per state; one `dump_` method per kind of declaration |
| C tokenizer (`kdoc/c_lex.py`, `kdoc/xforms_lists.py`) | token list with nesting levels | tokenize, drop private parts, find and replace macros |
| documentation build (`docs/sphinx/kerneldoc.py`, `kdoc/kdoc_files.py`, `kdoc/kdoc_output.py`) | caches of items and exports, error count, output filter, indentation | one directive after the other: parse, look up exports, filter, write |

The **RT slot** is the right to publish. A session goes CONNECTED, NEGOTIATED,
(QUEUED), GRANTED_WARMUP, ACTIVE_RT, and leaves ACTIVE_RT by disconnection,
heartbeat timeout or a cooperative eviction (EVICTING_COOPERATIVE) that an admin
SWITCH starts and STOPPED or a grace deadline ends. Every grant bumps the ring's
`generation`; a producer publishes only while the generation it was granted is
current.

How the parts interact: producers send messages to the control thread and share
the ring and the frame eventfd with the data plane thread; the admin thread hands
a query on its own stack to the control thread and waits; the control thread bumps
the generation and kicks the data plane; `main()` stops the three threads.

What is hard here: indices into the session table that outlive a turn of the loop;
two deadlines racing the messages they stand in for; an eviction that resets the
ring under a producer or the data plane; a generation check outside the mutex; a
process that dies inside the mutex; a wakeup between two steps of the sleeper; a
query on another thread's stack; threads that wait on each other during shutdown;
messages in flight while both ends act on what they believe; two threads of the SDK
that write the same flag; a write to a client that has died. In the documentation
tools: a line machine that must stay in step with C's own comments; passes over one
text that each rely on what the one before left; caches filled by directives that
may fail half way.
`PROJECT.json` lists these hazards with their lines and the properties that cover
them.

## Modules

**`ControlPlane`** is the control thread and the session table. The struct
`wisps_control_plane_t` is one record, `cp`; every C function that changes it is an
operator of the same name from the old record to the new one, so a handler reads as
the sequence of calls it makes; every message, query and deadline is one action.
The poll loop handles what is ready in one turn in a fixed order; the model takes
the handlers in any order, which includes that one (no handler depends on which
turn it runs in). The messages a handler sends are collected in `cp.out`, and are
taken away at the end of the action. Data is reduced to what handlers compare: ids
and modes are opaque values, clock stamps are small numbers compared only among
queued sessions, deadlines are flags that time raises. `ConnectOnce` says whether a
connection sends CONNECT once, as the SDK does; the server does not enforce it.

**`RtSlot`** is the abstract arbiter: who occupies the slot, in which stage, and the
fence that publications are checked against. Grant, activation, wind-down, end and
handover are its only steps, and the fence moves with every grant and with every
occupant that is cut off while active: twice when both fall into one turn of the loop,
where the documents promise once (`OneBumpPerGrant`, see below). `ControlPlane`
implements it (`INSTANCE
RtSlot WITH` the session that is in warmup, active or evicting as the holder and the
ring's generation as the fence): `ImplementsArbiter`.

**`ClientSession`** composes `ControlPlane`'s handlers with client processes that run
the SDK, over one stream per process with messages in flight both ways. On the
client's side there are `wispc_connect()` (three steps, each waiting for the server),
the control thread (one message at a time, heartbeat and retry timers) and the render
thread inside `wispc_publish()`, whose reads of `active`, `generation` and
`granted_generation` and whose `active = false` are separate steps. On the server's
side an action is one turn of the loop for one connection: accept, the next message,
or the end of the stream; a handler's messages go into the streams of the sessions
they were sent to. `Events` says what may come from outside: a process leaves, dies
or cannot attach the ring, an admin asks for a switch, the server is stopped. The
uninitialised `kind` that `wispc_connect()` compares after a failed receive is a
choice between both outcomes.

**`ShmRing`** has the ring's functions as operators on a ring record, each one
critical section of the robust mutex; a process that dies inside leaves the mutex
`dead`, and the next lock makes it consistent.

**`DataPath`** composes the ring with the render threads and SDK control threads of
several client processes, the data plane thread, and what the control thread does
to the ring. An action is a step between two accesses to shared state: the loop of
an application is IsActive, WriteSlot, (render), PublishCheck, PublishSlot,
PostFrame; the data plane is LoopTop, EpollWait, Drain, Checkout, (blit), Release.
`newest` and `settled` are history: the frame in `latest_ready` with the generation
it was checked against, and whether nobody was inside a frame at the last eviction.

**`AdminPlane`** has the admin thread, the query rendezvous step by step, the
skeleton of the control loop with its blocking receive, and the shutdown of
`main()`. Queries are named by the admin connection they serve.

**`CLex`**, **`KdocEntry`** and **`KdocDecl`** are the pure part of kernel-doc: token
lists, the entry with its sections and parameters, and the `dump_` methods from the
tokens of a prototype to an item and its warnings. Every operator is the method of
the same name, from the old entry to the new one. White space and wording are left
out; a token keeps its kind, its value and its level, a line of text is the number
of the line it came from.

**`KdocStruct`** writes a struct member by member (plain, bit-field, callback, macro,
enum, private and public marks, nested blocks), keeps what a reader would say it
declares, and has `dump_struct()` read it as a whole.

**`KernelDoc`** is the line machine of `parse_kdoc()`, one action per state. The
environment writes the file, any line after any other, ill-formed comment lines up
to a bound; a ghost, `doc`, follows the file as a C compiler and a reader would. A
line is what the regular expressions can tell of it.

**`RestFormat`** is the ReST writer: for every kind of item the lines it writes, how
far each is indented, and which lines of a text are passed on as literal. The
indentation the writer is at is part of its state and outlives the item. A function
with a parameter that is an unnamed function pointer raises, and the items after it
are not written.

**`KdocFiles`** is a build: directives that parse, look up exports, and filter and
write, in three steps each, on the shared caches and one writer, while files are
edited, vanish or make the parser or the writer raise; `run()` catches exceptions and
goes on with the caches, the filter and the writer as they were left.

The models of the documentation tools were also compared with the program itself:
5 237 random structs, 5 673 random declarations, 3 000 random pages and 65 293 files
taken from TLC's simulation of `KernelDoc` were given to the Python code, and members,
sections, warnings, exports, exceptions and written lines were the same in all of
them.

**`MCControlPlane`, `MCClientSession`, `MCDataPath`, `MCAdminPlane`, `MCKdocStruct`,
`MCKernelDoc`, `MCKdocFiles`** give the instances for TLC. **`ControlPlaneProofs`**,
**`ClientSessionProofs`**, **`DataPathProofs`**, **`AdminPlaneProofs`**,
**`KernelDocProofs`** and **`KdocFilesProofs`** have the theorems, **`MinTheorems`** two
facts about natural numbers that they share, **`FoldTheorems`** the induction over a
loop.

## Runs

| run | instance | shows |
| --- | --- | --- |
| `arbitration` | 3 connections, 2 ids, 2 modes and 3 offers, generation below 5, equal and later stamps | the RT slot has one occupant; `active_slot`, `evicting_slot`, `pending_grant_target` never go stale; the occupant may publish and former ones may not; queue positions and service order agree; the data plane has the occupant's mode; no handler but that of STOPPED leaves a free slot with a queue, and the grace deadline, which ends the same eviction, does not |
| `switch_liveness` | 3 connections, one id, generation modulo 3 | an eviction started by a switch ends in the grant; the control plane implements `RtSlot`, past a wrap of the generation too |
| `session` | 2 processes, 2 slots, generation below 4, every kind of event | a client that believes it is active is right or about to be told; at most one process passes the tests of `wispc_publish()`; slots and connections correspond |
| `session_liveness` | 2 processes, one of which renders, generation modulo 3, crashes | a lost activation heals; the retry takes a free slot |
| `frame_path` | 2 processes, 3 buffers, 3 grants, crashes | no torn and no stale frame once no eviction has hit a frame in flight |
| `frame_liveness` | 1 process, 3 grants, shutdown | posted frames are shown; stop ends the loop |
| `admin_queries` | 2 admin connections, shutdown at any time | no query is used after its owner has left; wakeups and queries match; nothing is released under a running thread; queries are answered; shutdown ends |
| `doc_structs` | up to 4 pieces, 2 of them nested blocks | the members found are the visible ones under their blocks' names; warnings are exact; macros are found with all their arguments |
| `doc_comments` | files of up to 8 lines, one of them an ill-formed comment line | parser and C agree on what is comment, and on the exports outside it; each line of text ends up where it was written; no warning is lost; only ill-formed comments raise |
| `doc_build` | 2 files, 8 directives, 3 of them in a behaviour, 2 edits | directives show the items that the documentation of their options promises, but for the departures listed below, with their whole text, literal blocks untouched; pages agree line by line; a file is remembered only with its results |
| `forgotten_switch`, `dead_peer` | as `arbitration` and `session` | a documented statement is violated, see below |

*Bounds.* Three connections are the fewest with an occupant, the target of a switch
and somebody queued; two ids allow a duplicate id. The generation bound allows
enough grants for a session to be granted, evicted and granted again after another.
`ClientSession` has as many slots as processes, so a connection is never turned away
there (the full table is in `arbitration`); `MaxInFlight` bounds the messages that
wait in a stream, not the kinds that meet. Two clients are the fewest that can
disturb each other in the ring; three buffers are the code's. Two admin connections
let one wait while the other is served. In `doc_structs` four pieces are a block in a
block with a member each, or a private mark, a block and members on both sides of
it; in `doc_comments` eight lines are a comment with a section, the declaration, an
inline comment inside it and a line after it. `MaxOdd` is there because ill-formed
lines end the parse or put the machine out of step, and the second one adds nothing.

*Deadlock* is checked for `ControlPlane`, where accepting and listing are always
possible. Elsewhere behaviours end and it is not checked: in `DataPath` and
`ClientSession` at the bound on grants, or when every process has left or the server
has been stopped; in `AdminPlane` when the server exits; in the documentation
modules at the end of the file or of the build.

*Fairness.* `switch_liveness`: time passes and the loop turns, because `poll()` has
a timeout and the grace deadline is looked at in every turn; no fairness on clients.
`session_liveness`: the control thread of every client runs (`ControlLoop`: it
receives what is there, and its receive times out otherwise, which is where it
retries), the server handles what is readable on every connection (`Turn`: `poll()`
returns all of them), and a client that sends no heartbeats is found silent
(`SilenceLapse \/ CheckHeartbeat`: the scan runs after every `poll()`). The render
thread has no fairness, nobody is assumed to leave or die, and a heartbeat that is
sent is not assumed late. `frame_liveness`: the data plane thread runs, and stop()
finishes; none on clients. `admin_queries` (`PatientSpec`): the server's threads run,
and nobody stays silent for ever inside a message. The code has no receive timeout,
so it relies on the last part: under `FairSpec`, which lacks it, TLC finds
`HeartbeatScanRecurs` violated.

`session` and `session_liveness` take SIGPIPE as ignored (`ServerIgnoresSigpipe`), as
it is when the server is started by a parent that ignores it; `dead_peer` shows what
happens otherwise. `RetryTakesFreeSlot` is about sessions in NEGOTIATED: one in QUEUED
that STOPPED left behind is not helped by a retry, because a request is ignored while
QUEUED. It also excepts a client that was granted the slot and could not attach the
ring.

## Where code and documentation disagree

Two disagreements are runs in which TLC finds the documented statement violated.

| run | statement | what the code does |
| --- | --- | --- |
| `forgotten_switch` | a switch during a warmup is applied once the warmup resolves | neither READY_FOR_RT nor GRANT_DECLINE looks at `pending_grant_target` |
| `dead_peer` | sends to a dead client "may silently fail" | they are `write()`s and SIGPIPE is neither blocked nor ignored: the server ends |

Others have a definition in the module; checking it in place of the run's properties
reproduces them.

| definition | checked as in | statement | what the code does |
| --- | --- | --- | --- |
| `SlotNeverIdleWhileQueued` | `arbitration` | `maybe_grant_next_queued()` is called whenever the slot becomes free with clients waiting | `handle_stopped()` does not call it: with the switch's target gone, the queue waits |
| `OneBumpPerGrant` | `switch_liveness` | "every grant the reader ever sends is preceded by exactly one generation bump, full stop" (`SPEC.md:190`); a timeout or a disconnection grants the next client "using the SAME generation bump" (`SPEC.md:222`); `wisps_evict_client()` is "called exactly once per activation switch" (`control_plane.h:7`) | the timeout (`control_plane.c:375`) and the disconnection of an active client (`:638`) bump the generation, and `do_grant()` (`:455`) bumps it again for the next one |
| `ActiveSlotIsCache` with `ConnectOnce = FALSE` | `arbitration` | `active_slot` always names the ACTIVE_RT session | CONNECT has no state guard |
| `NeverTorn` | `frame_path` | a claim never tears a frame the server is using | an eviction clears `server_locked` during a blit |
| `BlitIsLegal` | `frame_path` | the generation check keeps an evicted client's frame out | the check is outside the mutex |
| `NoAbort` | `frame_path` | the abort in `write_slot` is a caller bug | `wispc_publish()` keeps the claim when it gives up |
| `ShowsAsDocumented` | `doc_build` | `-internal` shows the symbols that have NOT been exported "in any input FILE or -export-file FILE", `-export` those that have (`tools/docs/kernel-doc:133-143`, `kdoc_output.py:62`) | with export files given `msg()` ignores the exports of the file itself (`kdoc_files.py:346`), and it finds none once the file has vanished; under internal an exported symbol is hidden if it is a function only (`kdoc_output.py:172-179`) |
| `HeartbeatScanRecurs` under `FairSpec` | `admin_queries` | the heartbeat scan runs at every poll timeout | a partial message blocks the control thread |

The second bump is harmless to the fence: a generation that nobody was granted is
skipped. `ImplementsArbiter` therefore holds with an arbiter that makes it, and says
that no other path moves the fence more or less often. `ShowsWhatIsAsked` takes the
documented meaning of the options and leaves open (`Departs`) the symbols for which
`ShowsAsDocumented` fails.

`frame_path` shows that the two ring hazards need an eviction inside a frame:
`NoTearOnceSettled` and `NoStaleFrameOnceSettled` hold whenever the last eviction
found the data plane and all writers between frames.

The models of the documentation tools keep what the Python code does, which is not
always what it means to do:

- `emit_unused_warnings()` (`kdoc_parser.py:348`) compares an entry with items, so it
  logs the warnings of every entry, also of those that are output.
- An unknown kind of declaration calls `emit_message()` (`:977`), which does not
  exist; an empty line of a special section can index past its end (`:1389`). Both
  end the parse of the file.
- A comment that ends on the line of its name or of a section is not seen to end.
- `typedef struct s *foo;` is not recognised; the name of a documented variable is
  not compared with the declaration; an enum with a body inside a nested block loses
  its enumerators to the block.
- `CMatch._search()` leaves a macro's name that has no arguments on its stack.
- `process_export_file()` (`kdoc_files.py:215`) raises a TypeError for a file not
  parsed before; a file that cannot be opened is remembered as one without items.
- `msg()` (`kdoc_files.py:346`) looks up exports in the export files of the directive
  or, without any, in the file itself, never in both.
- `set_filter()` (`kdoc_output.py:113`) keeps the hidden names of an earlier directive:
  `ShowsWhatIsAsked` and `PagesAgree` are about the pages before the first directive
  with a no-identifiers option.
- `out_function()` (`kdoc_output.py:424`) asks for the third group of an expression that
  has two (`:28`): a parameter that is an unnamed function pointer raises an IndexError,
  and the page is lost after the filter of its directive was stored.
- The replacement of a macro that refers to an argument the call does not have raises an
  IndexError (`c_lex.py:461`). `CLex` gives it no value; the macros of `doc_structs` have
  the arguments that their replacements refer to.
- `out_var()` (`kdoc_output.py:513`) saves the indentation and does not restore it:
  after the first variable of a build the text of structs and the sections of all
  items but functions are indented differently, on later pages too.
- `output_highlight()` does not take a lone "::" for the start of a literal block, ends
  a block at a line indented less than its first one, and never ends one whose first
  line is not indented. (The texts of `doc_build` have regular blocks.)

## Proofs

Every theorem says `Spec => []P` (or `Spec => P` for an action property or a
refinement), with two exceptions for a property that a run checks on a small instance.
None bounds the number of clients, slots, buffers, messages or connections, the length
of a file or the number of files, edits and directives of a build.

| module | theorem | property |
| --- | --- | --- |
| `ControlPlaneProofs` | `TypeCorrect`, `OneOccupant`, `ActiveCacheCorrect`, `EvictingCacheCorrect`, `PendingTargetCorrect`, `EvictionEndsInGrant`, `HolderMayPublish`, `BlitModeCorrect` | `TypeOK`, `SingleHolder`, `ActiveSlotIsCache`, `EvictingSlotIsCache`, `PendingTargetIsLive`, `EvictionTargetGrantable`, `HolderGenerationCurrent`, `DataPlaneModeFollowsHolder` |
| | `Refinement`, `FormerHoldersKeptOut`, `SlotHandedOn`, `GrantsInOrder`, `QueueOrderConsistent` | `ImplementsArbiter`, `FormerHoldersFenced`, `WorkConserving`, `FifoGrant`, `QueuePositionsAgree` |
| `ClientSessionProofs` | `SessionTypeCorrect`, `ActiveClientsRight`, `SinglePublisher`, `ServerInvariance` | `SessionTypeOK`, `ActiveClientKnown`, `OnePublisher`, the invariant of the control plane |
| `DataPathProofs` | `TypeCorrect`, `NoTear`, `NoStaleFrame` | `TypeOK`, `NoTearOnceSettled`, `NoStaleFrameOnceSettled` |
| `AdminPlaneProofs` | `TypeCorrect`, `QueryInScope`, `WakeupExact`, `ReleaseIsSafe` | `TypeOK`, `QueryNotDangling`, `WakeupMatchesQuery`, `SharedStateOutlivesThreads` |
| `KernelDocProofs` | `InSync`, `NoCrash` | `CommentSync`, `CrashOnlyIllFormed` |
| `KdocFilesProofs` | `TypeCorrect`, `PagesAgreeAlways`, `ItemsShown` | `TypeOK`, `PagesAgree`, the half of `ShowsWhatIsAsked` that is about items |

*Assumptions.* Those that the modules state about their constants: at least one
slot, a generation modulus above 2, `NoId` and `NoMode` outside the ids and modes, the
initial mode supported, offers are sequences, at least three buffers, names of nobody
outside the names; in the documentation tools, that lines, texts and items have their
types, that a comment names one of the kinds of declaration that `process_name()` knows
and a line of code is not empty, and that a directive has one of its four modes. The
theorems of `ControlPlaneProofs` assume `ConnectOnce`, without which `ActiveSlotIsCache` is false (see above). Those of
`ClientSessionProofs` do not: that a client sends CONNECT once is part of their
invariant, so `ServerInvariance` discharges the assumption for clients that run the
SDK. `SinglePublisher` assumes `~AllowWrap`, that the generation does not wrap; so does
`FormerHoldersFenced` in its own statement. With a wrap both are false: an old
generation comes back.

**The control plane.** One inductive invariant, `Inv`. The properties support each
other and are not inductive alone: that a grant keeps one occupant needs
`active_slot` to be the true cache (`grant_slot()` decides by it); that the grace
deadline frees the right session needs `evicting_slot` to be one too; that the mode
follows the occupant needs every session past CONNECTED to have negotiated one
(`ModeKnown`), and slot reuse needs freed slots to be clean (`FreeClean`). There is
one lemma per C function (what it preserves under which precondition), one per
handler, and `Next` is a case split over them.

**The arbiter.** The step properties and the refinement follow from one summary,
`SlotTurn(c, d)`, of what a handler may do to the slot: leave the occupant alone, move it
to its next state, grant a free slot, end the occupancy with nobody queued, hand the slot
on; in the last two the generation moves once more if the occupant was cut off while
active. `SlotTurn` is proved for each handler but that of STOPPED from the lemmas behind
`Inv` (`ServingTurn`), which gives `WorkConserving`; `AnyTurn` lets STOPPED end the
occupancy with a queue too. Each kind of turn is an action of `RtSlot` or a stuttering
step. `FormerHoldersFenced` alone is not inductive:
the handler that grants needs to know that no generation yet to come was given out,
also while the slot is free (`Fence`). That queue positions number the queue is a
counting argument: the sessions before one in the queue are a proper subset of those
before the next one, so the position is an injection into 1..n.

**Clients and server.** `SessionInv` has four parts: the control plane's `Inv`; `Alone`,
about a process and its connection whatever the server does (CONNECT is first in its
stream and nothing is answered before it is read, only a process that has gone has
sent DISCONNECT, one that went on without a mode has no connection); `Together`, about
these two and the session (a grant in flight belongs to a session in warmup whose
READY_FOR_RT has not been sent, a READY_FOR_RT in flight to one in warmup, at most one
of either is under way, and an active client's session is active, or its READY_FOR_RT
is in flight, or the notice to stop is); and `Matched`, that sessions and connections
correspond. Without the parts about messages in flight `ActiveClientKnown` is not
inductive: a stray READY_FOR_RT would activate a later grant. The server's side is
summarised by `Effect(c, d, i, kind)`, what a handler of message `kind` from slot `i`
means for every client: grants go to sessions that enter warmup, with a generation the
ring did not have before; only its own READY_FOR_RT ends a warmup; an active session
stays so or is told; newcomers are left alone; only CONNECT and DISCONNECT remove, and
only the sender. `Effect` is proved for every handler, and `HandleKeeps` needs nothing
else about them. What reaches one client of the messages of a handler (`SentTo`) is a
recursive function, reasoned about by induction. `OwnedOnce` adds, short of a wrap,
that each generation has one owner, counting grants still in flight.

**The ring.** `Inv` says what the three indices mean to the threads while `settled`
holds: `client_locked` is the buffer of the only writer, `server_locked` that of the
blit, they differ, a writer past the check of `wispc_publish()` has seen the current
generation, and so has the published frame. Each operator of `ShmRing` has a lemma on
what it does to each field; the scan of `write_slot()` finds a free buffer because
there are more buffers than indices.

**The query rendezvous.** `QueryPlace` says where the only query is at each step of the
admin thread: with it, posted without or with its wakeup byte, with the control
thread, or answered. `Teardown` relates the step of `main()` to what it has released.

**The comment parser.** `IInv` relates the parser to the reader `doc`, as long as the
comments had the documented form: which state the parser is in for each part of a
comment or declaration (`InStep`), that it documents the same kind of thing and counts
the same open braces (`Documents`), and that it has not raised. `CommentSync` alone is
not inductive: where a declaration ends depends on its kind and on the braces counted
on earlier lines, so both have to agree before they are needed. Ill-formed comments
may put the parser anywhere; nothing is claimed of it then but its shape, and the
reader begins a new account with the first comment that finds it ready. There is one
lemma per method (what it leaves of state, kind and braces), one for the reader, one
per action. `process_proto_type()` counts braces token by token while the reader
compares cardinalities; `ChunkStep` relates the two for one token.

**The documentation build.** `IInv` says that the three caches know the same files, that
a cached result is what the content read at that time gives, and of every page that
was written which content, options, exports and indentation it came from
(`AnswersInv`); two pages with the same sources are then the same value. `ItemsShown`
compares the table of exports that `msg()` looked up with the exports that the
documentation speaks of: they differ in the overlooked ones only. That the
writer puts its indentation back after every item but a variable is a fact about five
loops of `RestFormat` (`SameAt`, `Somewhere`).

*Loops* are `FoldLeft` of the community modules, whose definition takes its operator as
an argument. `FoldTheorems` proves once, for an operator and a fact that are constants
of the module, that what every turn keeps holds at the end; a proof instantiates it for
each loop. It rests on the existence of the function that `FoldLeft` chooses
(`ValuesExist`), and on induction stated for a set of numbers (`NatBySuccessor`).

*Model-checked only.* Liveness (`SwitchCarriedOut`, `LostActivationHeals`,
`RetryTakesFreeSlot`, `PostedFrameReachesSink`, `DataPlaneStops`, `QueryAnswered`,
`ShutdownCompletes`): fairness and ENABLED are outside the proof system's reach.
`MembersAsDeclared`, `WarningsExact` and `MacrosFound`: they compare a parse with what
was declared, through rewritten token lists of any depth, which would need the whole of
`dump_struct()` specified for every token list. `TextPlaced`, `NothingSilent` and the
text half of `ShowsWhatIsAsked`: their loops have bodies that depend on the method's
arguments, or select from sequences with SelectSeq, which the provers know nothing
about. The invariants `Inv`, `Fence`, `SessionInv`, `OwnedOnce`, `Settled`, `QueryPlace`
and both `IInv` were checked by TLC on the instances of the runs before they were
proved.

## Not modelled

- wisp: failure paths of startup; statistics; PPM output and the file sink's ring of
  snapshots; libgbm and the dmabuf buffers (the server refuses every announcement);
  headers, lengths and passed descriptors of messages (an oversized message leaves
  its payload in the stream, `socket_message.c:246`; descriptors that come with the
  wrong message are not closed, `control_plane.c:800`; the SDK closes `frame_fd`
  while the render thread may use it, `client_control.c:49`); `set_mode()` against
  the blit. The server ignores a failed send, and so do the models.
- documentation tools: the regular expressions that cut a text into lines and tokens;
  the rewriting of SYSCALL_DEFINE and TRACE_EVENT prototypes, which wisp's headers do
  not have; `format_struct_decl()`, LINENO comments, the man and YAML writers; of
  the table of macros one of each kind is taken. The other scripts under `docs/`
  (`parse_data_structs.py`, `checktransupdate.py`, `automarkup.py`, ...) turn one text
  into another and keep no state between inputs.

## Plan

1. Done: `ControlPlane` implementing `RtSlot`; `ClientSession`; `ShmRing` and `DataPath`;
   `AdminPlane`; the kernel-doc modules; the safety properties of the server, the ring
   and the SDK proved, and of the documentation tools those about the line machine and
   the build.
2. Next: `set_mode()` against the blit in `DataPath`; descriptors that travel with
   messages and who closes them.
3. Proofs: that no warning is lost (`NothingSilent`), then where text is placed
   (`TextPlaced`).
