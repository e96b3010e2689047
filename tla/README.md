# GEngine in TLA+

GEngine is a small C++ game-server framework: a TCP/UDP service on libuv, a
packet format, a registry of message and event listeners, and five server
programs built from them. This directory holds TLA+ models of it, TLC
configurations and TLAPS proofs. Paths are relative to the repository root;
`PROJECT.json` maps every definition to the lines it models.

## The system and its parts

| Part | Source | Modelled by |
|---|---|---|
| Listener registry: `dispatcher`, used through `eventinterface` and `networkinterface` | `libs/server/include/{dispatcher,eventinterface,networkinterface}.h` | `Dispatcher`, abstractly `EventBus` |
| Service: loop, session map, shutdown | `libs/network/*/uv_service.*` | `Service` |
| Application base class and main program (`serverapp`, `gmain`) | `libs/server/*/serverapp.*`, `libs/server/include/gmain.h` | `ServerApp` |
| Sessions, accepting, sending | `libs/network/*/uv_session.*`, `uv_tcp_server.*` | `Service` |
| Read callbacks (`uv_packet`) | `libs/network/*/uv_packet.*` | `Service` (control), `Framing` (data) |
| UDP server | `libs/network/*/uv_udp_server.*` | `UdpServer` |
| Interface to the application (`uv_service_handler`) | `libs/network/include/uv_service_handler.h` | `HandlerContract` |
| libuv 1.19.2, Windows backend (vendored) | `3rd/libuv-v1.19.2/src/win` | `UvTcp`, `UvUdp` |
| `memorystream`, `packet` | `libs/server/*/{memorystream.h,packet.*}` | `Packet`, `PacketHead` |
| Outgoing connections, `singleton` | `libs/network`, `libs/server` | not modelled: never reached, see below |
| Server programs, generated protobuf code, test programs, macros | `server/`, `libs/pb`, `test/`, `uv_net.h`, `platform.h` | not modelled: no behaviour of their own, generated, or printing only |

Nearly all lines under `src/` are vendored (libuv, Protocol Buffers) or
generated; the models cover the program's own code and the few functions of
libuv that it depends on.

How they interact: `gmain` builds an application (a `uv_service_handler`) and a
`uv_service`, initialises it and calls `run`, which alternates
`uv_run(UV_RUN_NOWAIT)` with the application's `update()`. libuv calls
`on_accept`, `on_receive_head`, `on_send` and the close callback; the service
calls the application, which may call `closesession`, `send`, `connect` and
`shutdown` from inside any callback. `serverapp::on_tcpreceive` wraps the bytes
in a `packet` and hands it to `networkinterface::dispatch`, whose listeners may
call the registry again. All of this is one thread: the hard part is not
threads but re-entrance, and memory that libuv or an iterator still refers to.

## Modules

**`Dispatcher`** One dispatcher object. `m_receivers` is the map of lists,
`heap` counts receiver objects not deleted, `loops` is the stack of `dispatch`
calls in progress, each with its `std::list` iterator and (history) the
listeners it has invoked. The actions are `Listen`, `Unlisten`, `Clear`,
`Dispatch` and `Return` (the callback ends, `++iter`). Between `Dispatch` and
the last `Return` any of them may happen again: that is the callback calling
back. Erasing the node an iterator stands on makes it `"erased"`; using it then
(`ReturnErased`) is undefined behaviour: the process dies, the loop ends, or it
goes on from some node, its iterator `"astray"`. `IteratorsValid`,
`InvokedPrefix` and `ExactlyOnce` say what such a removal cannot disturb.

**`EventBus`** What a dispatcher promises, without lists: a set of registrations
and passes that tell every registered listener once. A pass may become void,
which is how a dispatch looks whose iterator was erased: nothing is promised of
it, and everything of the others.

**`UvTcp`** The flags and counters of a libuv TCP handle, as pure operators.

**`Service`** Sessions from accept to deletion. `mem` is the allocation state of
a session, `m_sessions` the map, `tcp` the libuv handle, `stack` the handler
callbacks in progress. A step runs from one point where the application or
libuv decides what comes next to the following one. `closesession` is thus
split at `on_closesession` (`HandlerCloses`/`ReadEnds`, then `ReturnClose`), and
`on_accept` at `on_newsession` (`Accept`, then `ReturnNew`). Accesses to freed
memory, and uses of `uv_packet`'s uninitialised `m_body`, may crash or go on.
A failed `ASSERT` ends the process in every build.
A session has one request, `m_write`, for all its sends. If the application sends
again before `on_send` of the last one, the request enters libuv's circular list
of completed requests twice (`WriteInsertedTwice`), or while `uv_process_reqs`
may still have it before it (`Reused`, for a send that fails at once). `UdpServer`
has that list pointer by pointer; here only the outcome is kept, over-approximated
by choice: any set of pending reads falls out of the list for good (`lost`), or the
walk goes in a circle (`proc = "endless"`, where the model stops), or the process
crashes (in a debug build, in libuv's own assertion). A lost completion of a write
is a `WriteFails` that never happens. A lost accept is an `Accept` that never
happens; UDP requests are not in this module. With `MaxWrites = 1` the application
waits for each send, and none of this can happen.

**`HandlerContract`** The order of callbacks the application may rely on.

**`PacketHead`** Where the fields of a packet's head lie and what the accessors
and `body()` return, as operators of the packet's length. Offsets are multiples
of `INT = sizeof(int)`, so that TLC can take it small.

**`Packet`** A packet with its cursor: every constructor, appends, reads, the
accessors and `body()`. Bytes carry their origin, so that a read can be compared
with what was appended; reads beyond the vector give `Wild`. `Fits` is the one
limit on its length: `std::vector::max_size`, half of what `size_t` counts.
`packet(std::string&)` leaves the cursor uninitialised, so it starts anywhere.

**`Framing`** Packets on a TCP connection: `Send` appends a packet to `stream`,
`on_receive_head` reads a piece of any size into `m_head` and delivers it, drops
it, or leaves it there. The int that `uv_packet::bodylength()` reads lies behind
the head; where its bytes have no known sign the test goes either way.

**`UvUdp`** The counters of a libuv UDP handle, and `loop->pending_reqs_tail`, the
circular list of completed requests, pointer by pointer.

**`UdpServer`** `uv_udp_server` on that list. `kernel` holds the requests the
kernel has, `list` the completed ones, `walk` is `uv_process_reqs` at work, `cb`
the callback in progress. The `Poll` actions complete requests, `Process...` and
`Receive...` process them, and the application sends and closes in between. A
request of another handle shares the list. A send is *premature* if `on_send` of
the previous one has not run: `m_sendreq` and `m_writebuf` are then reused while
in use. The class does not prevent this and gives the application no sign of
completion; the history variable `premature` separates the two cases.

**`ServerApp`** `gmain` around a dispatcher: extends `Dispatcher` by the stages of
the program, by the registrations that `serverapp::initialize` makes and
`shutdown` removes (`todo` is what such a call has still to do), and by listeners
that shut the service down from within a dispatch.

`MCDispatcher`, `MCService`, `MCPacket`, `MCFraming`, `MCUdpServer`, `MCServerApp`
hold only the values for TLC. `DispatcherProofs`, `DispatcherRefinement`,
`ServerAppProofs`, `ServiceProofs`, `PacketProofs`, `FramingProofs`, `UdpInvariant`
and `UdpProofs` hold the theorems and their lemmas.

## Runs

| Run | Result | States |
|---|---|---|
| `dispatcher_reentrant` | 2 ids, 3 listeners (one with a null object), 2 nested dispatches, callbacks that make any call, removal under an iterator included: registry sound, iterators lost only to such a removal, refines `EventBus`; callbacks that only listen cannot keep a dispatch going | 160,256 |
| `serverapp` | the whole program, also removal under an iterator and shutdown inside a dispatch: the application is registered exactly from `initialize` to `shutdown`, the program ends | 243,446 |
| `service_sessions` | 3 sessions, every application call: map, allocations and callbacks agree; refines `HandlerContract` | 4.84 million |
| `service_liveness` | 2 sessions, the application also closes the session `on_newsession` announces and sends before the last send is finished: map and allocations agree, a lost peer is noticed unless the session's read fell out of libuv's list, shutdown ends the process unless the walk over that list is endless | 393,312 |
| `packet_stream` | 3 things of sizes 0 to 2, any order of calls: the stream is kept and read back; valid packets have all their fields | 1.12 million |
| `framing` | 3 packets, cut anywhere: delivered bytes are in order and without leftovers; data that begins with a packet is understood | 50,917 |
| `udp` | 3 sends, 2 waiting datagrams, failing receives, another handle's request: requests are accounted for, the server is not deaf, datagrams leave intact and are read | 875,869 |
| `service_release` | violated: a session is deleted without `uv_close` | |
| `service_buffers` | violated: a write buffer is freed during the write | |
| `service_send` | violated: `ASSERT(status != 0)` in `on_send` fails on success | |
| `packet_string` | violated: a string read returns a byte that was not appended | |
| `framing_packets` | violated: `on_tcpreceive` is given a full buffer, not a packet | |

The five violated runs each check one statement of a comment, an assertion or
libuv's documentation; `findings` in `PROJECT.json` quotes it.

What `service_liveness` says and does not say: two sends in a row to one session
can leave any session unread for ever or hang the loop; `DisconnectNoticed` and
`ShutdownEnds` say that nothing else can, and that lost reads alone do not keep a
service from shutting down. `NoDeafSession` says, for an application that waits for
each send, that no read is lost.

What `udp` says and does not say: `Accounted`, `NotDeaf`, `EndgameSafe` and
`DatagramsRead` are about behaviours without a premature send, and `Intact` says
that only a premature send garbles a datagram. With one, the request is in the
list twice; the model then loses requests of other handles or walks in a cycle
until a counter would go below zero (`proc = "corrupt"`). `on_close` passes the
address of a member to `free`, so `Endgame` may crash. After a failed receive
with no send under way the handle is already inactive: `close()` does not close
it, and the server is left neither receiving nor closed, with `m_init` false.
`DatagramsRead`: without a premature send a server that stays open keeps reading:
it finds the socket empty again and again, or takes datagrams out of it again and
again, whether or not they arrive faster than it reads.

What `framing` says and does not say: a packet reaches the application only if
TCP delivers exactly 1024 bytes at once and the int at offset 24 is not
positive; every other read is dropped. `AlignedIsRight` is about the deliveries
that happen to begin with a packet.

**Bounds.** Two nested dispatches on two ids give a dispatch under a dispatch
of the same and of another id, with callbacks at every level changing either
list; three listeners give a node before, at and behind an iterator. Three sessions give a
session closed from the callback of another while a third is accepted, and both
neighbours in libuv's handle queue. `MaxWrites` is 1 where three sessions are
explored and 2 in `service_liveness`, where `m_write` is reused during a write and
another session's read can be lost to it.
In `udp` three sends in a buffer of 2 with lengths 1 and 3 give
growing, shrinking and growing again (the block is then larger than its recorded
length), and a request that is inserted twice with another one behind it. In
`framing` `INT` is 2, the buffer 16 bytes and the head 12; bodies of 0, 2, 4 and
7 bytes end before, at and behind the end of the buffer. In `serverapp` two
foreign listeners next to the application's own give a node before and behind
it; two nested dispatches suffice for an erased node under an outer iterator.
Three items with sizes 0, 1 and 2 give empty ones, a read across an item border,
and a cursor behind the data; `SIZE_T` is 256 instead of 2^64, larger than any
reachable offset, so that the subtraction wraps as it does in the code.

**Deadlock** is not checked in runs where the process may end or crash, nor for
the packet, the stream and the datagrams, whose bounds stop them.

**Fairness.** `dispatcher_reentrant`: callbacks return, to a valid node or an
erased one; `DispatchTerminates` is
about behaviours in which from some time on callbacks only listen.
`service_liveness`: callbacks return; `uv_run(UV_RUN_NOWAIT)` returns, so
`update()` comes again and again (strong fairness, as other completions may come
first); a read libuv has pending is completed once the peer is gone (strong
fairness, as the loop is busy with other callbacks in between). `serverapp`:
`initialize` and `shutdown` go on to their end, callbacks return (strong
fairness: they may call `shutdown` again before), and `run()` looks at
`m_shutdown` after each `uv_run`; `ShutdownExits` presupposes that listeners do
not register and dispatch forever. `udp`: the loop processes the list and
callbacks return; the completion port is polled in every iteration, and reading
the socket does not report a rejected earlier send every time (both strong).

## Proofs

Every safety property that a passing run checks is also a theorem, for every
value of the constants that the `ASSUME` of its module allows: any number of
ids, listeners, nested dispatches, sessions, writes, packets and datagrams, any
sizes, any width of `int` and `size_t`. `theorems` in `PROJECT.json` pairs each
with its property. The invariants are seldom inductive as they stand; each proof
module has an `IInv` that is (TLC checked it first on the run's instance), lemmas
about the operators, one lemma per action, and the theorems at its end.

**`DispatcherProofs`.** `IInv` is the conjunction of `TypeOK`, `NoDuplicates`,
`NoReceiverLeak` and `InvokedPrefix`, which need each other: that a listed
receiver has its list's id (`NoReceiverLeak`) makes the duplicate test of `listen`
sufficient (`NoDuplicates`); and without duplicates erasing one node removes
exactly one listener, so the invoked listeners remain the prefix up to the
iterator (`InvokedPrefix`). `AfterEraseProperties` is the heart: what erasing a
node does to a list and to the loops standing before, on and behind it. The two
action properties follow step by step: `IteratorsStayValid` because without
duplicates the erased listener is gone from the list (`EraseGone`),
`DispatchOnce` from `InvokedPrefix`.

**`DispatcherRefinement`.** `DispatcherIsEventBus`: every step of the dispatcher
is a step of `EventBus` or a stutter, under the mapping that forgets lists,
iterators and receiver objects. That a pass which ends has told everyone who
stayed registered is `InvokedPrefix` once more; a loop whose iterator is erased
maps to a void pass.

**`ServerAppProofs`.** `AppUsesDispatcher` (`AppSpec => Spec`): the program's calls
are calls that `Dispatcher` allows, so its theorems hold inside the program
(`AppDispatchesOnce`, `AppHasEventBus`). `AppListens` says nothing while
`initialize` or `shutdown` is in progress, which a listener's `shutdown` may be
at any time; `AppShape` adds how far such a call has got.

**`ServiceProofs`.** `IInv` adds to `TypeOK`, `RegistrySound` and `NoSessionLeak`:
only the outermost callback comes from libuv or `run()` (`StackShape`), ids are
not handed out twice (`IdsKnown`), and of every session: libuv's count of
requests is the writes, the pending read and the read whose callback runs
(`HandleSound`), no more writes are under way than were sent (`WritesWithin`), a
session of the map is read or is in a callback after which it
will be (`Heard`), and nothing brings a session that has left the map back to
reading (`Forgotten`). `ListIntact` adds that no read is lost and the walk is not
endless if `MaxWrites <= 1`; `TypeCorrect` and `NoSessionIsDeaf` use it: libuv's
counts do not go below zero because each completion is processed once, and what
could break that is excluded for an application that waits for each send.
`Forgotten` holds only if the application does not close a session from its own
`on_newsession`; `CallbacksAreSafe` and `ServiceKeepsContract`, the refinement of
`HandlerContract`, assume this (`"new" \notin CloseOwnIn`), as does the property
`ReadsReachRegistered`. The other theorems do not.

**`PacketProofs`.** `StreamSound` says where the appended things are; `IInv` adds
that nothing else lies between them (`DataAppended`), that the vector is shorter
than `SIZE_T` (so that the code's unsigned differences are right where the cursor
is not behind the data), and where an orderly reader's cursor is.

**`FramingProofs`.** `IInv`: every byte of the stream belongs to a packet that is
in the stream as a whole (`StreamOfPackets`), and what was delivered last is
what one read put into the whole of `m_head` (`DeliveredRead`). Data that begins
with the first byte of a packet therefore continues with its other bytes.

**`UdpInvariant`, `UdpProofs`.** `next_req` leads once around the list of completed requests
(`ListOK`) and from the walk's place to its end (`WalkOK`); with three requests
these are finitely many shapes. `InsertIs`, `StartIs` and `StepIs` say what
inserting, starting the walk and moving on do to the two sets of requests.
`Orderly` adds that every request is in one place and that `reqs_pending` and
`activecnt` count them. That is inductive only until a send is premature;
`HandleSound` holds in any case, and gives `CloseOnce`. The
first module has the invariant, these lemmas, and the steps that hand a request
to its callback; the second has the other steps and the theorems.

Only model-checked: liveness (`DispatchTerminates`, `DisconnectNoticed`,
`ShutdownEnds`, `ShutdownExits`, `DatagramsRead`), which with its fairness is out
of the prover's reach; and the five violated runs, which are counterexamples.

## Not modelled

- Wording, logging, socket options, addresses.
- Contents of messages in `Service`: a read is a message, ignored, or an end.
  `Framing` has the contents, of one connection that does not fail.
- Outgoing connections, their map, `serverapp::connectserver` and
  `on_newconnection`: `connect` hands libuv the address of a pointer instead of
  a socket address, always fails, and ends the process in its own `ASSERT`
  (`HandlerConnects`). `serverapp::name()` is called only from there.
- `on_receive_body` and `on_alloc_body`: `receive_body` calls `uv_read_start` on
  a handle that is reading, which fails.
- `singleton`: nothing in the repository calls `instance()`.
- Reuse of a freed block by a later allocation.
- Closing the listening handle, which happens only when the process ends.
- `setbroadcast` and a second `initialize` of the UDP server after `close()`,
  which nothing calls.
- The values in a packet: `Body(n)` takes any body length, 0 included (`body()`
  then assigns one byte), and `Framing` only
  knows whether the ints it needs are positive. A promise of `read<T>` for
  cursors behind the data: there the unsigned subtraction in its assertion wraps
  around, so the assertion holds and the read goes through (`ReadValue`);
  `ReadsAppended` leaves this case out.

## Plan

Connections, with a repaired `connect` as a parameter.
