# Verification of twainet-esp8266

TLA+ models of the program, the instances TLC checks and the theorems TLAPS
proves. Line numbers are those of the files under `src/`.

## 1. The system

A client of the Twainet message network for the ESP8266: one CPU, no
preemption, no operating system. Everything runs on the Arduino core's event
loop (ETS). On top of it the program builds cooperative threads, blocking
sockets, signals between objects, a reconnecting client and a console.

| part | source | state | operations | interacts with |
|---|---|---|---|---|
| scheduler | `multitask/thread_manager.*`, `thread.*`, `managers_container.*` | two desks (state, owner, coroutine, wake-up time), `g_current_threadId`, one-event ETS queues | AddThread, RemoveThread, Suspend/Resume/Delay/SwitchThread, the sweep ManagerFunc | every blocking call and every callback; the main loop |
| main loop | `twainet/twainet.cpp` | WiFi status seen last | user's `mainloop`, connect/disconnect on WiFi changes, console, CheckManagers, SwitchThread | scheduler, client, console |
| TCP socket | `communication/tcp_socket.*` | pcb, buffer chain and offset, last error, three registered waiters, acknowledged count, send timer | Bind, Connect, Send, Recv, Close; six lwIP callbacks and a timer | scheduler (suspend, resume), lwIP |
| secure socket | `communication/secure_socket.*`, `aes.*` | key, deciphered bytes not read yet | handshake, Send and Recv of encrypted blocks | TCP socket |
| message handler, IPC connector | `communication/message_handler.*`, `twainet/ipc_connector.*`, `ipc_handler.*` | registered messages, connected flag, names, frame length | frames in and out, one handler per message type | socket, signals, client |
| signals | `signal/*` | per signal the receivers' functions, per receiver the signals, the list of all signals | subscribe, emit, remove owner or receiver, reap | scheduler's sweep; every object that emits |
| client, connect thread, connector manager | `twainet/client_module.*`, `client_signal_handler.*`, `client_connector.*`, `communication/connect_thread.*`, `connector_manager.*` | session id, stop flag, the connect thread, the connectors | connect, login, reconnect after failure or loss, disconnect | all of the above |
| login checker | `twainet/ipc_checker_thread.*` | a countdown of sweeps | stop a connector that has not logged in after 50 sweeps | scheduler's sweep, connector |
| IPC objects and names | `twainet/ipc_module.*`, `ipc_signal_handler.*`, `ipc_object_name.*` | table of known modules | add, remove, format, parse | connector's messages |
| list, vector | `std/*` | linked nodes, arrays | insert, erase, iterate | all containers |
| configuration | `utils/twn_config.*` | a JSON object in memory, the file `/config.txt` | get, set, remove, write, read at boot | console, terminal, log, SPIFFS |
| console, terminal | `console/*`, `twainet/terminal.*` | the line being edited | editing, completion, commands; the log | main loop, IPC connector |

What is hard here: the scheduler is cooperative but its calls come from three
kinds of context (main loop, threads, SDK callbacks) and act on "the current
thread", a global that outlives the thread it names; every blocking call can
be overtaken by a callback, an error, a timer or a close; objects are deleted
by a sweep of the main loop while others still point at them; there are two
desks and one event per queue. Even a log line may wait: it goes to the remote
terminal over the client's own connection. Only the configuration is persisted;
`panic()`, null pointers and the user reset the chip at any time, and everything
but the file starts over.

What makes each part correct:

- scheduler: the current id names who executes; a desk, its stack and its owner
  belong together; a started thread runs; a thread is deleted only when no desk
  points at it; the main loop comes round again;
- TCP socket: Recv is a byte stream; Send's blocks are whole and "true" means
  acknowledged; whoever waits is woken by the event it waits for or by the end
  of the socket;
- secure socket: the same stream over encrypted blocks of any size;
- signals: a function is registered exactly as often as its receiver knows its
  signal; nobody is called or visited after its destruction; every signal is
  reaped;
- client: at most one connection attempt at a time, none after a disconnect, one
  after every loss;
- IPC: the table of objects follows the server's; messages are handed over in
  order and none is lost once the server has named itself, except by a frame of
  its own that finds no memory; the client names itself before it says anything
  else, or never;
- list: the linked nodes are a sequence, whatever iterators are held, and a walk
  meets what is there once;
- configuration: it answers what it was told last, and the file keeps for the next
  boot what it answered when it was written; console: what is executed is what was
  typed.

## 2. The modules

| module | models | with |
|---|---|---|
| `ThreadManager` | the scheduler, the three kinds of context, the loop's phases, who is allocated | `MCThreadManager` |
| `ByteStream` | what `AnySocket::Recv` promises: the next bytes, as many as asked for | |
| `ClientModule` | the client: connecting, logging in, reconnecting, disconnecting, with its ConnectThreads, connectors and login checkers; extends `ThreadManager` | `MCClientModule` |
| `SchedulerProofs` | theorems about `ThreadManager` and `ClientModule` | |
| `TcpSocket` | the TCP socket, the contexts that call it, lwIP | `MCTcpSocket` |
| `TcpSocketProofs` | theorems about `TcpSocket`, the refinement of `ByteStream` among them | |
| `SecureSocket` | the secure socket, on top of one `ByteStream` and as another | `MCSecureSocket` |
| `SecureSocketProofs` | theorems about `SecureSocket`: in step with the peer, the refinement, what the peer reads | |
| `IpcName` | dotted names, formatted and parsed | |
| `Ipc` | a client's conversation with the server: frames, handlers, the table of objects; extends `IpcName` | `MCIpc` |
| `IpcProofs` | theorems about `IpcName` and `Ipc` | |
| `TwnList` | the list, walked over while others change it | `MCTwnList` |
| `TwnListProofs` | theorems about `TwnList` | |
| `SequenceLemmas` | lemmas about inserting into, removing from and joining sequences, and the least number of a set, for the other proofs | |
| `Config` | the settings in memory and in the file | `MCConsole` |
| `Console` | the line editor, completion, the config command, remote commands; extends `Config` | `MCConsole` |
| `ConsoleProofs` | theorems about `Config` and `Console` | |
| `PubSub` | what signals promise: a subscription lasts as long as both its ends | |
| `Signal` | signals, their owners and receivers, the sweep that reaps them | `MCSignal` |
| `SignalProofs` | theorems about `Signal`, the refinement of `PubSub` among them | |

### ThreadManager

A step is everything a context does between two scheduler calls: there is no
preemption, so nothing can come in between. `ctx` says what executes: the SDK
(callbacks and timers), the loop, or the coroutine of a desk. `desk`, `owner`,
`frames` and `due` are `g_threadDesks` (`m_state`, `m_thread`, whose frames
`m_cont` holds, whether `m_startTime` has passed), `tstate` is the copy of the
state inside the thread, `current` is `g_current_threadId`, `posted` the queued
events. The operators `SuspendThread`, `DelayThread`, `ResumeThread`,
`SwitchThread`, `StartThread`, `StopThread` and `ReapThreads` are the
scheduler's functions; the actions below them are the places that call them:
`WaitForSocket`, `WaitForName`, `WaitForTime` (the sockets' waits, with the
current id they pass), `Start`, `Stop`, `StopConnection`, `DropConnection`,
`Return`, `Callback` and the phases of the main loop.

`CheckManagers` runs the managers in the order their singletons were first
used, which depends on what the device did first; here the order is open in
every pass. `LoopReapThreads` is ThreadManager's part, `LoopConnectorsSwept`
ends ConnectorManager's, and `DropConnection` deletes one absent connector, in
the sweep or in `StopConnection`. What a thread does between its calls is left
out: any thread may make any of these calls at any time. That is more than the
program's threads do; `ClientModule` says which they make.

Two outcomes end a life of the device: `panic` (no free desk) and `fault` (a
store through a null or deleted `Thread*`). `Reboot` starts over.

### ClientModule

Every action of the client is a step of `ThreadManager` together with what it
does to the client's own state, or leaves the scheduler alone
(`ClientImplementsScheduler`). `stopConnect`, `session` and `connectThread` are
`m_isStopConnect`, `m_ownSessionId` and `m_connectThread`; `connectors` is
`ConnectorManager::m_connectors` with the newest first, `host` the part of a
connector's id that is compared with the session, `checked` the connectors an
`IPCCheckerThread` holds a pointer to, `at` how far a thread's function has
come, `closed` the threads whose socket is closed. A handler with more than one
scheduler call (`Disconnect`, the sweep's notice and deletion) is cut at those
calls; `todo` and `victim` say what is left of it.

A log line is such a call, too. `Log` prints through the console, the terminal
sends what it prints to the server, and `Send` waits for the acknowledgement. So
the loop waits in the middle of `Disconnect`'s walk over the connectors, or of the
sweep's (`NoticeLogs`, for the chores `tell` and `report`), where threads and
callbacks run; `first` remembers what the walk's iterator holds. The sweep's notice
has a socket to wait for only if the connector ended with its socket open (`Lost`: a
bad length, or no memory for the frame). Log lines of the loop's are `LoopTalks`,
those of threads are among the waits of `Connecting` and `Talk`. Where the wait is on
behalf of a current thread that has returned, it is over at once and `Send` repeats
it for ever: no step follows (`LogTo`'s guard), and what comes after the watchdog's
reset is what comes after `ClientInit`.

Two log lines are left out, `IPCSignalHandler::onRemoveIPCObject`'s (69) when `OnStop`
is called by whoever stops or deletes the connector (`StopThread`, `StopAndDelete`):
the stopped connector's socket is closed by then, so they wait only if another one has
the session, which `OneAtATime` excludes until a thread is run again. `OnStop` of a
thread that ends by itself is part of `Talk`.

The source's corners are in the model: the notice of a lost connector starts a
new attempt from inside the sweep; `Disconnect` stops the connection before it
sets the stop flag, so its own notice reconnects and the thread it stops next is
that new one; a failed attempt waits a second inside its own thread and then
connects without another look; `StopThread` through a `m_connectThread` that was
deleted finds no desk and does nothing but read memory that was freed; a
checker stops its connector after any number of passes (fifty in the code).

Taken for granted: the server names itself in `ModuleName` with the session's id
and answers a login once, with a session id nobody has; the user's `mainloop`
makes no calls of the client; name lookup, TCP and handshake are waits
of the thread that may end in success or failure.

`reruns` counts how often a thread that had returned was started again: a
callback that finds it as the current thread (`ResumeThread`) marks its desk
WAITING. `MaxReruns` bounds it. What the client promises holds only without
such a rerun (see 3).

### TcpSocket and ByteStream

Each call is cut at its scheduler calls: `call[c].at` is where context `c`
stands, `Run` lets it go on after a wait. `waiter` holds the three
`m_suspended*Thread` fields, `sentSize`, `timer`, `buf`, `offset` and
`lastError` the fields of these names; `sock` is `m_socket`. lwIP is the
environment: `wire` and `unacked` are what was written and what of it is not
acknowledged, `arrived` and `credit` what came in and what the window was given
back for. The bytes that arrive are numbered, so that order and repetition
show. Constants switch partial ACKs, spurious wake-ups, failures and closes on;
spurious wake-ups are what `ThreadManager`'s `ResumeThread` does to a parked
thread. A call of lwIP with a null pcb ends the behaviour (`up`).

`Stream` maps the socket to `ByteStream`: a byte in the buffer is its place in
the peer's stream, so the first one tells how many were released before it and,
with `offset`, how many were copied; what the pending call has copied is not yet
taken. `ReaderServed` compares the window with the same number. `CopySize` is the
lesser of two lengths where the code takes the least of three: the third, the
rest of the whole chain (`tot_len`), is never less than the first pbuf's.
`RoleAssumption`: at most one context connects and one receives, as one
ConnectThread or one connector uses a socket; senders are any number.

### SecureSocket

The handshake, then blocks: a length, and that much text enciphered in whole
cipher blocks. The socket below is `Wire`, an instance of `ByteStream`, which
`TcpSocket` was shown to implement; what `Recv` hands over is `Stream`, another
one. A byte is its place in the peer's stream, so a place may hold a length, text
or padding, and deciphering keeps the places of the text: that is all that order
and loss need of the cipher. `Recv` is cut at the two reads of the socket
(`AskHeader`, `AskBody`); `GetData` and its failure are steps of their own. The
peer may be wrong in its greeting or key, and may announce a length that is
empty or too long. Every allocation may fail, `OOM` times in all.

`Send` is as it is in the code: whatever happens it reports failure, so a call
longer than `MAX` sends its first part only. The TCP socket below takes a block in
chunks and parks the sender behind each; `rest` is what a sender has yet to write,
`SendMore` its next chunk. In between another sender may start (`tcp_socket.cpp:153`
waits for a sender that is parked, not for one whose call has not ended), lwIP may
refuse a chunk with the socket open (166), or the socket may go. `gone` is set by
the first sender that finds it gone: until then nobody could tell. `Decoded` is what
the peer makes of the bytes. `whole` and `lost` are history: how much text went out in
whole blocks and where the first byte out of its place is, by a long call, a refused
chunk or a sender in between. The buffer for a full block and its length is four bytes short;
the allocator rounds blocks up to eight behind a header of four, which leaves
just these, and no step follows from it.

### IpcName and Ipc

A string is the sequence of its labels between dots, so joining and splitting
are what the code's are without spelling out characters. `Canonical` says which
names come back from their string: no dots within a part, no connection id
without a host.

`Ipc` follows one client over one connection after another (`connection`). `at`
is where the connector's thread stands; a handler that waits is cut there:
`ModuleName`, `ModuleStated`, `OnConnected` are one handler, an `IPCObjectList`
adds an object at a time. `OnStop` may come from the thread itself (`End`), from
the checker or from `Disconnect`, wherever the thread is parked. `out` is what
the server hears whole; log lines and answers of any context are `Speak`.

Nobody looks at what `toMessage` and `onData` return, so a frame can be lost with the
connection intact, either way. `Discard` is the frame of any kind for whose type
or body there is no memory; `Answer` is a login or name that finds none or that
lwIP refuses. For all else the client says (`Rest`, `Spoken`) being sent or lost are
both always possible. A discarded `ModuleName` leaves the client deaf for good
(`m_bConnected`), until the checker ends the connection; a name that was not sent
leaves `m_ownSessionId` set, so that the log speaks to a server that does not know
whom it hears. `missed`, `unnamed` and `heard` say whom and what this concerns, and
the properties hold for all others. `FAILURES` bounds such frames.

The server is external: it answers a login once, names itself by the session it
gave, sends its list once and every change after that; in between it may send
messages, noise and `ModuleState`. It answers what it got whole: of a frame that lwIP
took in part, it is the server's affair what it makes. Taken from `ClientModule`: one connector at a time
(`OneAtATime`), which makes the static length of a frame the reader's own.

### TwnList

Nodes with links, `begin`, and the end node. An iterator is a copy of a node
(`it`), as in the code; `walk` says which loop it belongs to: `emit` steps only
(`Signal::onSignal`), `sweep` goes on from what `erase` returns
(`CheckManagers`), `find` erases and leaves (`StopConnection`), `skip` erases
and steps once more (`SignalManager`). Between any two steps of a walk others
insert at either end and erase any element, as its handlers do. `order`, `gone`,
`stayed` and `visits` are history: the sequence the list stands for, whether the
next element was erased under the walker, what was there all the time and how
often it was met. A walk that goes on after `gone`, or erases through an old
copy, is `misused`: the behaviour ends, and the theorems say nothing is wrong
before.

### Config and Console

The settings are a function on paths: a text, an object, or a key whose value
found no memory (`Blank`). `Put` and `Without` are what `setValue` and
`removeValue` do to it, at any depth: a text replaces all that is below it, a
set below a text does nothing. The buffer of 500 bytes gives nothing back before
a reset, so any set may find too little left, at any object of the path. `Write`
makes the text and logs it, which waits; `Opens` truncates the file, `Stores`
writes and closes it, or writes in part. `GivesUp` is a file that does not open, or
the removal of the thread during that wait. `Reset` comes at any time, between `Opens`
and `Stores` as well, and reads what is there. `told` is history: the answers a
user expects; `newest` is `told` when the newest write began, `spoiled` whether
something came across that write.

The line is a sequence of words of which all that matters is which begins which.
`Parameters` and `Slot` are the vector after `erase(0)`: what was behind the new
end stays there, and `doCommand` looks at it. `Completed` is `Console::Read`'s
tab, `garbage` the flag it does not initialise. `onMessage` is a command of the
remote terminal, executed by the connector's thread while the loop's own may
wait.

### Signal and PubSub

A signal is a heap object of its own: its owner points at it, it points back
(`owned`), each receiver keeps a list of the signals it subscribed to (`known`,
with repetitions), the signal a list of functions (`funcs`, counted per
receiver, since only the receiver matters to removal), and `SignalManager`
lists them all (`listed`, newest first). `Create` and `Destroy` stand for the
constructors and destructors of every class that is a `SignalOwner`, a
`SignalReceiver` or both.

A destructor is cut into its parts, in C++'s order: the class and, for a
connector, `IPCConnector`, each with a `removeReceiver` of its own, then
`~SignalOwner`, then `~SignalReceiver`, then the memory. Nothing else happens in
between; the parts are steps because each follows pointers that the ones before
may have left behind. `removeReceiver` leaves the receiver's list of signals as
it is, so a connector visits the same signals three times, the last time after
its own signal has lost its owner. What keeps this safe is that no sweep comes
in between. `Sweep` steps over the entry after each one it erases, as the code's
loop does.

Not in the model: emission, whose hazards are those of the list it iterates over
(`TwnList`'s walk `emit`), and `removeSignal`, which nothing calls.

The refinement to `PubSub` lets an object leave when its destructor begins and
counts the functions between objects that are present. The rest of the
destructor and the sweep are stutters.

### Variants

A definition whose comment says `variant` is a deliberately broken form of the
definition after it (a missing reset, a lost event, an off-by-one). No
specification uses it. PROJECT.json names for each property a variant that
breaks it, to show that the property depends on that line of the code.

## 3. What TLC checks

| run | instance | shows |
|---|---|---|
| `scheduler` | 2 desks, a ConnectThread, 2 connectors (symmetric) | types; the current id names who executes; ABSENT means no desk points at a thread; a desk resumes only its owner's stack; a start event is never lost; silence falls only when the CPU's last owner is gone; a returned thread is only reaped |
| `scheduler_loop` | 2 desks, a ConnectThread, 1 connector, fair | the main loop runs again and again once the network is quiet |
| `tcp_recv` | a reader, 6 bytes, blocks up to 3, spurious wakes, failures, close | Recv implements `ByteStream`; the window is given back exactly; no reader waits while there is data |
| `tcp_served` | a dialer, a reader and two senders, a buffer of 2, blocks up to 2, partial ACKs, spurious wakes, failures | `NobodyForgotten`: types; who connects or receives is always going to be woken; a sender that got its turn finds room |
| `tcp_send_returns` | one sender, two blocks, failures, close, fair | a sender goes on with less than its chunk acknowledged only when the socket is gone; every Send returns |
| `client` | 2 desks, 3 ConnectThreads, 2 connectors, 2 sessions (all symmetric), one rerun per boot | `KeepsToScheduler`: the client's steps are the scheduler's; `PointersHold`: types, and list, checkers and the thread to stop never name what was deleted. Until a rerun: `OneAtATime`: one attempt, which the client knows, or one connector; `NothingAfterDisconnect`; `NeverIdle`: while WiFi is up there is always one, unless the server refused, and a session belongs to a connector that is listed; `RefusalIsFinal` until WiFi comes back; `WalkUndisturbed`: nobody changes the list while Disconnect's walk or the sweep's waits; `ResetsHaveACause`: whoever finds no desk, one of them is held by another thread whose function has returned and whose stack is used up; and no connector deletes itself |
| `signal` | an owner, a ConnectThread, a handler and a connector; 4 signals (symmetric), up to 2 functions each | nothing freed is used; both lists of a subscription agree; a sweep deletes at least half of what is dead; signals implement `PubSub` |
| `secure` | two blocks of announced length 1, 2 or 3, a limit of 2, cipher blocks of 2; calls for 1 and 3 bytes, two senders, chunks of any size, refused or not; a failing allocation; fair | `InStep`: types; a length is read only where the peer wrote one; the peer gets all that went out in whole blocks, right up to the first byte out of its place; Recv implements `ByteStream`, and returns when its bytes are there |
| `ipc` | 2 modules that come and go, 2 connections, 2 frames on their way, 2 changes, 2 messages, a frame that is discarded or not sent | types and `ServerListed`: the server's entry is there while connected and gone afterwards. But for what the lost frame told: the table follows the server's list; messages in order and complete; the client's name comes second and before all else; a login meets no session |
| `list` | 4 nodes (symmetric), all four walks | the links are the sequence; no freed node is touched unless the walk was misused; types, and each element that stays is met once |
| `console` | a key, its object and another key; 2 texts (symmetric); all lines towards a config command | answers as told; the file keeps what was written, whatever is reset; only what was typed is executed; completion only extends |

`CHECK_DEADLOCK FALSE` stands in every cfg but the console's, which goes on for
ever. The scheduler really can stop: when
the last event goes to a thread that is gone, nothing is left that could run
(`Silent`). In the socket's instances every context makes a bounded number of
calls, and a socket that is gone stays so. A secure socket or a conversation that
failed has nothing left to do, and a list is not followed after a misuse.

Bounds. Two desks are the program's own number; three thread objects are one
more than the desks, so desks are reused, run out, and two connectors meet. A
send buffer of two and blocks of up to three bytes give blocks that fit, that
fill the buffer and that need two rounds. Six bytes in segments of one to six
give chains of several pbufs, blocks that end inside, at the end of and across
pbufs. Larger values add states but no new order of events. In the client's
instance a ConnectThread exists only while it is in a desk, so the third object
is the one an attempt would need if both desks were taken; the second connector
outlives the first in the list; with two sessions a login can get an id the
client does not have. Its view leaves out what a deleted object held, which
nothing reads. One rerun is enough to see what a rerun does; a second one
would repeat it.
For signals there is one object of each kind a destructor treats differently,
besides two plain owners, so that a receiver can know signals of several owners,
its own included; the fourth signal lets one die while three are in use, and
with all owners gone leaves four dead entries next to each other for the sweep
to skip. Two functions at one signal tell "all" from "one".

In `secure` the lengths are a block with padding, one that fills the buffer and
one that is too long (an empty one ends Recv at the same test), and calls ask for less than a block
holds or for more; two blocks are enough for one to be behind what is kept of another,
and for one sender to write into the block of another. In `ipc` one module has a plain name and one of three parts; a second connection is
what an entry of the first is left over for, two frames on their way let a
change overtake the handling of the list, and one lost frame is enough to see that
it takes no other with it. Four nodes are the one the walker
stands on, its neighbours and a new one. In `console` the three keys are one
above another and one beside; two contexts write at the same time, and resets
are not bounded.

Fairness. `ThreadManager`: ETS serves a queued event and os_timers expire (the
SDK's own loop); the loop task has the lowest priority and is served whenever
the queues keep running empty, hence strong fairness; a context that runs
reaches its next scheduler call, the watchdog would reset the chip otherwise.
Nothing is assumed about the network. `TcpSocket`: a resumed sender gets the
CPU, and a send ends in an ACK or in the timer the code armed. `SecureSocket`: a
`Recv` whose socket has what it asked for goes on (`ReaderServed`, and the
scheduler); nothing is assumed about what arrives.

### Where the code disagrees with its comments

| run | comment | what happens |
|---|---|---|
| `tcp_lookup` | `tcp_socket.cpp:102` "will return here when dns_found_callback fires" | in Connect the answer resumes the main loop: the address object carries id 0 |

Seen in the same models, where they are steps and not properties:

- TCP: the wait at `tcp_socket.cpp:152` for other senders is over between two
  chunks of a block, and another context writes in between. Send returns true
  although the socket failed before the last ACK. A chunk acknowledged in two
  parts is waited for without end, the timer being disarmed. The send timeout
  resumes one waiter only (`OnError`): with a reader parked on the same socket
  the sender stays parked, which is why `tcp_send_returns` has a lone sender. Nor
  does Close wake anybody, hence `CLOSES = FALSE` in `tcp_served`;
- scheduler and client: a ConnectThread that has returned but is still the
  current thread when a callback comes is run again: it dials a second time and
  the client ends up with a connector it did not ask for, which is why so many
  properties say `reruns = 0`. When WiFi drops right after a refused login,
  `Disconnect` calls `StopThread` on a ConnectThread that was deleted long ago.
  The end of a thread posts nobody: `SilentOnlyAfterReturn` says that this is
  the only way for the program to fall silent, and it is reached;
- secure socket: a call of Send longer than 512 bytes sends its first 512, and
  every call reports failure (`secure_socket.cpp:240`). A block can be cut or missing
  with the socket open, when lwIP refuses a chunk (`tcp_socket.cpp:166`) or another
  context writes between two chunks (153); nobody notices, and the peer reads on in
  the wrong place: hence `lost` in `PeerInStep`. When GetData finds no
  memory for the rest, Recv waits for another block although it has enough, hence
  `oom > 0` in `RecvReturns`. Send without memory enciphers to a null buffer;
- IPC: a frame that finds no memory is dropped without a word
  (`message_handler.cpp:27`), and the connection goes on without it: hence `missed`,
  `unnamed` and `heard` in the properties of `Ipc`. `m_ipcObject` ("available
  modules", `ipc_module.h:64`) keeps the entries of earlier connections, and after a
  reconnect the list adds them once more; `TableFollows` therefore compares with the table the connection began with.
  `ipc_handler.cpp:49` compares where it means to assign the access id;
- list: an element appended while the walker stands on the last one is skipped.
  Erasing through an old copy of the last element would free the new last one.
  `++it` also reads the node before the next one, a null pointer if all up to the
  next were erased;
- configuration: the readme (line 19) sets the parameters and resets the board;
  without `config write` they are gone. A file cut by a reset, or too long for
  the buffer, makes every set fail, silently; `config write` then stores an empty
  object, and the next reset starts from that. Reading needs memory, too: `Survives`
  speaks of the file, from which a reset may read nothing. A set that finds no memory is
  silent, too, and may leave a key without its value. Of two writes that overlap
  the older text may be what stays in the file.

## 4. What is proved

`SchedulerProofs` proves, for any number of desks (`DeskAssumption`) and any
set of threads (`ThreadAssumption`), the type invariant and all safety
properties that the run `scheduler` checks: `TypeCorrect`, `CurrentIsRunner`,
`AbsentCanBeDeleted`, `StacksAreOwn`, `StartsAreKept`, `SilenceHasACause`, and
`StoppedIsReaped`, an action property.

None of them is inductive alone, their conjunction `IInv` (`TypeOK`,
`OneRunner`, `AbsentMeansFree`, `OwnFrames`, `StartIsPosted`,
`SilentOnlyAfterReturn`) is, because each supplies what another needs. A call on
behalf of the current thread writes the desk of the one who executes because of
`OneRunner`; that a thread has at most one desk (`AbsentMeansFree`) makes the
writes through `owner` hit one thread; that a CREATED desk is posted
(`StartIsPosted`) keeps the queues from running empty while somebody has yet to
start. One lemma per operation of the scheduler (`BlockIInv`,
`StartIInv`, `StopIInv`, ...) shows that it keeps `IInv`; the lemmas of the
actions follow from them, `NextIInv` collects the cases, and the temporal step
is the usual one.

Of the client it proves, for any number of desks, threads and sessions and any
bound on reruns:

- `ClientImplementsScheduler`: every behaviour of the client is one of
  `ThreadManager` (`Spec`). A step maps to the same step of the scheduler, by one
  lemma for the loop's actions and one for the threads'; the one fact about the
  state it needs, that a deleted connector is a thread of the model, comes from
  `IInv`, which is carried along;
- `ClientDeletesAbsent`: by that, `AbsentMeansFree` for the client;
- `DisconnectHasThread`: `HaltHasThread` is not inductive; `ThreadNamed` adds
  that the pointer is set from the moment the loop has WiFi for up until
  `Disconnect` clears it;
- `PointersNameWhatIsThere`: the invariant of the run `client`. `PInv` adds the
  types and two facts that hold while the module is up. `Listed`: who is in the
  list is who is allocated and no thread of the kind that deletes itself.
  `Watched`: whoever a checker would stop sits in a desk and was not stopped. A
  connector that leaves the list leaves the others in their order
  (`SequenceLemmas`);
- `OneConnection`, `DisconnectIsThorough`, `SomebodyConnects`, `RefusalEnds`,
  `WalkIsSafe` and `ResetsAreExplained`: the six properties that hold until a returned
  thread is run again (`reruns = 0`). The last assumes two desks or more, which is
  what the code has: with one, a connected thread could not start its connector.

Those six need to know who can get the CPU next. `RemoveThread` releases the desk of
the thread that `Disconnect` stops only if `g_current_threadId` names another one;
otherwise the thread stays, `STOP_PENDING`, and would go on connecting. That the
other case is the only one while the loop has the CPU depends on which events are
posted. The invariant `CInv` therefore says, while the module is up and nothing was
rerun:

- `Promised`, what the client's variables say of each other. `Alone`: the only
  thread that attempts is `m_connectThread`, at most one connector is listed, and
  which of the two there is by `status`, `stopConnect` and the part of a handler the
  loop is in; `Sessioned`: whose session is alive, and that after a refusal the
  connector is at its end; `Handled`: where `Disconnect`, the manager and the delay
  are cut;
- `Stacked`: a stack is new or used up where the thread is at its begin or its end,
  and a desk is stopped only if its thread has ended;
- `Turns`: whose event or callback can come. `Posted`: events are for threads that
  can run, or for the desk of the attempt that `Disconnect` stopped; `Awaited`:
  callbacks are for threads that wait for them; `PostedByLoop`, `LoopCurrent`,
  `SdkCurrent`: the same while the loop or nobody has the CPU, and whose desk
  `current` names then, since the next log line of the loop blocks that desk;
- `Told`: while `Disconnect`'s walk waits, no desk without a thread is posted or current,
  which keeps a reset out of it.

`WalkIsSafe` then is a matter of `Alone`: while a walk waits, its connector is listed, so
nobody attempts and nobody can add one; and it is the only one, so nobody is there to be
deleted. `ResetsAreExplained`: whoever finds no desk, one is held by a thread that is
neither in the CPU nor the attempt or connector that `Alone` allows; so it is at its
end, and as it is not in the CPU its stack is used up (`Stacked`).

`Turns` alone is not inductive: a thread that has returned on a desk that is
runnable is run again when its event comes. From there on nothing is
claimed, but the step that counts it as a rerun comes later than the one that posts
it. `Doomed` is the time between; in it the loop has no turn, so nothing but
`Turns` is lost. The steps of the loop, of each thread's code and of the SDK have
one lemma each, and `ClientKeepsCInv` collects them on top of `PInv`.

`TcpSocketProofs` proves, for any number of senders, sizes, segments and orders of
events, with spurious wakes and failures wherever they fall:

- `RecvImplementsStream`, the refinement. `RecvDone` maps to `Take`, `RecvFails`
  to `Fail`, `Recv` to `Ask`, `OnTCPRecv` to `Arrive`, all else to a stutter. A
  copy is a stutter because what leaves the buffer joins the pending call's block
  (`CopyFacts`). The inductive invariant is `SockInv`: types; `Roles`, where a
  call can stand; `Placed`, the buffer holds the peer's bytes in their order up to
  the last, and the window for those before it was given back; `Blocks`, a pending
  call holds the bytes just before the next one, as many as it has not left;
  `Rooms`, see below;
- `ReadersAreServed`, with `Waits`: a reader sleeps on an empty buffer only, and is
  registered as long as the socket lives;
- `NobodyLeftBehind`, for `~CLOSES`, with `Hopes`: the socket of a sleeping reader
  is open, that of a sleeping dialer on its way, and each is the one that is
  registered. `OnError` resumes only one waiter; that it is the right one follows
  from `Waits`: nobody waits for the connection of a socket that is open.
  `TurnHasRoom` comes from `Rooms`: a full send buffer belongs to somebody who
  waits for its ACK, so who gets the turn finds room;
- `SentIsAcked`: `AckedWhileOpen` under `~PARTIAL`, for any number of senders. With
  `Acks`, an ACK covers all that is in flight, so `m_sentSize` is told to who waits
  for the last chunk only after everything is acknowledged, and no sender is ahead
  of what was acknowledged of its own bytes. That partial ACKs break this is the
  subject of 3.

`SecureSocketProofs` proves, for every cipher block, limit, stream of blocks and
segmentation, and wherever memory fails:

- `LengthsInStep`, from the inductive `SocketInvariant`: `Aligned` says at which
  block of the peer's stream each step stands, `Kept` that the bytes kept are the
  text that comes next, `Pending` who waits for how much;
- `SecureStream`, the refinement: a `ByteStream` below gives one above. `Recv` maps
  to `Ask`, `GetData` to `Take`, `RecvFails` to `Fail`, bytes that arrive below to
  `Arrive`, all else to a stutter;
- `PeerReadsWhatWasSent`: what was written begins with a row of whole blocks that
  hold the text (`Sent`), by which `Decoded` finds its way. Behind them there is
  nothing (`Between`), or the beginning of the one block whose rest its sender still
  has (`Within`: with that rest it is one block more), or the socket is gone in the
  middle of a block (`Stuck`), or something is out of its place (`Torn`). A step of
  a sender leads from one of these to another (`BetweenGoesOn`, `WithinGoesOn`).

`Before` (where the peer's blocks begin) and `Decoded` are recursive functions.
That they exist, and what they are at every place, is proved without the library's
induction theorems: the least number at which it fails (`LeastNat`) leads to a
contradiction.

`SignalProofs` proves, for any owners, receivers and signals and any number of
functions:

- `TypeCorrect`;
- `NoUseAfterFree` and `SidesAgree`, the safety properties of the run `signal`.
  The inductive invariant `IInv` joins them with `OwnersHaveSignals` (an owner's
  signal exists and is nobody else's), `NothingDangles` (what is not there
  neither knows nor is known; who removes itself has no functions) and
  `DestructorShape` (which parts a kind of destructor has, and that
  `removeReceiver` has run by the time the memory goes). Agreement is what makes
  the two lists safe to follow: a receiver visits the signals it knows, a signal
  the receivers it has functions of, and each has been told when the other went;
- `SweepsHalve`: `SweepHalves`. The list holds each signal that exists once
  (`Entered`); an entry that the loop skips stands behind one that it erases, so
  each dead signal that is left has one of its own that is deleted (`HalfIsReaped`);
- `SignalsArePubSub`: the refinement. `Destroy` maps to `Leave`, `Create` to
  `Enter`, `Subscribe` to itself and all else to a stutter; that a new object
  starts without subscriptions, although its memory is that of an old one,
  follows from `NothingDangles`.

`TwnListProofs` proves, for any set of nodes and any order of insertions,
erasures and walks, `ListIsLinked`, `WalksStayInside` and `WalksMeetOnce`. The inductive invariant
is `Running => Kept /\ Ahead`: `Kept` is the chain with the end node's link,
`Ahead` that the walker's next node is allocated as long as it was not erased
under the walker. The insertions and the erasure are lemmas about sequences
(`InsertAt`, `RemoveAt`) and links; that a copy is good enough to step from, but
not to erase through, is the difference between `Ahead` and `Current`. For
`WalksMeetOnce` the order is cut in two where the walk goes next: what comes
`Later` was not met, what stayed before it was met once (`Halfway`); a step of the
walk moves one element across, an insertion or erasure none.

`ConsoleProofs` proves, for any paths, words, lines, keys and contexts, the
properties of the run `console` (`AnswersAsTold`, `WriteSurvives`,
`StaleWordsAreNotUsed`, `TabLosesNothing`), and two more: `TypeCorrect` and
`StaysNested`, that keys are only below objects. `IInv` joins `Nested`,
`AsTold` and `Survives` with `Safe` (an open file is empty; a write that nothing
came across holds what was told when it began, and is the only one). `AsTold`
needs `Nested`: a set that replaces all that is below a path leaves the rest
untouched only because nothing hangs below a text. `TabLosesNothing` rests on the
offers (`Offers`): whoever is offered a new word is offered none or several, so it
is never completed without a beginning; with one key only it would be.

`IpcProofs` proves `RoundTrip`: for every alphabet, a canonical name is what its
string is parsed to. This is why an object added by its name is found again by the
string of its removal. And, for any modules and bounds, the safety properties of
the run `ipc`: `ServerIsListed`, `TableFollowsServer`, `MessagesKeepOrder` and
`LoginComesFirst`. The inductive invariant joins `Control` (the thread and the
connector's name), `Arrivals` (an answer and a name come once), `Speech` (who said
what before; that the name's place stays empty if it failed), `Entry` (the server's
entry carries the connector's present name), `Order` and `Welcomed` (messages on
their way, and that each reaches its handler while the client `Greets`: the server's
name is still to come, or was handled) and `Levels`: for each name of which no frame
was discarded the frames on their way lead, one after the other, from the entries in
the table to what the server has. A discarded frame is a step of the chain for
nobody but those it is about (`AboutFacts`).

Assumptions: `DeskAssumption`, `ThreadAssumption`, `SessionAssumption`,
`RerunAssumption`, `SignalAssumption`, `FuncsAssumption`, `NodeAssumption`,
`EmptyAssumption`, `NameAssumption` (objects have canonical names, and none is the
server's), `UnitAssumption`, `LengthAssumption`, `BoundAssumption` (bounds are
numbers), `AboveAssumption` (that "above" is a strict order),
`MarkAssumption` and `WordAssumption` (that marks, commands and texts are
different things), `CompletionAssumption` (the empty word begins every word, and
there are several keys: `setup` adds six), `LimitAssumption`, `ContextAssumption`
and `RoleAssumption`. TLC evaluates them in the runs.

Only model-checked: liveness (`LoopServed`, `SendReturns`, `RecvReturns`), which with
ENABLED is out of the prover's reach. So are recursive operators; recursive functions
are within it by `LeastNat`: `Looked` and `Kept` are the functions their equations
define because the least length without such a function leads to a contradiction.

## 5. Not modelled

Protobuf's encoding and the layout of frames, the arithmetic of the ciphers,
WiFi itself, the wording of logs and the terminal's escape sequences. Of
the vector only `erase` and the slots behind its end are; `push_back`, `resize`
and copies are plain array code. `GetNextCommandArgs` of a remote terminal answers
from what the console's completion computes and changes nothing. `StopAllConnection`,
`removeSignal` and `Exit` are called by nobody. PROJECT.json lists every
component with its state. Time is "due or not": the wrap of `millis()` is not
modelled. The modules meet in `ClientModule` (client on scheduler) and in
`ByteStream` (secure socket on TCP socket); the others are checked alone, with
the neighbour's checked property as the assumption named above.

## 6. Plan

Done: all parts of the table in section 1, with proofs for each of them. Left, in
this order:

1. An abstract life cycle of the client that `ClientModule` implements.
2. The vector's growth and copies; frames as bytes over `ByteStream`.
3. The clock modulo 2^32 in the scheduler's delays.
