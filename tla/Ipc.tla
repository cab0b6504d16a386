-------------------------------- MODULE Ipc --------------------------------
(***************************************************************************)
(* One client's conversation with the server, over one connection after    *)
(* another: twainet/ipc_connector.cpp reads frames, message_handler.cpp    *)
(* finds the handler of their type, ipc_handler.cpp and                    *)
(* client_connector.cpp handle them, and ipc_signal_handler.cpp keeps the  *)
(* module's table of objects.                                              *)
(*                                                                         *)
(* A handler logs and answers over the connection it serves, and waits for *)
(* the acknowledgement each time; whatever comes after such a wait is an   *)
(* action of its own.  One connector reads at a time                       *)
(* (ClientModule!OneAtATime), so the static length is its own.              *)
(*                                                                         *)
(* Nobody looks at what toMessage or onData return.  A frame whose type or *)
(* body finds no memory is discarded and the connector reads on; a frame   *)
(* that finds none on its way out, or that lwIP refuses, is not sent and   *)
(* the socket stays open.                                                  *)
(*                                                                         *)
(* The server is external: it answers one login, names itself by the       *)
(* session it gave, and tells every change of its list of objects.  It     *)
(* answers what it got whole.                                              *)
(***************************************************************************)
EXTENDS IpcName, FiniteSets, FiniteSetsExt, SequencesExt

CONSTANTS
  Objects,      \* names of modules the server may know
  ServerLabel,  \* "Server"
  Session,      \* Session[k]: the label of the k-th connection's session id
  CONNECTIONS,  \* bound: connections since boot
  PIPE,         \* bound: frames on their way
  CHANGES,      \* bound: changes of the server's list
  MESSAGES,     \* bound: messages the server sends
  FAILURES      \* bound: frames that are discarded, logins and names that are not sent

NoSession == EmptyString

\* The server's name on the k-th connection, and a connector's before its login.
ServerName(k) == [module |-> <<ServerLabel>>, host |-> <<Session[k]>>, conn |-> EmptyString]
Nameless == [ServerName(1) EXCEPT !.host = EmptyString]

\* The server gives out the sessions: a module on its list does not bear the
\* name that the session makes of the server itself.
ASSUME NameAssumption ==
  /\ \A n \in Objects : Canonical(n)
  /\ ServerLabel \in Label
  /\ \A k \in 1 .. CONNECTIONS : Session[k] \in Label \ {Empty} /\ ServerName(k) \notin Objects

ASSUME BoundAssumption == {CONNECTIONS, PIPE, CHANGES, MESSAGES, FAILURES} \subseteq Nat

VARIABLES
  objects,     \* server: the modules it knows
  said,        \* server: what it has sent on this connection, once each
  changes,     \* server: how often its list has changed
  spoken,      \* server: how many messages it has sent since boot
  pipe,        \* frames on their way to the client
  connection,  \* connections since boot
  open,        \* m_socket of the connector is valid
  at,          \* where the connector's thread stands; "absent" once it is over
  id,          \* m_id
  connected,   \* m_bConnected
  checker,     \* m_checker is set
  frame,       \* the frame that is handled
  out,         \* the frames the connector has sent whole, in order; "rest" is one or more others
  table,       \* m_ipcObject
  session,     \* m_ownSessionId
  delivered,   \* messages handed to the module since boot
  failures,    \* frames discarded or not sent since boot
  left,        \* history: the table when this connection began
  heard,       \* history: messages the server sent after its name, less the discarded ones
  since,       \* history: how many it had sent when this connection began
  missed,      \* history: objects of whom this connection has discarded a change
  unnamed      \* history: this connection could not send the client's name

serverVars == <<objects, said, changes, spoken, heard>>
threadVars == <<at, frame>>
connVars   == <<id, connected, checker>>
moduleVars == <<table, session, delivered>>
historyVars == <<left, since, missed, unnamed>>
vars == <<serverVars, pipe, connection, open, threadVars, connVars, out, moduleVars, failures,
          historyVars>>

\* Plain frames have no effect whatever the memory: a Ping, a ModuleState without
\* "exist", an unknown type, or one shorter than its header.
Plain == [kind |-> "plain"]

Frames ==
  [kind : {"plain", "result", "refused", "name", "exists"}]
    \cup [kind : {"list"}, names : SUBSET Objects]
    \cup [kind : {"add"}, name : Objects]
    \cup [kind : {"remove"}, string : {GetModuleNameString(n) : n \in Objects}]
    \cup [kind : {"message"}, number : 1 .. MESSAGES]

Places == {"none", "start", "len", "body", "handle", "add", "stated", "welcome", "stop",
           "end", "absent"}

TypeOK ==
  /\ objects \subseteq Objects
  /\ said \subseteq {"result", "name", "list"}
  /\ changes \in 0 .. CHANGES /\ spoken \in 0 .. MESSAGES
  /\ pipe \in Seq(Frames)
  /\ connection \in 0 .. CONNECTIONS
  /\ open \in BOOLEAN /\ connected \in BOOLEAN /\ checker \in BOOLEAN
  /\ at \in Places
  /\ GetIPCName(id) \in {Nameless} \cup {ServerName(k) : k \in 1 .. CONNECTIONS}
  /\ frame \in Frames
  /\ out \in Seq({"login", "name", "rest"})
  /\ {table, left} \subseteq Seq(Objects \cup {ServerName(k) : k \in 1 .. CONNECTIONS})
  /\ session \in {NoSession} \cup {<<Session[k]>> : k \in 1 .. CONNECTIONS}
  /\ delivered \in Seq(1 .. MESSAGES) /\ failures \in 0 .. FAILURES
  /\ heard \subseteq 1 .. MESSAGES /\ since \in 0 .. MESSAGES
  /\ missed \subseteq Objects /\ unnamed \in BOOLEAN

Init ==
  /\ objects \in SUBSET Objects
  /\ said = {} /\ changes = 0 /\ spoken = 0 /\ heard = {}
  /\ pipe = <<>>
  /\ connection = 0
  /\ open = FALSE
  /\ at = "none"
  /\ frame = Plain
  /\ id = GetModuleNameString(Nameless)
  /\ connected = FALSE /\ checker = FALSE
  /\ out = <<>>
  /\ table = <<>> /\ left = <<>> /\ since = 0
  /\ missed = {} /\ unnamed = FALSE
  /\ session = NoSession
  /\ delivered = <<>> /\ failures = 0

----------------------------------------------------------------------------
(***************************************************************************)
(* The module's part: objects, messages in both directions.                *)
(***************************************************************************)

\* onAddIPCObject appends, whether the name is there or not.
Add(n, tab) == Append(tab, n)

\* onRemoveIPCObject erases the first object whose name the string stands for.
RemoveAll(string, tab) ==                      \* variant: no break after the erase
  SelectSeq(tab, LAMBDA n : ~SameName(n, GetIPCName(string)))
RemoveObject(string, tab) ==
  LET found == {k \in DOMAIN tab : SameName(tab[k], GetIPCName(string))}
  IN  IF found = {} THEN tab ELSE RemoveAt(tab, Min(found))

\* What the program sends is for "Server.<session>"; each connector of the
\* module gets it and sends it on if that is its own id.
AddressedNameless ==                           \* variant: session not looked at
  SameName(GetIPCName(id), [Nameless EXCEPT !.host = session])
Addressed ==
  /\ session # NoSession
  /\ SameName(GetIPCName(id), [Nameless EXCEPT !.host = session])

\* A frame that is neither login nor name, sent or failed.
Rest == {out} \cup IF open /\ (out = <<>> \/ Last(out) # "rest") THEN {Append(out, "rest")} ELSE {}

\* One or more log lines.
Spoken == IF Addressed THEN Rest ELSE {out}

\* A log line, or an answer to a command.
Speak ==
  /\ out' \in Spoken
  /\ UNCHANGED <<serverVars, pipe, connection, open, threadVars, connVars, moduleVars, failures, historyVars>>

\* toMessage or SendData finds no memory, lwIP refuses, or onData finds no memory.
Fails == failures < FAILURES /\ failures' = failures + 1

\* Login and name go over the connector itself.
Answer(kind) ==
  \/ out' = (IF open THEN Append(out, kind) ELSE out) /\ UNCHANGED failures
  \/ open /\ Fails /\ UNCHANGED out

----------------------------------------------------------------------------
(***************************************************************************)
(* The connection.                                                         *)
(***************************************************************************)

Connect ==
  /\ at = "none" /\ connection < CONNECTIONS
  /\ connection' = connection + 1
  /\ open' = TRUE
  /\ at' = "start"
  /\ id' = GetModuleNameString(Nameless)
  /\ connected' = FALSE
  /\ pipe' = <<>> /\ out' = <<>> /\ said' = {}
  /\ left' = table /\ since' = spoken
  /\ missed' = {} /\ unnamed' = FALSE
  /\ UNCHANGED <<objects, changes, spoken, heard, frame, checker, moduleVars, failures>>

Lose ==
  /\ open
  /\ open' = FALSE
  /\ pipe' = <<>>
  /\ UNCHANGED <<serverVars, connection, threadVars, connVars, out, moduleVars, failures, historyVars>>

\* OnStop, executed by the thread itself or by whoever removes it from its desk.
OnStopForgetful ==                             \* variant: no RemoveIPCObject
  connected' = FALSE /\ checker' = FALSE /\ UNCHANGED table
OnStop ==
  /\ connected' = FALSE
  /\ table' = RemoveObject(id, table)
  /\ checker' = FALSE

\* The thread's function returns; the socket stays as it is, and OnStop's log
\* line goes over it.
End ==
  /\ at = "end"
  /\ OnStop
  /\ out' \in Spoken
  /\ at' = "absent"
  /\ UNCHANGED <<serverVars, pipe, connection, open, frame, id, session, delivered, failures, historyVars>>

\* The login checker stops the connector, wherever its thread is parked.
CheckerExpires ==
  /\ checker
  /\ OnStop
  /\ open' = FALSE /\ pipe' = <<>>
  /\ at' = "absent"
  /\ UNCHANGED <<serverVars, connection, frame, id, out, session, delivered, failures, historyVars>>

\* The notice about the connector ends the session if it was the connector's;
\* then the connector is deleted.
SessionEnds ==
  session' = IF SameName(GetIPCName(id), [Nameless EXCEPT !.host = session])
             THEN NoSession ELSE session

Notice ==
  /\ at = "absent"
  /\ SessionEnds
  /\ at' = "none"
  /\ open' = FALSE /\ pipe' = <<>>
  /\ UNCHANGED <<serverVars, connection, frame, connVars, out, table, delivered, failures, historyVars>>

\* Disconnect stops the session's connector: notice, OnStop and deletion.
Disconnect ==
  /\ at \notin {"none", "absent"}
  /\ SameName(GetIPCName(id), [Nameless EXCEPT !.host = session])
  /\ SessionEnds
  /\ OnStop
  /\ at' = "none"
  /\ open' = FALSE /\ pipe' = <<>>
  /\ UNCHANGED <<serverVars, connection, frame, id, out, delivered, failures, historyVars>>

----------------------------------------------------------------------------
(***************************************************************************)
(* The connector's thread.                                                 *)
(***************************************************************************)

OnStart ==
  /\ at = "start"
  /\ checker' = TRUE
  /\ Answer("login")
  /\ at' = "len"
  /\ UNCHANGED <<serverVars, pipe, connection, open, frame, id, connected, moduleVars, historyVars>>

\* The two Recvs of a frame, and a block for its body.
ReadLen ==
  /\ at = "len"
  /\ IF open THEN pipe # <<>> /\ at' = "body" ELSE at' = "end"
  /\ UNCHANGED <<serverVars, pipe, connection, open, frame, connVars, out, moduleVars, failures, historyVars>>

ReadBody ==
  /\ at = "body"
  /\ IF open
     THEN /\ pipe # <<>>
          /\ frame' = Head(pipe) /\ pipe' = Tail(pipe)
          /\ at' = "handle"
     ELSE at' = "end" /\ UNCHANGED <<frame, pipe>>
  /\ UNCHANGED <<serverVars, connection, open, connVars, out, moduleVars, failures, historyVars>>

\* A length that is no length, no block for the body, or a Recv of the secure
\* socket that finds no memory: ThreadFunc returns and leaves the socket open.
NoMemory ==
  /\ at \in {"len", "body"}
  /\ at' = "end"
  /\ UNCHANGED <<serverVars, pipe, connection, open, frame, connVars, out, moduleVars, failures, historyVars>>

\* The frame's block is freed, and ThreadFunc goes on.
ReadOn == at' = "len" /\ frame' = Plain

Handling(kind) == at = "handle" /\ frame.kind = kind

HandlePlain ==
  /\ Handling("plain")
  /\ ReadOn
  /\ UNCHANGED <<serverVars, pipe, connection, open, connVars, out, moduleVars, failures, historyVars>>

\* The objects whose changes a frame tells.
About(f) ==
  CASE f.kind = "list"   -> f.names
    [] f.kind = "add"    -> {f.name}
    [] f.kind = "remove" -> {n \in Objects : SameName(n, GetIPCName(f.string))}
    [] OTHER             -> {}

\* No memory for the frame's type or for its unpacked body: onData says so and
\* ThreadFunc reads on.
Discard ==
  /\ at = "handle"
  /\ Fails
  /\ missed' = missed \cup About(frame)
  /\ heard' = IF Handling("message") THEN heard \ {frame.number} ELSE heard
  /\ ReadOn
  /\ UNCHANGED <<objects, said, changes, spoken, pipe, connection, open, connVars, out, moduleVars,
                 left, since, unnamed>>

\* LoginResult: the session becomes the module's, the id gets it, the client
\* names itself.
LoginSuccess ==
  /\ Handling("result")
  /\ session = NoSession
  /\ session' = <<Session[connection]>>
  /\ id' = GetModuleNameString([GetIPCName(id) EXCEPT !.host = <<Session[connection]>>])
  /\ Answer("name")
  /\ unnamed' = (out' = out)
  /\ ReadOn
  /\ UNCHANGED <<serverVars, pipe, connection, open, connected, checker, table,
                 delivered, left, since, missed>>

\* StopThread by the thread itself closes the socket; the loop of ThreadFunc
\* looks at IsStop.
LoginFailure ==
  /\ Handling("refused") \/ at = "stop"
  /\ open' = FALSE /\ pipe' = <<>>
  /\ at' = "end"
  /\ UNCHANGED <<serverVars, connection, frame, connVars, out, moduleVars, failures, historyVars>>

\* ModuleName: the server is an object like the others ...
ModuleName ==
  /\ Handling("name")
  /\ checker' = FALSE
  /\ id' = GetModuleNameString(ServerName(connection))
  /\ table' = Add(ServerName(connection), table)
  /\ out' \in Spoken
  /\ at' = "stated"
  /\ UNCHANGED <<serverVars, pipe, connection, open, frame, connected, session, delivered, failures, historyVars>>

\* ... and after the log line the client states that it does not exist yet.
ModuleStated ==
  /\ at = "stated"
  /\ out' \in Rest
  /\ at' = "welcome"
  /\ UNCHANGED <<serverVars, pipe, connection, open, frame, connVars, moduleVars, failures, historyVars>>

\* OnConnected, with a log line and the terminal's name.
OnConnected ==
  /\ at = "welcome"
  /\ connected' = TRUE
  /\ out' \in Spoken
  /\ ReadOn
  /\ UNCHANGED <<serverVars, pipe, connection, open, id, checker, moduleVars, failures, historyVars>>

ModuleState ==
  /\ Handling("exists")
  /\ out' \in Spoken
  /\ at' = "stop"
  /\ UNCHANGED <<serverVars, pipe, connection, open, frame, connVars, moduleVars, failures, historyVars>>

\* AddIPCObject, and each object of an IPCObjectList, with a log line each.
AddIPCObject ==
  /\ Handling("add")
  /\ table' = Add(frame.name, table)
  /\ out' \in Spoken
  /\ ReadOn
  /\ UNCHANGED <<serverVars, pipe, connection, open, connVars, session, delivered, failures, historyVars>>

IPCObjectList ==
  /\ Handling("list") \/ at = "add"
  /\ IF frame.names = {}
     THEN ReadOn /\ UNCHANGED <<table, out>>
     ELSE \E n \in frame.names :
            /\ table' = Add(n, table)
            /\ frame' = [frame EXCEPT !.names = @ \ {n}]
            /\ out' \in Spoken
            /\ at' = "add"
  /\ UNCHANGED <<serverVars, pipe, connection, open, connVars, session, delivered, failures, historyVars>>

RemoveIPCObject ==
  /\ Handling("remove")
  /\ table' = RemoveObject(frame.string, table)
  /\ out' \in Spoken
  /\ ReadOn
  /\ UNCHANGED <<serverVars, pipe, connection, open, connVars, session, delivered, failures, historyVars>>

\* A message is handed over once the server has named itself.
DeliverAlways(number) == delivered' = Append(delivered, number)   \* variant: no check
Deliver(number) ==
  delivered' = IF connected THEN Append(delivered, number) ELSE delivered

IPCMessage ==
  /\ Handling("message")
  /\ Deliver(frame.number)
  /\ ReadOn
  /\ UNCHANGED <<serverVars, pipe, connection, open, connVars, out, table, session, failures, historyVars>>

----------------------------------------------------------------------------
(***************************************************************************)
(* The server.                                                             *)
(***************************************************************************)

Sends(f) ==
  /\ open /\ Len(pipe) < PIPE
  /\ pipe' = Append(pipe, f)

ServerSays(what, f) ==
  /\ what \notin said
  /\ Sends(f)
  /\ said' = said \cup {what}
  /\ UNCHANGED <<objects, changes, spoken, heard>>

ServerAnswersLogin ==
  /\ "login" \in ToSet(out)
  /\ \E kind \in {"result", "refused"} : ServerSays("result", [kind |-> kind])

ServerNamed ==
  /\ "name" \in ToSet(out)
  /\ \/ ServerSays("name", [kind |-> "name"])
     \/ ServerSays("list", [kind |-> "list", names |-> objects])

\* Frames that tell nothing; when they are sent makes no difference to what is
\* handled before and after them, so they wait until nothing is on its way.
ServerNoise ==
  /\ "name" \in ToSet(out) /\ pipe = <<>>
  /\ Sends(Plain) \/ Sends([kind |-> "exists"])
  /\ UNCHANGED serverVars

\* A module comes or goes, while the client is connected or not.
ServerChanges ==
  /\ changes < CHANGES
  /\ changes' = changes + 1
  /\ \E n \in Objects :
       /\ objects' = IF n \in objects THEN objects \ {n} ELSE objects \cup {n}
       /\ IF "list" \in said /\ open
          THEN Sends(IF n \in objects
                     THEN [kind |-> "remove", string |-> GetModuleNameString(n)]
                     ELSE [kind |-> "add", name |-> n])
          ELSE UNCHANGED pipe
  /\ UNCHANGED <<said, spoken, heard>>

ServerSpeaks ==
  /\ "result" \in said /\ spoken < MESSAGES
  /\ spoken' = spoken + 1
  /\ Sends([kind |-> "message", number |-> spoken'])
  /\ heard' = IF "name" \in said THEN heard \cup {spoken'} ELSE heard
  /\ UNCHANGED <<objects, said, changes>>

ServerStep ==
  /\ \/ ServerAnswersLogin \/ ServerNamed \/ ServerNoise \/ ServerChanges \/ ServerSpeaks
  /\ UNCHANGED <<connection, open, threadVars, connVars, out, moduleVars, failures, historyVars>>

ThreadStep ==
  \/ OnStart \/ ReadLen \/ ReadBody \/ NoMemory
  \/ HandlePlain \/ Discard \/ LoginSuccess \/ LoginFailure
  \/ ModuleName \/ ModuleStated \/ OnConnected \/ ModuleState
  \/ AddIPCObject \/ IPCObjectList \/ RemoveIPCObject \/ IPCMessage
  \/ End

Next ==
  \/ Connect \/ Lose \/ CheckerExpires \/ Notice \/ Disconnect
  \/ Speak
  \/ ServerStep
  \/ ThreadStep

Spec == Init /\ [][Next]_vars

----------------------------------------------------------------------------
(***************************************************************************)
(* Properties.                                                             *)
(***************************************************************************)

Count(n, tab) == Cardinality({k \in DOMAIN tab : tab[k] = n})

\* Everything the server has sent was handled or discarded.
Quiet == connected /\ open /\ at = "len" /\ pipe = <<>> /\ said = {"result", "name", "list"}

\* The server has its own entry while the client is connected to it, once, no
\* entry of an earlier connection is left beside it, and there is none when nobody
\* is connected, wherever the thread was stopped.
ServerListed ==
  /\ TypeOK
  /\ \A k \in 1 .. CONNECTIONS :
       /\ connected => Count(ServerName(k), table) =
                         IF ServerName(k) = ServerName(connection) THEN 1 ELSE 0
       /\ at \in {"none", "absent"} => Count(ServerName(k), table) = 0

\* Once everything was read, the table is what it was when the connection began,
\* with the server and its present objects added: of no object whose frames found
\* memory was a change missed or counted twice, whatever came before the list,
\* was removed by its string, or was discarded of another object.
TableFollows ==
  Quiet =>
    \A n \in (ToSet(table) \cup ToSet(left) \cup objects) \ missed :
      Count(n, table) =
        Count(n, left) + (IF n \in objects \cup {ServerName(connection)} THEN 1 ELSE 0)

\* Messages are handed over in order, none that was sent before the server's
\* name, and all that were sent after it and not discarded: neither the moment at
\* which the client starts to listen nor a discarded frame loses another one.
MessagesInOrder ==
  /\ \A j, k \in DOMAIN delivered : j < k => delivered[j] < delivered[k]
  /\ ToSet(delivered) \subseteq heard
  /\ Quiet => {m \in heard : m > since} \subseteq ToSet(delivered)

\* The server hears the login before anything else and then the client's name
\* before anything else, once each, unless just the name's own frame failed: then
\* never.  The connector that logs in finds no session of an earlier one.
NameComesFirst ==
  /\ \A k \in DOMAIN out : /\ out[k] = "login" <=> k = 1
                           /\ out[k] = "name" <=> k = 2 /\ ~unnamed
  /\ Handling("result") => session = NoSession
=============================================================================
