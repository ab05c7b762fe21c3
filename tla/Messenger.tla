----------------------------- MODULE Messenger ------------------------------
(***************************************************************************)
(* The text commands of dclprocessor/tcp, between the two programs of      *)
(* tcp/examples: a client (one thread takes commands from the user, one    *)
(* waits for what the servers send) and a server (one thread waits for     *)
(* connections and lines, the main thread waits for exit_flag and destroys *)
(* the server).  The lines and what they mean are those of TextCommands.   *)
(*                                                                         *)
(* Written to a socket a line is two pieces, all before the '\n' and the   *)
(* '\n', and a read takes any number of those that have come.  The         *)
(* programs use memory they have freed, or NULL, in several places: the    *)
(* process is then "corrupt".                                              *)
(***************************************************************************)
EXTENDS TextCommands, SequencesExt

CONSTANTS
    MaxLines,     \* bound: the lines the user types
    Lines,        \* the lines there are to type
    Room,         \* pieces that fit in conn->buffer
    MayFail,      \* TRUE: epoll_create1, bind, listen or epoll_ctl may fail
    MayLeaveEarly \* TRUE: server_destroy may be called before a STOP came

ASSUME MessengerAssumption ==
    /\ MaxConns \in Nat /\ MaxLines \in Nat /\ Room \in Nat
    /\ Lines \subseteq [words : SUBSET Range(Keywords), host : Hosts]
    /\ MayFail \in BOOLEAN /\ MayLeaveEarly \in BOOLEAN

VARIABLES
    user,      \* where tcp_client_process is
    typed,     \* number of lines the user has typed
    msg,       \* the message in hand, a line and its command
    conn,      \* the connection found for it
    event,     \* where event_thread is
    cliExit,   \* cli->exit_flag
    cliSignal, \* SIGUSR2 is pending for event_thread
    cliConn,   \* [Conns -> the connection in cli->connection_list]
    wire,      \* [Conns -> pieces written and not yet read]
    listen,    \* where tcp_server_process is
    batch,     \* the events of the last epoll_pwait not yet handled
    reading,   \* the connection it has just read
    owner,     \* where the main thread of the server is
    srvExit,   \* srv->exit_flag
    srvSignal, \* SIGUSR2 is pending for the listen thread
    srvConn,   \* [Conns -> the connection in srv->connection_list]
    buffer     \* [Conns -> pieces in conn->buffer]

clientVars == <<user, typed, msg, conn, event, cliExit, cliSignal, cliConn>>
serverVars == <<listen, batch, reading, owner, srvExit, srvSignal, srvConn, buffer, executed>>
vars == <<clientVars, wire, sent, serverVars>>

\* client_create: SIGUSR2 is blocked in every thread, but inside epoll_pwait.
ClientInit ==
    /\ user = "start" /\ typed = 0 /\ event = "none"
    /\ msg = [line |-> [words |-> {}, host |-> "none"], cmd |-> "STATUS"] /\ conn = 0
    /\ cliExit = FALSE /\ cliSignal = FALSE
    /\ cliConn = [c \in Conns |-> "none"]

\* server_create.
ServerInit ==
    /\ listen = "start" /\ batch = {} /\ reading = 0 /\ owner = "poll"
    /\ srvExit = FALSE /\ srvSignal = FALSE
    /\ srvConn = [c \in Conns |-> "none"]
    /\ buffer = [c \in Conns |-> <<>>]
    /\ executed = [c \in Conns |-> <<>>]

Init ==
    /\ ClientInit /\ ServerInit
    /\ wire = [c \in Conns |-> <<>>] /\ sent = [c \in Conns |-> <<>>]

\* A process that ends, well or not, closes its sockets.
ClientUp == user \notin {"done", "corrupt"}
ServerUp == owner \notin {"done", "corrupt"}
Corrupt(process) == process' = "corrupt"

\* connection_add and connection_delete, on either list.
Added(list, c) == [list EXCEPT ![c] = "open"]
Deleted(list, cs) == [c \in Conns |-> IF c \in cs /\ list[c] = "open" THEN "freed" ELSE list[c]]

-----------------------------------------------------------------------------
(* Faulty variants of the definitions below, each a slip one could make in *)
(* the code.  They are not part of Next: they show that the properties can *)
(* tell the code from a wrong one.                                         *)

\* The signal is not blocked: outside epoll_pwait its handler swallows it.
KillUnblocked ==
    /\ user = "kill"
    /\ cliSignal' = (event = "wait")
    /\ user' = "type"
    /\ UNCHANGED <<typed, msg, conn, event, cliExit, cliConn, wire, sent, serverVars>>

\* An interrupted wait counts as news of every connection.
HungupAny == {c \in Conns : cliConn[c] = "open"}

\* The '\n' of a message stays in the buffer.
MarkNothing(c) == UNCHANGED buffer

\* STOP only sends the signal.
ExecuteFlagless(c, m) ==
    /\ executed' = [executed EXCEPT ![c] = Append(@, m)]
    /\ srvSignal' = (srvSignal \/ m.stop)
    /\ UNCHANGED srvExit

-----------------------------------------------------------------------------
(* The client: tcp_client_process and client_execute_callback.             *)

\* tcp_client_process up to its loop.
ClientStart ==
    /\ user = "start"
    /\ \/ user' = "type" /\ event' = "test"
       \/ MayFail /\ user' = "done" /\ UNCHANGED event
    /\ UNCHANGED <<typed, msg, conn, cliExit, cliSignal, cliConn, wire, sent, serverVars>>

\* The user types a line; parse_api_request.
TypeLine ==
    /\ user = "type" /\ ~cliExit /\ typed < MaxLines
    /\ \E line \in Lines : \E cmd \in Commands(line) : msg' = [line |-> line, cmd |-> cmd]
    /\ typed' = typed + 1
    /\ user' = "execute"
    /\ UNCHANGED <<conn, event, cliExit, cliSignal, cliConn, wire, sent, serverVars>>

SetExit ==
    /\ user = "execute" /\ msg.cmd = "QUIT"
    /\ cliExit' = TRUE
    /\ user' = "kill"
    /\ UNCHANGED <<typed, msg, conn, event, cliSignal, cliConn, wire, sent, serverVars>>

\* pthread_kill: SIGUSR2 stays pending until event_thread is in epoll_pwait.
Kill ==
    /\ user = "kill"
    /\ cliSignal' = TRUE
    /\ user' = "type"
    /\ UNCHANGED <<typed, msg, conn, event, cliExit, cliConn, wire, sent, serverVars>>

\* STATUS and what has no connect information.
Ignore ==
    /\ user = "execute" /\ msg.cmd # "QUIT"
    /\ msg.cmd = "STATUS" \/ HostOf(msg) = "none"
    /\ user' = "type"
    /\ UNCHANGED <<typed, msg, conn, event, cliExit, cliSignal, cliConn, wire, sent, serverVars>>

NothingAnswers == HostOf(msg) # "server" \/ ~ServerUp \/ listen \in {"start", "done"}

\* client_add_connection: connect succeeds while the server listens, the new
\* connection goes to the back of the list; or nothing answers at that host.  When
\* epoll_ctl fails the connection is freed twice.
Connects(c) ==
    /\ cliConn[c] = "none" /\ \A d \in 1..(c - 1) : cliConn[d] # "none"
    /\ ~NothingAnswers
    /\ cliConn' = Added(cliConn, c)
    /\ srvConn' = [srvConn EXCEPT ![c] = "backlog"]

Connect ==
    /\ user = "execute" /\ msg.cmd = "CONNECT" /\ HostOf(msg) # "none"
    /\ \/ \E c \in Conns : Connects(c) /\ user' = "type"
       \/ NothingAnswers /\ user' = "type" /\ UNCHANGED <<cliConn, srvConn>>
       \/ ~NothingAnswers /\ MayFail /\ Corrupt(user) /\ UNCHANGED <<cliConn, srvConn>>
    /\ UNCHANGED <<typed, msg, conn, event, cliExit, cliSignal, wire, sent, reading, listen, batch,
                   owner, srvExit, srvSignal, buffer, executed>>

ForServer == msg.cmd \notin {"QUIT", "STATUS", "CONNECT"} /\ HostOf(msg) # "none"
Found == {c \in Conns : cliConn[c] = "open" /\ HostOf(msg) = "server"}

\* connection_get: the first connection of the list to that host.
FindConnection ==
    /\ user = "execute" /\ ForServer /\ Found # {}
    /\ conn' = Min(Found)
    /\ user' = "write"
    /\ UNCHANGED <<typed, msg, event, cliExit, cliSignal, cliConn, wire, sent, serverVars>>

\* No connection: client_add_connection makes one and conn, still NULL, is used.
Reconnect ==
    /\ user = "execute" /\ ForServer /\ Found = {}
    /\ \/ \E c \in Conns : Connects(c) /\ Corrupt(user)
       \/ NothingAnswers /\ user' = "type" /\ UNCHANGED <<cliConn, srvConn>>
    /\ UNCHANGED <<typed, msg, conn, event, cliExit, cliSignal, wire, sent, reading, listen, batch,
                   owner, srvExit, srvSignal, buffer, executed>>

Pieces(line) == <<[line |-> line, part |-> "text"], [line |-> line, part |-> "newline"]>>

\* write: event_thread may have freed conn since it was found, and the server may
\* have closed the socket, which a second write answers with SIGPIPE.
WriteLine ==
    /\ user = "write"
    /\ \/ /\ cliConn[conn] = "open" /\ ServerUp /\ srvConn[conn] # "freed"
          /\ wire' = [wire EXCEPT ![conn] = @ \o Pieces(msg.line)]
          /\ sent' = [sent EXCEPT ![conn] = Append(@, msg.line)]
          /\ user' = "type"
       \/ /\ cliConn[conn] = "freed" \/ ~ServerUp \/ srvConn[conn] = "freed"
          /\ user' = "type" \/ Corrupt(user)
          /\ UNCHANGED <<wire, sent>>
    /\ UNCHANGED <<typed, msg, conn, event, cliExit, cliSignal, cliConn, serverVars>>

\* The loop sees exit_flag.
LeaveLoop ==
    /\ user = "type" /\ cliExit
    /\ user' = "join"
    /\ UNCHANGED <<typed, msg, conn, event, cliExit, cliSignal, cliConn, wire, sent, serverVars>>

ClientDestroyed == cliConn' = Deleted(cliConn, Conns)

\* pthread_join, client_destroy and the end of the process.
EndClient ==
    /\ user = "join" /\ event = "done"
    /\ user' = "done"
    /\ ClientDestroyed
    /\ UNCHANGED <<typed, msg, conn, event, cliExit, cliSignal, wire, sent, serverVars>>

-----------------------------------------------------------------------------
(* The client: event_thread.  The server writes nothing, so what there is  *)
(* to read is the end of the stream.                                       *)

EventTest ==
    /\ ClientUp /\ event = "test"
    /\ event' = IF cliExit THEN "done" ELSE "enter"
    /\ UNCHANGED <<user, typed, msg, conn, cliExit, cliSignal, cliConn, wire, sent, serverVars>>

\* epoll_pwait begins: from here on SIGUSR2 is not blocked.
EventEnter ==
    /\ ClientUp /\ event = "enter"
    /\ event' = "wait"
    /\ UNCHANGED <<user, typed, msg, conn, cliExit, cliSignal, cliConn, wire, sent, serverVars>>

Hungup == {c \in Conns : cliConn[c] = "open" /\ (~ServerUp \/ srvConn[c] = "freed")}

\* epoll_pwait gives EINTR for the signal, or the connections with news; the
\* second test of exit_flag and connection_delete.
EventWait ==
    /\ ClientUp /\ event = "wait" /\ (cliSignal \/ Hungup # {})
    /\ \/ cliSignal /\ cliSignal' = FALSE /\ UNCHANGED cliConn
       \/ /\ Hungup # {} /\ UNCHANGED cliSignal
          /\ cliConn' = IF cliExit THEN cliConn ELSE Deleted(cliConn, Hungup)
    /\ event' = IF cliExit THEN "done" ELSE "test"
    /\ UNCHANGED <<user, typed, msg, conn, cliExit, wire, sent, serverVars>>

-----------------------------------------------------------------------------
(* The server: tcp_server_process and server_execute_callback.             *)

\* tcp_server_process up to its loop: without a socket the thread ends.
ListenStart ==
    /\ ServerUp /\ listen = "start"
    /\ \/ listen' = "test"
       \/ MayFail /\ listen' = "done"
    /\ UNCHANGED <<clientVars, wire, sent, reading, batch, owner, srvExit, srvSignal, srvConn, buffer, executed>>

ListenTest ==
    /\ ServerUp /\ listen = "test"
    /\ listen' = IF srvExit THEN "done" ELSE "wait"
    /\ UNCHANGED <<clientVars, wire, sent, reading, batch, owner, srvExit, srvSignal, srvConn, buffer, executed>>

\* The sockets with news: a connection to accept, pieces to read, or the end of
\* the client.
News == {c \in Conns : \/ srvConn[c] = "backlog"
                       \/ srvConn[c] = "open" /\ (wire[c] # <<>> \/ ~ClientUp \/ cliConn[c] = "freed")}

ListenWait ==
    /\ ServerUp /\ listen = "wait" /\ (srvSignal \/ News # {})
    /\ \/ srvSignal /\ srvSignal' = FALSE /\ UNCHANGED batch
       \/ News # {} /\ batch' = News /\ UNCHANGED srvSignal
    /\ listen' = IF srvExit THEN "done" ELSE "events"
    /\ UNCHANGED <<clientVars, wire, sent, reading, owner, srvExit, srvConn, buffer, executed>>

EndOfBatch ==
    /\ ServerUp /\ listen = "events" /\ batch = {}
    /\ listen' = "test"
    /\ UNCHANGED <<clientVars, wire, sent, reading, batch, owner, srvExit, srvSignal, srvConn, buffer, executed>>

\* server_add_connection; when epoll_ctl fails the connection is freed twice.
AddConnection(c) ==
    \/ srvConn' = Added(srvConn, c) /\ UNCHANGED owner
    \/ MayFail /\ Corrupt(owner) /\ UNCHANGED srvConn

\* accept.
Accept(c) ==
    /\ ServerUp /\ listen = "events" /\ c \in batch /\ srvConn[c] = "backlog"
    /\ batch' = batch \ {c}
    /\ AddConnection(c)
    /\ UNCHANGED <<clientVars, wire, sent, reading, listen, srvExit, srvSignal, buffer, executed>>

\* What a read can bring: the buffer may be full and the stream at its end.
Fits(c) == Min({Room - Len(buffer[c]), Len(wire[c])})

\* read_connection_data: up to what the buffer has room for; a full buffer, like
\* the end of the stream, costs the client its connection.
ReadData(c) ==
    /\ ServerUp /\ listen = "events" /\ c \in batch /\ srvConn[c] # "backlog"
    /\ batch' = batch \ {c}
    /\ \/ srvConn[c] = "freed" /\ Corrupt(owner) /\ UNCHANGED <<wire, srvConn, buffer, listen, reading>>
       \/ /\ srvConn[c] = "open" /\ Fits(c) = 0
          /\ srvConn' = Deleted(srvConn, {c})
          /\ UNCHANGED <<wire, buffer, listen, reading, owner>>
       \/ /\ srvConn[c] = "open"
          /\ \E n \in 1..Fits(c) :
                /\ buffer' = [buffer EXCEPT ![c] = @ \o SubSeq(wire[c], 1, n)]
                /\ wire' = [wire EXCEPT ![c] = SubSeq(@, n + 1, Len(@))]
          /\ listen' = "extract" /\ reading' = c
          /\ UNCHANGED <<srvConn, owner>>
    /\ UNCHANGED <<clientVars, sent, srvExit, srvSignal, executed>>

NewLines(c) == {k \in DOMAIN buffer[c] : buffer[c][k].part = "newline"}

\* connection_extract_message: the first '\n' becomes '\0' and the message is what
\* precedes the first '\0' of the buffer, which is never consumed.  Its '\0' is not
\* copied, so what parse_api_request reads goes on behind it.
MarkLine(c) == buffer' = [buffer EXCEPT ![c] = [@ EXCEPT ![Min(NewLines(c))].part = "nul"]]

\* server_execute_callback: STOP raises exit_flag and sends the thread SIGUSR2, and no
\* other command is supported.
Execute(c, m) ==
    /\ executed' = [executed EXCEPT ![c] = Append(@, m)]
    /\ srvExit' = (srvExit \/ m.stop)
    /\ srvSignal' = (srvSignal \/ m.stop)

\* Without a '\n' connection_extract_message moves the buffer from NULL + 1.
ExtractMessage(c) ==
    /\ ServerUp /\ listen = "extract" /\ c = reading
    /\ IF srvConn[c] = "freed" \/ NewLines(c) = {}
       THEN Corrupt(owner) /\ UNCHANGED <<buffer, executed, srvExit, srvSignal, listen>>
       ELSE /\ MarkLine(c)
            /\ LET line == buffer[c][1].line
               IN  \E cmd \in ServerCommands(line) : Execute(c, [line |-> line, stop |-> cmd = "STOP"])
            /\ listen' = "events"
            /\ UNCHANGED owner
    /\ UNCHANGED <<clientVars, wire, sent, reading, batch, srvConn>>

-----------------------------------------------------------------------------
(* The server: main and server_destroy.                                    *)

SeeExit ==
    /\ owner = "poll" /\ (srvExit \/ MayLeaveEarly)
    /\ owner' = "delete"
    /\ UNCHANGED <<clientVars, wire, sent, reading, listen, batch, srvExit, srvSignal, srvConn, buffer, executed>>

\* Connections are freed while the listen thread may be using them.
DeleteConnection ==
    /\ owner = "delete"
    /\ \E c \in Conns : srvConn[c] = "open" /\ srvConn' = Deleted(srvConn, {c})
    /\ UNCHANGED <<clientVars, wire, sent, reading, listen, batch, owner, srvExit, srvSignal, buffer, executed>>

\* exit_flag is raised; the SIGUSR2 that is logged is not sent.
RaiseExit ==
    /\ owner = "delete" /\ \A c \in Conns : srvConn[c] # "open"
    /\ srvExit' = TRUE
    /\ owner' = "join"
    /\ UNCHANGED <<clientVars, wire, sent, reading, listen, batch, srvSignal, srvConn, buffer, executed>>

EndServer ==
    /\ owner = "join" /\ listen = "done"
    /\ owner' = "done"
    /\ UNCHANGED <<clientVars, wire, sent, reading, listen, batch, srvExit, srvSignal, srvConn, buffer, executed>>

-----------------------------------------------------------------------------
ClientMain == ClientStart \/ SetExit \/ Kill \/ Ignore \/ Connect \/ FindConnection \/ Reconnect \/ WriteLine
              \/ LeaveLoop \/ EndClient
EventThread == EventTest \/ EventEnter \/ EventWait
ListenThread == \/ ListenStart \/ ListenTest \/ ListenWait \/ EndOfBatch
                \/ \E c \in Conns : Accept(c) \/ ReadData(c) \/ ExtractMessage(c)
ServerMain == SeeExit \/ DeleteConnection \/ RaiseExit \/ EndServer

Next == TypeLine \/ ClientMain \/ EventThread \/ ListenThread \/ ServerMain

Spec == Init /\ [][Next]_vars

\* Every thread runs; the user need not type.
FairSpec ==
    /\ Spec
    /\ WF_vars(ClientMain) /\ WF_vars(EventThread) /\ WF_vars(ListenThread)
    /\ WF_vars(ServerMain /\ (owner = "poll" => srvExit))

-----------------------------------------------------------------------------
(* Properties.                                                             *)

\* The client uses a freed connection only if the server has closed one: the list
\* has no lock, and this is what keeps event_thread and client_execute_callback
\* apart.  (Or it has no connection and reconnects.)
CorruptNeedsClose ==
    [][Corrupt(user) /\ user = "write" =>
           ~ServerUp \/ \E c \in Conns : srvConn[c] = "freed"]_vars

\* After QUIT the client ends: SIGUSR2 is blocked outside epoll_pwait, so it cannot
\* fall between the test of exit_flag and the wait (event_thread, client_create).
QuitEndsClient == cliExit ~> ~ClientUp

\* After a STOP has been executed the server ends, the connections that are in the
\* middle of a batch included (server_execute_callback, server_destroy).
Stopped == \E c \in Conns : \E k \in DOMAIN executed[c] : executed[c][k].stop
StopEndsServer == Stopped ~> ~ServerUp
=============================================================================
