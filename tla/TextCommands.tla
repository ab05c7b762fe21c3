---------------------------- MODULE TextCommands ----------------------------
(***************************************************************************)
(* The text commands of dclprocessor/tcp (messenger.c): how the text of a  *)
(* line becomes a command and a host, and what is promised of the lines a  *)
(* client writes to a connection and of the messages the server executes   *)
(* for it.                                                                 *)
(*                                                                         *)
(* Connections are numbered in the order they are made.  A line is the set *)
(* of the keywords its text contains and the host it ends with.            *)
(***************************************************************************)
EXTENDS Naturals, Sequences, FiniteSetsExt, Functions

CONSTANT
    MaxConns  \* bound: the connections the client makes

Keywords == <<"CONNECT", "INIT", "START", "STOP", "STATUS", "SET", "GET", "CONFIG", "QUIT">>
Hosts == {"server", "nowhere", "none"}
Conns == 1..MaxConns

VARIABLES
    sent,      \* [Conns -> lines the client has written]
    executed   \* [Conns -> messages server_execute_callback has been given, each
               \*           the line and whether it was taken for STOP]

-----------------------------------------------------------------------------
Said(line) == {k \in DOMAIN Keywords : Keywords[k] \in line.words}
CommandOf(k) == IF Keywords[k] = "INIT" THEN "START" ELSE Keywords[k]

\* parse_api_request: the last keyword of Keywords the text contains decides, INIT
\* is taken for START, and without one msg->cmd is what malloc left there.
Commands(line) ==
    IF Said(line) = {} THEN Range(Keywords) ELSE {CommandOf(Max(Said(line)))}

\* The server copies the text of a line without its end to where malloc may have left
\* other keywords, and these are found too.
ServerCommands(line) ==
    IF Said(line) = {} THEN Range(Keywords)
    ELSE {CommandOf(k) : k \in Max(Said(line))..Len(Keywords)}

\* msg_get_connect_information: cmd_len is that of "START" for an INIT too, so the
\* host of an INIT loses its first letter and names no server.
HostOf(m) ==
    IF m.cmd = "START" /\ "INIT" \in m.line.words /\ "START" \notin m.line.words
       /\ m.line.host # "none"
    THEN "nowhere"
    ELSE m.line.host

-----------------------------------------------------------------------------
\* The bytes that server_execute_callback is given on a connection, msg_len of them,
\* are the first line its client wrote, all of it, and it is called no more often than
\* lines have come: a line that the network cuts in two, or that is still in the
\* buffer, is not taken for one more message (connection_extract_message).  Which
\* command it is may be decided by what lies behind them.
MessageIsFirstLine ==
    \A c \in Conns :
        /\ Len(executed[c]) <= Len(sent[c])
        /\ \A k \in DOMAIN executed[c] : executed[c][k].line = Head(sent[c])
=============================================================================
