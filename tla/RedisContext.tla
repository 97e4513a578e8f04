------------------------------ MODULE RedisContext ------------------------------
(****************************************************************************)
(* The blocking client of hiredis (hiredis.c, net.c) as the server and the  *)
(* planner use it: redisCommand, the pipeline of redisAppendCommand and     *)
(* redisGetReply, and redisReconnect, against a Redis server at the other   *)
(* end of the socket.  A command and its reply are two bytes each, so that  *)
(* writes and reads may end in the middle.  RedisReader has the parser; the *)
(* reader here only knows whether a whole reply is there.                   *)
(****************************************************************************)
EXTENDS Integers, Sequences, SequencesExt, FiniteSets

CONSTANTS
    Command,      \* each is issued at most once
    Interrupts,   \* whether a signal may interrupt send (errno = EINTR)
    MaxFaults     \* bound: timeouts, interrupts and lost connections

ContextAssumption == Interrupts \in BOOLEAN /\ MaxFaults \in Nat

VARIABLES
    err,          \* c->err
    obuf,         \* c->obuf: bytes to be sent
    reader,       \* c->reader: bytes received and not yet parsed
    toServer,     \* the socket, from the client to the server
    fromServer,   \* and back
    open,         \* whether the server still has its end open
    oldSocket,    \* bytes on the way to the server when their socket was closed
    at,           \* "idle", or the loop of redisGetReply that runs
    issued,       \* history: the commands the client has issued
    here,         \* history: those appended since the last reconnect
    executed,     \* history: those the server executed since then
    due,          \* history: the commands whose reply comes next, in order
    returned,     \* what the last redisGetReply returned, and what was due
    faults

socket == <<toServer, fromServer, open, oldSocket>>
history == <<issued, here>>
vars == <<err, obuf, reader, socket, at, history, executed, due, returned, faults>>

Bytes(x) == <<<<x, 1>>, <<x, 2>>>>
Whole(bytes) == Len(bytes) >= 2
Rest(s, n) == SubSeq(s, n + 1, Len(s))
Fault == faults < MaxFaults /\ faults' = faults + 1

Init ==
    /\ err = "none" /\ obuf = <<>> /\ reader = <<>>
    /\ toServer = <<>> /\ fromServer = <<>> /\ open = TRUE /\ oldSocket = <<>>
    /\ at = "idle"
    /\ issued = {} /\ here = <<>> /\ executed = <<>> /\ due = <<>>
    /\ returned = [kind |-> "none"]
    /\ faults = 0

--------------------------------------------------------------------------------
(* The user's calls. *)

\* The buffer takes a command even when the context has seen an error.
Append_(x) ==
    /\ at = "idle"
    /\ x \notin issued
    /\ issued' = issued \union {x}
    /\ here' = Append(here, x)
    /\ obuf' = obuf \o Bytes(x)
    /\ due' = Append(due, x)
    /\ UNCHANGED <<err, reader, socket, executed, returned, faults>>

redisAppendCommand(x) == Append_(x) /\ UNCHANGED at

redisCommand(x) == Append_(x) /\ at' = "get"

redisGetReply ==
    /\ at = "idle" /\ due # <<>>
    /\ at' = "get"
    /\ UNCHANGED <<err, obuf, reader, socket, history, executed, due, returned, faults>>

\* Mutant: what was read of the old connection stays in the reader.
ReaderAfterReconnect_Kept == reader

ReaderAfterReconnect == <<>>

\* A new socket; what the client had written on the old one may still arrive.
redisReconnect ==
    /\ at = "idle" /\ err # "none"
    /\ obuf' = <<>> /\ reader' = ReaderAfterReconnect
    /\ toServer' = <<>> /\ fromServer' = <<>> /\ open' = TRUE
    /\ oldSocket' = toServer
    /\ here' = <<>> /\ executed' = <<>> /\ due' = <<>>
    /\ \/ err' = "none" /\ UNCHANGED faults
       \/ err' = "IO" /\ Fault
    /\ UNCHANGED <<at, issued, returned>>

--------------------------------------------------------------------------------
(* redisGetReply, a turn of its loops at a time. *)

GiveReply(bytes) ==
    /\ returned' = [kind |-> "reply", reply |-> bytes[1][1], due |-> Head(due)]
    /\ due' = Tail(due)
    /\ reader' = Rest(bytes, 2)
    /\ at' = "idle"

GiveError(e) ==
    /\ err' = e
    /\ returned' = [kind |-> "error"]
    /\ at' = "idle"
    /\ UNCHANGED <<obuf, reader, due>>

\* A reply that was read together with an earlier one needs no I/O.
redisGetReplyFromReader ==
    /\ at = "get"
    /\ IF Whole(reader) THEN GiveReply(reader)
       ELSE at' = "write" /\ UNCHANGED <<reader, due, returned>>
    /\ UNCHANGED <<err, obuf, socket, history, executed, faults>>

Unwritten(n) == Rest(obuf, n)

redisBufferWrite ==
    /\ at = "write"
    /\ IF err # "none" THEN GiveError(err) /\ UNCHANGED <<toServer, faults>>
       ELSE \/ /\ obuf = <<>>
               /\ at' = "read"
               /\ UNCHANGED <<err, obuf, reader, due, returned, toServer, faults>>
            \/ \E n \in 1 .. Len(obuf) :
                 /\ toServer' = toServer \o SubSeq(obuf, 1, n)
                 /\ obuf' = Unwritten(n)
                 /\ UNCHANGED <<err, reader, at, due, returned, faults>>
            \/ obuf # <<>> /\ Fault /\ GiveError("IO") /\ UNCHANGED toServer
            \* errno = EINTR: "try again later", but -1 is returned
            \/ /\ Interrupts
               /\ obuf # <<>> /\ Fault /\ GiveError("none") /\ UNCHANGED toServer
    /\ UNCHANGED <<fromServer, open, oldSocket, history, executed>>

TimeoutError == "IO"

redisBufferRead ==
    /\ at = "read"
    /\ \/ \E n \in 1 .. Len(fromServer) :
            LET bytes == reader \o SubSeq(fromServer, 1, n) IN
            /\ fromServer' = Rest(fromServer, n)
            /\ IF Whole(bytes) THEN GiveReply(bytes)
               ELSE reader' = bytes /\ UNCHANGED <<at, due, returned>>
            /\ UNCHANGED <<err, obuf, faults>>
       \* what the server sent may still be on its way
       \/ Fault /\ GiveError(TimeoutError) /\ UNCHANGED fromServer
       \/ fromServer = <<>> /\ ~open /\ GiveError("EOF") /\ UNCHANGED <<fromServer, faults>>
    /\ UNCHANGED <<toServer, open, oldSocket, history, executed>>

--------------------------------------------------------------------------------
(* The server: it executes what arrives, also what was written on a socket the *)
(* client has closed since, and may close its end at any time.                 *)

Execute ==
    /\ open /\ Whole(toServer)
    /\ executed' = Append(executed, toServer[1][1])
    /\ fromServer' = fromServer \o Bytes(toServer[1][1])
    /\ toServer' = Rest(toServer, 2)
    /\ UNCHANGED <<err, obuf, reader, open, oldSocket, at, history, due, returned, faults>>

ExecuteOld ==
    /\ Whole(oldSocket)
    /\ oldSocket' = Rest(oldSocket, 2)
    /\ UNCHANGED <<err, obuf, reader, toServer, fromServer, open, at, history, executed,
                   due, returned, faults>>

Close ==
    /\ open /\ Fault
    /\ open' = FALSE
    /\ UNCHANGED <<err, obuf, reader, toServer, fromServer, oldSocket, at, history, executed,
                   due, returned>>

Client == redisGetReplyFromReader \/ redisBufferWrite \/ redisBufferRead

Next ==
    \/ \E x \in Command : redisAppendCommand(x) \/ redisCommand(x)
    \/ redisGetReply \/ redisReconnect
    \/ Client
    \/ Execute \/ ExecuteOld \/ Close

\* A call that has begun goes on, and the server serves the open connection.
Spec == Init /\ [][Next]_vars /\ WF_vars(Client) /\ WF_vars(Execute)

--------------------------------------------------------------------------------
\* First and second bytes take turns, and belong together.
InFrame(bytes) ==
    /\ bytes \in Seq(Command \X {1, 2})
    /\ \A k \in 1 .. Len(bytes) - 1 :
         IF bytes[k][2] = 1 THEN bytes[k + 1] = <<bytes[k][1], 2>> ELSE bytes[k + 1][2] = 1

(* The types of the state; what is sent and received stays in frame, on both
   sides of every place where a write or a read ends. *)
TypeOK ==
    /\ err \in {"none", "IO", "EOF"}
    /\ InFrame(toServer \o obuf)
    /\ InFrame(reader \o fromServer)
    /\ oldSocket \in Seq(Command \X {1, 2})
    /\ open \in BOOLEAN
    /\ at \in {"idle", "get", "write", "read"}
    /\ issued \subseteq Command
    /\ faults \in 0 .. MaxFaults

(* The reply that redisGetReply returns is the one to the earliest command of
   this connection that has none yet: after a timeout, a lost connection or a
   reconnect as well, no late reply is taken for that of a later command. *)
RepliesMatchCommands == returned.kind = "reply" => returned.reply = returned.due

(* hiredis.c on redisCommand: "When NULL is returned in a blocking context, the
   error field in the context will be set." *)
NullMeansError ==
    [][at # "idle" /\ at' = "idle" /\ returned'.kind = "error" => err' # "none"]_vars

(* The server executes the commands of a connection in the order in which they
   were appended, none twice and none left out, wherever writes end and
   connections break. *)
ExecutedInOrder == IsPrefix(executed, here)

(* A blocking call returns: with the reply, or with an error when the
   connection is lost before it comes. *)
CallsReturn == at # "idle" ~> at = "idle"
================================================================================
