-------------------------------- MODULE RedisAsync --------------------------------
(****************************************************************************)
(* The asynchronous client of hiredis (async.c): commands are written and   *)
(* replies read by handlers that an event loop calls, and every reply is    *)
(* given to the callback of its command.  The client is one thread: it is   *)
(* in the loop, in a handler, or in a callback of the user, who may issue   *)
(* commands, disconnect and free there as well as in the loop.  The server  *)
(* acts when the client is in the loop: a handler looks at the socket once, *)
(* when it begins.  Commands and replies pass the socket whole; what cuts   *)
(* them is in RedisContext and RedisReader.  Patterns are treated by the    *)
(* code as channels are, and are left out.                                  *)
(****************************************************************************)
EXTENDS Integers, Sequences, FiniteSets

CONSTANTS
    Channel,
    Session,       \* the uses of a context: [commands : what the user may issue,
                   \* disciplined : does the user keep to MayIssue and MayFree,
                   \* timeouts : may the timer of the loop expire,
                   \* and the bounds length : accepted commands,
                   \* pushes : messages and monitor lines sent unasked]
    MaxCommands    \* the greatest length

Commands == [kind : {"regular", "silent", "subscribe", "unsubscribe", "monitor"}, channels : Seq(Channel)]

ASSUME AsyncAssumption ==
    /\ \A s \in Session : /\ s.commands \subseteq Commands /\ s.pushes \in Nat /\ s.length \in 0 .. MaxCommands
                         /\ {s.disciplined, s.timeouts} \subseteq BOOLEAN
    /\ MaxCommands \in Nat

\* What the theorems ask of the sessions (RedisAsyncProofs).  A (UN)SUBSCRIBE names one
\* channel: with more, cb carries its count from one channel to the next.  MONITOR is
\* for users without discipline: its lines are not told from the replies to come.
OneChannel ==
    \A s \in Session : \A k \in s.commands :
        Len(k.channels) = IF k.kind \in {"regular", "silent", "monitor"} THEN 0 ELSE 1
NoMonitor == \A s \in Session : s.disciplined => \A k \in s.commands : k.kind # "monitor"

VARIABLES
    session,
    flags, err,
    replies, invalid,      \* the callbacks in replies and sub.invalid
    channels,              \* sub.channels: the callbacks of the subscriptions
    obuf, reader,          \* the commands to be written, the replies that were read
    cb,                    \* the variable cb of redisProcessCallbacks
    at,                    \* "loop", "process", "timeout", "free", "callback", "freed", "abort"
    ret,                   \* where the callback returns to
    toServer, fromServer,  \* the socket
    subs, watching,        \* the server: subscriptions, the MONITOR command (0: none)
    closed, pushes,
    issued,                \* the accepted commands
    ran,                   \* how often the callback of each has been run
    misdirected,           \* has a reply gone to another than the callback it is meant for
    unconfirmed,           \* the SUBSCRIBEs of a channel whose confirmation is not processed
    cause,                 \* what began the tear-down: "none", "user", "error"
    told                   \* what onDisconnect was told

client == <<flags, err, replies, invalid, channels, obuf, reader, cb, at, ret>>
server == <<session, toServer, fromServer, subs, watching, closed, pushes>>
history == <<issued, ran, misdirected, unconfirmed, cause, told>>
vars == <<client, server, history>>

Null == [id |-> 0, pending_subs |-> 0]

Range1(seq) == {seq[i] : i \in DOMAIN seq}
Kind(id) == issued[id].kind
Regular == {"regular", "silent", "monitor"}

\* Is the callback the one the reply is meant for?
Meant(reply, callback) ==
    IF reply.type \in {"subscribe", "unsubscribe", "message"}
    THEN callback.id # 0 /\ reply.channel \in Range1(issued[callback.id].channels)
    ELSE reply.to # 0 => callback.id = IF Kind(reply.to) = "silent" THEN 0 ELSE reply.to

--------------------------------------------------------------------------------
(* redisAsyncConnect: the connection is under way. *)
Init ==
    /\ session \in Session
    /\ flags = {} /\ err = "none"
    /\ replies = <<>> /\ invalid = <<>>
    /\ channels = [c \in Channel |-> Null]
    /\ obuf = <<>> /\ reader = <<>> /\ cb = Null
    /\ at = "loop" /\ ret = "loop"
    /\ toServer = <<>> /\ fromServer = <<>>
    /\ subs = {} /\ watching = 0 /\ closed = FALSE /\ pushes = 0
    /\ issued = <<>> /\ ran = [i \in 1 .. MaxCommands |-> 0]
    /\ misdirected = FALSE /\ unconfirmed = [c \in Channel |-> 0]
    /\ cause = "none" /\ told = "none"

\* Mutant: a callback is pushed at the head of the list.
PushCallback_AtHead(list, callback) == <<callback>> \o list

PushCallback(list, callback) == Append(list, callback)

(* __redisRunCallback: a NULL callback is not run. *)
RunCallback(callback, from) ==
    IF callback.id = 0 THEN at' = from /\ UNCHANGED <<ret, ran>>
    ELSE /\ at' = "callback" /\ ret' = from
         /\ ran' = [ran EXCEPT ![callback.id] = @ + 1]

(* __redisAsyncDisconnect, with the error e. *)
AsyncDisconnect(e, fl) ==
    /\ err' = e
    /\ IF e = "none"
       THEN /\ at' = IF replies = <<>> THEN "free" ELSE "abort"
            /\ flags' = fl /\ cause' = "user"
       ELSE /\ at' = "free" /\ flags' = fl \union {"DISCONNECTING"} /\ cause' = "error"

--------------------------------------------------------------------------------
(* What the user calls, in the loop or in a callback. *)

User == at \in {"loop", "callback"}

\* A user who keeps to the modes of the protocol: no regular command while
\* subscribed, and UNSUBSCRIBE only for a subscription that is not given up yet.
Wanted(c) ==
    \E i \in DOMAIN issued :
        /\ issued[i].kind = "subscribe" /\ c \in Range1(issued[i].channels)
        /\ \A j \in i + 1 .. Len(issued) : c \notin Range1(issued[j].channels)
MayIssue(k) ==
    session.disciplined => /\ k.kind \in Regular => "SUBSCRIBED" \notin flags
                           /\ k.kind = "unsubscribe" => \A c \in Range1(k.channels) : Wanted(c)

\* ... and frees the context only where it has a reply.
MayFree == session.disciplined => at = "loop" \/ ret = "process"

\* The dictionary with a SUBSCRIBE added; cb keeps its pending_subs from one
\* channel to the next.
Subscribed(id, names) ==
    LET after[i \in 0 .. Len(names)] ==
          IF i = 0 THEN [dict |-> channels, pending_subs |-> 1]
          ELSE LET dict == after[i - 1].dict
                   pending == IF dict[names[i]] = Null THEN after[i - 1].pending_subs
                              ELSE dict[names[i]].pending_subs + 1
               IN  [dict |-> [dict EXCEPT ![names[i]] = [id |-> id, pending_subs |-> pending]],
                    pending_subs |-> pending]
    IN  after[Len(names)].dict

\* Mutant: a new SUBSCRIBE starts its count anew.
AddSubscription_NotCounted(id, names) ==
    [c \in Channel |-> IF c \in Range1(names) THEN [id |-> id, pending_subs |-> 1] ELSE channels[c]]

AddSubscription(id, names) == Subscribed(id, names)

\* Mutant: a connection that is to be disconnected still accepts commands.
Accepts_Disconnecting == "FREEING" \notin flags

Accepts == flags \intersect {"DISCONNECTING", "FREEING"} = {}

(* __redisAsyncCommand. *)
AsyncCommand(k) ==
    LET id == Len(issued) + 1
        callback == [id |-> IF k.kind = "silent" THEN 0 ELSE id, pending_subs |-> 1]
    IN
    /\ User /\ Len(issued) < session.length /\ MayIssue(k)
    /\ Accepts
    /\ k.kind = "unsubscribe" => "SUBSCRIBED" \in flags
    /\ issued' = Append(issued, k)
    /\ obuf' = Append(obuf, id)
    /\ CASE k.kind = "subscribe" ->
              /\ flags' = flags \union {"SUBSCRIBED"}
              /\ channels' = AddSubscription(id, k.channels)
              /\ unconfirmed' = [c \in Channel |->
                    unconfirmed[c] + IF c \in Range1(k.channels) THEN 1 ELSE 0]
              /\ UNCHANGED <<replies, invalid>>
         [] k.kind = "unsubscribe" ->
              UNCHANGED <<flags, channels, unconfirmed, replies, invalid>>
         [] k.kind = "monitor" ->
              /\ flags' = flags \union {"MONITORING"}
              /\ replies' = PushCallback(replies, callback)
              /\ UNCHANGED <<channels, unconfirmed, invalid>>
         [] OTHER ->
              /\ IF "SUBSCRIBED" \in flags
                 THEN invalid' = PushCallback(invalid, callback) /\ UNCHANGED replies
                 ELSE replies' = PushCallback(replies, callback) /\ UNCHANGED invalid
              /\ UNCHANGED <<flags, channels, unconfirmed>>
    /\ UNCHANGED <<err, reader, cb, at, ret, server, ran, misdirected, cause, told>>

(* redisAsyncDisconnect: at once if nothing is awaited, otherwise when the last
   reply has come. *)
Disconnect ==
    /\ User
    /\ IF at = "loop" /\ replies = <<>>
       THEN AsyncDisconnect(err, flags \union {"DISCONNECTING"})
       ELSE flags' = flags \union {"DISCONNECTING"} /\ UNCHANGED <<err, at, cause>>
    /\ UNCHANGED <<replies, invalid, channels, obuf, reader, cb, ret, server, issued, ran,
                   misdirected, unconfirmed, told>>

(* redisAsyncFree. *)
Free ==
    /\ User /\ MayFree
    /\ flags' = flags \union {"FREEING"}
    /\ at' = IF at = "loop" THEN "free" ELSE at
    /\ cause' = IF at = "loop" THEN "user" ELSE cause
    /\ UNCHANGED <<err, replies, invalid, channels, obuf, reader, cb, ret, server, issued, ran,
                   misdirected, unconfirmed, told>>

Return ==
    /\ at = "callback"
    /\ IF ret = "process" /\ "FREEING" \in flags
       THEN at' = "free" /\ cause' = "user"
       ELSE at' = ret /\ UNCHANGED cause
    /\ UNCHANGED <<flags, err, replies, invalid, channels, obuf, reader, cb, ret, server, issued, ran,
                   misdirected, unconfirmed, told>>

--------------------------------------------------------------------------------
(* The handlers. *)

\* __redisAsyncHandleConnect: the flags with which the handler goes on.
Connected == IF "CONNECTED" \in flags THEN {flags} ELSE {flags \union {"CONNECTED"}}

ConnectFails ==
    /\ at = "loop" /\ "CONNECTED" \notin flags
    /\ AsyncDisconnect("io", flags)
    /\ UNCHANGED <<replies, invalid, channels, obuf, reader, cb, ret, server, issued, ran,
                   misdirected, unconfirmed, told>>

(* redisAsyncHandleRead, when n whole replies have come.  (Every read without a
   reply pushes a callback in monitor mode: bound on such reads.) *)
HandleRead(n) ==
    /\ at = "loop" /\ n \in 0 .. Len(fromServer) /\ fromServer # <<>>
    /\ n = 0 => Len(replies) < session.length
    /\ flags' \in Connected
    /\ reader' = reader \o SubSeq(fromServer, 1, n)
    /\ fromServer' = SubSeq(fromServer, n + 1, Len(fromServer))
    /\ at' = "process" /\ cb' = Null
    /\ UNCHANGED <<err, replies, invalid, channels, obuf, ret, session, toServer, subs, watching,
                   closed, pushes, history>>

ReadSome == \E n \in 1 .. Len(fromServer) : HandleRead(n)

ReadEOF ==
    /\ at = "loop" /\ fromServer = <<>> /\ closed
    /\ \E fl \in Connected : AsyncDisconnect("eof", fl)
    /\ UNCHANGED <<replies, invalid, channels, obuf, reader, cb, ret, server, issued, ran,
                   misdirected, unconfirmed, told>>

(* redisAsyncHandleWrite.  The loop calls it while there is something to write
   or the connection is under way. *)
HandleWrite(n) ==
    /\ at = "loop" /\ (obuf # <<>> \/ "CONNECTED" \notin flags)
    /\ n \in 0 .. Len(obuf) /\ ~closed
    /\ flags' \in Connected
    /\ toServer' = toServer \o SubSeq(obuf, 1, n)
    /\ obuf' = SubSeq(obuf, n + 1, Len(obuf))
    /\ UNCHANGED <<err, replies, invalid, channels, reader, cb, at, ret, session, fromServer, subs,
                   watching, closed, pushes, history>>

WriteSome == \E n \in 1 .. Len(obuf) : HandleWrite(n)

WriteFails ==
    /\ at = "loop" /\ obuf # <<>> /\ closed
    /\ \E fl \in Connected : AsyncDisconnect("io", fl)
    /\ UNCHANGED <<replies, invalid, channels, obuf, reader, cb, ret, server, issued, ran,
                   misdirected, unconfirmed, told>>

(* redisAsyncHandleTimeout: an idle connection is left alone. *)
HandleTimeout ==
    /\ at = "loop" /\ session.timeouts
    /\ "CONNECTED" \notin flags \/ replies # <<>>
    /\ err' = IF err = "none" THEN "timeout" ELSE err
    /\ at' = "timeout"
    /\ UNCHANGED <<flags, replies, invalid, channels, obuf, reader, cb, ret, server, history>>

TimeoutTurn ==
    /\ at = "timeout"
    /\ IF replies # <<>>
       THEN /\ RunCallback(Head(replies), "timeout")
            /\ replies' = Tail(replies)
            /\ UNCHANGED <<flags, err, cause>>
       ELSE AsyncDisconnect(err, flags) /\ UNCHANGED <<replies, ret, ran>>
    /\ UNCHANGED <<invalid, channels, obuf, reader, cb, server, issued, misdirected, unconfirmed, told>>

--------------------------------------------------------------------------------
(* redisProcessCallbacks, one turn of its loop. *)

Deliver(reply, callback) ==
    /\ cb' = callback
    /\ RunCallback(callback, "process")
    /\ reader' = Tail(reader)
    /\ misdirected' = (misdirected \/ ~Meant(reply, callback))

\* Mutant: only a context that is being freed is disconnected.
LastReplyCame_Freeing == "FREEING" \in flags /\ obuf = <<>> /\ replies = <<>>

LastReplyCame == "DISCONNECTING" \in flags /\ obuf = <<>> /\ replies = <<>>

NoReply ==
    /\ at = "process" /\ reader = <<>>
    /\ IF LastReplyCame
       THEN AsyncDisconnect(err, flags) /\ UNCHANGED replies
       ELSE /\ at' = "loop" /\ UNCHANGED <<flags, err, cause>>
            /\ replies' = IF "MONITORING" \in flags THEN PushCallback(replies, cb) ELSE replies
    /\ UNCHANGED <<invalid, channels, obuf, reader, cb, ret, server, issued, ran, misdirected,
                   unconfirmed, told>>

RegularReply ==
    /\ at = "process" /\ reader # <<>> /\ replies # <<>>
    /\ Deliver(Head(reader), Head(replies))
    /\ replies' = Tail(replies)
    /\ UNCHANGED <<flags, err, invalid, channels, obuf, server, issued, unconfirmed, cause, told>>

\* An error nobody asked for: too many clients, or the server is loading its data.
SpontaneousError ==
    /\ at = "process" /\ reader # <<>> /\ replies = <<>> /\ Head(reader).type = "error"
    /\ AsyncDisconnect("other", flags)
    /\ reader' = Tail(reader)
    /\ misdirected' = (misdirected \/ Head(reader).to # 0)
    /\ UNCHANGED <<replies, invalid, channels, obuf, cb, ret, server, issued, ran, unconfirmed, told>>

Spontaneous == at = "process" /\ reader # <<>> /\ replies = <<>> /\ Head(reader).type # "error"

(* The assertion that the context is subscribed or monitoring. *)
Unexpected ==
    /\ Spontaneous /\ flags \intersect {"SUBSCRIBED", "MONITORING"} = {}
    /\ at' = "abort"
    /\ UNCHANGED <<flags, err, replies, invalid, channels, obuf, reader, cb, ret, server, history>>

MonitorLine ==
    /\ Spontaneous /\ flags \intersect {"SUBSCRIBED", "MONITORING"} = {"MONITORING"}
    /\ Deliver(Head(reader), cb)
    /\ UNCHANGED <<flags, err, replies, invalid, channels, obuf, server, issued, unconfirmed, cause,
                   told>>

Drops(entry) == entry.pending_subs = 0

IsOver(reply, dict) ==
    reply.type = "unsubscribe" /\ reply.count = 0 /\ \A c \in Channel : dict[c] = Null

(* __redisGetSubscribeCallback, for an array.  When the channel has no callback
   cb is left as it was. *)
PubSubReply ==
    /\ Spontaneous /\ "SUBSCRIBED" \in flags
    /\ Head(reader).type \in {"subscribe", "unsubscribe", "message"}
    /\ LET reply == Head(reader)
           found == channels[reply.channel]
           entry == IF reply.type = "subscribe" THEN [found EXCEPT !.pending_subs = @ - 1] ELSE found
           dict == [channels EXCEPT ![reply.channel] =
                        IF reply.type = "unsubscribe" /\ Drops(entry) THEN Null ELSE entry]
       IN  /\ IF found = Null
              THEN Deliver(reply, cb) /\ UNCHANGED <<channels, flags>>
              ELSE /\ Deliver(reply, entry)
                   /\ channels' = dict
                   /\ flags' = IF IsOver(reply, dict) THEN flags \ {"SUBSCRIBED"} ELSE flags
           /\ unconfirmed' = IF reply.type = "subscribe"
                             THEN [unconfirmed EXCEPT ![reply.channel] = @ - 1] ELSE unconfirmed
    /\ UNCHANGED <<err, replies, invalid, obuf, server, issued, cause, told>>

(* The same for another reply: it belongs to an invalid command. *)
InvalidReply ==
    /\ Spontaneous /\ "SUBSCRIBED" \in flags /\ Head(reader).type \in {"reply", "line"}
    /\ IF invalid = <<>> THEN Deliver(Head(reader), cb) /\ UNCHANGED invalid
       ELSE Deliver(Head(reader), Head(invalid)) /\ invalid' = Tail(invalid)
    /\ UNCHANGED <<flags, err, replies, channels, obuf, server, issued, unconfirmed, cause, told>>

--------------------------------------------------------------------------------
(* __redisAsyncFree: the callbacks that are left get a NULL reply, one by one. *)

FreeTurns == replies # <<>> \/ invalid # <<>>

FreeTurn ==
    /\ at = "free" /\ FreeTurns
    /\ IF replies # <<>>
       THEN RunCallback(Head(replies), "free") /\ replies' = Tail(replies) /\ UNCHANGED invalid
       ELSE RunCallback(Head(invalid), "free") /\ invalid' = Tail(invalid) /\ UNCHANGED replies
    /\ UNCHANGED <<flags, err, channels, obuf, reader, cb, server, issued, misdirected, unconfirmed,
                   cause, told>>

FreeSubscription(c) ==
    /\ at = "free" /\ ~FreeTurns /\ channels[c] # Null
    /\ RunCallback(channels[c], "free")
    /\ channels' = [channels EXCEPT ![c] = Null]
    /\ UNCHANGED <<flags, err, replies, invalid, obuf, reader, cb, server, issued, misdirected,
                   unconfirmed, cause, told>>

Status == IF "FREEING" \in flags \/ err = "none" THEN "ok" ELSE "error"

FreeEnd ==
    /\ at = "free" /\ ~FreeTurns /\ \A c \in Channel : channels[c] = Null
    /\ told' = IF "CONNECTED" \in flags THEN Status ELSE told
    /\ at' = "freed"
    /\ UNCHANGED <<flags, err, replies, invalid, channels, obuf, reader, cb, ret, server, issued, ran,
                   misdirected, unconfirmed, cause>>

--------------------------------------------------------------------------------
(* The server, as the comments and the handling of its replies have it. *)

Reply(type, id, c, n) == [type |-> type, to |-> id, channel |-> c, count |-> n]
NoChannel == CHOOSE c \in Channel : TRUE

\* The answers to a (un)subscription, one for every channel.
Confirmations(id, type, names) ==
    [i \in DOMAIN names |->
        LET upTo == Range1(SubSeq(names, 1, i))
        IN  Reply(type, id, names[i],
                  Cardinality(IF type = "subscribe" THEN subs \union upTo ELSE subs \ upTo))]

Serve ==
    /\ at = "loop" /\ ~closed /\ toServer # <<>>
    /\ toServer' = Tail(toServer)
    /\ LET id == Head(toServer)
           k == issued[id]
       IN  CASE k.kind \in {"subscribe", "unsubscribe"} ->
                  /\ fromServer' = fromServer \o Confirmations(id, k.kind, k.channels)
                  /\ subs' = IF k.kind = "subscribe" THEN subs \union Range1(k.channels)
                             ELSE subs \ Range1(k.channels)
                  /\ UNCHANGED watching
             [] OTHER ->
                  /\ fromServer' = Append(fromServer,
                        Reply(IF subs = {} THEN "reply" ELSE "error", id, NoChannel, 0))
                  /\ watching' = IF k.kind = "monitor" THEN id ELSE watching
                  /\ UNCHANGED subs
    /\ UNCHANGED <<client, session, closed, pushes, history>>

\* A message on a channel, or a line for MONITOR.
Push ==
    /\ at = "loop" /\ ~closed /\ pushes < session.pushes
    /\ pushes' = pushes + 1
    /\ \/ \E c \in subs : fromServer' = Append(fromServer, Reply("message", 0, c, 0))
       \/ watching # 0 /\ fromServer' = Append(fromServer, Reply("line", watching, NoChannel, 0))
    /\ UNCHANGED <<client, session, toServer, subs, watching, closed, history>>

\* The server goes away, at the start perhaps because it has too many clients.
Close ==
    /\ at = "loop" /\ ~closed /\ closed' = TRUE
    /\ \/ UNCHANGED fromServer
       \/ /\ \A i \in 1 .. Len(issued) : ran[i] = 0
          /\ subs = {} /\ fromServer = <<>> /\ pushes = 0
          /\ Len(toServer) + Len(obuf) = Len(issued)
          /\ fromServer' = <<Reply("error", 0, NoChannel, 0)>>
    /\ UNCHANGED <<client, session, toServer, subs, watching, pushes, history>>

--------------------------------------------------------------------------------
Turn ==
    \/ NoReply \/ RegularReply \/ SpontaneousError \/ Unexpected \/ MonitorLine
    \/ PubSubReply \/ InvalidReply \/ TimeoutTurn
    \/ FreeTurn \/ FreeEnd \/ \E c \in Channel : FreeSubscription(c)

Next ==
    \/ \E k \in session.commands : AsyncCommand(k)
    \/ Disconnect \/ Free \/ Return
    \/ ConnectFails \/ ReadSome \/ HandleRead(0) \/ ReadEOF \/ WriteSome \/ HandleWrite(0) \/ WriteFails
    \/ HandleTimeout \/ Turn
    \/ Serve \/ Push \/ Close

(* The loop calls the handlers, a reply that has come in part comes whole at last,
   the user's callbacks return, and the server answers what it gets.  Handlers and
   server are disabled while a handler runs: hence strong fairness. *)
Fairness ==
    /\ WF_vars(Turn) /\ WF_vars(Return)
    /\ SF_vars(ReadSome \/ ReadEOF) /\ SF_vars(WriteSome \/ WriteFails)
    /\ SF_vars(Serve)

Spec == Init /\ [][Next]_vars /\ Fairness

--------------------------------------------------------------------------------
(* The types of the state. *)
Callbacks == [id : 0 .. MaxCommands, pending_subs : Int]
TypeOK ==
    /\ session \in Session
    /\ flags \subseteq {"CONNECTED", "DISCONNECTING", "FREEING", "SUBSCRIBED", "MONITORING"}
    /\ err \in {"none", "io", "eof", "other", "timeout"}
    /\ replies \in Seq(Callbacks) /\ invalid \in Seq(Callbacks)
    /\ channels \in [Channel -> Callbacks] /\ cb \in Callbacks
    /\ at \in {"loop", "process", "timeout", "free", "callback", "freed", "abort"}
    /\ ran \in [1 .. MaxCommands -> Nat]
    /\ cause \in {"none", "user", "error"} /\ told \in {"none", "ok", "error"}

(* "Even if the context is subscribed, pending regular callbacks will get a reply
   before pub/sub messages arrive": with a disciplined user every reply, message and
   confirmation is given to the callback it is meant for, and the assertions of the
   code hold: no reply is left over outside the modes of subscription and monitoring,
   and a clean disconnect has no pending callback. *)
RepliesReachTheirCallback ==
    /\ TypeOK
    /\ session.disciplined => ~misdirected /\ at # "abort"

\* A regular command's callback never runs twice, and has run when the context is gone.
CallbackRunsOnce ==
    \A i \in 1 .. Len(issued) :
        Kind(i) = "regular" => /\ ran[i] <= 1
                               /\ at = "freed" => ran[i] = 1

\* The status is OK when the user began the tear-down, and an error when one did.
StatusTellsCause ==
    at = "freed" => \/ told = "none" /\ "CONNECTED" \notin flags
                    \/ told = IF cause = "user" THEN "ok" ELSE "error"

\* A disconnection drops no reply that is still to come.
DisconnectIsClean ==
    cause = "user" /\ "FREEING" \notin flags =>
        \A i \in 1 .. Len(issued) : Kind(i) = "regular" => ran[i] = 1

(* However a context comes to its end (an error, a timeout, redisAsyncFree or
   redisAsyncDisconnect, in the loop or in a callback): "all pending callbacks are called
   with a NULL reply when the context encountered an error", each callback once and none
   twice; no command is taken any more; a disconnection waits for the replies that are
   still to come; and the user is told what was the cause (README of hiredis, 277). *)
TearDownIsClean ==
    /\ cause # "none" => ~Accepts
    /\ session.disciplined => CallbackRunsOnce /\ StatusTellsCause /\ DisconnectIsClean

(* pending_subs counts the SUBSCRIBEs of a channel that are not confirmed, whatever is
   pipelined, and a disciplined user's client is in subscribed mode as long as it has a
   subscription. *)
PendingIsRight ==
    cause = "none" =>
        /\ at \in {"loop", "process", "callback"} =>
            \A c \in Channel :
                unconfirmed[c] = IF channels[c] = Null THEN 0 ELSE channels[c].pending_subs
        /\ session.disciplined /\ (\E c \in Channel : channels[c] # Null) => "SUBSCRIBED" \in flags

(* A context that a disciplined user disconnects is freed, also with replies outstanding. *)
DisconnectCompletes == session.disciplined /\ "DISCONNECTING" \in flags ~> at = "freed"
================================================================================
