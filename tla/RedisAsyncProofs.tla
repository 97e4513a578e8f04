---------------------------- MODULE RedisAsyncProofs ----------------------------
(****************************************************************************)
(* The asynchronous client: every reply reaches its callback, a tear-down   *)
(* drops none and calls each once, and pending_subs counts what it should,  *)
(* for every set of channels, every length of a session and every order in  *)
(* which user, handlers, timer and server act.                              *)
(*                                                                          *)
(* The invariant follows the pipe: the replies that were read and are not   *)
(* processed, and after them those that are still in the socket.  At each   *)
(* moment some number n of the commands has been answered and processed;    *)
(* the pipe holds the answers to the commands n + 1 .. Served in this       *)
(* order, with messages between them, and the queues hold the rest.         *)
(****************************************************************************)
EXTENDS RedisAsync, FiniteSetTheorems, SequenceTheorems, TLAPS

--------------------------------------------------------------------------------
(* The invariant. *)

Subscribes(id, c) == Kind(id) = "subscribe" /\ issued[id].channels[1] = c
Unsubscribes(id, c) == Kind(id) = "unsubscribe" /\ issued[id].channels[1] = c

\* A reply to a command; the others are messages, monitor lines and the error
\* of a server that turns its clients away.
Answer(reply) ==
    \/ reply.type \in {"subscribe", "unsubscribe", "reply"}
    \/ reply.type = "error" /\ reply.to # 0

\* The commands the server has taken.
Served == Len(issued) - Len(toServer) - Len(obuf)

Pipe == reader \o fromServer

\* The last of the commands 1 .. n about channel c is a subscription.
Current(c, n) == \E s \in 1 .. n : Subscribes(s, c) /\ \A u \in s .. n : ~ Unsubscribes(u, c)

Replies ==
    {r \in [type : {"reply", "line", "error", "message", "subscribe", "unsubscribe"},
            to : Nat, channel : Channel \union {NoChannel}, count : Nat] :
        r.type \in {"message", "subscribe", "unsubscribe"} => r.channel \in Channel}

Types ==
    /\ TypeOK
    /\ ret \in {"loop", "process", "timeout", "free"}
    /\ obuf \in Seq(Nat) /\ toServer \in Seq(Nat)
    /\ reader \in Seq(Replies) /\ fromServer \in Seq(Replies)
    /\ subs \subseteq Channel /\ IsFiniteSet(subs)
    /\ watching \in Nat /\ closed \in BOOLEAN /\ pushes \in Nat
    /\ issued \in Seq(session.commands) /\ Len(issued) <= session.length
    /\ misdirected \in BOOLEAN /\ unconfirmed \in [Channel -> Int]

\* The queues hold the commands the server has not taken, in their order.
Queues ==
    /\ Served \in Nat
    /\ \A i \in DOMAIN toServer : toServer[i] = Served + i
    /\ \A i \in DOMAIN obuf : obuf[i] = Served + Len(toServer) + i

\* A disciplined user unsubscribes from what is subscribed.
Asked ==
    session.disciplined =>
        \A id \in DOMAIN issued :
            Kind(id) = "unsubscribe" => Current(issued[id].channels[1], id - 1)

AnswerRight(reply) ==
    /\ reply.to \in 1 .. Served
    /\ reply.type \in {"subscribe", "unsubscribe"} =>
         Kind(reply.to) = reply.type /\ reply.channel = issued[reply.to].channels[1]
    /\ reply.type \in {"reply", "error"} => Kind(reply.to) \in Regular

\* The pipe has one answer to each of the commands n + 1 .. Served, in order.
AnswersKnown(n) ==
    /\ n \in 0 .. Served
    /\ \A id \in n + 1 .. Served : \E i \in DOMAIN Pipe : Answer(Pipe[i]) /\ Pipe[i].to = id
    /\ \A i \in DOMAIN Pipe : Answer(Pipe[i]) => Pipe[i].to > n /\ AnswerRight(Pipe[i])
    /\ \A i, j \in DOMAIN Pipe :
         i < j /\ Answer(Pipe[i]) /\ Answer(Pipe[j]) => Pipe[i].to < Pipe[j].to

\* Command id is answered, and its answer processed before the reply at i is.
Done(n, i, id) == id <= n \/ \E j \in 1 .. i - 1 : Answer(Pipe[j]) /\ Pipe[j].to = id

\* A message comes after the confirmation of a subscription, and before that of
\* an unsubscription.
MessageRight(n, i, s) ==
    /\ Subscribes(s, Pipe[i].channel) /\ Done(n, i, s)
    /\ \A u \in s .. Len(issued) : Unsubscribes(u, Pipe[i].channel) => ~ Done(n, i, u)
MessagesKnown(n) ==
    \A i \in DOMAIN Pipe : Pipe[i].type = "message" => \E s \in 1 .. Served : MessageRight(n, i, s)

\* What the server publishes to is subscribed.
ServerKnown == \A c \in subs : Current(c, Served)

ChannelsKnown ==
    \A c \in Channel : channels[c] # Null => channels[c].id \in DOMAIN issued /\ Subscribes(channels[c].id, c)

\* The SUBSCRIBEs of a channel that are not confirmed.
Awaited(n, c) == {id \in n + 1 .. Len(issued) : Subscribes(id, c)}
AwaitedCounted(n) == \A c \in Channel : Cardinality(Awaited(n, c)) <= unconfirmed[c]

Counted ==
    cause = "none" =>
        \A c \in Channel : unconfirmed[c] = IF channels[c] = Null THEN 0 ELSE channels[c].pending_subs

\* The first replies of the pipe belong to the regular commands that wait, which
\* are before all (un)subscriptions, and no message comes before them.
RegularsFirst(n) ==
    /\ n + Len(replies) <= Len(issued)
    /\ \A m \in DOMAIN replies :
         /\ Kind(n + m) \in Regular
         /\ replies[m].id = IF Kind(n + m) = "silent" THEN 0 ELSE n + m
    /\ \A id \in n + Len(replies) + 1 .. Len(issued) : Kind(id) \notin Regular
    /\ Served < n + Len(replies) => subs = {}
    /\ \A i \in DOMAIN Pipe : Pipe[i].type = "message" =>
         \A id \in n + 1 .. n + Len(replies) : Done(n, i, id)

\* A channel has its callback while a reply about it may come.
CallbacksKept(n) ==
    \A c \in Channel : Current(c, n) \/ Awaited(n, c) # {} => channels[c] # Null

\* Out of subscribed mode everything that is to come is for a regular command.
Quiet(n) ==
    "SUBSCRIBED" \notin flags =>
        /\ n + Len(replies) = Len(issued)
        /\ subs = {}
        /\ \A i \in DOMAIN Pipe : Pipe[i].type # "message"

\* No monitor lines, and the error of the server comes alone and is its last word.
Unasked ==
    \A i \in DOMAIN Pipe :
        /\ Pipe[i].type # "line"
        /\ Pipe[i].type = "error" => Pipe[i].to = 0 /\ closed /\ Len(Pipe) = 1

\* A disciplined user who does not monitor.
Orderly == session.disciplined /\ \A k \in session.commands : k.kind # "monitor"

Live == at \in {"loop", "process"} \/ (at = "callback" /\ ret = "process")
InTimeout == at = "timeout" \/ (at = "callback" /\ ret = "timeout")
InFree == at \in {"free", "freed"} \/ (at = "callback" /\ ret = "free")

Over == closed /\ Pipe = <<>>
Protocol(n) == RegularsFirst(n) /\ CallbacksKept(n) /\ Quiet(n) /\ Unasked

PipeKnown(n) ==
    /\ AnswersKnown(n) /\ MessagesKnown(n) /\ AwaitedCounted(n)
    /\ Orderly /\ Live => Over \/ Protocol(n)

\* Where the handlers are, and why.
Modes ==
    /\ at = "callback" => ret # "loop"
    /\ at = "loop" => reader = <<>>
    /\ Live => err = "none" /\ cause = "none"
    /\ InTimeout => err # "none" /\ cause = "none"
    /\ cause # "none" <=> InFree
    /\ cause # "none" => ~ Accepts
    /\ at = "freed" => replies = <<>> /\ told = IF "CONNECTED" \in flags THEN Status ELSE "none"
    /\ at # "freed" => told = "none"

Discipline ==
    Orderly =>
        /\ at \in {"loop", "process"} \/ InTimeout => "FREEING" \notin flags
        /\ InFree => (cause = "user" <=> "FREEING" \in flags \/ err = "none")
        /\ cause = "user" /\ "FREEING" \notin flags => replies = <<>>
        /\ invalid = <<>> /\ "MONITORING" \notin flags /\ watching = 0

Directed == Orderly => ~ misdirected /\ at # "abort"

\* A disciplined user's regular command has its callback in replies exactly once
\* until it is run.
Waiting(id) == \E j \in DOMAIN replies : replies[j].id = id
Once ==
    Orderly =>
        /\ \A id \in 1 .. MaxCommands : id > Len(issued) => ran[id] = 0
        /\ \A id \in DOMAIN issued : Kind(id) = "regular" => ran[id] = IF Waiting(id) THEN 0 ELSE 1
        /\ \A j \in DOMAIN replies :
             replies[j].id # 0 => replies[j].id \in DOMAIN issued /\ Kind(replies[j].id) = "regular"
        /\ \A i, j \in DOMAIN replies : replies[i].id = replies[j].id /\ i # j => replies[i].id = 0

ModeKept ==
    session.disciplined /\ cause = "none" /\ (\E c \in Channel : channels[c] # Null) => "SUBSCRIBED" \in flags

Inv ==
    /\ Types /\ Queues /\ Asked /\ ServerKnown /\ ChannelsKnown /\ Counted
    /\ Modes /\ Discipline /\ Directed /\ Once /\ ModeKept
    /\ \E n \in Nat : PipeKnown(n)

--------------------------------------------------------------------------------
(* The dictionary, the sessions and the pipe. *)

\* One channel is added as its SUBSCRIBE says: the callback takes the count of the
\* one that was there.
LEMMA OneSubscription ==
    ASSUME NEW id, NEW names \in Seq(Channel), Len(names) = 1, names[1] \in Channel
    PROVE  AddSubscription(id, names) =
             [channels EXCEPT ![names[1]] = [id |-> id,
                 pending_subs |-> IF channels[names[1]] = Null THEN 1 ELSE channels[names[1]].pending_subs + 1]]
<1> DEFINE Turned(a, i) ==
           LET dict == a[i - 1].dict
               pending == IF dict[names[i]] = Null THEN a[i - 1].pending_subs
                          ELSE dict[names[i]].pending_subs + 1
           IN  [dict |-> [dict EXCEPT ![names[i]] = [id |-> id, pending_subs |-> pending]],
                pending_subs |-> pending]
           first == [dict |-> channels, pending_subs |-> 1]
           After(a) == [i \in 0 .. Len(names) |-> IF i = 0 THEN first ELSE Turned(a, i)]
           after == CHOOSE a : a = After(a)
           p == IF channels[names[1]] = Null THEN 1 ELSE channels[names[1]].pending_subs + 1
           second == [dict |-> [channels EXCEPT ![names[1]] = [id |-> id, pending_subs |-> p]],
                      pending_subs |-> p]
           w == [i \in 0 .. Len(names) |-> IF i = 0 THEN first ELSE second]
<1>0. \A a : a[0] = first => Turned(a, 1) = second
  <2> SUFFICES ASSUME NEW a, a[0] = first PROVE Turned(a, 1) = second
    OBVIOUS
  <2>1. a[1 - 1].dict = channels /\ a[1 - 1].pending_subs = 1
    OBVIOUS
  <2> QED
    BY <2>1
<1>1. w = After(w)
  <2> HIDE DEF first, second, Turned
  <2>1. w[0] = first 
    OBVIOUS
  <2>2. 0 .. Len(names) = {0, 1}
    OBVIOUS
  <2>3. w[1] = second /\ Turned(w, 1) = second
    BY <1>0, <2>1
  <2>4. \A i \in {0, 1} : (IF i = 0 THEN first ELSE second) = IF i = 0 THEN first ELSE Turned(w, i)
    <3> HIDE DEF w
    <3> QED
      BY <2>3
  <2>5. w = [i \in {0, 1} |-> IF i = 0 THEN first ELSE second]
    BY <2>2
  <2>6. After(w) = [i \in {0, 1} |-> IF i = 0 THEN first ELSE Turned(w, i)]
    <3> HIDE DEF w
    <3> QED
      BY <2>2
  <2> HIDE DEF w, After
  <2> QED
    BY <2>4, <2>5, <2>6
<1>2. after = After(after)
  <2> HIDE DEF After, w
  <2>1. \E a : a = After(a)
    BY <1>1
  <2> QED
    BY <2>1
<1>3. after[0] = first /\ after[1] = Turned(after, 1)
  <2> HIDE DEF after, Turned, first
  <2> QED
    BY <1>2
<1>4. after[1] = second
  <2> HIDE DEF after, Turned, first, second
  <2> QED
    BY <1>0, <1>3
<1>5. Subscribed(id, names) = after[Len(names)].dict
  BY DEF Subscribed
<1>6. Subscribed(id, names) = second.dict
  <2> HIDE DEF after, second
  <2> QED
    BY <1>4, <1>5
<1>7. AddSubscription(id, names) = second.dict
  BY <1>6, Zenon DEF AddSubscription
<1> QED
  BY <1>7

\* What the user may issue.
LEMMA IssuedFacts ==
    ASSUME Types, OneChannel
    PROVE  /\ session \in Session /\ session.commands \subseteq Commands
           /\ Len(issued) \in 0 .. MaxCommands /\ session.length \in 0 .. MaxCommands
           /\ MaxCommands \in Nat /\ session.pushes \in Nat
           /\ \A k \in session.commands :
                /\ k.kind \in Regular <=> k.kind \notin {"subscribe", "unsubscribe"}
                /\ k.kind \in Regular <=> k.channels = <<>>
                /\ k.kind \notin Regular =>
                     Len(k.channels) = 1 /\ k.channels[1] \in Channel /\ Range1(k.channels) = {k.channels[1]}
           /\ \A id \in 1 .. Len(issued) : issued[id] \in session.commands
<1>1. /\ session \in Session /\ session.commands \subseteq Commands
      /\ Len(issued) \in 0 .. MaxCommands /\ session.length \in 0 .. MaxCommands
      /\ MaxCommands \in Nat /\ session.pushes \in Nat
  BY AsyncAssumption DEF Types, TypeOK
<1>2. \A id \in 1 .. Len(issued) : issued[id] \in session.commands
  BY DEF Types
<1>3. ASSUME NEW k \in session.commands
      PROVE  /\ k.kind \in Regular <=> k.kind \notin {"subscribe", "unsubscribe"}
             /\ k.kind \in Regular <=> k.channels = <<>>
             /\ k.kind \notin Regular =>
                  Len(k.channels) = 1 /\ k.channels[1] \in Channel /\ Range1(k.channels) = {k.channels[1]}
  <2>1. k \in Commands /\ Len(k.channels) = IF k.kind \in Regular THEN 0 ELSE 1
    BY <1>1 DEF OneChannel, Regular
  <2>2. k.channels \in Seq(Channel) /\ k.kind \in {"regular", "silent", "subscribe", "unsubscribe", "monitor"}
    BY <2>1 DEF Commands
  <2>3. k.kind \in Regular <=> k.channels = <<>>
    BY <2>1, <2>2
  <2>4. ASSUME k.kind \notin Regular
        PROVE  Len(k.channels) = 1 /\ k.channels[1] \in Channel /\ Range1(k.channels) = {k.channels[1]}
    <3>1. Len(k.channels) = 1 /\ DOMAIN k.channels = {1}
      BY <2>1, <2>2, <2>4
    <3> QED
      BY <3>1, <2>2 DEF Range1
  <2> QED
    BY <2>2, <2>3, <2>4 DEF Regular
<1> QED
  BY <1>1, <1>2, <1>3

\* The pipe as a sequence: what is read from the socket stays in the pipe.
LEMMA PipeFacts ==
    ASSUME Types
    PROVE  /\ Pipe \in Seq(Replies) /\ Len(Pipe) = Len(reader) + Len(fromServer)
           /\ DOMAIN Pipe = 1 .. Len(Pipe) /\ \A i \in DOMAIN Pipe : Pipe[i] \in Replies
           /\ reader # <<>> => Pipe # <<>> /\ Pipe[1] = Head(reader) /\ Pipe[1] \in Replies
BY ConcatProperties, EmptySeq DEF Types, Pipe

\* A read moves replies from the socket to the reader: the pipe stays as it is.
LEMMA PipeRead ==
    ASSUME Types, NEW n \in 0 .. Len(fromServer),
           reader' = reader \o SubSeq(fromServer, 1, n),
           fromServer' = SubSeq(fromServer, n + 1, Len(fromServer))
    PROVE  /\ reader' \in Seq(Replies) /\ fromServer' \in Seq(Replies)
           /\ Pipe' = Pipe
<1>1. reader \in Seq(Replies) /\ fromServer \in Seq(Replies)
  BY DEF Types
<1>2. SubSeq(fromServer, 1, n) \in Seq(Replies) /\ SubSeq(fromServer, n + 1, Len(fromServer)) \in Seq(Replies)
  BY <1>1, SubSeqProperties
<1>3. SubSeq(fromServer, 1, n) \o SubSeq(fromServer, n + 1, Len(fromServer)) = fromServer
  <2>1. Len(fromServer) \in Nat /\ 1 \in 1 .. Len(fromServer) + 1
        /\ n \in 1 - 1 .. Len(fromServer) /\ Len(fromServer) \in n .. Len(fromServer)
    BY <1>1, LenProperties
  <2>2. SubSeq(fromServer, 1, n) \o SubSeq(fromServer, n + 1, Len(fromServer)) = SubSeq(fromServer, 1, Len(fromServer))
    BY <1>1, <2>1, ConcatAdjacentSubSeq
  <2>3. SubSeq(fromServer, 1, Len(fromServer)) = fromServer
    BY <1>1, SubSeqFull
  <2> QED
    BY <2>2, <2>3
<1>4. (reader \o SubSeq(fromServer, 1, n)) \o SubSeq(fromServer, n + 1, Len(fromServer))
        = reader \o (SubSeq(fromServer, 1, n) \o SubSeq(fromServer, n + 1, Len(fromServer)))
  <2>1. \A s, t, u \in Seq(Replies) : (s \o t) \o u = s \o (t \o u)
    BY ConcatAssociative, SMTT(30)
  <2> QED
    BY <1>1, <1>2, <2>1, ZenonT(30)
<1>5. reader \o SubSeq(fromServer, 1, n) \in Seq(Replies)
  BY <1>1, <1>2, ConcatProperties
<1> QED
  BY <1>2, <1>3, <1>4, <1>5, Zenon DEF Pipe

\* A reply processed is taken off the head of the pipe.
LEMMA PipePopped ==
    ASSUME Types, reader # <<>>, reader' = Tail(reader), UNCHANGED fromServer
    PROVE  /\ reader' \in Seq(Replies)
           /\ Pipe' = Tail(Pipe)
<1>1. reader \in Seq(Replies) /\ fromServer \in Seq(Replies)
  BY DEF Types
<1>2. Tail(reader) \in Seq(Replies) /\ Len(Tail(reader)) = Len(reader) - 1
      /\ \A i \in 1 .. Len(Tail(reader)) : Tail(reader)[i] = reader[i + 1]
  BY <1>1, HeadTailProperties
<1>3. Pipe \in Seq(Replies) /\ Pipe # <<>>
  BY PipeFacts
<1>4. Tail(Pipe) \in Seq(Replies) /\ Len(Tail(Pipe)) = Len(Pipe) - 1
      /\ \A i \in 1 .. Len(Tail(Pipe)) : Tail(Pipe)[i] = Pipe[i + 1]
  BY <1>3, HeadTailProperties
<1>5. Tail(reader) \o fromServer \in Seq(Replies)
      /\ Len(Tail(reader) \o fromServer) = Len(reader) - 1 + Len(fromServer)
      /\ \A i \in 1 .. Len(reader) - 1 + Len(fromServer) :
            (Tail(reader) \o fromServer)[i] =
                IF i <= Len(reader) - 1 THEN reader[i + 1] ELSE fromServer[i - (Len(reader) - 1)]
  BY <1>1, <1>2, ConcatProperties
<1>6. Len(Pipe) = Len(reader) + Len(fromServer)
      /\ \A i \in 1 .. Len(reader) + Len(fromServer) :
            Pipe[i] = IF i <= Len(reader) THEN reader[i] ELSE fromServer[i - Len(reader)]
  BY <1>1, ConcatProperties DEF Pipe
<1>7. Len(reader) \in Nat /\ Len(fromServer) \in Nat /\ Len(reader) > 0
  BY <1>1, EmptySeq
<1>8. Len(Tail(reader) \o fromServer) = Len(Tail(Pipe))
  BY <1>4, <1>5, <1>6, <1>7
<1>9. ASSUME NEW i \in 1 .. Len(Tail(Pipe))
      PROVE  (Tail(reader) \o fromServer)[i] = Tail(Pipe)[i]
  BY <1>4, <1>5, <1>6, <1>7
<1>10. Tail(reader) \o fromServer = Tail(Pipe)
  BY <1>4, <1>5, <1>8, <1>9, SeqEqual
<1> QED
  BY <1>2, <1>10 DEF Pipe

\* A reply sent is put on the end of the pipe.
LEMMA PipeGrown ==
    ASSUME Types, NEW r \in Replies, fromServer' = Append(fromServer, r), UNCHANGED reader
    PROVE  /\ fromServer' \in Seq(Replies)
           /\ Pipe' = Append(Pipe, r)
<1>1. reader \in Seq(Replies) /\ fromServer \in Seq(Replies)
  BY DEF Types
<1>2. Append(fromServer, r) = fromServer \o <<r>> /\ <<r>> \in Seq(Replies)
  BY <1>1, AppendIsConcat
<1>3. reader \o (fromServer \o <<r>>) = (reader \o fromServer) \o <<r>>
  BY <1>1, <1>2, ConcatAssociative
<1>4. (reader \o fromServer) \o <<r>> = Append(reader \o fromServer, r)
  BY <1>1, ConcatProperties, AppendIsConcat
<1> QED
  BY <1>1, <1>2, <1>3, <1>4, AppendProperties DEF Pipe

--------------------------------------------------------------------------------
(* Types. *)

\* What running a callback sets has its type.
LEMMA RunTypes ==
    ASSUME Types, NEW callback \in Callbacks, NEW from \in {"process", "timeout", "free"},
           RunCallback(callback, from)
    PROVE  /\ at' \in {from, "callback"} /\ ret' \in {"loop", "process", "timeout", "free"}
           /\ ran' \in [1 .. MaxCommands -> Nat]
<1>1. callback.id \in 0 .. MaxCommands /\ ret \in {"loop", "process", "timeout", "free"}
      /\ ran \in [1 .. MaxCommands -> Nat]
  BY DEF Types, TypeOK, Callbacks
<1> QED
  BY <1>1 DEF RunCallback

\* What the beginning of a tear-down sets has its type.
LEMMA EndTypes ==
    ASSUME NEW e \in {"none", "io", "eof", "other", "timeout"},
           NEW fl \in SUBSET {"CONNECTED", "DISCONNECTING", "FREEING", "SUBSCRIBED", "MONITORING"},
           AsyncDisconnect(e, fl)
    PROVE  /\ err' \in {"none", "io", "eof", "other", "timeout"} /\ at' \in {"free", "abort"}
           /\ flags' \subseteq {"CONNECTED", "DISCONNECTING", "FREEING", "SUBSCRIBED", "MONITORING"}
           /\ cause' \in {"user", "error"}
BY DEF AsyncDisconnect

\* A reply has its channel.
LEMMA ReplyFacts ==
    ASSUME Types, reader # <<>>
    PROVE  /\ Head(reader) \in Replies /\ Tail(reader) \in Seq(Replies)
           /\ Head(reader).type \in {"message", "subscribe", "unsubscribe"} => Head(reader).channel \in Channel
BY HeadTailProperties DEF Types, Replies

\* Types under a command, ...
LEMMA TypesCommand ==
    ASSUME Types, OneChannel, NEW k \in session.commands, AsyncCommand(k)
    PROVE  Types'
<1> DEFINE id == Len(issued) + 1
           callback == [id |-> IF k.kind = "silent" THEN 0 ELSE id, pending_subs |-> 1]
<1>1. /\ Len(issued) \in 0 .. MaxCommands /\ Len(issued) < session.length
      /\ session.length \in 0 .. MaxCommands /\ k \in Commands
      /\ MaxCommands \in Nat
  BY IssuedFacts DEF AsyncCommand
<1>2. id \in 1 .. MaxCommands /\ id <= session.length
  BY <1>1
<1>3. callback \in Callbacks
  BY <1>1, <1>2 DEF Callbacks
<1>4. UNCHANGED <<err, reader, cb, at, ret, server, ran, misdirected, cause, told>>
      /\ issued' = Append(issued, k) /\ obuf' = Append(obuf, id)
  BY DEF AsyncCommand
<1>5. issued' \in Seq(session.commands) /\ Len(issued') <= session.length /\ obuf' \in Seq(Nat)
  <2>1. issued \in Seq(session.commands) /\ obuf \in Seq(Nat)
    BY DEF Types
  <2> QED
    BY <1>1, <1>2, <1>4, <2>1, AppendProperties
<1>6. /\ flags' \subseteq {"CONNECTED", "DISCONNECTING", "FREEING", "SUBSCRIBED", "MONITORING"}
      /\ replies' \in Seq(Callbacks) /\ invalid' \in Seq(Callbacks)
      /\ channels' \in [Channel -> Callbacks] /\ unconfirmed' \in [Channel -> Int]
  <2>1. /\ flags \subseteq {"CONNECTED", "DISCONNECTING", "FREEING", "SUBSCRIBED", "MONITORING"}
        /\ replies \in Seq(Callbacks) /\ invalid \in Seq(Callbacks)
        /\ channels \in [Channel -> Callbacks] /\ unconfirmed \in [Channel -> Int]
    BY DEF Types, TypeOK
  <2>2. CASE k.kind = "subscribe"
    <3>1. /\ flags' = flags \union {"SUBSCRIBED"} /\ channels' = AddSubscription(id, k.channels)
          /\ unconfirmed' = [c \in Channel |-> unconfirmed[c] + IF c \in Range1(k.channels) THEN 1 ELSE 0]
          /\ UNCHANGED <<replies, invalid>>
      BY <2>2 DEF AsyncCommand
    <3>2. Len(k.channels) = 1 /\ k.channels[1] \in Channel /\ k.channels \in Seq(Channel)
      BY <1>1, <2>2, IssuedFacts DEF Commands
    <3> DEFINE old == channels[k.channels[1]]
               new == [id |-> id, pending_subs |-> IF old = Null THEN 1 ELSE old.pending_subs + 1]
    <3>3. channels' = [channels EXCEPT ![k.channels[1]] = new]
      BY <3>1, <3>2, OneSubscription, Zenon
    <3>4. old \in Callbacks
      BY <2>1, <3>2
    <3>5. new \in Callbacks
      BY <3>4, <1>2 DEF Callbacks
    <3> HIDE DEF new, old
    <3>6. channels' \in [Channel -> Callbacks]
      BY <3>3, <3>5, <2>1
    <3> QED
      BY <3>1, <3>6, <2>1
  <2>3. CASE k.kind = "unsubscribe"
    BY <2>1, <2>3 DEF AsyncCommand
  <2>4. CASE k.kind = "monitor"
    <3>1. flags' = flags \union {"MONITORING"} /\ replies' = Append(replies, callback)
          /\ UNCHANGED <<channels, unconfirmed, invalid>>
      BY <2>4 DEF AsyncCommand, PushCallback
    <3> QED
      BY <2>1, <3>1, <1>3, AppendProperties
  <2>5. CASE k.kind \notin {"subscribe", "unsubscribe", "monitor"}
    <3>1. /\ UNCHANGED <<flags, channels, unconfirmed>>
          /\ \/ invalid' = Append(invalid, callback) /\ UNCHANGED replies
             \/ replies' = Append(replies, callback) /\ UNCHANGED invalid
      BY <2>5 DEF AsyncCommand, PushCallback
    <3> HIDE DEF callback
    <3>2. Append(invalid, callback) \in Seq(Callbacks) /\ Append(replies, callback) \in Seq(Callbacks)
      BY <2>1, <1>3, AppendProperties
    <3> QED
      BY <2>1, <3>1, <3>2
  <2> QED
    BY <2>2, <2>3, <2>4, <2>5
<1> QED
  BY <1>4, <1>5, <1>6 DEF Types, TypeOK, server

\* ... under the other calls of the user, ...
LEMMA TypesUser ==
    ASSUME Types, Disconnect \/ Free \/ Return
    PROVE  Types'
<1>1. /\ UNCHANGED <<replies, invalid, channels, obuf, reader, cb, ret, server, issued, ran,
                     misdirected, unconfirmed, told>>
      /\ flags' \subseteq {"CONNECTED", "DISCONNECTING", "FREEING", "SUBSCRIBED", "MONITORING"}
      /\ err' \in {"none", "io", "eof", "other", "timeout"}
      /\ at' \in {"loop", "process", "timeout", "free", "callback", "freed", "abort"}
      /\ cause' \in {"none", "user", "error"}
  <2>1. /\ flags \subseteq {"CONNECTED", "DISCONNECTING", "FREEING", "SUBSCRIBED", "MONITORING"}
        /\ err \in {"none", "io", "eof", "other", "timeout"}
        /\ at \in {"loop", "process", "timeout", "free", "callback", "freed", "abort"}
        /\ cause \in {"none", "user", "error"}
        /\ ret \in {"loop", "process", "timeout", "free"}
    BY DEF Types, TypeOK
  <2>2. CASE Disconnect
    BY <2>1, <2>2, EndTypes DEF Disconnect
  <2>3. CASE Free
    BY <2>1, <2>3 DEF Free
  <2>4. CASE Return
    BY <2>1, <2>4 DEF Return
  <2> QED
    BY <2>2, <2>3, <2>4
<1> QED
  BY <1>1 DEF Types, TypeOK, server

\* ... under the handlers the loop calls, ...
LEMMA TypesLoop ==
    ASSUME Types,
           \/ ConnectFails \/ ReadEOF \/ WriteFails \/ HandleTimeout
           \/ \E n \in 0 .. Len(fromServer) : HandleRead(n)
           \/ \E n \in 0 .. Len(obuf) : HandleWrite(n)
    PROVE  Types'
<1>1. /\ flags \subseteq {"CONNECTED", "DISCONNECTING", "FREEING", "SUBSCRIBED", "MONITORING"}
      /\ err \in {"none", "io", "eof", "other", "timeout"}
      /\ at \in {"loop", "process", "timeout", "free", "callback", "freed", "abort"}
      /\ cause \in {"none", "user", "error"}
      /\ ret \in {"loop", "process", "timeout", "free"}
      /\ Null \in Callbacks
  BY AsyncAssumption DEF Types, TypeOK, Null, Callbacks
<1>2. \A fl \in Connected :
        fl \in SUBSET {"CONNECTED", "DISCONNECTING", "FREEING", "SUBSCRIBED", "MONITORING"}
  BY <1>1 DEF Connected
<1>3. ASSUME ConnectFails \/ ReadEOF \/ WriteFails PROVE Types'
  <2>1. /\ UNCHANGED <<replies, invalid, channels, obuf, reader, cb, ret, server, issued, ran,
                       misdirected, unconfirmed, told>>
        /\ \E e \in {"io", "eof"}, fl \in SUBSET {"CONNECTED", "DISCONNECTING", "FREEING", "SUBSCRIBED", "MONITORING"} :
             AsyncDisconnect(e, fl)
    BY <1>1, <1>2, <1>3 DEF ConnectFails, ReadEOF, WriteFails
  <2>2. /\ err' \in {"none", "io", "eof", "other", "timeout"} /\ at' \in {"free", "abort"}
        /\ flags' \subseteq {"CONNECTED", "DISCONNECTING", "FREEING", "SUBSCRIBED", "MONITORING"}
        /\ cause' \in {"user", "error"}
    BY <2>1, EndTypes
  <2> QED
    BY <2>1, <2>2 DEF Types, TypeOK, server
<1>4. ASSUME HandleTimeout PROVE Types'
  BY <1>1, <1>4 DEF HandleTimeout, Types, TypeOK, server, history
<1>5. ASSUME NEW n \in 0 .. Len(fromServer), HandleRead(n) PROVE Types'
  <2>1. /\ UNCHANGED <<err, replies, invalid, channels, obuf, ret, session, toServer, subs, watching,
                       closed, pushes, history>>
        /\ at' = "process" /\ cb' = Null /\ flags' \in Connected
        /\ reader' \in Seq(Replies) /\ fromServer' \in Seq(Replies)
    BY <1>5, PipeRead DEF HandleRead
  <2> QED
    BY <1>1, <1>2, <2>1 DEF Types, TypeOK, history
<1>6. ASSUME NEW n \in 0 .. Len(obuf), HandleWrite(n) PROVE Types'
  <2>1. obuf \in Seq(Nat) /\ toServer \in Seq(Nat) /\ Len(obuf) \in Nat
    BY DEF Types
  <2>2. SubSeq(obuf, 1, n) \in Seq(Nat) /\ SubSeq(obuf, n + 1, Len(obuf)) \in Seq(Nat)
    BY <2>1, SubSeqProperties
  <2>3. /\ UNCHANGED <<err, replies, invalid, channels, reader, cb, at, ret, session, fromServer, subs,
                       watching, closed, pushes, history>>
        /\ flags' \in Connected
        /\ toServer' \in Seq(Nat) /\ obuf' \in Seq(Nat)
    BY <1>6, <2>1, <2>2, ConcatProperties DEF HandleWrite
  <2> QED
    BY <1>1, <1>2, <2>3 DEF Types, TypeOK, history
<1> QED
  BY <1>3, <1>4, <1>5, <1>6

\* What a delivery does to the types.
LEMMA DeliverTypes ==
    ASSUME Types, NEW reply, NEW callback \in Callbacks, reader # <<>>, Deliver(reply, callback)
    PROVE  /\ cb' \in Callbacks /\ reader' \in Seq(Replies) /\ misdirected' \in BOOLEAN
           /\ at' \in {"process", "callback"} /\ ret' \in {"loop", "process", "timeout", "free"}
           /\ ran' \in [1 .. MaxCommands -> Nat]
<1>1. RunCallback(callback, "process") /\ cb' = callback /\ reader' = Tail(reader)
      /\ misdirected' = (misdirected \/ ~ Meant(reply, callback))
  BY DEF Deliver
<1>2. /\ at' \in {"process", "callback"} /\ ret' \in {"loop", "process", "timeout", "free"}
      /\ ran' \in [1 .. MaxCommands -> Nat]
  BY <1>1, RunTypes
<1>3. misdirected' \in BOOLEAN
  BY <1>1
<1> QED
  BY <1>1, <1>2, <1>3, ReplyFacts

\* ... under the turns of redisProcessCallbacks, ...
LEMMA TypesProcess ==
    ASSUME Types,
           NoReply \/ RegularReply \/ SpontaneousError \/ Unexpected \/ MonitorLine \/ PubSubReply \/ InvalidReply
    PROVE  Types'
<1>1. /\ flags \subseteq {"CONNECTED", "DISCONNECTING", "FREEING", "SUBSCRIBED", "MONITORING"}
      /\ err \in {"none", "io", "eof", "other", "timeout"}
      /\ replies \in Seq(Callbacks) /\ invalid \in Seq(Callbacks)
      /\ channels \in [Channel -> Callbacks] /\ cb \in Callbacks
      /\ unconfirmed \in [Channel -> Int] /\ misdirected \in BOOLEAN
      /\ Null \in Callbacks
  BY AsyncAssumption DEF Types, TypeOK, Null, Callbacks
<1>2. ASSUME NoReply PROVE Types'
  <2>1. /\ UNCHANGED <<invalid, channels, obuf, reader, cb, ret, server, issued, ran, misdirected,
                       unconfirmed, told>>
        /\ \/ AsyncDisconnect(err, flags) /\ UNCHANGED replies
           \/ at' = "loop" /\ UNCHANGED <<flags, err, cause>> /\ replies' \in {Append(replies, cb), replies}
    BY <1>2 DEF NoReply, PushCallback
  <2>2. /\ err' \in {"none", "io", "eof", "other", "timeout"} /\ at' \in {"free", "abort", "loop"}
        /\ flags' \subseteq {"CONNECTED", "DISCONNECTING", "FREEING", "SUBSCRIBED", "MONITORING"}
        /\ cause' \in {"none", "user", "error"} /\ replies' \in Seq(Callbacks)
    <3>1. Append(replies, cb) \in Seq(Callbacks)
      BY <1>1, AppendProperties
    <3>2. cause \in {"none", "user", "error"}
      BY DEF Types, TypeOK
    <3>3. CASE AsyncDisconnect(err, flags) /\ UNCHANGED replies
      <4>1. /\ err' \in {"none", "io", "eof", "other", "timeout"} /\ at' \in {"free", "abort"}
            /\ flags' \subseteq {"CONNECTED", "DISCONNECTING", "FREEING", "SUBSCRIBED", "MONITORING"}
            /\ cause' \in {"user", "error"}
        BY <1>1, <3>3, EndTypes
      <4> QED
        BY <1>1, <3>3, <4>1
    <3>4. CASE at' = "loop" /\ UNCHANGED <<flags, err, cause>> /\ replies' \in {Append(replies, cb), replies}
      BY <1>1, <3>1, <3>2, <3>4
    <3> QED
      BY <2>1, <3>3, <3>4
  <2> QED
    BY <2>1, <2>2 DEF Types, TypeOK, server
<1>3. ASSUME SpontaneousError PROVE Types'
  <2>1. /\ UNCHANGED <<replies, invalid, channels, obuf, cb, ret, server, issued, ran, unconfirmed, told>>
        /\ AsyncDisconnect("other", flags) /\ reader # <<>> /\ reader' = Tail(reader)
        /\ misdirected' = (misdirected \/ Head(reader).to # 0)
    BY <1>3 DEF SpontaneousError
  <2>2. /\ err' \in {"none", "io", "eof", "other", "timeout"} /\ at' \in {"free", "abort"}
        /\ flags' \subseteq {"CONNECTED", "DISCONNECTING", "FREEING", "SUBSCRIBED", "MONITORING"}
        /\ cause' \in {"user", "error"}
    BY <1>1, <2>1, EndTypes
  <2>3. misdirected' \in BOOLEAN /\ reader' \in Seq(Replies)
    BY <2>1, ReplyFacts
  <2> QED
    BY <2>1, <2>2, <2>3 DEF Types, TypeOK, server
<1>4. ASSUME Unexpected PROVE Types'
  BY <1>4 DEF Unexpected, Types, TypeOK, server, history
<1>5. ASSUME RegularReply \/ MonitorLine \/ InvalidReply PROVE Types'
  <2>1. /\ UNCHANGED <<flags, err, channels, obuf, server, issued, unconfirmed, cause, told>>
        /\ reader # <<>>
        /\ \E callback \in Callbacks : Deliver(Head(reader), callback)
        /\ replies' \in Seq(Callbacks) /\ invalid' \in Seq(Callbacks)
    <3>1. replies # <<>> => Head(replies) \in Callbacks /\ Tail(replies) \in Seq(Callbacks)
      BY <1>1, HeadTailProperties
    <3>2. invalid # <<>> => Head(invalid) \in Callbacks /\ Tail(invalid) \in Seq(Callbacks)
      BY <1>1, HeadTailProperties
    <3> QED
      BY <1>1, <1>5, <3>1, <3>2 DEF RegularReply, MonitorLine, InvalidReply, Spontaneous
  <2>2. /\ cb' \in Callbacks /\ reader' \in Seq(Replies) /\ misdirected' \in BOOLEAN
        /\ at' \in {"process", "callback"} /\ ret' \in {"loop", "process", "timeout", "free"}
        /\ ran' \in [1 .. MaxCommands -> Nat]
    BY <2>1, DeliverTypes
  <2> QED
    BY <2>1, <2>2 DEF Types, TypeOK, server
<1>6. ASSUME PubSubReply PROVE Types'
  <2> DEFINE reply == Head(reader)
             found == channels[reply.channel]
             entry == IF reply.type = "subscribe" THEN [found EXCEPT !.pending_subs = @ - 1] ELSE found
             new == IF reply.type = "unsubscribe" /\ Drops(entry) THEN Null ELSE entry
             dict == [channels EXCEPT ![reply.channel] = new]
  <2>1. reader # <<>> /\ reply.channel \in Channel
    BY <1>6, ReplyFacts DEF PubSubReply, Spontaneous
  <2>2. found \in Callbacks /\ entry \in Callbacks
    <3>1. found \in Callbacks
      BY <1>1, <2>1
    <3>2. [found EXCEPT !.pending_subs = @ - 1] \in Callbacks
      BY <3>1 DEF Callbacks
    <3> QED
      BY <3>1, <3>2
  <2>3. dict \in [Channel -> Callbacks]
    BY <1>1, <2>1, <2>2
  <2>4. /\ UNCHANGED <<err, replies, invalid, obuf, server, issued, cause, told>>
        /\ \/ Deliver(reply, cb) /\ UNCHANGED <<channels, flags>>
           \/ Deliver(reply, entry) /\ channels' = dict /\ flags' \in {flags, flags \ {"SUBSCRIBED"}}
        /\ unconfirmed' \in {[unconfirmed EXCEPT ![reply.channel] = @ - 1], unconfirmed}
    BY <1>6, Zenon DEF PubSubReply
  <2> HIDE DEF entry, dict
  <2>5. unconfirmed' \in [Channel -> Int]
    BY <1>1, <2>1, <2>4
  <2>6. channels' \in [Channel -> Callbacks]
        /\ flags' \subseteq {"CONNECTED", "DISCONNECTING", "FREEING", "SUBSCRIBED", "MONITORING"}
    BY <1>1, <2>3, <2>4
  <2>7. /\ cb' \in Callbacks /\ reader' \in Seq(Replies) /\ misdirected' \in BOOLEAN
        /\ at' \in {"process", "callback"} /\ ret' \in {"loop", "process", "timeout", "free"}
        /\ ran' \in [1 .. MaxCommands -> Nat]
    BY <1>1, <2>1, <2>2, <2>4, DeliverTypes
  <2> QED
    BY <2>4, <2>5, <2>6, <2>7 DEF Types, TypeOK, server
<1> QED
  BY <1>2, <1>3, <1>4, <1>5, <1>6

\* ... and under the timer and the tear-down.
LEMMA TypesEnd ==
    ASSUME Types, TimeoutTurn \/ FreeTurn \/ FreeEnd \/ \E c \in Channel : FreeSubscription(c)
    PROVE  Types'
<1>1. /\ flags \subseteq {"CONNECTED", "DISCONNECTING", "FREEING", "SUBSCRIBED", "MONITORING"}
      /\ err \in {"none", "io", "eof", "other", "timeout"} /\ told \in {"none", "ok", "error"}
      /\ cause \in {"none", "user", "error"} /\ ret \in {"loop", "process", "timeout", "free"}
      /\ replies \in Seq(Callbacks) /\ invalid \in Seq(Callbacks)
      /\ channels \in [Channel -> Callbacks] /\ ran \in [1 .. MaxCommands -> Nat]
      /\ Null \in Callbacks
  <2>1. Null \in Callbacks
    BY AsyncAssumption DEF Null, Callbacks
  <2> QED
    BY <2>1 DEF Types, TypeOK
<1>2. replies # <<>> => Head(replies) \in Callbacks /\ Tail(replies) \in Seq(Callbacks)
  BY <1>1, HeadTailProperties
<1>3. invalid # <<>> => Head(invalid) \in Callbacks /\ Tail(invalid) \in Seq(Callbacks)
  BY <1>1, HeadTailProperties
<1>4. ASSUME TimeoutTurn PROVE Types'
  <2>1. UNCHANGED <<invalid, channels, obuf, reader, cb, server, issued, misdirected, unconfirmed, told>>
    BY <1>4 DEF TimeoutTurn
  <2>2. CASE replies # <<>>
    <3>1. RunCallback(Head(replies), "timeout") /\ replies' = Tail(replies) /\ UNCHANGED <<flags, err, cause>>
      BY <1>4, <2>2 DEF TimeoutTurn
    <3>2. /\ at' \in {"timeout", "callback"} /\ ret' \in {"loop", "process", "timeout", "free"}
          /\ ran' \in [1 .. MaxCommands -> Nat]
      BY <1>2, <2>2, <3>1, RunTypes
    <3> QED
      BY <1>2, <2>1, <2>2, <3>1, <3>2 DEF Types, TypeOK, server
  <2>3. CASE replies = <<>>
    <3>1. AsyncDisconnect(err, flags) /\ UNCHANGED <<replies, ret, ran>>
      BY <1>4, <2>3 DEF TimeoutTurn
    <3>2. /\ err' \in {"none", "io", "eof", "other", "timeout"} /\ at' \in {"free", "abort"}
          /\ flags' \subseteq {"CONNECTED", "DISCONNECTING", "FREEING", "SUBSCRIBED", "MONITORING"}
          /\ cause' \in {"user", "error"}
      BY <1>1, <3>1, EndTypes
    <3> QED
      BY <2>1, <3>1, <3>2 DEF Types, TypeOK, server
  <2> QED
    BY <2>2, <2>3
<1>5. ASSUME FreeTurn PROVE Types'
  <2>1. /\ UNCHANGED <<flags, err, channels, obuf, reader, cb, server, issued, misdirected, unconfirmed,
                       cause, told>>
        /\ \E callback \in Callbacks : RunCallback(callback, "free")
        /\ replies' \in Seq(Callbacks) /\ invalid' \in Seq(Callbacks)
    BY <1>1, <1>2, <1>3, <1>5 DEF FreeTurn, FreeTurns
  <2>2. /\ at' \in {"free", "callback"} /\ ret' \in {"loop", "process", "timeout", "free"}
        /\ ran' \in [1 .. MaxCommands -> Nat]
    BY <2>1, RunTypes
  <2> QED
    BY <2>1, <2>2 DEF Types, TypeOK, server
<1>6. ASSUME NEW c \in Channel, FreeSubscription(c) PROVE Types'
  <2>1. /\ UNCHANGED <<flags, err, replies, invalid, obuf, reader, cb, server, issued, misdirected,
                       unconfirmed, cause, told>>
        /\ RunCallback(channels[c], "free") /\ channels' = [channels EXCEPT ![c] = Null]
    BY <1>6 DEF FreeSubscription
  <2>2. /\ at' \in {"free", "callback"} /\ ret' \in {"loop", "process", "timeout", "free"}
        /\ ran' \in [1 .. MaxCommands -> Nat]
    BY <1>1, <2>1, RunTypes
  <2>3. channels' \in [Channel -> Callbacks]
    BY <1>1, <2>1
  <2> QED
    BY <2>1, <2>2, <2>3 DEF Types, TypeOK, server
<1>7. ASSUME FreeEnd PROVE Types'
  <2>1. /\ UNCHANGED <<flags, err, replies, invalid, channels, obuf, reader, cb, ret, server, issued, ran,
                       misdirected, unconfirmed, cause>>
        /\ told' \in {"none", "ok", "error"} /\ at' = "freed"
    BY <1>1, <1>7 DEF FreeEnd, Status
  <2> QED
    BY <2>1 DEF Types, TypeOK, server
<1> QED
  BY <1>4, <1>5, <1>6, <1>7

--------------------------------------------------------------------------------
(* What the server does, told as a change of the pipe. *)

\* The server's answer to command id.
Answers(id) ==
    IF issued[id].kind \in {"subscribe", "unsubscribe"}
    THEN Reply(issued[id].kind, id, issued[id].channels[1],
               Cardinality(IF issued[id].kind = "subscribe" THEN subs \union {issued[id].channels[1]}
                           ELSE subs \ {issued[id].channels[1]}))
    ELSE Reply(IF subs = {} THEN "reply" ELSE "error", id, NoChannel, 0)

\* The commands that are under way have the numbers the queues say.
LEMMA QueueFacts ==
    ASSUME Types, Queues
    PROVE  /\ Len(toServer) \in Nat /\ Len(obuf) \in Nat /\ Len(issued) \in Nat
           /\ Len(issued) = Served + Len(toServer) + Len(obuf) /\ Served \in 0 .. Len(issued)
           /\ toServer # <<>> => Head(toServer) = Served + 1 /\ Served + 1 \in 1 .. Len(issued)
<1>1. Len(toServer) \in Nat /\ Len(obuf) \in Nat /\ Len(issued) \in Nat
  BY LenProperties DEF Types
<1>2. toServer # <<>> => Head(toServer) = toServer[1] /\ 1 \in DOMAIN toServer /\ Len(toServer) >= 1
  BY EmptySeq, LenProperties DEF Types
<1> QED
  BY <1>1, <1>2 DEF Queues, Served

\* What the server does with the command at the head of its socket.
LEMMA ServeStep ==
    ASSUME Types, Queues, OneChannel, Serve
    PROVE  /\ Served + 1 \in 1 .. Len(issued) /\ Answers(Served + 1) \in Replies
           /\ toServer' = Tail(toServer) /\ toServer # <<>>
           /\ fromServer' = Append(fromServer, Answers(Served + 1))
           /\ Kind(Served + 1) = "subscribe" => subs' = subs \union {issued[Served + 1].channels[1]}
           /\ Kind(Served + 1) = "unsubscribe" => subs' = subs \ {issued[Served + 1].channels[1]}
           /\ Kind(Served + 1) \notin {"subscribe", "unsubscribe"} => subs' = subs
           /\ IsFiniteSet(subs') /\ subs' \subseteq Channel
           /\ watching' \in Nat
           /\ Kind(Served + 1) # "monitor" => watching' = watching
           /\ UNCHANGED <<client, session, closed, pushes, history>>
           /\ at = "loop"
<1> DEFINE id == Served + 1
           k == issued[id]
<1>1. id \in 1 .. Len(issued) /\ Head(toServer) = id /\ toServer # <<>> /\ Served \in Nat
  BY QueueFacts DEF Serve
<1>2. /\ toServer' = Tail(toServer) /\ at = "loop"
      /\ UNCHANGED <<client, session, closed, pushes, history>>
  BY DEF Serve
<1>3. k \in session.commands
  BY <1>1, IssuedFacts
<1>4. fromServer \in Seq(Replies) /\ subs \subseteq Channel /\ IsFiniteSet(subs) /\ watching \in Nat
  BY DEF Types
<1>5. CASE k.kind \in {"subscribe", "unsubscribe"}
  <2>1. /\ fromServer' = fromServer \o Confirmations(id, k.kind, k.channels)
        /\ subs' = (IF k.kind = "subscribe" THEN subs \union Range1(k.channels) ELSE subs \ Range1(k.channels))
        /\ UNCHANGED watching
    BY <1>1, <1>5, Zenon DEF Serve
  <2>2. /\ Len(k.channels) = 1 /\ k.channels[1] \in Channel
        /\ Range1(k.channels) = {k.channels[1]} /\ k.channels \in Seq(Channel)
    BY <1>3, <1>5, IssuedFacts DEF Commands, Regular
  <2> DEFINE c == k.channels[1]
             after == IF k.kind = "subscribe" THEN subs \union {c} ELSE subs \ {c}
  <2>3. Range1(SubSeq(k.channels, 1, 1)) = {c}
    BY <2>2, SubSeqFull
  <2>4. DOMAIN k.channels = {1}
    BY <2>2
  <2>5. Confirmations(id, k.kind, k.channels) = <<Reply(k.kind, id, c, Cardinality(after))>>
    <3> HIDE DEF id, k
    <3>1. Confirmations(id, k.kind, k.channels) = [i \in {1} |-> Reply(k.kind, id, c, Cardinality(after))]
      BY <2>3, <2>4 DEF Confirmations
    <3> HIDE DEF after, c
    <3> QED
      BY <3>1
  <2>6. IsFiniteSet(after) /\ after \subseteq Channel
    BY <1>4, <2>2, FS_AddElement, FS_RemoveElement
  <2>7. Cardinality(after) \in Nat
    BY <2>6, FS_CardinalityType
  <2>8. Answers(id) = Reply(k.kind, id, c, Cardinality(after))
    BY <1>5, Zenon DEF Answers
  <2>9. Answers(id) \in Replies
    <3> HIDE DEF after, k
    <3> QED
      BY <1>1, <1>5, <2>2, <2>7, <2>8 DEF Reply, Replies
  <2>10. fromServer' = Append(fromServer, Answers(id))
    <3> HIDE DEF after, k, id
    <3> QED
      BY <1>4, <2>1, <2>5, <2>8, <2>9, AppendIsConcat
  <2>11. /\ subs' = after
         /\ k.kind = "subscribe" => subs' = subs \union {c}
         /\ k.kind = "unsubscribe" => subs' = subs \ {c}
    BY <1>5, <2>1, <2>2
  <2> QED
    BY <1>1, <1>2, <1>4, <1>5, <2>1, <2>6, <2>9, <2>10, <2>11 DEF Kind
<1>6. CASE k.kind \notin {"subscribe", "unsubscribe"}
  <2>1. /\ fromServer' = Append(fromServer, Reply(IF subs = {} THEN "reply" ELSE "error", id, NoChannel, 0))
        /\ watching' = (IF k.kind = "monitor" THEN id ELSE watching)
        /\ UNCHANGED subs
    BY <1>1, <1>6 DEF Serve
  <2>2. Answers(id) = Reply(IF subs = {} THEN "reply" ELSE "error", id, NoChannel, 0)
    BY <1>6 DEF Answers
  <2>3. Answers(id) \in Replies
    BY <1>1, <2>2 DEF Reply, Replies
  <2> QED
    BY <1>1, <1>2, <1>4, <1>6, <2>1, <2>2, <2>3 DEF Kind
<1> QED
  BY <1>5, <1>6

\* What the server sends unasked.
LEMMA PushStep ==
    ASSUME Types, Push
    PROVE  /\ \E r \in Replies :
                /\ fromServer' = Append(fromServer, r)
                /\ \/ r.type = "message" /\ r.channel \in subs
                   \/ r.type = "line" /\ watching # 0
           /\ pushes' \in Nat /\ at = "loop" /\ ~ closed
           /\ UNCHANGED <<client, session, toServer, subs, watching, closed, history>>
<1>1. /\ pushes' \in Nat /\ at = "loop" /\ ~ closed
      /\ UNCHANGED <<client, session, toServer, subs, watching, closed, history>>
  BY DEF Push, Types
<1>2. subs \subseteq Channel /\ watching \in Nat
  BY DEF Types
<1>3. CASE \E c \in subs : fromServer' = Append(fromServer, Reply("message", 0, c, 0))
  <2>1. PICK c \in subs : fromServer' = Append(fromServer, Reply("message", 0, c, 0))
    BY <1>3
  <2>2. Reply("message", 0, c, 0) \in Replies
    BY <1>2 DEF Reply, Replies
  <2>3. Reply("message", 0, c, 0).type = "message" /\ Reply("message", 0, c, 0).channel \in subs
    BY DEF Reply
  <2> QED
    BY <1>1, <2>1, <2>2, <2>3
<1>4. CASE watching # 0 /\ fromServer' = Append(fromServer, Reply("line", watching, NoChannel, 0))
  <2>1. Reply("line", watching, NoChannel, 0) \in Replies
    BY <1>2 DEF Reply, Replies
  <2>2. Reply("line", watching, NoChannel, 0).type = "line"
    BY DEF Reply
  <2> QED
    BY <1>1, <1>4, <2>1, <2>2
<1> QED
  BY <1>3, <1>4 DEF Push

\* What the server does when it goes away.
LEMMA CloseStep ==
    ASSUME Types, Close
    PROVE  /\ \/ UNCHANGED fromServer
              \/ /\ \E r \in Replies : /\ fromServer' = Append(fromServer, r)
                                       /\ r.type = "error" /\ r.to = 0
                 /\ fromServer = <<>> /\ subs = {}
           /\ closed' = TRUE /\ at = "loop" /\ ~ closed
           /\ UNCHANGED <<client, session, toServer, subs, watching, pushes, history>>
<1>1. /\ closed' = TRUE /\ at = "loop" /\ ~ closed
      /\ UNCHANGED <<client, session, toServer, subs, watching, pushes, history>>
  BY DEF Close
<1> DEFINE r == Reply("error", 0, NoChannel, 0)
<1>2. r \in Replies /\ r.type = "error" /\ r.to = 0
  BY DEF Reply, Replies
<1>3. CASE fromServer = <<>> /\ subs = {} /\ fromServer' = <<r>>
  <2>1. fromServer' = Append(fromServer, r)
    BY <1>3
  <2> QED
    BY <1>1, <1>2, <1>3, <2>1
<1> QED
  BY <1>1, <1>3 DEF Close

\* Types under the steps of the server.
LEMMA TypesServer ==
    ASSUME Types, Queues, OneChannel, Serve \/ Push \/ Close
    PROVE  Types'
<1>1. ASSUME Serve PROVE Types'
  <2>1. Answers(Served + 1) \in Replies /\ fromServer' = Append(fromServer, Answers(Served + 1))
    BY <1>1, ServeStep
  <2>2. toServer # <<>> /\ toServer' = Tail(toServer)
    BY <1>1, ServeStep
  <2>3. /\ IsFiniteSet(subs') /\ subs' \subseteq Channel /\ watching' \in Nat
        /\ UNCHANGED <<client, session, closed, pushes, history>>
    BY <1>1, ServeStep
  <2>4. toServer' \in Seq(Nat)
    BY <2>2, HeadTailProperties DEF Types
  <2>5. fromServer' \in Seq(Replies)
    BY <2>1, <2>3, PipeGrown DEF client
  <2> QED
    BY <2>3, <2>4, <2>5 DEF Types, TypeOK, client, history
<1>2. ASSUME Push PROVE Types'
  <2>1. PICK r \in Replies : fromServer' = Append(fromServer, r)
    BY <1>2, PushStep
  <2>2. pushes' \in Nat /\ UNCHANGED <<client, session, toServer, subs, watching, closed, history>>
    BY <1>2, PushStep
  <2>3. fromServer' \in Seq(Replies)
    BY <2>1, <2>2, PipeGrown DEF client
  <2> QED
    BY <2>2, <2>3 DEF Types, TypeOK, client, history
<1>3. ASSUME Close PROVE Types'
  <2>1. /\ closed' = TRUE
        /\ UNCHANGED <<client, session, toServer, subs, watching, pushes, history>>
        /\ fromServer' = fromServer \/ \E r \in Replies : fromServer' = Append(fromServer, r)
    BY <1>3, CloseStep
  <2>2. fromServer \in Seq(Replies)
    BY DEF Types
  <2>3. \A r \in Replies : Append(fromServer, r) \in Seq(Replies)
    BY <2>2, AppendProperties
  <2>4. fromServer' \in Seq(Replies)
    BY <2>1, <2>2, <2>3
  <2> QED
    BY <2>1, <2>4 DEF Types, TypeOK, client, history
<1> QED
  BY <1>1, <1>2, <1>3

\* The disjuncts of the next-state relation, in the groups of the lemmas.
LEMMA Steps ==
    ASSUME Types, Next
    PROVE  \/ \E k \in session.commands : AsyncCommand(k)
           \/ Disconnect \/ Free \/ Return
           \/ ConnectFails \/ ReadEOF \/ WriteFails \/ HandleTimeout
           \/ \E n \in 0 .. Len(fromServer) : HandleRead(n)
           \/ \E n \in 0 .. Len(obuf) : HandleWrite(n)
           \/ NoReply \/ RegularReply \/ SpontaneousError \/ Unexpected \/ MonitorLine
           \/ PubSubReply \/ InvalidReply
           \/ TimeoutTurn \/ FreeTurn \/ FreeEnd \/ \E c \in Channel : FreeSubscription(c)
           \/ Serve \/ Push \/ Close
<1>1. ReadSome \/ HandleRead(0) => \E n \in 0 .. Len(fromServer) : HandleRead(n)
  BY DEF ReadSome, HandleRead
<1>2. WriteSome \/ HandleWrite(0) => \E n \in 0 .. Len(obuf) : HandleWrite(n)
  BY DEF WriteSome, HandleWrite
<1> QED
  BY <1>1, <1>2 DEF Next, Turn

\* The type invariant.
LEMMA TypesStep ==
    ASSUME Types, Queues, OneChannel, [Next]_vars
    PROVE  Types'
<1>1. CASE UNCHANGED vars
  BY <1>1 DEF vars, client, server, history, Types, TypeOK
<1>2. CASE Next
  BY <1>2, Steps, TypesCommand, TypesUser, TypesLoop, TypesProcess, TypesEnd, TypesServer
<1> QED
  BY <1>1, <1>2

--------------------------------------------------------------------------------
(* The queues. *)

\* The queues with a command more, ...
LEMMA QueuesCommand ==
    ASSUME Types, Queues, NEW k \in session.commands, AsyncCommand(k)
    PROVE  Queues' /\ Served' = Served
<1>1. issued' = Append(issued, k) /\ obuf' = Append(obuf, Len(issued) + 1) /\ toServer' = toServer
  BY DEF AsyncCommand, server
<1>2. issued \in Seq(session.commands) /\ obuf \in Seq(Nat) /\ Len(issued) + 1 \in Nat
  BY DEF Types
<1>3. Len(issued') = Len(issued) + 1
  BY <1>1, <1>2, AppendProperties
<1>4. /\ obuf' \in Seq(Nat) /\ Len(obuf') = Len(obuf) + 1
      /\ \A i \in 1 .. Len(obuf) : obuf'[i] = obuf[i]
      /\ obuf'[Len(obuf) + 1] = Len(issued) + 1
  BY <1>1, <1>2, AppendProperties
<1>5. Len(toServer) \in Nat /\ Len(obuf) \in Nat /\ Len(issued) = Served + Len(toServer) + Len(obuf)
      /\ Served \in Nat
  BY QueueFacts
<1>6. Served' = Served
  BY <1>1, <1>3, <1>4, <1>5 DEF Served
<1>7. DOMAIN obuf' = 1 .. Len(obuf) + 1 /\ DOMAIN obuf = 1 .. Len(obuf)
  BY <1>2, <1>4, LenProperties
<1>8. \A i \in DOMAIN obuf' : obuf'[i] = Served' + Len(toServer') + i
  <2> SUFFICES ASSUME NEW i \in DOMAIN obuf' PROVE obuf'[i] = Served' + Len(toServer') + i
    OBVIOUS
  <2>1. CASE i \in 1 .. Len(obuf)
    BY <2>1, <1>1, <1>4, <1>6, <1>7 DEF Queues
  <2>2. CASE i = Len(obuf) + 1
    BY <2>2, <1>1, <1>4, <1>5, <1>6
  <2> QED
    BY <2>1, <2>2, <1>5, <1>7
<1> QED
  BY <1>1, <1>5, <1>6, <1>8 DEF Queues

\* ... with commands written, ...
LEMMA QueuesWrite ==
    ASSUME Types, Queues, NEW n \in 0 .. Len(obuf), HandleWrite(n)
    PROVE  Queues' /\ Served' = Served
<1>1. toServer' = toServer \o SubSeq(obuf, 1, n) /\ obuf' = SubSeq(obuf, n + 1, Len(obuf)) /\ issued' = issued
  BY DEF HandleWrite, history
<1>2. toServer \in Seq(Nat) /\ obuf \in Seq(Nat) /\ Len(obuf) \in Nat /\ Len(toServer) \in Nat
  BY LenProperties DEF Types
<1>3. /\ SubSeq(obuf, 1, n) \in Seq(Nat) /\ Len(SubSeq(obuf, 1, n)) = n
      /\ \A i \in 1 .. n : SubSeq(obuf, 1, n)[i] = obuf[i]
  <2>1. \A i \in 1 .. n : obuf[i] \in Nat
    BY <1>2, ElementOfSeq
  <2>2. Len(SubSeq(obuf, 1, n)) = IF 1 <= n THEN n - 1 + 1 ELSE 0
    BY <2>1, SubSeqProperties
  <2>3. SubSeq(obuf, 1, n) \in Seq(Nat) /\ \A i \in 1 .. n - 1 + 1 : SubSeq(obuf, 1, n)[i] = obuf[1 + i - 1]
    BY <2>1, SubSeqProperties
  <2> QED
    BY <2>2, <2>3
<1>4. /\ obuf' \in Seq(Nat) /\ Len(obuf') = Len(obuf) - n
      /\ \A i \in 1 .. Len(obuf) - n : obuf'[i] = obuf[n + i]
  <2>1. \A i \in n + 1 .. Len(obuf) : obuf[i] \in Nat
    BY <1>2, ElementOfSeq
  <2>2. Len(obuf') = IF n + 1 <= Len(obuf) THEN Len(obuf) - (n + 1) + 1 ELSE 0
    BY <1>1, <1>2, <2>1, SubSeqProperties
  <2>3. obuf' \in Seq(Nat) /\ \A i \in 1 .. Len(obuf) - (n + 1) + 1 : obuf'[i] = obuf[n + 1 + i - 1]
    BY <1>1, <1>2, <2>1, SubSeqProperties
  <2> QED
    BY <1>2, <2>2, <2>3
<1>5. /\ toServer' \in Seq(Nat) /\ Len(toServer') = Len(toServer) + n
      /\ \A i \in 1 .. Len(toServer) + n :
           toServer'[i] = IF i <= Len(toServer) THEN toServer[i] ELSE obuf[i - Len(toServer)]
  BY <1>1, <1>2, <1>3, ConcatProperties
<1>6. Len(issued) = Served + Len(toServer) + Len(obuf) /\ Served \in Nat
  BY QueueFacts
<1>7. Served' = Served
  <2>1. /\ Len(toServer') = Len(toServer) + n /\ Len(obuf') = Len(obuf) - n /\ Len(issued') = Len(issued)
        /\ n \in Int /\ Len(toServer) \in Int /\ Len(obuf) \in Int
    BY <1>1, <1>2, <1>4, <1>5
  <2>2. Len(issued) \in Int
    BY QueueFacts
  <2> QED
    BY <2>1, <2>2 DEF Served
<1>8. /\ DOMAIN toServer' = 1 .. Len(toServer) + n /\ DOMAIN obuf' = 1 .. Len(obuf) - n
      /\ DOMAIN toServer = 1 .. Len(toServer) /\ DOMAIN obuf = 1 .. Len(obuf)
  BY <1>2, <1>4, <1>5, LenProperties
<1>9. \A i \in DOMAIN toServer' : toServer'[i] = Served' + i
  <2> SUFFICES ASSUME NEW i \in 1 .. Len(toServer) + n PROVE toServer'[i] = Served + i
    BY <1>7, <1>8
  <2>1. CASE i <= Len(toServer)
    <3>1. i \in DOMAIN toServer /\ toServer'[i] = toServer[i]
      BY <2>1, <1>2, <1>5, <1>8
    <3>2. toServer[i] = Served + i
      BY <3>1 DEF Queues
    <3> QED
      BY <3>1, <3>2
  <2>2. CASE i > Len(toServer)
    <3>1. i - Len(toServer) \in DOMAIN obuf /\ toServer'[i] = obuf[i - Len(toServer)]
      BY <2>2, <1>2, <1>5, <1>8
    <3>2. obuf[i - Len(toServer)] = Served + Len(toServer) + (i - Len(toServer))
      BY <3>1 DEF Queues
    <3> QED
      BY <3>1, <3>2, <1>2, <1>6
  <2> QED
    BY <2>1, <2>2, <1>2
<1>10. \A i \in DOMAIN obuf' : obuf'[i] = Served' + Len(toServer') + i
  <2> SUFFICES ASSUME NEW i \in 1 .. Len(obuf) - n PROVE obuf'[i] = Served + (Len(toServer) + n) + i
    BY <1>5, <1>7, <1>8
  <2>1. n + i \in DOMAIN obuf /\ obuf'[i] = obuf[n + i]
    BY <1>2, <1>4, <1>8
  <2>2. obuf[n + i] = Served + Len(toServer) + (n + i)
    BY <2>1 DEF Queues
  <2> QED
    BY <2>1, <2>2, <1>2, <1>6
<1> QED
  BY <1>6, <1>7, <1>9, <1>10 DEF Queues

\* ... and with a command served.
LEMMA QueuesServe ==
    ASSUME Types, Queues, toServer # <<>>, toServer' = Tail(toServer), UNCHANGED <<issued, obuf>>
    PROVE  Queues' /\ Served' = Served + 1
<1>1. toServer \in Seq(Nat) /\ DOMAIN toServer = 1 .. Len(toServer) /\ Len(toServer) \in Nat
  BY LenProperties DEF Types
<1>2. /\ toServer' \in Seq(Nat) /\ Len(toServer') = Len(toServer) - 1
      /\ \A i \in 1 .. Len(toServer') : toServer'[i] = toServer[i + 1]
  BY <1>1, HeadTailProperties
<1>3. Len(issued) = Served + Len(toServer) + Len(obuf) /\ Served \in Nat /\ Len(obuf) \in Nat
  BY QueueFacts
<1>4. Served' = Served + 1
  BY <1>1, <1>2, <1>3 DEF Served
<1>5. DOMAIN toServer' = 1 .. Len(toServer')
  BY <1>2, LenProperties
<1>6. \A i \in DOMAIN toServer' : toServer'[i] = Served' + i
  <2> SUFFICES ASSUME NEW i \in 1 .. Len(toServer') PROVE toServer'[i] = Served + 1 + i
    BY <1>4, <1>5
  <2>1. i + 1 \in DOMAIN toServer /\ toServer'[i] = toServer[i + 1]
    BY <1>1, <1>2
  <2>2. toServer[i + 1] = Served + (i + 1)
    BY <2>1 DEF Queues
  <2> QED
    BY <1>3, <2>1, <2>2
<1>7. \A i \in DOMAIN obuf' : obuf'[i] = Served' + Len(toServer') + i
  <2>1. \A i \in DOMAIN obuf : i \in Int /\ obuf[i] = Served + Len(toServer) + i
    BY LenProperties DEF Queues, Types
  <2> QED
    BY <1>1, <1>2, <1>3, <1>4, <2>1
<1> QED
  BY <1>3, <1>4, <1>6, <1>7 DEF Queues

\* The steps that are neither a command, nor a write, nor the server's.
LEMMA QueuesKept ==
    ASSUME Next, ~ Serve, \A k \in session.commands : ~ AsyncCommand(k),
           \A n \in 0 .. Len(obuf) : ~ HandleWrite(n), Types
    PROVE  UNCHANGED <<issued, toServer, obuf>>
<1>1. \/ Disconnect \/ Free \/ Return
      \/ ConnectFails \/ ReadEOF \/ WriteFails \/ HandleTimeout
      \/ \E n \in 0 .. Len(fromServer) : HandleRead(n)
      \/ NoReply \/ RegularReply \/ SpontaneousError \/ Unexpected \/ MonitorLine
      \/ PubSubReply \/ InvalidReply
      \/ TimeoutTurn \/ FreeTurn \/ FreeEnd \/ \E c \in Channel : FreeSubscription(c)
      \/ Push \/ Close
  BY Steps
<1>2. CASE \/ Disconnect \/ Free \/ Return
           \/ ConnectFails \/ ReadEOF \/ WriteFails \/ HandleTimeout
           \/ \E n \in 0 .. Len(fromServer) : HandleRead(n)
  BY <1>2 DEF Disconnect, Free, Return, ConnectFails, ReadEOF, WriteFails, HandleTimeout, HandleRead,
      server, history
<1>3. CASE \/ NoReply \/ RegularReply \/ SpontaneousError \/ Unexpected \/ MonitorLine
           \/ PubSubReply \/ InvalidReply
  BY <1>3 DEF NoReply, RegularReply, SpontaneousError, Unexpected, MonitorLine, PubSubReply, InvalidReply,
      server, history
<1>4. CASE \/ TimeoutTurn \/ FreeTurn \/ FreeEnd \/ \E c \in Channel : FreeSubscription(c)
           \/ Push \/ Close
  BY <1>4 DEF TimeoutTurn, FreeTurn, FreeEnd, FreeSubscription, Push, Close, server, history, client
<1> QED
  BY <1>1, <1>2, <1>3, <1>4

\* The queues hold the commands that are not served, in order.
LEMMA QueuesStep ==
    ASSUME Types, Queues, OneChannel, [Next]_vars
    PROVE  Queues'
<1>1. CASE UNCHANGED <<issued, toServer, obuf>>
  BY <1>1 DEF Queues, Served
<1>2. CASE Next /\ ~ UNCHANGED <<issued, toServer, obuf>>
  <2>1. ASSUME Serve PROVE Queues'
    <3>1. toServer # <<>> /\ toServer' = Tail(toServer) /\ UNCHANGED <<client, history>>
      BY <2>1, ServeStep
    <3> QED
      BY <3>1, QueuesServe DEF client, history
  <2>2. ASSUME NEW k \in session.commands, AsyncCommand(k) PROVE Queues'
    BY <2>2, QueuesCommand
  <2>3. ASSUME NEW n \in 0 .. Len(obuf), HandleWrite(n) PROVE Queues'
    BY <2>3, QueuesWrite
  <2>4. Serve \/ (\E k \in session.commands : AsyncCommand(k)) \/ \E n \in 0 .. Len(obuf) : HandleWrite(n)
    BY <1>2, QueuesKept
  <2> QED
    BY <2>1, <2>2, <2>3, <2>4
<1> QED
  BY <1>1, <1>2 DEF vars, server, history, client

--------------------------------------------------------------------------------
(* The pipe under its three changes: a reply taken off, a reply put on, a command
   issued. *)

\* The first answer of the pipe is to the command whose turn it is.
LEMMA HeadAnswer ==
    ASSUME Types, Queues, NEW n \in Nat, AnswersKnown(n), Pipe # <<>>, Answer(Pipe[1])
    PROVE  Pipe[1].to = n + 1 /\ n + 1 \in 1 .. Served /\ AnswerRight(Pipe[1])
<1>1. DOMAIN Pipe = 1 .. Len(Pipe) /\ 1 \in DOMAIN Pipe
  BY PipeFacts, EmptySeq
<1>2. Pipe[1].to > n /\ AnswerRight(Pipe[1]) /\ Pipe[1].to \in 1 .. Served
  BY <1>1 DEF AnswersKnown, AnswerRight
<1>3. Served \in Nat /\ n + 1 \in n + 1 .. Served
  BY <1>2 DEF Queues
<1>4. PICK i \in DOMAIN Pipe : Answer(Pipe[i]) /\ Pipe[i].to = n + 1
  BY <1>3 DEF AnswersKnown
<1>5. CASE i = 1
  BY <1>2, <1>3, <1>4, <1>5
<1>6. CASE i # 1
  <2>1. 1 < i
    BY <1>1, <1>6
  <2>2. Pipe[1].to < Pipe[i].to
    BY <1>1, <1>4, <2>1 DEF AnswersKnown
  <2> QED
    BY <1>2, <1>4, <2>2
<1> QED
  BY <1>5, <1>6

\* How many commands are answered and processed when the first reply is.
Next1(n) == IF Answer(Pipe[1]) THEN n + 1 ELSE n

\* The places of the pipe after a reply is taken off.
LEMMA TailOfPipe ==
    ASSUME Types, Pipe # <<>>, Pipe' = Tail(Pipe)
    PROVE  /\ Len(Pipe) \in Nat /\ Len(Pipe) >= 1 /\ DOMAIN Pipe = 1 .. Len(Pipe)
           /\ DOMAIN Pipe' = 1 .. Len(Pipe) - 1 /\ Len(Pipe') = Len(Pipe) - 1
           /\ \A j \in 1 .. Len(Pipe) - 1 : Pipe'[j] = Pipe[j + 1]
<1>1. Pipe \in Seq(Replies) /\ DOMAIN Pipe = 1 .. Len(Pipe)
  BY PipeFacts
<1>2. Tail(Pipe) \in Seq(Replies) /\ Len(Tail(Pipe)) = Len(Pipe) - 1
      /\ \A j \in 1 .. Len(Tail(Pipe)) : Tail(Pipe)[j] = Pipe[j + 1]
  BY <1>1, HeadTailProperties
<1>3. Len(Pipe) \in Nat /\ Len(Pipe) >= 1
  BY <1>1, EmptySeq
<1>4. DOMAIN Tail(Pipe) = 1 .. Len(Tail(Pipe))
  BY <1>2, LenProperties
<1> QED
  BY <1>1, <1>2, <1>3, <1>4

\* What is processed before a reply stays so when the head is taken off.
LEMMA DonePopped ==
    ASSUME Types, Queues, NEW n \in Nat, AnswersKnown(n), Pipe # <<>>, Pipe' = Tail(Pipe),
           NEW m \in Nat, m = Next1(n), NEW i \in 1 .. Len(Pipe), NEW id \in Nat
    PROVE  Done(m, i, id)' <=> Done(n, i + 1, id)
<1>1. /\ Len(Pipe) \in Nat /\ DOMAIN Pipe = 1 .. Len(Pipe)
      /\ \A j \in 1 .. Len(Pipe) - 1 : Pipe'[j] = Pipe[j + 1]
  BY TailOfPipe
<1>2. ASSUME Done(m, i, id)' PROVE Done(n, i + 1, id)
  <2>1. CASE id <= n
    BY <2>1 DEF Done
  <2>2. CASE id = n + 1 /\ m = n + 1
    <3>1. Answer(Pipe[1]) /\ Pipe[1].to = id
      BY <2>2, HeadAnswer DEF Next1
    <3> QED
      BY <3>1 DEF Done
  <2>3. CASE \E j \in 1 .. i - 1 : Answer(Pipe'[j]) /\ Pipe'[j].to = id
    <3>1. PICK j \in 1 .. i - 1 : Answer(Pipe'[j]) /\ Pipe'[j].to = id
      BY <2>3
    <3>2. j + 1 \in 1 .. i + 1 - 1 /\ Pipe'[j] = Pipe[j + 1]
      BY <1>1
    <3> QED
      BY <3>1, <3>2 DEF Done
  <2> QED
    BY <1>2, <2>1, <2>2, <2>3 DEF Done, Next1
<1>3. ASSUME Done(n, i + 1, id) PROVE Done(m, i, id)'
  <2>1. CASE id <= n
    BY <2>1 DEF Done, Next1
  <2>2. CASE \E j \in 1 .. i + 1 - 1 : Answer(Pipe[j]) /\ Pipe[j].to = id
    <3>1. PICK j \in 1 .. i : Answer(Pipe[j]) /\ Pipe[j].to = id
      BY <2>2
    <3>2. CASE j = 1
      <4>1. id = n + 1 /\ m = n + 1
        BY <3>1, <3>2, HeadAnswer DEF Next1
      <4> QED
        BY <4>1 DEF Done
    <3>3. CASE j # 1
      <4>1. j - 1 \in 1 .. i - 1 /\ Pipe'[j - 1] = Pipe[j]
        BY <1>1, <3>3
      <4> QED
        BY <3>1, <4>1 DEF Done
    <3> QED
      BY <3>2, <3>3
  <2> QED
    BY <1>3, <2>1, <2>2 DEF Done
<1> QED
  BY <1>2, <1>3

\* The answers that are left are those to the commands after the next one.
LEMMA AnswersPopped ==
    ASSUME Types, Queues, NEW n \in Nat, AnswersKnown(n), Pipe # <<>>, Pipe' = Tail(Pipe),
           NEW m \in Nat, m = Next1(n), UNCHANGED issued, Served' = Served
    PROVE  AnswersKnown(m)'
<1>1. /\ Len(Pipe) \in Nat /\ Len(Pipe) >= 1 /\ DOMAIN Pipe = 1 .. Len(Pipe)
      /\ DOMAIN Pipe' = 1 .. Len(Pipe) - 1
      /\ \A j \in 1 .. Len(Pipe) - 1 : Pipe'[j] = Pipe[j + 1]
  BY TailOfPipe
<1>2. m \in 0 .. Served'
  BY HeadAnswer DEF Next1, AnswersKnown
<1>3. ASSUME NEW id \in m + 1 .. Served'
      PROVE  \E i \in DOMAIN Pipe' : Answer(Pipe'[i]) /\ Pipe'[i].to = id
  <2>1. id \in n + 1 .. Served
    BY <1>3 DEF Next1, Queues
  <2>2. PICK i \in DOMAIN Pipe : Answer(Pipe[i]) /\ Pipe[i].to = id
    BY <2>1 DEF AnswersKnown
  <2>3. i # 1
    BY <1>3, <2>2, HeadAnswer DEF Next1, Queues
  <2>4. i - 1 \in DOMAIN Pipe' /\ Pipe'[i - 1] = Pipe[i]
    BY <1>1, <2>3
  <2> QED
    BY <2>2, <2>4
<1>4. ASSUME NEW i \in DOMAIN Pipe', Answer(Pipe'[i])
      PROVE  Pipe'[i].to > m /\ AnswerRight(Pipe[i])'
  <2>1. i + 1 \in DOMAIN Pipe /\ Pipe'[i] = Pipe[i + 1] /\ 1 \in DOMAIN Pipe /\ 1 < i + 1
    BY <1>1
  <2>2. Pipe[i + 1].to > n /\ AnswerRight(Pipe[i + 1])
    BY <1>4, <2>1 DEF AnswersKnown
  <2>3. Pipe[i + 1].to > m
    <3>1. CASE Answer(Pipe[1])
      <4>1. Pipe[1].to < Pipe[i + 1].to
        BY <1>4, <2>1, <3>1 DEF AnswersKnown
      <4> QED
        BY <3>1, <4>1, HeadAnswer DEF Next1
    <3>2. CASE ~ Answer(Pipe[1])
      BY <2>2, <3>2 DEF Next1
    <3> QED
      BY <3>1, <3>2
  <2> QED
    BY <2>1, <2>2, <2>3 DEF AnswerRight, Kind
<1>5. ASSUME NEW i \in DOMAIN Pipe', NEW j \in DOMAIN Pipe', i < j, Answer(Pipe'[i]), Answer(Pipe'[j])
      PROVE  Pipe'[i].to < Pipe'[j].to
  <2>1. i + 1 \in DOMAIN Pipe /\ Pipe'[i] = Pipe[i + 1] /\ j + 1 \in DOMAIN Pipe /\ Pipe'[j] = Pipe[j + 1]
        /\ i + 1 < j + 1
    BY <1>1, <1>5
  <2> QED
    BY <1>5, <2>1 DEF AnswersKnown
<1> QED
  BY <1>2, <1>3, <1>4, <1>5 DEF AnswersKnown

\* Messages keep to the subscriptions when the head is taken off.
LEMMA MessagesPopped ==
    ASSUME Types, Queues, NEW n \in Nat, AnswersKnown(n), MessagesKnown(n), Pipe # <<>>, Pipe' = Tail(Pipe),
           NEW m \in Nat, m = Next1(n), UNCHANGED issued, Served' = Served
    PROVE  MessagesKnown(m)'
<1>1. /\ Len(Pipe) \in Nat /\ DOMAIN Pipe = 1 .. Len(Pipe)
      /\ DOMAIN Pipe' = 1 .. Len(Pipe) - 1
      /\ \A j \in 1 .. Len(Pipe) - 1 : Pipe'[j] = Pipe[j + 1]
  BY TailOfPipe
<1> SUFFICES ASSUME NEW i \in DOMAIN Pipe', Pipe'[i].type = "message"
             PROVE  \E s \in 1 .. Served' : MessageRight(m, i, s)'
  BY DEF MessagesKnown
<1>2. i + 1 \in DOMAIN Pipe /\ Pipe'[i] = Pipe[i + 1] /\ i \in 1 .. Len(Pipe)
  BY <1>1
<1>3. PICK s \in 1 .. Served : MessageRight(n, i + 1, s)
  BY <1>2 DEF MessagesKnown
<1>4. \A id \in Nat : Done(m, i, id)' <=> Done(n, i + 1, id)
  BY <1>2, DonePopped
<1>5. Subscribes(s, Pipe[i].channel)'
  BY <1>2, <1>3 DEF MessageRight, Subscribes, Kind
<1>6. Done(m, i, s)'
  BY <1>3, <1>4 DEF MessageRight, Queues
<1>7. ASSUME NEW u \in s .. Len(issued'), Unsubscribes(u, Pipe[i].channel)' PROVE ~ Done(m, i, u)'
  <2>1. u \in s .. Len(issued) /\ u \in Nat
    BY <1>3, <1>7, QueueFacts
  <2>2. Unsubscribes(u, Pipe[i + 1].channel)
    BY <1>2, <1>7 DEF Unsubscribes, Kind
  <2>3. ~ Done(n, i + 1, u)
    BY <1>3, <2>1, <2>2 DEF MessageRight
  <2> QED
    BY <1>4, <2>1, <2>3
<1>8. MessageRight(m, i, s)'
  BY <1>5, <1>6, <1>7 DEF MessageRight
<1> QED
  BY <1>3, <1>8

\* The places of the pipe after a reply is put on.
LEMMA PipeAppended ==
    ASSUME Types, NEW r \in Replies, Pipe' = Append(Pipe, r)
    PROVE  /\ Len(Pipe) \in Nat /\ DOMAIN Pipe = 1 .. Len(Pipe)
           /\ DOMAIN Pipe' = 1 .. Len(Pipe) + 1 /\ Len(Pipe') = Len(Pipe) + 1
           /\ \A j \in 1 .. Len(Pipe) : Pipe'[j] = Pipe[j]
           /\ Pipe'[Len(Pipe) + 1] = r
<1>1. Pipe \in Seq(Replies) /\ DOMAIN Pipe = 1 .. Len(Pipe)
  BY PipeFacts
<1>2. /\ Append(Pipe, r) \in Seq(Replies) /\ Len(Append(Pipe, r)) = Len(Pipe) + 1
      /\ \A j \in 1 .. Len(Pipe) : Append(Pipe, r)[j] = Pipe[j]
      /\ Append(Pipe, r)[Len(Pipe) + 1] = r
  BY <1>1, AppendProperties
<1> QED
  BY <1>1, <1>2, LenProperties

\* What is processed before a reply does not depend on later replies.
LEMMA DoneAppended ==
    ASSUME Types, NEW r \in Replies, Pipe' = Append(Pipe, r),
           NEW n \in Nat, NEW i \in 1 .. Len(Pipe) + 1, NEW id \in Nat
    PROVE  Done(n, i, id)' <=> Done(n, i, id)
<1>1. \A j \in 1 .. i - 1 : Pipe'[j] = Pipe[j]
  BY PipeAppended
<1> QED
  BY <1>1 DEF Done

\* At the end of the pipe everything the server has taken is answered.
LEMMA DoneAtEnd ==
    ASSUME Types, Queues, NEW n \in Nat, AnswersKnown(n), NEW id \in Nat
    PROVE  /\ id <= Served => Done(n, Len(Pipe) + 1, id)
           /\ \A i \in 1 .. Len(Pipe) + 1 : Done(n, i, id) => id <= Served
<1>1. Len(Pipe) \in Nat /\ DOMAIN Pipe = 1 .. Len(Pipe)
  BY PipeFacts, LenProperties
<1>2. n \in 0 .. Served /\ Served \in Nat
  BY DEF AnswersKnown, Queues
<1>3. ASSUME id <= Served PROVE Done(n, Len(Pipe) + 1, id)
  <2>1. CASE id <= n
    BY <2>1 DEF Done
  <2>2. CASE id > n
    <3>1. id \in n + 1 .. Served
      BY <1>2, <1>3, <2>2
    <3>2. PICK i \in DOMAIN Pipe : Answer(Pipe[i]) /\ Pipe[i].to = id
      BY <3>1 DEF AnswersKnown
    <3>3. i \in 1 .. Len(Pipe) + 1 - 1
      BY <1>1
    <3> QED
      BY <3>2, <3>3 DEF Done
  <2> QED
    BY <1>2, <2>1, <2>2
<1>4. ASSUME NEW i \in 1 .. Len(Pipe) + 1, Done(n, i, id) PROVE id <= Served
  <2>1. CASE id <= n
    BY <1>2, <2>1
  <2>2. CASE \E j \in 1 .. i - 1 : Answer(Pipe[j]) /\ Pipe[j].to = id
    <3>1. PICK j \in 1 .. i - 1 : Answer(Pipe[j]) /\ Pipe[j].to = id
      BY <2>2
    <3>2. j \in DOMAIN Pipe
      BY <1>1
    <3>3. id \in 1 .. Served
      BY <3>1, <3>2 DEF AnswersKnown, AnswerRight
    <3> QED
      BY <3>3
  <2> QED
    BY <1>4, <2>1, <2>2 DEF Done
<1> QED
  BY <1>3, <1>4

\* The answers with the one to the next command, or with a reply nobody asked for.
LEMMA AnswersAppended ==
    ASSUME Types, Queues, NEW n \in Nat, AnswersKnown(n), NEW r \in Replies, Pipe' = Append(Pipe, r),
           UNCHANGED issued,
           \/ Answer(r) /\ r.to = Served + 1 /\ Served' = Served + 1 /\ AnswerRight(r)'
           \/ ~ Answer(r) /\ Served' = Served
    PROVE  AnswersKnown(n)'
<1>1. /\ Len(Pipe) \in Nat /\ DOMAIN Pipe = 1 .. Len(Pipe)
      /\ DOMAIN Pipe' = 1 .. Len(Pipe) + 1
      /\ \A j \in 1 .. Len(Pipe) : Pipe'[j] = Pipe[j]
      /\ Pipe'[Len(Pipe) + 1] = r
  BY PipeAppended
<1>2. Served \in Nat /\ n \in 0 .. Served
  BY DEF Queues, AnswersKnown
<1>3. n \in 0 .. Served'
  BY <1>2
<1>4. ASSUME NEW id \in n + 1 .. Served'
      PROVE  \E i \in DOMAIN Pipe' : Answer(Pipe'[i]) /\ Pipe'[i].to = id
  <2>1. CASE id \in n + 1 .. Served
    <3>1. PICK i \in DOMAIN Pipe : Answer(Pipe[i]) /\ Pipe[i].to = id
      BY <2>1 DEF AnswersKnown
    <3> QED
      BY <1>1, <3>1
  <2>2. CASE id \notin n + 1 .. Served
    <3>1. Answer(r) /\ r.to = id
      BY <1>2, <1>4, <2>2
    <3>2. Len(Pipe) + 1 \in DOMAIN Pipe'
      BY <1>1
    <3> QED
      BY <1>1, <3>1, <3>2
  <2> QED
    BY <2>1, <2>2
<1>5. ASSUME NEW i \in DOMAIN Pipe', Answer(Pipe'[i])
      PROVE  Pipe'[i].to > n /\ AnswerRight(Pipe[i])'
  <2>1. CASE i \in DOMAIN Pipe
    <3>1. Pipe'[i] = Pipe[i]
      BY <1>1, <2>1
    <3>2. Pipe[i].to > n /\ AnswerRight(Pipe[i])
      BY <1>5, <2>1, <3>1 DEF AnswersKnown
    <3>3. Pipe[i].to \in 1 .. Served'
      BY <1>2, <3>2 DEF AnswerRight
    <3> QED
      BY <3>1, <3>2, <3>3 DEF AnswerRight, Kind
  <2>2. CASE i \notin DOMAIN Pipe
    <3>1. i = Len(Pipe) + 1 /\ Pipe'[i] = r
      BY <1>1, <2>2
    <3>2. Answer(r) /\ r.to = Served + 1 /\ AnswerRight(r)'
      BY <1>5, <3>1
    <3> QED
      BY <1>2, <3>1, <3>2 DEF AnswerRight, Kind
  <2> QED
    BY <2>1, <2>2
<1>6. ASSUME NEW i \in DOMAIN Pipe', NEW j \in DOMAIN Pipe', i < j, Answer(Pipe'[i]), Answer(Pipe'[j])
      PROVE  Pipe'[i].to < Pipe'[j].to
  <2>1. i \in DOMAIN Pipe /\ Pipe'[i] = Pipe[i]
    BY <1>1, <1>6
  <2>2. CASE j \in DOMAIN Pipe
    <3>1. Pipe'[j] = Pipe[j]
      BY <1>1, <2>2
    <3> QED
      BY <1>6, <2>1, <2>2, <3>1 DEF AnswersKnown
  <2>3. CASE j \notin DOMAIN Pipe
    <3>1. Pipe'[j] = r /\ r.to = Served + 1
      BY <1>1, <1>6, <2>3
    <3>2. Pipe[i].to \in 1 .. Served
      BY <1>6, <2>1 DEF AnswersKnown, AnswerRight
    <3> QED
      BY <1>2, <2>1, <3>1, <3>2
  <2> QED
    BY <2>2, <2>3
<1> QED
  BY <1>3, <1>4, <1>5, <1>6 DEF AnswersKnown

\* A message that is put on comes after the subscription of its channel.
LEMMA MessagesAppended ==
    ASSUME Types, Queues, NEW n \in Nat, AnswersKnown(n), MessagesKnown(n), ServerKnown,
           NEW r \in Replies, Pipe' = Append(Pipe, r),
           UNCHANGED issued, Served' = Served \/ Served' = Served + 1,
           r.type = "message" => r.channel \in subs
    PROVE  MessagesKnown(n)'
<1>1. /\ Len(Pipe) \in Nat /\ DOMAIN Pipe = 1 .. Len(Pipe)
      /\ DOMAIN Pipe' = 1 .. Len(Pipe) + 1
      /\ \A j \in 1 .. Len(Pipe) : Pipe'[j] = Pipe[j]
      /\ Pipe'[Len(Pipe) + 1] = r
  BY PipeAppended
<1>2. Served \in 0 .. Len(issued) /\ Len(issued) \in Nat
  BY QueueFacts
<1> SUFFICES ASSUME NEW i \in DOMAIN Pipe', Pipe'[i].type = "message"
             PROVE  \E s \in 1 .. Served' : MessageRight(n, i, s)'
  BY DEF MessagesKnown
<1>3. i \in 1 .. Len(Pipe) + 1 /\ \A id \in Nat : Done(n, i, id)' <=> Done(n, i, id)
  BY <1>1, DoneAppended
<1>4. CASE i \in DOMAIN Pipe
  <2>1. Pipe'[i] = Pipe[i]
    BY <1>1, <1>4
  <2>2. PICK s \in 1 .. Served : MessageRight(n, i, s)
    BY <1>4, <2>1 DEF MessagesKnown
  <2>3. MessageRight(n, i, s)'
    <3>1. Subscribes(s, Pipe[i].channel)' /\ Done(n, i, s)'
      BY <1>3, <2>1, <2>2 DEF MessageRight, Subscribes, Kind
    <3>2. ASSUME NEW u \in s .. Len(issued), Unsubscribes(u, Pipe[i].channel)' PROVE ~ Done(n, i, u)'
      <4>1. Unsubscribes(u, Pipe[i].channel) /\ u \in Nat
        BY <2>1, <2>2, <3>2 DEF Unsubscribes, Kind
      <4> QED
        BY <1>3, <2>2, <4>1 DEF MessageRight
    <3> QED
      BY <3>1, <3>2 DEF MessageRight
  <2> QED
    BY <1>2, <2>2, <2>3
<1>5. CASE i \notin DOMAIN Pipe
  <2>1. i = Len(Pipe) + 1 /\ Pipe'[i] = r /\ r.channel \in subs
    BY <1>1, <1>5
  <2>2. PICK s \in 1 .. Served : Subscribes(s, r.channel) /\ \A u \in s .. Served : ~ Unsubscribes(u, r.channel)
    BY <2>1 DEF ServerKnown, Current
  <2>3. s \in Nat /\ Done(n, i, s)
    BY <1>2, <2>1, <2>2, DoneAtEnd
  <2>4. MessageRight(n, i, s)'
    <3>1. Subscribes(s, Pipe[i].channel)' /\ Done(n, i, s)'
      BY <1>3, <2>1, <2>2, <2>3 DEF Subscribes, Kind
    <3>2. ASSUME NEW u \in s .. Len(issued), Unsubscribes(u, Pipe[i].channel)' PROVE ~ Done(n, i, u)'
      <4>1. Unsubscribes(u, r.channel) /\ u \in Nat
        BY <2>1, <2>2, <3>2 DEF Unsubscribes, Kind
      <4>2. ~ (u <= Served)
        BY <1>2, <2>2, <3>2, <4>1
      <4>3. ~ Done(n, i, u)
        BY <1>3, <4>1, <4>2, DoneAtEnd
      <4> QED
        BY <1>3, <4>1, <4>3
    <3> QED
      BY <3>1, <3>2 DEF MessageRight
  <2> QED
    BY <1>2, <2>2, <2>4
<1> QED
  BY <1>4, <1>5

\* What is known of the log when a command is issued.
LEMMA LogGrown ==
    ASSUME Types, NEW k \in session.commands, issued' = Append(issued, k)
    PROVE  /\ Len(issued) \in Nat /\ Len(issued') = Len(issued) + 1
           /\ DOMAIN issued = 1 .. Len(issued) /\ DOMAIN issued' = 1 .. Len(issued) + 1
           /\ \A id \in 1 .. Len(issued) : issued'[id] = issued[id]
           /\ issued'[Len(issued) + 1] = k
<1>1. issued \in Seq(session.commands)
  BY DEF Types
<1>2. /\ Append(issued, k) \in Seq(session.commands) /\ Len(Append(issued, k)) = Len(issued) + 1
      /\ \A j \in 1 .. Len(issued) : Append(issued, k)[j] = issued[j]
      /\ Append(issued, k)[Len(issued) + 1] = k
  BY <1>1, AppendProperties
<1> QED
  BY <1>1, <1>2, LenProperties

\* A command that is issued changes nothing of what the pipe is known to hold.
LEMMA AnswersIssued ==
    ASSUME Types, Queues, NEW n \in Nat, AnswersKnown(n), MessagesKnown(n),
           NEW k \in session.commands, issued' = Append(issued, k), Pipe' = Pipe, Served' = Served
    PROVE  AnswersKnown(n)' /\ MessagesKnown(n)'
<1>1. /\ Len(issued) \in Nat /\ Len(issued') = Len(issued) + 1
      /\ \A id \in 1 .. Len(issued) : issued'[id] = issued[id]
  BY LogGrown
<1>2. Served \in 0 .. Len(issued)
  BY QueueFacts
<1>3. AnswersKnown(n)'
  <2>1. ASSUME NEW i \in DOMAIN Pipe, Answer(Pipe[i]) PROVE Pipe'[i].to > n /\ AnswerRight(Pipe[i])'
    <3>1. AnswerRight(Pipe[i]) /\ Pipe[i].to > n
      BY <2>1 DEF AnswersKnown
    <3>2. issued'[Pipe[i].to] = issued[Pipe[i].to]
      BY <1>1, <1>2, <3>1 DEF AnswerRight
    <3> QED
      BY <3>1, <3>2 DEF AnswerRight, Kind
  <2> QED
    BY <2>1 DEF AnswersKnown
<1>4. MessagesKnown(n)'
  <2> SUFFICES ASSUME NEW i \in DOMAIN Pipe, Pipe[i].type = "message"
               PROVE  \E s \in 1 .. Served' : MessageRight(n, i, s)'
    BY DEF MessagesKnown
  <2>1. PICK s \in 1 .. Served : MessageRight(n, i, s)
    BY DEF MessagesKnown
  <2>2. i \in 1 .. Len(Pipe) + 1
    BY PipeFacts, LenProperties
  <2>3. Subscribes(s, Pipe[i].channel)' /\ Done(n, i, s)'
    BY <1>1, <1>2, <2>1 DEF MessageRight, Subscribes, Kind, Done
  <2>4. ASSUME NEW u \in s .. Len(issued'), Unsubscribes(u, Pipe[i].channel)' PROVE ~ Done(n, i, u)'
    <3>1. CASE u <= Len(issued)
      <4>1. u \in s .. Len(issued) /\ Unsubscribes(u, Pipe[i].channel)
        BY <1>1, <1>2, <2>1, <2>4, <3>1 DEF Unsubscribes, Kind
      <4> QED
        BY <2>1, <4>1 DEF MessageRight, Done
    <3>2. CASE u > Len(issued)
      <4>1. ~ (u <= Served) /\ u \in Nat
        BY <1>1, <1>2, <2>1, <3>2
      <4>2. ~ Done(n, i, u)
        BY <2>2, <4>1, DoneAtEnd
      <4> QED
        BY <4>2 DEF Done
    <3> QED
      BY <1>1, <1>2, <2>1, <3>1, <3>2
  <2>5. MessageRight(n, i, s)'
    BY <2>3, <2>4 DEF MessageRight
  <2> QED
    BY <2>1, <2>5
<1> QED
  BY <1>3, <1>4

--------------------------------------------------------------------------------
(* The log, the server's subscriptions and the client's callbacks. *)

\* Only a command changes the log, and nothing changes the session.
LEMMA LogKept ==
    ASSUME Types, Queues, OneChannel, [Next]_vars
    PROVE  /\ session' = session
           /\ UNCHANGED issued \/ \E k \in session.commands : AsyncCommand(k)
<1>1. CASE UNCHANGED vars
  BY <1>1 DEF vars, server, history
<1>2. CASE Next
  <2>1. ASSUME Serve PROVE UNCHANGED <<session, issued>>
    <3>1. UNCHANGED <<client, session, closed, pushes, history>>
      BY <2>1, ServeStep
    <3> QED
      BY <3>1 DEF history
  <2>2. ASSUME NEW n \in 0 .. Len(obuf), HandleWrite(n) PROVE UNCHANGED <<session, issued>>
    BY <2>2 DEF HandleWrite, history
  <2>3. \A k \in session.commands : AsyncCommand(k) => session' = session
    BY DEF AsyncCommand, server
  <2>4. ASSUME \/ Disconnect \/ Free \/ Return
               \/ ConnectFails \/ ReadEOF \/ WriteFails \/ HandleTimeout
               \/ \E n \in 0 .. Len(fromServer) : HandleRead(n)
        PROVE  UNCHANGED <<session, issued>>
    BY <2>4 DEF Disconnect, Free, Return, ConnectFails, ReadEOF, WriteFails, HandleTimeout, HandleRead,
        server, history
  <2>5. ASSUME \/ NoReply \/ RegularReply \/ SpontaneousError \/ Unexpected \/ MonitorLine
               \/ PubSubReply \/ InvalidReply
        PROVE  UNCHANGED <<session, issued>>
    BY <2>5 DEF NoReply, RegularReply, SpontaneousError, Unexpected, MonitorLine, PubSubReply, InvalidReply,
        server, history
  <2>6. ASSUME \/ TimeoutTurn \/ FreeTurn \/ FreeEnd \/ \E c \in Channel : FreeSubscription(c)
               \/ Push \/ Close
        PROVE  UNCHANGED <<session, issued>>
    BY <2>6 DEF TimeoutTurn, FreeTurn, FreeEnd, FreeSubscription, Push, Close, server, history, client
  <2> QED
    BY <1>2, <2>1, <2>2, <2>3, <2>4, <2>5, <2>6, Steps
<1> QED
  BY <1>1, <1>2

\* A further command.
LEMMA CurrentNext ==
    ASSUME NEW n \in Nat, NEW c
    PROVE  Current(c, n + 1) <=> Subscribes(n + 1, c) \/ (Current(c, n) /\ ~ Unsubscribes(n + 1, c))
<1>1. ~ (Subscribes(n + 1, c) /\ Unsubscribes(n + 1, c))
  BY DEF Subscribes, Unsubscribes
<1>2. ASSUME Current(c, n + 1)
      PROVE  Subscribes(n + 1, c) \/ (Current(c, n) /\ ~ Unsubscribes(n + 1, c))
  <2>1. PICK s \in 1 .. n + 1 : Subscribes(s, c) /\ \A u \in s .. n + 1 : ~ Unsubscribes(u, c)
    BY <1>2 DEF Current
  <2>2. CASE s = n + 1
    BY <2>1, <2>2
  <2>3. CASE s # n + 1
    <3>1. s \in 1 .. n /\ (\A u \in s .. n : u \in s .. n + 1) /\ n + 1 \in s .. n + 1
      BY <2>3
    <3> QED
      BY <2>1, <3>1 DEF Current
  <2> QED
    BY <2>2, <2>3
<1>3. ASSUME Subscribes(n + 1, c) PROVE Current(c, n + 1)
  <2>1. n + 1 \in 1 .. n + 1 /\ \A u \in n + 1 .. n + 1 : u = n + 1
    OBVIOUS
  <2> QED
    BY <1>1, <1>3, <2>1 DEF Current
<1>4. ASSUME Current(c, n), ~ Unsubscribes(n + 1, c) PROVE Current(c, n + 1)
  <2>1. PICK s \in 1 .. n : Subscribes(s, c) /\ \A u \in s .. n : ~ Unsubscribes(u, c)
    BY <1>4 DEF Current
  <2>2. s \in 1 .. n + 1 /\ \A u \in s .. n + 1 : u \in s .. n \/ u = n + 1
    OBVIOUS
  <2> QED
    BY <1>4, <2>1, <2>2 DEF Current
<1> QED
  BY <1>2, <1>3, <1>4

\* The part of the log that is there is not changed by a command.
LEMMA CurrentIssued ==
    ASSUME Types, NEW k \in session.commands, issued' = Append(issued, k),
           NEW n \in 0 .. Len(issued), NEW c
    PROVE  Current(c, n)' <=> Current(c, n)
<1>1. \A id \in 1 .. n : issued'[id] = issued[id]
  BY LogGrown
<1>2. \A id \in 1 .. n : (Subscribes(id, c)' <=> Subscribes(id, c)) /\ (Unsubscribes(id, c)' <=> Unsubscribes(id, c))
  BY <1>1 DEF Subscribes, Unsubscribes, Kind
<1>3. n \in Nat
  BY LogGrown
<1>4. \A s \in 1 .. n : \A u \in s .. n : u \in 1 .. n
  BY <1>3
<1> QED
  BY <1>2, <1>4 DEF Current

\* UNSUBSCRIBE keeps to what is subscribed.
LEMMA AskedStep ==
    ASSUME Types, Queues, OneChannel, Asked, [Next]_vars
    PROVE  Asked'
<1>1. CASE UNCHANGED issued
  BY <1>1, LogKept DEF Asked, Current, Subscribes, Unsubscribes, Kind
<1>2. ASSUME NEW k \in session.commands, AsyncCommand(k) PROVE Asked'
  <2> SUFFICES ASSUME session.disciplined, NEW id \in DOMAIN issued', issued'[id].kind = "unsubscribe"
               PROVE  Current(issued[id].channels[1], id - 1)'
    BY LogKept DEF Asked, Kind
  <2>1. issued' = Append(issued, k)
    BY <1>2 DEF AsyncCommand
  <2>2. /\ Len(issued) \in Nat /\ DOMAIN issued = 1 .. Len(issued) /\ DOMAIN issued' = 1 .. Len(issued) + 1
        /\ \A i \in 1 .. Len(issued) : issued'[i] = issued[i]
        /\ issued'[Len(issued) + 1] = k
    BY <2>1, LogGrown
  <2>3. id - 1 \in 0 .. Len(issued)
    BY <2>2
  <2>4. \A c : Current(c, id - 1)' <=> Current(c, id - 1)
    BY <2>1, <2>3, CurrentIssued
  <2>5. CASE id \in 1 .. Len(issued)
    <3>1. issued'[id] = issued[id] /\ Kind(id) = "unsubscribe"
      BY <2>2, <2>5 DEF Kind
    <3>2. Current(issued[id].channels[1], id - 1)
      BY <2>2, <2>5, <3>1 DEF Asked
    <3> QED
      BY <2>4, <3>1, <3>2
  <2>6. CASE id = Len(issued) + 1
    <3>1. k.kind = "unsubscribe" /\ issued'[id] = k
      BY <2>2, <2>6
    <3> DEFINE c == k.channels[1]
    <3>2. Range1(k.channels) = {c}
      BY <3>1, IssuedFacts DEF Regular
    <3>3. Wanted(c)
      BY <1>2, <3>1, <3>2 DEF AsyncCommand, MayIssue
    <3> HIDE DEF c
    <3>4. PICK i \in DOMAIN issued :
            /\ issued[i].kind = "subscribe" /\ c \in Range1(issued[i].channels)
            /\ \A j \in i + 1 .. Len(issued) : c \notin Range1(issued[j].channels)
      BY <3>3 DEF Wanted
    <3>5. \A j \in 1 .. Len(issued) :
            issued[j].kind \in {"subscribe", "unsubscribe"} =>
                Range1(issued[j].channels) = {issued[j].channels[1]}
      BY IssuedFacts DEF Regular
    <3>6. Subscribes(i, c) /\ ~ Unsubscribes(i, c)
      <4>1. Range1(issued[i].channels) = {issued[i].channels[1]}
        BY <2>2, <3>4, <3>5
      <4>2. c = issued[i].channels[1]
        BY <3>4, <4>1
      <4> QED
        BY <3>4, <4>2 DEF Subscribes, Unsubscribes, Kind
    <3>7. ASSUME NEW j \in i + 1 .. Len(issued) PROVE ~ Unsubscribes(j, c)
      <4>1. j \in 1 .. Len(issued)
        BY <2>2, <3>4
      <4>2. issued[j].kind = "unsubscribe" => Range1(issued[j].channels) = {issued[j].channels[1]}
        BY <3>5, <4>1
      <4>3. issued[j].kind = "unsubscribe" => c # issued[j].channels[1]
        BY <3>4, <4>2
      <4> QED
        BY <4>3 DEF Unsubscribes, Kind
    <3>8. i \in 1 .. Len(issued) /\ \A u \in i .. Len(issued) : u = i \/ u \in i + 1 .. Len(issued)
      BY <2>2, <3>4
    <3>9. Current(c, Len(issued))
      BY <3>6, <3>7, <3>8 DEF Current
    <3>10. id - 1 = Len(issued) /\ issued'[id].channels[1] = c
      BY <2>2, <2>6, <3>1 DEF c
    <3> QED
      BY <2>4, <3>9, <3>10
  <2> QED
    BY <2>2, <2>5, <2>6
<1> QED
  BY <1>1, <1>2, LogKept

\* The channels of the server and a command that is only issued, ...
LEMMA ServerCommand ==
    ASSUME Types, Queues, ServerKnown, NEW k \in session.commands, AsyncCommand(k)
    PROVE  ServerKnown'
<1>1. issued' = Append(issued, k) /\ UNCHANGED subs
  BY DEF AsyncCommand, server
<1>2. Served' = Served /\ Served \in 0 .. Len(issued)
  BY QueuesCommand, QueueFacts
<1>3. \A c : Current(c, Served)' <=> Current(c, Served)
  <2>1. ASSUME NEW n \in 0 .. Len(issued), NEW c, n = Served PROVE Current(c, Served)' <=> Current(c, Served)
    <3>1. Current(c, n)' <=> Current(c, n)
      BY <1>1, CurrentIssued
    <3> QED
      BY <1>2, <2>1, <3>1
  <2> QED
    BY <1>2, <2>1
<1> QED
  BY <1>1, <1>3 DEF ServerKnown

\* ... and one that is served.
LEMMA ServerServes ==
    ASSUME Types, Queues, OneChannel, ServerKnown, Serve
    PROVE  ServerKnown'
<1>1. toServer # <<>> /\ toServer' = Tail(toServer) /\ UNCHANGED <<issued, obuf>>
  BY ServeStep DEF client, history
<1>2. Served' = Served + 1 /\ Served \in Nat
  BY <1>1, QueuesServe DEF Queues
<1>3. ASSUME NEW c \in subs' PROVE Current(c, Served + 1)
  <2>1. Subscribes(Served + 1, c) \/ (c \in subs /\ ~ Unsubscribes(Served + 1, c))
    <3>1. CASE Kind(Served + 1) = "subscribe"
      BY <1>3, <3>1, ServeStep DEF Subscribes, Unsubscribes
    <3>2. CASE Kind(Served + 1) = "unsubscribe"
      BY <1>3, <3>2, ServeStep DEF Unsubscribes
    <3>3. CASE Kind(Served + 1) \notin {"subscribe", "unsubscribe"}
      BY <1>3, <3>3, ServeStep DEF Unsubscribes
    <3> QED
      BY <3>1, <3>2, <3>3
  <2> QED
    BY <1>2, <2>1, CurrentNext DEF ServerKnown
<1>4. \A c : Current(c, Served)' <=> Current(c, Served + 1)
  BY <1>1, <1>2 DEF Current, Subscribes, Unsubscribes, Kind
<1> QED
  BY <1>3, <1>4 DEF ServerKnown

\* The steps that are neither a command nor the server's.
LEMMA SubsKept ==
    ASSUME Types, Next, ~ Serve, \A k \in session.commands : ~ AsyncCommand(k)
    PROVE  UNCHANGED <<subs, watching>> /\ (UNCHANGED closed \/ Close)
<1>1. ASSUME \/ Disconnect \/ Free \/ Return
             \/ ConnectFails \/ ReadEOF \/ WriteFails \/ HandleTimeout
             \/ (\E n \in 0 .. Len(fromServer) : HandleRead(n))
             \/ \E n \in 0 .. Len(obuf) : HandleWrite(n)
      PROVE  UNCHANGED <<subs, watching, closed>>
  BY <1>1 DEF Disconnect, Free, Return, ConnectFails, ReadEOF, WriteFails, HandleTimeout, HandleRead,
      HandleWrite, server
<1>2. ASSUME \/ NoReply \/ RegularReply \/ SpontaneousError \/ Unexpected \/ MonitorLine
             \/ PubSubReply \/ InvalidReply
      PROVE  UNCHANGED <<subs, watching, closed>>
  BY <1>2 DEF NoReply, RegularReply, SpontaneousError, Unexpected, MonitorLine, PubSubReply, InvalidReply,
      server
<1>3. ASSUME \/ TimeoutTurn \/ FreeTurn \/ FreeEnd \/ \E c \in Channel : FreeSubscription(c)
      PROVE  UNCHANGED <<subs, watching, closed>>
  BY <1>3 DEF TimeoutTurn, FreeTurn, FreeEnd, FreeSubscription, server
<1>4. (Push => UNCHANGED <<subs, watching, closed>>) /\ (Close => UNCHANGED <<subs, watching>>)
  BY DEF Push, Close
<1> QED
  BY <1>1, <1>2, <1>3, <1>4, Steps

\* The server publishes to what is subscribed by the commands it has taken.
LEMMA ServerStep ==
    ASSUME Types, Queues, OneChannel, ServerKnown, [Next]_vars
    PROVE  ServerKnown'
<1>1. ASSUME UNCHANGED <<issued, subs>>, Served' = Served PROVE ServerKnown'
  BY <1>1 DEF ServerKnown, Current, Subscribes, Unsubscribes, Kind
<1>2. CASE UNCHANGED vars
  BY <1>1, <1>2 DEF vars, server, history, client, Served
<1>3. CASE Next /\ ~ Serve /\ \A k \in session.commands : ~ AsyncCommand(k)
  <2>1. UNCHANGED <<issued, subs>>
    BY <1>3, SubsKept, LogKept
  <2>2. CASE \E n \in 0 .. Len(obuf) : HandleWrite(n)
    BY <1>1, <2>1, <2>2, QueuesWrite
  <2>3. CASE ~ \E n \in 0 .. Len(obuf) : HandleWrite(n)
    <3>1. UNCHANGED <<issued, toServer, obuf>>
      BY <1>3, <2>3, QueuesKept
    <3> QED
      BY <1>1, <2>1, <3>1 DEF Served
  <2> QED
    BY <2>2, <2>3
<1> QED
  BY <1>2, <1>3, ServerCommand, ServerServes

--------------------------------------------------------------------------------
(* The callbacks of the channels and the count of their subscriptions. *)

\* What a command does to the callbacks of the channels.
LEMMA CommandChannels ==
    ASSUME Types, OneChannel, NEW k \in session.commands, AsyncCommand(k)
    PROVE  /\ k.kind = "subscribe" =>
                LET c == k.channels[1]
                IN  /\ channels' = [channels EXCEPT ![c] =
                          [id |-> Len(issued) + 1,
                           pending_subs |-> IF channels[c] = Null THEN 1 ELSE channels[c].pending_subs + 1]]
                    /\ unconfirmed' = [unconfirmed EXCEPT ![c] = @ + 1]
           /\ k.kind # "subscribe" => UNCHANGED <<channels, unconfirmed>>
<1>1. CASE k.kind = "subscribe"
  <2> DEFINE c == k.channels[1]
  <2>1. Len(k.channels) = 1 /\ c \in Channel /\ Range1(k.channels) = {c} /\ k.channels \in Seq(Channel)
    BY <1>1, IssuedFacts DEF Regular, Commands
  <2>2. /\ channels' = AddSubscription(Len(issued) + 1, k.channels)
        /\ unconfirmed' = [d \in Channel |-> unconfirmed[d] + IF d \in Range1(k.channels) THEN 1 ELSE 0]
    BY <1>1 DEF AsyncCommand
  <2>3. channels' = [channels EXCEPT ![c] =
                          [id |-> Len(issued) + 1,
                           pending_subs |-> IF channels[c] = Null THEN 1 ELSE channels[c].pending_subs + 1]]
    BY <2>1, <2>2, OneSubscription, Zenon
  <2>4. unconfirmed' = [unconfirmed EXCEPT ![c] = @ + 1]
    <3>1. unconfirmed \in [Channel -> Int]
      BY DEF Types
    <3> HIDE DEF c
    <3>2. \A d \in Channel : d \in Range1(k.channels) <=> d = c
      BY <2>1
    <3>3. unconfirmed' = [d \in Channel |-> IF d = c THEN unconfirmed[d] + 1 ELSE unconfirmed[d]]
      <4>1. \A d \in Channel : unconfirmed[d] + (IF d \in Range1(k.channels) THEN 1 ELSE 0)
                                 = IF d = c THEN unconfirmed[d] + 1 ELSE unconfirmed[d]
        BY <3>1, <3>2
      <4> QED
        BY <2>2, <4>1
    <3> QED
      BY <3>1, <3>3
  <2> QED
    BY <1>1, <2>3, <2>4
<1>2. CASE k.kind # "subscribe"
  BY <1>2 DEF AsyncCommand
<1> QED
  BY <1>1, <1>2

\* One turn of the loop with a reply about a channel.
PubSub(reply) ==
    LET c == reply.channel
        pending == IF reply.type = "subscribe" THEN channels[c].pending_subs - 1 ELSE channels[c].pending_subs
        entry == [id |-> channels[c].id, pending_subs |-> pending]
        dict == [channels EXCEPT ![c] = IF reply.type = "unsubscribe" /\ pending = 0 THEN Null ELSE entry]
    IN  /\ channels[c] = Null => Deliver(reply, cb) /\ UNCHANGED <<channels, flags>>
        /\ channels[c] # Null => /\ Deliver(reply, entry)
                                 /\ channels' = dict
                                 /\ flags' = IF IsOver(reply, dict) THEN flags \ {"SUBSCRIBED"} ELSE flags
        /\ reply.type = "subscribe" => unconfirmed' = [unconfirmed EXCEPT ![c] = @ - 1]
        /\ reply.type # "subscribe" => UNCHANGED unconfirmed

\* PubSubReply as PubSub has it.
LEMMA PubSubFacts ==
    ASSUME Types, PubSubReply
    PROVE  /\ reader # <<>> /\ replies = <<>> /\ at = "process" /\ "SUBSCRIBED" \in flags
           /\ Head(reader) \in Replies /\ Head(reader).channel \in Channel
           /\ Head(reader).type \in {"subscribe", "unsubscribe", "message"}
           /\ PubSub(Head(reader))
           /\ UNCHANGED <<err, replies, invalid, obuf, server, issued, cause, told>>
<1> DEFINE reply == Head(reader)
           found == channels[reply.channel]
           entry == IF reply.type = "subscribe" THEN [found EXCEPT !.pending_subs = @ - 1] ELSE found
           dict == [channels EXCEPT ![reply.channel] =
                       IF reply.type = "unsubscribe" /\ Drops(entry) THEN Null ELSE entry]
           pending == IF reply.type = "subscribe" THEN found.pending_subs - 1 ELSE found.pending_subs
           new == [id |-> found.id, pending_subs |-> pending]
           dict2 == [channels EXCEPT ![reply.channel] =
                       IF reply.type = "unsubscribe" /\ pending = 0 THEN Null ELSE new]
<1>1. /\ reader # <<>> /\ replies = <<>> /\ at = "process" /\ "SUBSCRIBED" \in flags
      /\ reply.type \in {"subscribe", "unsubscribe", "message"}
      /\ UNCHANGED <<err, replies, invalid, obuf, server, issued, cause, told>>
  BY DEF PubSubReply, Spontaneous
<1>2. reply \in Replies /\ reply.channel \in Channel
  BY <1>1, ReplyFacts
<1>3. found \in Callbacks
  BY <1>2 DEF Types, TypeOK
<1>4. entry = new /\ (Drops(entry) <=> pending = 0)
  BY <1>3 DEF Callbacks, Drops
<1>5. dict = dict2
  BY <1>4, Zenon
<1>6. /\ found = Null => Deliver(reply, cb) /\ UNCHANGED <<channels, flags>>
      /\ found # Null => /\ Deliver(reply, entry) /\ channels' = dict
                         /\ flags' = IF IsOver(reply, dict) THEN flags \ {"SUBSCRIBED"} ELSE flags
      /\ unconfirmed' = IF reply.type = "subscribe"
                        THEN [unconfirmed EXCEPT ![reply.channel] = @ - 1] ELSE unconfirmed
  BY Zenon DEF PubSubReply
<1>7. /\ found = Null => Deliver(reply, cb) /\ UNCHANGED <<channels, flags>>
      /\ found # Null => /\ Deliver(reply, new) /\ channels' = dict2
                         /\ flags' = IF IsOver(reply, dict2) THEN flags \ {"SUBSCRIBED"} ELSE flags
      /\ reply.type = "subscribe" => unconfirmed' = [unconfirmed EXCEPT ![reply.channel] = @ - 1]
      /\ reply.type # "subscribe" => UNCHANGED unconfirmed
  <2> HIDE DEF entry, dict, new, dict2
  <2> QED
    BY <1>4, <1>5, <1>6, Zenon
<1>8. PubSub(reply)
  BY <1>7, Zenon DEF PubSub
<1> QED
  BY <1>1, <1>2, <1>8

\* The steps that leave the callbacks of the channels alone; none undoes a tear-down.
LEMMA ChannelsKept ==
    ASSUME Types, Queues, OneChannel, [Next]_vars
    PROVE  \/ UNCHANGED <<channels, unconfirmed>>
           \/ (\E k \in session.commands : AsyncCommand(k)) \/ PubSubReply
           \/ \E c \in Channel : FreeSubscription(c)
<1>1. ASSUME \/ Disconnect \/ Free \/ Return
             \/ ConnectFails \/ ReadEOF \/ WriteFails \/ HandleTimeout
             \/ (\E n \in 0 .. Len(fromServer) : HandleRead(n))
             \/ \E n \in 0 .. Len(obuf) : HandleWrite(n)
      PROVE  UNCHANGED <<channels, unconfirmed>>
  BY <1>1 DEF Disconnect, Free, Return, ConnectFails, ReadEOF, WriteFails, HandleTimeout, HandleRead,
      HandleWrite, history
<1>2. ASSUME \/ NoReply \/ RegularReply \/ SpontaneousError \/ Unexpected \/ MonitorLine \/ InvalidReply
      PROVE  UNCHANGED <<channels, unconfirmed>>
  BY <1>2 DEF NoReply, RegularReply, SpontaneousError, Unexpected, MonitorLine, InvalidReply, history
<1>3. ASSUME TimeoutTurn \/ FreeTurn \/ FreeEnd PROVE  UNCHANGED <<channels, unconfirmed>>
  BY <1>3 DEF TimeoutTurn, FreeTurn, FreeEnd
<1>4. ASSUME Serve \/ Push \/ Close PROVE UNCHANGED <<channels, unconfirmed>>
  BY <1>4, ServeStep, PushStep, CloseStep DEF client, history
<1>5. CASE UNCHANGED vars
  BY <1>5 DEF vars, client, history
<1> QED
  BY <1>1, <1>2, <1>3, <1>4, <1>5, Steps

\* The callback of a channel is that of a SUBSCRIBE of it.
LEMMA ChannelsStep ==
    ASSUME Types, Queues, OneChannel, ChannelsKnown, [Next]_vars
    PROVE  ChannelsKnown'
<1>0. DOMAIN issued = 1 .. Len(issued) /\ Len(issued) \in Nat /\ channels \in [Channel -> Callbacks]
  BY LenProperties DEF Types, TypeOK
<1>1. ASSUME UNCHANGED issued,
             \A c \in Channel : channels'[c] = Null \/ (channels[c] # Null /\ channels'[c].id = channels[c].id)
      PROVE  ChannelsKnown'
  BY <1>1 DEF ChannelsKnown, Subscribes, Kind
<1>2. ASSUME NEW k \in session.commands, AsyncCommand(k) PROVE ChannelsKnown'
  <2>1. issued' = Append(issued, k)
    BY <1>2 DEF AsyncCommand
  <2>2. /\ DOMAIN issued' = 1 .. Len(issued) + 1
        /\ \A i \in 1 .. Len(issued) : issued'[i] = issued[i]
        /\ issued'[Len(issued) + 1] = k
    BY <2>1, LogGrown
  <2>3. ASSUME NEW c \in Channel, channels'[c] = channels[c], channels'[c] # Null
        PROVE  channels'[c].id \in DOMAIN issued' /\ Subscribes(channels[c].id, c)'
    <3>1. channels[c].id \in 1 .. Len(issued) /\ Subscribes(channels[c].id, c)
      BY <1>0, <2>3 DEF ChannelsKnown
    <3>2. channels'[c].id = channels[c].id /\ issued'[channels[c].id] = issued[channels[c].id]
      BY <2>2, <2>3, <3>1
    <3> QED
      BY <1>0, <2>2, <3>1, <3>2 DEF Subscribes, Kind
  <2>4. CASE k.kind = "subscribe"
    <3> DEFINE d == k.channels[1]
    <3>1. d \in Channel
      BY <2>4, IssuedFacts DEF Regular
    <3>2. channels' = [channels EXCEPT ![d] =
                          [id |-> Len(issued) + 1,
                           pending_subs |-> IF channels[d] = Null THEN 1 ELSE channels[d].pending_subs + 1]]
      BY <1>2, <2>4, CommandChannels
    <3> HIDE DEF d
    <3>3. channels'[d].id = Len(issued) + 1 /\ \A c \in Channel : c # d => channels'[c] = channels[c]
      BY <1>0, <3>1, <3>2
    <3>4. Subscribes(channels[d].id, d)'
      BY <2>2, <2>4, <3>3 DEF Subscribes, Kind, d
    <3> QED
      BY <1>0, <2>2, <2>3, <3>3, <3>4 DEF ChannelsKnown
  <2>5. CASE k.kind # "subscribe"
    BY <1>2, <2>3, <2>5, CommandChannels DEF ChannelsKnown
  <2> QED
    BY <2>4, <2>5
<1>3. ASSUME PubSubReply PROVE ChannelsKnown'
  <2> DEFINE c == Head(reader).channel
  <2>1. c \in Channel /\ PubSub(Head(reader)) /\ UNCHANGED issued
    BY <1>3, PubSubFacts
  <2>2. CASE channels[c] = Null
    BY <1>1, <2>1, <2>2 DEF PubSub, ChannelsKnown, Subscribes, Kind
  <2>3. CASE channels[c] # Null
    <3>1. PICK p : channels' = [channels EXCEPT ![c] = p] /\ (p = Null \/ p.id = channels[c].id)
      BY <2>1, <2>3 DEF PubSub
    <3> HIDE DEF c
    <3>2. \A d \in Channel : channels'[d] = IF d = c THEN p ELSE channels[d]
      BY <1>0, <2>1, <3>1
    <3>3. \A d \in Channel : channels'[d] = Null \/ (channels[d] # Null /\ channels'[d].id = channels[d].id)
      BY <2>3, <3>1, <3>2
    <3> QED
      BY <1>1, <2>1, <3>3
  <2> QED
    BY <2>2, <2>3
<1>4. ASSUME NEW c \in Channel, FreeSubscription(c) PROVE ChannelsKnown'
  <2>1. channels' = [channels EXCEPT ![c] = Null] /\ UNCHANGED issued
    BY <1>4 DEF FreeSubscription
  <2>2. \A d \in Channel : channels'[d] = IF d = c THEN Null ELSE channels[d]
    BY <1>0, <2>1
  <2> QED
    BY <1>1, <2>1, <2>2
<1>5. CASE UNCHANGED <<channels, unconfirmed>> /\ \A k \in session.commands : ~ AsyncCommand(k)
  BY <1>1, <1>5, LogKept
<1> QED
  BY <1>2, <1>3, <1>4, <1>5, ChannelsKept

--------------------------------------------------------------------------------
(* Where the handlers are. *)

\* A user stays as he is.
LEMMA OrderlyKept ==
    ASSUME Types, Queues, OneChannel, [Next]_vars
    PROVE  Orderly' <=> Orderly
BY LogKept DEF Orderly

\* What begins a tear-down: e is the error, and without one nothing is awaited.
LEMMA EndModes ==
    ASSUME Types, Modes, cause = "none",
           NEW e, NEW fl, AsyncDisconnect(e, fl), UNCHANGED <<replies, told>>,
           e = "none" => replies = <<>> /\ "DISCONNECTING" \in fl,
           fl \cap {"FREEING", "SUBSCRIBED", "MONITORING"} = flags \cap {"FREEING", "SUBSCRIBED", "MONITORING"}
    PROVE  /\ Modes' /\ at' = "free" /\ err' = e
           /\ cause' = IF e = "none" THEN "user" ELSE "error"
           /\ \A f \in {"FREEING", "SUBSCRIBED", "MONITORING"} : f \in flags' <=> f \in flags
           /\ cause' = "user" => replies' = <<>>
BY DEF Modes, AsyncDisconnect, Live, InTimeout, InFree, Accepts, Types, TypeOK

\* Where the handlers are: after a call of the user, ...
LEMMA ModesUser ==
    ASSUME Types, Modes,
           Disconnect \/ Free \/ Return \/ \E k \in session.commands : AsyncCommand(k)
    PROVE  Modes'
<1>1. ASSUME NEW k \in session.commands, AsyncCommand(k) PROVE Modes'
  <2>1. /\ at \in {"loop", "callback"} /\ Accepts
        /\ UNCHANGED <<err, reader, at, ret, cause, told>>
    BY <1>1 DEF AsyncCommand, User
  <2> QED
    BY <2>1 DEF Modes, Live, InTimeout, InFree
<1>2. ASSUME Free PROVE Modes'
  BY <1>2 DEF Free, User, Modes, Live, InTimeout, InFree, Accepts, Types, TypeOK
<1>3. ASSUME Return PROVE Modes'
  BY <1>3 DEF Return, Modes, Live, InTimeout, InFree, Accepts, Types, TypeOK
<1>4. ASSUME Disconnect PROVE Modes'
  <2>1. at \in {"loop", "callback"} /\ UNCHANGED <<replies, told, reader, ret>>
    BY <1>4 DEF Disconnect, User
  <2>2. CASE at = "loop" /\ replies = <<>>
    <3>1. AsyncDisconnect(err, flags \union {"DISCONNECTING"})
      BY <1>4, <2>2 DEF Disconnect
    <3>2. cause = "none"
      BY <2>2 DEF Modes, Live
    <3> QED
      BY <2>1, <2>2, <3>1, <3>2, EndModes
  <2>3. CASE ~ (at = "loop" /\ replies = <<>>)
    <3>1. flags' = flags \union {"DISCONNECTING"} /\ UNCHANGED <<err, at, cause>>
      BY <1>4, <2>3 DEF Disconnect
    <3> QED
      BY <2>1, <3>1 DEF Modes, Live, InTimeout, InFree, Accepts
  <2> QED
    BY <2>2, <2>3
<1> QED
  BY <1>1, <1>2, <1>3, <1>4

\* ... when the loop calls a handler, ...
LEMMA ModesLoop ==
    ASSUME Types, Modes,
           \/ ConnectFails \/ ReadEOF \/ WriteFails \/ HandleTimeout
           \/ (\E n \in 0 .. Len(fromServer) : HandleRead(n))
           \/ \E n \in 0 .. Len(obuf) : HandleWrite(n)
    PROVE  Modes'
<1>1. \A fl \in Connected :
        fl \cap {"FREEING", "SUBSCRIBED", "MONITORING"} = flags \cap {"FREEING", "SUBSCRIBED", "MONITORING"}
  BY DEF Connected
<1>2. ASSUME ConnectFails \/ ReadEOF \/ WriteFails PROVE Modes'
  <2>1. at = "loop" /\ UNCHANGED <<replies, told>>
    BY <1>2 DEF ConnectFails, ReadEOF, WriteFails
  <2>2. PICK e \in {"io", "eof"}, fl \in {flags} \union Connected : AsyncDisconnect(e, fl)
    BY <1>2 DEF ConnectFails, ReadEOF, WriteFails
  <2>3. cause = "none"
    BY <2>1 DEF Modes, Live
  <2>4. e # "none" /\
        fl \cap {"FREEING", "SUBSCRIBED", "MONITORING"} = flags \cap {"FREEING", "SUBSCRIBED", "MONITORING"}
    BY <1>1, <2>2
  <2> QED
    BY <2>1, <2>2, <2>3, <2>4, EndModes
<1>3. ASSUME HandleTimeout PROVE Modes'
  BY <1>3 DEF HandleTimeout, history, Modes, Live, InTimeout, InFree, Accepts
<1>4. ASSUME NEW n \in 0 .. Len(fromServer), HandleRead(n) PROVE Modes'
  BY <1>4 DEF HandleRead, history, Modes, Live, InTimeout, InFree, Accepts
<1>5. ASSUME NEW n \in 0 .. Len(obuf), HandleWrite(n) PROVE Modes'
  BY <1>5 DEF HandleWrite, history, Modes, Live, InTimeout, InFree, Accepts
<1> QED
  BY <1>2, <1>3, <1>4, <1>5

\* ... in redisProcessCallbacks, ...
LEMMA ModesProcess ==
    ASSUME Types, Modes,
           NoReply \/ RegularReply \/ SpontaneousError \/ Unexpected \/ MonitorLine \/ PubSubReply \/ InvalidReply
    PROVE  Modes'
<1>1. at = "process" /\ cause = "none" /\ err = "none"
  BY DEF NoReply, RegularReply, SpontaneousError, Unexpected, MonitorLine, PubSubReply, InvalidReply,
      Spontaneous, Modes, Live
<1>2. ASSUME NoReply PROVE Modes'
  <2>1. CASE LastReplyCame
    <3>1. AsyncDisconnect(err, flags) /\ UNCHANGED <<replies, told>> /\ "DISCONNECTING" \in flags /\ replies = <<>>
      BY <1>2, <2>1 DEF NoReply, LastReplyCame
    <3> QED
      BY <1>1, <3>1, EndModes
  <2>2. CASE ~ LastReplyCame
    <3>1. at' = "loop" /\ UNCHANGED <<flags, err, cause, reader, told>> /\ reader = <<>>
      BY <1>2, <2>2 DEF NoReply
    <3> QED
      BY <1>1, <3>1 DEF Modes, Live, InTimeout, InFree, Accepts
  <2> QED
    BY <2>1, <2>2
<1>3. ASSUME SpontaneousError PROVE Modes'
  <2>1. AsyncDisconnect("other", flags) /\ UNCHANGED <<replies, told>>
    BY <1>3 DEF SpontaneousError
  <2> QED
    BY <1>1, <2>1, EndModes
<1>4. ASSUME Unexpected PROVE Modes'
  BY <1>1, <1>4 DEF Unexpected, history, Modes, Live, InTimeout, InFree, Accepts
<1>5. ASSUME RegularReply \/ MonitorLine \/ PubSubReply \/ InvalidReply PROVE Modes'
  <2>1. UNCHANGED <<err, cause, told>>
    BY <1>5 DEF RegularReply, MonitorLine, PubSubReply, InvalidReply
  <2>2. \E reply, callback : Deliver(reply, callback)
    BY <1>5 DEF RegularReply, MonitorLine, PubSubReply, InvalidReply
  <2>3. at' = "process" \/ (at' = "callback" /\ ret' = "process")
    BY <2>2 DEF Deliver, RunCallback
  <2> QED
    BY <1>1, <2>1, <2>3 DEF Modes, Live, InTimeout, InFree
<1> QED
  BY <1>2, <1>3, <1>4, <1>5

\* ... in the timer and the tear-down.
LEMMA ModesEnd ==
    ASSUME Types, Modes, TimeoutTurn \/ FreeTurn \/ FreeEnd \/ \E c \in Channel : FreeSubscription(c)
    PROVE  Modes'
<1>1. ASSUME TimeoutTurn PROVE Modes'
  <2>1. at = "timeout" /\ cause = "none" /\ err # "none" /\ UNCHANGED told
    BY <1>1 DEF TimeoutTurn, Modes, InTimeout
  <2>2. CASE replies # <<>>
    <3>1. RunCallback(Head(replies), "timeout") /\ UNCHANGED <<flags, err, cause, reader>>
      BY <1>1, <2>2 DEF TimeoutTurn
    <3>2. at' = "timeout" \/ (at' = "callback" /\ ret' = "timeout")
      BY <3>1 DEF RunCallback
    <3> QED
      BY <2>1, <3>1, <3>2 DEF Modes, Live, InTimeout, InFree
  <2>3. CASE replies = <<>>
    <3>1. AsyncDisconnect(err, flags) /\ UNCHANGED replies
      BY <1>1, <2>3 DEF TimeoutTurn
    <3> QED
      BY <2>1, <3>1, EndModes
  <2> QED
    BY <2>2, <2>3
<1>2. ASSUME FreeTurn \/ \E c \in Channel : FreeSubscription(c) PROVE Modes'
  <2>1. at = "free" /\ UNCHANGED <<flags, err, cause, reader, told>> /\ \E callback : RunCallback(callback, "free")
    BY <1>2 DEF FreeTurn, FreeSubscription
  <2>2. at' = "free" \/ (at' = "callback" /\ ret' = "free")
    BY <2>1 DEF RunCallback
  <2> QED
    BY <2>1, <2>2 DEF Modes, Live, InTimeout, InFree, Accepts
<1>3. ASSUME FreeEnd PROVE Modes'
  <2>1. /\ at = "free" /\ at' = "freed" /\ replies = <<>>
        /\ told' = IF "CONNECTED" \in flags THEN Status ELSE told
        /\ UNCHANGED <<flags, err, cause, replies>>
    BY <1>3 DEF FreeEnd, FreeTurns
  <2> QED
    BY <2>1 DEF Modes, Live, InTimeout, InFree, Accepts, Status
<1> QED
  BY <1>1, <1>2, <1>3

\* Where the handlers are, and why, under every step.
LEMMA ModesStep ==
    ASSUME Types, Queues, OneChannel, Modes, [Next]_vars
    PROVE  Modes'
<1>1. CASE UNCHANGED vars
  BY <1>1 DEF vars, client, history, Modes, Live, InTimeout, InFree, Accepts, Status
<1>2. CASE Serve \/ Push \/ Close
  <2>1. UNCHANGED <<client, history>>
    BY <1>2, ServeStep, PushStep, CloseStep
  <2> QED
    BY <2>1 DEF client, history, Modes, Live, InTimeout, InFree, Accepts, Status
<1> QED
  BY <1>1, <1>2, ModesUser, ModesLoop, ModesProcess, ModesEnd, Steps

\* A tear-down of a disciplined user's context tells its cause.
LEMMA EndDiscipline ==
    ASSUME Types, Modes, Discipline, Orderly' <=> Orderly, cause = "none", at \in {"loop", "process", "timeout"},
           NEW e, NEW fl, AsyncDisconnect(e, fl), UNCHANGED <<replies, told, invalid, watching>>,
           e = "none" => replies = <<>> /\ "DISCONNECTING" \in fl,
           fl \cap {"FREEING", "SUBSCRIBED", "MONITORING"} = flags \cap {"FREEING", "SUBSCRIBED", "MONITORING"}
    PROVE  Discipline'
<1>1. /\ at' = "free" /\ err' = e
      /\ cause' = IF e = "none" THEN "user" ELSE "error"
      /\ \A f \in {"FREEING", "SUBSCRIBED", "MONITORING"} : f \in flags' <=> f \in flags
      /\ cause' = "user" => replies' = <<>>
  BY EndModes
<1>2. Orderly => "FREEING" \notin flags
  BY DEF Discipline, InTimeout
<1> QED
  BY <1>1, <1>2 DEF Discipline, InTimeout, InFree

\* The discipline under a call of the user, ...
LEMMA DisciplineUser ==
    ASSUME Types, Modes, Discipline, OneChannel, Orderly' <=> Orderly,
           Disconnect \/ Free \/ Return \/ \E k \in session.commands : AsyncCommand(k)
    PROVE  Discipline'
<1>1. ASSUME NEW k \in session.commands, AsyncCommand(k) PROVE Discipline'
  <2>1. /\ at \in {"loop", "callback"} /\ Accepts /\ MayIssue(k)
        /\ UNCHANGED <<err, reader, at, ret, cause, told, watching>>
    BY <1>1 DEF AsyncCommand, User, server
  <2>2. ~ InFree /\ cause = "none"
    BY <2>1 DEF Modes
  <2>3. ASSUME Orderly PROVE UNCHANGED invalid /\ flags' \in {flags, flags \union {"SUBSCRIBED"}}
    <3>1. k.kind # "monitor" /\ session.disciplined
      BY <2>3 DEF Orderly
    <3>2. k.kind \in Regular => "SUBSCRIBED" \notin flags
      BY <2>1, <3>1 DEF MayIssue
    <3>3. k.kind \notin {"subscribe", "unsubscribe"} => k.kind \in Regular
      BY IssuedFacts
    <3>4. CASE k.kind = "subscribe"
      BY <1>1, <3>4 DEF AsyncCommand
    <3>5. CASE k.kind = "unsubscribe"
      BY <1>1, <3>5 DEF AsyncCommand
    <3>6. CASE k.kind \notin {"subscribe", "unsubscribe"}
      BY <1>1, <3>1, <3>2, <3>3, <3>6 DEF AsyncCommand
    <3> QED
      BY <3>4, <3>5, <3>6
  <2> QED
    BY <2>1, <2>2, <2>3 DEF Discipline, InTimeout, InFree
<1>2. ASSUME Free PROVE Discipline'
  <2>1. /\ at \in {"loop", "callback"} /\ MayFree
        /\ flags' = flags \union {"FREEING"}
        /\ at' = (IF at = "loop" THEN "free" ELSE at)
        /\ cause' = (IF at = "loop" THEN "user" ELSE cause)
        /\ UNCHANGED <<err, replies, invalid, ret, watching>>
    BY <1>2 DEF Free, User, server
  <2>2. Orderly => at = "loop" \/ ret = "process"
    BY <2>1 DEF MayFree, Orderly
  <2> QED
    BY <2>1, <2>2 DEF Discipline, InTimeout, InFree
<1>3. ASSUME Return PROVE Discipline'
  <2>1. /\ at = "callback" /\ UNCHANGED <<flags, err, replies, invalid, ret, watching>>
        /\ \/ ret = "process" /\ "FREEING" \in flags /\ at' = "free" /\ cause' = "user"
           \/ ~ (ret = "process" /\ "FREEING" \in flags) /\ at' = ret /\ UNCHANGED cause
    BY <1>3 DEF Return, server
  <2>2. ret # "loop" /\ ret \in {"loop", "process", "timeout", "free"}
    BY <2>1 DEF Modes, Types
  <2> QED
    BY <2>1, <2>2 DEF Discipline, InTimeout, InFree
<1>4. ASSUME Disconnect PROVE Discipline'
  <2>1. at \in {"loop", "callback"} /\ UNCHANGED <<replies, told, reader, ret, invalid, watching>>
    BY <1>4 DEF Disconnect, User, server
  <2>2. CASE at = "loop" /\ replies = <<>>
    <3>1. AsyncDisconnect(err, flags \union {"DISCONNECTING"})
      BY <1>4, <2>2 DEF Disconnect
    <3>2. cause = "none"
      BY <2>2 DEF Modes, Live
    <3> QED
      BY <2>1, <2>2, <3>1, <3>2, EndDiscipline
  <2>3. CASE ~ (at = "loop" /\ replies = <<>>)
    <3>1. flags' = flags \union {"DISCONNECTING"} /\ UNCHANGED <<err, at, cause>>
      BY <1>4, <2>3 DEF Disconnect
    <3> QED
      BY <2>1, <3>1 DEF Discipline, InTimeout, InFree
  <2> QED
    BY <2>2, <2>3
<1> QED
  BY <1>1, <1>2, <1>3, <1>4

\* ... under the handlers the loop calls, ...
LEMMA DisciplineLoop ==
    ASSUME Types, Modes, Discipline, Orderly' <=> Orderly,
           \/ ConnectFails \/ ReadEOF \/ WriteFails \/ HandleTimeout
           \/ (\E n \in 0 .. Len(fromServer) : HandleRead(n))
           \/ \E n \in 0 .. Len(obuf) : HandleWrite(n)
    PROVE  Discipline'
<1>1. \A fl \in Connected :
        fl \cap {"FREEING", "SUBSCRIBED", "MONITORING"} = flags \cap {"FREEING", "SUBSCRIBED", "MONITORING"}
  BY DEF Connected
<1>2. ASSUME ConnectFails \/ ReadEOF \/ WriteFails PROVE Discipline'
  <2>1. at = "loop" /\ UNCHANGED <<replies, told, invalid, watching>>
    BY <1>2 DEF ConnectFails, ReadEOF, WriteFails, server
  <2>2. PICK e \in {"io", "eof"}, fl \in {flags} \union Connected : AsyncDisconnect(e, fl)
    BY <1>2 DEF ConnectFails, ReadEOF, WriteFails
  <2>3. cause = "none"
    BY <2>1 DEF Modes, Live
  <2>4. e # "none" /\
        fl \cap {"FREEING", "SUBSCRIBED", "MONITORING"} = flags \cap {"FREEING", "SUBSCRIBED", "MONITORING"}
    BY <1>1, <2>2
  <2> QED
    BY <2>1, <2>2, <2>3, <2>4, EndDiscipline
<1>3. ASSUME HandleTimeout PROVE Discipline'
  <2>1. /\ at = "loop" /\ at' = "timeout"
        /\ UNCHANGED <<flags, replies, invalid, ret, cause, watching>>
    BY <1>3 DEF HandleTimeout, history, server
  <2> QED
    BY <2>1 DEF Discipline, InTimeout, InFree, Modes, Live
<1>4. ASSUME (\E n \in 0 .. Len(fromServer) : HandleRead(n)) \/ \E n \in 0 .. Len(obuf) : HandleWrite(n)
      PROVE  Discipline'
  <2>1. /\ at = "loop" /\ at' \in {"loop", "process"} /\ flags' \in Connected
        /\ UNCHANGED <<err, replies, invalid, ret, watching, cause>>
    BY <1>4 DEF HandleRead, HandleWrite, history
  <2>2. \A f \in {"FREEING", "SUBSCRIBED", "MONITORING"} : f \in flags' <=> f \in flags
    BY <1>1, <2>1
  <2> QED
    BY <2>1, <2>2 DEF Discipline, InTimeout, InFree, Modes, Live
<1> QED
  BY <1>2, <1>3, <1>4

\* ... in redisProcessCallbacks, ...
LEMMA DisciplineProcess ==
    ASSUME Types, Modes, Discipline, Orderly' <=> Orderly,
           NoReply \/ RegularReply \/ SpontaneousError \/ Unexpected \/ MonitorLine \/ PubSubReply \/ InvalidReply
    PROVE  Discipline'
<1>1. at = "process" /\ cause = "none" /\ err = "none"
  BY DEF NoReply, RegularReply, SpontaneousError, Unexpected, MonitorLine, PubSubReply, InvalidReply,
      Spontaneous, Modes, Live
<1>2. ASSUME NoReply PROVE Discipline'
  <2>1. UNCHANGED <<told, invalid, watching>>
    BY <1>2 DEF NoReply, server
  <2>2. CASE LastReplyCame
    <3>1. AsyncDisconnect(err, flags) /\ UNCHANGED replies /\ "DISCONNECTING" \in flags /\ replies = <<>>
      BY <1>2, <2>2 DEF NoReply, LastReplyCame
    <3> QED
      BY <1>1, <2>1, <3>1, EndDiscipline
  <2>3. CASE ~ LastReplyCame
    <3>1. at' = "loop" /\ UNCHANGED <<flags, err, cause>>
      BY <1>2, <2>3 DEF NoReply
    <3> QED
      BY <1>1, <2>1, <3>1 DEF Discipline, InTimeout, InFree
  <2> QED
    BY <2>2, <2>3
<1>3. ASSUME SpontaneousError PROVE Discipline'
  <2>1. AsyncDisconnect("other", flags) /\ UNCHANGED <<replies, told, invalid, watching>>
    BY <1>3 DEF SpontaneousError, server
  <2> QED
    BY <1>1, <2>1, EndDiscipline
<1>4. ASSUME Unexpected PROVE Discipline'
  BY <1>1, <1>4 DEF Unexpected, history, server, Discipline, InTimeout, InFree
<1>5. ASSUME RegularReply \/ MonitorLine \/ PubSubReply \/ InvalidReply PROVE Discipline'
  <2>1. UNCHANGED <<err, cause, watching>> /\ flags' \in {flags, flags \ {"SUBSCRIBED"}}
    BY <1>5 DEF RegularReply, MonitorLine, PubSubReply, InvalidReply, server
  <2>2. invalid = <<>> => UNCHANGED invalid
    BY <1>5 DEF RegularReply, MonitorLine, PubSubReply, InvalidReply
  <2>3. \E reply, callback : Deliver(reply, callback)
    BY <1>5 DEF RegularReply, MonitorLine, PubSubReply, InvalidReply
  <2>4. at' = "process" \/ (at' = "callback" /\ ret' = "process")
    BY <2>3 DEF Deliver, RunCallback
  <2> QED
    BY <1>1, <2>1, <2>2, <2>4 DEF Discipline, InTimeout, InFree
<1> QED
  BY <1>2, <1>3, <1>4, <1>5

\* ... in the timer and the tear-down.
LEMMA DisciplineEnd ==
    ASSUME Types, Modes, Discipline, Orderly' <=> Orderly,
           TimeoutTurn \/ FreeTurn \/ FreeEnd \/ \E c \in Channel : FreeSubscription(c)
    PROVE  Discipline'
<1>1. ASSUME TimeoutTurn PROVE Discipline'
  <2>1. at = "timeout" /\ cause = "none" /\ err # "none" /\ UNCHANGED <<told, invalid, watching>>
    BY <1>1 DEF TimeoutTurn, Modes, InTimeout, server
  <2>2. CASE replies # <<>>
    <3>1. RunCallback(Head(replies), "timeout") /\ UNCHANGED <<flags, err, cause>>
      BY <1>1, <2>2 DEF TimeoutTurn
    <3>2. at' = "timeout" \/ (at' = "callback" /\ ret' = "timeout")
      BY <3>1 DEF RunCallback
    <3> QED
      BY <2>1, <3>1, <3>2 DEF Discipline, InTimeout, InFree
  <2>3. CASE replies = <<>>
    <3>1. AsyncDisconnect(err, flags) /\ UNCHANGED replies
      BY <1>1, <2>3 DEF TimeoutTurn
    <3> QED
      BY <2>1, <3>1, EndDiscipline
  <2> QED
    BY <2>2, <2>3
<1>2. ASSUME FreeTurn \/ \E c \in Channel : FreeSubscription(c) PROVE Discipline'
  <2>1. at = "free" /\ UNCHANGED <<flags, err, cause, told, watching>> /\ \E callback : RunCallback(callback, "free")
    BY <1>2 DEF FreeTurn, FreeSubscription, server
  <2>2. at' = "free" \/ (at' = "callback" /\ ret' = "free")
    BY <2>1 DEF RunCallback
  <2>3. (invalid = <<>> => UNCHANGED invalid) /\ (replies = <<>> => UNCHANGED replies)
    BY <1>2 DEF FreeTurn, FreeTurns, FreeSubscription
  <2> QED
    BY <2>1, <2>2, <2>3 DEF Discipline, InTimeout, InFree
<1>3. ASSUME FreeEnd PROVE Discipline'
  <2>1. at = "free" /\ at' = "freed" /\ UNCHANGED <<flags, err, cause, replies, invalid, watching>>
    BY <1>3 DEF FreeEnd, server
  <2> QED
    BY <2>1 DEF Discipline, InTimeout, InFree
<1> QED
  BY <1>1, <1>2, <1>3

\* The discipline under every step.
LEMMA DisciplineStep ==
    ASSUME Types, Queues, OneChannel, Modes, Discipline, [Next]_vars
    PROVE  Discipline'
<1>0. Orderly' <=> Orderly
  BY OrderlyKept
<1>1. CASE UNCHANGED vars
  BY <1>0, <1>1 DEF vars, client, history, server, Discipline, InTimeout, InFree
<1>2. CASE Serve \/ Push \/ Close
  <2>1. UNCHANGED <<client, history>>
    BY <1>2, ServeStep, PushStep, CloseStep
  <2>2. Orderly => UNCHANGED watching
    <3>1. CASE Serve
      <4>1. Served + 1 \in 1 .. Len(issued) /\ (Kind(Served + 1) # "monitor" => watching' = watching)
        BY <3>1, ServeStep
      <4>2. issued[Served + 1] \in session.commands
        BY <4>1, IssuedFacts
      <4> QED
        BY <4>1, <4>2 DEF Orderly, Kind
    <3> QED
      BY <1>2, <3>1, PushStep, CloseStep
  <2> QED
    BY <1>0, <2>1, <2>2 DEF client, history, Discipline, InTimeout, InFree
<1> QED
  BY <1>0, <1>1, <1>2, DisciplineUser, DisciplineLoop, DisciplineProcess, DisciplineEnd, Steps

--------------------------------------------------------------------------------
(* pending_subs counts the subscriptions that are not confirmed. *)

\* Finitely many subscriptions are awaited.
LEMMA AwaitedFinite ==
    ASSUME Types, NEW n \in Nat, NEW c
    PROVE  /\ IsFiniteSet(Awaited(n, c)) /\ Cardinality(Awaited(n, c)) \in Nat
           /\ Awaited(n, c) # {} => Cardinality(Awaited(n, c)) >= 1
<1>1. n + 1 \in Int /\ Len(issued) \in Int
  BY LenProperties DEF Types
<1>2. IsFiniteSet(n + 1 .. Len(issued))
  BY <1>1, FS_Interval
<1>3. Awaited(n, c) \in SUBSET (n + 1 .. Len(issued))
  BY DEF Awaited
<1>4. IsFiniteSet(Awaited(n, c))
  BY <1>2, <1>3, FS_Subset
<1>5. Cardinality(Awaited(n, c)) \in Nat
  BY <1>4, FS_CardinalityType
<1>6. Awaited(n, c) # {} => Cardinality(Awaited(n, c)) # 0
  BY <1>4, FS_EmptySet
<1> QED
  BY <1>4, <1>5, <1>6

\* The first reply of the pipe, about a channel.
LEMMA HeadPubSub ==
    ASSUME Types, Queues, NEW n \in Nat, AnswersKnown(n), reader # <<>>,
           Head(reader).type \in {"subscribe", "unsubscribe"}
    PROVE  /\ n + 1 \in 1 .. Served /\ n + 1 \in 1 .. Len(issued)
           /\ Head(reader).to = n + 1 /\ Kind(n + 1) = Head(reader).type
           /\ Head(reader).channel = issued[n + 1].channels[1]
           /\ Next1(n) = n + 1
<1>1. Pipe # <<>> /\ Pipe[1] = Head(reader)
  BY PipeFacts
<1>2. Answer(Pipe[1])
  BY <1>1 DEF Answer
<1>3. Pipe[1].to = n + 1 /\ n + 1 \in 1 .. Served /\ AnswerRight(Pipe[1])
  BY <1>1, <1>2, HeadAnswer
<1>4. Served \in 0 .. Len(issued)
  BY QueueFacts
<1> QED
  BY <1>1, <1>2, <1>3, <1>4 DEF AnswerRight, Next1

\* A confirmation at the head is one that is awaited.
LEMMA AwaitedHead ==
    ASSUME Types, Queues, NEW n \in Nat, AnswersKnown(n), AwaitedCounted(n), reader # <<>>,
           Head(reader).type = "subscribe"
    PROVE  /\ n + 1 \in Awaited(n, Head(reader).channel) /\ Head(reader).channel \in Channel
           /\ unconfirmed[Head(reader).channel] >= 1
           /\ Cardinality(Awaited(n, Head(reader).channel) \ {n + 1}) <= unconfirmed[Head(reader).channel] - 1
<1> DEFINE c == Head(reader).channel
<1>1. c \in Channel
  BY ReplyFacts
<1>2. n + 1 \in Awaited(n, c)
  <2>1. n + 1 \in 1 .. Len(issued) /\ Kind(n + 1) = "subscribe" /\ c = issued[n + 1].channels[1]
    BY HeadPubSub
  <2> QED
    BY <2>1 DEF Awaited, Subscribes
<1> HIDE DEF c
<1>3. Cardinality(Awaited(n, c)) >= 1 /\ IsFiniteSet(Awaited(n, c)) /\ Cardinality(Awaited(n, c)) \in Nat
  BY <1>2, AwaitedFinite
<1>4. Cardinality(Awaited(n, c)) <= unconfirmed[c] /\ unconfirmed[c] \in Int
  BY <1>1 DEF AwaitedCounted, Types
<1>5. Cardinality(Awaited(n, c) \ {n + 1}) = Cardinality(Awaited(n, c)) - 1
  BY <1>2, <1>3, FS_RemoveElement
<1>6. unconfirmed[c] >= 1 /\ Cardinality(Awaited(n, c) \ {n + 1}) <= unconfirmed[c] - 1
  BY <1>3, <1>4, <1>5
<1> QED
  BY <1>1, <1>2, <1>6 DEF c

\* A tear-down that has begun is not undone.
LEMMA CauseStays ==
    ASSUME Types, Queues, OneChannel, [Next]_vars, cause' = "none"
    PROVE  cause = "none"
<1>1. CASE UNCHANGED vars
  BY <1>1 DEF vars, history
<1>2. CASE \/ Disconnect \/ Free \/ Return \/ (\E k \in session.commands : AsyncCommand(k))
           \/ ConnectFails \/ ReadEOF \/ WriteFails \/ HandleTimeout
           \/ (\E n \in 0 .. Len(fromServer) : HandleRead(n))
           \/ \E n \in 0 .. Len(obuf) : HandleWrite(n)
  BY <1>2 DEF Disconnect, Free, Return, AsyncCommand, ConnectFails, ReadEOF, WriteFails, HandleTimeout,
      HandleRead, HandleWrite, AsyncDisconnect, history
<1>3. CASE \/ NoReply \/ RegularReply \/ SpontaneousError \/ Unexpected \/ MonitorLine
           \/ PubSubReply \/ InvalidReply
  BY <1>3 DEF NoReply, RegularReply, SpontaneousError, Unexpected, MonitorLine, PubSubReply, InvalidReply,
      AsyncDisconnect, history
<1>4. CASE \/ TimeoutTurn \/ FreeTurn \/ FreeEnd \/ \E c \in Channel : FreeSubscription(c)
  BY <1>4 DEF TimeoutTurn, FreeTurn, FreeEnd, FreeSubscription, AsyncDisconnect
<1>5. CASE Serve \/ Push \/ Close
  BY <1>5, ServeStep, PushStep, CloseStep DEF history
<1> QED
  BY <1>1, <1>2, <1>3, <1>4, <1>5, Steps

\* The count of a channel under a command, ...
LEMMA CountedCommand ==
    ASSUME Types, OneChannel, Counted, Modes, NEW k \in session.commands, AsyncCommand(k)
    PROVE  Counted'
<1> SUFFICES ASSUME cause' = "none"
             PROVE  \A c \in Channel : unconfirmed'[c] = IF channels'[c] = Null THEN 0 ELSE channels'[c].pending_subs
  BY DEF Counted
<1>0. cause = "none"
  BY DEF AsyncCommand
<1>1. channels \in [Channel -> Callbacks] /\ unconfirmed \in [Channel -> Int] /\ Len(issued) \in Nat
  BY LenProperties DEF Types, TypeOK
<1>2. CASE k.kind = "subscribe"
  <2> DEFINE d == k.channels[1]
             new == [id |-> Len(issued) + 1,
                     pending_subs |-> IF channels[d] = Null THEN 1 ELSE channels[d].pending_subs + 1]
  <2>1. d \in Channel
    BY <1>2, IssuedFacts DEF Regular
  <2>2. channels' = [channels EXCEPT ![d] = new] /\ unconfirmed' = [unconfirmed EXCEPT ![d] = @ + 1]
    BY <1>2, CommandChannels
  <2>3. new # Null /\ new.pending_subs = IF channels[d] = Null THEN 1 ELSE channels[d].pending_subs + 1
    BY <1>1 DEF Null
  <2>4. unconfirmed[d] = IF channels[d] = Null THEN 0 ELSE channels[d].pending_subs
    BY <1>0, <2>1 DEF Counted
  <2> HIDE DEF d, new
  <2>5. unconfirmed'[d] = unconfirmed[d] + 1 /\ channels'[d] = new
    BY <1>1, <2>1, <2>2
  <2>6. \A c \in Channel : c # d => unconfirmed'[c] = unconfirmed[c] /\ channels'[c] = channels[c]
    BY <1>1, <2>1, <2>2
  <2>7. unconfirmed'[d] = channels'[d].pending_subs /\ channels'[d] # Null
    BY <1>1, <2>1, <2>3, <2>4, <2>5
  <2> QED
    BY <1>0, <2>6, <2>7 DEF Counted
<1>3. CASE k.kind # "subscribe"
  BY <1>0, <1>3, CommandChannels DEF Counted
<1> QED
  BY <1>2, <1>3

\* ... under a reply about the channel, ...
LEMMA CountedPubSub ==
    ASSUME Types, Queues, ChannelsKnown, Counted, Modes, NEW n \in Nat, AnswersKnown(n), AwaitedCounted(n),
           PubSubReply
    PROVE  Counted'
<1> DEFINE reply == Head(reader)
           c == reply.channel
<1>1. /\ at = "process" /\ c \in Channel /\ reader # <<>>
      /\ reply.type \in {"subscribe", "unsubscribe", "message"} /\ PubSub(reply)
  BY PubSubFacts
<1>2. cause = "none"
  BY <1>1 DEF Modes, Live
<1>3. channels \in [Channel -> Callbacks] /\ unconfirmed \in [Channel -> Int] /\ DOMAIN issued = 1 .. Len(issued)
  BY LenProperties DEF Types, TypeOK
<1>4. unconfirmed[c] = IF channels[c] = Null THEN 0 ELSE channels[c].pending_subs
  BY <1>1, <1>2 DEF Counted
<1>5. reply.type = "subscribe" => unconfirmed[c] >= 1
  BY <1>1, AwaitedHead
<1>6. CASE channels[c] = Null
  <2>1. reply.type # "subscribe"
    BY <1>4, <1>5, <1>6
  <2>2. UNCHANGED <<channels, unconfirmed>>
    BY <1>1, <1>6, <2>1 DEF PubSub
  <2> QED
    BY <1>2, <2>2 DEF Counted
<1>7. CASE channels[c] # Null
  <2> DEFINE pending == IF reply.type = "subscribe" THEN channels[c].pending_subs - 1 ELSE channels[c].pending_subs
             entry == [id |-> channels[c].id, pending_subs |-> pending]
             new == IF reply.type = "unsubscribe" /\ pending = 0 THEN Null ELSE entry
  <2>1. channels' = [channels EXCEPT ![c] = new]
        /\ (reply.type = "subscribe" => unconfirmed' = [unconfirmed EXCEPT ![c] = @ - 1])
        /\ (reply.type # "subscribe" => UNCHANGED unconfirmed)
    BY <1>1, <1>7 DEF PubSub
  <2>2. channels[c].id # 0
    BY <1>1, <1>3, <1>7 DEF ChannelsKnown
  <2>3. entry # Null /\ entry.pending_subs = pending
    BY <2>2 DEF Null
  <2> HIDE DEF c, entry, new
  <2>4. channels'[c] = new /\ \A d \in Channel : d # c => channels'[d] = channels[d]
    BY <1>1, <1>3, <2>1
  <2>5. unconfirmed'[c] = pending /\ \A d \in Channel : d # c => unconfirmed'[d] = unconfirmed[d]
    BY <1>1, <1>3, <1>4, <1>7, <2>1
  <2>6. unconfirmed'[c] = IF channels'[c] = Null THEN 0 ELSE channels'[c].pending_subs
    BY <2>3, <2>4, <2>5 DEF new
  <2> QED
    BY <1>2, <2>4, <2>5, <2>6 DEF Counted
<1> QED
  BY <1>6, <1>7

\* ... and under every step.
LEMMA CountedStep ==
    ASSUME Types, Queues, OneChannel, ChannelsKnown, Counted, Modes,
           NEW n \in Nat, AnswersKnown(n), AwaitedCounted(n), [Next]_vars
    PROVE  Counted'
<1>1. CASE UNCHANGED <<channels, unconfirmed>>
  BY <1>1, CauseStays DEF Counted
<1>2. ASSUME NEW c \in Channel, FreeSubscription(c) PROVE Counted'
  BY <1>2 DEF FreeSubscription, Counted, Modes, InFree
<1> QED
  BY <1>1, <1>2, ChannelsKept, CountedCommand, CountedPubSub

\* The client is in subscribed mode as long as it has a subscription.
LEMMA ModeKeptStep ==
    ASSUME Types, Queues, OneChannel, Modes, ModeKept, [Next]_vars
    PROVE  ModeKept'
<1> SUFFICES ASSUME session.disciplined, cause' = "none", NEW c \in Channel, channels'[c] # Null
             PROVE  "SUBSCRIBED" \in flags'
  BY LogKept DEF ModeKept
<1>0. cause = "none"
  BY CauseStays
<1>1. ASSUME NEW k \in session.commands, AsyncCommand(k) PROVE "SUBSCRIBED" \in flags'
  <2>1. CASE k.kind = "subscribe"
    BY <1>1, <2>1 DEF AsyncCommand
  <2>2. CASE k.kind # "subscribe"
    <3>1. UNCHANGED channels /\ (flags' = flags \/ flags' = flags \union {"MONITORING"})
      BY <1>1, <2>2, CommandChannels DEF AsyncCommand
    <3> QED
      BY <1>0, <3>1 DEF ModeKept
  <2> QED
    BY <2>1, <2>2
<1>2. ASSUME PubSubReply PROVE "SUBSCRIBED" \in flags'
  <2>1. "SUBSCRIBED" \in flags /\ PubSub(Head(reader))
    BY <1>2, PubSubFacts
  <2>2. \/ flags' = flags
        \/ flags' = IF IsOver(Head(reader), channels') THEN flags \ {"SUBSCRIBED"} ELSE flags
    BY <2>1 DEF PubSub
  <2> QED
    BY <2>1, <2>2 DEF IsOver
<1>3. ASSUME NEW d \in Channel, FreeSubscription(d) PROVE FALSE
  BY <1>0, <1>3 DEF FreeSubscription, Modes, InFree
<1>4. ASSUME UNCHANGED <<channels, unconfirmed>>, ~ PubSubReply, \A k \in session.commands : ~ AsyncCommand(k),
             \A d \in Channel : ~ FreeSubscription(d)
      PROVE  "SUBSCRIBED" \in flags'
  <2>1. "SUBSCRIBED" \in flags
    BY <1>0, <1>4 DEF ModeKept
  <2>2. CASE UNCHANGED vars
    BY <2>1, <2>2 DEF vars, client
  <2>3. ASSUME \/ Disconnect \/ Free \/ Return
               \/ ConnectFails \/ ReadEOF \/ WriteFails \/ HandleTimeout
               \/ (\E m \in 0 .. Len(fromServer) : HandleRead(m))
               \/ \E m \in 0 .. Len(obuf) : HandleWrite(m)
        PROVE  "SUBSCRIBED" \in flags'
    BY <2>1, <2>3 DEF Disconnect, Free, Return, ConnectFails, ReadEOF, WriteFails, HandleTimeout, HandleRead,
        HandleWrite, AsyncDisconnect, Connected
  <2>4. ASSUME \/ NoReply \/ RegularReply \/ SpontaneousError \/ Unexpected \/ MonitorLine \/ InvalidReply
               \/ TimeoutTurn \/ FreeTurn \/ FreeEnd
        PROVE  "SUBSCRIBED" \in flags'
    BY <2>1, <2>4 DEF NoReply, RegularReply, SpontaneousError, Unexpected, MonitorLine, InvalidReply,
        TimeoutTurn, FreeTurn, FreeEnd, AsyncDisconnect
  <2>5. ASSUME Serve \/ Push \/ Close PROVE "SUBSCRIBED" \in flags'
    BY <2>1, <2>5, ServeStep, PushStep, CloseStep DEF client
  <2> QED
    BY <1>4, <2>2, <2>3, <2>4, <2>5, Steps
<1> QED
  BY <1>1, <1>2, <1>3, <1>4, ChannelsKept

\* No subscription is awaited that was not before.
LEMMA AwaitedLess ==
    ASSUME Types, NEW n \in Nat, NEW m \in Nat, n <= m, UNCHANGED issued, NEW c
    PROVE  /\ Awaited(m, c)' = Awaited(m, c) /\ Awaited(m, c) \subseteq Awaited(n, c)
           /\ Cardinality(Awaited(m, c)') <= Cardinality(Awaited(n, c))
<1>1. Awaited(m, c)' = Awaited(m, c)
  BY DEF Awaited, Subscribes, Kind
<1>2. Len(issued) \in Nat
  BY LenProperties DEF Types
<1>3. Awaited(m, c) \subseteq Awaited(n, c)
  BY <1>2 DEF Awaited
<1>4. Cardinality(Awaited(m, c)) <= Cardinality(Awaited(n, c))
  BY <1>3, AwaitedFinite, FS_Subset
<1> QED
  BY <1>1, <1>3, <1>4

\* The awaited subscriptions stay counted when nothing is confirmed, ...
LEMMA AwaitedKept ==
    ASSUME Types, NEW n \in Nat, NEW m \in Nat, n <= m, UNCHANGED <<issued, unconfirmed>>, AwaitedCounted(n)
    PROVE  AwaitedCounted(m)'
<1> SUFFICES ASSUME NEW c \in Channel PROVE Cardinality(Awaited(m, c)') <= unconfirmed[c]
  BY DEF AwaitedCounted
<1>1. Cardinality(Awaited(m, c)') <= Cardinality(Awaited(n, c))
  BY AwaitedLess
<1>2. Cardinality(Awaited(n, c)) <= unconfirmed[c] /\ unconfirmed[c] \in Int /\ Cardinality(Awaited(n, c)) \in Nat
  BY AwaitedFinite DEF AwaitedCounted, Types
<1>3. Awaited(m, c)' = Awaited(m, c) /\ Cardinality(Awaited(m, c)) \in Nat
  BY AwaitedLess, AwaitedFinite
<1> QED
  BY <1>1, <1>2, <1>3

\* ... when one is confirmed, ...
LEMMA AwaitedConfirmed ==
    ASSUME Types, Queues, NEW n \in Nat, AnswersKnown(n), AwaitedCounted(n), PubSubReply,
           NEW m \in Nat, m = Next1(n)
    PROVE  AwaitedCounted(m)'
<1>1. reader # <<>> /\ PubSub(Head(reader)) /\ UNCHANGED issued
  BY PubSubFacts
<1>2. n <= m
  BY DEF Next1
<1>3. CASE Head(reader).type # "subscribe"
  BY <1>1, <1>2, <1>3, AwaitedKept DEF PubSub
<1>4. CASE Head(reader).type = "subscribe"
  <2>0. PICK c \in Channel : c = Head(reader).channel
    BY <1>1, PubSubFacts
  <2>1. /\ c \in Channel /\ n + 1 \in Awaited(n, c)
        /\ Cardinality(Awaited(n, c) \ {n + 1}) <= unconfirmed[c] - 1
        /\ unconfirmed' = [unconfirmed EXCEPT ![c] = @ - 1]
    BY <1>1, <1>4, <2>0, AwaitedHead DEF PubSub
  <2>2. m = n + 1
    BY <1>1, <1>4, HeadPubSub
  <2>3. unconfirmed \in [Channel -> Int]
    BY DEF Types
  <2>4. unconfirmed'[c] = unconfirmed[c] - 1 /\ \A d \in Channel : d # c => unconfirmed'[d] = unconfirmed[d]
    BY <2>1, <2>3
  <2>5. Awaited(m, c) = Awaited(n, c) \ {n + 1}
    <3>1. Len(issued) \in Nat
      BY LenProperties DEF Types
    <3> QED
      BY <2>2, <3>1 DEF Awaited
  <2>6. Cardinality(Awaited(m, c)') <= unconfirmed'[c]
    <3>1. Awaited(m, c)' = Awaited(n, c) \ {n + 1}
      BY <1>1, <1>2, <2>5, AwaitedLess
    <3>2. Cardinality(Awaited(m, c)') <= unconfirmed[c] - 1
      BY <2>1, <3>1, Zenon
    <3> QED
      BY <2>4, <3>2, Zenon
  <2>7. ASSUME NEW d \in Channel, d # c PROVE Cardinality(Awaited(m, d)') <= unconfirmed'[d]
    <3>1. Cardinality(Awaited(m, d)') <= Cardinality(Awaited(n, d))
      BY <1>1, <1>2, AwaitedLess
    <3>2. Cardinality(Awaited(n, d)) <= unconfirmed[d] /\ unconfirmed[d] \in Int /\ Cardinality(Awaited(n, d)) \in Nat
      BY <2>3, AwaitedFinite DEF AwaitedCounted
    <3>3. Awaited(m, d)' = Awaited(m, d) /\ Cardinality(Awaited(m, d)) \in Nat
      BY <1>1, <1>2, AwaitedLess, AwaitedFinite
    <3> QED
      BY <2>4, <2>7, <3>1, <3>2, <3>3
  <2>8. ASSUME NEW d \in Channel PROVE Cardinality(Awaited(m, d)') <= unconfirmed'[d]
    BY <2>6, <2>7, Zenon
  <2> QED
    BY <2>8 DEF AwaitedCounted
<1> QED
  BY <1>3, <1>4

\* ... and when a command is issued.
LEMMA AwaitedCommand ==
    ASSUME Types, Types', Queues, OneChannel, NEW n \in Nat, AnswersKnown(n), AwaitedCounted(n),
           NEW k \in session.commands, AsyncCommand(k)
    PROVE  AwaitedCounted(n)'
<1>1. issued' = Append(issued, k)
  BY DEF AsyncCommand
<1>2. /\ Len(issued) \in Nat /\ Len(issued') = Len(issued) + 1
      /\ \A i \in 1 .. Len(issued) : issued'[i] = issued[i]
      /\ issued'[Len(issued) + 1] = k
  BY <1>1, LogGrown
<1>3. n \in 0 .. Len(issued)
  BY QueueFacts DEF AnswersKnown
<1>4. unconfirmed \in [Channel -> Int]
  BY DEF Types
<1> SUFFICES ASSUME NEW c \in Channel PROVE Cardinality(Awaited(n, c)') <= unconfirmed'[c]
  BY DEF AwaitedCounted
<1>5. /\ Cardinality(Awaited(n, c)) <= unconfirmed[c] /\ unconfirmed[c] \in Int
      /\ Cardinality(Awaited(n, c)) \in Nat /\ IsFiniteSet(Awaited(n, c))
  BY <1>4, AwaitedFinite DEF AwaitedCounted
<1>6. CASE k.kind = "subscribe" /\ c = k.channels[1]
  <2>1. Awaited(n, c)' = Awaited(n, c) \union {Len(issued) + 1}
    BY <1>2, <1>3, <1>6 DEF Awaited, Subscribes, Kind
  <2>2. Cardinality(Awaited(n, c)') <= Cardinality(Awaited(n, c)) + 1
    <3>1. Cardinality(Awaited(n, c) \union {Len(issued) + 1}) =
            IF Len(issued) + 1 \in Awaited(n, c) THEN Cardinality(Awaited(n, c)) ELSE Cardinality(Awaited(n, c)) + 1
      BY <1>5, FS_AddElement
    <3> QED
      BY <1>5, <2>1, <3>1
  <2>3. unconfirmed'[c] = unconfirmed[c] + 1
    BY <1>4, <1>6, CommandChannels
  <2>4. Cardinality(Awaited(n, c) \union {Len(issued) + 1}) \in Nat
    BY <1>5, FS_AddElement, FS_CardinalityType
  <2> QED
    BY <1>5, <2>1, <2>2, <2>3, <2>4
<1>7. CASE ~ (k.kind = "subscribe" /\ c = k.channels[1])
  <2>1. Awaited(n, c)' = Awaited(n, c)
    BY <1>2, <1>3, <1>7 DEF Awaited, Subscribes, Kind
  <2>2. unconfirmed'[c] = unconfirmed[c]
    BY <1>4, <1>7, CommandChannels
  <2> QED
    BY <1>5, <2>1, <2>2
<1> QED
  BY <1>6, <1>7

--------------------------------------------------------------------------------
(* What is known of the pipe, step by step: the number of the commands that are
   answered and processed grows with the answers that are taken off. *)

\* The steps that take a reply off the pipe, and those that do not touch it.
Pops == RegularReply \/ SpontaneousError \/ MonitorLine \/ PubSubReply \/ InvalidReply

\* What all of them do.
LEMMA PopFacts ==
    ASSUME Types, Queues, Pops
    PROVE  /\ reader # <<>> /\ Pipe # <<>> /\ Pipe[1] = Head(reader) /\ at = "process"
           /\ Pipe' = Tail(Pipe) /\ UNCHANGED <<issued, subs, closed>> /\ Served' = Served
<1>1. reader # <<>> /\ at = "process" /\ reader' = Tail(reader) /\ UNCHANGED <<issued, server, obuf>>
  BY DEF Pops, RegularReply, SpontaneousError, MonitorLine, PubSubReply, InvalidReply, Deliver, Spontaneous
<1>2. UNCHANGED <<fromServer, toServer, subs, closed>>
  BY <1>1 DEF server
<1>3. Pipe' = Tail(Pipe)
  BY <1>1, <1>2, PipePopped
<1>4. Served' = Served
  BY <1>1, <1>2 DEF Served
<1> QED
  BY <1>1, <1>2, <1>3, <1>4, PipeFacts

\* What the others leave alone.
LEMMA PipeKept ==
    ASSUME Types, Queues, [Next]_vars, ~ Pops, ~ Serve, ~ Push, ~ Close,
           \A k \in session.commands : ~ AsyncCommand(k)
    PROVE  Pipe' = Pipe /\ Served' = Served /\ UNCHANGED <<issued, unconfirmed, subs, closed>>
<1>1. ASSUME UNCHANGED <<reader, server, issued, obuf, unconfirmed>>
      PROVE  Pipe' = Pipe /\ Served' = Served /\ UNCHANGED <<issued, unconfirmed, subs, closed>>
  BY <1>1 DEF server, Pipe, Served
<1>2. CASE UNCHANGED vars
  BY <1>1, <1>2 DEF vars, client, history
<1>3. ASSUME NEW n \in 0 .. Len(fromServer), HandleRead(n)
      PROVE  Pipe' = Pipe /\ Served' = Served /\ UNCHANGED <<issued, unconfirmed, subs, closed>>
  <2>1. UNCHANGED <<obuf, toServer, issued, unconfirmed, subs, closed>>
    BY <1>3 DEF HandleRead, history
  <2>2. Pipe' = Pipe
    BY <1>3, PipeRead DEF HandleRead
  <2> QED
    BY <2>1, <2>2 DEF Served
<1>4. ASSUME NEW n \in 0 .. Len(obuf), HandleWrite(n)
      PROVE  Pipe' = Pipe /\ Served' = Served /\ UNCHANGED <<issued, unconfirmed, subs, closed>>
  <2>1. UNCHANGED <<reader, fromServer, issued, unconfirmed, subs, closed>>
    BY <1>4 DEF HandleWrite, history
  <2>2. Pipe' = Pipe
    BY <2>1 DEF Pipe
  <2> QED
    BY <1>4, <2>1, <2>2, QueuesWrite
<1>5. ASSUME \/ Disconnect \/ Free \/ Return \/ ConnectFails \/ ReadEOF \/ WriteFails \/ NoReply
      PROVE  UNCHANGED <<reader, server, issued, obuf, unconfirmed>>
  BY <1>5 DEF Disconnect, Free, Return, ConnectFails, ReadEOF, WriteFails, NoReply
<1>6. ASSUME HandleTimeout \/ Unexpected
      PROVE  UNCHANGED <<reader, server, issued, obuf, unconfirmed>>
  BY <1>6 DEF HandleTimeout, Unexpected, history
<1>7. ASSUME \/ TimeoutTurn \/ FreeTurn \/ FreeEnd \/ \E c \in Channel : FreeSubscription(c)
      PROVE  UNCHANGED <<reader, server, issued, obuf, unconfirmed>>
  BY <1>7 DEF TimeoutTurn, FreeTurn, FreeEnd, FreeSubscription
<1> QED
  BY <1>1, <1>2, <1>3, <1>4, <1>5, <1>6, <1>7, Steps DEF Pops

Known(n) == AnswersKnown(n) /\ MessagesKnown(n) /\ AwaitedCounted(n)

\* What is known of the pipe after a reply is taken off.
LEMMA KnownPopped ==
    ASSUME Types, Queues, NEW n \in Nat, Known(n), Pops, NEW m \in Nat, m = Next1(n)
    PROVE  Known(m)'
<1>1. /\ Pipe # <<>> /\ Pipe' = Tail(Pipe) /\ UNCHANGED issued /\ Served' = Served
  BY PopFacts
<1>2. AnswersKnown(m)' /\ MessagesKnown(m)'
  BY <1>1, AnswersPopped, MessagesPopped DEF Known
<1>3. AwaitedCounted(m)'
  <2>1. CASE PubSubReply
    BY <2>1, AwaitedConfirmed DEF Known
  <2>2. CASE ~ PubSubReply
    <3>1. UNCHANGED unconfirmed
      BY <2>2 DEF Pops, RegularReply, SpontaneousError, MonitorLine, InvalidReply
    <3>2. n <= m
      BY DEF Next1
    <3> QED
      BY <1>1, <3>1, <3>2, AwaitedKept DEF Known
  <2> QED
    BY <2>1, <2>2
<1> QED
  BY <1>2, <1>3 DEF Known

\* The answer of the server is what the pipe expects.
LEMMA ServeAnswers ==
    ASSUME Types, Queues, OneChannel, Serve
    PROVE  /\ UNCHANGED <<issued, unconfirmed, closed>> /\ Served' = Served + 1
           /\ Served + 1 \in 1 .. Len(issued)
           /\ \E r \in Replies :
                /\ Answer(r) /\ r.type # "message" /\ r.type # "line" /\ r.to = Served + 1
                /\ r.type = "error" => Kind(Served + 1) \in Regular /\ subs # {}
                /\ Pipe' = Append(Pipe, r) /\ AnswerRight(r)'
<1> DEFINE id == Served + 1
<1>0. PICK r \in Replies : r = Answers(id)
  BY ServeStep
<1>1. id \in 1 .. Len(issued) /\ toServer # <<>> /\ toServer' = Tail(toServer)
      /\ fromServer' = Append(fromServer, r)
      /\ UNCHANGED <<client, session, closed, pushes, history>>
  BY <1>0, ServeStep
<1>2. UNCHANGED <<reader, obuf, issued, unconfirmed, closed>>
  BY <1>1 DEF client, history
<1>3. Pipe' = Append(Pipe, r)
  BY <1>1, <1>2, PipeGrown
<1>4. Served' = id /\ Served \in Nat
  BY <1>1, <1>2, QueuesServe DEF Queues
<1>5. issued[id] \in session.commands
  BY <1>1, IssuedFacts
<1>6. /\ r.to = id /\ r.type \in {"subscribe", "unsubscribe", "reply", "error"}
      /\ r.type \in {"subscribe", "unsubscribe"} =>
           issued[id].kind = r.type /\ r.channel = issued[id].channels[1]
      /\ r.type \in {"reply", "error"} => issued[id].kind \in Regular
      /\ r.type = "error" => subs # {}
  <2>1. CASE issued[id].kind \in {"subscribe", "unsubscribe"}
    BY <1>0, <2>1 DEF Answers, Reply
  <2>2. CASE issued[id].kind \notin {"subscribe", "unsubscribe"}
    <3>1. issued[id].kind \in Regular
      BY <1>5, <2>2, IssuedFacts
    <3> QED
      BY <1>0, <2>2, <3>1 DEF Answers, Reply
  <2> QED
    BY <2>1, <2>2
<1>7. Answer(r)
  BY <1>4, <1>6 DEF Answer
<1>9. AnswerRight(r)'
  BY <1>2, <1>4, <1>6 DEF AnswerRight, Kind
<1>10. r.type = "error" => Kind(id) \in Regular /\ subs # {}
  BY <1>6 DEF Kind
<1>11. r.type # "message" /\ r.type # "line"
  BY <1>6
<1> QED
  BY <1>1, <1>2, <1>3, <1>4, <1>6, <1>7, <1>9, <1>10, <1>11

\* What the server sends is what is expected of it.
LEMMA ServerKnows ==
    ASSUME Types, Queues, OneChannel, ServerKnown, NEW n \in Nat, Known(n), Serve \/ Push \/ Close
    PROVE  Known(n)'
<1>1. UNCHANGED <<issued, unconfirmed>>
  BY ServeStep, PushStep, CloseStep DEF client, history
<1>2. AwaitedCounted(n)'
  BY <1>1, AwaitedKept DEF Known
<1>3. CASE Serve
  <2>1. PICK r \in Replies : /\ Answer(r) /\ r.type # "message" /\ r.to = Served + 1
                             /\ Pipe' = Append(Pipe, r) /\ AnswerRight(r)'
    BY <1>3, ServeAnswers
  <2>2. Served' = Served + 1
    BY <1>3, ServeAnswers
  <2>3. AnswersKnown(n)'
    BY <1>1, <2>1, <2>2, AnswersAppended DEF Known
  <2>4. MessagesKnown(n)'
    BY <1>1, <2>1, <2>2, MessagesAppended DEF Known
  <2> QED
    BY <1>2, <2>3, <2>4 DEF Known
<1>4. ASSUME NEW r \in Replies, fromServer' = Append(fromServer, r), UNCHANGED <<reader, toServer, obuf>>,
             ~ Answer(r), r.type = "message" => r.channel \in subs
      PROVE  Known(n)'
  <2>1. Pipe' = Append(Pipe, r) /\ Served' = Served
    BY <1>1, <1>4, PipeGrown DEF Served
  <2>2. AnswersKnown(n)'
    BY <1>1, <1>4, <2>1, AnswersAppended DEF Known
  <2>3. MessagesKnown(n)'
    BY <1>1, <1>4, <2>1, MessagesAppended DEF Known
  <2> QED
    BY <1>2, <2>2, <2>3 DEF Known
<1>5. CASE Push
  <2>1. UNCHANGED <<reader, toServer, obuf>>
    BY <1>5 DEF Push, client
  <2>2. PICK r \in Replies : /\ fromServer' = Append(fromServer, r)
                             /\ (r.type = "message" /\ r.channel \in subs) \/ r.type = "line"
    BY <1>5, PushStep
  <2> QED
    BY <1>4, <2>1, <2>2 DEF Answer
<1>6. CASE Close
  <2>1. UNCHANGED <<reader, toServer, obuf>>
    BY <1>6 DEF Close, client
  <2>2. CASE UNCHANGED fromServer
    <3>1. Pipe' = Pipe /\ Served' = Served /\ UNCHANGED issued
      BY <1>1, <2>1, <2>2 DEF Pipe, Served
    <3>2. AnswersKnown(n)' /\ MessagesKnown(n)'
      BY <3>1 DEF Known, AnswersKnown, MessagesKnown, AnswerRight, MessageRight, Done, Kind, Subscribes, Unsubscribes
    <3> QED
      BY <1>2, <3>2 DEF Known
  <2>3. CASE fromServer' # fromServer
    <3>1. PICK r \in Replies : fromServer' = Append(fromServer, r) /\ r.type = "error" /\ r.to = 0
      BY <1>6, <2>3, CloseStep
    <3> QED
      BY <1>4, <2>1, <3>1 DEF Answer
  <2> QED
    BY <2>2, <2>3
<1> QED
  BY <1>3, <1>5, <1>6

\* What is known of the pipe after a command, ...
LEMMA CommandKnows ==
    ASSUME Types, Types', Queues, OneChannel, NEW n \in Nat, Known(n),
           NEW k \in session.commands, AsyncCommand(k)
    PROVE  Known(n)' /\ Pipe' = Pipe /\ Served' = Served /\ UNCHANGED <<subs, closed>>
<1>1. /\ issued' = Append(issued, k) /\ obuf' = Append(obuf, Len(issued) + 1)
      /\ UNCHANGED <<reader, fromServer, toServer, subs, closed>>
  BY DEF AsyncCommand, server
<1>2. Pipe' = Pipe
  BY <1>1 DEF Pipe
<1>3. Served' = Served
  <2>1. Len(obuf') = Len(obuf) + 1 /\ Len(obuf) \in Nat /\ Len(toServer) \in Nat
    BY <1>1, AppendProperties, LenProperties DEF Types
  <2>2. Len(issued') = Len(issued) + 1 /\ Len(issued) \in Nat
    BY <1>1, LogGrown
  <2> QED
    BY <1>1, <2>1, <2>2 DEF Served
<1>4. AnswersKnown(n)' /\ MessagesKnown(n)'
  BY <1>1, <1>2, <1>3, AnswersIssued DEF Known
<1>5. AwaitedCounted(n)'
  BY AwaitedCommand DEF Known
<1> QED
  BY <1>1, <1>2, <1>3, <1>4, <1>5 DEF Known

\* ... after a step that does not touch it, ...
LEMMA KnownKept ==
    ASSUME Types, Queues, [Next]_vars, ~ Pops, ~ Serve, ~ Push, ~ Close,
           \A k \in session.commands : ~ AsyncCommand(k), NEW n \in Nat, Known(n)
    PROVE  Known(n)'
<1>1. Pipe' = Pipe /\ Served' = Served /\ UNCHANGED <<issued, unconfirmed>>
  BY PipeKept
<1>2. AnswersKnown(n)' /\ MessagesKnown(n)'
  BY <1>1 DEF Known, AnswersKnown, MessagesKnown, AnswerRight, MessageRight, Done, Kind, Subscribes, Unsubscribes
<1>3. AwaitedCounted(n)'
  BY <1>1, AwaitedKept DEF Known
<1> QED
  BY <1>2, <1>3 DEF Known

\* ... and after every step.
LEMMA KnownStep ==
    ASSUME Types, Types', Queues, OneChannel, ServerKnown, NEW n \in Nat, Known(n), [Next]_vars
    PROVE  \E m \in Nat : m = (IF Pops THEN Next1(n) ELSE n) /\ Known(m)'
<1>1. PICK m \in Nat : m = IF Pops THEN Next1(n) ELSE n
  BY DEF Next1
<1> QED
  BY <1>1, KnownPopped, ServerKnows, CommandKnows, KnownKept

--------------------------------------------------------------------------------
(* The protocol of a disciplined user, as long as the context lives. *)

\* A context that lives has lived before.
LEMMA LiveBefore ==
    ASSUME Types, Modes, [Next]_vars, Live'
    PROVE  Live
<1>1. CASE UNCHANGED vars
  BY <1>1 DEF vars, client, Live
<1>2. ASSUME \E e, fl : AsyncDisconnect(e, fl) PROVE FALSE
  BY <1>2 DEF AsyncDisconnect, Live
<1>3. ASSUME NEW k \in session.commands, AsyncCommand(k) PROVE Live
  BY <1>3 DEF AsyncCommand, Live
<1>4. ASSUME Disconnect \/ Free \/ Return PROVE Live
  BY <1>2, <1>4 DEF Disconnect, Free, Return, User, Live, Modes, Types
<1>5. ASSUME \/ ConnectFails \/ ReadEOF \/ WriteFails \/ HandleTimeout
             \/ (\E n \in 0 .. Len(fromServer) : HandleRead(n))
             \/ \E n \in 0 .. Len(obuf) : HandleWrite(n)
      PROVE  Live
  BY <1>5 DEF ConnectFails, ReadEOF, WriteFails, HandleTimeout, HandleRead, HandleWrite, Live
<1>6. ASSUME \/ NoReply \/ RegularReply \/ SpontaneousError \/ Unexpected \/ MonitorLine
             \/ PubSubReply \/ InvalidReply
      PROVE  Live
  BY <1>6 DEF NoReply, RegularReply, SpontaneousError, Unexpected, MonitorLine, PubSubReply, InvalidReply,
      Spontaneous, Live
<1>7. ASSUME TimeoutTurn \/ FreeTurn \/ FreeEnd \/ \E c \in Channel : FreeSubscription(c)
      PROVE  FALSE
  <2>1. CASE TimeoutTurn
    BY <1>2, <2>1 DEF TimeoutTurn, RunCallback, Live
  <2>2. CASE FreeTurn
    BY <2>2 DEF FreeTurn, RunCallback, Live
  <2>3. CASE FreeEnd
    BY <2>3 DEF FreeEnd, Live
  <2>4. ASSUME NEW c \in Channel, FreeSubscription(c) PROVE FALSE
    BY <2>4 DEF FreeSubscription, RunCallback, Live
  <2> QED
    BY <1>7, <2>1, <2>2, <2>3, <2>4
<1>8. ASSUME Serve \/ Push \/ Close PROVE Live
  BY <1>8 DEF Serve, Push, Close, Live
<1> QED
  BY <1>1, <1>3, <1>4, <1>5, <1>6, <1>7, <1>8, Steps

\* The steps that touch neither the pipe nor the commands.
LEMMA ProtocolKept ==
    ASSUME Types, Queues, Modes, Discipline, Orderly, [Next]_vars, Live, Live',
           ~ Pops, ~ Serve, ~ Push, ~ Close, \A k \in session.commands : ~ AsyncCommand(k),
           NEW n \in Nat, Protocol(n)
    PROVE  Protocol(n)'
<1>1. Pipe' = Pipe /\ Served' = Served /\ UNCHANGED <<issued, unconfirmed, subs, closed>>
  BY PipeKept
<1>2. UNCHANGED <<replies, channels>> /\ ("SUBSCRIBED" \in flags' <=> "SUBSCRIBED" \in flags)
  <2>1. CASE UNCHANGED vars
    BY <2>1 DEF vars, client
  <2>2. CASE Disconnect \/ Free \/ Return
    BY <2>2 DEF Disconnect, Free, Return, AsyncDisconnect
  <2>3. CASE ConnectFails \/ ReadEOF \/ WriteFails \/ HandleTimeout
    BY <2>3 DEF ConnectFails, ReadEOF, WriteFails, HandleTimeout, AsyncDisconnect, Live
  <2>4. ASSUME NEW m \in 0 .. Len(fromServer), HandleRead(m)
        PROVE  UNCHANGED <<replies, channels>> /\ ("SUBSCRIBED" \in flags' <=> "SUBSCRIBED" \in flags)
    BY <2>4 DEF HandleRead, Connected
  <2>5. ASSUME NEW m \in 0 .. Len(obuf), HandleWrite(m)
        PROVE  UNCHANGED <<replies, channels>> /\ ("SUBSCRIBED" \in flags' <=> "SUBSCRIBED" \in flags)
    BY <2>5 DEF HandleWrite, Connected
  <2>6. CASE NoReply
    BY <2>6 DEF NoReply, AsyncDisconnect, Live, Discipline
  <2>7. ASSUME Unexpected PROVE FALSE
    BY <2>7 DEF Unexpected, Live
  <2>8. ASSUME TimeoutTurn \/ FreeTurn \/ FreeEnd \/ \E c \in Channel : FreeSubscription(c)
        PROVE  FALSE
    BY <2>8 DEF TimeoutTurn, FreeTurn, FreeEnd, FreeSubscription, Live
  <2> QED
    BY <2>1, <2>2, <2>3, <2>4, <2>5, <2>6, <2>7, <2>8, Steps DEF Pops
<1>3. RegularsFirst(n)'
  BY <1>1, <1>2 DEF Protocol, RegularsFirst, Done, Kind
<1>4. CallbacksKept(n)'
  BY <1>1, <1>2 DEF Protocol, CallbacksKept, Current, Awaited, Subscribes, Unsubscribes, Kind
<1>5. Quiet(n)'
  BY <1>1, <1>2 DEF Protocol, Quiet
<1>6. Unasked'
  BY <1>1 DEF Protocol, Unasked
<1> QED
  BY <1>3, <1>4, <1>5, <1>6 DEF Protocol

\* A command in its mode: regular ones before all subscriptions that are to come.
LEMMA ProtocolCommand ==
    ASSUME Types, Queues, OneChannel, Orderly, NEW n \in Nat, Known(n), Protocol(n),
           NEW k \in session.commands, AsyncCommand(k), Pipe' = Pipe, Served' = Served
    PROVE  Protocol(n)'
<1>1. /\ issued' = Append(issued, k) /\ UNCHANGED <<subs, closed>>
      /\ k.kind \in Regular => "SUBSCRIBED" \notin flags
      /\ k.kind = "unsubscribe" => "SUBSCRIBED" \in flags
  BY DEF AsyncCommand, MayIssue, server, Orderly
<1>2. /\ Len(issued) \in Nat /\ Len(issued') = Len(issued) + 1
      /\ \A id \in 1 .. Len(issued) : issued'[id] = issued[id]
      /\ issued'[Len(issued) + 1] = k
  BY <1>1, LogGrown
<1>3. n \in 0 .. Len(issued) /\ Served \in 0 .. Len(issued)
  BY QueueFacts DEF Known, AnswersKnown
<1>4. /\ k.kind \in {"regular", "silent"} \/ k.kind \in {"subscribe", "unsubscribe"}
      /\ k.kind \in {"regular", "silent"} <=> k.kind \in Regular
  <2>1. k \in Commands /\ k.kind # "monitor"
    BY IssuedFacts DEF Orderly
  <2> QED
    BY <2>1 DEF Commands, Regular
<1>5. \A c : Current(c, n)' <=> Current(c, n)
  BY <1>1, <1>3, CurrentIssued
<1>6. replies \in Seq(Callbacks) /\ Len(replies) \in Nat
  BY LenProperties DEF Types, TypeOK
<1>7. Unasked'
  BY <1>1 DEF Protocol, Unasked
<1>8. CASE k.kind \in {"regular", "silent"}
  <2> DEFINE callback == [id |-> IF k.kind = "silent" THEN 0 ELSE Len(issued) + 1, pending_subs |-> 1]
  <2>1. "SUBSCRIBED" \notin flags /\ n + Len(replies) = Len(issued) /\ subs = {}
        /\ \A i \in DOMAIN Pipe : Pipe[i].type # "message"
    BY <1>1, <1>4, <1>8 DEF Protocol, Quiet
  <2>2. replies' = Append(replies, callback) /\ UNCHANGED <<flags, channels>>
    BY <1>8, <2>1 DEF AsyncCommand, PushCallback
  <2>3. Len(replies') = Len(replies) + 1 /\ DOMAIN replies' = 1 .. Len(replies) + 1
        /\ DOMAIN replies = 1 .. Len(replies)
        /\ (\A m \in 1 .. Len(replies) : replies'[m] = replies[m]) /\ replies'[Len(replies) + 1] = callback
    <3>1. callback \in Callbacks \/ callback \notin Callbacks
      OBVIOUS
    <3> HIDE DEF callback
    <3> QED
      BY <1>6, <2>2
  <2>4. \A m \in DOMAIN replies' :
          /\ issued'[n + m].kind \in Regular
          /\ replies'[m].id = IF issued'[n + m].kind = "silent" THEN 0 ELSE n + m
    <3>1. ASSUME NEW m \in 1 .. Len(replies)
          PROVE  /\ issued'[n + m].kind \in Regular
                 /\ replies'[m].id = IF issued'[n + m].kind = "silent" THEN 0 ELSE n + m
      <4>1. n + m \in 1 .. Len(issued)
        BY <1>3, <1>6, <2>1
      <4> QED
        BY <1>2, <2>3, <4>1 DEF Protocol, RegularsFirst, Kind
    <3>2. n + (Len(replies) + 1) = Len(issued) + 1
      BY <1>3, <1>6, <2>1
    <3>3. callback.id = IF k.kind = "silent" THEN 0 ELSE Len(issued) + 1
      OBVIOUS
    <3> HIDE DEF callback
    <3> QED
      BY <1>2, <1>4, <1>6, <1>8, <2>3, <3>1, <3>2, <3>3
  <2>5. RegularsFirst(n)'
    <3>1. n + Len(replies') = Len(issued')
      BY <1>2, <1>3, <1>6, <2>1, <2>3
    <3>2. \A id \in n + Len(replies') + 1 .. Len(issued') : FALSE
      BY <1>2, <3>1
    <3> QED
      BY <1>1, <1>2, <2>1, <2>4, <3>1, <3>2 DEF RegularsFirst, Kind
  <2>6. CallbacksKept(n)'
    <3>1. \A c : Awaited(n, c)' = Awaited(n, c)
      BY <1>2, <1>3, <1>8 DEF Awaited, Subscribes, Kind
    <3> QED
      BY <1>5, <2>2, <3>1 DEF Protocol, CallbacksKept
  <2>7. Quiet(n)'
    <3>1. n + Len(replies') = Len(issued')
      BY <1>2, <1>3, <1>6, <2>1, <2>3
    <3> QED
      BY <1>1, <2>1, <3>1 DEF Quiet
  <2> QED
    BY <1>7, <2>5, <2>6, <2>7 DEF Protocol
<1>9. CASE k.kind \in {"subscribe", "unsubscribe"}
  <2>1. UNCHANGED replies /\ "SUBSCRIBED" \in flags'
    BY <1>1, <1>9 DEF AsyncCommand
  <2>2. RegularsFirst(n)'
    <3>1. \A m \in DOMAIN replies : n + m \in 1 .. Len(issued)
      BY <1>3, <1>6 DEF Protocol, RegularsFirst
    <3>2. n + Len(replies) <= Len(issued')
      BY <1>2, <1>3, <1>6 DEF Protocol, RegularsFirst
    <3>3. \A id \in n + Len(replies) + 1 .. Len(issued') : issued'[id].kind \notin Regular
      BY <1>2, <1>3, <1>4, <1>6, <1>9 DEF Protocol, RegularsFirst, Kind, Regular
    <3>4. \A m \in DOMAIN replies : issued'[n + m] = issued[n + m]
      BY <1>2, <3>1
    <3>5. /\ Served' < n + Len(replies') => subs' = {}
          /\ \A i \in DOMAIN Pipe' : Pipe'[i].type = "message" =>
               \A id \in n + 1 .. n + Len(replies') : Done(n, i, id)'
      BY <1>1, <2>1 DEF Protocol, RegularsFirst, Done
    <3>6. \A m \in DOMAIN replies' :
            /\ issued'[n + m].kind \in Regular
            /\ replies'[m].id = IF issued'[n + m].kind = "silent" THEN 0 ELSE n + m
      BY <2>1, <3>4 DEF Protocol, RegularsFirst, Kind
    <3> QED
      BY <2>1, <3>2, <3>3, <3>5, <3>6 DEF RegularsFirst, Kind
  <2>3. CallbacksKept(n)'
    <3> SUFFICES ASSUME NEW c \in Channel, Current(c, n)' \/ Awaited(n, c)' # {} PROVE channels'[c] # Null
      BY DEF CallbacksKept, Null
    <3>0. /\ channels \in [Channel -> Callbacks]
          /\ k.kind = "subscribe" =>
               channels' = [channels EXCEPT ![k.channels[1]] =
                   [id |-> Len(issued) + 1,
                    pending_subs |-> IF channels[k.channels[1]] = Null THEN 1
                                     ELSE channels[k.channels[1]].pending_subs + 1]]
          /\ k.kind # "subscribe" => UNCHANGED channels
      BY CommandChannels DEF Types, TypeOK
    <3>1. CASE k.kind = "subscribe" /\ c = k.channels[1]
      <4>1. channels'[c].id = Len(issued) + 1
        BY <3>0, <3>1
      <4> QED
        BY <1>2, <4>1 DEF Null
    <3>2. CASE ~ (k.kind = "subscribe" /\ c = k.channels[1])
      <4>1. Awaited(n, c)' = Awaited(n, c)
        BY <1>2, <1>3, <3>2 DEF Awaited, Subscribes, Kind
      <4>2. channels'[c] = channels[c]
        BY <3>0, <3>2
      <4> QED
        BY <1>5, <4>1, <4>2 DEF Protocol, CallbacksKept
    <3> QED
      BY <3>1, <3>2
  <2>4. Quiet(n)'
    BY <2>1 DEF Quiet
  <2> QED
    BY <1>7, <2>2, <2>3, <2>4 DEF Protocol
<1> QED
  BY <1>4, <1>8, <1>9

\* A reply of the server that is due.
LEMMA ProtocolAppended ==
    ASSUME Types, Queues, NEW n \in Nat, Known(n), Protocol(n), NEW r \in Replies, Pipe' = Append(Pipe, r),
           UNCHANGED <<issued, replies, channels, flags>>, ~ closed,
           r.type = "message" => n + Len(replies) <= Served /\ "SUBSCRIBED" \in flags,
           r.type # "line", r.type = "error" => r.to = 0 /\ closed' /\ Pipe = <<>>,
           Served' < n + Len(replies) \/ "SUBSCRIBED" \notin flags => subs' = {}
    PROVE  Protocol(n)'
<1>1. /\ Len(Pipe) \in Nat /\ DOMAIN Pipe = 1 .. Len(Pipe)
      /\ DOMAIN Pipe' = 1 .. Len(Pipe) + 1 /\ Len(Pipe') = Len(Pipe) + 1
      /\ \A j \in 1 .. Len(Pipe) : Pipe'[j] = Pipe[j]
      /\ Pipe'[Len(Pipe) + 1] = r
  BY PipeAppended
<1>2. RegularsFirst(n)'
  <2>1. Len(replies) \in Nat
    BY LenProperties DEF Types, TypeOK
  <2>2. ASSUME NEW i \in DOMAIN Pipe', Pipe'[i].type = "message", NEW id \in n + 1 .. n + Len(replies)
        PROVE  Done(n, i, id)'
    <3>1. i \in 1 .. Len(Pipe) + 1 /\ id \in Nat
      BY <1>1, <2>1, <2>2
    <3>2. Done(n, i, id)
      <4>1. CASE i = Len(Pipe) + 1
        <5>1. id <= Served
          BY <1>1, <2>1, <2>2, <4>1, QueueFacts
        <5> QED
          BY <3>1, <4>1, <5>1, DoneAtEnd DEF Known
      <4>2. CASE i \in 1 .. Len(Pipe)
        BY <1>1, <2>2, <4>2 DEF Protocol, RegularsFirst
      <4> QED
        BY <3>1, <1>1, <4>1, <4>2
    <3> QED
      BY <3>1, <3>2, DoneAppended
  <2>3. \A i \in DOMAIN Pipe' : Pipe'[i].type = "message" =>
           \A id \in n + 1 .. n + Len(replies') : Done(n, i, id)'
    BY <2>2
  <2> QED
    BY <2>3 DEF Protocol, RegularsFirst, Kind
<1>3. CallbacksKept(n)'
  BY DEF Protocol, CallbacksKept, Current, Awaited, Subscribes, Unsubscribes, Kind
<1>4. Quiet(n)'
  BY <1>1 DEF Protocol, Quiet
<1>5. Unasked'
  <2>1. \A i \in DOMAIN Pipe : Pipe[i].type # "error" /\ Pipe[i].type # "line"
    BY DEF Protocol, Unasked
  <2>2. ASSUME NEW i \in DOMAIN Pipe'
        PROVE  Pipe'[i].type # "line" /\ (Pipe'[i].type = "error" => Pipe'[i].to = 0 /\ closed' /\ Len(Pipe') = 1)
    <3>1. CASE i = Len(Pipe) + 1
      <4>1. Pipe = <<>> => Len(Pipe) = 0
        OBVIOUS
      <4> QED
        BY <1>1, <3>1, <4>1
    <3>2. CASE i \in 1 .. Len(Pipe)
      BY <1>1, <2>1, <3>2
    <3> QED
      BY <1>1, <2>2, <3>1, <3>2
  <2> QED
    BY <2>2 DEF Unasked
<1> QED
  BY <1>2, <1>3, <1>4, <1>5 DEF Protocol

\* The server sends what is due.
LEMMA ProtocolServer ==
    ASSUME Types, Queues, OneChannel, Modes, Discipline, Orderly, NEW n \in Nat, Known(n), Protocol(n),
           Serve \/ Push \/ Close
    PROVE  Protocol(n)'
<1>1. UNCHANGED <<issued, replies, channels, flags, reader>> /\ ~ closed /\ at = "loop"
  BY ServeStep, PushStep, CloseStep DEF client, history, Serve
<1>2. Len(replies) \in Nat /\ Served \in 0 .. Len(issued) /\ n \in 0 .. Served /\ Len(issued) \in Nat
  BY QueueFacts, LenProperties DEF Types, TypeOK, Known, AnswersKnown
<1>3. /\ n + Len(replies) <= Len(issued)
      /\ \A id \in n + 1 .. n + Len(replies) : Kind(id) \in Regular
      /\ \A id \in n + Len(replies) + 1 .. Len(issued) : Kind(id) \notin Regular
      /\ Served < n + Len(replies) \/ "SUBSCRIBED" \notin flags => subs = {}
      /\ "SUBSCRIBED" \notin flags => n + Len(replies) = Len(issued)
  <2>1. \A id \in n + 1 .. n + Len(replies) : Kind(id) \in Regular
    <3> SUFFICES ASSUME NEW id \in n + 1 .. n + Len(replies) PROVE Kind(id) \in Regular
      OBVIOUS
    <3>1. id - n \in DOMAIN replies /\ n + (id - n) = id
      BY <1>2 DEF Types, TypeOK
    <3> QED
      BY <3>1 DEF Protocol, RegularsFirst
  <2> QED
    BY <2>1 DEF Protocol, RegularsFirst, Quiet
<1>4. CASE Serve
  <2>1. PICK r \in Replies : /\ r.type # "message" /\ r.type # "line"
                             /\ r.type = "error" => Kind(Served + 1) \in Regular /\ subs # {}
                             /\ Pipe' = Append(Pipe, r)
    BY <1>4, ServeAnswers
  <2>2. Served' = Served + 1 /\ Served + 1 \in 1 .. Len(issued)
    BY <1>4, ServeAnswers
  <2>3. Kind(Served + 1) \in Regular => Served + 1 \in n + 1 .. n + Len(replies)
    BY <1>2, <1>3, <2>2
  <2>4. r.type # "error"
    BY <1>2, <1>3, <2>1, <2>3
  <2>5. ASSUME Served' < n + Len(replies) \/ "SUBSCRIBED" \notin flags PROVE subs' = {}
    <3>1. Served + 1 \in n + 1 .. n + Len(replies)
      BY <1>2, <1>3, <2>2, <2>5
    <3>2. subs = {} /\ Kind(Served + 1) \in Regular
      BY <1>2, <1>3, <3>1
    <3> QED
      BY <1>4, <3>2, ServeStep DEF Regular
  <2> QED
    BY <1>1, <2>1, <2>4, <2>5, ProtocolAppended
<1>5. CASE Push
  <2>1. UNCHANGED <<toServer, obuf, subs, closed>>
    BY <1>5, PushStep DEF client
  <2>2. PICK r \in Replies : fromServer' = Append(fromServer, r) /\ r.type = "message" /\ r.channel \in subs
    BY <1>5, PushStep DEF Discipline
  <2>3. Pipe' = Append(Pipe, r) /\ Served' = Served
    BY <1>1, <2>1, <2>2, PipeGrown DEF Served
  <2>4. n + Len(replies) <= Served /\ "SUBSCRIBED" \in flags
    BY <1>2, <1>3, <2>2
  <2> QED
    BY <1>1, <1>3, <2>1, <2>2, <2>3, <2>4, ProtocolAppended
<1>6. CASE Close
  <2>1. UNCHANGED <<toServer, obuf, subs>> /\ closed'
    BY <1>6, CloseStep DEF client
  <2>2. Served' = Served
    BY <1>1, <2>1 DEF Served
  <2>3. CASE UNCHANGED fromServer
    <3>1. Pipe' = Pipe
      BY <1>1, <2>3 DEF Pipe
    <3>2. RegularsFirst(n)'
      BY <1>1, <2>1, <2>2, <3>1 DEF Protocol, RegularsFirst, Done, Kind
    <3>3. CallbacksKept(n)'
      BY <1>1 DEF Protocol, CallbacksKept, Current, Awaited, Subscribes, Unsubscribes, Kind
    <3>4. Quiet(n)' /\ Unasked'
      BY <1>1, <2>1, <3>1 DEF Protocol, Quiet, Unasked
    <3> QED
      BY <3>2, <3>3, <3>4 DEF Protocol
  <2>4. CASE fromServer' # fromServer
    <3>1. PICK r \in Replies : fromServer' = Append(fromServer, r) /\ r.type = "error" /\ r.to = 0
      BY <1>6, <2>4, CloseStep
    <3>2. fromServer = <<>> /\ subs = {}
      BY <1>6, <2>4, CloseStep
    <3>3. Pipe = <<>> /\ Pipe' = Append(Pipe, r)
      <4>1. reader = <<>>
        BY <1>1 DEF Modes
      <4> QED
        BY <1>1, <3>1, <3>2, <4>1, PipeGrown DEF Pipe
    <3> QED
      BY <1>1, <2>1, <3>1, <3>2, <3>3, ProtocolAppended
  <2> QED
    BY <2>3, <2>4
<1> QED
  BY <1>4, <1>5, <1>6

\* No unasked reply is left when the head is taken off.
LEMMA UnaskedPopped ==
    ASSUME Types, Unasked, Pipe # <<>>, Pipe' = Tail(Pipe), UNCHANGED closed
    PROVE  Unasked'
<1>1. /\ Len(Pipe) \in Nat /\ Len(Pipe) >= 1 /\ DOMAIN Pipe = 1 .. Len(Pipe)
      /\ DOMAIN Pipe' = 1 .. Len(Pipe) - 1 /\ Len(Pipe') = Len(Pipe) - 1
      /\ \A j \in 1 .. Len(Pipe) - 1 : Pipe'[j] = Pipe[j + 1]
  BY TailOfPipe
<1>2. ASSUME NEW j \in DOMAIN Pipe' PROVE Pipe'[j].type # "line" /\ Pipe'[j].type # "error"
  <2>1. j + 1 \in DOMAIN Pipe /\ Len(Pipe) # 1 /\ Pipe'[j] = Pipe[j + 1]
    BY <1>1, <1>2
  <2> QED
    BY <2>1 DEF Unasked
<1> QED
  BY <1>2 DEF Unasked

\* While regular commands wait, what comes is the answer to the first of them, or
\* the error that ends the connection.
LEMMA RegularHead ==
    ASSUME Types, Queues, OneChannel, NEW n \in Nat, Known(n), Protocol(n), RegularReply
    PROVE  /\ Pipe # <<>> /\ Pipe[1] = Head(reader) /\ Pipe' = Tail(Pipe)
           /\ \/ /\ Head(reader).type = "error" /\ Head(reader).to = 0 /\ closed /\ Len(Pipe) = 1
              \/ /\ Head(reader).type = "reply" /\ Head(reader).to = n + 1 /\ Next1(n) = n + 1
                 /\ n + 1 \in 1 .. Served
           /\ Kind(n + 1) \in Regular /\ Head(replies).id = IF Kind(n + 1) = "silent" THEN 0 ELSE n + 1
           /\ replies # <<>> /\ replies' = Tail(replies)
           /\ UNCHANGED <<issued, channels, flags, subs, closed>> /\ Served' = Served
<1>1. /\ Pipe # <<>> /\ Pipe[1] = Head(reader) /\ Pipe' = Tail(Pipe)
      /\ UNCHANGED <<issued, subs, closed>> /\ Served' = Served
  BY PopFacts DEF Pops
<1>2. replies # <<>> /\ replies' = Tail(replies) /\ UNCHANGED <<channels, flags>>
  BY DEF RegularReply
<1>3. /\ 1 \in DOMAIN replies /\ Head(replies) = replies[1] /\ Len(replies) \in Nat /\ Len(replies) >= 1
  BY <1>2, EmptySeq, LenProperties DEF Types, TypeOK
<1>4. Kind(n + 1) \in Regular /\ Head(replies).id = IF Kind(n + 1) = "silent" THEN 0 ELSE n + 1
  BY <1>3 DEF Protocol, RegularsFirst
<1>5. 1 \in DOMAIN Pipe /\ Pipe[1] \in Replies
  BY <1>1, PipeFacts, EmptySeq
<1>6. Pipe[1].type # "message"
  <2>1. n + 1 \in n + 1 .. n + Len(replies)
    BY <1>3
  <2>2. ~ Done(n, 1, n + 1)
    BY DEF Done
  <2> QED
    BY <1>5, <2>1, <2>2 DEF Protocol, RegularsFirst
<1>7. Pipe[1].type # "line" /\ (Pipe[1].type = "error" => Pipe[1].to = 0 /\ closed /\ Len(Pipe) = 1)
  BY <1>5 DEF Protocol, Unasked
<1>8. ASSUME Answer(Pipe[1])
      PROVE  Pipe[1].type = "reply" /\ Pipe[1].to = n + 1 /\ Next1(n) = n + 1 /\ n + 1 \in 1 .. Served
  <2>1. Pipe[1].to = n + 1 /\ n + 1 \in 1 .. Served /\ AnswerRight(Pipe[1])
    BY <1>1, <1>8, HeadAnswer DEF Known
  <2>2. Pipe[1].type \notin {"subscribe", "unsubscribe"}
    BY <1>4, <2>1 DEF AnswerRight, Regular
  <2>3. Pipe[1].type # "error"
    BY <1>7, <2>1
  <2> QED
    BY <1>8, <2>1, <2>2, <2>3 DEF Next1, Answer
<1>9. Pipe[1].type = "error" \/ Answer(Pipe[1])
  BY <1>5, <1>6, <1>7 DEF Replies, Answer
<1> QED
  BY <1>1, <1>2, <1>4, <1>7, <1>8, <1>9

\* The answer reaches the callback of its command.
LEMMA RegularMeant ==
    ASSUME Types, Queues, OneChannel, NEW n \in Nat, Known(n), Protocol(n), RegularReply
    PROVE  Meant(Head(reader), Head(replies))
<1>1. CASE Head(reader).type = "error" /\ Head(reader).to = 0
  BY <1>1 DEF Meant
<1>2. CASE Head(reader).type = "reply" /\ Head(reader).to = n + 1
  BY <1>2, RegularHead DEF Meant
<1> QED
  BY <1>1, <1>2, RegularHead

\* The protocol after the reply to a regular command.
LEMMA RegularProtocol ==
    ASSUME Types, Queues, OneChannel, NEW n \in Nat, Known(n), Protocol(n), RegularReply,
           NEW m \in Nat, m = Next1(n)
    PROVE  Over' \/ Protocol(m)'
<1>0. /\ Pipe # <<>> /\ Pipe[1] = Head(reader) /\ Pipe' = Tail(Pipe)
      /\ replies # <<>> /\ replies' = Tail(replies)
      /\ UNCHANGED <<issued, channels, flags, subs, closed>> /\ Served' = Served
      /\ Kind(n + 1) \in Regular
  BY RegularHead
<1>1. /\ Len(Pipe) \in Nat /\ Len(Pipe) >= 1 /\ DOMAIN Pipe = 1 .. Len(Pipe)
      /\ DOMAIN Pipe' = 1 .. Len(Pipe) - 1 /\ Len(Pipe') = Len(Pipe) - 1
      /\ \A j \in 1 .. Len(Pipe) - 1 : Pipe'[j] = Pipe[j + 1]
  BY <1>0, TailOfPipe
<1>9. replies \in Seq(Callbacks)
  BY DEF Types, TypeOK
<1>2. CASE closed /\ Len(Pipe) = 1
  <2>1. Pipe' = <<>>
    <3>1. Pipe \in Seq(Replies)
      BY PipeFacts
    <3>2. Tail(Pipe) \in Seq(Replies) /\ Len(Tail(Pipe)) = 0
      BY <1>0, <1>1, <1>2, <3>1
    <3> QED
      BY <1>0, <3>2, EmptySeq
  <2> QED
    BY <1>0, <1>2, <2>1 DEF Over
<1>3. CASE Head(reader).type = "reply" /\ m = n + 1
  <2>1. /\ Len(replies) \in Nat /\ Len(replies) >= 1 /\ Len(replies') = Len(replies) - 1
        /\ DOMAIN replies = 1 .. Len(replies) /\ DOMAIN replies' = 1 .. Len(replies) - 1
        /\ \A j \in 1 .. Len(replies) - 1 : replies'[j] = replies[j + 1]
    BY <1>0, <1>9, EmptySeq, LenProperties, HeadTailProperties
  <2>2. m + Len(replies') = n + Len(replies)
    BY <1>3, <2>1
  <2>3. \A j \in DOMAIN replies' :
          /\ Kind(m + j) \in Regular
          /\ replies'[j].id = IF Kind(m + j) = "silent" THEN 0 ELSE m + j
    <3> SUFFICES ASSUME NEW j \in DOMAIN replies'
                 PROVE  /\ Kind(m + j) \in Regular
                        /\ replies'[j].id = IF Kind(m + j) = "silent" THEN 0 ELSE m + j
      OBVIOUS
    <3>0. j \in 1 .. Len(replies) - 1 /\ j \in Nat
      BY <2>1
    <3>1. j + 1 \in DOMAIN replies /\ n + (j + 1) = m + j /\ replies'[j] = replies[j + 1]
      <4>1. j + 1 \in 1 .. Len(replies)
        BY <2>1, <3>0
      <4>2. n + (j + 1) = m + j
        BY <1>3, <3>0
      <4> QED
        BY <2>1, <3>0, <4>1, <4>2
    <3>2. /\ Kind(n + (j + 1)) \in Regular
          /\ replies[j + 1].id = IF Kind(n + (j + 1)) = "silent" THEN 0 ELSE n + (j + 1)
      BY <3>1 DEF Protocol, RegularsFirst
    <3> QED
      BY <3>1, <3>2
  <2>4. ASSUME NEW i \in DOMAIN Pipe', Pipe'[i].type = "message", NEW id \in m + 1 .. n + Len(replies)
        PROVE  Done(m, i, id)'
    <3>1. i + 1 \in DOMAIN Pipe /\ Pipe[i + 1].type = "message" /\ i \in 1 .. Len(Pipe)
      BY <1>1, <2>4
    <3>2. id \in n + 1 .. n + Len(replies) /\ id \in Nat
      BY <1>3, <2>1
    <3>3. Done(n, i + 1, id)
      BY <3>1, <3>2 DEF Protocol, RegularsFirst
    <3> QED
      BY <1>0, <3>1, <3>2, <3>3, DonePopped DEF Known
  <2>5. RegularsFirst(m)'
    <3>1. \A i \in DOMAIN Pipe' : Pipe'[i].type = "message" =>
            \A id \in m + 1 .. m + Len(replies') : Done(m, i, id)'
      BY <2>2, <2>4
    <3> QED
      BY <1>0, <2>2, <2>3, <3>1 DEF Protocol, RegularsFirst, Kind
  <2>6. CallbacksKept(m)'
    <3>1. \A c : Current(c, m) => Current(c, n)
      BY <1>0, <1>3, CurrentNext DEF Subscribes, Regular
    <3>2. \A c : Awaited(m, c) \subseteq Awaited(n, c)
      BY <1>0, <1>3, AwaitedLess
    <3>3. ASSUME NEW c \in Channel, Current(c, m)' \/ Awaited(m, c)' # {} PROVE channels'[c] # Null
      <4>1. Current(c, m)' <=> Current(c, m)
        BY <1>0 DEF Current, Subscribes, Unsubscribes, Kind
      <4>2. Awaited(m, c)' = Awaited(m, c)
        BY <1>0 DEF Awaited, Subscribes, Kind
      <4> QED
        BY <1>0, <3>1, <3>2, <3>3, <4>1, <4>2 DEF Protocol, CallbacksKept
    <3> QED
      BY <3>3 DEF CallbacksKept, Null
  <2>7. Quiet(m)'
    BY <1>0, <1>1, <2>2 DEF Protocol, Quiet
  <2>8. Unasked'
    BY <1>0, UnaskedPopped DEF Protocol
  <2> QED
    BY <2>5, <2>6, <2>7, <2>8 DEF Protocol
<1> QED
  BY <1>2, <1>3, RegularHead

\* A reply about a channel finds the callback of the channel, and it is one that
\* was subscribed to it.
LEMMA PubSubFound ==
    ASSUME Types, Queues, OneChannel, Asked, Orderly, NEW n \in Nat, Known(n), Protocol(n), PubSubReply
    PROVE  channels[Head(reader).channel] # Null
<1>1. PICK r \in Replies : r = Head(reader)
  BY PubSubFacts
<1>2. /\ r.channel \in Channel /\ r.type \in {"subscribe", "unsubscribe", "message"} /\ reader # <<>>
      /\ Pipe # <<>> /\ Pipe[1] = r /\ 1 \in DOMAIN Pipe
  BY <1>1, PubSubFacts, PipeFacts, EmptySeq
<1>3. CASE r.type = "message"
  <2>1. PICK s \in 1 .. Served : MessageRight(n, 1, s)
    BY <1>2, <1>3 DEF Known, MessagesKnown
  <2>2. Len(issued) \in Nat /\ Served \in 0 .. Len(issued) /\ n \in 0 .. Served
    BY QueueFacts DEF Known, AnswersKnown
  <2>3. \A id : Done(n, 1, id) <=> id <= n
    BY DEF Done
  <2>4. s \in 1 .. n /\ Subscribes(s, r.channel)
    BY <1>2, <2>1, <2>2, <2>3 DEF MessageRight
  <2>5. \A u \in s .. n : ~ Unsubscribes(u, r.channel)
    BY <1>2, <2>1, <2>2, <2>3 DEF MessageRight
  <2>6. Current(r.channel, n)
    BY <2>4, <2>5 DEF Current
  <2> QED
    BY <1>1, <1>2, <2>6 DEF Protocol, CallbacksKept
<1>4. CASE r.type = "subscribe"
  <2>1. n + 1 \in Awaited(n, r.channel)
    BY <1>1, <1>2, <1>4, AwaitedHead DEF Known
  <2> QED
    BY <1>1, <1>2, <2>1 DEF Protocol, CallbacksKept
<1>5. CASE r.type = "unsubscribe"
  <2>1. n + 1 \in 1 .. Len(issued) /\ Kind(n + 1) = "unsubscribe" /\ r.channel = issued[n + 1].channels[1]
    BY <1>1, <1>2, <1>5, HeadPubSub DEF Known
  <2>2. Current(r.channel, (n + 1) - 1)
    <3>1. n + 1 \in DOMAIN issued /\ session.disciplined
      BY <2>1 DEF Orderly, Types
    <3>2. Current(issued[n + 1].channels[1], (n + 1) - 1)
      BY <2>1, <3>1, Zenon DEF Asked
    <3> QED
      BY <2>1, <3>2, Zenon
  <2>3. (n + 1) - 1 = n
    OBVIOUS
  <2> QED
    BY <1>1, <1>2, <2>2, <2>3 DEF Protocol, CallbacksKept
<1> QED
  BY <1>2, <1>3, <1>4, <1>5

\* The callback of a channel is one a reply about the channel is meant for.
LEMMA PubSubMeant ==
    ASSUME Types, OneChannel, ChannelsKnown, PubSubReply, channels[Head(reader).channel] # Null,
           NEW callback, callback.id = channels[Head(reader).channel].id
    PROVE  Meant(Head(reader), callback) /\ callback.id # 0
<1>1. /\ Head(reader).channel \in Channel /\ Head(reader).type \in {"subscribe", "unsubscribe", "message"}
  BY PubSubFacts
<1>2. callback.id \in DOMAIN issued /\ Subscribes(callback.id, Head(reader).channel)
  BY <1>1 DEF ChannelsKnown
<1>3. callback.id \in 1 .. Len(issued) /\ callback.id # 0
  BY <1>2 DEF Types
<1>4. Range1(issued[callback.id].channels) = {Head(reader).channel}
  <2>1. issued[callback.id] \in session.commands /\ issued[callback.id].kind \notin Regular
    BY <1>2, <1>3, IssuedFacts DEF Subscribes, Kind, Regular
  <2> QED
    BY <1>2, <2>1, IssuedFacts DEF Subscribes
<1> QED
  BY <1>1, <1>3, <1>4 DEF Meant

\* The answer to an UNSUBSCRIBE drops the callback only when no SUBSCRIBE of the
\* channel is to be answered.
LEMMA PubSubCallbacks ==
    ASSUME Types, Queues, OneChannel, Asked, ChannelsKnown, Counted, Modes, Orderly,
           NEW n \in Nat, Known(n), Protocol(n), PubSubReply, NEW m \in Nat, m = Next1(n)
    PROVE  CallbacksKept(m)'
<1>1. PICK r \in Replies : r = Head(reader)
  BY PubSubFacts
<1>2. PICK c \in Channel : c = r.channel
  BY <1>1, PubSubFacts
<1>3. /\ r.type \in {"subscribe", "unsubscribe", "message"} /\ reader # <<>> /\ at = "process"
      /\ Pipe # <<>> /\ Pipe[1] = r /\ UNCHANGED issued
  BY <1>1, PubSubFacts, PipeFacts
<1>4. PICK entry \in [id : Nat, pending_subs : Int] :
        /\ entry.id = channels[c].id
        /\ r.type = "unsubscribe" => entry.pending_subs = channels[c].pending_subs
        /\ channels' = [channels EXCEPT ![c] =
                            IF r.type = "unsubscribe" /\ entry.pending_subs = 0 THEN Null ELSE entry]
  <2> DEFINE p == IF r.type = "subscribe" THEN channels[c].pending_subs - 1 ELSE channels[c].pending_subs
             e == [id |-> channels[c].id, pending_subs |-> p]
  <2>1. channels[c] \in Callbacks /\ channels[c] # Null /\ MaxCommands \in Nat
    BY <1>1, <1>2, PubSubFound, IssuedFacts DEF Types, TypeOK
  <2>2. e \in [id : Nat, pending_subs : Int]
    BY <2>1 DEF Callbacks
  <2>3. channels' = [channels EXCEPT ![c] = IF r.type = "unsubscribe" /\ p = 0 THEN Null ELSE e]
    BY <1>1, <1>2, <2>1, PubSubFacts DEF PubSub
  <2> QED
    BY <2>2, <2>3
<1>5. channels[c] # Null /\ channels[c].id # 0 /\ entry # Null /\ channels \in [Channel -> Callbacks]
  <2>1. channels[c] # Null
    BY <1>1, <1>2, PubSubFound
  <2>2. channels[c].id # 0
    BY <1>1, <1>2, <2>1, PubSubMeant
  <2> QED
    BY <1>4, <2>1, <2>2 DEF Null, Types, TypeOK
<1>6. \/ r.type = "message" /\ m = n
      \/ /\ r.type # "message" /\ m = n + 1 /\ Kind(n + 1) = r.type /\ issued[n + 1].channels[1] = c
         /\ n + 1 \in 1 .. Len(issued)
  <2>1. CASE r.type = "message"
    BY <1>3, <2>1 DEF Next1, Answer
  <2>2. CASE r.type # "message"
    BY <1>1, <1>2, <1>3, <2>2, HeadPubSub DEF Known
  <2> QED
    BY <2>1, <2>2
<1>7. \A d : Awaited(m, d) \subseteq Awaited(n, d) /\ Awaited(m, d)' = Awaited(m, d)
  BY <1>3, <1>6, AwaitedLess
<1>8. \A d : Current(d, m)' <=> Current(d, m)
  BY <1>3 DEF Current, Subscribes, Unsubscribes, Kind
<1> SUFFICES ASSUME NEW d \in Channel, Current(d, m) \/ Awaited(m, d) # {} PROVE channels'[d] # Null
  BY <1>7, <1>8 DEF CallbacksKept, Null
<1>9. CASE d # c
  <2>1. Current(d, m) => Current(d, n)
    BY <1>6, <1>9, CurrentNext DEF Subscribes
  <2>2. channels[d] # Null
    BY <1>7, <2>1 DEF Protocol, CallbacksKept
  <2> QED
    BY <1>4, <1>5, <1>9, <2>2
<1>10. CASE d = c
  <2>1. SUFFICES ASSUME r.type = "unsubscribe", entry.pending_subs = 0 PROVE FALSE
    BY <1>4, <1>5, <1>10
  <2>2. ~ Current(c, m)
    BY <1>6, <2>1, CurrentNext DEF Subscribes, Unsubscribes
  <2>3. Awaited(n, c) = {}
    <3>1. unconfirmed[c] = 0
      BY <1>3, <1>4, <1>5, <2>1 DEF Counted, Modes, Live
    <3>2. Cardinality(Awaited(n, c)) <= 0
      BY <3>1 DEF Known, AwaitedCounted
    <3> QED
      BY <3>2, AwaitedFinite
  <2> QED
    BY <1>7, <1>10, <2>2, <2>3
<1> QED
  BY <1>9, <1>10

\* The last confirmation of all ends the subscribed mode: no command is left, and
\* nothing more is to come.
LEMMA PubSubQuiet ==
    ASSUME Types, Types', Queues, Queues', OneChannel, Asked, ServerKnown, NEW n \in Nat, Known(n),
           Protocol(n), PubSubReply, NEW m \in Nat, m = Next1(n), Known(m)', CallbacksKept(m)',
           session.disciplined
    PROVE  Quiet(m)'
<1>1. PICK r \in Replies : r = Head(reader)
  BY PubSubFacts
<1>2. /\ r.type \in {"subscribe", "unsubscribe", "message"} /\ reader # <<>> /\ replies = <<>> /\ replies' = <<>>
      /\ UNCHANGED <<issued, subs, session>> /\ "SUBSCRIBED" \in flags /\ Served' = Served
  <2>1. Served' = Served
    BY PopFacts DEF Pops
  <2> QED
    BY <1>1, <2>1, PubSubFacts DEF server
<1> SUFFICES ASSUME "SUBSCRIBED" \notin flags'
             PROVE  /\ m = Len(issued) /\ subs = {}
                    /\ \A i \in DOMAIN Pipe' : Pipe'[i].type # "message"
  <2>1. m + Len(<<>>) = m
    OBVIOUS
  <2> QED
    BY <1>2, <2>1 DEF Quiet
<1>3. r.type = "unsubscribe" /\ \A c \in Channel : channels'[c] = Null
  BY <1>1, <1>2, PubSubFacts DEF PubSub, IsOver
<1>4. m = n + 1 /\ n + 1 \in 1 .. Served /\ n + 1 \in 1 .. Len(issued)
  BY <1>1, <1>2, <1>3, HeadPubSub DEF Known
<1>5. \A c \in Channel : ~ Current(c, m) /\ Awaited(m, c) = {}
  <2>1. \A c \in Channel : ~ Current(c, m)' /\ Awaited(m, c)' = {}
    BY <1>3 DEF CallbacksKept, Null
  <2>2. \A c : (Current(c, m)' <=> Current(c, m)) /\ Awaited(m, c)' = Awaited(m, c)
    BY <1>2 DEF Current, Awaited, Subscribes, Unsubscribes, Kind
  <2> QED
    BY <2>1, <2>2
<1>6. Len(issued) \in Nat /\ Served \in 0 .. Len(issued)
  BY QueueFacts
<1>7. m = Len(issued)
  <2>1. SUFFICES ASSUME m + 1 \in 1 .. Len(issued) PROVE FALSE
    BY <1>4, <1>6
  <2>2. Kind(m + 1) \notin Regular
    <3>1. n + Len(replies) = n
      BY <1>2
    <3>2. m + 1 \in n + Len(replies) + 1 .. Len(issued)
      BY <1>4, <2>1, <3>1
    <3> QED
      BY <3>2 DEF Protocol, RegularsFirst
  <2>0. issued[m + 1] \in session.commands
    BY <2>1, IssuedFacts
  <2>3. PICK c \in Channel : c = issued[m + 1].channels[1]
    BY <2>0, <2>2, IssuedFacts DEF Kind
  <2>4. Kind(m + 1) = "subscribe" \/ Kind(m + 1) = "unsubscribe"
    BY <2>0, <2>2, IssuedFacts DEF Kind
  <2>5. CASE Kind(m + 1) = "subscribe"
    <3>1. m + 1 \in Awaited(m, c)
      BY <2>1, <2>3, <2>5 DEF Awaited, Subscribes
    <3> QED
      BY <1>5, <3>1
  <2>6. CASE Kind(m + 1) = "unsubscribe"
    <3>1. m + 1 \in DOMAIN issued /\ (m + 1) - 1 = m
      <4>1. DOMAIN issued = 1 .. Len(issued)
        BY DEF Types
      <4> QED
        BY <2>1, <4>1
    <3>2. Current(issued[m + 1].channels[1], (m + 1) - 1)
      BY <2>6, <3>1, Zenon DEF Asked
    <3>3. Current(c, m)
      BY <2>3, <3>1, <3>2
    <3> QED
      BY <1>5, <3>3
  <2> QED
    BY <2>4, <2>5, <2>6
<1>8. Served = m
  BY <1>4, <1>6, <1>7
<1>9. subs = {}
  BY <1>5, <1>8 DEF ServerKnown, Types
<1>10. ASSUME NEW i \in DOMAIN Pipe', Pipe'[i].type = "message" PROVE FALSE
  <2>1. PICK s \in 1 .. Served' : MessageRight(m, i, s)'
    BY <1>10 DEF Known, MessagesKnown
  <2>2. PICK c \in Channel : c = Pipe'[i].channel
    <3>1. Pipe # <<>> /\ Pipe' = Tail(Pipe)
      BY PopFacts DEF Pops
    <3>2. i \in 1 .. Len(Pipe) - 1 /\ Len(Pipe) \in Nat /\ Pipe'[i] = Pipe[i + 1] /\ DOMAIN Pipe = 1 .. Len(Pipe)
      BY <1>10, <3>1, TailOfPipe
    <3>3. i + 1 \in DOMAIN Pipe
      BY <3>2
    <3>4. Pipe'[i] \in Replies
      BY <3>2, <3>3, PipeFacts
    <3> QED
      BY <1>10, <3>4 DEF Replies
  <2>3. Subscribes(s, c)
    BY <1>2, <2>1, <2>2 DEF MessageRight, Subscribes, Kind
  <2>4. \A u \in s .. m : ~ Unsubscribes(u, c)
    BY <1>2, <1>6, <1>7, <1>8, <2>1, <2>2 DEF MessageRight, Unsubscribes, Kind, Done
  <2>5. Current(c, m)
    BY <1>2, <1>8, <2>1, <2>3, <2>4 DEF Current
  <2> QED
    BY <1>5, <2>5
<1> QED
  BY <1>7, <1>9, <1>10

\* The protocol after a reply about a subscription.
LEMMA PubSubProtocol ==
    ASSUME Types, Types', Queues, Queues', OneChannel, Asked, ServerKnown, ChannelsKnown, Counted, Modes,
           Orderly, NEW n \in Nat, Known(n), Protocol(n), PubSubReply,
           NEW m \in Nat, m = Next1(n), Known(m)'
    PROVE  Protocol(m)'
<1>1. /\ reader # <<>> /\ replies = <<>> /\ UNCHANGED <<replies, issued, subs, closed>>
      /\ Pipe # <<>> /\ Pipe' = Tail(Pipe) /\ Served' = Served
  BY PubSubFacts, PopFacts DEF Pops
<1>2. CallbacksKept(m)'
  BY PubSubCallbacks
<1>3. Quiet(m)'
  BY <1>2, PubSubQuiet DEF Orderly
<1>4. Unasked'
  BY <1>1, UnaskedPopped DEF Protocol
<1>5. RegularsFirst(m)'
  <2>1. Len(issued) \in Nat /\ Served \in 0 .. Len(issued) /\ m \in 0 .. Served /\ n <= m
    BY <1>1, QueueFacts DEF Known, AnswersKnown, Next1
  <2>2. m + Len(<<>>) = m /\ n + Len(<<>>) = n /\ DOMAIN <<>> = {}
    OBVIOUS
  <2>3. \A id \in m + Len(replies') + 1 .. Len(issued) : Kind(id) \notin Regular
    <3>1. \A id \in n + Len(replies) + 1 .. Len(issued) : Kind(id) \notin Regular
      BY DEF Protocol, RegularsFirst
    <3>2. \A id \in n + 1 .. Len(issued) : Kind(id) \notin Regular
      BY <1>1, <2>2, <3>1
    <3>3. \A id \in m + 1 .. Len(issued) : id \in n + 1 .. Len(issued)
      BY <2>1
    <3> QED
      BY <1>1, <2>2, <3>2, <3>3
  <2>4. m + 1 .. m = {} /\ ~ (Served < m)
    BY <2>1
  <2> QED
    BY <1>1, <2>1, <2>2, <2>3, <2>4 DEF RegularsFirst, Kind
<1> QED
  BY <1>2, <1>3, <1>4, <1>5 DEF Protocol

\* What comes when no regular command waits is about a subscription.
LEMMA SpontaneousHead ==
    ASSUME Types, Queues, OneChannel, NEW n \in Nat, Known(n), Protocol(n), Spontaneous
    PROVE  "SUBSCRIBED" \in flags /\ Head(reader).type \in {"subscribe", "unsubscribe", "message"}
<1>1. reader # <<>> /\ replies = <<>> /\ Head(reader).type # "error"
  BY DEF Spontaneous
<1>2. Pipe # <<>> /\ Pipe[1] = Head(reader) /\ 1 \in DOMAIN Pipe /\ Pipe[1] \in Replies
  BY <1>1, PipeFacts, EmptySeq
<1>3. n + Len(replies) = n
  BY <1>1
<1>4. Len(issued) \in Nat /\ Served \in 0 .. Len(issued)
  BY QueueFacts
<1>5. Answer(Pipe[1]) => n + 1 \in 1 .. Len(issued) /\ AnswerRight(Pipe[1]) /\ Pipe[1].to = n + 1
  BY <1>2, <1>4, HeadAnswer DEF Known
<1>6. Pipe[1].type # "line"
  BY <1>2 DEF Protocol, Unasked
<1>7. Pipe[1].type # "reply"
  <2>1. SUFFICES ASSUME Pipe[1].type = "reply" PROVE FALSE
    OBVIOUS
  <2>2. n + 1 \in 1 .. Len(issued) /\ Kind(n + 1) \in Regular
    BY <1>5, <2>1 DEF Answer, AnswerRight
  <2>3. n + 1 \in n + Len(replies) + 1 .. Len(issued)
    BY <1>3, <2>2
  <2> QED
    BY <2>2, <2>3 DEF Protocol, RegularsFirst
<1>8. Pipe[1].type \in {"subscribe", "unsubscribe", "message"}
  BY <1>1, <1>2, <1>6, <1>7 DEF Replies
<1>9. SUFFICES ASSUME "SUBSCRIBED" \notin flags PROVE FALSE
  BY <1>2, <1>8
<1>10. n = Len(issued) /\ Pipe[1].type # "message"
  BY <1>2, <1>3, <1>9 DEF Protocol, Quiet
<1> QED
  BY <1>4, <1>5, <1>8, <1>10 DEF Answer

\* A disciplined user meets no reply that nobody waits for.
LEMMA NeverUnexpected ==
    ASSUME Types, Queues, OneChannel, NEW n \in Nat, Known(n), Protocol(n)
    PROVE  ~ Unexpected /\ ~ MonitorLine /\ ~ InvalidReply
<1>1. ASSUME Unexpected \/ MonitorLine \/ InvalidReply PROVE Spontaneous
  BY <1>1 DEF Unexpected, MonitorLine, InvalidReply
<1>2. ~ Unexpected /\ ~ MonitorLine
  <2>1. Spontaneous => ~ (flags \intersect {"SUBSCRIBED", "MONITORING"} \subseteq {"MONITORING"})
    BY SpontaneousHead
  <2> QED
    BY <1>1, <2>1 DEF Unexpected, MonitorLine
<1>3. ~ InvalidReply
  <2>1. Spontaneous => Head(reader).type \notin {"reply", "line"}
    BY SpontaneousHead
  <2> QED
    BY <2>1 DEF InvalidReply
<1> QED
  BY <1>2, <1>3

\* The connection of a disciplined user: the next step of the protocol.
LEMMA ProtocolStep ==
    ASSUME Types, Types', Queues, Queues', OneChannel, Asked, ServerKnown, ChannelsKnown, Counted, Modes,
           Discipline, Orderly, [Next]_vars, Live, Live',
           NEW n \in Nat, Known(n), Over \/ Protocol(n),
           NEW m \in Nat, m = IF Pops THEN Next1(n) ELSE n, Known(m)'
    PROVE  (Over \/ Protocol(m))'
<1>1. CASE Over
  <2>1. ~ Pops
    BY <1>1, PopFacts DEF Over
  <2>2. ~ Serve /\ ~ Push /\ ~ Close
    BY <1>1 DEF Over, Serve, Push, Close
  <2>3. CASE \E k \in session.commands : AsyncCommand(k)
    BY <1>1, <2>3, CommandKnows DEF Over
  <2>4. CASE \A k \in session.commands : ~ AsyncCommand(k)
    BY <1>1, <2>1, <2>2, <2>4, PipeKept DEF Over
  <2> QED
    BY <2>3, <2>4
<1>2. CASE Protocol(n)
  <2>1. CASE Pops
    <3>1. CASE RegularReply
      BY <1>2, <2>1, <3>1, RegularProtocol
    <3>2. CASE PubSubReply
      BY <1>2, <2>1, <3>2, PubSubProtocol
    <3>3. ~ SpontaneousError
      BY DEF SpontaneousError, AsyncDisconnect, Live
    <3> QED
      BY <1>2, <2>1, <3>1, <3>2, <3>3, NeverUnexpected DEF Pops
  <2>2. CASE ~ Pops /\ (Serve \/ Push \/ Close)
    BY <1>2, <2>2, ProtocolServer
  <2>3. CASE ~ Pops /\ \E k \in session.commands : AsyncCommand(k)
    <3>1. PICK k \in session.commands : AsyncCommand(k)
      BY <2>3
    <3>2. Pipe' = Pipe /\ Served' = Served
      BY <3>1, CommandKnows
    <3> QED
      BY <1>2, <2>3, <3>1, <3>2, ProtocolCommand
  <2>4. CASE ~ Pops /\ ~ (Serve \/ Push \/ Close) /\ \A k \in session.commands : ~ AsyncCommand(k)
    BY <1>2, <2>4, ProtocolKept
  <2> QED
    BY <2>1, <2>2, <2>3, <2>4
<1> QED
  BY <1>1, <1>2

\* After every step some number of the commands is answered and processed.
LEMMA PipeStep ==
    ASSUME Types, Types', Queues, Queues', OneChannel, Asked, ServerKnown, ChannelsKnown, Counted, Modes,
           Discipline, [Next]_vars, NEW n \in Nat, PipeKnown(n)
    PROVE  \E m \in Nat : PipeKnown(m)'
<1>1. Known(n)
  BY DEF PipeKnown, Known
<1>2. PICK m \in Nat : m = (IF Pops THEN Next1(n) ELSE n) /\ Known(m)'
  BY <1>1, KnownStep
<1>3. ASSUME Orderly', Live' PROVE (Over \/ Protocol(m))'
  <2>1. Orderly /\ Live
    BY <1>3, OrderlyKept, LiveBefore
  <2>2. Over \/ Protocol(n)
    BY <2>1 DEF PipeKnown
  <2> QED
    BY <1>1, <1>2, <1>3, <2>1, <2>2, ProtocolStep
<1> QED
  BY <1>2, <1>3 DEF PipeKnown, Known

\* No reply of a disciplined user is misdirected, and no assertion fails.
LEMMA DirectedStep ==
    ASSUME Types, Queues, OneChannel, Asked, ChannelsKnown, Modes, Discipline, Directed,
           [Next]_vars, NEW n \in Nat, PipeKnown(n)
    PROVE  Directed'
<1> SUFFICES ASSUME Orderly, ~ misdirected, at # "abort" PROVE ~ misdirected' /\ at' # "abort"
  BY OrderlyKept DEF Directed
<1>0. Known(n)
  BY DEF PipeKnown, Known
<1>1. CASE UNCHANGED vars
  BY <1>1 DEF vars, client, history
<1>2. ASSUME NEW e, NEW fl, AsyncDisconnect(e, fl), e # "none" \/ replies = <<>> PROVE at' # "abort"
  BY <1>2 DEF AsyncDisconnect
<1>3. CASE \E k \in session.commands : AsyncCommand(k)
  BY <1>3 DEF AsyncCommand
<1>4. CASE Disconnect \/ Free \/ Return
  BY <1>2, <1>4 DEF Disconnect, Free, Return, Types
<1>5. CASE ConnectFails \/ ReadEOF \/ WriteFails
  BY <1>2, <1>5 DEF ConnectFails, ReadEOF, WriteFails
<1>6. CASE \/ HandleTimeout \/ (\E i \in 0 .. Len(fromServer) : HandleRead(i))
           \/ \E i \in 0 .. Len(obuf) : HandleWrite(i)
  BY <1>6 DEF HandleTimeout, HandleRead, HandleWrite, history
<1>7. CASE NoReply
  BY <1>2, <1>7 DEF NoReply, LastReplyCame
<1>8. ASSUME Pops \/ Unexpected PROVE Protocol(n)
  <2>1. at = "process" /\ reader # <<>>
    BY <1>8, PopFacts DEF Unexpected, Spontaneous
  <2>2. ~ Over
    BY <2>1, PipeFacts DEF Over
  <2> QED
    BY <2>1, <2>2 DEF PipeKnown, Live
<1>9. CASE RegularReply
  <2>1. Meant(Head(reader), Head(replies))
    BY <1>0, <1>8, <1>9, RegularMeant DEF Pops
  <2> QED
    BY <1>9, <2>1 DEF RegularReply, Deliver, RunCallback
<1>10. CASE SpontaneousError
  <2>1. Protocol(n) /\ reader # <<>> /\ Head(reader).type = "error"
    BY <1>8, <1>10 DEF Pops, SpontaneousError
  <2>2. Pipe[1] = Head(reader) /\ 1 \in DOMAIN Pipe
    BY <2>1, PipeFacts, EmptySeq
  <2>3. Head(reader).to = 0
    BY <2>1, <2>2 DEF Protocol, Unasked
  <2> QED
    BY <1>2, <1>10, <2>3 DEF SpontaneousError
<1>11. CASE Unexpected \/ MonitorLine \/ InvalidReply
  BY <1>0, <1>8, <1>11, NeverUnexpected DEF Pops
<1>12. CASE PubSubReply
  <2>1. PubSub(Head(reader)) /\ channels[Head(reader).channel] # Null
    BY <1>0, <1>8, <1>12, PubSubFacts, PubSubFound DEF Pops
  <2>2. \E entry : Deliver(Head(reader), entry) /\ entry.id = channels[Head(reader).channel].id
    BY <2>1 DEF PubSub
  <2>3. PICK entry : Deliver(Head(reader), entry) /\ entry.id = channels[Head(reader).channel].id
    BY <2>2
  <2>4. Meant(Head(reader), entry)
    BY <1>12, <2>1, <2>3, PubSubMeant
  <2> QED
    BY <2>3, <2>4 DEF Deliver, RunCallback
<1>13. CASE TimeoutTurn
  BY <1>2, <1>13 DEF TimeoutTurn, RunCallback
<1>14. CASE FreeTurn \/ FreeEnd \/ \E c \in Channel : FreeSubscription(c)
  BY <1>14 DEF FreeTurn, FreeEnd, FreeSubscription, RunCallback
<1>15. CASE Serve \/ Push \/ Close
  BY <1>15 DEF Serve, Push, Close, client, history
<1> QED
  BY <1>1, <1>3, <1>4, <1>5, <1>6, <1>7, <1>9, <1>10, <1>11, <1>12, <1>13, <1>14, <1>15, Steps

--------------------------------------------------------------------------------
(* Each callback of a regular command runs once. *)

\* The callback at the head is taken off and run.
LEMMA OncePopped ==
    ASSUME Types, OneChannel, Orderly, Once, replies # <<>>, replies' = Tail(replies), UNCHANGED <<issued, session>>,
           NEW from, RunCallback(Head(replies), from)
    PROVE  Once'
<1>1. replies \in Seq(Callbacks) /\ ran \in [1 .. MaxCommands -> Nat]
  BY DEF Types, TypeOK
<1>2. /\ Len(replies) \in Nat /\ Len(replies) >= 1 /\ DOMAIN replies = 1 .. Len(replies)
      /\ DOMAIN replies' = 1 .. Len(replies) - 1
      /\ \A j \in 1 .. Len(replies) - 1 : replies'[j] = replies[j + 1]
      /\ Head(replies) = replies[1] /\ 1 \in DOMAIN replies
  BY <1>1, EmptySeq, LenProperties, HeadTailProperties
<1>3. DOMAIN issued = 1 .. Len(issued) /\ Len(issued) \in 0 .. MaxCommands /\ MaxCommands \in Nat
  BY IssuedFacts DEF Types
<1>4. PICK h \in 0 .. MaxCommands : h = Head(replies).id
  <2>1. replies[1] \in Callbacks
    BY <1>1, <1>2
  <2>2. replies[1].id \in 0 .. MaxCommands
    BY <2>1 DEF Callbacks
  <2> QED
    BY <1>2, <2>2
<1>5. \A j \in DOMAIN replies' : j + 1 \in DOMAIN replies /\ j + 1 # 1 /\ replies'[j] = replies[j + 1]
  BY <1>2
<1>6. /\ \A id \in 1 .. MaxCommands : id > Len(issued) => ran[id] = 0
      /\ \A id \in DOMAIN issued : Kind(id) = "regular" => ran[id] = IF Waiting(id) THEN 0 ELSE 1
      /\ \A j \in DOMAIN replies :
           replies[j].id # 0 => replies[j].id \in DOMAIN issued /\ Kind(replies[j].id) = "regular"
      /\ \A i, j \in DOMAIN replies : replies[i].id = replies[j].id /\ i # j => replies[i].id = 0
  BY DEF Once
<1>7. \A id : Waiting(id)' => Waiting(id)
  <2> SUFFICES ASSUME NEW id, NEW j \in DOMAIN replies', replies'[j].id = id PROVE Waiting(id)
    BY DEF Waiting
  <2> QED
    BY <1>5 DEF Waiting
<1>8. \A id : id # h /\ Waiting(id) => Waiting(id)'
  <2> SUFFICES ASSUME NEW id, id # h, NEW j \in DOMAIN replies, replies[j].id = id
               PROVE  \E i \in DOMAIN replies' : replies'[i].id = id
    BY DEF Waiting
  <2>1. j \in 1 .. Len(replies) /\ j # 1
    BY <1>2, <1>4
  <2>2. j - 1 \in DOMAIN replies' /\ replies'[j - 1] = replies[j]
    <3>1. j - 1 \in 1 .. Len(replies) - 1 /\ (j - 1) + 1 = j
      BY <1>2, <2>1
    <3> QED
      BY <1>2, <3>1
  <2> QED
    BY <2>2
<1>9. h # 0 => h \in DOMAIN issued /\ Kind(h) = "regular" /\ ran[h] = 0 /\ ~ Waiting(h)'
  <2> SUFFICES ASSUME h # 0 PROVE h \in DOMAIN issued /\ Kind(h) = "regular" /\ ran[h] = 0 /\ ~ Waiting(h)'
    OBVIOUS
  <2>1. h \in DOMAIN issued /\ Kind(h) = "regular"
    BY <1>2, <1>4, <1>6
  <2>2. ran[h] = 0
    BY <1>2, <1>4, <1>6, <2>1 DEF Waiting
  <2>3. \A j \in DOMAIN replies' : replies'[j].id # h
    BY <1>2, <1>4, <1>5, <1>6
  <2> QED
    BY <2>1, <2>2, <2>3 DEF Waiting
<1>10. IF h = 0 THEN ran' = ran ELSE ran' = [ran EXCEPT ![h] = @ + 1]
  BY <1>4 DEF RunCallback
<1>11. \A id \in 1 .. MaxCommands : ran'[id] = IF id = h THEN ran[id] + 1 ELSE ran[id]
  BY <1>1, <1>3, <1>4, <1>10
<1>12. \A id \in 1 .. MaxCommands : id > Len(issued) => ran'[id] = 0
  BY <1>3, <1>6, <1>9, <1>11
<1>13. ASSUME NEW id \in DOMAIN issued, Kind(id) = "regular" PROVE ran'[id] = IF Waiting(id)' THEN 0 ELSE 1
  <2>1. id \in 1 .. MaxCommands /\ id # 0
    BY <1>3
  <2>2. CASE id = h
    BY <1>9, <1>11, <2>1, <2>2
  <2>3. CASE id # h
    BY <1>6, <1>7, <1>8, <1>11, <1>13, <2>1, <2>3
  <2> QED
    BY <2>2, <2>3
<1>14. \A j \in DOMAIN replies' :
         replies'[j].id # 0 => replies'[j].id \in DOMAIN issued /\ Kind(replies'[j].id) = "regular"
  BY <1>5, <1>6
<1>15. ASSUME NEW i \in DOMAIN replies', NEW j \in DOMAIN replies', replies'[i].id = replies'[j].id, i # j
       PROVE  replies'[i].id = 0
  <2>1. i + 1 # j + 1
    BY <1>2, <1>15
  <2> QED
    BY <1>5, <1>6, <1>15, <2>1
<1> QED
  BY <1>12, <1>13, <1>14, <1>15 DEF Once, Kind

\* The callback of a subscription is run.
LEMMA OnceSubscription ==
    ASSUME Types, OneChannel, ChannelsKnown, Orderly, Once, UNCHANGED <<replies, issued, session>>,
           NEW c \in Channel, channels[c] # Null, NEW callback, callback.id = channels[c].id,
           NEW from, RunCallback(callback, from)
    PROVE  Once'
<1>1. channels[c].id \in 1 .. Len(issued) /\ Kind(channels[c].id) = "subscribe" /\ DOMAIN issued = 1 .. Len(issued)
  BY DEF ChannelsKnown, Subscribes, Types
<1>2. ran \in [1 .. MaxCommands -> Nat] /\ Len(issued) \in 0 .. MaxCommands /\ MaxCommands \in Nat
  BY IssuedFacts DEF Types, TypeOK
<1>3. PICK x \in 1 .. MaxCommands : x = channels[c].id
  BY <1>1, <1>2
<1>4. ran' = [ran EXCEPT ![x] = @ + 1]
  BY <1>3 DEF RunCallback
<1>5. \A id \in 1 .. MaxCommands : id # x => ran'[id] = ran[id]
  BY <1>2, <1>4
<1>6. \A id : Waiting(id)' <=> Waiting(id)
  BY DEF Waiting
<1>7. \A id \in 1 .. MaxCommands : id > Len(issued) => ran'[id] = 0
  BY <1>1, <1>2, <1>3, <1>5 DEF Once
<1>8. \A id \in DOMAIN issued : Kind(id) = "regular" => ran'[id] = IF Waiting(id)' THEN 0 ELSE 1
  BY <1>1, <1>2, <1>3, <1>5, <1>6 DEF Once
<1> QED
  BY <1>7, <1>8 DEF Once, Kind, Waiting

\* A command that is issued waits, and has not run.
LEMMA OnceCommand ==
    ASSUME Types, OneChannel, Orderly, Once, NEW k \in session.commands, AsyncCommand(k)
    PROVE  Once'
<1>1. /\ issued' = Append(issued, k) /\ UNCHANGED ran /\ Len(issued) < session.length
      /\ k.kind \in Regular => "SUBSCRIBED" \notin flags
  BY DEF AsyncCommand, MayIssue, Orderly
<1>2. /\ Len(issued) \in Nat /\ DOMAIN issued = 1 .. Len(issued) /\ DOMAIN issued' = 1 .. Len(issued) + 1
      /\ \A id \in 1 .. Len(issued) : issued'[id] = issued[id]
      /\ issued'[Len(issued) + 1] = k
      /\ Len(issued') = Len(issued) + 1
  BY <1>1, LogGrown
<1>3. Len(issued) + 1 \in 1 .. MaxCommands /\ MaxCommands \in Nat
  BY <1>1, <1>2, IssuedFacts
<1>4. /\ \A id \in 1 .. MaxCommands : id > Len(issued) => ran[id] = 0
      /\ \A id \in DOMAIN issued : Kind(id) = "regular" => ran[id] = IF Waiting(id) THEN 0 ELSE 1
      /\ \A j \in DOMAIN replies :
           replies[j].id # 0 => replies[j].id \in DOMAIN issued /\ Kind(replies[j].id) = "regular"
      /\ \A i, j \in DOMAIN replies : replies[i].id = replies[j].id /\ i # j => replies[i].id = 0
  BY DEF Once
<1>5. \A id \in DOMAIN issued : Kind(id)' = Kind(id)
  BY <1>2 DEF Kind
<1>7. CASE k.kind \in {"regular", "silent"}
  <2> DEFINE x == IF k.kind = "silent" THEN 0 ELSE Len(issued) + 1
             callback == [id |-> x, pending_subs |-> 1]
  <2>1. replies' = Append(replies, callback)
    BY <1>1, <1>7 DEF AsyncCommand, PushCallback, Regular
  <2>2. replies \in Seq(Callbacks) /\ Len(replies) \in Nat /\ DOMAIN replies = 1 .. Len(replies)
    BY LenProperties DEF Types, TypeOK
  <2>3. /\ DOMAIN replies' = 1 .. Len(replies) + 1
        /\ \A j \in 1 .. Len(replies) : replies'[j] = replies[j]
        /\ replies'[Len(replies) + 1].id = x
    <3>1. callback.id = x
      OBVIOUS
    <3> HIDE DEF callback, x
    <3> QED
      BY <2>1, <2>2, <3>1
  <2>4. x = 0 \/ (x = Len(issued) + 1 /\ k.kind = "regular")
    BY <1>7
  <2>5. k.kind = "regular" => x = Len(issued) + 1
    BY <1>2
  <2> HIDE DEF callback, x
  <2>6. \A id \in 1 .. Len(issued) : Waiting(id)' <=> Waiting(id)
    BY <1>2, <2>2, <2>3, <2>4 DEF Waiting
  <2>7. k.kind = "regular" => \E j \in DOMAIN replies' : replies'[j].id = Len(issued) + 1
    BY <2>2, <2>3, <2>5
  <2>8. \A id \in 1 .. MaxCommands : id > Len(issued') => ran'[id] = 0
    BY <1>1, <1>2, <1>4
  <2>9. ASSUME NEW id \in DOMAIN issued', issued'[id].kind = "regular"
        PROVE  ran'[id] = IF \E j \in DOMAIN replies' : replies'[j].id = id THEN 0 ELSE 1
    <3>1. CASE id \in DOMAIN issued
      BY <1>1, <1>2, <1>4, <2>6, <2>9, <3>1 DEF Waiting, Kind
    <3>2. CASE id = Len(issued) + 1
      BY <1>1, <1>2, <1>3, <1>4, <2>7, <2>9, <3>2
    <3> QED
      BY <1>2, <2>9, <3>1, <3>2
  <2>10. \A j \in DOMAIN replies' :
           replies'[j].id # 0 => replies'[j].id \in DOMAIN issued' /\ issued'[replies'[j].id].kind = "regular"
    BY <1>2, <1>4, <2>2, <2>3, <2>4 DEF Kind
  <2>11. ASSUME NEW i \in DOMAIN replies', NEW j \in DOMAIN replies', replies'[i].id = replies'[j].id, i # j
         PROVE  replies'[i].id = 0
    <3>1. \A a \in 1 .. Len(replies) : replies[a].id # Len(issued) + 1
      BY <1>2, <1>4, <2>2
    <3> QED
      BY <1>2, <1>4, <2>2, <2>3, <2>4, <2>11, <3>1
  <2> QED
    BY <2>8, <2>9, <2>10, <2>11 DEF Once, Kind, Waiting
<1>8. CASE k.kind \notin {"regular", "silent"}
  <2>1. UNCHANGED replies
    <3>1. k.kind # "monitor" /\ k \in Commands
      BY IssuedFacts DEF Orderly
    <3> QED
      BY <1>8, <3>1 DEF AsyncCommand, Commands
  <2>2. \A id \in 1 .. MaxCommands : id > Len(issued') => ran'[id] = 0
    BY <1>1, <1>2, <1>4
  <2>3. \A id \in DOMAIN issued' : issued'[id].kind = "regular" => id \in DOMAIN issued
    BY <1>2, <1>8
  <2>4. \A id \in DOMAIN issued' :
          issued'[id].kind = "regular" => ran'[id] = IF Waiting(id)' THEN 0 ELSE 1
    BY <1>1, <1>2, <1>4, <2>1, <2>3 DEF Waiting, Kind
  <2>5. \A j \in DOMAIN replies' :
           replies'[j].id # 0 => replies'[j].id \in DOMAIN issued' /\ issued'[replies'[j].id].kind = "regular"
    BY <1>2, <1>4, <2>1 DEF Kind
  <2> QED
    BY <1>4, <2>1, <2>2, <2>4, <2>5 DEF Once, Kind
<1> QED
  BY <1>7, <1>8

\* Once under every step.
LEMMA OnceStep ==
    ASSUME Types, Queues, OneChannel, Asked, ChannelsKnown, Modes, Discipline, Once,
           [Next]_vars, NEW n \in Nat, PipeKnown(n)
    PROVE  Once'
<1> SUFFICES ASSUME Orderly PROVE Once'
  BY OrderlyKept DEF Once
<1>0. Known(n)
  BY DEF PipeKnown, Known
<1>1. session' = session
  BY LogKept
<1>2. ASSUME UNCHANGED <<replies, ran, issued>> PROVE Once'
  BY <1>2 DEF Once, Kind, Waiting, Orderly
<1>3. CASE UNCHANGED vars
  BY <1>2, <1>3 DEF vars, client, history
<1>4. ASSUME NEW k \in session.commands, AsyncCommand(k) PROVE Once'
  BY <1>4, OnceCommand
<1>5. CASE \/ Disconnect \/ Free \/ Return \/ ConnectFails \/ ReadEOF \/ WriteFails
  BY <1>2, <1>5 DEF Disconnect, Free, Return, ConnectFails, ReadEOF, WriteFails
<1>6. CASE \/ HandleTimeout \/ (\E i \in 0 .. Len(fromServer) : HandleRead(i))
           \/ \E i \in 0 .. Len(obuf) : HandleWrite(i)
  BY <1>2, <1>6 DEF HandleTimeout, HandleRead, HandleWrite, history
<1>7. CASE NoReply
  BY <1>2, <1>7 DEF NoReply, Discipline
<1>8. ASSUME Pops PROVE Protocol(n)
  <2>1. at = "process" /\ reader # <<>>
    BY <1>8, PopFacts
  <2>2. ~ Over
    BY <2>1, PipeFacts DEF Over
  <2> QED
    BY <2>1, <2>2 DEF PipeKnown, Live
<1>9. CASE RegularReply
  <2>1. replies # <<>> /\ replies' = Tail(replies) /\ UNCHANGED issued /\ RunCallback(Head(replies), "process")
    BY <1>9 DEF RegularReply, Deliver
  <2> QED
    BY <1>1, <2>1, OncePopped
<1>10. CASE SpontaneousError
  BY <1>2, <1>10 DEF SpontaneousError
<1>11. CASE Unexpected
  BY <1>2, <1>11 DEF Unexpected, history
<1>12. CASE MonitorLine \/ InvalidReply
  BY <1>0, <1>8, <1>12, NeverUnexpected DEF Pops
<1>13. CASE PubSubReply
  <2>1. PubSub(Head(reader)) /\ channels[Head(reader).channel] # Null /\ Head(reader).channel \in Channel
        /\ UNCHANGED <<replies, issued>>
    BY <1>0, <1>8, <1>13, PubSubFacts, PubSubFound DEF Pops
  <2>2. \E entry : Deliver(Head(reader), entry) /\ entry.id = channels[Head(reader).channel].id
    BY <2>1 DEF PubSub
  <2>3. PICK entry : Deliver(Head(reader), entry) /\ entry.id = channels[Head(reader).channel].id
    BY <2>2
  <2>4. RunCallback(entry, "process")
    BY <2>3 DEF Deliver
  <2> QED
    BY <1>1, <2>1, <2>3, <2>4, OnceSubscription
<1>14. CASE TimeoutTurn
  <2>1. UNCHANGED issued
    BY <1>14 DEF TimeoutTurn
  <2>2. CASE replies # <<>>
    BY <1>1, <1>14, <2>1, <2>2, OncePopped DEF TimeoutTurn
  <2>3. CASE replies = <<>>
    BY <1>2, <1>14, <2>1, <2>3 DEF TimeoutTurn
  <2> QED
    BY <2>2, <2>3
<1>15. CASE FreeTurn
  <2>1. UNCHANGED issued /\ replies # <<>>
    BY <1>15 DEF FreeTurn, FreeTurns, Discipline
  <2> QED
    BY <1>1, <1>15, <2>1, OncePopped DEF FreeTurn
<1>16. ASSUME NEW c \in Channel, FreeSubscription(c) PROVE Once'
  <2>1. channels[c] # Null /\ RunCallback(channels[c], "free") /\ UNCHANGED <<replies, issued>>
    BY <1>16 DEF FreeSubscription
  <2> QED
    BY <1>1, <2>1, OnceSubscription
<1>17. CASE FreeEnd
  BY <1>2, <1>17 DEF FreeEnd
<1>18. CASE Serve \/ Push \/ Close
  BY <1>2, <1>18 DEF Serve, Push, Close, client, history
<1> QED
  BY <1>3, <1>4, <1>5, <1>6, <1>7, <1>9, <1>10, <1>11, <1>12, <1>13, <1>14, <1>15, <1>16, <1>17, <1>18, Steps

--------------------------------------------------------------------------------
(* The theorems. *)

\* The invariant holds at the start, ...
LEMMA InvInit ==
    ASSUME Init
    PROVE  Inv
<1>1. /\ session \in Session /\ MaxCommands \in Nat
      /\ flags = {} /\ err = "none" /\ replies = <<>> /\ invalid = <<>>
      /\ channels = [c \in Channel |-> Null]
      /\ obuf = <<>> /\ reader = <<>> /\ cb = Null /\ at = "loop" /\ ret = "loop"
      /\ toServer = <<>> /\ fromServer = <<>>
      /\ subs = {} /\ watching = 0 /\ closed = FALSE /\ pushes = 0
      /\ issued = <<>> /\ ran = [i \in 1 .. MaxCommands |-> 0]
      /\ misdirected = FALSE /\ unconfirmed = [c \in Channel |-> 0]
      /\ cause = "none" /\ told = "none"
  BY AsyncAssumption DEF Init
<1>2. Null \in Callbacks
  BY <1>1 DEF Null, Callbacks
<1>3. TypeOK
  BY <1>1, <1>2 DEF TypeOK
<1>4. session.length \in Nat
  BY <1>1, AsyncAssumption
<1>5. Len(issued) = 0 /\ Len(toServer) = 0 /\ Len(obuf) = 0 /\ DOMAIN issued = {} /\ DOMAIN toServer = {}
      /\ DOMAIN obuf = {} /\ DOMAIN replies = {} /\ Len(replies) = 0
  BY <1>1
<1>6. Types
  <2>1. obuf \in Seq(Nat) /\ toServer \in Seq(Nat) /\ reader \in Seq(Replies) /\ fromServer \in Seq(Replies)
        /\ issued \in Seq(session.commands)
    BY <1>1
  <2>2. subs \subseteq Channel /\ IsFiniteSet(subs) /\ Len(issued) <= session.length
    BY <1>1, <1>4, <1>5, FS_EmptySet
  <2>3. misdirected \in BOOLEAN /\ closed \in BOOLEAN
    BY <1>1, Zenon
  <2>4. unconfirmed \in [Channel -> Int] /\ watching \in Nat /\ pushes \in Nat
        /\ ret \in {"loop", "process", "timeout", "free"}
    <3>1. watching = 0 /\ pushes = 0 /\ ret = "loop" /\ unconfirmed = [c \in Channel |-> 0]
      BY <1>1, Zenon
    <3> QED
      BY <3>1
  <2> QED
    BY <1>3, <2>1, <2>2, <2>3, <2>4, Zenon DEF Types
<1>7. Served = 0
  BY <1>5 DEF Served
<1>8. Pipe = <<>> /\ DOMAIN Pipe = {}
  BY <1>1 DEF Pipe
<1>9. Queues /\ Asked /\ ServerKnown /\ ChannelsKnown /\ Counted
  BY <1>1, <1>5, <1>7 DEF Queues, Asked, ServerKnown, ChannelsKnown, Counted
<1>10. Modes /\ Discipline /\ Directed /\ ModeKept
  BY <1>1 DEF Modes, Discipline, Directed, ModeKept, Live, InTimeout, InFree
<1>11. Once
  BY <1>1, <1>5 DEF Once
<1>12. \A c : Awaited(0, c) = {} /\ ~ Current(c, 0)
  BY <1>5 DEF Awaited, Current
<1>13. AnswersKnown(0) /\ MessagesKnown(0)
  BY <1>7, <1>8 DEF AnswersKnown, MessagesKnown
<1>14. AwaitedCounted(0)
  BY <1>1, <1>12, FS_EmptySet DEF AwaitedCounted
<1>15. RegularsFirst(0)
  BY <1>1, <1>5, <1>7, <1>8 DEF RegularsFirst
<1>16. CallbacksKept(0)
  BY <1>12 DEF CallbacksKept
<1>17. Quiet(0) /\ Unasked
  BY <1>1, <1>5, <1>8 DEF Quiet, Unasked
<1>18. PipeKnown(0)
  BY <1>13, <1>14, <1>15, <1>16, <1>17 DEF PipeKnown, Protocol
<1> QED
  BY <1>6, <1>9, <1>10, <1>11, <1>18 DEF Inv

\* ... and every step preserves it, ...
LEMMA InvStep ==
    ASSUME OneChannel, Inv, [Next]_vars
    PROVE  Inv'
<1>1. /\ Types /\ Queues /\ Asked /\ ServerKnown /\ ChannelsKnown /\ Counted
      /\ Modes /\ Discipline /\ Directed /\ Once /\ ModeKept
  BY DEF Inv
<1>2. PICK n \in Nat : PipeKnown(n)
  BY DEF Inv
<1>3. AnswersKnown(n) /\ AwaitedCounted(n)
  BY <1>2 DEF PipeKnown
<1>4. Types' /\ Queues'
  BY <1>1, TypesStep, QueuesStep
<1>5. Asked' /\ ServerKnown' /\ ChannelsKnown'
  BY <1>1, AskedStep, ServerStep, ChannelsStep
<1>6. Counted' /\ ModeKept'
  BY <1>1, <1>3, CountedStep, ModeKeptStep
<1>7. Modes' /\ Discipline'
  BY <1>1, ModesStep, DisciplineStep
<1>8. Directed' /\ Once'
  BY <1>1, <1>2, DirectedStep, OnceStep
<1>9. \E m \in Nat : PipeKnown(m)'
  BY <1>1, <1>2, <1>4, PipeStep
<1> QED
  BY <1>4, <1>5, <1>6, <1>7, <1>8, <1>9 DEF Inv

\* ... hence it holds always.
LEMMA InvAlways ==
    ASSUME OneChannel
    PROVE  Spec => []Inv
<1>1. Init => Inv
  BY InvInit
<1>2. Inv /\ [Next]_vars => Inv'
  BY InvStep
<1> QED
  BY <1>1, <1>2, PTL DEF Spec

(* pending_subs counts the SUBSCRIBEs of a channel that are not confirmed, and a       *)
(* disciplined user's client stays in subscribed mode as long as it has a subscription *)
(* (__redisAsyncCommand and __redisGetSubscribeCallback), whatever is pipelined.       *)
THEOREM PendingAlwaysRight ==
    ASSUME OneChannel
    PROVE  Spec => []PendingIsRight
<1>1. Inv => PendingIsRight
  BY DEF Inv, Counted, ModeKept, PendingIsRight
<1> QED
  BY <1>1, InvAlways, PTL

(* With a disciplined user who does not monitor every reply, message and confirmation  *)
(* is given to the callback it is meant for, and no assertion of redisProcessCallbacks *)
(* and __redisAsyncDisconnect fails.                                                   *)
THEOREM RepliesAlwaysReach ==
    ASSUME OneChannel, NoMonitor
    PROVE  Spec => []RepliesReachTheirCallback
<1>1. Inv => RepliesReachTheirCallback
  <2> SUFFICES ASSUME Inv PROVE RepliesReachTheirCallback
    OBVIOUS
  <2>1. TypeOK
    BY DEF Inv, Types
  <2>2. session.disciplined => Orderly
    BY <2>1 DEF TypeOK, NoMonitor, Orderly
  <2> QED
    BY <2>1, <2>2 DEF Inv, Directed, RepliesReachTheirCallback
<1> QED
  BY <1>1, InvAlways, PTL

(* However the context ends (__redisAsyncFree, __redisAsyncDisconnect), the callback of *)
(* each regular command has run once, a disconnection drops no reply that is to come,   *)
(* and onDisconnect is told the cause.                                                  *)
THEOREM TearDownAlwaysClean ==
    ASSUME OneChannel, NoMonitor
    PROVE  Spec => []TearDownIsClean
<1>1. Inv => TearDownIsClean
  <2> SUFFICES ASSUME Inv PROVE TearDownIsClean
    OBVIOUS
  <2>1. TypeOK /\ Types /\ Modes /\ Discipline /\ Once
    BY DEF Inv, Types
  <2>2. SUFFICES ASSUME session.disciplined PROVE CallbackRunsOnce /\ StatusTellsCause /\ DisconnectIsClean
    BY <2>1 DEF TearDownIsClean, Modes
  <2>3. Orderly
    BY <2>1, <2>2 DEF TypeOK, NoMonitor, Orderly
  <2>4. DOMAIN issued = 1 .. Len(issued)
    BY <2>1 DEF Types
  <2>5. \A id \in 1 .. Len(issued) : Kind(id) = "regular" => ran[id] = IF Waiting(id) THEN 0 ELSE 1
    BY <2>1, <2>3, <2>4 DEF Once
  <2>6. replies = <<>> => \A id : ~ Waiting(id)
    BY DEF Waiting
  <2>7. CallbackRunsOnce
    BY <2>1, <2>5, <2>6 DEF CallbackRunsOnce, Modes
  <2>8. StatusTellsCause
    BY <2>1, <2>3 DEF StatusTellsCause, Status, Modes, Discipline, InFree, TypeOK
  <2>9. DisconnectIsClean
    BY <2>1, <2>3, <2>5, <2>6 DEF DisconnectIsClean, Discipline
  <2> QED
    BY <2>7, <2>8, <2>9
<1> QED
  BY <1>1, InvAlways, PTL

================================================================================
