------------------------------- MODULE RedisReader -------------------------------
(****************************************************************************)
(* The reply parser of hiredis (read.c) with the functions that build reply *)
(* objects (hiredis.c).  Bytes arrive in chunks of any size and are fed to  *)
(* the reader; a call of redisReaderGetReply parses as far as the bytes go  *)
(* and leaves the state of a half-read reply for the next call.  Each       *)
(* action inside such a call is one turn of its loop.                       *)
(*                                                                          *)
(* A reply under construction is a function from places to items: the root  *)
(* has the place <<>>, element j of the array at p the place p \o <<j>>.    *)
(* The text of a number is one byte here, so that no bound on digits is     *)
(* needed; LongLong has the conversion itself.                              *)
(****************************************************************************)
EXTENDS Integers, Sequences, SequencesExt, TLC

CONSTANTS
    MaxIndex,        \* the last place of rstack (8 in the code, counted from 0)
    MaxElements,     \* INT_MAX
    ConsumedLimit,   \* consumed bytes that are worth a memmove (1024 in the code)
    Stream,          \* what a server may send: [sent : replies, nilByte,
                     \* rest : the bytes after them]
    MaxOOM           \* bound: allocations that fail

ReaderAssumption ==
    /\ MaxIndex \in Nat \ {0}
    /\ MaxElements \in Nat
    /\ ConsumedLimit \in Nat
    /\ MaxOOM \in Nat

VARIABLES
    stream,     \* what the server sends in this run
    wire,       \* the bytes of it that have not been fed yet
    buf, pos,   \* the reader's buffer and the cursor in it
    rstack,     \* the tasks: one per array that is open, and the item being read
    reply,      \* the reply under construction; the empty function is NULL
    err,
    at,         \* "idle", or where redisReaderGetReply is
    emitted,    \* the replies the caller got
    oom         \* allocations that have failed

vars == <<stream, wire, buf, pos, rstack, reply, err, at, emitted, oom>>

NULL == <<>>
Newline == <<"\r", "\n">>

--------------------------------------------------------------------------------
(* What the server writes for a reply: its items in the order of a walk     *)
(* that visits an array before its elements.  A nil is written as a string  *)
(* or as an array of length -1.                                             *)

ItemBytes(item, nilByte) ==
    CASE item.type = "array" -> <<"*", ToString(item.value)>> \o Newline
      [] item.type = "integer" -> <<":", ToString(item.value)>> \o Newline
      [] item.type = "nil" -> <<nilByte, "-1">> \o Newline
      [] item.type = "status" -> <<"+">> \o item.value \o Newline
      [] item.type = "error" -> <<"-">> \o item.value \o Newline
      [] item.type = "string" ->
            <<"$", ToString(Len(item.value))>> \o Newline \o item.value \o Newline

WalkedBefore(p, q) ==
    \/ IsStrictPrefix(p, q)
    \/ \E k \in DOMAIN p \intersect DOMAIN q :
            p[k] < q[k] /\ \A l \in 1 .. k - 1 : p[l] = q[l]

ReplyBytes(tree, nilByte) ==
    LET walk == SetToSortSeq(DOMAIN tree, WalkedBefore)
    IN  FlattenSeq([k \in DOMAIN walk |-> ItemBytes(tree[walk[k]], nilByte)])

StreamBytes(s) ==
    FlattenSeq([k \in DOMAIN s.sent |-> ReplyBytes(s.sent[k], s.nilByte)]) \o s.rest

--------------------------------------------------------------------------------
(* The reader's helpers. *)

\* The strict conversion of read.c: the text is a number or it is refused.
IsNumber(text) == Len(text) = 1 /\ \E n \in -2 .. MaxElements + 1 : ToString(n) = text[1]
string2ll(text) == CHOOSE n \in -2 .. MaxElements + 1 : ToString(n) = text[1]

\* Where \r\n stands behind the cursor.
seekNewline == {p \in pos + 1 .. Len(buf) - 1 : SubSeq(buf, p, p + 1) = Newline}

HasLine == seekNewline # {}
Line == SubSeq(buf, pos + 1, Min(seekNewline) - 1)
LineBytes == Len(Line) + 2

task == Last(rstack)
newTask(idx) == [type |-> "none", elements |-> -1, idx |-> idx]
Path == [k \in 1 .. Len(rstack) - 1 |-> rstack[k + 1].idx]

TypeOfByte ==
    ("-" :> "error") @@ ("+" :> "status") @@ (":" :> "integer")
    @@ ("$" :> "string") @@ ("*" :> "array")

\* Mutant: an array that is complete is taken for one more element.
moveToNextTask_OneMore(stack) ==
    LET open == {k \in 2 .. Len(stack) : stack[k].idx < stack[k - 1].elements}
    IN  IF open = {} THEN <<>>
        ELSE SubSeq(stack, 1, Max(open) - 1) \o <<newTask(stack[Max(open)].idx + 1)>>

\* The tasks at the end of their arrays are taken down, then the next element
\* of the innermost open array is on; without one the reply is complete.
moveToNextTask(stack) ==
    LET open == {k \in 2 .. Len(stack) : stack[k].idx # stack[k - 1].elements - 1}
    IN  IF open = {} THEN <<>>
        ELSE SubSeq(stack, 1, Max(open) - 1) \o <<newTask(stack[Max(open)].idx + 1)>>

SetError(e) ==
    /\ err' = e /\ reply' = NULL
    /\ buf' = <<>> /\ pos' = 0 /\ rstack' = <<>>
    /\ at' = "idle"
    /\ UNCHANGED <<stream, wire, emitted>>

ProtocolError == SetError("PROTOCOL") /\ UNCHANGED oom

OutOfMemory == oom < MaxOOM /\ oom' = oom + 1 /\ SetError("OOM")

--------------------------------------------------------------------------------
(* The interface, and the turns of the parser's loop. *)

Init ==
    /\ stream \in Stream
    /\ wire = StreamBytes(stream)
    /\ buf = <<>> /\ pos = 0
    /\ rstack = <<>> /\ reply = NULL
    /\ err = "none" /\ at = "idle"
    /\ emitted = <<>> /\ oom = 0

\* After an error redisReaderFeed and redisReaderGetReply do nothing any more.
redisReaderFeed(n) ==
    /\ at = "idle" /\ err = "none"
    /\ \/ /\ buf' = buf \o SubSeq(wire, 1, n)
          /\ wire' = SubSeq(wire, n + 1, Len(wire))
          /\ UNCHANGED <<stream, pos, rstack, reply, err, at, emitted, oom>>
       \/ OutOfMemory

redisReaderGetReply ==
    /\ at = "idle" /\ err = "none"
    /\ buf # <<>>
    /\ rstack' = IF rstack = <<>> THEN <<newTask(-1)>> ELSE rstack
    /\ at' = "items"
    /\ UNCHANGED <<stream, wire, buf, pos, reply, err, emitted, oom>>

\* A turn of the loop that ends with REDIS_OK: n bytes are used.
Proceed(n, item, stack) ==
    /\ pos' = pos + n
    /\ reply' = reply @@ (Path :> item)
    /\ rstack' = stack
    /\ UNCHANGED <<stream, wire, buf, err, at, emitted, oom>>

Create(n, item, stack) == Proceed(n, item, stack) \/ OutOfMemory

\* A turn that ends with REDIS_ERR for want of bytes.
Wait == at' = "return" /\ UNCHANGED <<stream, wire, buf, pos, rstack, reply, err, emitted, oom>>

readType ==
    /\ task.type = "none"
    /\ IF pos = Len(buf) THEN Wait
       ELSE IF buf[pos + 1] \in DOMAIN TypeOfByte
       THEN /\ rstack' = [rstack EXCEPT ![Len(rstack)].type = TypeOfByte[buf[pos + 1]]]
            /\ pos' = pos + 1
            /\ UNCHANGED <<stream, wire, buf, reply, err, at, emitted, oom>>
       ELSE ProtocolError

processLineItem ==
    /\ task.type \in {"error", "status", "integer"}
    /\ IF ~HasLine THEN Wait
       ELSE IF task.type # "integer"
       THEN Create(LineBytes, [type |-> task.type, value |-> Line], moveToNextTask(rstack))
       ELSE IF IsNumber(Line)
       THEN Create(LineBytes, [type |-> "integer", value |-> string2ll(Line)],
                   moveToNextTask(rstack))
       ELSE ProtocolError

Nil == [type |-> "nil", value |-> 0]

BulkIsThere(len) == pos + LineBytes + len + 2 <= Len(buf)

processBulkItem ==
    /\ task.type = "string"
    /\ IF ~HasLine THEN Wait
       ELSE IF ~IsNumber(Line) THEN ProtocolError
       ELSE LET len == string2ll(Line) IN
            IF len < -1 THEN ProtocolError
            ELSE IF len = -1 THEN Create(LineBytes, Nil, moveToNextTask(rstack))
            ELSE IF ~BulkIsThere(len) THEN Wait
            ELSE Create(LineBytes + len + 2,
                        [type |-> "string",
                         value |-> SubSeq(buf, pos + LineBytes + 1, pos + LineBytes + len)],
                        moveToNextTask(rstack))

TooDeep == Len(rstack) = MaxIndex + 1

HasElements(n) == n > 0

processMultiBulkItem ==
    /\ task.type = "array"
    /\ IF TooDeep THEN ProtocolError
       ELSE IF ~HasLine THEN Wait
       ELSE IF ~IsNumber(Line) \/ string2ll(Line) < -1 \/ string2ll(Line) > MaxElements
       THEN ProtocolError
       ELSE LET n == string2ll(Line) IN
            IF n = -1 THEN Create(LineBytes, Nil, moveToNextTask(rstack))
            ELSE Create(LineBytes, [type |-> "array", value |-> n],
                        IF HasElements(n)
                        THEN Append([rstack EXCEPT ![Len(rstack)].elements = n], newTask(0))
                        ELSE moveToNextTask(rstack))

processItem ==
    /\ at = "items" /\ rstack # <<>>
    /\ readType \/ processLineItem \/ processBulkItem \/ processMultiBulkItem

BytesKept == IF pos >= ConsumedLimit THEN SubSeq(buf, pos + 1, Len(buf)) ELSE buf

Return ==
    /\ at = "return" \/ (at = "items" /\ rstack = <<>>)
    /\ buf' = BytesKept
    /\ pos' = IF pos >= ConsumedLimit THEN 0 ELSE pos
    /\ IF rstack = <<>>
       THEN emitted' = Append(emitted, reply) /\ reply' = NULL
       ELSE UNCHANGED <<emitted, reply>>
    /\ at' = "idle"
    /\ UNCHANGED <<stream, wire, rstack, err, oom>>

GetReply == processItem \/ Return

Next == (\E n \in 1 .. Len(wire) : redisReaderFeed(n)) \/ redisReaderGetReply \/ GetReply

\* A call that has begun goes on.
Spec == Init /\ [][Next]_vars /\ WF_vars(GetReply)

--------------------------------------------------------------------------------
(* The types of the state; the stack stays inside its array of MaxIndex + 1. *)
TypeOK ==
    /\ stream \in Stream
    /\ IsSuffix(wire, StreamBytes(stream))
    /\ pos \in 0 .. Len(buf)
    /\ Len(rstack) \in 0 .. MaxIndex + 1
    /\ \A k \in DOMAIN rstack :
         rstack[k] \in [type : {"none", "error", "status", "integer", "string", "array"},
                        elements : -1 .. MaxElements, idx : -1 .. MaxElements - 1]
    /\ err \in {"none", "PROTOCOL", "OOM"}
    /\ at \in {"idle", "items", "return"}
    /\ oom \in 0 .. MaxOOM

(* However the bytes are cut into chunks, the caller gets the replies that were
   sent, in order; what is built so far is a part of the next one. *)
RepliesAreTheStreams ==
    /\ IsPrefix(emitted, stream.sent)
    /\ reply # NULL /\ Len(emitted) < Len(stream.sent) =>
         LET next == stream.sent[Len(emitted) + 1]
         IN  \A p \in DOMAIN reply : p \in DOMAIN next /\ reply[p] = next[p]

(* The assertions of moveToNextTask and of the functions that build objects:
   above every task but the root's there is an array that has its place, and
   that array exists. *)
AssertionsHold ==
    \A k \in 2 .. Len(rstack) :
        /\ rstack[k - 1].type = "array"
        /\ rstack[k].idx \in 0 .. rstack[k - 1].elements - 1
        /\ LET p == SubSeq(Path, 1, k - 2)
           IN  p \in DOMAIN reply /\ reply[p].type = "array"

(* A protocol error comes of the bytes after the last good reply, never of a
   chunk that ended early, and after any error no half-built reply is left. *)
ErrorsAreFounded ==
    /\ err = "PROTOCOL" => stream.rest # <<>> /\ emitted = stream.sent
    /\ err # "none" => reply = NULL

(* A call that gives the caller nothing although every byte was fed, or that
   leaves nothing in the buffer, leaves no reply behind. *)
NothingIsHeldBack ==
    [][/\ at # "idle" /\ at' = "idle" /\ err' = "none"
       /\ wire = <<>>
       /\ emitted' = emitted \/ buf' = <<>>
       => emitted' = stream.sent]_vars

(* redisReaderGetReply returns. *)
GetReplyReturns == at # "idle" ~> at = "idle"
================================================================================
