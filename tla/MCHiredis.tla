--------------------------------- MODULE MCHiredis ---------------------------------
(****************************************************************************)
(* The parts of hiredis that share no state, side by side: one of them is   *)
(* chosen at the start and runs, the others stay as they are created.       *)
(* Their inputs are below.                                                  *)
(****************************************************************************)
EXTENDS Integers, Sequences, SequencesExt, TLC

CONSTANTS
    MaxIndex, MaxElements, ConsumedLimit, MaxOOM,                         \* RedisReader
    Command, MaxFaults,                                                   \* RedisContext
    MaxAddresses, Retries, LONG_MAX, INT_MAX, MaxReconnects,              \* RedisNet
    MaxFormat,                                                            \* FormatCommand
    Key, Val, NoKey, InitialSize,                                         \* Dict
    StoredByte, NUL, Garbage, MaxPrealloc, MaxLen,                            \* Sds
    Bits, NumberCharacter, InitialSlots, MaxLength                              \* LongLong, SdsText

VARIABLES
    component,     \* the part that runs
    stream, wire, buf, pos, rstack, reply, readerErr, readerAt, emitted, readerOom,
    contextErr, obuf, reader, toServer, fromServer, open, oldSocket, contextAt, issued, here,
    executed, due, returned, faults,
    options, addresses, p, reuses, fd, blockingFd, sockets, foreign, netErr, msec, netAt, reconnects,
    call, c, ap, curarg, touched, curargv, totlen, cmd, live, formatAt, formatOom,
    table, size, used, values, keys, iter, visited, entries,
    s, expected,
    number, text

readerVars == <<stream, wire, buf, pos, rstack, reply, readerErr, readerAt, emitted, readerOom>>
contextVars == <<contextErr, obuf, reader, toServer, fromServer, open, oldSocket, contextAt, issued,
                 here, executed, due, returned, faults>>
netVars == <<options, addresses, p, reuses, fd, blockingFd, sockets, foreign, netErr, msec, netAt,
             reconnects>>
formatVars == <<call, c, ap, curarg, touched, curargv, totlen, cmd, live, formatAt, formatOom>>
dictVars == <<table, size, used, values, keys, iter, visited, entries>>
textVars == <<s, expected, number, text>>

--------------------------------------------------------------------------------
(* Streams with every type of reply, nesting, strings that hold \r\n, and every *)
(* kind of malformed item behind them.                                          *)

Newline == <<"\r", "\n">>
Nil == [type |-> "nil", value |-> 0]
A(n) == [type |-> "array", value |-> n]
I(n) == [type |-> "integer", value |-> n]
T(type, chars) == [type |-> type, value |-> chars]

Nested == (<<>> :> A(2)) @@ (<<0>> :> A(1)) @@ (<<0, 0>> :> T("string", Newline)) @@ (<<1>> :> I(1))
Mixed == (<<>> :> A(3)) @@ (<<0>> :> Nil) @@ (<<1>> :> A(0)) @@ (<<2>> :> T("error", <<"E">>))

Stream ==
    {[sent |-> <<Nested, <<>> :> I(0)>>, nilByte |-> "*", rest |-> <<>>],
     [sent |-> <<Mixed, <<>> :> Nil>>, nilByte |-> "*", rest |-> <<"!">>],
     [sent |-> <<<<>> :> Nil>>, nilByte |-> "$", rest |-> <<"*", "-2">> \o Newline],
     [sent |-> <<<<>> :> A(0), <<>> :> T("status", <<"\r", "O">>)>>, nilByte |-> "$",
      rest |-> <<"$", "-2">> \o Newline],
     [sent |-> <<<<>> :> T("string", <<>>)>>, nilByte |-> "$", rest |-> <<"*", "4">> \o Newline],
     [sent |-> <<>>, nilByte |-> "$", rest |-> <<":", "x">> \o Newline],
     [sent |-> <<>>, nilByte |-> "$",
      rest |-> <<"*", "1">> \o Newline \o <<"*", "1">> \o Newline \o <<"*", "1">> \o Newline]}

--------------------------------------------------------------------------------
(* Timeouts on both sides of every limit. *)

Timeout ==
    [tv_sec : {0, 2, 5}, tv_usec : {0, 1, 1000000}]
    \union {[tv_sec |-> 6, tv_usec |-> 0], [tv_sec |-> 0, tv_usec |-> 1000001],
            [tv_sec |-> -1, tv_usec |-> 0]}

--------------------------------------------------------------------------------
(* Formats of up to three words, of one or two pieces each, with spaces before, *)
(* between and after them, and formats with a conversion that is not one.       *)

Piece(chars, args, value) == [text |-> chars, args |-> args, value |-> value]
Ten == [j \in 1 .. 10 |-> "y"]

Pieces ==
    {Piece(<<"G">>, <<>>, <<"G">>), Piece(<<"%", "%">>, <<>>, <<"%">>),
     Piece(<<"%", "s">>, <<<<>>>>, <<>>), Piece(<<"%", "s">>, <<Ten>>, Ten),
     Piece(<<"%", "b">>, <<<<"a", " ", "%">>>>, <<"a", " ", "%">>),
     Piece(<<"%", "0", "l", "l", "d">>, <<<<"7">>>>, <<"7">>)}

PieceLists == {<<x>> : x \in Pieces} \union (Pieces \X Pieces)

Word(ps) == Piece(FlattenSeq([k \in DOMAIN ps |-> ps[k].text]),
                  FlattenSeq([k \in DOMAIN ps |-> ps[k].args]),
                  FlattenSeq([k \in DOMAIN ps |-> ps[k].value]))

Format(before, w, between, v, after) ==
    [format |-> before \o w.text \o between \o v.text \o after,
     args |-> w.args \o v.args, words |-> <<w.value, v.value>>]

Good ==
    {Format(before, Word(ps), between, Word(<<x>>), after) :
        before \in {<<>>, <<" ">>}, ps \in PieceLists, x \in Pieces,
        between \in {<<" ">>, <<" ", " ">>}, after \in {<<>>, <<" ">>}}

Plain(format, args, words) == [format |-> format, args |-> args, words |-> words]

\* No format, two bad conversions, a % at the end, which is text, conversions that are too long,
\* and formats that stop within a conversion.
Special ==
    {Plain(<<>>, <<>>, <<>>),
     Plain(<<"S", " ", "%", "l", "s">>, <<<<"1">>>>, <<>>),
     Plain(<<"%", "5", ".", "2", "h">>, <<<<"1">>>>, <<>>),
     Plain(<<"S", "%">>, <<>>, <<<<"S", "%">>>>),
     Plain(<<"%", "+", "1", ".", "2", "h", "d">>, <<<<"1">>>>, <<<<"1", ".", "2", "h", "d">>>>),
     Plain(<<"S", " ", "%", "5">>, <<<<"1">>>>, <<>>),
     Plain(<<"%", " ">>, <<<<"1">>>>, <<>>),
     Plain(<<"%", "+", "1", ".", "2", "3">>, <<<<"1">>>>, <<<<"1", ".", "2", "3">>>>)}

--------------------------------------------------------------------------------
Reader == INSTANCE RedisReader WITH err <- readerErr, at <- readerAt, oom <- readerOom
Context == INSTANCE RedisContext WITH err <- contextErr, at <- contextAt, Interrupts <- FALSE
Net == INSTANCE RedisNet WITH err <- netErr, at <- netAt
Formatting == INSTANCE FormatCommand WITH at <- formatAt, oom <- formatOom, Call <- Good \union Special

\* Three of the keys are in one chain of a table of two slots.
Dictionary == INSTANCE Dict WITH
    expected <- entries, Hash <- "a" :> 0 @@ "b" :> 2 @@ "c" :> 4 @@ "d" :> 1

\* Strings of up to five characters need headers of every type.
Strings == INSTANCE Sds WITH Byte <- StoredByte, Cap <- [t \in 0 .. 3 |-> <<3, 5, 9, 13>>[t + 1]]
Numbers == INSTANCE LongLong WITH text <- number, Character <- NumberCharacter

\* NUL, \n, \v, space, both quotes, 0, backslash, f, n, x, and a byte that is not printed;
\* separators that overlap with themselves and with one another.
Texts == INSTANCE SdsText WITH
    Byte <- {0, 10, 11, 32, 34, 39, 48, 92, 102, 110, 120, 200},
    Separators <- {<<32>>, <<48, 48>>, <<48, 110, 48>>}

ASSUME HiredisAssumption ==
    /\ Reader!ReaderAssumption /\ Context!ContextAssumption /\ Net!NetAssumption
    /\ Formatting!FormatAssumption /\ Dictionary!DictAssumption /\ Strings!SdsAssumption
    /\ Numbers!LongLongAssumption /\ Texts!TextAssumption

--------------------------------------------------------------------------------
Runs(name) == component = name

\* Where a part has several initial states, one of them when it does not run.
Init ==
    /\ component \in {"reader", "context", "net", "format", "dict", "strings", "numbers", "texts"}
    /\ Reader!Init /\ (Runs("reader") \/ stream = CHOOSE x \in Stream : TRUE)
    /\ Context!Init
    /\ Net!Init /\ (Runs("net") \/ options = CHOOSE o \in Net!Options : TRUE)
    /\ Formatting!Init /\ (Runs("format") \/ call.format = <<>>)
    /\ Dictionary!Init
    /\ Strings!Init /\ (Runs("strings") \/ expected = <<>>)
    /\ Numbers!Init /\ Texts!Init

ReaderStep == Runs("reader") /\ Reader!Next
    /\ UNCHANGED <<component, contextVars, netVars, formatVars, dictVars, textVars>>
ContextStep == Runs("context") /\ Context!Next
    /\ UNCHANGED <<component, readerVars, netVars, formatVars, dictVars, textVars>>
NetStep == Runs("net") /\ Net!Next
    /\ UNCHANGED <<component, readerVars, contextVars, formatVars, dictVars, textVars>>
FormatStep == Runs("format") /\ Formatting!Next
    /\ UNCHANGED <<component, readerVars, contextVars, netVars, dictVars, textVars>>
DictStep == Runs("dict") /\ Dictionary!Next
    /\ UNCHANGED <<component, readerVars, contextVars, netVars, formatVars, textVars>>
StringsStep == Runs("strings") /\ Strings!Next
    /\ UNCHANGED <<component, readerVars, contextVars, netVars, formatVars, dictVars, number, text>>
NumbersStep == Runs("numbers") /\ Numbers!Next
    /\ UNCHANGED <<component, readerVars, contextVars, netVars, formatVars, dictVars, s, expected, text>>
TextsStep == Runs("texts") /\ Texts!Next
    /\ UNCHANGED <<component, readerVars, contextVars, netVars, formatVars, dictVars, s, expected, number>>

Next ==
    \/ ReaderStep \/ ContextStep \/ NetStep \/ FormatStep
    \/ DictStep \/ StringsStep \/ NumbersStep \/ TextsStep

vars == <<component, readerVars, contextVars, netVars, formatVars, dictVars, textVars>>

\* The fairness of the parts, as their modules have it.
Spec ==
    /\ Init /\ [][Next]_vars
    /\ WF_vars(Reader!GetReply /\ ReaderStep)
    /\ WF_vars(Context!Client /\ ContextStep) /\ WF_vars(Context!Execute /\ ContextStep)
    /\ WF_vars(Net!Call /\ NetStep)

--------------------------------------------------------------------------------
(* However the bytes of replies are cut into chunks, whatever allocation fails and
   wherever a malformed item comes, redisReaderGetReply gives the caller the replies
   that were sent, in order, holds none back, and returns. *)
ReaderIsRight ==
    /\ [](Runs("reader") => /\ Reader!TypeOK /\ Reader!RepliesAreTheStreams
                            /\ Reader!AssertionsHold /\ Reader!ErrorsAreFounded)
    /\ Reader!NothingIsHeldBack
    /\ Reader!GetReplyReturns

(* Over timeouts, lost connections, reconnects and writes and reads that end anywhere,
   redisGetReply returns the reply to the earliest command without one, or NULL and an
   error, and the server executes the commands in their order. *)
ContextIsRight ==
    /\ [](Runs("context") => Context!TypeOK /\ Context!RepliesMatchCommands /\ Context!ExecutedInOrder)
    /\ Context!NullMeansError
    /\ Context!CallsReturn

(* Whichever system call of connecting fails, no socket is lost, descriptor 0 is closed
   for one at most once and only when none was made, a good result is a connection, a
   failure has an error, the timeout is kept, and the call returns. *)
ConnectIsRight ==
    /\ [](Runs("net") => /\ Net!TypeOK /\ Net!NoSocketLost /\ Net!ForeignClosedOnce
                         /\ Net!OKIsConnected
                         /\ Net!TimeoutIsKept /\ Net!PlainErrTellsFailure)
    /\ Runs("net") => Net!ConnectReturns

(* redisvFormatCommand makes the command of the words that are meant, with lengths
   that are right, and frees what it has allocated when memory or the format fails;
   only a format that stops within a conversion is read beyond its end. *)
FormatIsRight ==
    Runs("format") =>
        /\ Formatting!TypeOK /\ Formatting!ArgumentsAreTheWords /\ Formatting!LengthIsRight
        /\ Formatting!NothingLeaks /\ Formatting!ErrorsAreFounded

(* The table is a function from keys to values: its operations implement KeyValueMap
   while it grows, iterations are complete although entries are deleted, and nothing
   is lost or freed twice. *)
DictionaryIsMap ==
    /\ [](Runs("dict") => /\ Dictionary!TypeOK /\ Dictionary!EntriesWellPlaced
                          /\ Dictionary!NothingLeaks /\ Dictionary!IterationComplete)
    /\ Dictionary!IsMap

(* Strings hold what the operations on them make, within their memory and through all
   types of headers; numbers, tokens and quoted arguments are read as they are written. *)
StringsAreRight ==
    /\ Runs("strings") =>
        Strings!TypeOK /\ Strings!ContentIsRight /\ Strings!Terminated /\ Strings!InBounds
    /\ Runs("numbers") =>
        Numbers!AcceptsJustNumbers /\ Numbers!TextComesBack /\ Numbers!NumbersAreWritten
    /\ Runs("texts") =>
        /\ Texts!SplitThenJoin /\ Texts!RoomForFinal /\ Texts!ReprIsRead /\ Texts!PlainArguments
        /\ Texts!ArgumentsCompose /\ Texts!QuotesClose /\ Texts!ComparisonOrders
================================================================================
