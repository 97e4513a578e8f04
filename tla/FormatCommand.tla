------------------------------ MODULE FormatCommand ------------------------------
(****************************************************************************)
(* redisvFormatCommand (hiredis.c): a printf-like format becomes a command  *)
(* of the Redis protocol.  The format is cut into arguments at its spaces,  *)
(* the conversions are interpolated, and every allocation on the way may    *)
(* fail.  Each action is one turn of the scan.  The inputs are made from    *)
(* words, so that the arguments that should come out are known.             *)
(****************************************************************************)
EXTENDS Integers, Sequences, SequencesExt

CONSTANTS
    Call,        \* the calls: [format, args, words] (words: the arguments meant)
    MaxFormat,   \* the longest conversion that is carried out, and one (14 in the code)
    MaxOOM       \* bound: allocations that fail

FormatAssumption == MaxFormat \in Nat /\ MaxOOM \in Nat

VARIABLES
    call,
    c,           \* the place in the format
    ap,          \* the arguments not yet taken
    curarg, touched,
    curargv,     \* the arguments that are complete
    totlen,      \* their length in the command
    cmd,         \* the command
    live,        \* how many sds strings are allocated
    at,          \* "scan", "build", or the result: "ok", -1 or -2 as "memory", "format",
                 \* or "overrun": the scan has left the format, what follows is undefined
    oom

vars == <<call, c, ap, curarg, touched, curargv, totlen, cmd, live, at, oom>>

--------------------------------------------------------------------------------
(* The protocol, and the lengths the code computes beforehand. *)

DigitChars == <<"0", "1", "2", "3", "4", "5", "6", "7", "8", "9">>
Digits[n \in Nat] ==
    IF n < 10 THEN <<DigitChars[n + 1]>> ELSE Append(Digits[n \div 10], DigitChars[(n % 10) + 1])

countDigits[v \in Nat] ==
    IF v < 10 THEN 1 ELSE IF v < 100 THEN 2 ELSE IF v < 1000 THEN 3
    ELSE IF v < 10000 THEN 4 ELSE 4 + countDigits[v \div 10000]

Newline == <<"\r", "\n">>

bulklen(len) == 1 + countDigits[len] + 2 + len + 2

Bulk(arg) == <<"$">> \o Digits[Len(arg)] \o Newline \o arg \o Newline

\* redisFormatCommandArgv and redisFormatSdsCommandArgv.
FormatCommandArgv(argv) ==
    <<"*">> \o Digits[Len(argv)] \o Newline \o FlattenSeq([j \in DOMAIN argv |-> Bulk(argv[j])])

CommandLength(argv) ==
    FoldSeq(LAMBDA arg, sum : sum + bulklen(Len(arg)), 1 + countDigits[Len(argv)] + 2, argv)

--------------------------------------------------------------------------------
(* Conversions. *)

Flags == {"#", "0", "-", "+", " "}
Digit == Range(DigitChars)
Conversion == {"d", "i", "o", "u", "x", "X"}
FloatConversion == {"e", "E", "f", "F", "g", "G", "a", "A"}

Char(k) == IF k \in DOMAIN call.format THEN call.format[k] ELSE "end"

\* The first place from k on whose character is not in S.
Skip(k, S) == CHOOSE l \in k .. Len(call.format) + 1 :
                 Char(l) \notin S /\ \A m \in k .. l - 1 : Char(m) \in S

\* Behind flags, width and precision.
SpecStart(k) ==
    LET width == Skip(Skip(k, Flags), Digit)
    IN  IF Char(width) = "." THEN Skip(width + 1, Digit) ELSE width

\* The place of the conversion character, 0 if there is none.  Without a size, the
\* end of the format is one: strchr finds the NUL of intfmts.
SpecEnd(k) ==
    LET s == SpecStart(k)
        size == IF Char(s) \in {"h", "l"} THEN IF Char(s + 1) = Char(s) THEN 2 ELSE 1 ELSE 0
    IN  IF size = 0
        THEN IF Char(s) \in Conversion \union FloatConversion \union {"end"} THEN s ELSE 0
        ELSE IF Char(s + size) \in Conversion THEN s + size ELSE 0

--------------------------------------------------------------------------------
Init ==
    /\ call \in Call
    /\ c = 1 /\ ap = call.args
    /\ curarg = <<>> /\ touched = FALSE
    /\ curargv = <<>> /\ totlen = 0 /\ cmd = <<>>
    /\ live = 1 /\ at = "scan" /\ oom = 0

FreedAtCleanup == Len(curargv) + 1

CleanUp(result) ==
    /\ at' = result
    /\ live' = live - FreedAtCleanup
    /\ curargv' = <<>> /\ curarg' = <<>>
    /\ UNCHANGED <<call, c, ap, touched, totlen, cmd>>

MemoryError == oom < MaxOOM /\ oom' = oom + 1 /\ CleanUp("memory")

\* The conversion at c is done: n characters of the format are used.
Take(text, n, args) ==
    \/ /\ curarg' = curarg \o text
       /\ touched' = TRUE
       /\ c' = c + n
       /\ ap' = args
       /\ UNCHANGED <<call, curargv, totlen, cmd, live, at, oom>>
    \/ MemoryError

\* The argument is complete; a new one is begun, unless the format is at its end.
EndArgument(more) ==
    /\ curargv' = Append(curargv, curarg)
    /\ totlen' = totlen + bulklen(Len(curarg))
    /\ curarg' = <<>> /\ touched' = FALSE
    /\ live' = live + more

IsConversion == Char(c) = "%" /\ Char(c + 1) # "end"

\* Mutant: a conversion that gives no characters does not begin an argument.
EndsArgument_NonEmpty == curarg # <<>>

EndsArgument == touched

Space ==
    /\ at = "scan" /\ Char(c) = " "
    /\ c' = c + 1
    /\ IF EndsArgument THEN EndArgument(1) ELSE UNCHANGED <<curargv, totlen, curarg, touched, live>>
    /\ UNCHANGED <<call, ap, cmd, at, oom>>

\* The old argument is in curargv already when there is no memory for a new one.
SpaceNoMemory ==
    /\ at = "scan" /\ Char(c) = " " /\ EndsArgument
    /\ MemoryError

Literal ==
    /\ at = "scan" /\ Char(c) \notin {" ", "end"} /\ ~IsConversion
    /\ Take(<<Char(c)>>, 1, ap)

String ==
    /\ at = "scan" /\ IsConversion /\ Char(c + 1) \in {"s", "b"}
    /\ Take(Head(ap), 2, Tail(ap))

Percent ==
    /\ at = "scan" /\ IsConversion /\ Char(c + 1) = "%"
    /\ Take(<<"%">>, 2, ap)

\* The NUL is used as a conversion, and the scan goes on behind it.
Overrun ==
    \/ at' = "overrun" /\ UNCHANGED <<call, c, ap, curarg, touched, curargv, totlen, cmd, live, oom>>
    \/ MemoryError

\* A conversion that is too long takes its argument, but is scanned as text.
Number ==
    /\ at = "scan" /\ IsConversion /\ Char(c + 1) \notin {"s", "b", "%"}
    /\ LET end == SpecEnd(c + 1) IN
       IF end = 0 THEN CleanUp("format") /\ UNCHANGED oom
       ELSE IF end - c + 1 >= MaxFormat THEN Take(<<>>, 2, Tail(ap))
       ELSE IF Char(end) = "end" THEN Overrun
       ELSE Take(Head(ap), end - c + 1, Tail(ap))

End ==
    /\ at = "scan" /\ Char(c) = "end"
    /\ at' = "build"
    /\ IF touched THEN EndArgument(0)
       ELSE live' = live - 1 /\ UNCHANGED <<curargv, totlen, curarg, touched>>
    /\ UNCHANGED <<call, c, ap, cmd, oom>>

\* Without memory for the argument list.
EndNoMemory == at = "scan" /\ Char(c) = "end" /\ touched /\ MemoryError

Build ==
    /\ at = "build"
    /\ totlen' = totlen + 1 + countDigits[Len(curargv)] + 2
    /\ cmd' = FormatCommandArgv(curargv)
    /\ live' = live - Len(curargv)
    /\ at' = "ok"
    /\ UNCHANGED <<call, c, ap, curarg, touched, curargv, oom>>

\* There is no current argument any more.
BuildNoMemory ==
    /\ at = "build"
    /\ oom < MaxOOM /\ oom' = oom + 1
    /\ at' = "memory" /\ live' = live - Len(curargv) /\ curargv' = <<>>
    /\ UNCHANGED <<call, c, ap, curarg, touched, totlen, cmd>>

Next ==
    \/ Space \/ SpaceNoMemory \/ Literal \/ String \/ Percent \/ Number
    \/ End \/ EndNoMemory \/ Build \/ BuildNoMemory

Spec == Init /\ [][Next]_vars

--------------------------------------------------------------------------------
(* The types of the state. *)
TypeOK ==
    /\ call \in Call
    /\ c \in 1 .. Len(call.format) + 1
    /\ IsSuffix(ap, call.args)
    /\ touched \in BOOLEAN
    /\ totlen \in Nat /\ live \in Nat
    /\ at \in {"scan", "build", "ok", "memory", "format", "overrun"}
    /\ oom \in 0 .. MaxOOM

(* What comes out are the words that were meant: a space in an interpolated
   string does not end an argument, an empty string is an argument, and every
   conversion takes its own argument. *)
ArgumentsAreTheWords == at = "ok" => curargv = call.words /\ ap = <<>>

(* The assertion pos == totlen: the length computed argument by argument is that
   of the command, and of what redisFormatCommandArgv allocates for the list. *)
LengthIsRight ==
    at = "ok" => totlen = Len(cmd) /\ totlen = CommandLength(curargv)

(* However the call returns, no string is left allocated, and none is freed twice. *)
NothingLeaks == live = CASE at \in {"scan", "overrun"} -> Len(curargv) + 1
                         [] at = "build" -> Len(curargv)
                         [] OTHER -> 0

\* The format stops within the flags, the width or the precision of a conversion.
StopsInConversion ==
    \E k \in 1 .. Len(call.format) - 1 :
        /\ call.format[k] = "%"
        /\ \A l \in k + 1 .. Len(call.format) : call.format[l] \in Flags \union Digit \union {"."}

(* Only a bad conversion is a format error, a good format gives a command unless
   memory runs out, and the scan leaves the format only if that stops within a
   conversion, which is never told as an error. *)
ErrorsAreFounded ==
    /\ at = "format" => call.words = <<>> /\ ~StopsInConversion
    /\ at = "overrun" => call.words = <<>> /\ StopsInConversion
    /\ at = "memory" => oom > 0
    /\ at = "ok" => call.words # <<>> \/ curargv = <<>>
================================================================================
