-------------------------------- MODULE RedisNet --------------------------------
(****************************************************************************)
(* How hiredis gets a connection (net.c, the connect functions of           *)
(* hiredis.c): the addresses of a host are tried one after the other, each  *)
(* on a socket of its own, which is non-blocking while it connects.  Every  *)
(* system call may fail; each action is one of them with what the code does *)
(* on its result.                                                           *)
(****************************************************************************)
EXTENDS Integers, FiniteSets

CONSTANTS
    MaxAddresses,   \* bound: how many addresses a name resolves to
    Retries,        \* REDIS_CONNECT_RETRIES (10 in the code)
    Timeout,        \* the timeouts a user gives: records [tv_sec, tv_usec]
    LONG_MAX, INT_MAX,
    MaxReconnects   \* bound: calls of redisReconnect

NetAssumption ==
    /\ MaxAddresses \in Nat \ {0}
    /\ Retries \in Nat \ {0}
    /\ Timeout \subseteq [tv_sec : Int, tv_usec : Int]
    /\ LONG_MAX \in Nat /\ INT_MAX \in 0 .. LONG_MAX
    /\ MaxReconnects \in Nat

VARIABLES
    options,     \* what redisConnectWithOptions got
    addresses,   \* how many addresses were found
    p,           \* the one that is tried
    reuses,      \* retries after EADDRNOTAVAIL
    fd,          \* c->fd: "none", "zero" as calloc leaves it, or the state of the socket
    blockingFd,  \* whether it is in blocking mode
    sockets,     \* how many sockets the process has open
    foreign,     \* how often descriptor 0 was closed that is not the context's
    err,         \* c->err
    msec,        \* the timeout in milliseconds; -1 is none
    at,          \* the system call that is next, or the result of the function
    reconnects

vars == <<options, addresses, p, reuses, fd, blockingFd, sockets, foreign, err, msec, at, reconnects>>
static == <<options, addresses, msec, reconnects>>
socketVars == <<fd, blockingFd, sockets, foreign>>

NoTimeout == [tv_sec |-> 0, tv_usec |-> -1]
Options == [tcp : BOOLEAN, block : BOOLEAN, reuseaddr : BOOLEAN, source_addr : BOOLEAN,
            timeout : Timeout \union {NoTimeout}]

--------------------------------------------------------------------------------
(* The timeout in milliseconds. *)

MAX_MSEC == (LONG_MAX - 999) \div 1000

ValidTimeout(tv) == tv = NoTimeout \/ (tv.tv_usec <= 1000000 /\ tv.tv_sec <= MAX_MSEC)

Capped(ms) == IF ms < 0 \/ ms > INT_MAX THEN INT_MAX ELSE ms

TimeoutMsec(tv) == Capped(tv.tv_sec * 1000 + (tv.tv_usec + 999) \div 1000)

--------------------------------------------------------------------------------
(* Results. *)

Goto(call) == at' = call /\ UNCHANGED <<static, p, reuses, socketVars, err>>

\* Mutant: the descriptor is forgotten, not closed.
NetClose_Forget == fd' = "none" /\ UNCHANGED <<blockingFd, sockets, foreign>>

NetClose ==
    /\ fd' = "none"
    /\ sockets' = IF fd \in {"none", "zero"} THEN sockets ELSE sockets - 1
    /\ foreign' = IF fd = "zero" THEN foreign + 1 ELSE foreign
    /\ UNCHANGED blockingFd

\* With an error message, or without one (e = err); the socket stays or is closed.
Fail(e, closed) ==
    /\ err' = e /\ at' = "ERR"
    /\ IF closed THEN NetClose ELSE UNCHANGED socketVars
    /\ UNCHANGED <<static, p, reuses>>

\* A call that goes on with the next one, or fails.
Try(next, e, closed) == Goto(next) \/ Fail(e, closed)

Begin == IF options.tcp THEN "resolve" ELSE "socket"

Init ==
    /\ options \in Options
    /\ addresses = 0 /\ p = 1 /\ reuses = 0
    /\ fd = "zero" /\ blockingFd = TRUE /\ sockets = 0 /\ foreign = 0
    /\ err = "none" /\ msec = -1
    /\ at = "create"
    /\ reconnects = 0

\* redisContextInit; without memory for its parts the context is freed again.
ContextInit ==
    /\ at = "create"
    /\ \/ Goto(Begin)
       \/ NetClose /\ at' = "freed" /\ UNCHANGED <<static, p, reuses, err>>

TimeoutRead ==
    msec' = IF options.timeout = NoTimeout THEN -1 ELSE TimeoutMsec(options.timeout)

\* getaddrinfo, first for IPv4, then for IPv6; an invalid timeout is found before.
Resolve ==
    /\ at = "resolve"
    /\ IF ValidTimeout(options.timeout)
       THEN /\ TimeoutRead
            /\ \/ addresses' \in 1 .. MaxAddresses /\ at' = "socket" /\ UNCHANGED err
               \/ err' = "OTHER" /\ at' = "ERR" /\ UNCHANGED addresses
       ELSE err' = "IO" /\ at' = "ERR" /\ UNCHANGED <<msec, addresses>>
    /\ UNCHANGED <<options, reconnects, p, reuses, socketVars>>

Socket ==
    /\ at = "socket"
    /\ IF options.tcp /\ p > addresses THEN Fail("OTHER", FALSE)
       ELSE \/ /\ fd' = "fresh" /\ blockingFd' = TRUE /\ sockets' = sockets + 1
               /\ at' = "nonblock"
               /\ UNCHANGED <<static, p, reuses, err, foreign>>
            \/ IF options.tcp
               THEN p' = p + 1 /\ UNCHANGED <<static, reuses, socketVars, err, at>>
               ELSE Fail("IO", FALSE)

\* redisSetBlocking(c, 0).
SetNonBlocking ==
    /\ at = "nonblock"
    /\ \/ /\ blockingFd' = FALSE
          /\ at' = IF ~options.tcp THEN "unixTimeout"
                   ELSE IF options.source_addr THEN "source" ELSE "connect"
          /\ UNCHANGED <<static, p, reuses, fd, sockets, foreign, err>>
       \/ Fail("IO", TRUE)

\* On a Unix socket an invalid timeout is no error of the context.
UnixTimeout ==
    /\ at = "unixTimeout"
    /\ IF ValidTimeout(options.timeout)
       THEN /\ TimeoutRead /\ at' = "connect"
            /\ UNCHANGED <<options, addresses, reconnects, p, reuses, socketVars, err>>
       ELSE Fail(err, FALSE)

ResolveSource ==
    at = "source" /\ Try(IF options.reuseaddr THEN "reuseaddr" ELSE "bind", "OTHER", FALSE)

\* The failure of this setsockopt leaves no error in the context.
SetReuseAddr == at = "reuseaddr" /\ Try("bind", err, FALSE)

Bind == at = "bind" /\ Try("connect", "OTHER", FALSE)

RetriesAreUp == reuses + 1 >= Retries

Connected ==
    /\ fd' = "connected" /\ at' = "finish"
    /\ UNCHANGED <<static, p, reuses, blockingFd, sockets, foreign, err>>

NextAddress == p + 1

\* connect() is under way: a blocking context waits for it, and on a Unix socket
\* any other error is looked at by redisContextWaitReady as well.
Connect ==
    /\ at = "connect"
    /\ \/ Connected
       \/ /\ fd' = "connecting"
          /\ at' = IF options.block THEN "wait" ELSE "finish"
          /\ UNCHANGED <<static, p, reuses, blockingFd, sockets, foreign, err>>
       \/ \* EHOSTUNREACH
          /\ options.tcp
          /\ p' = NextAddress /\ NetClose /\ at' = "socket"
          /\ UNCHANGED <<static, reuses, err>>
       \/ \* EADDRNOTAVAIL
          /\ options.tcp /\ options.reuseaddr
          /\ IF RetriesAreUp THEN Fail(err, FALSE)
             ELSE /\ reuses' = reuses + 1 /\ NetClose /\ at' = "socket"
                  /\ UNCHANGED <<static, p, err>>
       \/ \* any other error: redisContextWaitReady has nothing to wait for
          Fail("IO", TRUE)

\* poll(), then redisCheckConnectDone and redisCheckSocketError.
WaitReady ==
    /\ at = "wait"
    /\ \/ Connected
       \/ msec >= 0 /\ Fail("IO", TRUE)     \* the time is up
       \/ Fail("IO", TRUE)                  \* poll fails
       \/ Fail("IO", FALSE)                 \* ready, but not connected

\* A blocking context gets its socket back to blocking mode.
Finish ==
    /\ at = "finish"
    /\ \/ /\ blockingFd' = options.block
          /\ at' = IF options.tcp THEN "nodelay" ELSE "OK"
          /\ UNCHANGED <<static, p, reuses, fd, sockets, foreign, err>>
       \/ options.block /\ Fail("IO", TRUE)

SetTcpNoDelay == at = "nodelay" /\ Try("OK", "IO", TRUE)

redisReconnect ==
    /\ at \in {"OK", "ERR"}
    /\ reconnects < MaxReconnects
    /\ reconnects' = reconnects + 1
    /\ err' = "none" /\ NetClose
    /\ p' = 1 /\ reuses' = 0 /\ at' = Begin
    /\ UNCHANGED <<options, addresses, msec>>

redisFree ==
    /\ at \in {"OK", "ERR"}
    /\ NetClose /\ at' = "freed"
    /\ UNCHANGED <<static, p, reuses, err>>

Call ==
    \/ ContextInit \/ Resolve \/ Socket \/ SetNonBlocking \/ UnixTimeout
    \/ ResolveSource \/ SetReuseAddr \/ Bind
    \/ Connect \/ WaitReady \/ Finish \/ SetTcpNoDelay

Next == Call \/ redisReconnect \/ redisFree

\* Every system call returns; poll may wait for ever only without a timeout.
Spec == Init /\ [][Next]_vars /\ WF_vars(Call)

--------------------------------------------------------------------------------
(* The types of the state. *)
TypeOK ==
    /\ options \in Options
    /\ addresses \in 0 .. MaxAddresses /\ p \in 1 .. MaxAddresses + 1
    /\ reuses \in 0 .. Retries - 1
    /\ fd \in {"zero", "none", "fresh", "connecting", "connected"}
    /\ blockingFd \in BOOLEAN
    /\ sockets \in Nat /\ foreign \in Nat
    /\ err \in {"none", "IO", "OTHER"}
    /\ msec \in -1 .. INT_MAX
    /\ reconnects \in 0 .. MaxReconnects

(* However many addresses are tried, retries made and connections renewed, the
   process has no open socket but c->fd, and none when the context is freed. *)
NoSocketLost ==
    /\ sockets = IF fd \in {"none", "zero"} THEN 0 ELSE 1
    /\ at = "freed" => sockets = 0

(* The context starts with descriptor 0, which is not its own: it is closed for a
   context that is renewed or freed before a socket could be made, and never
   again; a call in which everything goes well does not touch it. *)
ForeignClosedOnce ==
    /\ foreign \in {0, 1}
    /\ foreign = 1 => fd # "zero" /\ (reconnects > 0 \/ at = "freed")
    /\ at = "OK" => fd \notin {"none", "zero"}

(* A connection that is reported as good is one: connected and in blocking mode
   for a blocking context, at least under way and in non-blocking mode for
   another. *)
OKIsConnected ==
    at = "OK" => /\ fd = "connected" \/ (fd = "connecting" /\ ~options.block)
                 /\ blockingFd = options.block
                 /\ err = "none"

(* The timeout in milliseconds is never shorter than what was asked for, unless
   that is more than INT_MAX, and no overflow occurs on the way. *)
TimeoutIsKept ==
    msec # -1 =>
        LET tv == options.timeout IN
        /\ tv.tv_sec >= 0 /\ msec < INT_MAX =>
               msec * 1000 \in tv.tv_sec * 1000000 + tv.tv_usec ..
                               tv.tv_sec * 1000000 + tv.tv_usec + 999
        /\ tv.tv_sec * 1000 + (tv.tv_usec + 999) \div 1000 <= LONG_MAX

(* README.md: "After trying to connect to Redis using redisConnect you should
   check the err field to see if establishing the connection was successful". *)
ErrTellsFailure == at = "ERR" => err # "none"

(* The same for the calls of the server and the planner, which neither reuse
   addresses nor give a timeout. *)
PlainErrTellsFailure ==
    ~options.reuseaddr /\ ValidTimeout(options.timeout) => ErrTellsFailure

(* Trying addresses and retrying comes to an end. *)
ConnectReturns ==
    LET done == {"OK", "ERR", "freed"} IN [](at \notin done => <>(at \in done))
================================================================================
