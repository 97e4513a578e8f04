------------------------------- MODULE MCRedisAsync -------------------------------
(* An instance of RedisAsync: a disciplined user with regular commands and            *)
(* subscriptions under timeouts, and one without discipline who mixes the modes.      *)
EXTENDS RedisAsync

K(kind, names) == [kind |-> kind, channels |-> names]
Use(commands, disciplined, timeouts, length, n) ==
    [commands |-> commands, disciplined |-> disciplined, timeouts |-> timeouts, length |-> length, pushes |-> n]

SubscribeA == K("subscribe", <<"a">>)
UnsubscribeA == K("unsubscribe", <<"a">>)

MCSession ==
    {Use({K("regular", <<>>), SubscribeA, UnsubscribeA, K("subscribe", <<"b">>), K("unsubscribe", <<"b">>)},
         TRUE, TRUE, 3, 1),
     Use({K("regular", <<>>), K("silent", <<>>)}, TRUE, FALSE, 3, 0),
     Use({SubscribeA, UnsubscribeA}, FALSE, FALSE, 3, 0),
     Use({SubscribeA, K("monitor", <<>>)}, FALSE, FALSE, 2, 2)}

\* The theorems of RedisAsyncProofs are about this instance, too.
ASSUME Hypotheses == OneChannel /\ NoMonitor
================================================================================
