# A TLA+ model of the multi-AGV planning system

The repository plans routes for three robots (AGVs) in a warehouse and emulates their
motion. Several programs run side by side and talk through Redis keys. This directory
holds TLA+ modules translated from the code, TLC configurations that check them on small
instances, and proofs, checked by TLAPS, of what holds for every instance.

## 1. Inventory

| component | source | state | operations |
|---|---|---|---|
| Map builder | `smallMap/map_info/smallmap.py` | Redis: lists of nodes and links | numbers the cells of a drawing, appends the lists |
| Map reader | `mapreader.cpp`, `LMap::ReadMap`, `TS::ReadMap` | `node_list`, `neighbour_node_list`, `travel_time_list`, `lock_node_list`, links | reads the map once |
| Route planner, class `LMap` | `AStar.cpp`, `AStar.h` | `node_locked_time_window`, the search (`openList`, `openListSet`, `ruofan_time_node`s), `robot_positions` | `serve` and everything below it |
| Task server, `main` and class `TS` | `main.cpp`, `ts.cpp` | `RobotTasks`, `robot_positions` | reads the fleet, replans all on `dead_lock`, gives idle robots new random targets |
| Emulator | `Emulator/emulator.py` | Redis: `robot_position`, `robot_task.isFinished` | moves each robot along `robot_cFuns`, marks tasks finished |
| Deadlock checker | `DeadlockChecker/deadlockChecker.py` | one counter per robot, Redis: `dead_lock` | counts samples without motion, raises `dead_lock` |
| Initial contents | `Path_Planning/init3Cars.py` | Redis | one-point routes, finished tasks |
| Traffic mapper | `VP/` (sources not in the repository) | Redis: `robot_cFuns` | cuts the next hops out of the stored routes |
| GUI | `GUI/gui.py` | none | draws what Redis holds |
| hiredis: reply parser | `hiredis/read.c` | buffer, position, a stack of tasks | takes chunks of bytes, gives replies |
| hiredis: blocking client | `hiredis/hiredis.c` | output buffer, parser, error | commands, pipelines, reconnection, timeouts |
| hiredis: connecting | `hiredis/net.c` | file descriptor, error | connects to addresses in turn, sets options |
| hiredis: formatting | `hiredis/hiredis.c` | arguments under construction | makes a command of a format and its arguments |
| hiredis: asynchronous client | `hiredis/async.c` | queues and dictionaries of callbacks, flags | commands, subscriptions, MONITOR, tear-down |
| hiredis: dictionary, strings | `hiredis/dict.c`, `hiredis/sds.c` | chained hash table; header, room and bytes | their libraries' operations |
| cJSON: items | `RF_PP/src/cJSON.c` | items in lists, with ownership flags | create, add, detach, insert, replace, refer, copy, delete |
| cJSON: texts | `RF_PP/src/cJSON.c` | buffers and positions | parse, print, compare, minify |

The two libraries are copied into the repository and are compiled with it; every exchange
between the programs in C++ goes through them.

How they interact. The server reads `robot_position` and `robot_task`, calls `serve`, and
writes the routes (`robot_vpoint`, `robot_waittime`, `robot_traveltime`,
`robot_arr_and_depar_time`) and `robot_task`. The mapper turns routes into `robot_cFuns`;
the Emulator follows these and writes `robot_position` and the `isFinished` flag. The
checker reads `robot_position` and writes `dead_lock`; the server reads and clears it.
There are no locks and no transactions: every command is atomic, no sequence of them is.

What is hard in each part, and what makes it correct:

- *Planner, intervals.* Lists of time windows are merged, combined and reduced by loops
  that compare neighbours only and erase in place. Correct: no locked instant is ever
  offered as free, no lock is lost, the passed part of a list is in order with gaps.
- *Planner, search.* A map node enters the open list once; a path is a chain of `pre_node`
  links; one window per node is then chosen by a depth-first search whose failure the
  caller ignores. Correct: the search ends, the chain of links leads to the start, the
  choice never fails, the schedule has no negative wait and follows the map.
- *Planner, fleet.* Locks are rebuilt in every call from routes of different ages; nodes are
  locked and edges are not. Correct: a new route is clear of all the routes it was planned
  around, and meets none of them head-on.
- *Server.* It works on copies: positions, tasks and the flag are read one after the other
  while the Emulator moves robots and finishes tasks; routes and tasks are stored one by
  one. Correct: targets of different robots stay apart; stored routes stay compatible.
- *Emulator, checker.* Read-modify-write of shared keys, heuristics on positions. Correct:
  a job reported finished is finished (it is not, see section 6).
- *Checker and flag.* Alarms are raised from counters of samples, and the flag is taken down
  without another look at it. Correct: no alarm without two robots that were seen unmoved, no
  alarm while the last one has had no time to work, no deadlock that is never resolved.
- *Map.* Lists that are appended to, read back by place and used by id, in three commands.
  Correct: what was read is what was drawn, whenever it was read.
- *hiredis.* Replies in pieces of any size, calls that fail at any point, callbacks matched with
  replies by their order only and allowed to end the context that runs them. Correct: the
  right reply reaches the right caller, once; what was allocated or opened is given back once.
- *cJSON.* Lists linked both ways that share members, buffers that are reallocated or may not
  be, sizes that are estimated before they are known. Correct: no item is lost or freed twice,
  no byte is written beyond the room, a text and its value mean the same.

The hazards are listed in `PROJECT.json`, each at its line and with the properties that
would show it going wrong; those without a property say why.

## 2. Modules

The system:

| module | models | extends or instantiates |
|---|---|---|
| `TimeWindows` | the interval arithmetic of `LMap`, as operators | community modules |
| `WindowReduction` | `TimeWindowReduction4NodeHelper` as a loop, one action per branch | `TimeWindows` |
| `LMap` | `serve` and what it calls, one action per turn of each loop | `TimeWindows`, `RoutePlanner` |
| `RoutePlanner` | abstract: what `serve` promises its caller | |
| `PlannerClient` | `LMap` under its calling discipline; implements `RoutePlanner` | `LMap` |
| `Roadmap` | `smallmap.py` and `ReadMap`, as constant operators | |
| `MapStore` | the builder and the two readers of the map, command by command | |
| `TaskServer` | the server's loop, Emulator and DeadlockChecker around `LMap`, command by command | `LMap` |
| `Emulator` | the Emulator's turn, one step per Redis command | |
| `Fleet` | Emulator, server and mapper at the grain of Redis commands | `Emulator` |
| `DeadlockChecker` | counters, alarms and the flag, with robots that jam | |

Their proofs (section 4): `LMapProofs`, which begins with the lemmas on the operators of `TimeWindows`, and, upon it,
`WindowReductionProofs` (for these lemmas), `PlannerProofs` and `TaskServerProofs`; `FleetProofs`; `DeadlockCheckerProofs`;
`MapStoreProofs`; and `RedisAsyncProofs` for the asynchronous client. The libraries:

| module | models |
|---|---|
| `RedisReader` | `read.c`: one action per turn of the parser's loop |
| `RedisContext` | the blocking client of `hiredis.c` against a server |
| `RedisNet` | `net.c`: one action per system call |
| `FormatCommand` | `redisvFormatCommand`, character by character, with failing allocations |
| `RedisAsync` | `async.c`: commands, callbacks, tear-down, against a server that publishes |
| `Dict`, `KeyValueMap` | `dict.c`, and the map it implements |
| `Sds`, `SdsText`, `LongLong` | `sds.c`: headers, room and bytes; its algorithms on texts; numbers |
| `CJsonTree`, `ItemLists` | items, links and ownership; the sequences they implement |
| `CJsonParse`, `CJsonPrint` | the parser and the printer with their positions and buffers |
| `CJsonText` | strings with escapes, UTF-16 to UTF-8 and back |
| `CJsonCompare`, `CJsonMinify` | `cJSON_Compare` on trees, `cJSON_Minify` on texts |

`MCWindowReduction`, `MCPlanner`, `MCLongEdges`, `MCTaskServer`, `MCFleet`, `MCMapStore`, `MCHiredis`,
`MCRedisAsync` and `MCCJson` give the constants their values (`DeadlockChecker` needs no module for
that).

Operators whose names end in a suffix after an underscore and whose comment begins with
"Mutant" (`Merge_GoesOn`, ...) are wrong variants of the definition that follows them. No
specification uses them; they are there to show that each property can fail.

### TimeWindows and WindowReduction

`pair<double,double>` is a record with `first` and `second`, `INF` is the constant 10^10 of
the code. Vectors keep their order; indices start at 1. Loops that `push_back` or `erase`
under a condition are `Subsequence(s, K)`, the elements with index in `K` in order.
`combine_intervals` keeps the code's quirk: it widens the window it is about to erase, so the
earlier part of a union is dropped. `WindowReduction` keeps `input` (what the pass was called
with), `reduced` (`result` in the code) and `i`; `Merge` is the branch with `erase` and `i--`, `Advance` the other.

Times are integers: arrival times are sums of `time(NULL)`, Manhattan distances and the lock
tail 2.0 * (1 + 1), all of them whole, and `double` holds them exactly.

### LMap

One call of `serve` is a sequence of actions, and `pc` names the loop that runs:

| `pc` | code | actions |
|---|---|---|
| `getRobotPositions` | `GetRobotPositions`: one HGET per robot | `getRobotPositions` |
| `initLockArea` | `initLockArea`: lock the stored routes of the robots not planned for | `initLockArea`, `locksInitialised` |
| `start` | `multi_pp`: start windows of the next robot | `startSearch`, `noStartWindow` |
| `search` | `while (true)` over `openList` | `popOpenList`, `openListEmpty` |
| `expand` | the loop over the neighbours | `addNeighbour`, `skipNeighbour`, `expanded` |
| `trace` | `printShortestPath`: back along `pre_node` | `traceBack`, `traced` |
| `chain` | `printShortestPathHelper` (recursion as a stack `myList`), then `generateRoute`, `LockTimeWindow`, `TimeWindowReduction4Node` | `chooseWindow`, `rejectWindow`, `backtrack`, `routePlanned` |
| `done` | `serve` has returned | the caller's |

Search nodes are kept in `tree` in the order of their creation and named by their place in
it, so `pre_node` is a place and 0 is `NULL`. `openList` is a multimap: its first element is
the least key, the oldest among equals. "standDone" (no start window, or an empty open list)
gives up the whole call and returns one-point routes. The planner is a single thread, so the
interleaving of its actions with others matters only where Redis is read: the positions, robot by
robot, and the stored routes, which nobody else writes. The stored route is one variable (`robot_route`) for the four
hashes that hold it; `StoreRobotPath` writes it in one step.

### RoutePlanner

The promise, without search, locks or windows: a call is answered once, either with a route
for each of its robots from where it is to its target, not earlier than asked for, compatible with
the stored routes of the others and with each other, or with the order to stay for all of them. `phase`
and `answer` are read off `LMap`: planning is any `pc` but `ready` and `done`. `Look` is the planner's reading of positions while it plans. `KeepsPromise` is the
specification of `RoutePlanner` under that mapping (instance `Promise` of `LMap`), `KeepsPromiseInTime` adds that
every call is answered.

### TaskServer

`line` says where the loop of `main` is: `positions` (`GetRobotPositions`), `tasks` (`Init`),
`checkDeadLock`, `replan`, `storeAll`, `assign`, `storePath`, `storeTask`. The copies
`ts_robot_positions` and `RobotTasks` are those of `myTS`. The random draw of a target is a
nondeterministic choice among the nodes at which the loop of draws stops.

Every Redis command is a step of its own. The server reads the positions, and then the tasks, with one
command per robot (`GetRobotPositions`, `InitTasks`), so its copies are no snapshot. `at` says where the
Emulator is in the turn of the robot `turn`:

| `at` | code | next |
|---|---|---|
| `vpoint` | reads the end of the stored route into `vps_end` | `ReadVPoint` |
| `cFuns` | reads `robot_cFuns` and finds the next node, or none | `ReadCFuns` |
| `hop` | writes `robot_position`; a long hop takes several turns | `TakeHop` |
| `readTask1`, `writeTask1` | HGET and HSET of `robot_task` right after a hop to the end | `ReadTask`, `WriteTask1` |
| `readTask2`, `writeTask2` | the same once more at the end of the turn | `ReadTask`, `WriteTask2` |

Between an HGET and the HSET of a task the server may store a new one, which is then written over. Of the
Emulator's own reads of `robot_position`, which it alone writes, none is a step.

To keep the state space small, a step of the Emulator is taken only if the server's next command reads or
writes a key of the Emulator's, or the server has stopped at its bound (`Shares`): while the server
plans, or looks at `dead_lock` and its own copies, it neither sees nor disturbs what the Emulator reads and
writes, and a step of the Emulator there could as well be taken right before the server's next command
on a shared key. For the same reason `dead_lock` is raised only right before the server reads or clears it,
and the clock advances only right before it is read. `robot_cFuns` is written by a program that is
not in the repository; `cFuns` is an assumption about it, what the Emulator expects: the stored route
from the position on, or nothing yet.

### Emulator and Fleet

`TaskServer` has planner and time in full, and lists of released nodes that are up to date; `Fleet` is its
complement. It has the same commands of Emulator and server, taken at any moment, and a mapper that releases
a route (`Release`, an assumption too) when it likes, so that a robot may follow a list whose route has long been
replaced. The planner is only its promise, in one step: a way from the position
that was read to the target, or the place where the robot is when `serve` runs. A position that is
not in the list gives index -1 in the code and 0 in `PlaceIn`, and the robot goes for the head of the
list. A long hop takes `LongHopTurns` turns.

### DeadlockChecker

`Sample` is one robot's turn in the checker's loop, `Judge` the test behind it. The server's side
is the look at the flag, the storing of the new routes and the clearing of the flag. Robots
move freely or are jammed; a replanning frees those that were jammed when it began
(`replanned`). `still` and `sinceAlarm` are history variables and independent of the
counters, which an alarm resets.

### Roadmap

`raw_map` is the drawing. Nodes are numbered row by row, adjacent nodes are those at distance
one, the lock nodes of a node are the nodes in the same place (itself), long links count
threefold. The MC modules derive the planner's constants from it.

### MapStore

The same code as a process: the builder pushes nodes and links with one command each and may be run
again, which appends everything once more. The planner reads nodes and then links, `TS` reads the
nodes again. Vectors are functions from 0, as in the code.

### hiredis

The parts are modelled apart, each with its environment as actions of its own: the bytes that
arrive (`RedisReader`), a server and a connection that can break (`RedisContext`), every system
call with every outcome (`RedisNet`), allocation that fails at any point (`FormatCommand`), a user who
issues, frees and disconnects in the loop or in a callback (`RedisAsync`).

`RedisContext` numbers commands and takes a reply for the number of its command: what can go
wrong is which reply is whose. `RedisReader` has the bytes, with each number one byte; the digits of
numbers are in `LongLong`. In `RedisAsync` a callback runs as a state of its own (`RunCallback` to
`Return`) in which the user may call; `MayIssue` and `MayFree` say what a disciplined user does: no regular
command in subscribed mode, `UNSUBSCRIBE` only of what is wanted, a free only in the loop or in the
callback of a reply. `RedisNet` follows the descriptor from `redisContextInit` to `redisFree`: `fd` is
`"zero"` until a socket is made, because the context is cleared by `calloc`, and `foreign` counts how often descriptor 0 is
closed for it. In `FormatCommand` `"overrun"` is the scan that has left the format; what follows is undefined and the
model ends there. `Dict` implements `KeyValueMap` (`IsMap`) with its table as the mapping; `Sds` has the
length, the allocated room, the type of the header and the bytes.

### cJSON

`CJsonTree` has a heap of items and strings, each of which may be free or used, and an allocation may fail
whenever it is tried, that of a name too: `failed` marks an item whose last name could not be allocated, `leaked` a
reference that is lost so, and `heap.bad` what was freed without being allocated, or the null pointer read as a
name. What comes then is undefined, and the model stops. `ItemLists` has sequences; `Sequences` reads them off the links, and `AsSequences!Spec`
states the refinement. `CJsonParse` and `CJsonPrint` compute a call of the parser or the printer as a
recursive operator over the state of its buffer. A step of `CJsonParse` makes the text grow along the
grammar or garbles it in one place, a step of `CJsonPrint` and `CJsonCompare` makes the values bigger,
and the properties are about the call on what there is. `CJsonText` and `CJsonMinify` put texts together
of pieces, some of which lie at a border of an encoding, only look like what they are not, or have no end.
The printer grows its buffer by `realloc` or, with hooks that have none, by hand (`realloc`).

## 3. Runs

| run | instance | checks | distinct states |
|---|---|---|---|
| `window_reduction` | all lists of at most 3 windows over instants 0 .. 5 | `TypeOK`, `NoLockLost`, `PassedPartSeparated`, `LegalIsFree`, `LoopIsClosedForm`, `Terminates` | 14 206 |
| `planner` | 3 robots, 2 x 3 grid, 4 calls of `serve`, one of them for the fleet | `TypeOK`, `SearchTreeSound`, `WindowsSound`, `ChainExists`, `RouteWellFormed`, `LocksCover`, `LocksSeparated`, `PassesClear`, `KeepsPromise` | 1.4 million |
| `planner_long_edges` | two aisles of 3 s edges, 3 calls, fair | `NeverHeadOn`, `KeepsPromiseInTime` | 142 436 |
| `task_server` | 3 robots, an aisle of 5 nodes with a long link, 3 calls, one `dead_lock` | `TypeOK`, `TargetsApart`, `StoredRoutesCompatible` | 1.5 million |
| `job_finished` | as `task_server` | `FinishedAtTarget`, violated | |
| `fleet` | 2 robots, 3 nodes, 2 tasks, one `dead_lock` | `UnfinishedTargetsApart` | 733 683 |
| `fleet_live` | 1 robot, 3 nodes, 3 tasks, one `dead_lock`, fair | `RobotsKeepWorking`, `BackOnRoute` | 567 049 |
| `deadlock_checker` | 3 robots, 2 nodes, threshold 1, 2 jams, fair | `AlarmsAreFoundedAndSpaced`, `JamsAreResolved` | 1.0 million |
| `map_store` | all drawings of 2 x 3 cells, the builder run twice | `MapIsWhole` | 22 055 |
| `hiredis` | below | `ReaderIsRight`, `ContextIsRight`, `ConnectIsRight`, `FormatIsRight`, `StringsAreRight`, `DictionaryIsMap` | 135 492 |
| `redis_async` | below | `RepliesReachTheirCallback`, `TearDownIsClean`, `PendingIsRight`, `DisconnectCompletes` | 340 380 |
| `json` | below | `ItemsAreWhole`, `TextsAreRead`, `ValuesArePrinted`, `ValuesAreCompared` | 335 139 |

What they show.

- `LoopIsClosedForm` justifies `LMap`'s use of the closed form of the reduction; `LegalIsFree`
  that the legal intervals of an orderly list are the complement of its locks. `Orderly`
  admits what three robots can produce: two windows in any order, or lists already in order.
- `SearchTreeSound` ... `PassesClear` are about one call. `KeepsPromise` is about what the caller
  sees: whatever the calls before, an answer is all routes or all one-point routes, fits the
  stored ones, and stays the answer until it is stored.
- `NeverHeadOn` rests on the lock tail of four seconds and, on long edges, also on the rule
  marked "2.18 change" in the code; without the rule robots meet head-on.
- `TargetsApart` and `UnfinishedTargetsApart` hold although the Emulator writes old tasks back over new ones: such a
  task comes back finished. `StoredRoutesCompatible` holds in the middle of a replanning too, of two robots that both
  have their new route or both their old one; an old and a new one side by side may collide. `RobotsKeepWorking` and `BackOnRoute` say that neither a lost update nor a route that
  was replaced under a moving robot leaves it stuck.
- `AlarmsAreFoundedAndSpaced` counts samples across alarms, which the counters do not;
  `JamsAreResolved` holds because robots that stay jammed raise the flag again after a lost alarm.
- `MapIsWhole` holds for a server that is started during the second run of the builder, because the
  nodes of the first run keep their places.
- In `hiredis` and `json` the parts share no state, and running them all at once would only multiply
  their states. The variable `component` says which of them runs; each has its own properties, of
  which the run's properties are the conjunctions, `Runs("reader") => ...`. The modules can be checked
  one by one with the same constants.
- Some of these properties say exactly how far the code goes, because it goes wrong in a case (section 6): `ConnectIsRight`
  that descriptor 0 is closed for a context at most once, and only if no socket could be made; `FormatIsRight` that only a
  format that stops within a conversion is read beyond its end; `ItemsAreWhole` that only a name that could not be
  allocated leads to a lost reference, a literal that is freed or a member without a name; `ValuesArePrinted` that
  only the last reallocation, and only with the default hooks, loses memory; `TextsAreRead` that a wrong hex digit is
  code point 0 and the only text accepted against the grammar, and that `cJSON_Minify` leaves the text only behind a comment
  or a string without an end.

### Bounds

*Planner and server.* `MaxServes` bounds the calls of `serve` (a replanning counts as one), `FleetCalls`
the replannings in `PlannerClient`, `MaxDeadLocks` how often `dead_lock` is raised, `Instants` the
values of the clock, `INF` is beyond every time a run can produce. Three robots are the code's
number. Four calls let every robot get a second route, planned around routes planned around
its first, and let a replanning of the fleet come before, between and after them. Two instants
suffice for old routes still being driven and old routes long over: only differences of times
matter, and on the small maps a route ends within four seconds or so when nothing is in its way. On 2 x 3
nodes three robots get in each other's way at once: waits, detours, windows between two locks,
search failures and `standDone` all happen, which the coverage of every action shows. `task_server` has an aisle of five
nodes instead, in which robots cannot pass each other: fewer ways, so that every interleaving with the Emulator's commands
fits, more failures, and a long link. Three calls are a task for each robot, or a
replanning between two of them. `TargetGap`
is 0 in the runs (targets differ) because on so few nodes the code's 3 would leave no target;
the theorem `TargetsStayApart` covers every gap.

*Fleet.* Two tasks (`MaxTasks`) with one replanning let a task of either robot be overwritten and given
anew, with the routes of the replanning stored one by one before, between or after them; `fleet_live` has three
tasks for its one robot. `LongHopTurns` is 2 where the code takes ten: a hop that is
given up half way is enough. `fleet_live` needs one robot only, because robots share nothing but the
draw of targets.

*Checker.* `Threshold` is 1 for 20: counters that differ by one are told apart, and an alarm can come in the middle
of another's replanning. Two jams (`MaxJams`) are one deadlock, or half of one that comes while the alarm for
the other half is served. `MaxBuilds` is 2 in `map_store`: the second run is where places and ids part.

*hiredis.* The constants that scale one of the code: `MaxIndex` 2 (the code's 8 levels of arrays), `ConsumedLimit` 6 (1024 bytes
before the buffer is cut), `Retries` 2 (10), `MaxFormat` 7 (14 characters of a conversion), `InitialSize` 2 (4 slots), `Cap` 3, 5, 9, 13
(2^5, 2^8, 2^16, 2^32 for the four headers), `MaxPrealloc` 6 (1 MB), `Bits` 7 (64), `InitialSlots` 2 (5), `LONG_MAX` 5807 and
`INT_MAX` 4000, of which timeouts lie on either side. Of the environment: `MaxElements` 3, one failing allocation (`MaxOOM`), three commands,
two faults (one fault, its repair and another), three addresses, one reconnect, four keys of which three share a chain,
strings up to `MaxLen` 4 and texts up to `MaxLength` 4. Each is one beyond the limit it tries.

*Asynchronous client.* `MCSession` has four users: one with discipline, two channels, regular commands,
timeouts and a message (three commands); one with regular commands with and without a callback (three);
two without discipline, who unsubscribe what they do not have (three), or mix MONITOR and SUBSCRIBE
(two, with two messages). Three is the least number at which a reply of each mode can meet the callback of
another. Properties that need discipline say so.

*cJSON.* Three items and two strings in `CJsonTree` and four items in its lists (begin, end and two in
between). Items and strings may be exchanged, for nothing in the code depends on an address: that is the
run's symmetry. `NestingLimit` 2 (1000), `FirstSize` 4 (256), `IntMax` 24 (2^31 - 1), `MaxText` 8 symbols, `MaxParseRoom` 8 allocations,
`MaxPrintRoom` 6, `MaxValue` 7, `MaxChunks` 3 escape sequences with up to `MaxCut` 7 characters missing at the end (a pair of surrogates and
one more), `MaxSize` 3 members in the two values compared, `MaxPieces` 4 in a text minified.

### Fairness and deadlock

- `planner_long_edges`: `PlannerRuns`, that the planner's thread, while a call is under way, goes on
  taking steps. The server is one thread that calls `serve` as a plain function, and nothing in
  `serve` waits for anybody. It is weak fairness of `Plan`, with the condition "a planner step is
  possible" written as `PlanningCall`; the two agree because in a `PlanningCall` state no other action
  of `PlannerClient` can be taken and the runs, which look for deadlocks, find none.
- `fleet_live`, `deadlock_checker`: weak fairness of each process's loop (Emulator, server, mapper per robot,
  checker): each is a `while (true)` that waits for nobody. Robots need not move, alarms need not come.
- `hiredis`: weak fairness of a call that has begun, and of the server that executes what it
  was sent. No call has to begin.
- `redis_async`: weak fairness of the turns of a handler or callback that runs, strong fairness of the read
  and write events and of the server, which are disabled again and again while a handler runs; an event
  loop that polls gives just that.

Deadlock is checked in all runs but `window_reduction`, `hiredis`, `redis_async`, `json` and `map_store`, whose loops,
calls and sessions end.

## 4. Proofs

`tlapm` checks every theorem, for all values of the constants that satisfy the modules'
assumptions.

**`WindowReductionProofs`.** `ReductionTypes`, `ReductionKeepsLocks`, `ReductionSeparates` state `TypeOK`,
`NoLockLost` and `PassedPartSeparated` for lists of any length over any instants. The inductive
invariant is

    Inv == TypeOK /\ NoLockLost /\ OrderKept /\ PassedPartSeparated

`OrderKept` (if the input is in order, so is the result) is what the gaps need: after a join the
loop stays at the joined window and compares it with the next one only, never with the one
before. In an orderly list the joined window starts where its first part started
(`JoinedSpans`), so the gap before it is still there. For two windows there is nothing before.
`MergeStep` says what a join does to each place of the list; `MergeInv` and `AdvanceInv` have one
step per conjunct of `Inv`.

`LoopComputesClosedForm` states `LoopIsClosedForm`: the loop, which changes the list under its own counter, returns the
pieces between the cuts that `LMap` uses in its place. `FollowsClosedForm` says how far it is: the windows behind the counter
are the pieces that end at the cuts passed, the one under it is the piece that ends where the loop has come to, those
ahead are the input's. The step is `CutOfPiece`: comparing the joined window with the next one finds the cuts, which are
defined by all windows before and all after. `LegalIntervalsAreFree` states `LegalIsFree`.

**`TaskServerProofs`.** `TargetsStayApart` states `TargetsApart` for any map, number of robots
and gap, with server, planner, Emulator, checker and clock taking their steps command by command.
`TargetsApart` is not inductive: the draw compares with the server's copy `RobotTasks`, not
with Redis, and the Emulator may hold a task that the server has replaced. The invariant is

    Inv == TaskTypes /\ CopyInStep /\ DrawnTarget /\ TargetsApart

`CopyInStep` says that a task in Redis that is not finished is the one in the copy, but for the robot whose task is
just being stored: only the server begins tasks, and what the Emulator writes back, however old, is finished. The
copy need not be right about finished tasks, nor be read at one moment. `DrawnTarget` says that the target
drawn for a robot keeps clear of the copy while its route is planned and stored. That the
draw compares one way only is bridged by `NearSymmetric`.

**`PlannerProofs`.** `PlannerTypes`, `SearchTreesAreSound` and `LocksAreKept` state `TypeOK`,
`SearchTreeSound` and `LocksCover` for every map, fleet, clock and sequence of calls. They rest on

    LMapInv == RoutesOK /\ CallOK /\ LocksOK /\ SearchOK /\ PathOK

of `LMapProofs`. The types alone are not inductive: the code reads its vectors by indices that only
its control flow keeps in range. `RoutesOK` says that a route has a wait, a travel time and a window
for each of its points (`Route`), which `LockTimeWindow` relies on. `CallOK` says
that a call has a start and a target for each robot, and that routes are missing exactly while
the call is under way; without it `start_id` need not be a node, nor the result have a route to
store. `SearchOK` ties the tree, `openList` and `openListSet` together. `PathOK` says that the path
is there before windows are chosen, and that the windows chosen so far are windows of their nodes;
without it `generateRoute` need not be a route. `serveInv`, `returnedInv` and one lemma per action of
the planner show that `LMapInv` is kept; `PlannerProofs` and `TaskServerProofs` use the same lemmas for two
different callers.

`LocksCover` is inductive relative to `LMapInv`. Its heart is `LockedAndReducedHeld`: the reduction may
join windows, but every window of a list lies within one of the reduced list (`ReductionCovers`),
and `LockTimeWindow` has appended a window for each place of the route (`LockedByHas`). It needs no order
of the windows, so it holds for any number of robots and any lock areas.

**`LMapProofs` and `PlannerProofs`: the routes.** `LocksStaySeparated`, `WindowsAreSound`, `ChoicesDoNotRunOut`,
`RoutesAreWellFormed`, `RoutesPassClear` and `RoutesNeverMeetHeadOn` state `LocksSeparated`, `WindowsSound`,
`ChainExists`, `RouteWellFormed`, `PassesClear` and `NeverHeadOn`, again for every map, clock and sequence of
calls, under hypotheses that `LMap` names and the code justifies:

- `SmallFleet`, at most three robots (`ROBOT_NUMBER`, `init3Cars.py`): with four, three windows may stand out of order
  in one list, and a pass of the reduction joins neighbours only;
- `OwnLocks`, a node locks itself alone (the lock areas `smallmap.py` writes);
- `ShortEdges`, for the last of the six and what follows from it: an edge takes at most the lock tail of four
  seconds, and the same both ways (`readTravelTimeList` computes distances; on the grid they are 1);
- `Instants < INF` for the clock, an assumption of `PlannerClient` and `TaskServer`: 10^10 is later than any `time(NULL)`.

The runs `planner`, `planner_long_edges` and `task_server` evaluate the first three (`Hypotheses` in their MC
modules), so no theorem is about maps that the runs do not have. None of the six is inductive. The invariant
(`RoutesInvariant`) adds to `LMapInv`

    RouteInv == RoutesDrivable /\ TableOK /\ LocksCover /\ TreeOK /\ PathLinked /\ ChoiceOK /\ AnswerSound

- `TableOK`. Every lock list is in order with gaps. A route that visits no node twice (`RoutesDrivable`) adds at most one
  window to a list, so that the number of windows, of robots still to be locked and of robots still to be
  planned for is at most the fleet (`RoomInList`). While a route is still to be added a list has therefore at
  most one window before and two after it: just what one pass can put in order (`LockingInOrder`).
- `TreeOK`. The arrival windows of a node of the tree are legal there (`LegalIntervalsAreFree`: in an orderly list the legal
  intervals are the complement of the locks) and each can be reached from a window of the parent; on an edge longer
  than 1 they are legal at the parent as well, the rule marked "2.18 change".
- `PathLinked`. The path that is traced back is a path of the tree, from the root to the target.
- `ChoiceOK`. `printShortestPathHelper` goes through the windows of the path without coming back to one it has given up. That
  this loses nothing is not in its state: each window rejected is `Dead`, which says that no choice of windows for the
  rest of the path begins with it. `ChainExists` and the order of the arrival times rest on it.
- `AnswerSound`. The routes of the answer lead from starts to targets, or all of them are one point.

From these, `RouteIsClear` (a route keeps out of the locks of each route that was planned around) and `NoSwap` (two robots
that exchange places over an edge would need the edge to be longer than the lock tail, or to be crossed
against the rule for long edges) give `Compatible`. `ResultFits` says so of every two routes of a call,
and of each with the routes that are kept.

**`PlannerProofs`: the refinement.** `PlannerKeepsPromise` states `KeepsPromise`: `PlannerClient` implements `RoutePlanner`. A call
maps to a call, reading a position to `Look`, the step that ends the planning to the answer, storing to storing, and every
other step to a stutter. What has to be shown for the answer is `AnswerSound` and `ResultFits`; that no robot is in a call
twice is `EachOnce`.

**`TaskServerProofs`: the stored routes.** `ServerRoutesCompatible` states `StoredRoutesCompatible` in the whole
system, whose server stores the routes of a replanning one by one: two routes that are stored already are routes of
one call, two that are not are routes of before it. The invariant `ServerRoutes` says which
robots the call under way is for (`CallRobots`) and which of its routes are stored already (`StoredSoFar`); the
two callers of `serve` share the lemmas on the planner's steps.

**`FleetProofs`.** `UnfinishedTargetsStayApart` states `UnfinishedTargetsApart` at the grain of Redis commands, for any number of
robots, any map and any interleaving with Emulator and mapper. The server draws a target by its own copy of the tasks,
which the Emulator overtakes, and the Emulator writes back what it read before. `CopyIsKnown` says why this is safe:
only the server begins tasks, so that a task that is not finished is the one in the copy, however old the copy is;
a task that comes back is finished. `TurnIsOpen` says that the robot that is given a task has none until it is
stored. The planner is the operator `Paths` there, of which the proof takes that a path is not empty (`FleetAssumption`).

**`DeadlockCheckerProofs`.** `AlarmsFoundedAndSpaced` states `AlarmsAreFoundedAndSpaced` for any fleet, map and threshold. The
invariant compares the counters with both histories: they are never ahead of the equal samples (`CountsAreSeen`), and
never ahead of the rounds since the last alarm by more than the sample of this round (`CountsAreFresh`).

**`MapStoreProofs`.** `MapAlwaysWhole` states `MapIsWhole` for every set of drawings (any number of rows, of any length, with any
numbers) and any number of runs of the builder. `MapIsWhole` speaks of what was read, and says nothing of the lists in
Redis from which the next is read. The invariant says what the builder writes and how far it has come:

    Inv == CsvOK /\ RedisOK /\ ServerOK /\ MapIsWhole

- `CsvOK`: the nodes of `smallmap.py` are numbered in the order of the list, one for each drawn cell, with the nodes on the
  cells beside it as neighbours and itself as lock node (`NodesAreDrawn`); each node has a link to each neighbour
  (`LinksAreDrawn`). This is not assumed but proved of the script's loops (`NumberedNodesAreDrawn`, `LinksOfAreDrawn`): that
  the row-by-row numbering gives each cell a number of its own, and leaves out none, is `Ranks` (in a finite set whose
  members are ordered, the number of members below a member takes each value once); the same lemma
  gives that a scan finds each node once (`ScanOf`).
- `RedisOK`: during the first run a list is the part that was written (`WrittenAs`); after it, the list begins with all that
  `smallmap.py` made and repeats its members.
- `ServerOK`: what the server has read covers the drawing (`Covers`), and the planner's nodes stand where those that were
  read do.

A list that covers the drawing names with each id a place that holds a node on the same cell (`NodesRead`), however much of the
list is repeated: so the planner's map is the drawing (`NodesReadAreTheDrawing`), the link found for two
neighbours joins these two although links are repeated (`LinkIdMapFinds`, `LinksReadAreFound`), and a longer list read
later for the targets names no node that the map has not.

**`RedisAsyncProofs`.** `RepliesAlwaysReach`, `TearDownAlwaysClean` and `PendingAlwaysRight` state `RepliesReachTheirCallback`,
`TearDownIsClean` and `PendingIsRight` for any set of channels, sessions of any length with any number of messages, and
every order in which user, handlers, timer and server act. Their hypotheses are in `RedisAsync`, and the run
`redis_async` evaluates them (`Hypotheses`):

- `OneChannel`, a (UN)SUBSCRIBE names one channel: with more, the code carries the count of one channel over to the
  next (`async.c:776`, section 6). This is all that `PendingAlwaysRight` needs;
- `NoMonitor`, a disciplined user does not MONITOR: its lines are told from replies by the length of the queue only
  (`async.c:467`). Users without discipline are in the theorems with what holds for them.

None of the three is inductive: the state of the client does not say which reply comes next. The invariant follows
the pipe, the replies that were read (`reader`) and those still in the socket (`fromServer`). There is always a
number n of commands that are answered and processed, such that

    PipeKnown(n) == AnswersKnown(n) /\ MessagesKnown(n) /\ AwaitedCounted(n) /\ (Orderly /\ Live => Over \/ Protocol(n))

- `AnswersKnown`: the pipe has one answer to each of the commands n + 1 .. `Served`, in order; the queues `toServer` and
  `obuf` hold the commands after them (`Queues`).
- `MessagesKnown`: a message comes after the confirmation of a subscription and before that of an unsubscription. It
  holds when the server publishes (`ServerKnown`), and the order of the pipe keeps it.
- `AwaitedCounted`: the SUBSCRIBEs of a channel that are not answered are counted. With `Counted`, an UNSUBSCRIBE answered
  drops the callback only when no confirmation of the channel is to come: why a subscription that is renewed
  before its unsubscription is confirmed keeps its callback.
- `Protocol`, for a disciplined user: the first answers are for the callbacks in `replies`, which are those of regular
  commands (`RegularsFirst`); a channel that is subscribed after the first n commands, or will be, has its callback
  (`CallbacksKept`); out of subscribed mode nothing is to come but replies to regular commands (`Quiet`); and nothing
  comes unasked but the error of a server that turns its clients away, alone and as its last word (`Unasked`).

A step that takes a reply off the pipe makes n the number of the command it answers (`KnownStep`, `ProtocolStep`), a step
of the server adds the answer to `Served` + 1 or a message (`ServerKnows`, `ProtocolServer`), and a command is added at
the other end (`CommandKnows`, `ProtocolCommand`). That the last confirmation leaves subscribed mode only when
nothing more is to come is `PubSubQuiet`. `TearDownIsClean` follows from `Modes` and `Discipline` (where the handlers are, and
why) and `Once` (a regular command's callback is in `replies` once, or has run once).

The operators on lists are `Subsequence`s, which pick elements by their rank in a set of indices;
that there is one of each rank is `RankExists`, from the theorems on finite sets. `ArrivalTime` is a
recursive function; that such a function exists, and therefore satisfies its equation, is
`ArrivalTimes`. The induction is over an interval and goes by the least element at which a set of
numbers fails (`FiniteInduction`, `LeastNumber`), with no induction over an operator.

**`TaskServerProofs`, types.** `ServerTypes` states `TypeOK` of the whole system. The invariant adds to
`LMapInv` what the place in the server's loop says about the call (`ServerOK`): a call is under
way or over exactly at `storeAll`, `storePath` and `storeTask`, and it has a route for the robot whose
route is stored next.

**What is left to TLC.** Out of the prover's reach: liveness (`Terminates`, `KeepsPromiseInTime`, `JamsAreResolved`, `RobotsKeepWorking`,
`BackOnRoute`, `DisconnectCompletes` and the liveness of hiredis), and what the recursive operators of the libraries' models
compute (`FormatIsRight`, `StringsAreRight`, `TextsAreRead`, `ValuesArePrinted`, `ValuesAreCompared`), which are inductions over data.
Model-checked and not proved: the refinements of `KeyValueMap` and `ItemLists`.

## 5. What is not modelled, and limits of the model

- The traffic mapper and the rest of `VP` (its sources are not in the repository: `cFuns` and `Release` assume what the
  Emulator expects of it; its copy of hiredis is the same, byte for byte), the GUI, `robot_with_box`, `robot_x` and `robot_y`, which are
  written for the viewer, `FunctionTest`, `readLogicalNodes` and other functions that nothing calls.
- The five commands of one `StoreRobotPath` are one step: the other programs read one of the five keys
  only.
- A builder that is stopped half way and started again: nothing says what should come of it.
- Of the libraries: SSL, `sockcompat.c`, the adapters, examples and tests; patterns in `async.c`, which repeat the code of
  channels; `REDIS_NO_AUTO_FREE`; numbers to text and back by `strtod` and `sprintf`; cJSON's hooks, its
  tests of a type and its arrays of numbers. `Interrupts` is `FALSE` in the run of `RedisContext` (section 6).
- Things the code does not promise, which the properties therefore leave out: the last node of
  a route, where the robot stays for ever, is checked at the arrival only; the one-point
  routes of `standDone` are checked against nothing, so that another robot's route may lead through them; while the
  routes of a replanning are being stored, an old and a new one may collide; a robot that is not on the route it is
  given goes to its head unplanned; robots that wait or have finished count as blocked for the checker. The rule for long edges covers travel times up to
  the lock tail.
- With more than three robots, or lock areas of several nodes, `node_locked_time_window` may hold three
  or more windows out of order, which the reduction is not made for (`Orderly`).

## 6. Finding and observations

**Finding.** The Emulator reports "finish one job" when a robot stands at the last node of its stored
route. If the planner finds no route, the server stores the new task together with a one-point route
at the robot's own position; the next turn of the Emulator finishes the task although
the robot never went to the target. The same comes of a new task that is stored after the Emulator has read the end
of the old route (`emulator.py:30`) and before it reads the task (`:91`, `:99`). Run `job_finished` shows it (`FinishedAtTarget`).

**Observations** about the libraries, met while their modules were written. Where a condition is named, the
modules show them when it is lifted; the others are in the modules, and the property named says how far they go.

| where | what |
|---|---|
| `net.c:88` | a `send` that is interrupted or would block returns -1, which `redisBufferWrite` takes for an error: `redisCommand` returns `NULL` with `err` 0, and the command is answered to the next call (`Interrupts`, `NullMeansError`) |
| `net.c:415`, `:457`, `:535` | `SO_REUSEADDR` refused, retries used up, a bad timeout for a Unix socket: `REDIS_ERR` without `err` (`PlainErrTellsFailure` leaves them out) |
| `async.c:324` | a pending callback that frees the context during the tear-down after an error makes the disconnect callback get `REDIS_OK` |
| `async.c:467` | a line of MONITOR in two reads: an empty callback is queued and takes every second line from then on |
| `async.c:498` | an error reply in subscribed mode closes the connection, and the callback of the refused command gets `NULL` |
| `async.c:502` | `SUBSCRIBE a` and two `UNSUBSCRIBE a` pipelined: the first confirmation ends the mode and the next reply meets the assertion |
| `async.c:702` | a callback that gets `NULL` for a timeout can issue a command, which is run with `NULL` in the same loop |
| `async.c:776` | `SUBSCRIBE a b` after `SUBSCRIBE a`: the count of pending confirmations of `a` is carried over to `b` |
| `hiredis.c:300` | `strchr` finds the NUL of `intfmts`: a format that stops within a conversion (`"%5"`) is taken as complete, and the scan goes on behind it (`StopsInConversion`) |
| `hiredis.c:590` | the context starts with descriptor 0: freed or renewed after a failing `getaddrinfo`, it closes descriptor 0 (`ForeignClosedOnce`) |
| `cJSON.c:515` | `parse_hex4` answers 0 for a bad digit, as for the digits 0000: the sequence is accepted (`ReadsTheString`) |
| `cJSON.c:1051` | the buffer is given up before it is known whether the last `realloc` succeeded: the text is lost (`PrintsOrFrees`) |
| `cJSON.c:1820` | the name of a new member cannot be allocated: the member is not added, the caller is not told, and a name that was a literal loses its mark and is freed later (`NamesAreMarked`) |
| `cJSON.c:1868` | the same for a reference: nothing points at it any more (`NothingLeaks`) |
| `cJSON.c:2027` | the same for a replacement: it becomes a member without a name, which `strcmp` reads at the next look-up (`ReadsNil`) |
| `cJSON.c:2439` | `cJSON_Minify` moves on without a look at the NUL behind a comment, and behind a string (`:2453`): without an end it reads and writes beyond the text (`KeepsTheRest`) |
| `cJSON.c:2655` | objects with two members of one name compare by the first of them: a copy may differ from its original (`CopyIsEqual` of `CJsonCompare`) |

## 7. Plan

1. (done) `TimeWindows`, `WindowReduction` and its proofs.
2. (done) `LMap`, `PlannerClient`, the grid and the long edges; `RoutePlanner` and its refinement.
3. (done) `TaskServer` and the proof that targets stay apart.
4. (done) `Emulator`, `Fleet`, `DeadlockChecker`, `MapStore`.
5. (done) hiredis and cJSON.
6. (done) Proofs about the planner: types, search trees, locks, windows, routes and the refinement of `RoutePlanner`;
   the stored routes of `TaskServer`; that the loop of the reduction computes its closed form.
7. (in part) Proofs about the others: done are `UnfinishedTargetsApart` of `Fleet`, the alarms of `DeadlockChecker`, the
   map of `MapStore` and the callbacks of `RedisAsync`. Left are the refinements of `KeyValueMap` and `ItemLists`.
