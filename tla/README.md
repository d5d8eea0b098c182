# Verification of Lua_Study

TLA+ models of the parts of this repository that have behaviour worth arguing about: checked
with TLC on small instances, and proved with TLAPS, as far as proofs go, for every value of the
constants. The code is the reference throughout; where it and one of its comments or tests
disagree, a run shows the disagreement (see *Findings*).

## 1. The system

The repository is a collection of game infrastructure, mostly Lua, some C++, without a common
main program. Its own parts, the state each keeps, and what makes it hard:

| Part | Code | State | Hard about it | Correct when |
|---|---|---|---|---|
| Task pool with futures | `Study/Task/Task/Public/Task.h`, `Future.h` | queue of closures, mutex, running flag, detached threads; per future a state, a value, callbacks | threads; pushes without the lock; callbacks attached while a worker iterates; a destructor that does not join | each task runs once; its callbacks see the value, each is called once; the destructor ends, workers stop |
| Ticker (timing wheel) | `Base/Function/Ticker.lua` (copies in `Base2`, `simulator/win32/src/Base`) | a wheel of slots, each with lists of timers by revolution and period; a list called in each tick; tags | callbacks add, remove and stop while their list is walked; a wheel that lags; a counter that wraps | lists stay linked; every timer is called when due, once |
| Path finder | `Navigation/Navigation/Navigation/**` behind `NavLib.cpp` | the map (height, flags, attraction per cell), searches put away by their deadline | searches share and change the map; resumption; edges closed instead of cells; negative costs | a path answers what was asked, is walkable and cheapest; every call returns |
| NavSys | `Nav/Nav.lua` | queues of commands, a cache of results | merging of commands, keys that coincide, a Tick that raises half way | nobody reads somebody else's answer; nothing is lost |
| Red-black tree | `Base/DataType/RBTree.lua` | nodes with three links and a color | rebalancing after deletions repairs the wrong node | content and order survive; every call returns |
| BattleMap with GameMap and heapq | `Debug/BattleMap.lua`, `Debug/GameMap.lua`, `Debug/heapq.lua` | dense arrays of battlers with back indices, counts per type, weights of walls; per search a heap, and cells that keep what earlier searches wrote | registry, counts and weights have several writers; searches see each other's leftovers | arrays, indices, counts and weights agree; a route leads to what it names |
| Timer | `Debug/Timer.lua` | handlers and deferred removals by key | callbacks add, remove, clear and fail while the handlers are walked | a removed timer is not called again; a living one is not forgotten |
| Cron | `Base/Cron/Cron.lua` (copies in `Base2`, `simulator/win32/src/Base`) | the time it moves on, field by field | carries between fields of a calendar | the result is the least matching time |
| Property and Bind | `Base/DataType/Property.lua`, `Base/Function/ToBind.lua` | values, callbacks by tag, the Sets under way | callbacks set the field again, bind and unbind | each bound callback hears of the value the field has in the end |
| Event, Listener, Data, Model, Property.h | `Base/DataType/*`, `ECS/Data.lua`, `Base/MVC/Model.lua`, `Property/Public/Property.h` | sets of callbacks | see PROJECT.json | |
| StateMachine, ECS, SearchPath, Navigation(1), class libraries, Aoe, ShaderHelper, GameEngine | see PROJECT.json | | sketches, older versions, geometry, I/O | |

How they interact: game code sets timers on a **Ticker**, which calls back once per frame;
it asks **NavSys** for paths, whose `Tick` calls the **path finder** through a DLL and leaves
results in a cache polled by `GetPath`. The **task pool** is used by the C++ area tests
(`IsInRangeTest.cpp`), which submit a task under the pool's lock and attach callbacks to its
future. The **tree** is a container the ticker test exercises (`TickTest.lua`). A **battle** asks
its map for routes: the search takes cells from the **heap**, looks at the weights the registry and
the grid have written, and marks the walls it chose for the next soldiers. **Timer** runs once per
frame and **Property** on every assignment; both call back into game code. Everything but
the pool runs in one thread, so its interleavings are those of callbacks and of calls in a row.
PROJECT.json lists every part under `components`, and under `hazards` what can go wrong at
which line and which property would show it.

## 2. The modules

| Module | What it is |
|---|---|
| `TaskService` | what the pool promises: a FIFO service that runs each accepted task once and delivers its callbacks |
| `TaskPool` | the pool and its futures, one action per access another thread can observe |
| `TaskPoolMC`, `TaskPoolProofs` | instances; theorems |
| `Ticker`, `TickerMC`, `TickerPlansMC`, `TickerProofs` | the timing wheel; instances; theorems |
| `Grid` | cells, coordinates, octile distance and keys of edges, used by the path finder |
| `AStar` | the path finder: searches, deadlines, resumption, map changes |
| `AStarPaths` | reference definitions (reachable goals and their least cost) and the properties that need them |
| `AStarMC`, `AStarSettingsMC`, `AStarProofs` | instances; theorems about the grid and the search |
| `NavSys`, `NavSysMC`, `NavSysProofs` | the command queue; instances; theorems |
| `RBTree`, `RBTreeProofs` | the tree; theorems |
| `BattleMap`, `BattleProofs` | the registry of a battle and the weights of its walls; theorems |
| `PriorityQueue`, `HeapQ` | what the searches need of a heap; the heap (that it implements it is proved in `BattleProofs`) |
| `Least` | lemmas: least counterexamples, functions defined by iteration, sums over finite sets |
| `BattleSearch` | the search of the battle map |
| `BattleSearchMC` | the maps and searches of its instances |
| `Timer`, `Binder`, `SupportProofs` | timers by key; callbacks bound to a field; theorems about both |
| `Cron` | the next time of an expression |
| `SearchesMC` | one instance of the two path finders, and of the registry and the heap of a battle |
| `LuaSafetyMC` | one instance of NavSys and Binder, whose properties are all of safety |
| `LuaLivenessMC` | one instance of Timer, Cron and RBTree, which have properties of liveness, too |

Operators marked `Mutant:` are plausible bugs of the definition that follows them. No
specification uses them; they show that a property notices when the code is changed that way.

`TickerPlansMC` and `AStarSettingsMC` let each behaviour follow one *plan* or *setting*, a record of what it may do
(how far the wheel may lag, whether callbacks use the whole API; which maps, how many searches,
whether they have deadlines), so that one run asks its questions of several environments.
`SearchesMC`, `LuaSafetyMC` and `LuaLivenessMC` join components that share no state: each runs alone, in the *stage* chosen
at the start, and the properties of the others hold there trivially.

### TaskPool

`bRun`, `lock`, `tasks` are `Task::_bRun`, `_lock` (its owner) and `_tasks`; `state`, `value`,
`calls` are a future's. A worker's control point `wpc` follows the lambda of Task.h:30-48, then
the closure of AddTask (Task.h:71-75) and `Future::Valid` with the iterators of its range-for.
A client may take the lock (`Lock`), pushes, attaches callbacks (`OnValid`), leaves, drops its
`shared_ptr`; whoever drops the last reference runs the four steps of `~Task`. When it does so
between its own Lock and Unlock (`DropLocked`), the `lock()` of Task.h:54 waits for its own
thread: the standard leaves that undefined, here it never returns, and `DestructorEnds` excepts
it. Left out is a client that gives up a reference that is not the last one while it holds the
mutex, after which nobody takes the lock again.

*Races.* AddTask's push is an interval. If another thread touches the queue inside it the push
is `torn`: it may be lost, or leave an element that was never written, which are the outcomes
of a deque whose size is a plain member. After `~Task` has freed the pool a worker that touches
it is in undefined behaviour and does no more (`UseAfterFree`), as does one whose iterators
dangle because `_calls` grew while it iterated.

*Discipline.* `Careful` is the set of clients that bracket AddTask and OnValid by Lock and
Unlock, as `IsInRangeTest.cpp:114-134` does. The strong properties are about them; the run with
careless clients shows what is left without it.

*Fairness.* Weak fairness for each worker (the operating system schedules threads) and for a
client's steps once it has begun AddTask; strong fairness for the destructor's `lock()`, since
workers leave the mutex free for a millisecond in every round. Nothing makes a client submit,
take the lock or drop its reference.

### Ticker

`heap` holds the links of the timers (`next`, `last`, `group`, `call`) and the head and tail of
each list, named by slot, revolution and period; `Taken(d)` is the list of period d that `Call`
has taken out of the wheel and walks. `cur` and `count` are `__cur_group_id__` and
`__group_count__`, `M` is `__max_group_count__` (2^32 in the code, small here so that it wraps),
`N` the number of slots, `R` how many time units make one tick. A `Tick` is a series of actions:
each call of a timer is one, and between `CallNext` and its return the callback may do whatever
Lua code can do to the ticker (`Api`): the successor of the timer has been read already then,
as in Ticker.lua:89-91. History variables count, for each timer, the steps until it is due
(`left`) and how often it was called in the current slot (`rung`).

`Tick(f, e)` is told that f has passed, on which the wheel goes by, while the clock (`socket.gettime`), on which
the age of a call goes by (`since` is `__now__ - LastCall`), has advanced by e: the caller's diff and the clock are
independent in Ticker.lua:132-135, and TickTest.lua:134 passes diffs of its own. Starting the ticker reads the clock
too (`AgesAtStart`).

Abstracted: callbacks take no time on the clock; time is in whole ticks (no rounding of floating-point periods); Stop between ticks
forgets all timers; a removed timer leaves the list of its tag at once, where removing it again
would have no effect; one ticker.

### Path finder

A search `s` holds its open heap (a set; `Tops` are the elements the heap may have on top, ties
in any order), its closed set of edges, the least walk per cell, and its top. `Search` starts one of the
three kinds, `Expand` is one turn of the loop with BFS, `Return` and `Stop` are how a call ends,
`Resume` continues one from the cache, under any id that was ever answered: nothing leaves `_cache`, so a
search that has answered can be resumed again and goes on with what its heap still holds. When that is
nothing, `open.top()` of the empty heap is undefined behaviour; the model ends there (`Undefined`).
`Deadline` may come at any time. A found path makes the
walls it crosses attractive (`AddAttraction`), which changes the costs for the searches that
follow. The committed code calls the function by another name (`AddWallAttraction`,
AStarNavigation.h:205, declared in INavigation.h); the only body is Navigation.h:117, and that is
what the model does.

`AStarPaths` defines by a recursive settlement of costs what a cheapest path costs on the
same graph. It is used only by TLC's runs.

### NavSys

`search` is the queue (function, key, parameters and place of each command), `cache` the result
places, `asked` the history of who was told which place. Keys are part of a request, so that two
requests may have one key, as the code's concatenation without separator allows. The strength of a request
is its dps and speed; when requests merge, the command has the sum of the dps and the least speed, and `brought` records
what was brought to each place, which an answer is compared with. `Tick` and
`TickRaises` are the two outcomes of `NavSys.Tick`: a command of the height queue, or a search
function in `Raising`, stops it half way, and nothing is taken off the queues. (In the code as
it is MultiSearch raises, Nav.lua:232 passing nine arguments to a function declared with eight,
and every height command does, Nav.lua:478.)

### RBTree

Left and right are one definition with a side. `nil`, `false` and `NilNode` are one value whose
fields read as the code's NilNode. Insert and Delete are one action up to their loop, one for
each turn of the loop, one after it: the tree between two turns is visible to the properties.

### BattleMap

`lists` holds for each array of the registry its members in order (`seq`) and the index each battler
carries for it (`at`); the counters `_btaid`, `_bfid1` ... are the lengths. `types`, `allWalls` are the
code's; `weight` is the second entry of the cell of a wall, `grid` the walls on GameMap's grid. One action is
one call: ShowBattler, HideBattler, AddBattler, RemoveBattler (with destroyBuild), NewBattle (clear, ctor
and init), the two writers of the grid and the search's choice of a wall. A battler's kind (soldier, hero, a
captain whose sid is exactly 1000, building, wall, decoration) is a constant. Calls may come in any order,
except that nobody calls `init()` alone on a registry with members: it empties arrays and resets
counters, but neither `battlerAll` nor the indices the battlers carry. The history `extra` counts, for each building,
calls to show it that found it shown and calls to hide or destroy it that found it hidden.

### HeapQ and BattleSearch

`HeapQ` is `heappushArray` and `heappopArray` with one action for each round of their loops, and
`Queue` its refinement of `PriorityQueue`, a bag from which a least cost is taken. `BattleSearch` uses what is
shown there: `LeastOpen` is any open item of least cost. `cells` are the fields of `searchCells` and
`closeSet` that survive a search; `StartSearch`, one round of the loop (`SkipClosed`, `GoOn`, `Arrive`) and
`GiveUp` are actions. Answers hold the target, what to attack, the points of the route and the cell
where the search started. Distances to a target are in halves of a cell; which neighbour a soldier
who stands in a wall starts from is any free one.

### Timer

`handlers` and `removes` are the tables of `_timerGroup`; after `clearAll` the walk still holds the old
`removes`, which is `rmvs`. One action per key the walk comes to (`Pass`, `Call`), per return or failure of
a callback, and for the sweep. When a callback inserts a new key in the table that `pairs()` walks, Lua
leaves it open what the walk comes to from then on: `todo` becomes any set of the keys. A frame takes one unit of
time. Histories: which timers live (`alive`), since when (`age`).

### Binder

`frames` is the stack of Sets under way, each with its value, which of its two walks it is in (the
OnChange that ToBind installs, then NewProp.Set itself), which tags it has still to come to and who is
called. Callbacks act as free Lua code between `Deliver` and `CallbackReturns`. A callback that Bind calls at once
has a frame without a walk. Binding a new tag inserts a key into the table that `pairs` may be walking: each walk under
way then comes to whichever tags it will (`AfterBind`), and one whose own tag was unbound before may end in the error
"invalid key to 'next'" (`WalkFails`), which no Set catches.

### Cron

`Step`, `NextAppoint`, `Up` and `UpWDay` are the code's functions, one action per field the loop looks at
and one at the end of a round. `Up` folds the seven functions UpSec to UpYear, which differ in the field
above, into one recursive function. `Goal` is the reference: the first time of the calendar all of whose fields are in the
sets the expression means.

## 3. Runs

Each has a `.cfg` of its own. All but `violation` runs end without error.

| Run | What it shows | Instance |
|---|---|---|
| `task_careful` | with locking clients: pushes are never overlapped (`QueueRaceFree`), callbacks see the value and are all delivered, at most one more task per worker after `_bRun` is cleared (`StopBarrier`), the pool implements `TaskService`, which runs each task once in order, tasks are served, the destructor ends | 2 workers, 2 clients, 2 tasks, 2 callbacks per future |
| `task_careless` | with one client that takes no lock: still nothing runs twice, and a callback attached before the future is valid is called | as above, 1 callback |
| `ticker_wheel` | callbacks that add and remove any timer: lists stay linked, every timer is called when due and once, also across wraps and after a Stop between ticks; a nil call needs a callback that removed another timer | 3 timers, 2 slots, wrap at 2, periods 1 and 3, 1 Stop |
| `ticker_plans` | a wheel with can_skip that lags by more than a revolution, told at least what the clock advanced by, skips no turn that is still to come; callbacks that also stop the ticker: lists stay linked; every Tick ends | 2 timers, 2 slots, 7 units of time, 1 Stop |
| `searches` | *Path finder:* all maps of 4 x 2 cells with open corners, two searches in a row: paths are walkable and cheapest, none only if unreachable; deadlines, resumption in any order and a change of the map in between, also of searches that have answered: only those may find the heap empty; every call returns, also when a wall on the path was lowered below its attraction and is walked onto at a negative cost. *Battle:* every order of calls on the registry: arrays, indices, counts and weights agree (`ListsIndexed`, `TypesCount`, `WallsWeigh`); the heap implements the queue (`QueueKept`); whatever earlier searches left in the cells, a route leads to what it names, and an empty answer to a search from a free cell means that no cell but the start would have done (`AnswerLeads`) | 4 x 2 cells, 3 calls, 1 change. 4 battlers, of them 3 buildings, 2 unbalanced; 7 items of 3 costs; 5 maps of 5 x 5 cells, 5 kinds of searches, 2 in a row |
| `lua_safety` | *NavSys:* no one reads another's answer, every request stays queued or is answered unless a key coincides, an answer is found with the strength of all requests merged into its command, and stays until a Tick raises; a Tick that returns leaves none open. *Binder:* a field whose callbacks set it, bind and unbind: all those bound when it got its value hear of it, unless a walk failed or another was bound while their turn in the second walk was still to come | 5 requests (two of one key), 5 commands, 1 Clear. 2 tags, 2 values, 3 Sets within each other, 4 calls of Bind and Unbind by callbacks |
| `lua_liveness` | *Timer and Cron:* timers whose callbacks add, remove, clear and fail: the dead are not called, nor the living forgotten but for those added again after a `clearAll` of the same walk; Cron: the first time that fits is found. *Tree:* all sequences of operations on 6 keys: links agree, content in order, a red-black tree as long as nothing is deleted, every call returns | 2 keys, 2 intervals, 5 calls, 1 failure; 2 x 3 x 2 a day, months of 3 and 2 days, weeks of 3, 3 years, every expression of at most two fields, every start in the first year. 6 keys |
| `astar_failure`, `astar_time`, `rbtree_assert`, `battle_gives_up`, `timer_again` | expected violations, see *Findings* | |

*Why these bounds.* Pool: two workers and two clients are the fewest that race on every shared
variable (pop against pop, push against pop, push against push, destructor against worker), and
two tasks the fewest that can be reordered. Wheel: two slots make a period of 1 and one longer
than a revolution distinct, a wrap at 2 happens in every behaviour, and a third timer gives a list a
middle. Maps: the smallest with a cell that is reached by several ways and with neighbours across the
border of a row; three heights are blocked, open and a wall. Tree: six keys reach every case of
both loops and a deletion that leaves two red nodes in a row; the whole state space is explored,
not a prefix. NavSys: two requests of one key, one that raises, one without strength. Registry: a hero, a
building that counts, a wall and a decoration have between them every mixture of arrays a battler may be in, and
three in one array make a swap that is not with oneself. Heap: seven items have an inner
item with one child, with two, and three levels. Search: 5 x 5 cells are a fort with an inside and the ring
around it; the maps have it closed, with a gap, with a wall that only the grid knows, filled, and
absent; the second search of a behaviour is the first that meets leftovers. Timer: a key that calls and
one that is acted upon, one sweep lost to a failure. Binder: three frames are a Set within a Set within a
Set, the last of which may restore the first one's value; four calls by callbacks unbind and bind again in both walks, which is
what it takes to pass somebody over in the first and then in the second.
Cron: the unequal months and the week that divides neither them nor the year make every carry that the code
has. Bounds are named in each module: `MaxCalls`, `MaxFrame`, `MaxTime`, `MaxSince`, `MaxStops`,
`MaxSearches`, `MaxUpdates`, `MaxRuns`, `MaxCmds`, `MaxClears`, `MaxExtra`, `MaxHeap`, `MaxOps`, `MaxFails`,
`MaxFrames`, `MaxBinds`, `Years`.

*Fairness of the Lua and C++ calls.* In `Ticker`, `AStar` and `RBTree` it is weak fairness of the
steps inside a call: one thread runs a call to its end if the callbacks it makes return. No call
is ever assumed to be made. `Timer` assumes that the scheduler comes round again and that callbacks
return (`Frames`), `Cron` that its loop runs on.

*Deadlock.* It is checked in both task pool runs, both timer wheel runs, both findings of the path finder, `rbtree_assert` and
`lua_safety`, where a module names the states in which it may stop (`Finished`, `Ended`) or always has something
left to do. `searches`, `lua_liveness`, `battle_gives_up` and `timer_again` switch it off: their calls are
bounded, and they end when the bound is used up.

## 4. Findings

| Run | Disagreement |
|---|---|
| `astar_failure` | the first search put away is answered by -1 (AStarNavigation.h:182), which Nav.lua documents and treats as failure |
| `astar_time` | the loop continues while the deadline has passed (AStarNavigation.h:215): a search in time is stopped, one out of time is not; Nav.lua documents the opposite |
| `battle_gives_up` | a search runs out of cells when each cell in range of the target is a wall's and nothing the soldier likes is on a free one, or when only the cell he starts at would do, about which it never asks (:529 expands it unasked); BattleMap.lua:641 and :642 call that impossible |
| `timer_again` | a timer added again after `clearAll` of the same walk, with a key that had a mark or a handler before, loses its handler in the sweep (Timer.lua:39-42); Timer.lua:102 says that addTimer undoes a removal |
| `rbtree_assert` | after some deletions a red node has a red parent: Delete repairs from the wrong node (RBTree.lua:329-331); TickTest.lua:136 asserts the contrary |

Met while modelling and described by the properties rather than as findings, because nothing in
the repository says otherwise, or only in passing:

* *Ticker.* A timer's callback that removes its successor makes the walk call nil (`NoNilCall` shows it is
  the only way); a Stop in a callback revives the timers of the slot and leaves time negative, after which
  timers are not called when due (`OnTime` is asked of runs without it); with can_skip, a timer set by a callback
  of a lagging Tick gets a LastCall in the past and later skips turns that are still to come (Ticker.lua:249
  with :95; `LateWheel` is asked of wheels whose timers are set between ticks). The same happens when Tick is told less
  than the clock has advanced by, for :95 goes by the clock and the wheel by what it is told (:132-135): `LateWheel` is
  asked of diffs that are no less, which is what TickTest.lua:134 passes.
* *Tree, NavSys.* The only node of a tree is not taken out by Delete (`kept` in `Contents`); a search whose key
  coincides with a queued one takes its place (`lost` in `KeptOrAnswered`); a height command makes every later
  Tick raise until Clear.
* *Path finder.* An id resumed again after its search has answered may find its heap empty, whose `top()` is
  undefined (`SafeTop` names these ids), may be answered by a path that meets a cell twice, and by one through a cell
  that was blocked meanwhile (`WalkablePath` leaves them out), or by an empty path although it was answered before and
  nothing has changed, which Nav.lua:56 and :78 take for unreachable (`NoneMeansUnreachable` leaves it out): nothing
  leaves the cache that AStarNavigation.h:546 looks the id up in.
* *BattleMap.* `hasType` is off by one for each building that was hidden and then destroyed, or shown twice
  (`TypesCount`). A standing wall that is cleared from the grid may weigh nothing, and a fallen one that is still on the
  grid 80: `WallsWeigh` speaks of walls both have or neither has. A hidden wall is still attacked. A wall that only the grid knows (weight 80, not in
  `allWalls`) is walked through without an attack. Routes are never reused: `reuseInfos` has three entries,
  `checkReusePath` compares a fourth.
* *Timer.* A key inserted into the table being walked may make `pairs` come twice to a timer in one frame, whose interval is
  then over too soon (`unsure` in `CallsTheLiving`).
* *Cron.* The copies in `Base` and `Base2` raise on every expression (`result[str] = true` in their split puts
  string keys into the table that `pairs(exps)` walks). A list is stored as `Appint` and asked for as `Appoint`,
  so fields with lists start again at the beginning of their range, not of the list. A carry adds the step of the
  field above to its value, aligned or not, and may pass times that fit: `0 */5 ...` at minute 3, second 30
  answers minute 10. `FirstThatFits` is therefore asked of *plain* expressions, whose stepped fields are only above
  fields that never carry; what it says of them includes every carry, short months and days of the week.
* *Bind.* Every bound callback is called twice per change (once by the OnChange that ToBind installs, once by
  NewProp.Set); after a Set within a Set the outer walks go on with the older value, so the last value a callback
  hears may be an old one, although it did hear the new one (`EveryoneTold`). A callback that unbinds itself and binds
  another may end every Set under way in an error (`WalkFails`), and one that binds in the second walk may keep those still to
  come from ever hearing of the value (`fresh`).
* *Model and Data.* `Unbind` clears `_eventTag[k]`, k being the pattern it searches for, instead of `[key]`: the
  entry stays, and the next Unbind takes the callback out once more.

## 5. Proofs

All are checked by TLAPS for every value of the constants that satisfies the named assumption of
the module; none uses an unproved fact.

* **TaskPool** (`TaskPoolProofs`). `TypeCorrect`: the type invariant, strengthened by which control
  points hold a task. `PushesNeverRace`: under `Careful = Clients`, `QueueRaceFree`; inductive with *the
  lock is held by exactly the thread that is at a point between lock and unlock*, as a push is then
  exclusive of every access. `StopIsABarrier`: `StopBarrier`, for all clients, careful or not; inductive
  with *a worker that has taken a task since `_bRun` was cleared is not on its way to another*.
  `EachTaskRunsOnce`: `RunOnce`, for all clients too, so with torn pushes; inductive with *a task is in the
  hand of one client, in one place of the queue or with one worker, and has not run before that worker
  calls it*.
  `CallbacksOfCarefulClients` and `PoolImplementsService`: under `Careful = Clients`, `CallbacksDelivered`
  and the refinement `ImplementsService` of `TaskService`. Both come from one invariant, which joins *no callback is
  attached outside the critical section of its push, so that the number of callbacks is fixed once a worker holds the
  task* with what a worker at each point of `Future::Valid` has called; the refinement then has a step for each
  action, a push that is complete, a pop, and the end of a task being the three that are not stutters.
* **Ticker** (`TickerProofs`). `ListsStayLinked` is `WellLinked` and `WalksCallTimers` is `NoNilCall`, both for every
  client. Their invariant says of the heap that *each neighbour of a timer points back and has the same list; the
  only timer of a list without predecessor is its head, the only one without successor its tail; and no set of timers
  is closed under predecessors*. The last part excludes rings without a recursive definition, and makes `Chain` (the walk
  of at most as many steps as there are timers) reach exactly the members of a list. Of the lists outside the wheel it says
  that *only those Call has still to do are not empty*, which is what a Stop in a callback, reviving the timers of the slot,
  must not disturb; of the cursor, that *a walk in which only timers took themselves out stands at a timer that is still in
  the ticker*.
  `TimersOfEachFrame` (`EveryFrame`) and `TimersOnTime` (`OnTime`) need to know who has been called in a walk. They
  add that *what is behind a timer not yet called is not yet called either, and the first of these is the cursor*: it survives
  insertions at the head, appends and removals, and at the end of a walk it says that all were called. `TimersOnTime` also
  needs *where a list is*: a timer that the history says has l slots to go is in the slot and revolution that the wheel,
  with its counter wrapping at M, comes to after exactly l steps, and l < M N, so that no other l means the same place.
  `SlotIsPeriodAhead` is the same fact before the wrap.
  Both assume that no callback calls Stop (with one they are false: see *Findings*), and `TimersOnTime` that with can_skip
  the age of a call, capped at `MaxSince`, is below a whole turn of the counter, M N min_diff. In Ticker.lua M is 2^32,
  and nothing can be said once the counter cannot tell two turns apart.
  `LateWheelsCatchUp` (`LateWheel`) is about `PlannedSpec` and drops that assumption for one about the backlog, which a
  Tick can see: *no timer is older than its period, less what it has still to go, and the backlog explain; and a timer that has
  been called in this walk is new*. It assumes of the plans (`PlansAssumption`) that no Tick is told less than the clock
  has advanced by. So a list is never put off by more than the wheel is behind. This is where a
  timer set by a callback of a late Tick, whose LastCall lies in the past, would break it, and why plans without calls are
  the theorem's subject.
* **Grid** (in `AStarProofs`). `EdgeKeyInjective` and `EdgeKeyFits`: two edges never share a key, and a key is
  below (w h)^2, which is what an int has to hold. `HeuristicConsistent`: the expected distance obeys
  the triangle inequality on all cells, those that are neighbours across a border included.
* **AStar** (`AStarProofs`). `HeapNeverEmpty`: `SafeTop`. BFS takes `open.top()` unconditionally; that the
  heap is not empty must hold for the search in progress *and* for each one in the cache that has not answered
  yet. The invariant says so of every id a caller holds but those in `ended`; a caller who resumes one of these
  may come to an empty heap, and no other can.
  `PathsAreWalkable`: the action property `WalkablePath`. Inductive with *the path of an open node is a way from the
  start over cells that have been expanded (all their edges to cells one can walk on are closed), none of which is a goal
  or appears twice; a search that was put away and has not answered has expanded nothing*. The last part is what the
  inverted deadline (AStarNavigation.h:215) comes to, and it is why the first answer of a resumed search cannot be wrong
  about a map that has changed since. Of searches that have answered and are resumed again it keeps only that *the paths of
  open nodes go from neighbour to neighbour, by cells that are free or whose height was changed*.
* **NavSys** (`NavSysProofs`). `TypeCorrect`, and `AnswersAreOwn`: `OwnAnswer`. Inductive with *every
  place that a caller was told or that a queued command owns lies within the cache; the commands and
  the callers of one place all have the same request, and so has the answer that is there already*.
  `KeptUntilAnswered`: `KeptOrAnswered`, from the same invariant and *a place that is still pending and was not lost
  has a command of its request in the queue*. `AnswersAreStable`: the action property `AnswerStable`, with *no two commands
  share a place, unless a Tick has raised no command of the queue has its answer already, and the dps and speed of a
  command are the sum and the least of what was brought to its place*.
* **RBTree** (`RBTreeProofs`). `TypeCorrect`; `RotateKeepsForest`: a rotation of any forest whose links
  agree is one again, whatever the colors; `LoopsKeepForest`: so is what every turn of both loops leaves.
  `LinksAlwaysAgree`: `LinksAgree`, and `ContentsAreKept`: `Contents`, for every finite set of keys. Both rest on
  `SearchInvariant`. Its invariant says of a function D from nodes to sets of nodes that *D of a node is the node
  and the D of its children; the D of a left child is below the node and that of a right child above; D of the entry is
  what was inserted and not deleted; nodes outside have no links; and the entry is black but for the one that is
  being inserted into*. Such a D names the subtrees without a recursive definition, and each rotation,
  replacement and link gives the D of the tree after it. That the walks of the code (`Find`, `LTop`, `Below`) find what D
  says is an argument by a least counterexample along the walk.
  `BalancedByInsertAlways` is `BalancedByInsert`. Until Delete is called there is also a function H from nodes to numbers,
  with *the H of a node is that of each child, and one more if it is black; no red node has a red parent but the one the
  loop of Insert is at, which is red; nodes outside of the tree are red*. Linking a red node leaves H as it is, a rotation
  of two reds too, the rotation at the grandparent exchanges two values, a painting adds one to two nodes. That H
  counts the blacks that `BalancedByInsert` counts on the walk up is an argument by a least counterexample by depth.

* **BattleMap** (`BattleProofs`). `ListsStayIndexed`: `ListsIndexed`, which is inductive as it stands, from lemmas
  that addObj, removeObj and removeAllObj keep one array indexed (the swap with the last member, also with oneself,
  is the case that needs care). `WallsKeepWeight`: `WallsWeigh`, from the table of who may write a weight when.
  `TypesAreCounted`: `TypesCount`, inductive with `ListsIndexed`; the sum over the buildings of a type changes in one
  building at a time, for which `Least` has the lemmas.
* **BattleSearch** (`BattleProofs`). `AnswersLead`: `AnswerLeads`, on a map of any size. Inductive with *the parent of a cell
  that this search has seen is a cell beside it which this search closed earlier; what lies beside a closed cell is
  seen, and what is seen and not closed is in the open list; no closed cell would have done*, the numbers of earlier
  searches being lower. *Earlier* is a rank of the closed cells, so that the walk back by the parents comes to the
  start; that each leg between two turns is straight needs the geometry of keys (three cells a row are enough to
  tell the eight directions by the difference of keys); that an empty open list means that every cell was closed
  needs that the table of directions leaves out no neighbour. Nothing is used of costs or of the order of the heap:
  an answer that is not the cheapest leads where it says, too.
* **HeapQ** (`BattleProofs`). `HeapStaysOrdered`: inductive with *while an item is sifted up, every item but the one that
  is moved costs no less than its parent, and no less than its grandparent if the parent is the moved one; while it is
  sifted down, likewise below it*. `HeapImplementsQueue`: every step of the heap is a step of `PriorityQueue` or a
  stutter. That the root is a least item follows from the order by looking at the least place that holds a least item (no
  induction over data is needed); that swaps keep the bag, by a bijection of the places of each cost.
* **Timer** (`SupportProofs`). `TimersAreKept`: `LivingKept`, inductive with *no living timer has a mark, neither in
  `removes` nor, unless it was added again after a clearAll, in the marks the walk holds*.
  `OnlyTheLivingAreCalled`: the action property `CallsTheLiving`, from that and *what the walk has still to come to is
  in the table, and the time a handler has counted is never ahead of the frames that passed, a frame still to be
  counted for it included, unless a key was inserted under the walk*.
* **Binder** (`SupportProofs`). `EveryoneIsTold`: `EveryoneTold`. Inductive with *as long as somebody has not been told the
  value the field holds now, some frame of the stack, however deep, holds that very value and is in its first walk, or is in its
  second and has all of them still to come*. The first walk need not keep them: an insertion may make it pass over any of
  them, and the second makes up for it.

*Assumptions.* `PoolAssumption`, `TickerAssumption`, `GridAssumption`, `AStarAssumption`, `NavSysAssumption`,
`RBTreeAssumption`, `BattleAssumption`, `CostsAssumption`, `TimerAssumption`, `SearchAssumption`: kinds of the constants and that the sets are finite which the
program holds, no more;
`SearchAssumption` also says that a map has at least three cells a side, as its outer ring is added to what the game gives;
`TimerAssumption` also says that one of the intervals is the greatest, as the model stops counting there;
`NamesAssumption` that the names of lists are not `Nil` or `Orphan`; `PlansAssumption` that no plan lets more time pass than
the bound and, without calls, that the clock never gets ahead of what Tick is told. Three theorems of the ticker have hypotheses of their own, which their runs satisfy.
TLC evaluates them in every run.

*Only model-checked.* Liveness (`TaskServed`, `EarlyCallbackServed`, `DestructorEnds`, `TickEnds`, `CallsReturn`,
`LivingCalled`, `FirstThatFits`): fairness is out of the prover's reach. `Cheapest` and `NoneMeansUnreachable`, whose
reference is recursive.

## 6. Not modelled

Each part and the reason stands in PROJECT.json under `components`. Within the modelled parts:
creation of the pool's singleton, a pool without threads, `UnValid`, tasks that throw; floating-point rounding and two
tickers sharing class tables; overflow of edge keys and of the millisecond clock; the buffers
between Lua and the DLL; the merging of equal keys in the tree by a caller's function; an id that a caller of NavSys keeps
over a Clear, which names somebody else's path later (Nav.lua:439); in the battle map the direct moves and the
sampling search, which are geometry; timers of nodes; the parsing of Cron's expressions, ranges written backwards,
daylight saving; several callbacks per tag, and callbacks that fail in a Set.

Most of the lines of this repository are not its own: the Lua interpreter, tolua, cjson and luasocket under
`Navigation/Navigation/lua`, dkjson, the debugger, the cocos runtime and scripts of the simulator. A model of those would be one of
other projects' code. Of the program's own parts that have state worth an argument, what is left out is superseded
(`SearchPath`, `Navigation(1)`), does not load (`ECS`), is empty in the decisive places (`StateMachine`), or is
geometry, printing and building of text.

## 7. Plan

1. `AStar`: that an empty answer has a certificate, a set of cells that holds the start, is closed under walkable neighbours and holds no goal. It is the part of `NoneMeansUnreachable` that needs no recursive reference; `AStarProofs` has the invariants of the search it would build on.
2. `Cron`: the safety half of `FirstThatFits`, that `now` never passes `goal`, for every expression and every start.
3. `AStar`: that an answer costs no more than any walk between its ends, with the walks as sequences instead of the recursive reference of `Cheapest`.
