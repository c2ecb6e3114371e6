# clither in TLA+

Clither is a multiplayer snake game: a server simulates the world at a fixed
rate, and clients predict their own snake so that the player never waits for
the network. This directory models the parts of it where things can go wrong
over time: wrapped frame numbers, the queues of commands between prediction and
confirmation, rollback, commands and how they are encoded as differences, the
exchange of commands and heads over UDP, joining, the regulation of the client's
clock, the server's registry of players, the hash map that registry is kept in,
the sorted map the snakes are kept in, and the ring buffer. TLC checks the modules on small instances;
TLAPS proves most of these properties for every value of the constants.

    tlc -workers 2 -config X.cfg M      check module M under X.cfg
    tlapm M.tla                         check the proofs of module M

`PROJECT.json` lists components, runs, hazards, theorems, and for each
definition the lines of the source it stands for. Paths below are relative to
the root of the repository.

## 1. The system

### 1.1 Components, their state and operations

| component | state | operations |
|---|---|---|
| wrapped arithmetic (`wrap.h`) | none | compare and subtract `uint16_t` frame numbers that run around |
| command queue (`cmd_queue.c`) | `first_frame`, ring buffer of commands, last command read | put, take or predict, find or predict |
| commands (`cmd.c`) | angle, speed, action | make one from the last and what the player wants |
| snake (`snake.c`) | trails, bezier handles and boxes (ring buffers that must agree), predicted head, confirmed head, queue, hold | step, remove stale segments, ack frame (confirm or roll back), hold |
| client session (`client.c`) | state (disconnected, joining, connected), frame number, warp, pending messages, sockets | connect, receive, predict, send, disconnect |
| server registry (`server.c`) | clients by address, malicious list, per client: snake id, timeout, pending messages, snakes in proximity, buffer fullness window, last command frame | receive and dispatch, update proximity, queue snake data, send pending data |
| server loop (`server_instance.c`) | frame number, tick | timers, packets, simulation, messages, in that order |
| world (`world.c`) | snakes by id | spawn, remove |
| messages (`msg.c`) | payload, resend period, resend retries | build and parse each type; delta encode commands |
| hash map (`hm.h`) | slots (unused, tombstone, hash), keys, values, count | insert new, update, emplace, find, erase, grow, iterate |
| ring buffer (`rb.h`) | slots, read and write index, capacity | put and emplace (with or without growth), take at either end, clear, peek |
| sorted map and set (`bmap.h`, `bset.h`) | two buffers, count, capacity | insert new, update, emplace, find, erase, retain, clear, compact |
| vector (`vec.h`) | buffer with count | push, pop, retain |
| ticks (`tick_posix.c`) | time of the last tick | wait, wait with warp |
| geometry (`bezier.c`, `q.h`, `food_cluster.c`, `snake_param.c`) | fixed point | fitting, boxes, length |
| bad network simulator (`mcd_wifi.c`) | queues of packets | lose, repeat, delay, reorder |
| platform (`net_*.c`, `thread_*.c`, `fs_*.c`, ...), settings, graphics | | wrappers, parsing, drawing |

### 1.2 How they interact

Client and server each run one sequential loop; each server instance has a
thread of its own and shares nothing with the others. What interleaves is
therefore the two loops and the packets between them. The client puts a command
per frame in its snake's queue, steps the snake with it, and in network frames
sends *all* commands that are not confirmed (`MSG_COMMANDS`, unreliable). The
server puts the ones that are not late in its copy of the queue, executes or
predicts one per frame, and sends its head (`MSG_SNAKE_HEAD`). The client lets
`head_ack` catch up with the frame of that head; if it arrives elsewhere, the
points drawn since are taken back and the rest of the queue is executed again
from the server's head. How full the server finds the queue determines
`MSG_FEEDBACK`, by which the client's clock is warped.

### 1.3 What is hard

* Frame numbers run around every 18 minutes, and a queue stores only the
  number of its oldest command.
* Heads and commands arrive late, twice, out of order, or never, for frames
  that were confirmed, executed or predicted long before.
* A rollback crosses the boundary between two segments, that three ring buffers
  describe and that share a point; the tail removes segments at the same time.
* Two clocks regulate each other by measurements that are out of date.
* Requests are repeated: the acceptance that arrives may answer any of them.
* Players are dropped in five places (timeout, leave, malicious, retries used
  up, shutdown) while others hold their ids.
* A server that stalls makes up for each network update it missed, at once.
* Commands are sent as differences of few bits, so each must be near the last.
* A ring buffer that grows while its content runs around its end.
* A sorted map that is changed while it is iterated over, and whose two buffers
  grow one after the other.
* Tombstones in a table that stops searching only at an unused slot.

### 1.4 What makes each component correct

* wrapped arithmetic: agrees with the real frame numbers within half a range.
* queue: a map from real frame numbers to commands; find foretells take.
* snake: there is always enough to roll back to; the path and the predicted
  head are what the unconfirmed commands draw from the confirmed head.
* commands: what is decoded is what was encoded.
* exchange: the server queues for a frame what the player did in it; the player
  is not corrected without cause.
* joining: the player starts ahead of the server, but not too far.
* feedback: the lead neither grows nor oscillates, commands come in time.
* registry: players and snakes correspond; those who vanish are forgotten,
  those who are listed are kept out and eventually forgiven.
* hash map: a dictionary, whatever the hashes; each call returns.
* sorted map: a map, within its buffers, whatever fails.
* ring buffer: a double ended queue, whatever the capacity; memory that was not
  written is never handed out.

The hazards behind these, each with its line, are in `PROJECT.json`.

## 2. The modules

    Wrap
     ├── CmdQueue ── FrameQueue ──implements──> FrameMap
     │      ├────── Snake ───────implements──> PredictedPath
     │      └────── Netcode ── CmdCodec
     └── Join          Server          Feedback

    HashMap ──implements──> Dictionary       SortedMap ──implements──> SortedDictionary
    RingBuffer ──implements──> Deque

    FrameQueueProofs   PredictedPathProofs   SnakeProofs     NetcodeProofs
    ServerProofs       JoinProofs            HashMapProofs   ContainerProofs

Each module of proofs extends the module it is named after. SnakeProofs also
instantiates PredictedPathProofs with the refinement mapping. NetcodeProofs
begins with CmdCodec. ContainerProofs extends both RingBuffer and SortedMap, which
is why some names of RingBuffer begin with `Ring`.

Definitions keep the names of the source where TLA+ has none of its own. A
definition with a comment like "Without the code of 0." or "Without ..." that stands before a
definition of almost the same name is a plausible mistake in it; no
specification uses it. `PROJECT.json` pairs each with the property that
notices it, which shows that the property depends on the code.

**Wrap** (`wrap.h`). `H` is half the range of a counter: 0x8000 in the code.
`Plus` is addition with the conversion to `uint16_t`, `Ahead` the unsigned
difference. Exactly half a range apart, the smaller number is after the other.

**CmdQueue** (`cmd_queue.c`). A queue is a record of `first_frame`, the
contents of the ring buffer and `last_command_read`. `Taken` is the loop of
`cmd_queue_take_or_predict()`. The queue is used as operators here by all
modules that have one.

**FrameQueue, FrameMap**. One queue driven by any callers. The abstract
`FrameMap` has unwrapped frame numbers and none of the queue's fields but the
last command; it is the contract in the comments of `cmd_queue.h`. A command
that cannot be stored (`LoseCommand`) is a stutter there. The
refinement maps the i-th command to frame `base + i - 1`, where `base` is a
history variable.

**PredictedPath** (`client_run()` and `snake_ack_frame()`, without geometry).
`Advance` is a client frame: command queued and executed, some of the tail
dropped. `MayLeave` is the comparison of the confirmed head with what is about to
be dropped; that this leaves enough to roll back is not assumed but follows from
the confirmed head being on the path. `Confirm` and `Rollback` are the two ways
out of the comparison in `snake_ack_frame()`. A head is accepted for the frame
of any unconfirmed command and, as `src/src/snake.c:401` has it, for one frame
more (`Executed` then repeats the last command). The server can only have
executed that one before the client has put a command for it; `MayPass` is
whether it may. `Step` is any function of head and command, `Heads` any set.

**Snake** (`snake.c`). Trails, handles and boxes as three sequences; the
command queue with wrapped numbers. `Draw` is `snake_step()`: the point is
appended, the box updated, and if the fit is bad a segment is begun.
`RemoveStale` is `snake_remove_stale_segments_with_rollback_constraint()`.
`PopPoint` is one iteration of the loop that takes points back. Which fits are
bad and how many segments the tail has left is chosen freely: anything
`bezier.c` may return. Positions have one dimension. It implements
`PredictedPath` by joining the trails, each without its first, shared point.

**CmdCodec** (`cmd.c`, `msg_commands()`, `msg_commands_unpack_into()`).
`Commands` are angle, speed and action. `Make` is `cmd_make()`: the change of
angle and speed is limited, angles run around. `Encoded` is the payload of a
`MSG_COMMANDS`: the first command, the bits that tell what became of the action,
and a byte for each further command with the differences, `Delta`, cut to
`AngleCodes` and `SpeedCodes` values. `Decoded` finds the bits and the bytes the
way the code does, by reading all bits first. Ranges and numbers of bits are
constants.

**Netcode** (`client_run()`, `server_instance_run()`, `process_message()` of
both, `msg_commands()`, `msg_commands_unpack_into()`). Both queues, both
heads, the hold, and the sets of all messages ever sent, from which either side
receives any, at any time and any number of times. A head is the sequence
of commands executed, so no difference can go unnoticed. The player wants any of
a few angles, speeds and actions in each frame; what is put and sent is what
`cmd_make()` makes of that and of the command before. `mayPass` is whether
the server may execute a frame before the client has put a command for it. The
statistics (`last_command_msg_frame` is kept but has no effect here) are in
Feedback.

**Join** (`client.c`, `server.c`; `doc/clither-doc` on joining). The loops of
both, the repeated request with its current frame number, acceptances, denials,
giving up, quitting, and other players who take the last place. Client packets
are sets of messages because `MSG_LEAVE` and the request share one.

**Feedback**. A round of the model is a network update of one side, with the
frames until the next. The server may not run for some rounds (`ServerStalls`,
`ServerMisses`); `ServerRound` then makes up for them as `tick_advance()` and
`tick_wait()` do, an update for each missed round, all at once. `ServerRecv` measures, `ServerRound` replies,
`ClientRound` takes one packet, warps and sends. Frames are relative to the
server's, the lead is in tenths of a frame, as `tick_wait_warp()` gains or loses
a tenth of a tick per iteration.

**Server** (`server.c` in the loop of `server_instance.c`, `world.c`). `stage`
is where the loop is: `Timers`, packets, `EndRecv`, `Sim`,
`UpdateSnakesInRange`, `QueueSnakeData`, `SendPendingData`. Packets are any of
request, commands, leave and misbehaviour (anything that makes the server call
`mark_client_as_malicious_and_drop()`), from any address in any order. Where
the code reads a snake that does not exist, the server stops (`"crashed"`). So it
does at misbehaviour of a sender that is not registered: a message of a wrong length
(`src/src/server.c:566`) or a join request that cannot be read
(`src/src/server.c:534`) gets to `client_remove()` without a record, which is read
through `NULL` there (`src/src/server.c:33`).

**HashMap, Dictionary** (`hm.h`). Slots with hash, key and value; an unused
slot, a tombstone. The keys and values beside a tombstone are never read and
left out. `Place` is the end of an insertion. Growth moves one slot in a step:
the map is only replaced at the end, so the other steps are invisible in the
abstract dictionary. An iteration (`hm_for_each`) is a step for each entry, whose
body may erase it, as the loops over players do when one has timed out; the
dictionary knows the keys still to come to. Allocation may fail, and the
dictionary has the caller told of it, as the comments of `hm.h` do.
`insert_update()` does not tell; `UpdateCanFail` is whether memory runs out in
one. A search without an end is `call = "hung"`.

**SortedMap, SortedDictionary** (`bmap.h`). The parts of the two buffers in use,
the capacity the map believes in, and the lengths the buffers really have.
`LowerBound` is the loop of the binary search: a function from the number of steps
to its two variables, which after as many steps as there are elements has come to
an end. `Reallocs` is
`kvs_realloc()` with all its outcomes: the size of the first buffer is cut to the
type of the counts, a negative one is refused by the allocator, and with
`KeysCanFail` the second allocation may fail after the first succeeded. `Retain`
is the loop with its index that stays when an element is removed; the callback
removes any set of keys and aborts at any key. The abstract dictionary is a map
with the keys the callback was asked about. It has insertions return the status that
the comments of `emplace_new()` and `emplace_or_get()` describe, other calls what
their own comments say. The comments of `insert_new()` and `insert_update()`
announce other values than these functions return (section 3).

**RingBuffer, Deque** (`rb.h`). Slots, two indexes and a capacity; 0 slots
stand for the pointer `NULL`. `Grown` is `rb_resize()`: the slots behind the old ones
contain garbage until the wrapped part is moved there. Allocation may fail at
any growth, and does for a capacity the type of the indexes cannot express. The
bit mask `& (capacity - 1)` is `%`. `rb_emplace()` is a put whose element is stored
by the caller. The abstract deque is the comments of `rb.h`.

## 3. What the runs check

| run | shows |
|---|---|
| frame_queue | `first_frame` is right after any calls, find foretells take, and the queue implements `FrameMap`, while the counter runs around |
| predicted_path | there are points enough to roll back (`EnoughPoints`), the path is the run of the unconfirmed commands (`Faithful`), the predicted head is what the server will compute (`PredictsServer`) |
| snake | ring buffers agree, boxes cover their trails, the confirmed head stays on the body, and all of it implements `PredictedPath` |
| netcode | commands arrive as they were given: the server queues the player's commands at their frames and without gaps (`QueueAgrees`, `QueueIsDue`), the confirmed head is the server's (`AckIsServers`), no correction without cause (`RollbackIsJustified`) |
| join | a player starts ahead of the server by the buffer, at most by the duration of all repetitions more (`StartsAhead`), and no server is turned away for an implausible round trip (`NeverImplausible`) |
| feedback | with delays that change or a server that stalls, the lead is bounded, a correction that slows the client down leaves commands that arrive in time (`SlowingLeavesBuffer`), and corrections come to an end (`Settles`) |
| server | no snake without player, listed players are out, capacity is kept, only silent players time out, and those who vanish are forgotten and forgiven |
| hash_map | entries are found, probing skips no unused slot, and the table implements `Dictionary`, iterations that erase included |
| sorted_map | the search finds the place of every key (`SearchIsExact`), the map stays within its buffers (`WithinBuffers`), and it implements `SortedDictionary` |
| ring_buffer | the buffer implements `Deque`, through laps, growth from any position and failed allocations |

Two runs look for what they find:

| run | the code |
|---|---|
| server_own_snake | `world_spawn_snake()` (`src/src/world.c:60`) always picks the number of snakes plus one; with 1, 2 taken and 1 gone it picks 2 again. Two players share a snake, and when one leaves the assertion `src/src/server.c:307` fails |
| hash_map_hung | tombstones are not counted when the map decides to grow, so they can use up all unused slots, and then the search for an absent key goes on forever |

TLC also refutes the following, which have no run of their own. Those of Server
and Join stand at the end of their modules and state what a comment or an
assertion says: replace the properties of `Server.cfg` (`MayMeet` as there,
raise `NetRate` to 2 for those about seconds) or of `Join.cfg` by the one in
question. The others are properties of a run that do not hold with another
constant.

| property | what the code does instead |
|---|---|
| `Server!NearSnakesExist` | `client_remove()` leaves the id of the removed snake in the `snakes_in_proximity` of the others; the next `server_queue_snake_data()` fails the assertion at `src/src/server.c:324` |
| `Server!BeziersStayQueued` | `src/src/server.c:266` says the messages remain until they are acknowledged; nothing acknowledges them, and after ten sends (`src/src/server.c:154`) their receiver is dropped |
| `Server!TimeoutIsInSeconds` | sending also increments `timeout_counter` (`src/src/server.c:203`), so a silent client is dropped in about half of `client_timeout` (`src/src/server_settings.c:367`) |
| `Server!ListingIsInSeconds` | `malicious_timeout` is counted down once per network update without multiplying by the rate when a client is listed (`src/src/server.c:49`) |
| `Join!AcceptedIsNotDenied` | the full server also denies the repeated request of someone it has accepted (`src/src/server.c:362`), and the client then disconnects |
| `Join!RecordsAreLive` | a packet with `MSG_LEAVE` and a repeated request: the record removed by the first is used by the second (`src/src/server.c:700`) |
| `Join!SocketExists` | quitting after a denial reaches the assertion at `src/src/client.c:219` without a socket |
| `Join!AllRetries` | the counter is tested after it is decremented: nine sends, not ten (`src/src/client.c:162`, `src/src/msg.c:36`) |
| `Netcode!QueueAgrees` with `Chunk = 2` | `msg_commands()` (`src/src/msg.c:516`) fills each further message from the start of the queue but labels it with a later frame, so the server executes old commands again; `src/src/client.c:657` says it "always has a complete history". It takes more than 100 unconfirmed commands: a server that is silent for 1.7 seconds, of the 3 the client waits |
| `SortedMap!WithinBuffers` with `KeysCanFail = TRUE` | when there is memory for the values but not for the keys (`src/include/clither/bmap.h:199`), the map keeps a pointer to the values that `realloc` has freed, or, if they did not move, a capacity that its keys do not have |
| `HashMap!ImplementsDictionary` with `UpdateCanFail = TRUE` | when there is no memory, `insert_update()` returns 0 as if it had stored the value (`src/include/clither/hm.h:106`); `src/include/clither/hm.h:98` says it returns -1. A malicious player is then not listed (`src/src/server.c:49`) |
| `Feedback!Settles` with `Delays = {1}`, `Stalls = {28}`, `MaxAge = 100` | a server that stalls for 1.4 seconds sends 28 packets at once when it makes up for them; the client reads one in each update, as many as come, so it is 28 updates behind from then on, and corrections that old never end |
| `Snake!AckOnBody`, `PredictedPath!Faithful` and `PredictedPath!EnoughPoints` with `MayPass = TRUE` | when the server executes a frame before the client has put its command, the confirmed head can be ahead of everything drawn. The tail then does not stop at it, and a later rollback takes back more points than are left |

Other differences are in the text only:

* `doc/clither-doc` on feedback has the sign of the correction the other way
  round than `src/src/tick_posix.c:82-85`.
* `src/include/clither/cmd_queue.h:41-44` says `cmd_queue_find_or_predict()`
  repeats "the last command inserted"; for a frame before the queue it gives the
  last command *taken*, as taking would (`FindForetellsTake`).
* `src/include/clither/bmap.h:86-87` has `insert_new()` return 0 for an
  insertion and -1 for a key that exists, and `src/include/clither/bmap.h:105`
  has `insert_update()` return 0 if there was memory. Both return `BMAP_NEW` (1) or
  `BMAP_EXISTS` (0), and the game calls neither.
* `src/include/clither/bmap.h:297-300` describes the result of the search for an
  absent key as the first key that is *less*; it is the first that is not.
* `u16_add_wrap()` and `cmd_queue_clear()` have no callers.

### Bounds, and why they are enough

* frame_queue: `H = 3`, real frames 0 to 9, so a counter of range 6 runs around
  within the run and every put and take in reach is tried. The theorems are for
  any `H` and `MaxFrame`.
* predicted_path: four heads, two commands, three commands unconfirmed, six
  points. `MCStep` has commands that lead to the same head and ones that lead
  back, so that wrong predictions are sometimes right. The theorems are for any.
* snake: three places, two directions (so two heads share a position, and boxes
  overlap), segments from two points on, two unconfirmed commands, four points: a
  rollback takes back up to two segments and reopens a third. The counter of
  range 6 runs around without end.
* netcode: four frames of either side, commands two, lead 0 to 2, from frame 13
  of 16, so both counters run around. Four frames allow every order of a late,
  a lost and a repeated message with a hold and a prediction. Chunks of 9 are
  never split, chunks of 2 stand for the 100 of the code. Eight angles and four
  speeds with four differences of each (so a change of one per frame), and two bits of action: the
  player steers across angle 0 and back, speeds up and slows down to 0, and
  changes the action or keeps it, so the bits of a message fill different
  numbers of bytes. The theorems are for any ranges, wishes and lead, and any
  network, of commands that fit one message.
* join: eight loops of either side with three tries, one network update every
  two loops; frame numbers run around. The acceptance can answer any request.
  At the client's fixed rates, 60 and 20, nine sends last 27 frames, less than
  the 100 of the plausible round trip: `Patience = 5 > Retries - 1` times 2
  keeps that relation, which the theorem has as its hypothesis.
* feedback: the rates, window, limit and warp of the code. One way delays are 1,
  6 or 12 rounds (up to 0.6 s); they change at most once, or the server stalls
  once, for 3 or 20 rounds (up to a second). `MaxAge` limits a stall such that
  packets there and back and the backlog it leaves add up to 24 rounds: that of
  the longest delay. The lead of a new client is at most 24 frames. With a delay of 16 rounds
  `SlowingLeavesBuffer` no longer holds, and with other ratios of the two rates
  (2 or 4 frames per update) and 12 rounds corrections never end: the margin
  the run shows is that of the default rates.
* server: two players, one or two places, timeouts of two rounds, two tries,
  snakes that may or may not meet in every round. Two are enough for the reuse
  of ids, for a listed player next to another, and for a departure between two
  stages. `server_own_snake` uses a rate of 2.
* hash_map: four keys and a minimal capacity of four, so that the table holds
  tombstones, is filled to its limit and grows once; hashes 0 (reserved), 3
  and 5, in any assignment. Keys and values are symmetric.
* sorted_map: five keys, a first capacity of two, values of four bytes and sizes
  that run around at 64 instead of 65536: the map grows until its size would be
  negative, is compacted to any capacity, and grows from there. The binary
  search is checked at every number of elements up to five.
* ring_buffer: capacities 2, 4 and 8 and two elements, so the buffer grows twice,
  the second time with any content at any position. The theorems are for any.

### Fairness

`Server`: weak fairness of `Loop`. The sockets do not block, and
`server_recv()` returns when they are empty; so each stage is left
eventually. Nothing is assumed of the players. `Feedback`: weak fairness of
`Round`, that both loops go on. The change of the network is not fair, and
`Settles` needs it only to stop, which its bound ensures. All other
specifications have no fairness and no liveness properties. `CHECK_DEADLOCK
FALSE` is given where the system stops: at a bound of frames, loops or points
(Netcode, Join, PredictedPath), after a crash (Server), in a search without end
(HashMap).

## 4. What is proved

All theorems are for every value of the constants, under the assumptions named
in the modules that declare them (TLC evaluates those on each run).

**Frame numbers and the queue** (`FrameQueueProofs`; assumptions: `H` is
positive, `MaxFrame \in Nat`).

* `Trichotomy`: of two frame numbers one is before, after or the same as the
  other, also exactly half a range apart. `StampsCompareCorrectly`: the
  comparisons and the signed difference are those of the real frames, when these
  are less than half a range apart.
* `TypeCorrect` and `FirstFrameIsExact`, which are inductive together
  (`Invariance`): that a queue does not span more than half a range is what makes
  the stamp comparisons in a put and a take right. `FindAndTakeAgree`: the loops
  of `cmd_queue_find_or_predict()` and `cmd_queue_take_or_predict()` end at the
  same command.
* `Refinement`: `Spec => ImplementsMap`. `PutImplements` and `TakeImplements`
  show each step to be one of `FrameMap`, and `LossImplements` a lost command to
  be a stutter, from `Invariance` and the effect of each call in real frame
  numbers.

**Prediction and rollback** (`PredictedPathProofs`; `Step` is any function, the
path may hold more points than there are unconfirmed commands).

* `PointsSuffice`, `PathIsFaithful`, `HeadIsPredicted` and `TypeCorrect`, for
  every sequence of frames, confirmations and rollbacks under the hypothesis
  `MayPass = FALSE`: no head is for a frame the client has put no command for
  yet. Without it `EnoughPoints` and `Faithful` are false (section 3).
* `EnoughPoints` and `PredictsServer` are not inductive. `IInv` ties both heads to
  the path (`Linked`): the confirmed head is at the point as many before the end
  as there are unconfirmed commands, from there each point is the step of the
  one before by the next of these commands, and `head` is the last. So the tail, which
  `MayLeave` stops at the confirmed head wherever that is, never takes a point a
  rollback needs (`AdvanceKeeps`); in Snake, `RemoveStaleKeeps` shows that
  comparing boxes is enough for that. The function `Run`
  is defined by recursion; that it exists and is unique is proved by induction
  on a set of indices (`SetInduction`).

**The segments** (`SnakeProofs`; any heads, commands, step function, places and
number of segments, any fit and any number of stale segments; fewer unconfirmed
commands than half a range).

* `TypeCorrect`, `SegmentsStayInStep`, `BoxesHoldTheirTrails`, `AckStaysOnBody`,
  and `ImplementsThePath`, the refinement of PredictedPath, under the hypothesis
  `MayPass = FALSE`: the server's word is never for a frame the client has queued
  no command for yet. Without it `AckOnBody` and the refinement are false
  (section 3).
* `IInv` has three parts. The body is laid out (`Layout`): neighbouring trails
  share a point, each but the newest has at least two, each begins at its handle
  and is in its box, and the newest handle is the newest point (`Fitted`). The
  queue ends at the client's frame (`Pending`). And joined, the trails are a path
  of which the invariant of PredictedPath holds, so its lemmas are used here
  through the mapping.
* `Layout` without `Fitted` is what holds in the middle of a rollback: taking
  back a point leaves the newest handle where it was until the next fit, which is
  why `SegmentsAgree` alone would not carry a proof. `PopPointKeeps` takes one
  point off the path, whether or not that closes a segment, `DrawKeeps` adds one,
  whether or not that begins one, and `PopPointsKeep` and `DrawAllKeeps` repeat
  them. `RemoveStaleKeeps` shows that the confirmed head is at none of the points
  that are removed: each is on a trail (`PointsAreOnTrails`), so in a box, and that
  box was compared with it. `CatchesUp` follows the loop of `snake_ack_frame()` over the queue with
  its wrapped frame numbers, and `RedoIsRun` the one that draws again.

**Encoding** (`NetcodeProofs`; `CodecAssumption`: the numbers of codes are even,
and the turn has at least twice as many angles).

* `DeltasAreExact`: the difference between a command that `cmd_make()` made and
  the one before it has a code, and `Moved` makes of the code the command again.
  An angle that is limited stays within `AngleLimit` of the last, around the turn
  (`UnwoundType`, `LimitedIs`), so what is sent for it is not cut (`AngleCode`,
  `LimitsFit`). Speeds do not run around: that the limited speed is still one is
  `MakeType`.
* `CodecIsExact`: a whole message is decoded as the commands it was made of, and
  fits what is allocated for it. `IsBitsOf` names the bits after each command;
  the sender's only ever grow (`BitsBegin`), and the receiver, who reads all of
  them first, is at the same bit as the sender was (`ReadAction`). Both sides are
  functions defined by recursion over the commands.

**The exchange** (`NetcodeProofs`; `NetcodeAssumption`: the lead and the frames
counted add up to less than half a range; any commands, chunk and wishes).

* `QueueIsPlayers`, `CommandsAreDue`, `AckIsOfServer`, `CorrectionsAreTheServers`
  and `TypeCorrect`, under the hypothesis `MaxPending <= Chunk`: the unconfirmed
  commands fit one message. Without it they are false (section 3, `Chunk = 2`);
  the code's chunk is 100 commands, 1.7 seconds of play.
* `IInv` counts frames from the first of the server. It says of each part where
  it is on that line: the client's queue is the player's commands from the first
  unconfirmed frame to its clock (`Pending`); each message ever sent carries the
  player's commands for consecutive frames, that begin with the player's first or
  no later than the frame the server executes next (`Carries`), which is why the
  server's queue has no gap whichever message arrives when; each head ever sent is the sequence of
  commands executed up to its frame (`HeadAt`); and the confirmed head is one of
  these (`Acked`). `QueueIsDue` alone is not inductive: without `Carries` a late
  message could leave a gap.

**Registry** (`ServerProofs`; any finite set of addresses, any rates and
timeouts; a message about a snake's body is repeated at least as often as the
one about its end, as in the code).

* `TypeCorrect`, `SnakesHavePlayers`, `ListedStayOut`, `CapacityIsKept`, and the
  action property `TimeoutsAreOfTheSilent`. The latter needs `Silence`:
  `timeout_counter` advances at most twice for each round a player was silent,
  once by the timers and once by sending. The lemmas follow the helpers the
  handlers share, above all dropping a player, which the five places do from
  different stages of the loop.

**Joining** (`JoinProofs`; the buffer and twice the loops counted are less than
half a range).

* `JoinsAhead`: the action property `StartsAhead`. `IInv` says that each request
  carries a frame number the client had, that each acceptance pairs one with a
  later frame of the server (`IsAnswer`), and that a joining client has had fewer
  network updates than tries (`Joining`), which bounds how old any answer is.
* `NeverTurnedAway`: `NeverImplausible` under the hypothesis
  `(Retries - 1) * NetEvery <= Patience`. With the rates and the retries of the
  code, that is 27 frames of 100.

**Hash map** (`HashMapProofs`; any keys and values, any function from keys to
hashes, any power of two as the smallest capacity, as the assertion at
`src/include/clither/hm.h:266` has it, of which at most `RehashAtPercent` is
filled).

* `TypeCorrect`, `EntriesStayFound` and `IsADictionary`, the refinement of
  `Dictionary`. `IInv` says that each entry is reached: the search for its key
  passes no unused slot and ends there (`Reached`), so no two entries have the
  same key; that the counter is the number of entries; and that, while the map
  grows, the new table holds the entries of the slots before the one to be moved
  next (`Moved`). `IsADictionary` has the hypothesis `UpdateCanFail = FALSE`, without
  which it is false (section 3). A search is a path of
  slots up to the first unused one or the entry (`Ends`, `LastSlot`): inserting
  at its end or in a tombstone, and leaving a tombstone, keep every other path.
  Each call is then a step of the dictionary whose content is the set of entries.
  These use nothing of the probing but that it stays in the table.
* `ProbingReachesAllSlots`: while a slot is unused each search has an end, which
  is what the comment at `src/include/clither/hm.h:347` says of powers of two. The
  slots of the first `capacity` probes differ (`ProbesDiffer`): if two were the
  same, twice the capacity would divide the product of the difference of their
  numbers and of the sum plus one. One of the two is odd, an odd factor has no
  part in a power of two (`OddFactor`), and the other is too small. As many
  different slots as there are slots are all of them. `Capacities`, that every
  capacity is a power of two, is inductive on top of `IInv` (`StepsKeepSizes`);
  the module has it that no odd number but 1 divides a power of two, which needs
  no exponents. With it the hung search of `hash_map_hung` can only come from a
  table without an unused slot.

**Ring buffer** (`ContainerProofs`; the smallest capacity is at least 2).

* `RingImplementsDeque`, for any elements, smallest and largest capacity, and
  `RingTypeCorrect`. `Inv` says the buffer is `NULL` or has its indexes within its
  slots. The lemmas give the content of a buffer after each call:
  `StoredAppends`, `GrownKeeps` (with the case that the content runs around the
  end), `TakesFirst`, `TakesLast`, `ClearEmpties`; they rest on `CountIs` and
  `PeekIs`, which replace the modulus by a case.

**Sorted map** (`ContainerProofs`; any keys that are numbers, any values, any size
of a value, and any even range of sizes that holds twice the bytes of the first
allocation; for the maps of the game 2 * 32 values of up to 1023 bytes each).

* `SortedMapSearchIsExact`, `SortedMapWithinBuffers` and
  `SortedMapImplementsDictionary`, under the hypothesis `KeysCanFail = FALSE`: when
  the allocator refuses the second of the two buffers after it has granted the
  first, the map is left with a freed pointer or a wrong capacity, and
  `WithinBuffers` is false (section 3). The allocation of the first buffer
  may fail at any time.
* `MapInv` is inductive: the keys are in order and as many as the values
  (`Sorted`); both buffers have the capacity the map believes, and twice its bytes
  fit the type of sizes (`Fits`). The factor of two is what `WithinBuffers` alone
  lacks: it makes the size of a doubled buffer one that fits, or one that is
  negative and refused (`SaneDouble`), so that no size is cut silently.
* The search: what is before the part still searched is less than the key, what is
  after it is not (`Bounded`), and a step makes the part shorter
  (`HalfIsBounded`); so as many steps as elements leave nothing (`LowerBoundIs`).
  That the recursive function of the loop exists is proved, too (`LoopRuns`).
* The refinement: `Shown` says that a function is what a map shows, and
  `InsertedIs`, `RemovedIs`, `UpdatedIs`, `ClearedIs`, `ReallocIs` what the changes
  of the two buffers do to it. `bmap_retain()` is the hard one: before each turn of
  its loop (`Between`), either nobody has aborted, the elements already asked about
  are the first n of the original map, those of them that were erased are gone and
  the others still to come begin at the index (`Going`); or the loop has stopped at
  the first key the callback objected to (`Stopped`). That no element is passed
  over when one before it is removed is the clause of `Going` about positions.

Only model-checked: Feedback, and all liveness, which is out of the prover's reach
as is `ENABLED`. Feedback's invariants are about the rates of the code: with
other ratios they are false (see the bounds above), and even its `TypeOK` rests on
them, as a reply stays within its limits only while no slack reaches 128 frames
and changes sign.

## 5. What is left out

* Geometry and fixed point numbers: fits, boxes and lengths are any outcome the
  functions can have. A numeric error in `bezier.c` is invisible here.
* The layout of messages other than `MSG_COMMANDS`, and their size limits. A
  message that finds no room in a packet is one that is delayed.
* The rates a server may announce to a client; the fallback from one socket to
  the next; a connected client's own timeout (`src/src/client.c:234`: after 61
  packets without an answer). A held snake has no heads sent
  (`src/src/server.c:310`), so a client that has just joined never gets a head
  for a frame before its own commands.
* A client that stalls. When the server does, two more things happen that are
  not in Feedback: `timeout_counter` advances by two in each update made up
  for, so that after a stall of half of `client_timeout` all clients are dropped;
  and after 60 missed updates a slack of 134 frames would be truncated to eight
  bits and change sign (`src/src/server.c:523`), which only matters if
  `client_timeout` was raised.
* Third party code in `src/thirdparty` (SDL, glfw, googletest and others), which
  is nearly all of the repository's lines. The vector
  (`vec.h`): its loops are those of the sorted map and the ring buffer.
* Logging, settings, graphics, resource packs, the food clusters that the game
  loop does not use yet, and platform wrappers.
* What follows when a ring buffer cannot grow. The sequences in CmdQueue and
  Snake are unbounded. `cmd_queue_put()` ignores a failure
  (`src/src/cmd_queue.c:33`), which is in FrameQueue but not in Netcode;
  `snake_add_new_segment()` uses the slot without testing it
  (`src/src/snake.c:283`), although the 8 bit indexes of `qwpos_vec_rb` allow
  only 63 trails.
* The banned list: the code never fills it.

## 6. Plan

The order so far: wrapped numbers and the queue, since everything rests on
them; prediction and rollback; the exchange; joining and feedback; the
registry; the hash map; the ring buffer; commands and their encoding; the sorted
map; a server that stalls. To come:

1. *More proofs.* Bounds of Feedback for ranges of rates, which first need a
   condition on the rates that implies them; `SearchIsExact` with a second
   allocation that fails alone.
2. *More of the system.* A client that stalls, and its timeout; Snake on top of
   RingBuffer, with its limits; the relay of `mcd_wifi.c`.
3. *More composition.* Snake in place of the abstract head in Netcode; Join as
   the initial states of Netcode and Feedback.
