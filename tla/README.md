# A TLA+ model of CrazyArcadeMojak

CrazyArcadeMojak is a clone of the arcade game Crazy Arcade: a Windows client, an authoritative
game server, and a network library over IO completion ports that both use. This directory models
the server's game logic, the network library's sessions and the client's picture of the game in TLA+,
checks them with TLC on small instances, and proves much of what is checked with TLAPS for every value
of the constants.

All source paths below are relative to `CrazyArcadeMojak/` in the repository.

## 1. Inventory

### The process and its threads

`Server/Server.cpp:33-50` is the whole scheduler: **one thread** alternates between
`IocpCore::Dispatch(0)`, which handles at most one completion (an accept, a receive, a send), and as
many `GameRoom::Update()` as the accumulated time holds ticks of 1/30 s. The locks of `Session`,
`Service` and `GameSessionManager` guard against threads that are never started. What is left of
concurrency is **nesting**: a send that the socket refuses disconnects its session on the spot
(`Session.cpp:202`), in the middle of whatever made it: a `Broadcast`, an `EnterRoom`, an explosion
inside a tick. And there is **order**: of completions, of ticks between them, of the objects within a
tick (an `unordered_map`).

### Components

| Component | State | Operations | Interacts with | What makes it correct |
|---|---|---|---|---|
| Game room (`Server/GameRoom`) | `_objects`, `_players`, `_items`, `_bombs`, `_mapObjects` | `EnterRoom`, `LeaveRoom`, `Handle_C_Move`, `Handle_C_WaterBomb`, `Handle_C_Skill`, `Update`, `RemoveDeadObjects`, `TryMove`, `Explode` | sessions (broadcasts), players, bombs | slots of the map and objects agree; nothing is used after it was removed |
| Player (`Server/Player`) | main state and timers, position, heading, counts, needle, overlapping bombs | `Update*`, `Move`, `CheckOverlapBombs`, `CheckKillOtherPlayer`, `CheckGetItem`, `SetMainState` | room, bombs, items | states change by the rules only; the bomb count is right |
| Water bomb (`Server/WaterBomb`) | owner, timer, exploded, passable players | `Update`, `Explode` | room (recursion), owner | goes off once, with everything in reach, and then is gone |
| Session, sending (`Network/Session`) | `_connected`, `_sendQueue`, `_sendRegistered`, `_sendEvent` | `Send`, `RegisterSend`, `ProcessSend`, `Disconnect`, `HandleError` | room, service, kernel | one outstanding send, in order, none forgotten; closing reaches room and service |
| Session, receiving (`Network/Session`, `RecvBuffer`) | the buffer and two cursors, `_recvEvent` | `ProcessRecv`, `OnRecv`, `OnRead`, `OnWrite`, `Clean`, `RegisterRecv` | kernel, packet handlers | packets are handled whole, in order, once |
| Service, listener (`Network/Service`, `Listener`) | `_sessions` | `AddSession`, `ReleaseSession`, accept | sessions | exactly the open sessions are known |
| Game session (`Server/GameSession`, `GameSessionManager`) | `player`, `gameRoom` | `OnConnected`, `OnDisconnected`, `SendPacket` | room, session | a closed session has no player in the room |
| Packet dispatch (`ServerPacketHandler`, `PacketHandler`, `PacketUtils`) | table of handlers | `HandlePacket`, `MakeSendBuffer` | session, room | every packet reaches its handler |
| Client mirror (`Client/ClientPacketHandler`, `Scene`, `ObjectManager`) | objects by id, tile map, objects to remove | one handler per `S_` packet, `Scene::Update`, `RemoveDeadObjects` | server's broadcasts | shows the server's room once everything sent has arrived; dereferences nothing that is not there |
| Client's own player (`Client/MyPlayer`) | predicted position, heading, overlapped bombs | `TryMove`, `CheckOverlapBombs`, `HandleBombInput`, `SyncToServer` | server's `C_` handlers | never walks into what blocks; agrees with the server at rest |
| Rendering, UI, editor, input, assets, protobuf, generators | - | - | - | out of scope |

### What is hard

* The tick visits objects in arbitrary order, and what one visit changes the next one sees.
* `weak_ptr`s outlive their objects: owners of bombs, entries of `_players`, passable players.
* Explosions recurse through the room, broadcast inside the recursion, and read every object in
  reach as a bomb.
* A refused send runs `LeaveRoom` inside the operation that sent.
* A send queue with one outstanding operation and a flag, entered again from its own failure path.
* A byte stream cut anywhere, and a buffer that moves its content to the front.
* A client that hears of everything late and in bursts, removes objects at the end of a frame only, and
  keeps raw pointers to them.
* The same walk computed on two machines by two clocks, each of which takes positions from the other
  without a look at its own map.

`PROJECT.json` lists each of these hazards with its line and the properties that watch it.

## 2. Modules

| Module | Models | Lines |
|---|---|---|
| `GameRoom` | room, players, bombs, items: one action per handler and per visit of the tick | `Server/GameRoom.cpp`, `Player.cpp`, `WaterBomb.cpp`, items |
| `RoomFeed` | what the room promises to those it broadcasts to; `GameRoom` implements it | the same, without positions, timers and counts |
| `ExplosionChain` (extends `GameRoom`) | the explosion call by call, tile by tile; implements the one step of `GameRoom` | `GameRoom.cpp:379-508`, `WaterBomb.cpp:17-22` |
| `PacketChannel` | what a session promises: the packets sent, whole, in order, once | `Session.cpp:324-348` |
| `PacketStream` | receive buffer and reassembly; implements `PacketChannel` | `Session.cpp:135-158, 231-260, 325-348`, `RecvBuffer.cpp` |
| `Sessions` | send queues, failing sends, disconnects, and the calls they nest into the room | `Session.cpp`, `Service.cpp`, `GameSession.cpp`, `GameRoom.cpp:39-163`, `GameRoom.h:86-95` |
| `ClientMirror` (extends `RoomFeed`) | one client that applies the room's packets, frame by frame | `Client/ClientPacketHandler.cpp`, `ObjectManager`, `Scene.cpp`, `MapObject.cpp` |
| `Walking` | `TryMove` of both sides, in pixels | `Server/GameRoom.cpp:301-377`, `Client/MyPlayer.cpp` |
| `Prediction` (extends `Walking`) | one player on both sides of the wire: prediction, reports, corrections | `Client/MyPlayer.cpp`, `Server/GameRoom.cpp:165-208`, `Player.cpp` |
| `MCGameRoom`, `MCExplosionChain`, `MCClientMirror`, `MCPrediction` | maps, entry points, symmetry, boards for TLC | |
| `GameRoom_proofs`, `RoomFeed_proofs`, `RoomRules_proofs`, `ExplosionChain_proofs`, `PacketStream_proofs`, `Sessions_proofs`, `ClientMirror_proofs`, `Prediction_proofs` (with `Walking`) | theorems | |

`RoomFeed` is where server and client meet: `GameRoom!ShowsRoomFeed` shows, and `RoomFeed_proofs` proves,
that the detailed room takes no step that `RoomFeed` does not have, and `ClientMirror` runs a client
against every step that `RoomFeed` does have. So a client that shows `RoomFeed` shows the real room.
`PacketChannel` plays the same part for the wire: `PacketStream` implements it, and the inboxes of `ClientMirror`
and `Prediction` are such channels.

### GameRoom

State is per player and per tile, because every map object lives on its tile until the end of the
tick that destroys it: `life[p]` is membership in `_objects` and `_isDead` (a value `null` is the null
pointer that `_objects[id]` inserts), `mapObj[t]` is what `_mapObjects[y][x]` locks to, `isDead`,
`owner`, `timer`, `exploded` and `passable` are the fields of the object there. `passable` stands for
both `_passablePlayers` and the players' `_overlapBombs`: the code changes the two together, and in
`CheckOverlapBombs` only.

A tick is `BeginUpdate`, then one action per object of `_objects` in any order (`UpdateNormal`,
`UpdateTrapped`, `UpdateEscape`, `UpdateDead`, `UpdateNull`, `UpdateBombWait`, `UpdateBombExplode`),
then `RemoveDeadObjects`. Handlers and `EnterRoom` run between ticks, `LeaveRoom` at any time. Each
handler is one action; its broadcasts are left to `Sessions` and `ClientMirror`.

Abstractions, each named in the module:

* *Half-tile lattice.* Positions are integers of 20 pixels. Two lattice steps apart nothing overlaps,
  one step apart everything does, since a player is 32, an item 32 and a tile 40 pixels wide. One
  update of a walking player is one step. `MAX_POSITION_ERROR` (10 pixels) is less than a lattice
  step, so `MaxPositionError = 1` accepts no other position than the server's, while
  `MaxPositionError = 2` accepts a step, which stands for several accepted packets with less than
  10 pixels each. Runs use both.
* *Ticks.* Timers count ticks; 60 ticks to an explosion, 90 to a death and 30 to the end of an
  escape become 2, 2 and 1. Nothing depends on their ratio but which of two timers ends first, and
  bombs planted at different times give both orders.
* *A chain of explosions is one step*, in which everything in the chain goes off: `Chain(t)` is the
  least set of bombs closed under reach. `ExplosionChain` shows that the recursion does just that.
* *Undefined behaviour.* Dereferencing a null pointer ends the process (`crashed`). The unchecked cast
  of an item or a block to `WaterBomb` reads beyond the object: either it reads as exploded, and
  nothing happens, or the process is taken to die. A bomb planted beyond the map, which writes outside
  `_mapObjects`, ends the process as well.
* *Margin* bounds how far off the map a player may walk: the code has no wall there.
* `kit` and `bombCount` are not cut to 8 bits: `BombAccounting` and the number of items bound them far
  below 256.

### RoomFeed

The variables are the ones a client can learn of: membership of players, main states, the type of the object on
each tile, and which objects have been destroyed and wait for the end of the tick. Its actions say when each may
change: objects appear between ticks, on free slots, and vanish at the end of a tick only if they were destroyed;
main states change along named edges; a bomb goes off once. `KillAndGet` lets a player take items that are flagged
already, because `Player.cpp:206` does not look at `IsDead`. The mapping hides the null object of a late packet
(`life = "null"` is `gone`).

### ExplosionChain

`calls` is the stack of `GameRoom::Explode` calls, each with the tiles its loop has still to visit.
Where `Explode` broadcasts, `S_MainState` for a player it traps and `S_Explode` at its end, a failing send may run
`LeaveRoom` (`LeaveInBroadcast`). `AtomicChains` is
the refinement `Atomic!Spec` with the mapping: while the stack is not empty the room is seen as it was
before the first call, so the last return is the one step `UpdateBombExplode` and every other step a
stutter, or a departure.

### PacketStream and PacketChannel

A byte is its offset in the stream, so what the buffer holds can be compared with what was sent.
`Receive(n)` writes `n` bytes where the posted receive points, `OnRecvPacket` is one round of the loop of
`PacketSession::OnRecv`, `FinishRecv` its end with `OnRead`, `Clean` and `RegisterRecv`. A header whose bytes
are not in place reads as an arbitrary size, and a packet whose bytes are not in place is delivered as
one that was never sent. Peers are honest: the size in a header is the packet's, at least a header and
at most 65535.

### Sessions

`calls` is what the thread has still to do, innermost first; between two events it is empty. `Send` pushes a
packet and perhaps calls `RegisterSend`, which posts, finds the session closed, or fails; a failure with a
reset calls `Disconnect`, which destroys the player, broadcasts `S_PlayerLeave` (more `Send`s) and then calls
`Release`. `EnterRoom` is cut where the room is read: before the first packet, at the snapshot of the other
players, at the last broadcast. A `Broadcast` is one `Offer` per entry of `_players`, and each locks its
`weak_ptr` only when it comes to it, so that a player that a nested disconnect destroys is still sent the packet
and one that was removed is passed over. `fails` and `moves` bound failures and broadcasts.

A packet is its number among those that `Send` was given for its session, so that order, loss and duplication can
be told; `outgoing`, `pushed`, `lost` and `early` are history.

`ClosedSessionsLeave` has an exception the code really has: if `S_EnterGame` already fails
(`GameSession.cpp:17`), the session is disconnected before it has a player, and `EnterRoom` then makes one that
nothing removes. The model shows that this is the only way a closed session keeps a player.

### ClientMirror

The room's half is `RoomFeed` with the packets each step broadcasts: `EnterMe` sends the four packets of
`EnterRoom` in the order of the code, the others `Tell` of what they did. A chain of explosions sends one
`S_Explode` per bomb, in any order, each with what its own blast destroyed, so that two may list the same block.
A player that gets items tells each of them with an `S_RemoveItem`, and of each roller before that its own client with an
`S_PlayerNormalSpeed` (`GetNews`); `rollers` counts those of this client's player, `speed` is what its client was told.
The client's half has one action per handler, which takes the first packet of `inbox`, and two for a frame:
`FrameWalking` is `CheckOverlapBombs` of a walking player followed by `Scene::RemoveDeadObjects`, `FrameAtRest` is the
removal alone. Any number of packets is handled between two frames, as `ServerSession` dispatches them as they come.

`scene` is the set of objects that exist on the client, in the scene and in `_syncObjects` (the code changes the two
together), `flagged` those with `_isDead`, `slots` the tile map. Where the code dereferences without a check and the
object is missing, the client dies and `clientCrash` says of what. `history` keeps what the properties refer to.

Three things that the code does are written into the properties rather than left out, and none is
contradicted by a document: a player that was flagged dead when a client entered stays on that client as a ghost
(`GameRoom.cpp:78`); a bomb that is announced while the client still has to remove the object before it on the tile
is not in its tile map afterwards (`MapObject.cpp:37`); and a block that two bombs of one tick destroy
kills a client whose frame falls between the two packets (`ClientPacketHandler.cpp:153`): `CrashesAreKnown` asks of each
block that is missing that it is such a one. `SpeedIsTold` begins with the first roller: until then the client has
`MOVE_SPEED_NORMAL` (200, `Client/MyPlayer.h:50`) and the room walks it at 220 (`Server/Player.h:66, 86`).

### Walking and Prediction

`Walking` is arithmetic only. `TryMove` finds the tiles that block and overlap the rectangle of the next position,
and pushes the player back from the first one of the scan, row by row. Positions are whole pixels: the
code keeps fractions and drops them when it builds a rectangle. `Scanned` is the range of tiles that the scan looks
at, with the truncating division of C++.

`Prediction` has two copies of one player. The client's actions are a key going down (`StartWalking`), a frame of a
walking player (`WalkOn`: turn, go on, or stop, with the report that `SyncToServer` sends at once or on its timer),
and its handlers; the server's are `Handle_C_Move`, the player's part of a `Tick`, the changes of the main state, a bomb
that another player plants and a block that a blast destroys. Each side moves by its own clock: any number of frames
falls between two ticks. `StartWalking` and `WalkOn` need room in `up` (`MaxUp`), the server's packets room in `down`
(`MaxDown`): bounds that delay a step and forbid none in the end.

Both sides move one unit per step. The code has 200 pixels per second on the client (`Client/MyPlayer.h:50`) and 220 on
the server (`Server/Player.h:66, 86`); as frames and ticks interleave freely, one side overtaking the other by that
much is among the behaviours. A trapped player goes at a quarter of the speed, so that a step may be of no length.

`crossed` records that the last correction the client followed was late, `ignored` that the last `C_Move` the server
took came while the player was dead, `thrown` that a player who stood in a bomb that blocks it was pushed out of it.
`NobodyInABlock` is about players that were not thrown: `TryMove` pushes one out to the far side of its tile, where
a block may stand. `AgreeAtRest` has two exceptions. A correction which crossed a newer report leaves the two apart until
the next report; `Docs/dev-log.md:15` describes the correction and does not say what happens then. And
`Handle_C_Move` returns early for a dead player (`GameRoom.cpp:174`), while a blast traps every player it meets, dead
ones included (`GameRoom.cpp:462`): such a player lives on where the server had it, and in the server's copy it still
walks the way it walked when it died, although its client has stopped. The run has two traps so that this happens.

## 3. Runs

`tlc -workers 2 -config <cfg> <module>`; times are on two cores.

| Run | Shows | Bounds, and why they are enough | States |
|---|---|---|---|
| `room_needle` | types, bomb counts, slots, edges of the main states, explosion rules | 2 players, 2 tiles, a needle between them, all in reach of all; a player walks one way. Two actors are what each rule relates; both bombs, both players and the item meet in every order | 566k, 90 s |
| `room_yard` | explosion rules with blocks and range 2, walking, the refinement of `RoomFeed` | 1 player, 3 x 2 tiles with every kind of object, 4 directions, 2 bombs | 44k, 15 s |
| `room_liveness` | bombs go off, traps resolve, a doomed server stops; the refinement of `RoomFeed` with two players | 2 players that stand, 2 tiles, a needle | 9k, 10 s |
| `chain_two` | the recursion implements the one step, from the initial room on | 2 players, 2 tiles | 184k, 70 s |
| `chain_board` | the recursion from every board | 3 x 2 tiles, up to 5 bombs and blocks, ranges 1 and 2, an owner that may be gone | 10k, 30 s |
| `stream` | the receive buffer implements the channel | 4 packets of 2-4 bytes, a buffer of 3 x 5 bytes: less than the stream, so that it fills, moves and wraps | 91k, 25 s |
| `sessions` | send queues, nesting, disconnects | 2 sessions, 2 failures, 1 broadcast from each of handler or tick; a failure inside a disconnect inside a failure is reached | 702k, 110 s |
| `client_mirror` | the client shows the room, and has the speed of the room, once it has caught up; what may kill it | 2 players, 3 tiles (a block, an item, free), 1 bomb per tile, 3 changes of state, the room goes on while at most 1 packet is in flight: a step may add several, so that the client lags behind by a whole chain; the item is a roller and may be taken once (`MaxRollers` = 2) | 3.9M, 110 s |
| `prediction` | nobody in a block, agreement at rest | 2 tiles of 2 units, a player as wide as a tile, a block that may break, a bomb, 2 traps (so that a dead player is trapped again), 1 report and 2 answers in flight: one more than a correction needs to cross a report. Both properties are proved for all sizes; a correction needs the two sides two units apart, and there are four positions. The frames in which the client leaves the map end the behaviour | 1.7M, 40 s |

Deadlock is not checked where the system really may stop: a crashed server or client, a client at the edge
of the map, or a stream of which everything was sent and handled. `sessions` checks it.

Three runs expect a violation; they state what `Docs/dev-log.md` says and find the code to differ:

| Run | The log says | The code |
|---|---|---|
| `doc_owner_lock` | line 615: it is enough to erase an object from `_objects`; what is left in the auxiliary containers expires, and it is enough to check validity with `lock()` | `GameRoom.cpp:383`, `WaterBomb.cpp:26` do not, for another `weak_ptr` that the erasing leaves behind, the owner of a bomb: a bomb whose owner has left crashes the server |
| `doc_overlap_bombs` | line 269: the player holds the bombs that it overlaps at present, and these are checked | `Client/MyPlayer.cpp:193`: the list is only tidied by a walking `NORMAL` player, so it still holds a bomb that went off and was deleted, and reads it at the next step |
| `doc_bomb_blocks` | line 292: which bombs a player may pass was implemented in the same way on the server | `Client/WaterBomb.h:36`: on the client a bomb that the player does not overlap when it is announced never blocks it; on the server it does |

Other places where code and log differ, which need no run to see: line 615 says that expired entries are cleaned up
every tick, and `Update` never calls `CleanupExpired` (`GameRoom.cpp:36`, `622`); line 583 says that players that
*overlap* the range are trapped, and `GameRoom.cpp:455-462` traps those whose centre lies in a tile of it (`PtInRect`), which
`MainStateRules` and `BlastRules` follow; line 582 says that a water bomb that is
touched goes off too, and `GameRoom.cpp:495` reads every object that is touched as a bomb; line 763 says that
items touched by an explosion are destroyed, and `Player.cpp:206` still gives one to a player updated later in
the tick. The models have all of these as the code does them.

### Fairness

* `GameRoom!FairSpec` has `WF_vars(Update)`: the main loop handles one completion and then looks at the
  clock, so no stream of packets keeps it from the next tick, and a tick visits each object once. Nothing
  is assumed of players.
* `MCExplosionChain!BoardSpec` has `WF` of the loop of `Explode`: it is a loop of the running thread.
* `PacketStream!FairSpec` has `WF` of arriving bytes (TCP delivers, or the session ends) and of the two steps of
  the running thread.
* `Sessions!FairSpec` has `WF` of the running thread and, for each session, `SF` of the completion of an
  outstanding send: the kernel completes every overlapped send, and the main loop dispatches completions in
  the order they were queued, whatever comes between.
* `ClientMirror` and `Prediction` state no fairness: their properties speak of the states in which everything
  sent has arrived, not of whether it does.

## 4. Proofs

`tlapm <module>` proves, with no unproved step:

* `GameRoom_proofs`: **`TypeCorrect`**, `Spec => []TypeOK`, for every map, set of players and timing. `TypeOK` is inductive
  as it stands; besides the types it says that no timer ever reaches its limit, which is why each update
  needs its guard.
  **`BombsCounted`**, `Spec => []BombAccounting`, and **`SettledSlots`**, `Spec => []SlotsSettled`, follow from one
  inductive invariant, `BombInv`. It adds to `BombAccounting` what an account could be broken by: exactly the bombs
  have owners (`Owners`), a bomb is flagged dead when it goes off and only then (`DeadBombs`), a tick leaves nothing
  dead behind (`Cleaned`, so that a bomb is never planted on a slot that is still flagged), and a player that has not
  entered has planted nothing (`Newcomers`). The accounts themselves are cardinalities: planting adds one element to
  the set of a player's bombs, a chain takes from it the part that is its own, removal takes only what went off.
* `PacketStream_proofs`, from the assumptions that a packet fits a part of the buffer (`BufferSize > MaxPacket`, in the
  code 65536 > 65535) and that the buffer has at least three parts (in the code 10):
  **`StreamTypes`**, **`BufferKeepsBytes`**, **`AlwaysRoom`**, **`MoveDisjoint`** and **`Implements`**, that is
  `Spec => Channel!Spec`. The inductive invariant `IInv` adds to the checked invariants that the packets lie one
  behind the other in the stream (`Adjacent`), that the packets handled are the first ones sent and end where the
  unread bytes begin (`Aligned`), and that the loop of `OnRecv` leaves less than one packet (`LittleLeft`). The last one
  carries the argument for `Clean`: what is left is shorter than a part, what was consumed before the cursor came
  within a part of the end is at least a part, so the move is disjoint and frees at least a part.

* `RoomFeed_proofs`: **`RoomShowsFeed`**, `Spec => ShowsRoomFeed`: the initial room maps to the initial feed, and every action
  maps to an action of the feed or a stutter. The tick needs that the tiles still to visit hold bombs
  (`VisitsBombs`) and, from `BombInv`, that a bomb is flagged dead when it goes off and for nothing else: that is why
  the bomb that a visit sets off, and those of its chain, have not gone off before.
* `RoomRules_proofs`: the action properties of `GameRoom`. **`WalksStayClear`**, `Spec => WalkStaysClear`: the obstacles of one
  step lie in one row (or column) two lattice steps ahead, so being pushed back from the first of the scan puts the
  player where it stood. **`BlastsFollowRules`**, `Spec => BlastRules`: the four arms, walked tile by tile until a block, are
  the tiles that `Reaches` describes by distance and by what lies between (`ReachIsBlast`), and a chain, the least set
  that its own blasts do not leave, holds for every bomb but the first another one that reaches it (`ChainReason`: without
  such a one the rest would be closed already). **`StatesFollowRules`**, `Spec => MainStateRules`, action by action: that
  timers are below their limits (`TypeOK`) makes "the time is up" mean "exactly now".
* `ExplosionChain_proofs`: **`RecursionIsOneStep`**, `ChainSpec => AtomicChains`, **`EveryChainIsOneStep`**, **`StackStaysDistinct`**
  and **`NoneForgotten`**, from one inductive invariant, `ChainInv`. Between chains it is `BombInv`. In the middle of one
  (`Midway`) it relates the room to what it was before (`Snapshot`) and to what the calls have still to do: every tile
  of a blast that has begun is done with or waits in the call of its bomb (`NothingMissed`); every bomb that has gone off
  belongs to every closed set that holds the first one (`InChain`); nothing is destroyed and nobody trapped but by a
  blast of those bombs (`DeadRightly`, `TrappedRightly`). When the last call ends nothing waits, so the bombs that have
  gone off are closed under blasts, and by `InChain` they are the least such set: the chain of `GameRoom`. The counts
  agree because `BombAccounting` holds in the middle as well (`Counted`), against the count of `Snapshot`. A departure
  in a broadcast changes none of this, because an object flagged dead is still there for its bombs (`MidwayFrame`).
* `Sessions_proofs`, for any set of sessions and any number of failures and broadcasts: **`SessionTypes`**,
  **`NeverLosesAWakeup`**, **`NeverReusesTheEvent`**, **`SendsInOrder`**, **`ClosedOnesHaveLeft`** and **`GoneAreSilent`** (of players
  that were removed; one that has left is silent only from then on, as a late receive may still broadcast for it), all from
  `Invariance`, `Spec => []IInv`. The difficulty is that a call waits in `calls` while others run inside it, so each part
  of `IInv` says what the waiting calls still owe. `Link`: the outstanding send, a `RegisterSend` that is about to run
  and a failure that is about to clear `_sendRegistered` are one token per session, which exists only while the flag
  is set. `Awake`: if the flag is set on an open session, someone who will look at the queue holds the token; the failure
  path holds it for the running call only, which is why the queue is empty when it clears the flag. `Served` and
  `Entered` count the `Release` and the `EnterRoom` that are owed, `Fresh` says that a new session starts from nothing,
  `Silent` that no waiting call speaks to or of a player that is gone, which needs that `RemoveDead` is the last call of
  a tick (`LastOnly`), and `Ordered` that the numbers in the queues increase and none is missing but the lost ones.
* `ClientMirror_proofs`: **`MirrorTypes`**, **`MirrorShowsTheRoom`**, **`MirrorSlots`**, **`MirrorNoTwins`**, **`MirrorSpeed`** and
  **`MirrorCrashes`**, for every map, every number of players, bombs per tile and packets in flight. Besides the
  assumptions of `ClientMirror` they need that players and tiles are finitely many and no player is a map object
  (`MirrorKinds`). `ShowsTheRoom` speaks only of a client that has caught up, so the inductive invariant `IInv` has to say
  what one that lags behind will be told. It takes the scene as place 0 and the packets of the inbox as places 1, 2, ... and
  says at which places a thing is added and at which it is removed: each thing is added at one place only (`Once`),
  which gives `NoTwins`, and never removed before that (`Order`). What is added and not removed `Stays`, and what stays is
  what the room has now (`ObjectsAgree`, `PlayersAgree`); of the packets that name a player's main state, the last one
  names the one it has (`StatesAgree`). A step of the room changes one side by what it appends to the other; a handler
  moves one place into place 0 and leaves the sum as it was. When the inbox is empty what stays is the scene. The
  tile map needs that two objects of one tile succeed each other (`Succession`) and which of them overtook another
  (`Overtakers`, `SlotsFilled`), since releasing an object empties the slot of its tile whatever lies there. The packets of
  `EnterMe` come in an order on which all handlers rely (`MyPlayerFirst`, `MapFirst`), and a block that a packet destroys
  is in the scene when the packet is handled unless that block was destroyed twice (`BlocksThere`). The speed has an
  invariant of its own, `SpeedInv`: the last `S_PlayerNormalSpeed` on its way carries the count of the room, or, if there is
  none, the client has it; a player that gets several rollers at once tells the sums in rising order (`News`). One lemma per step of the
  room says that it keeps these parts, one per handler, and one for the frame.
  **`MirrorIsAFeed`**, `MirrorSpec => Spec`: the room of the mirror takes the steps of `RoomFeed`, which `GameRoom` implements.
* `Prediction_proofs`, about `Walking`: **`TryMoveStaysClear`**, for every size of tiles and players and any set of blocking tiles: a
  step of at most a tile along one axis, from a place clear of everything that blocks, ends clear and on the way, although
  only the first tile of the scan is looked at. The tiles met lie in one column (or row), since the player came from a
  clear place, so that pushing it back from one pushes it back from all.
* `Prediction_proofs`, from `WalkingAssumption` and `PredictionAssumption`: **`PredictionTypes`** and **`NeverInABlock`**,
  for every row of tiles, any sizes and any number of packets in flight. `IInv` adds to the types that the
  client's map lags behind by exactly the `S_Explode`s on their way (`Announced`), and that every position that either
  side holds or has sent is clear of the blocks that will stand for the one who takes it (`Standing`). So a
  position may be taken without a look at the map: blocks only go, and the news of it overtakes nothing.
  **`AgreesAtRest`**, for any number of packets in flight: `Stopped` says what is owed to a client that has stopped. While
  its last report is under way it tells the server to stop and where (`Reported`); once the server has followed it, the
  server stands, and the last `S_Move` under way either corrects the client to that place or finds it there
  (`Answered`). The proof shows that `ignored` is needed: the invariant breaks at a last report that finds the player dead,
  and with two traps TLC finds such a player trapped again and left apart from its client.

Not proved, only model-checked: liveness (`BombsGoOff`, `TrapsResolve`, `DoomedServerStops`, `ChainsEnd`,
`EveryPacketHandled`, `QueueDrains`), which needs `ENABLED`, out of TLAPS' reach. Every invariant and every other action
property of the passing runs is a theorem.

## 5. Not modelled

* Rendering, input, UI, the map editor, resources, protobuf and the code generators. The vendored protobuf library
  and generated code are nearly all of the repository's C++ lines; the game's own code is a few thousand.
* On the client: where other players are shown (`Handle_S_Move` of another player sets position and heading, nothing
  else reads them but drawing), `S_EnterGame` (a log line).
* In `Prediction`: bombs going off, which `ClientMirror` has; a second row of tiles, which `TryMoveStaysClear` covers.
* A client that walks off the map: there is no wall, `Client/ObjectManager.h:30` has no bounds check, and the model
  stops there (`offMap`).
* Content and encoding of packets, the table of handlers by id, names and logging.
* Accepts that fail and are retried, `RegisterConnect`, the session limit. Lost or duplicated packets: the
  transport is TCP, which ends the session instead.
* The growth of `_players`, `_bombs` and `_items` by entries that have expired: it changes no state but memory.
* Release builds: `assert` with side effects (`Server.cpp:28`, `Service.cpp:46`, `PacketUtils.h:19`) is taken to be
  evaluated.
* Speeds in pixels: in `GameRoom` a roller changes `kit` only, in `ClientMirror` a speed is a count of rollers, and in
  `Prediction` the two sides interleave freely.
* The 16-bit size of a packet (`PacketUtils.h:10`): the largest packet the server sends, the tile map of 18 x 15
  tiles, is far below it.

## 6. Plan

All modules of the first plan are written but `Accepting`. What is left, in this order:

1. `Accepting`: `Listener` and `Service` with failing accepts.
2. `Prediction` with bombs that go off, so that the crash of `doc_overlap_bombs` and the corrections meet.
