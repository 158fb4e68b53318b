# HXService: specification and verification

HXService is a set of servers for a virtual theatre: VIP clients (chairs with a
screen), capsule clients (scanners that make a face model for a chair) and camera
clients connect to a *scene server*; scene servers connect to one *center server*,
which forwards commands, lists of users and a video stream between them. Everything
talks through one library, `HXLibNetwork`, built on boost::asio. The modules here
are translated from that code; paths below are relative to `src/`.

Contents: [the system](#1-the-system) - [modules](#2-modules-and-the-code-they-model) -
[runs](#3-runs) - [fairness](#4-fairness) - [disagreements found](#5-where-code-and-comments-disagree) -
[proofs](#6-proofs) - [not modelled](#7-what-is-not-modelled) - [plan](#8-plan).

## 1. The system

### Components, their state and operations

| Component | State | Operations | Called by |
|---|---|---|---|
| Connection pool: `HXLibAsioServer`, `HXLibServerAccept` (`HXLibNetwork/HXLibAsioServer.cpp`) | `m_links` (slot -> link, sid), `m_onlineLinks`, `m_id` | `Join`, `Leave`, `Send`, `Close`, `handle_accept`, `OnService`, `Start`, `Stop` | io thread; any application thread |
| Connection of the server: `HXLibAccept` (same file) | socket, `m_linkid`, `write_msgs_`, `m_numofWrite`, one pending read, one pending write | `start`, `send`, `close`, `handle_read_header`, `handle_read_body`, `handle_write` | io thread; `send`, `close` from the pool |
| Queue: `HXMessageQueue`, `HXMessageQueueAB` (`HXLibMessageQueue.cpp`) | two buffers, `m_current`, heap buffers of large messages | `add`, `swap`, `get`, `GetPackage`, `Reset`, `RemoveFront` | network threads; main loop |
| Large messages: `HXBigMessageQueue` (same file) | header, receive buffer | `SetBigPackage`, `RecvPackage` | `Send`; `add` |
| Client: `HXLibAsioClient`, `HXLibClientAccept` (`HXLibAsioClient.cpp`) | socket, `write_msgs_`, `m_bConnected`, heartbeat flags | `Start`, `Send`, `SwapQueue`, `handle_*`, `do_close`, `Stop` | scene server; client programs |
| Center server (`CenterServer/CenterServer.cpp`, `UserManager.cpp`) | list of users, FLV headers, `flvSeqHeaderChange` | `AddUser`, `DeleteUser`, `ForwardCommand`, `ForwardMsg`, `CacheFlvSeqHeaderData`, `SendFlvStream`, `OnStreamReback` | its main loop |
| Scene server (`SceneServer/SceneServer.cpp`, `PlayerManager.cpp`, `Player.cpp`) | list of players with type, seat and binding, `user_visible_flag`, FLV headers | one handler per message of a client and of the center | its main loop |
| Transform timer (`SceneServer/SvcTimer.cpp`) | `buffer`, `transInfo.update` of the players | `handler`, every 30 ms | a thread of its own |
| Verification of users: `UserVerifier`, `MsgQueue` (`CenterServer/UserVerifier.cpp`) | two bounded queues, two threads | `AddMsgPackage`, `HandleQueueInMsg`, `VerifyUserID`, `HandleQueueOutMsg` | main loop of the center (the call is commented out) |
| Database: `CMySqlConnector`, `HXDBClient` (`HXLibDBConnector/MySqlConnector.cpp`, `CenterServer/HXDBClient.cpp`) | connection, prepared statement, record set | `InitDBConn`, `PreparedExcute`, `set*`, `ExecuteCommand`, `Query`, `NextFieldExist`, `GetFieldValue`, `CloseRecordset`, ..., `GetUserInfo` | center server (commented out) |
| Test program `ClientTest` (`ClientTest/ClientTest.cpp`) | - | main loop, a thread that sends | - |
| Log files, configuration | - | - | see section 7 |

### How they interact

- Threads. A server has one *io thread* (`OnService` runs the `io_service`): all
  completion handlers run there, one at a time. The *main loop* swaps the queue,
  walks through the messages it got, and calls `Send`. The scene server has a third
  thread, the timer, and a second io thread for its connection to the center.
- Locks. `m_linkMutex` protects the pool, `m_write_mutex` one connection's
  `write_msgs_`, the queue's `m_mutex` the filling of the queue. Events are pushed
  *after* `m_linkMutex` is released, so a handler such as `Leave` has two critical
  sections with a gap between them. The main loop reads its buffer without a lock.
- Names. A connection is named by a `LinkID` (sid, slot). An application keeps
  LinkIDs it got with events, for as long as it likes.
- Messages between servers are not acknowledged; a send to a connection that does
  not exist returns false, and no caller looks at that.

### What is hard, and what correct means

- *Pool*: joins, reads and writes that fail, a connection that leaves twice, LinkIDs
  used after their connection left, a sid counter that wraps. Correct: slots and
  connections agree, the count is right, a stale LinkID reaches nobody else for a long
  time, a connection in the pool is always read (otherwise its end is never noticed),
  and the events tell exactly which connections exist.
- *Connection*: two threads queue messages and a third party completes writes.
  Correct: never two writes at once and never a queue that nobody empties; messages
  arrive whole, in order, and all of them unless the connection breaks.
- *Queue*: producers fill one buffer while the main loop reads the other. Correct: a
  FIFO queue that loses only its oldest message and only when full; no message's
  heap buffer is lost, shared or freed under the reader.
- *Service with main loop*: the list of users is built from events alone. Correct: it
  follows the pool, calls made for a listed user are safe, and users that are gone leave it.
- *Scenes and center*: lists, states and leave messages cross while clients come and
  go. Correct: every client shows the seats that are taken, in its own scene always,
  in others once the messages have been handled; commands have one order everywhere.
- *Client*: two threads post packages while the io thread connects, reads, writes and closes. Correct: what
  is posted arrives once and in order, a heartbeat is not outstanding for ever, and the program is told how its
  connection ended, once for each way of failing and in an order that makes sense.
- *Verification*: three threads with bounded queues between them. Correct: no wakeup is lost, nobody waits for
  ever, every request is answered once and in order.
- *Database*: one connection, one statement; any operation may fail. Correct: nothing of an earlier
  execution is taken for the answer to a later one, and SUCCESS means what it says.
- *Video stream*: headers are sent once per user, and again when they change. Correct:
  who is sent a frame can decode it.

`PROJECT.json` lists the hazards line by line with the properties that watch them.

## 2. Modules and the code they model

```
LinkPool -----------+
MCLinkPool          +--> NetService ----> NetServiceProofs
MessageQueueAB -----+
      |      LossyFifo (abstract)
MessageQueueABProofs

LinkStream ---+                           SceneServer ----> Theatre ----> TheatreProofs
MCLinkStream  |                                             MCTheatre
LinkStreamProofs                          SceneTimer ----> SceneTimerProofs
AsioClient ---+--> MessageChannel         FlvRelay ------> FlvRelayProofs
AsioClientProofs   (abstract)             MCFlvRelay
UserVerifier -+
              +--> UserProofs
UserDatabase -+
```

**LinkPool** - the pool with its connections. `m_links`, `m_onlineLinks`, `m_id` are the
members of the class; `m_linkid`, `socket`, `reading`, `writing`, `write_msgs` are those of
each `HXLibAccept` (of `write_msgs_` only the length). A step is one critical section:
`Join` / `PushConnect` / `StartRead` are `HXLibAccept::start` cut where the mutex is released,
`Leave` (in `ReadError`, `WriteError`) / `PushDisconnect` are `HXLibAsioServer::Leave`; `ioPc`
says how far the io thread is. `Arrive` and `Transmit` are the operating system.
`Application` calls `Send` and `Close` with every LinkID that was ever in an event.
`crashed` is the call of a null link. `m_queue` is the history of all events; `given`,
`birth`, `joins` are ghosts. `AcceptThrows` is `remote_endpoint()` on a connection that is gone
already: nothing catches it before `OnService`, whose io thread then ends.

**LinkStream** - one connection as a stream: `Sections` is `SetBigPackage`, `Send` is
`HXLibAccept::send`, `HandleWritePops` and `HandleWrite` are `handle_write`; `RecvBegin`, `RecvData`, `RecvEnd` are
`RecvPackage`. A large message is its sections, each naming the message its bytes came
from, so a mixture would be seen. `LateCopy` is whether the system may read the buffer of
a write after the call that started it has returned: `handle_write` passes a local
variable, so what is sent is then undefined (`Garbage`).
`handle_write` is two steps because the pool's `Send` tests the backlog of a large message that may be lost (`Lossy`)
under `m_linkMutex` only (HXLibAsioServer.cpp:313): it can read `m_numofWrite` after `handle_write` has popped
the message written (118) and before it has counted it out (119). Everything else waits for `m_mutex`, which is taken while
`writing = "popped"`. The push and the count of `send` (53-57) are one step: `m_numofWrite` is changed there only when the queue was
empty, and is 0 until then, so a reader in between sees 0, as it does before the push.
**MessageChannel** is what a connection promises; `ImplementsChannel` says `LinkStream`
keeps it when the bytes of writes are intact (`LateCopy = FALSE`).

**MessageQueueAB** - the double-buffered queue. `AddPackage` / `AddBigPackage` are the two
paths through `add`, `Swap` is `swap` with `Reset`, `heap` the allocated `bigDataPointer`s.
**LossyFifo** is what it promises; `ImplementsFifo` maps `queue[m_current]` to what is
pending, and the other buffer to the batch being read.

**NetService** - pool, queue and main loop together: `Push` puts what the pool logs into
the queue, `Dispatch` is what the switch of the main loop does to the list of users,
`CallForUser` a message to any user of the list, at any time. `MainLoopHandle` is one turn of the loop, which may also answer the
message on the LinkID it carries (CenterServer.cpp:203, for a piece of a video stream). That LinkID is 0 if the message came after its
connection had left, and then the answer can use the null link of a free slot 0, as in run `pool_null_link`: the process
ends (`crashed`).

**SceneServer** - the scene servers' main loop: one action per message of a client
(`Connect` to `SeenExternal`), `HandleCenterMessage` for those of the center. `players`,
`mUserType`, `mSeatNumber`, `bBoundUser`, `user_visible_flag` are the members. What is sent to a
client is modelled by what it changes in that client's picture (`told`): the seats of its
own scene and of the others, the commands in order, the seats it was given. That is
sound because one connection keeps the order of its messages (`LinkStream`). A handler
sends in the middle of its changes; nobody else can look in between, so it is one step.
What the clients and the center do is a `Script` of the run: which clients come, which commands are
given, which scene shows its users to others, whether a scene loses its center. A client is one connection: a chair
that leaves and comes back is another client with the same `SeatOf`, a new player that nobody is bound to. `ChairIsFree`, the one thing assumed of
the chairs, says that the end of a chair's last connection has been handled when the next comes (section 7).
**Theatre** - adds the connections to the center (`CenterConnected`, `CenterLost`), and the
center's main loop (`CenterHandle`, with `ForwardCommand` and `ForwardMsg`).

**FlvRelay** - the distribution of the video stream, the same code in `UserManager` (center)
and `PlayerManager` (scene). `SendFrame` is one turn of the loop in `SendFlvStream`, so that
connections can break in the middle of a frame (`LinkLost`). `mFlvSeqHeaderFlag` is
not initialised in the code, nor is the scene's `flvSeqHeaderChange`: both values are
initial states.

**SceneTimer** - the transforms of a scene's players, which two threads share. The handler of
`SvcTimer` holds `mMutex` for all of its run and is cut at each player (`TimerBegin`, `Collect`,
`CollectEnd`, `SendTransforms`, `SendToCenter`), because not everything waits for the lock:
`SetUserVisibilityExternal` takes none, nor does the loop of `SendPlayerLeaveMsg` that announces a
player as gone before `DeletePlayer` erases it under the lock. A transform is modelled by who has still to be
sent the last one (`due`), so an overwritten one is not missed and a lost one is.

**AsioClient** - the client's connection with a program like `ClientTest` on top. The io thread's
handlers are actions, cut where the main loop could see the difference: `handle_connect` pushes ID_Connect
(`HandleConnect`) before it sets `m_bConnected` (`BeginReading`), and `do_close` sets it back
(`HandleReadError`, `HandleWriteError`) before `closemsg` pushes the event (`Closemsg`). `Send` tests
`m_bConnected` (`SendBegins`) and then posts its packages one by one (`Write`); `posted` is the io_service's
queue of `do_write` handlers. `m_recv` is the history of what was put into the queue, `swapped` and `handled` how much of it the main
loop has been given and has handled. The server echoes heartbeats (`Serve`) and sends messages of its own (`Tell`).
`ImplementsChannel` says that `AsioClient` keeps `MessageChannel`, heartbeats included.

**UserVerifier** - the two queues and three threads of the verification. `put` and `get` hold their mutex except while
they wait, so a turn of either is one step, which finishes or goes to sleep (`Wait`); `Notify` is
`notify_one`, which does nothing when nobody sleeps. Threads also wake up for no reason (`WakeUp`).
It implements `MessageChannel` as well, with a channel that never breaks. `CenterServer.cpp` has the call of
`AddMsgPackage` commented out; `Receive` is that call.

**UserDatabase** - the connector with `GetUserInfo`, or with a program that calls its operations in any order
in which a statement is prepared before it is used. Every operation has the outcome TRUE, a return, or FALSE, an
`HXError`, and what an error leaves behind is any state the MySQL library can leave: `pending` counts the
results and the final status that the server has sent and nobody has read, without which no other command, not even a ping, is
accepted. `GetNextResultSet` leaves the record set alone when only the final status is left. A record set is the statement it came from, the parameter of the
execution, and the rows left. `GetUserInfo` falls off its end after an error: `ret` is then "undefined".

**MC modules** hold values of constants and symmetry sets for TLC, nothing else.

*Faults.* Operators whose comment begins with "Fault" are not part of any specification:
each is a definition changed the way a plausible bug would change it (a dropped reset, an
off-by-one, a swapped order). `PROJECT.json` ("mutants") says which definition it replaces and
which property must then fail. They show that no property holds by construction.

## 3. Runs

All bounds are CONSTANTS of the modules or values in the `.cfg`.

| Run | Instance | Checks | States, about |
|---|---|---|---|
| `pool` | 3 connections, 2 slots, 2 sids, 1 message received, 1 waiting write each | `TypeOK`, `OnlineCount`, `SlotOwner`, `HeldLinkIsRead`, `AnnouncedIsLive`, `EventsBracketed`, `SidReuse`, `StaleHandleRefused` | 355 thousand |
| `queue` | limit 2, up to 3 messages per buffer, 2 addresses | `TypeOK`, `BuffersOwned`, refinement of `LossyFifo` | 44 thousand |
| `service` | 2 connections, 2 slots, 2 sids, queue limit 3 | `UsersFollowLinks`, `UserCallsAreSafe`, `GoneUsersLeave` (liveness) | 340 thousand |
| `stream` | 2 messages out of a small one and large ones of 1 and 2 sections, 1 heartbeat | `TypeOK`, `WriteOutstanding`, `BacklogNotOverstated`, refinement of `MessageChannel` with its liveness | 465 thousand |
| `theatre` | five scripts, see below | `TheatreTypeOK`, `LocalViews`, `ExternalViews`, `CommandsInOneOrder`, `SeatGivenOnce` | 2.0 million |
| `flv` | 3 users, 2 header types, each header up to twice, center and scene | `TypeOK`, `FirstFrameDecodable`, `OnlyUserUpToDate` | 3.9 million |
| `timer` | 3 clients, a buffer for the transforms of 2 | `TypeOK`, `CollectedAreListed`, `MovesAreMarked`, `LateAtMostOnce`, `MovesAreShown` (liveness) | 31 thousand |
| `client` | 2 threads, 2 packages, a large message of 2 sections, 2 heartbeats, 1 message of the server, a break anywhere | `EventsTellTheStory`, refinement of `MessageChannel`, `HeartbeatAnswered`, `BreakIsHandled` (liveness) | 196 thousand |
| `verifier` | queues of 2 places, 6 requests of 2 kinds | `TypeOK`, `NoLostWakeup`, refinement of `MessageChannel` with its liveness | 13 thousand |
| `database` | 2 users, 4 statements, up to 2 answers to read, 2 rows | `LeftoversHaveTheirStatement`, `SuccessIsThisUsers` | 2 thousand |

The runs with a violation are in section 5.

Why the bounds are enough to meet the interesting cases:

- `pool`: two slots and three connections make the pool fill (a third connection is
  turned away when both slots are taken) and a slot be used again; two sids make `m_id` wrap
  at the third call of `Join`, so stale LinkIDs *do* come to resolve again, which is
  the boundary `SidReuse` and `StaleHandleRefused` state. One waiting write is enough for
  a failed write followed by a failed read (the double `Leave`); with two the run also
  passes (2.0 million states). Longer write queues are the matter of `stream`.
- `queue`: large messages are added without a look at the limit, so a buffer of three
  is one longer than the limit allows for ordinary messages; two addresses make reuse of
  a freed one possible.
- `service`: at limit 3 the queue drops at its third event, so connecting, sending and
  leaving of two connections overflow it, and both properties about the list of users
  have to cope with `lost`.
- `stream`: the second message is queued while the first is being written, section by
  section, with the heartbeat reply at every place in between; messages of one and two sections
  leave a longer old buffer behind a shorter message and the other way round; one large message must not be lost, so it passes
  the backlog test at any time.
- `theatre`: five scripts, one of which each behaviour follows. (1) Two VIP clients in one scene, the least for one to come or go
  while another looks, and one in another scene, with both scenes becoming visible. (2) A VIP client in each scene and a capsule
  client, with two commands given in the two scenes, the flower states, and a scene that loses its link to the center at any
  point. (3) Two VIP and two capsule clients in one scene, the capsule clients looking for seats. (4) A chair that comes back (two
  connections with one seat) and two capsule clients, so that its seat is given again to a later player. (5) The same chair in one scene and a VIP
  client in another, both scenes becoming visible, so that old and new news of one seat are under way together. Within a script every message is
  possible at any time; the queues between the servers need no bound, as seats are told once and scenes become visible once.
- `client`: two packages are the least for one to wait in `write_msgs_` while another is written, from either
  thread or both from one; a second heartbeat is only sent when the first was answered; the break comes at any point,
  before, between and after the operations under way.
- `verifier`: six requests fill both queues (two each, one in each thread) and then block the main loop, which is
  the longest chain of waiting there is.
- `database`: four statements are two or more calls of `GetUserInfo`, with an error at any step of each; two answers
  are a result and a final status.
- `flv`: with three users a frame can be under way with one already served, one next
  and one gone; two types show that headers are sent all together; two versions make a
  change. Users are interchangeable (symmetry). At the center any user can turn out to be a
  source.

- `timer`: with three players and a buffer for two the buffer fills and a player stays behind it, and a
  player can leave while one of two others has been served. In the program a
  buffer of 32 KiB holds more transforms than the configured number of connections (300), and nothing in
  the code depends on that.

What some properties deliberately leave out:

- `UserCallsAreSafe` speaks of the LinkIDs in the list of users. The answer on a message's own LinkID is not safe; the property says that
  nothing but it, on a message that carries LinkID 0, ends the process.
- `GoneUsersLeave` ends where the process does, be it by that answer (`crashed`) or by `AcceptThrows` (`ioPc = "dead"`).
- `BacklogNotOverstated` allows for the one message that `handle_write` has popped and not yet counted out.
- `SeatGivenOnce` speaks of players, and of the seats of two players that are present at one time. Over time a seat is given again, to the
  new player of a chair that has come back.
- `UsersFollowLinks` and `GoneUsersLeave` hold while the queue has dropped nothing and no
  sid has been used twice (`~lost`, `joins <= MaxSid`): `DeleteUser` looks for the sid only, and an event
  dropped by a full queue is gone for ever. In the program MaxSid is MAXSHORT (32767) and
  the queue's limit, `m_queueMax`, 8162.
- `ExternalViews` speaks of scenes that are connected and visible, of which no message was
  refused or missed (`missed`), and of clients that were seated when their scene last asked for
  lists (`asked`). A client that tells its seat between its scene's list and the answer is
  not sent the other scene's users until the next request.
- `MovesAreShown` speaks of a player among the first of the list, as many as fit in the buffer. Behind
  them a player may wait for ever, if those before it never stand still.
- `FirstFrameDecodable` speaks of the headers cached at a user's first frame, and of users whose
  uninitialised flag began FALSE.

## 4. Fairness

Only `service`, `queue`, `stream`, `timer`, `client` and `verifier` use it.

- Main loop: `while (true)` with no blocking call but `Sleep(1)`, so `MainLoopHandle`,
  `MainLoopSwap`, `GetPackage` and `Swap` are weakly fair.
- io thread: `io_service::run` runs every handler that is ready, and a handler that has begun goes on
  (`Push`, `StartRead`, `SendNext`, `HandleWrite`: weak). asio completes a read on a closed socket
  with an error and queues that handler; other handlers, which `ioPc` must let finish, may run
  before it, again and again, so `ReadError` on a *closed* socket is strongly fair. Nothing is assumed of an
  open connection whose peer is silent: no keep-alive of the code would end it.
- Network: on an open connection that has not failed a write is transmitted and the peer
  reads (`Transmit`, `Receive`: weak). A connection may break at any time instead; the channel
  promises nothing then.

- Timer: the handler sets the timer again before it returns, and it waits only for a lock that the main loop
  gives back in the same call, so the disjunction of its steps (`Timer`) is weakly fair. Main-loop
  operations under the lock are single steps, so the lock is free between them.

- Client: as for the service. Its io thread runs what is ready, each kind of handler in its turn (asio's queue is first in, first
  out), a thread inside `Send` goes on, the main loop calls `SwapQueue` again and again, and TCP with keep_alive set delivers or
  reports an error. No program is assumed to send anything.
- Verification: a thread that is not asleep runs; it may wake up for no reason, but need not.

There is no fairness for accepting, the application's calls, or errors on open connections.

## 5. Where code and comments disagree

Each is a run with one property that states what the comment says.

| Run | Property | What happens |
|---|---|---|
| `pool_null_link` | `SendToInvalidLinkReturns` | A write fails, `Leave` frees the slot and resets the LinkID to 0, but the read goes on and its message carries LinkID 0. Answering it passes the test in `Send` against the free slot 0, whose link is null. In run `service` the main loop makes that call. |
| `stream_stack` | `QueueIsSentAsQueued` | `handle_write` starts the next write from a local variable that is gone when the handler returns. Theorem `SentAsQueued` shows that nothing else can go wrong there. |

Others of that kind have no run of their own:

- `GetFreePlayer` (PlayerManager.cpp:479) takes any unbound player of type VIP, the type every new connection has, seated or not. A
  capsule client, which is to be given "the seat just obtained" (comment at PlayerManager.cpp:195), can be given seat 0,
  while `consts.h:7` begins seats at 1. `SeatGivenOnce` (run `theatre`) is what holds: no player is given twice, nor a seat but 0 of two players present together.
- `flvSeqHeaderChange` is cleared inside the loop over the users, after the first of them (UserManager.cpp:95): the
  others are sent this frame and all later ones with the old header, though the comment at line 90 says headers are sent again
  when they changed. `OnlyUserUpToDate` (run `flv`) is what is left: with a single viewer it works.
- `send` is to drop large messages when the backlog is too long, but
  `m_numofWrite`, which it looks at, is brought up to date only when the queue was empty or a write completes, so it
  can be too small. `BacklogNotOverstated` (run `stream`) is the direction that holds: it is never too large but by the message
  that `handle_write` is just counting out, which `Send` does not wait for.
- A `Send` of the client in answer to ID_Connect may be refused, as the event is pushed before `m_bConnected` is set
  (HXLibAsioClient.cpp:61); no caller looks at the result.
- After an error between `ExecuteCommand` and `CloseRecordset`, `GetUserInfo` refuses every later call: its ping fails
  while results are pending, and nothing in it would read them.
- When no player is free, `retPlyId` (SceneServer.cpp:222) is not initialised and is then used to look a player up.
- A scene that loses its center never connects again, and no other scene is told (HXLibAsioClient.cpp:87).

## 6. Proofs

Each proof module extends the module it is about and holds for every value of the constants that satisfies that module's
assumption; nothing else is assumed. The assumptions say little: bounds are natural numbers, a set has no null element in it, a
buffer holds something. What is assumed of the clients stands in the guard `ChairIsFree` (section 7). Every invariant was checked by TLC on the instance of the module's run before it was proved.

### Pool (`NetServiceProofs`, first part)

For every finite set of connections and any number of slots, sids and messages (`LinkPoolAssumption`):

| Theorem | States |
|---|---|
| `PoolTyped` | `Spec => []TypeOK` |
| `SlotsAreOwned` | `Spec => []SlotOwner` |
| `OnlineLinksCounted` | `Spec => []OnlineCount` |
| `SidsReusedLate` | `Spec => []SidReuse` |
| `StaleHandlesRefused` | `Spec => []StaleHandleRefused` |
| `HeldLinksAreRead` | `Spec => []HeldLinkIsRead` |
| `AnnouncedLinksAreLive` | `Spec => []AnnouncedIsLive` |
| `EventsAreBracketed` | `Spec => []EventsBracketed` |

1. Types first, with the one fact they need, that a connection is idle exactly when its `write_msgs` is empty
   (`TypeInv`); everything later uses one conjunct of `TypeOK` at a time.
2. `SlotOwner` is not inductive. `OwnerInv` adds what a connection knows and when: `GivenInv` (a
   connection that was never accepted, or turned away, was given nothing and holds nothing; what was
   given has a sid that is not 0), and `StartInv` (between `Join` and `StartRead` the io thread carries the
   LinkID just given, and the connection does not know it yet). The double `Leave` is the case
   that needs it: the second call has the null LinkID, so it can only match a free slot 0,
   and freeing a free slot changes nothing.
3. `OnlineCount` follows from `OwnerInv`: `Join` adds one to the set of occupied slots, and `Leave`
   removes one exactly when the slot it frees had a link. The facts about cardinalities come from
   `FiniteSetTheorems`.
4. `SidReuse` needs the relation of `m_id` to the number of calls of `Join`: `SidInv` says when each connection was
   born (`BirthInv`), how old its sid is compared with `m_id` (`SidAge`) and who was given the last
   (`LastGiven`). Two connections with one sid are then MaxSid calls apart.
5. `StaleHandleRefused` combines `SidInv` with `OwnerInv`: a LinkID that resolves to another's slot has that
   connection's sid.
6. `HeldLinkIsRead` is proved from `OwnerInv`: the step that ends a read calls `Leave` with the
   connection's own LinkID, which by `SlotOwner` frees the slot it holds.
7. The event history needs `EventInv`: the LinkIDs whose last bracket in `m_queue` is open are exactly those `Expected`, the ones of the
   table, less the one `Join` has entered and `PushConnect` not announced, and with the one `Leave` has taken out and
   `PushDisconnect` not announced; and every event so far came at a place where its bracket fits (`Bracketed`). `OpenIn` speaks
   of positions, so appending an event changes one LinkID and no other.

### Service with main loop (`NetServiceProofs`, second part)

| Theorem | States |
|---|---|
| `ServiceUsesPool` | `ServiceSpec => Spec` |
| `ServiceUserCallsAreSafe` | `ServiceSpec => []UserCallsAreSafe` |
| `ServiceUsersFollowLinks` | `ServiceSpec => []UsersFollowLinks` |
| `ChangesAreUnderWay` | `ServiceSpec => []ChangesUnderWay`, the safety core of `GoneUsersLeave` |

1. A step of the service is a step of the pool or leaves it alone, the main loop's calls being calls `Application` makes
   (`ServiceType` says that every LinkID in the list or the queue was in an event). All theorems about the pool therefore
   hold of the service.
2. `UserCallsAreSafe` needs that every LinkID in the list of users came with a Connect event (`Introduced`), so its sid is not 0: it
   resolves to an occupied slot or to none, and by `SlotOwner` an occupied slot has a link (`IntroducedIsLinked`). It holds when sids are used
   again, too. A message of the queue carries an introduced LinkID or is a message stamped 0 (`IntroducedOrLate`, from the brackets of
   `EventInv`), so the answer of the main loop can only end the process on the latter.
3. `UsersFollowLinks` says what the list becomes when everything undelivered is handled, a recursive function over the queue
   (`UsersAfter`). That this function exists, and is the same after a step that hands one event over, is shown
   without induction over data: two functions that differ would differ at a least place (`WFMin` with
   `NatLessThanWellFounded`). `FollowInv` then says that, as long as nothing is lost and no sid is used twice, the final list holds each LinkID
   once and exactly those whose bracket is open. `NamesInv` is why a sid is enough for `DeleteUser`: a LinkID announced was given to a connection, and no two by
   one call of `Join`.
4. `ChangesUnderWay` reads `FollowInv` the other way round: handling the undelivered messages makes the list what is announced, and a
   message changes the list only by its own user (`DispatchListed`). So where the list and the announced links differ, one of the messages
   is the Connect, or the Disconnect, that mends it (`FinalDiffers`): no user whose connection is gone stays without a message under way.

### Queue (`MessageQueueABProofs`)

| Theorem | States |
|---|---|
| `QueueTyped` | `Spec => []TypeOK` |
| `BuffersAreOwned` | `Spec => []BuffersOwned` |
| `QueueIsLossyFifo` | `Spec => Fifo!SafeSpec`, the safety half of `ImplementsFifo` |

`OwnedByBoth` is the invariant of ownership: the large messages of the two buffers point to distinct addresses, and to all that are
allocated. `add` takes a free one, `Reset` frees those of the buffer it clears and so no other's. The refinement has one lemma for each
operation: either path of `add` is an addition to what is pending, `swap` hands the reader a batch, and `GetPackage` takes from it.

### Connection as a stream (`LinkStreamProofs`)

| Theorem | States |
|---|---|
| `StreamTyped` | `Spec => []TypeOK` |
| `WriteIsOutstanding` | `Spec => []WriteOutstanding` |
| `BacklogIsNotOverstated` | `Spec => []BacklogNotOverstated` |
| `SentAsQueued` | `~LateCopy /\ Spec => []QueueIsSentAsQueued` |
| `StreamIsChannel` | `~LateCopy /\ Spec => ChannelSafety`, the safety half of `ImplementsChannel` |
| `NoMessageIsLeft` | `~LateCopy /\ Spec => []MessagesGoOn`, the safety core of its liveness half |

1. `TypeInv` contains `WriteOutstanding`, without which `Head(write_msgs)` would not be a package.
2. `m_numofWrite` is set where the queue is empty or its first has been popped, so it is at most what the queue was then, and since then the queue
   has only grown, up to the next pop, which the bound allows for.
3. For the last two, a place is a number of messages handed over and a number of packages of the next one (`Place`), and a package
   moves from a place to the next (`Move`); a heartbeat stays where it is. `WayInv`: what is on the
   wire is a path from where the peer is; from its end the queue without what is transmitted is a path; and from there the rest of
   the current `Send` is a path to the end of what was accepted. Every step moves one package over a boundary between two paths, or
   appends a message to the last. On a broken connection only the wire is a path.
4. The peer is at a place when its `header` and `recvData` hold what the packages up to there leave (`PeerAt`). Reading the next package of a path
   takes it to the next place, and hands the message over whole if that was its last (`ReceiveInOrder`).
5. `NoMessageIsLeft` follows from `WayInv`: where no package is to be queued, waits, or is on the wire, all three paths are
   empty, so the peer's place is the end of what was accepted. `TypeInv` excludes a queue without a write.
6. `~LateCopy` is the value of the constant in run `stream`; with the other value `SentAsQueued` and `StreamIsChannel` fail, and run `stream_stack` shows how.

### Scenes and center (`TheatreProofs`)

For any number of scenes and clients, any commands and any script (`SceneAssumption`):

| Theorem | States |
|---|---|
| `TheatreTyped` | `TheatreSpec => []TheatreTypeOK` |
| `LocalViewsAgree` | `TheatreSpec => []LocalViews` |
| `SeatsAreGivenOnce` | `TheatreSpec => []SeatGivenOnce` |
| `CommandsKeepOneOrder` | `TheatreSpec => []CommandsInOneOrder` |
| `ExternalViewsAgree` | `TheatreSpec => []ExternalViews` |

1. `Roster`: a connection is in the list of its own scene, once, and never comes back; those in a list have different seats, which is where
   `ChairIsFree` is used; a player outside the list has its first values, and only VIP clients have told a seat. `MembersErase` is what `DeletePlayer` does to a list.
2. `LinkInv`: what is on its way to the center was said by that scene, and what comes from it is a command or was said by another scene (`Incoming`), so that
   a scene is never shown its own seats as another's; a scene that is up is known to the center, or its ID_Connect is the next message there.
3. `LocalViews` is inductive with `ListOfSeats`: a seat belongs to one client of those present, so the message that hides the seat of a client who leaves hides nobody else's.
4. `SeatGivenOnce` needs `GivenInv`: a player that was given is bound, or has gone (`Bound`); `DeletePlayer` clears the binding, but
   the connection cannot come back. So no player is given twice (`PlayerGivenOnce`); that two players present together have not been given with one seat is then
   `SeatsDiffer`, from the seats of `Roster`.
5. `CommandsInOneOrder` needs `FreshInv` (a command is on its way to the center once, and nobody has it before the center has handled it) and
   `RankInv`: there is one numbering of the commands that increases along every picture, every queue from the center, and from the one to the
   other. Only `CenterHandle` of a command needs a new numbering, in which that command is the last.
6. `ExternalViews` says something only of a state without messages under way, so its invariant, `ShownInv`, says what the messages under way will
   make of it. `StaleInv`: a seat that is shown elsewhere, or will be by a message under way, has its leave message behind it unless it is taken.
   `CoverInv`: a seat taken is shown to the clients who were there when their scene asked, or is in a message under way, or a request for the list
   is. Both need to know how queues begin and end: of a seat taken again the last
   word is that it is, as behind every list without it and every leave message comes what was added since, on the way to the center (`RenewedInv`)
   and, unless it is still on that way, to each other scene (`ReturnInv`); a scene that is not visible or not connected is unknown to others (`UnseenInv`), one the center does not know
   knows nothing of others (`UnheardInv`) and has still to tell its seats (`OwedInv`).
   `SceneTurns` shows that each action of a scene is one of two kinds of step, a turn that sends some messages (`Turn`, with what these may
   say) or one that passes a message on to the clients (`Passes`), and the invariant is proved once for each kind, not once for each action;
   the three kinds of message the center handles are one step as well (`Handles`).

### Video relay (`FlvRelayProofs`)

| Theorem | States |
|---|---|
| `FlvTyped` | `Spec => []TypeOK` |
| `FirstFramesDecodable` | `Spec => []FirstFrameDecodable` |
| `OnlyUserIsUpToDate` | `Spec => []OnlyUserUpToDate` |

`DecodableInv` adds to `FirstFrameDecodable` that a user who has had no frame has had no header, and still has the flag it began with (`Unframed`), and
that nobody has a header newer than the cached one (`NoneNewer`). `NoticedInv` adds to `OnlyUserUpToDate` that, as long as no other user has been
sent a frame, a user has the headers in use or their change is still to be noticed (`ChangeIsNoticed`).

### Transform timer (`SceneTimerProofs`)

For every set of clients and every size of the buffer, under
`SceneTimerAssumption` (the center and the null player are not clients, the buffer holds
at least one transform):

| Theorem | States |
|---|---|
| `TimerTyped` | `Spec => []TypeOK` |
| `TimerSendsListed` | `Spec => []CollectedAreListed` |
| `NoMoveIsLost` | `Spec => []MovesAreMarked` |
| `OneLateTransform` | `Spec => []LateAtMostOnce` |

All four follow from one inductive invariant, `TimerInv`, with a lemma for each of its parts:

1. `WaitInv`: between two runs the timer stands at the start and holds nothing. With it the iterator stays
   inside the list when a player is erased, which happens only while the timer waits.
2. `DistinctInv`: nobody is listed twice, as no connection begins twice. `Erase` keeps that (`EraseFacts`).
3. `BufferInv`: who is in the buffer is listed and not marked as new; marks are set only while the timer waits.
4. `DueInv`: only those listed are due, and the center once users are visible. The step from
   collecting to sending needs it: everybody due is then ahead of the timer.
5. `LateInv` strengthens `LateAtMostOnce`: who was sent a transform of the player leaving is behind the timer for
   as long as the timer has that player, and the player's mark, without which the timer would take it
   again, can only be set by the main loop, which is busy with its leaving.

### Client (`AsioClientProofs`)

For any number of packages, heartbeats and messages of the server, and any size of a large message (`ClientAssumption`):

| Theorem | States |
|---|---|
| `EventsMakeSense` | `Spec => []EventsTellTheStory` |
| `ClientIsChannel` | `Spec => ChannelSafety`, the safety half of `ImplementsChannel` |
| `NoPackageIsLeft` | `Spec => []PackagesGoOn`, the safety core of its liveness half |
| `IoThreadOutlivesConnection` | `Spec => []EndIsNoticed`, the safety core of `BreakIsHandled` |
| `OneHeartbeatAtATime` | `Spec => []OneHeartbeat`, the safety core of `HeartbeatAnswered` |

`TypeInv` contains that a write is under way only while there is a message in `write_msgs`. `StoryInv` relates the events to where the io
thread is (`ThreadInv`) and to the two operations: once the error of the read is reported, or about to be, nothing is read any more
(`ReadEnded`), as only a read that succeeded begins the next; once that of the write is, nothing is written any more (`WriteEnded`), as
`handle_write` leaves the message in the queue, and `do_write` begins a write only on an empty one. So neither is reported twice.
`OrderInv` is that of the verification, with the places a package passes: `sending` of its thread until it is posted, then
`posted`, `write_msgs` but for the first once it is written (`Unwritten`), and `toServer`.

`LinkInv` relates `m_bConnected`, the io thread and the two operations: a connection in use has a read outstanding on a running io
thread, one that is no longer in use is broken, and unless it is broken the queue is being written. `NoPackageIsLeft` and
`IoThreadOutlivesConnection` follow. `BeatInv` counts heartbeats at the five places of their way (the main thread's call, `posted`,
`Unwritten`, `toServer`, and the answer in `toClient`): at most one at each, at one place only, and there is one exactly while
`m_bTimeLast` is set. A step moves a package from a place to the next, and only `SwapQueue` begins a new one, when the flag is clear.

### Verification (`UserProofs`)

For every set of requests and every size of the queues but 0:

| Theorem | States |
|---|---|
| `VerifierTyped` | `Spec => []TypeOK`, the bound of the queues included |
| `NoWakeupIsLost` | `Spec => []NoLostWakeup` |
| `AnswersKeepOrder` | `Spec => ChannelSafety`, the safety half of `ImplementsChannel` |
| `VerifierNeverStuck` | `Spec => []NeverStuck`: the three threads never all wait while a request is unanswered |
| `EachStepIsProgress` | `Spec => [][WorkGoesOn]_vars`: no step undoes another |

`NoLostWakeup` is inductive as it stands. `AnswersKeepOrder` rests on `OrderInv`: what was added is what was
sent, followed by the answer being sent, `queueOut`, the answer being put, and `queueIn`. Every step but two moves a message
over one of these boundaries, which is associativity of concatenation (`GotInOrder`, `PutInOrder`); adding appends
on both sides, and sending takes the first of what is under way, which is the next the channel has to deliver.
`NeverStuck` follows from `OrderInv` and `NoLostWakeup`, from the last thread to the first: a thread that cannot go on has an empty
queue before it or a full one behind it, and then the next thread can. `Work` weighs each request by the places it has still to go
through; a step takes exactly one off. Together they are what the liveness of `ImplementsChannel` rests on, for any size of the queues; that
a step that stays possible is taken is the fairness TLC checks it under.

### Database (`UserProofs`)

For every set of users, and any number of statements, results and rows:

| Theorem | States |
|---|---|
| `LeftoversAreOwned` | `DatabaseSpec => []LeftoversHaveTheirStatement` |
| `SuccessIsTrue` | `DatabaseSpec => []SuccessIsThisUsers` |

A lemma for each operation of the connector shows that it keeps `ConnInv`, whatever its outcome. `CallInv` says what
`GetUserInfo` knows at each of its lines: the parameter is the userID before it executes, the record set is that user's while it reads
rows, and *testRec holds nothing or that user's row. SUCCESS is returned only after `CloseRecordset` without an
error, which leaves nothing pending on a connection that works (`DrainedFacts`).

### Only model-checked

- Liveness (`GoneUsersLeave`, `MovesAreShown`, `HeartbeatAnswered`, `BreakIsHandled`, the fairness halves of `ImplementsFifo` and
  `ImplementsChannel`): that what can happen does happen, under fairness, is beyond the prover. What each of them
  rests on at every single state is proved where it says something: `ChangesAreUnderWay`, `NoMoveIsLost`, `OneHeartbeatAtATime`,
  `IoThreadOutlivesConnection`, `NoPackageIsLeft`, `NoMessageIsLeft`, `VerifierNeverStuck` with `EachStepIsProgress`.
- The two violations of section 5, which are counterexamples.

## 7. What is not modelled

- `Start` and `Stop` of the service and `Stop` of the client: no server ever stops. `Start` while the
  io thread is already running is planned.
- `SetContext`, `GetContext`: no caller in the repository. Statistics and FPS counters: no effect on the rest.
- Compression of large messages: `SetBigPackage` is never asked for it.
- `Stop` of the client, and a second `Start`, which is refused for ever after the first: no program calls them.
- `OnStreamReback` and `mDelayTimer`: a measurement that is only passed on.
- The MySQL library (`mysql-connector-119`, headers only) is external: which operation may fail in which way is
  modelled as widely as the connector can observe.
- Log files, FPS timers, the configuration reader, directories: formatting, files and floating-point averages.
- What `ClientTest` displays.
- Socket operations of two threads on one asio socket at once (`Close` during a read or write) are taken as
  atomic, and memory that is exhausted is not considered.
- A chair that connects again before the Disconnect of its old connection is handled, and two chairs with one number (`ChairIsFree`): a
  seat would be announced as left while it is taken, and could be given to two capsule clients. `UpdatePlayerSeatNumber` checks neither; the
  client programs that choose the numbers are not in the repository.

## 8. Plan

Done, in this order because everything else stands on it: pool, queue, service, stream; then scenes with
the center, the video relay, and the timer of the transforms; then the client, the verification and the database.

Next, modelling: `Start` and `Stop` of the service in `NetService`, should a program begin to use them.

Proved: every invariant and action property that a run checks, the safety half of each refinement, and the safety core of
the liveness properties. A new
property comes with its theorem; what section 6 lists as only model-checked cannot be proved with these tools.

Runs are kept few: a new one replaces or extends an old one where it answers the same question.
