# A TLA+ development of the Tremulous server and client

TLA+ modules that model parts of the GrangerHub Tremulous engine and game
(`src/src/`), TLC configurations that check them on small instances, and
theorems about them that TLAPS checks for every instance. Paths below are
relative to `src/src/`.

The sources have no tests and hardly a design document, so what is *claimed* of
the program is what its comments claim. The properties quote them where they
can, with file and line.

## 1. The system

The program is an ioquake3 descendant. A **server** (`server/`) runs a level:
the game module (`game/`, loaded as bytecode or a library) moves the entities
one frame at a time, and the server sends every client the entities it sees. A
**client** (`client/`) sends the player's moves, receives snapshots, and lets
its cgame module (`cgame/`) predict and draw. Both sit on `qcommon/`: the event
loop, the file system, the virtual machine, collision, the bit packing of
messages and the **netchan**, a thin protocol over UDP. A **master server**
(`master/`) keeps the list of servers.

All of it is single threaded: the server and the client are each one loop,
reading packets, running a frame and writing packets. What is concurrent is the
two programs and the network between them, which loses, repeats, delays and
reorders datagrams. What is hard is that almost every state is kept twice, once
on each side, and each side acts on what the other side's state was a while ago.

### Components, their state, and what makes them correct

| component | state | operations | what makes it correct |
|---|---|---|---|
| netchan (`qcommon/net_chan.c`, `server/sv_net_chan.c`, `client/cl_net_chan.c`) | sequence numbers, the message being cut into fragments, the one being put together, the server's queue | transmit, transmit next fragment, process a datagram, encode and decode | a message is accepted whole and unchanged, once, in order; nothing overtakes the queue; all that is queued goes out |
| server commands (`SV_AddServerCommand`, `SV_UpdateServerCommandsToClient`, `CL_ParseCommandString`, `CL_GetServerCommand`) | a ring of 64 texts on each side, `reliableSequence`, `reliableAcknowledge`, `serverCommandSequence`, `lastExecutedServerCommand` | add, send, parse, acknowledge, execute, overflow | executed once, in order, before any later snapshot; a client that would lose one is dropped |
| levels (`SV_SpawnServer`, `SV_MapRestart_f`, `SV_SendClientGameState`, `SV_ExecuteClientMessage`) | `sv.serverId`, `sv.restartedServerId`, the client's state (`CS_FREE` to `CS_ACTIVE`), `gamestateMessageNum`, `csUpdated` | spawn, restart, send and resend a gamestate, enter the world, drop, time out | what a client does is only taken for the level it is in; a client that stays gets into the level |
| client commands and moves (`CL_AddReliableCommand`, `CL_WritePacket`, `SV_ClientCommand`, `SV_UserMove`) | the client's ring, `lastClientCommand`, the moves and the packets they went in | add, write a packet, execute, leave | executed once, in order, before any later move; a move survives the loss of `cl_packetdup` packets in a row |
| connection handshake and slots (`SV_GetChallenge`, `SV_DirectConnect`, `CL_CheckForResend`, `SV_CheckTimeouts`) | challenges, the slots' addresses and times | getchallenge, connect, reconnect, drop, time out, free | one slot per connection, none reset by a stray packet, none leaked |
| snapshot deltas (`SV_WriteSnapshotToClient`, `CL_ParseSnapshot`) | rings of frames and of entities on both sides | build, choose the base, parse | a delta is only ever applied to the base it was made from |
| downloads (`SV_WriteDownloadToClient`, `SV_NextDownload_f`) | a window of blocks | open, send, resend, acknowledge, end | the file arrives whole and in order; the window never overruns |
| votes (`G_Vote`, `G_CheckVote`, `Cmd_CallVote_f`) | per team: the caller, the counts, the times; per player the marks of what he voted | call, cast, cancel, change team or leave, pass, fail, execute | the counts are those of the players there; a vote starts clean, ends, ends early only if the rest could not change it, and is executed once |
| map rotation (`game/g_maprotation.c`) | per rotation a node, a stack of rotations to return to | advance, goto, resume, return, conditions | every walk ends, with a map; a rotation resumed goes on where it was |
| playmap queue (`game/g_playmap.c`) | a ring of maps, copied over a change of level | enqueue, replace, remove, pop, save, load | first come first served, no duplicates, no overrun, nothing lost over a level |
| level flow (`game/g_main.c`, `ExitLevel`) | `level.restarted`, the map command given | end a level: g_nextMap, the queue, the rotation or a restart | a level that ended is followed by another |
| scrims, teams and spawn queues, buildables and power, movers, administration (`game/`) | game rules | | see section 7 |
| shared containers (`game/bg_list.c`, `game/bg_alloc.c`) | lists, queues, a pool | | see section 7 |
| console and variables, master server | command buffer, latched variables; list and challenges | | see section 7 |
| engine core, virtual machines, collision, movement, combat, presentation, renderers, platform layer, vendored code | | | not modelled: input and output, geometry, code generation |

### How they interact

- The game calls the server through traps: `SV_GameSendServerCommand` adds a
  reliable command to one or all clients, `trap_DropClient` drops one. The
  server calls the game: `ClientConnect`, `ClientBegin`, `ClientThink`,
  `ClientDisconnect`, `ClientCommand`.
- A drop is one of those cycles: `SV_DropClient` prints to all clients, which
  adds a command to the client being dropped, which may overflow its ring, which
  drops it. The session model has it as one action with the recursion inside.
- Every message of the server carries an acknowledgement of the client's
  commands, all unacknowledged server commands, and a gamestate or a snapshot
  (or a block of a download). Every packet of the client carries the serverId of
  its level, acknowledgements, all unacknowledged client commands and some moves.
- `ExitLevel` asks the playmap queue, then the map rotation, for the next map,
  and gives the server a map command; until that is executed the game does
  nothing. The game module is unloaded with its level: what must outlive it is
  kept by the server (the playmap queue) or in variables (the rotations' nodes).
- A vote for a map gives a map command of its own, some time after it passed.
  Frames go on until it is executed: `G_ExecuteVote` stops them for a string that
  begins with `map` only (`g_main.c:2817`), and that of a vote begins with
  `set g_nextMap` (`g_cmds.c:2007`). Only an admin's change of map stops them.
- A download lives on both reliable command rings: every block is asked for,
  acknowledged and ended by a command of the client, and every block is a part
  of a server message that carries the acknowledgement of those commands.
- The cgame reads snapshots and commands from the client's rings when their time
  has come, later than they were parsed.

### Behaviours that are hard to test

PROJECT.json lists them as hazards, each at its line. In short: losses,
repetitions and reorderings on the network; a message that waits in a queue
while what it depends on changes; rings at their limit; a level that changes
while packets of the level before are in flight, more so when it changes again,
or restarts, before the client caught up; drops inside drops; the last message
of a connection that can not repeat it.

## 2. Modules

| module | models | proofs in |
|---|---|---|
| `NetChan` | one direction of a netchan and the datagram network | `SvNetChanProofs` |
| `SvNetChan` (extends `NetChan`) | the server's sending half: its queue and its encoding | `SvNetChanProofs` |
| `MessageChannel` | what a netchan promises: a channel that may lose messages | |
| `Session` | server commands, gamestates, snapshots, levels, restarts and drops between the server and one client | `SessionProofs` |
| `ReliableCommands` | what reliable commands promise, in either direction | |
| `ClientCommands` | commands and moves from the client to the server, and the disconnect | `ClientCommandsProofs` |
| `Connection` | challenges, the connect handshake, slots, reconnects, drops and timeouts | `ConnectionProofs` |
| `Downloads` | paks over the game connection: the window of blocks and the client's commands | `DownloadsProofs` |
| `Snapshots` | the deltas of snapshots and the four rings they depend on | `SnapshotsProofs` |
| `Votes` | votes of all and of a team | `VotesProofs` |
| `MapRotation` | the walk of the map rotations | `LevelFlowProofs` |
| `PlayMapQueue` | the ring of maps the players asked for | `LevelFlowProofs` |
| `PlayList` | what that ring promises: a plain list | |
| `LevelFlow` (extends `MapRotation` and `PlayMapQueue`) | `ExitLevel`: how one level follows another | `LevelFlowProofs` |

The layers fit onto each other by refinement. `SvNetChan` implements
`MessageChannel` (property `KeepsPromise`, proved). `Session` and
`ClientCommands` start from what `MessageChannel` says, a sequence of messages
that may lose any element, and each implements `ReliableCommands` (property
`KeepsPromise`, proved for both). `Downloads` and `Snapshots` start from the
same place: a sequence of messages that may lose any element and is never
overtaken; for `Downloads`, from commands that are executed once and in order as
well. `LevelFlow` with its queue implements `PlayList` (property `KeepsPromise`,
proved).

A definition named `X_Variant`, right before `X`, is a mutant of `X`: the
comment says which mistake in the code it is. It is used by nothing.

### NetChan and SvNetChan

`NetChan` has the fields of `netchan_t` under their names, for one direction:
`outgoingSequence`, `unsentFragments`, `unsentFragmentStart`, `unsentBuffer`
at the sender, `incomingSequence`, `fragmentSequence`, `fragmentBuffer` at the
receiver. `packets` is the network: the set of all datagrams ever sent, from
which the receiver reads any at any time. So a datagram may be lost, read many
times and overtaken. `transmitted` and `received` are histories.
`Netchan_Transmit`, `Netchan_TransmitNextFragment` and `Netchan_Process` are
the functions of the same names; the last is split by its early returns into
`ProcessWhole`, `DropFragment` and `CollectFragment`.

`SvNetChan` adds `netchan_queue` and the key of the alternate protocols.
`SV_Netchan_Transmit(m)` is the function called for any message the server
builds, `SV_Netchan_TransmitNextFragment` what `SV_SendQueuedPackets` calls each
frame, with `SV_Netchan_TransmitNextInQueue` inside. A message is encoded with
the number and the command current at that moment, so the model keeps these two
as the key rather than the bytes. A message is a sequence of bytes of no
meaning; the checksum is left out, as it only tells connections apart.

### Session

Variables: `sv` is the server's level, `cl` its `client_t`, `clc` the client's
connection (with the `serverId` that `clientActive_t` keeps), `cg` the
snapshots held for the cgame, `toClient` and `toServer` the messages in flight,
`executed` the history of commands executed.

A ring slot and a message hold the *number* of the command whose text is there,
so that "the text is the right one" can be said at all. Whether a packet was
sent after a gamestate (`cl->messageAcknowledge > cl->gamestateMessageNum`) is
a flag `later` on the messages, cleared when a gamestate is sent: it is the only
use of message numbers in the session.

| action | code |
|---|---|
| `SV_SendServerCommand` | the game's trap; `SV_AddServerCommand` with its overflow and its drop |
| `SV_SpawnServer` | a new level: every client back to `CS_CONNECTED` |
| `SV_MapRestart_f` | a restart: `map_restart` command, the game's `ClientConnect` may refuse, else the client enters the world at once; one that was not in the level yet is noted in the history `unheard` |
| `UpdateSystemInfo` | the start of `SV_Frame`, where a changed systeminfo becomes a configstring |
| `SV_SendClientSnapshot` | the end of `SV_Frame` |
| `DropClient` | a kick, or the client's own disconnect: `SV_DropClient` |
| `SV_CheckTimeouts` | a zombie freed, a silent client dropped and freed |
| `SV_PacketEvent` | `SV_ExecuteClientMessage`: acknowledgement out of range, wrong serverId (ignored, or the gamestate is sent again), else moves, the first of which lets the client enter |
| `CL_WritePacket(move)` | a packet with the client's serverId and acknowledgement, with or without moves |
| `CL_ParseServerMessage` | commands into the ring, then a gamestate or a snapshot |
| `CG_SetInitialSnapshot`, `CG_SetNextSnap`, `CG_TransitionSnapshot` | the cgame taking snapshots and executing the commands up to them (`CL_GetServerCommand`) |
| `CL_Disconnect` | the user leaves |
| `Lose` | the network |

### ClientCommands

A session within one level, seen from the client: `clc` its ring and
acknowledgement, `cmds` the moves made, `outPackets` how many there were at the
last `cl_packetdup + 1` packets, `added` the commands added; `cl` the server's
side; `executed` and `thought` what the server executed. A packet carries its
first command and the commands from there on, and a range of moves. `LosePacket`
tells the packet behind how many were lost in a row, which is what the
properties about moves depend on.

| action | code |
|---|---|
| `CL_AddReliableCommand` | a command that finds room |
| `CL_CreateNewCommands` | a move, at the same time as the last one or later |
| `CL_WritePacket` | all unacknowledged commands, and the moves of the last packets, at most `MAX_PACKET_USERCMDS` |
| `CL_Disconnect` | the disconnect command, into a full ring too, three packets, and the connection is wiped |
| `CL_ParseServerMessage` | the acknowledgement in a message |
| `SV_SendMessage` | any message to the client |
| `SV_DropClient` | a kick or a timeout |
| `SV_PacketEvent` | `SV_ExecuteClientMessage`: the commands (`SV_ClientCommand`), a disconnect among them, then the moves (`SV_UserMove`) |
| `Lose` | the network |

### Connection

`slots` is `svs.clients`, `challenges` is `svs.challenges`, `game` says in which
slots the game has a player, `clc` is the clients' side, `address` what a
client's router makes of its address. `network` is a set of datagrams that may
be read any number of times, each for `Lifetime` ticks after it was sent; those
of a connection that stands (packets and messages) come all the time, so they
are steps that take effect at once or, being lost, not at all. Times are ages in
ticks of about a second, which stop counting where no comparison tells them
apart any more.

| action | code |
|---|---|
| `CL_Connect_f`, `CL_Disconnect`, `Restart` | the user connects, leaves, or the program ends without a word |
| `CL_CheckForResend` | getchallenge or connect again, every `RETRANSMIT_TIMEOUT` |
| `ClientReceives` | `CL_ConnectionlessPacket`: challengeResponse (of the right challenge), connectResponse, print |
| `CL_WritePacket` | a packet of the connection, with `SV_PacketEvent` at the server: the slot of the same IP and qport, whose port is corrected |
| `SV_SendClientMessage` | a message of the connection |
| `ServerReceives` | `SV_GetChallenge`, `SV_DirectConnect` (quick reject, challenge, reuse of a slot, reserved slots, no slot, the game's refusal), a disconnect |
| `KickClient`, `SV_CheckTimeout` | `SV_DropClient`; a zombie freed, a silent client dropped |
| `Tick`, `Translate` | time, and a router that moves a port |

### Downloads and Snapshots

`Downloads`: `s` is the server (its level, and the download in its `client_t`:
`downloadClientBlock`, `downloadCurrentBlock`, `downloadXmitBlock` and the slots
of the window), `c` the client (its state, the list of paks still to get, the
file being written). `SV_WriteDownloadToClient` opens, fills the window and
writes or repeats one block; `RefuseDownload` is its branch for a file that is
not sent; `ServerReceives` executes the commands of a packet (`download`,
`nextdl`, `stopdl`, `donedl`) with the checks of `SV_ExecuteClientMessage`
around them; `ClientReceives` reads a gamestate, a block or a snapshot.
`SV_SpawnServer` changes the level in the middle of it all. A block that is read
with the wrong layout (a repeated block 0, or one nobody asked for) makes the
rest of the message garbage; `Garbled` lets it have either effect the code can
come to: the message is passed over or the client drops. Two things are kept as
history, for the properties: `mixed`, the files of which the client took a block
for one of another file, and in each command the file the client was downloading
when it gave it.

`Snapshots`: `cl.frames` and `svs.snapshotEntities` at the server,
`client.snapshots` and `client.parseEntities` at the client, and `sent`, the
history of what each snapshot showed. `SV_SendClientSnapshot` builds a frame,
chooses its base (`HasBase`) and writes the differences; `OtherSnapshot` is
another client's snapshot, which takes room in the same ring; `SV_UserMove`
takes an acknowledgement; `CL_ParseSnapshot` checks the base (`IsUsable`) and
applies the differences. A difference applied to another version of an entity
than it was made from gives `Garbled`.

### Votes

`tally[t]` is the vote of a team or of all: `voteTime` and `voteExecuteTime` as
an age and a time left, counts, caller, kind. `clients[p]` has the player's
team, his marks (`pers.voted`, `pers.votedYes`) and how long he has not moved.
`Frame` is `G_CheckVote` for every team: what is due is executed, a vote that is
over or decided passes or fails. Players connect, begin, change team, leave,
move, call, cast and cancel (`Cmd_CallVote_f`, `Cmd_Vote_f`, `CancelVote`); an
admin ends a vote (`G_admin_endvote`) or gives a map command
(`G_admin_changemap`, which stands for a layout's and a scrim's as well), and
frames stop (`restarted`) until it is executed; levels end and begin
(`BeginIntermission`, `NewLevel`). Who was there connects again, to the team he
is to be on after the restart (`restartTeam`). `due` and `rejoined` are
histories.

### MapRotation, PlayMapQueue and LevelFlow

`MapRotation`: a walk is a place `at` that moves one node a step
(`G_StepMapRotation`), as each of the functions that call each other does
nothing after the call. The rotations are a file chosen at the start; a
condition may be either true or false when it is looked at. The operator may name
a rotation that does not exist, which clears the stack of those to return to all
the same; a level that begins with no rotation takes that of
`g_initialMapRotation`, if there is one (`G_InitMapRotations`). `PlayMapQueue` has
the ring with its head and tail, the arithmetic of C's remainder with it, and
its copy in the server over a change of level. `LevelFlow` joins them:
`ExitLevel` is the end of a level, `NewLevel` the execution of the map command,
`Svcmd` the operator's, `PlayersAct` the players'. While `g_playMapEnable` is off
a level ends as if the queue were empty, and the queue waits (`NoPlayMap`).

`PlayList` says what the ring promises without saying how: a step adds a map at
the end, forgets those who are gone, or plays the first, and what is left of the
list comes from it in its order (`IsLeft`). `PlayedInTurn` is about rotations
that are entered and left by `resume` and `return` only (`Orderly`). One that any
rotation starts with `goto`, itself included, starts over (`G_StartMapRotation`
resets its node), and one that jumps to its own labels or maps has no turn to
keep.

## 3. Runs

A *passing* run checks properties that hold. The *violation* run checks one
sentence of the source that does not.

| run | bounds | distinct states | what it shows |
|---|---|---|---|
| `sv_netchan` | 2 bytes to a fragment, messages of 1, 2 and 5 bytes, 4 messages | 78,605 | reassembly, order, the queue, and that everything queued goes out, over a network that loses, repeats and reorders |
| `session` | a ring of 2, 3 commands of the game (and the server's own), 1 snapshot behind the two the cgame has taken, 1 message each way, 3 serverIds, 1 restart of each level | 3,966,225 | the inductive invariant, order of the commands, commands before snapshots, no packet of another level taken for one of the server's, refinement |
| `session_fair` | a ring of 1, 2 commands, 3 levels, no restarts | 213,961 | an overflow is final, a client that stays gets in, commands are delivered |
| `client_commands` | a ring of 2, 3 commands, 3 packets | 167,834 | no gap at the server, the disconnect is heard, refinement, delivery |
| `client_moves` | 3 moves, 2 to a packet, `cl_packetdup` 1, 1 command | 2,416,791 | moves once, in order, after their commands, and all of them unless two packets in a row are lost |
| `connection` | 2 clients of 2 addresses, one with the password, 2 slots of which 1 reserved, 2 challenges, 1 connect each | 650,855 | the game has a player where the server has a client; a connection that stands is not set up again |
| `connection_fair` | 1 client, 2 ports, 1 qport, 2 slots, 2 challenges, 2 connects, 2 moves of its port | 306,485 | never two slots, the same challenge on both sides, and a client that keeps asking gets in or is told |
| `downloads` | paks of 1, 3 and 1 blocks, the last refused, 2 levels of 2 paks, a window of 2, a ring of 6 commands, 2 messages each way, 3 losses | 300,058 | what is written is what was asked for, nobody is dropped for a broken download, acknowledgements that wait fit the window, downloads end |
| `downloads_loads` | 1 pak of 1 block, 1 level, 2 losses | | `Loads` fails |
| `snapshots` | rings of 6 frames, of 5 entities at the server and of 12 at the client, 2 entities, 8 snapshots, 2 entities of others | 1,616,628 | every snapshot the game can ask for is the one that was built; no delta the client cannot use |
| `votes` | 2 players, all and one team, three kinds of vote, a vote of 2 frames, 1 player who comes back | 318,490 | counts, a clean start, execution, early decisions, and that every vote ends |
| `levels` | 3 files of 2 rotations, 3 maps, a warning after 3 steps and an end after 6, a stack of 2, a ring of 3, 2 players and the operator | 612,988 | another level follows, rotations are played in turn, the ring implements a list |

Every module that has state has a type invariant, `TypeOK`. It is proved in
each, and was checked with the same instances, but is no property of a run, as
it says little about the code. So is `LevelInv` of `Session`, which
serves the proof of `OwnLevel`: proved, and checked once with the same instance.

### Bounds, and why they are enough

- *A fragment of 2 bytes.* The messages are one that fits a datagram, one of
  exactly a fragment (the empty last fragment) and one of two full fragments
  and a short one. Two fragmented messages in a row can be mixed, and a third
  message can wait behind them. The bytes differ, so that any mixing shows.
- *A ring of 1 or 2 commands*, with one command more than fits plus the three or
  four the server adds by itself: every slot is reused, the ring is full with
  and without an acknowledgement in flight, and overflows happen.
- *One message in flight each way (`Session`).* Sending into a full channel
  loses the oldest message, so any message may still be overtaken by a later
  one and any suffix of a conversation lost; what is lost is two messages of
  one direction arriving one after the other with no step of the other side in
  between, which the ordering invariant (`MessageInv`, proved for every
  capacity) covers. `ClientCommands` uses three packets, the length of a
  disconnect, or two.
- *Three serverIds, one restart*: a level, the next, and a restart of it, in
  either order, with the client still in the first. Another
  instance passed once as well: four serverIds, and 1 command of the game but 2
  snapshots (5,356,928 states).
- *`cl_packetdup` 1* with losses of one packet (survived) and of two (not).

- *Two clients with own addresses, or one whose address changes
  (`Connection`).* Two compete for one open slot and two challenges, so that
  slots and challenges are taken over; one with two ports and two connects meets
  its own late packets and its own old slot, from the port it has and from the
  one it had. Two other instances passed once as well: two qports with one move
  (470,822 states), and three connects with one qport (11,554,338, safety only).
  The ticks keep the
  order of the code's limits: `RETRANSMIT_TIMEOUT` and `sv_reconnectlimit` are 3
  (seconds, in the code), `sv_timeout` is at least `sv_zombietime`, a
  datagram lives no longer than `sv_zombietime`, and twice its life is less than
  `sv_reconnectlimit`. These relations are assumptions about the network:
  `SameChallenge` and `NotReset` need them, as only time tells the server a late
  connect from a new one.
- *A window of 2 blocks and a file of 3 (`Downloads`)*: the window fills, wraps
  and is sent again, the last blocks with the empty one; two small files one
  after the other share the indices of their blocks; a level change finds a
  download at every stage. Three losses suffice to lose a block, its repetition
  and an acknowledgement. Other instances passed once as well, for safety:
  three messages in flight (579,072 states), no refused pak (2,866,322), a
  window of 3 with files of 2 and 3 blocks in either order (687,976 and 522,007),
  where two blocks of a file are taken for those of the next, and three levels
  with no short file and one loss (2,767,490), there with the inductive invariant
  as well.
- *Rings of 6, 5 and 12 (`Snapshots`)*. The code's guard against a base that is
  about to fall out of the ring takes three frames off `PACKET_BACKUP`, and 6 is
  a ring in which a base just in and one just out of that range both happen
  before the eight snapshots are over. The server's ring of 5 entities turns
  twice, and other clients use it up between two snapshots.
- *Two players (`Votes`)* decide, tie, outvote each other and leave each other
  alone; a vote of two frames has one frame in which it may end early. Three
  players with a vote of one frame were checked for safety (3,913,812 states).
- *Files of two rotations (`LevelFlow`)* that have every kind of jump, jumps
  in both directions, a jump without end with its map near and one with its map
  too far. All 1,552 files of at most three nodes of a small alphabet were
  checked once without the queue (911,360 states), and a ring of 4 (834,064).

The theorems do not depend on any of these bounds.

`CHECK_DEADLOCK FALSE` in the runs of the client's and server's sessions: they
have bounds on what the programs add, after which they may stop, and a client
that has left a server that has freed its slot has really ended. `votes` and
`levels` never stop, and there deadlock is checked.

### Fairness

- `SvNetChan`: weak fairness of `SV_Netchan_TransmitNextFragment`.
  `SV_SendQueuedPackets` looks at every client each frame.
- `Session`: weak fairness of the server's frame (`UpdateSystemInfo`,
  `SV_SendClientSnapshot`) and the client's (`CL_WritePacket` with moves once it
  is in a level, the cgame's steps), which the two main loops repeat for as long
  as they run. Strong fairness of receiving: of the packets with moves, of those
  without, of gamestates and of snapshots, each of which is sent again and again,
  the network delivers some. None of the actions of players or operators
  (commands, levels, restarts, drops) is fair.
- `ClientCommands`: weak fairness of `CL_WritePacket` and `SV_SendMessage`,
  strong fairness of both receptions.
- `Connection`: weak fairness of `Tick` (time goes on) and of the client's
  `CL_CheckForResend`, which its frame calls; strong fairness of receiving on
  both sides: what is sent again and again arrives at times.
- `Downloads`: weak fairness of what both frames send (`SV_SendClientSnapshot`,
  `SV_WriteDownloadToClient`, `CL_WritePacket`) and of taking the oldest message,
  be it read or lost. Only `MaxLosses` messages are lost; that is the assumption
  about the network.
- `Votes`: weak fairness of `Frame`, and of `NewLevel` once an admin has given a
  map command, which the server executes before its next frame.
- `LevelFlow`: weak fairness of a walk's next step, as a walk is one call, and of
  the execution of a map command. No level has to end.

## 4. What does not hold

One disagreement with a comment is a run of its own and a finding of
PROJECT.json, `downloads_loads`. After its downloads a client says `donedl` and
waits for the gamestate that answers it. If that one message is lost the client
waits for ever: the server asks whether a client lost its gamestate only of
packets with another serverId, and this client has the right one.
`sv_client.c:1760` says "if we can tell that the client has dropped the last
gamestate we sent them, resend it".

Other claims were found not to hold, and are known exceptions. Where a
definition states one it stays in its module, with a comment, but no run has it;
where a run needs the exception left out, its property names it. Those of
`Session` with a map_restart were found with a ring of 1 or 2, at most one
command of the game, one restart and two or three serverIds; their cause is that
`SV_MapRestart_f` lets every client in at once, whether or not the server has
heard of it since the level changed or has just dropped it.

| where | exception |
|---|---|
| `SvNetChan`, `Readable` | a message that waited in the queue goes out without having been encoded, though "the message will be encoded and sent later" (`sv_net_chan.c:226`); only the alternate protocols encode |
| `Session`, `EveryOwnLevel` | a level changes, and is restarted before the server next hears from a client. It is made active (`sv_ccmds.c:229`) without having been sent the level's gamestate, is told the new serverId, and its packets pass for packets of the level, though "if this is a usercmd from a previous gamestate, ignore it or retransmit the current gamestate" (`sv_client.c:1742`). `OwnLevel` says that there are no others |
| `Session`, `OverflowDrops` with a map_restart | the `map_restart` command overflows a client's ring: `SV_AddServerCommand` drops the client ("we must drop the connection", `sv_main.c:153`), and `SV_MapRestart_f` makes it active all the same (`sv_ccmds.c:210`) |
| `Session`, `GetsIntoLevel` with a map_restart | a gamestate sent between a map_restart and the next frame has the serverId before the restart; the client's packets are ignored as "they just haven't caught the map_restart yet" (`sv_client.c:1756`), and the update that would let it catch up waits for one of them |
| `Session`, `DroppedOnce` | dropping a client with a full ring drops it again from within, in spite of the `==` meant to prevent it (`sv_main.c:155`) |
| `Session`, `MoveKeysAgree` | with a full ring the slot of the last acknowledged command holds a later one already, and moves are decoded with another key (`sv_client.c:1498`) |
| `ClientCommands`, `SlotForDisconnect` | ordinary commands fill every slot, so the disconnect takes one that is still needed (`cl_main.c:603`) |
| `Connection`, `NotReset` with a shared address | of two clients behind one router the one with the other's UDP port or qport takes its slot over (`sv_client.c:188`), though they "are differentiated by the qport variable" (`sv_main.c:1017`) |
| `Connection`, `OneSlotEach` with two qports | a client that comes back with another qport after its port moved may have two slots with that qport: the loop takes the first slot that matches by the port *or* by the qport (`sv_client.c:188`) |
| `Downloads`, `mixed` and `Garbled` | block 0 has a size that other blocks have not: when it is repeated after block 1, or comes when no file is asked for, the rest of the message is misread; sent again after a file smaller than the window ended, it and the blocks behind it may be taken for those of the next (`cl_parse.c:577`); `Intact` says that nothing else makes a file wrong |
| `Downloads`, `Unbroken` with a third level | a client asks for a pak, gets into a level that needs none (and says `donedl`) and into one that needs the pak (and asks anew) before the server hears of any of it; the answer to the `donedl` makes it ask once more just before the first block arrives, that request restarts the window after the first acknowledgement, and the next one is out of turn: the client is dropped for a "broken download" (`sv_client.c:723`). Found on a pak of two blocks and the levels `<<1>>`, `<<>>`, `<<1>>`, without a loss; `Unbroken` says it takes two changes of level |
| `Downloads`, `Refused` | the refusal of a file is sent once; if it is lost the client waits (`sv_client.c:793`) |
| `Votes`, `rejoined` | a player who voted, leaves the team, comes back and leaves again has his vote taken back twice (`g_main.c:2758`) |
| `Votes`, `CancelVote` | the caller is a slot: who connects into it next may cancel the vote (`g_cmds.c:1751`) |
| `LevelFlow`, `MapsNear` | a walk that meets no map in time is given up, and the level that ended stays frozen (`g_maprotation.c:1025`) |
| not modelled | the current nodes of the rotations are read back into a buffer of 32 characters (`g_maprotation.c:791`), too short for many rotations |

## 5. Proofs

The proofs are hierarchical and use Z3, Zenon and LS4. All are for every value
of the constants that meets the assumptions: a positive size of ring, fragment
and packet, `cl_packetdup` in 0..5 (the range its code clamps it to), natural
bounds, any number of clients, slots and challenges, and any finite number of
players with any teams and kinds of vote; of `Snapshots` the sizes of the rings,
in the proportions the code gives them; of `Downloads` any paks, each of a block
at least, any levels that name a pak at most once, any refusals, window, ring and
number of losses; of `LevelFlow` any files of rotations that
`G_ParseMapRotationFile` accepts (`FileAssumption`), any depths, stack and ring,
and a pool of maps that exist (`PoolAssumption`; `g_playmap.c:396` and
`g_admin.c:4159` look with `G_MapExists`).

Some theorems assume more. `ConnectionOneSlot`, `ConnectionSameChallenge` and
`ConnectionNotReset` assume one qport, that is, clients that keep theirs. The last
two assume besides that clients have IP addresses of their own, and that a
datagram lives no longer than `sv_zombietime` and `sv_timeout` and less than
`sv_reconnectlimit`, for `ConnectionNotReset` less than half of it. The code's
defaults are 2 s, 200 s and 3 s, so a datagram may take a second; with a shared
address or an older datagram the properties are false, as section 4 says of the
one and the quick reject (`sv_client.c:182`) explains of the other.
`SessionOverflowDrops` assumes that there is no map_restart (`MaxRestarts = 0`):
with one it is false, as section 4 says.

| theorem | says |
|---|---|
| `SvTypeCorrect`, `SvReassembly` | types and the inductive invariant of the netchan with its queue |
| `SvIntegrity`, `SvInOrder`, `SvQueueKeepsOrder` | messages are accepted as transmitted, once, in order; the queue keeps its order |
| `SvCompletable` | a message whose fragments were all sent can be put together, so no message ends in a full fragment |
| `SvKeepsPromise` | `SvNetChan` implements `MessageChannel` |
| `SessionTypeCorrect`, `SessionInvariant` | types and the inductive invariant of the session |
| `SessionInOrder`, `SessionCommandsBeforeSnapshot` | server commands once, in order, before later snapshots |
| `SessionLevelInvariant` | the inductive invariant of serverIds and levels, through any changes and restarts |
| `SessionOwnLevel` | no packet of another level passes for one of the server's, unless a map_restart let the client in before the server heard of it |
| `SessionOverflowDrops` | without map_restarts: an overflow of the ring is the end of the connection |
| `SessionKeepsPromise` | `Session` implements `ReliableCommands` |
| `ClientCommandsTypeCorrect`, `ClientCommandsInvariant` | types and the inductive invariant of the client's commands |
| `ClientNothingLost`, `ClientCommandsBeforeMoves` | no gap at the server; commands before later moves |
| `ClientMovesInOrder` | a move is executed once, and after those before it |
| `ClientMovesMade` | all moves are executed while no more than `cl_packetdup` packets in a row are lost and none was clipped |
| `ClientDisconnectHeard` | the server learns of the disconnect unless the last three packets are lost |
| `ClientKeepsPromise` | `ClientCommands` implements `ReliableCommands` |
| `SnapshotsTypeCorrect`, `SnapshotsInvariant` | types and the inductive invariant of the four rings |
| `SnapshotsExact` | what the client's game can ask for is what the server built |
| `SnapshotsUsable` | no difference from a snapshot the client cannot use |
| `ConnectionTypeCorrect` | types of slots, challenges, connections and datagrams |
| `ConnectionGameAgrees` | the game has a player in exactly the slots that have one |
| `ConnectionOneSlot` | clients that keep the same qport have at most one slot each |
| `ConnectionSameChallenge` | a connection that stands has the same challenge on both sides |
| `ConnectionNotReset` | no late or repeated connect packet sets up a connection that stands again |
| `DownloadsTypeCorrect`, `DownloadsInvariant` | types and the inductive invariant of the downloads |
| `DownloadsIntact` | what is written is the file that was asked for, block after block, unless there is a file shorter than the window |
| `DownloadsUnbroken` | no loss and no single change of level makes the server drop a client for a broken download |
| `DownloadsRoomForCommands` | no more acknowledgements wait than the window has blocks |
| `VotesTypeCorrect`, `VotesInvariant` | types and the inductive invariant of the votes |
| `VotesCountsRight`, `VotesFreshStart` | counts are those of the players there; a vote starts clean |
| `VotesExecutedAsPassed` | what passed is done once, as what it passed as |
| `VotesDecidedForAll` | a vote ends early only if the rest could not change it |
| `LevelTypeCorrect`, `LevelInvariant` | types and the inductive invariant of rotations and queue |
| `LevelPlayedInTurn` | the maps of an orderly rotation are played in turn |
| `LevelKeepsPromise` | `LevelFlow` with its ring of maps implements `PlayList` |

### The inductive invariants

*Netchan.* `Integrity` speaks of what was accepted; it is not inductive, since
a bad fragment would only show when the message is complete. `ReassemblyInv`
adds that the number of the message being sent is used for that message only
(`SenderInv`), that every datagram, wherever it is, is the piece it says of the
message of its number (`PacketInv`), and that the receiver holds a prefix of the
message of `fragmentSequence` (`ReceiverInv`). The step that matters is
`CollectFragment`: the fragment fits if it starts where the buffer ends, so
prefix plus piece is a longer prefix, and a fragment that is not full is the end.
For the refinement the abstract channel's pending messages are those after
`incomingSequence` and the queue. `Completable` needs the invariant `SendingInv`
besides: while fragments are left, the next starts behind a number of full ones
that were all sent. A last fragment that is full would never be followed by the
short one a receiver waits for, which is why the code sends an empty one.

*Session.* `InOrder` needs that every slot the client reads holds the command it
should. `SessionInv` says that of the server's ring for the last M commands
(`RingInv`), of every message in flight (`MessageFits`: it goes on to the last
command when it was built, and starts no later than the client's next), of the
client's ring (`ClientInv`), and that snapshots and packets in flight are
ordered, so that an acknowledgement never goes back. The central step is an
acknowledgement: it takes commands out of the ring only if the client has them,
because packets never acknowledge more than `serverCommandSequence`, and `Stale`
is true of none of them until an overflow. Everything is stated up to the
overflow of the ring; from then on the server has given the client up.

`OwnLevel` compares numbers that move separately. A restart takes the serverId
on and leaves the level, the systeminfo says so a frame later and reaches a
client as a command, or in a gamestate with the old or the new number; all the
while gamestates, commands and packets of levels before may be under way.
`LevelInv` says that a serverId from the level's first on
(`restartedServerId`) is known only where the level is: a message that names one
is a gamestate of that level (`GameStatesOK`), a client that has one has loaded
it (`LevelsOK`), and so has the sender of a packet (`PacketsOK`). A client that
has not is not active, and no systeminfo command issued to it names a serverId of
the level, whence it can learn none. To be inductive it also says that the
levels of gamestates go up along the channel and from the client to it, so that a
client that loaded the level never goes back to one before. The exception,
`unheard`, is the last level a map_restart let the client into while the server
had not heard of it there; it ends with the next level. `OverflowDrops` rests on
`QuietInv`: without restarts the systeminfo does not change within a level, so
nothing lets a client in but its own moves, and one whose ring overflowed is a
zombie or gone.

*ClientCommands.* `NothingLost` needs the same chain in the other direction:
the ring holds what is unacknowledged while the client is connected (`RingInv`),
acknowledgements never exceed what was executed and never go back
(`AcknowledgeInv`), so the first command of a packet is at most the server's
next (`PacketFits`), and the last one is the last that was added when it was
built. `CommandsBeforeMoves` follows as the moves of a packet were made no later
than the packet, and the server executes the packet's commands first.
`MovesMade` is about packets that were lost, of which the model keeps nothing.
The invariant therefore speaks of the line of all packets sent (`Positions`,
with `upTo[m]` the moves made when packet m was sent and `at[i]` the place of
packet i in flight) and says that such a line exists: the packets in flight are
on it in order, those between two of them are the ones counted as lost, and the
client's ring of packets remembers the last of it (`Remembers`). A packet holds
the moves since the packet `cl_packetdup` + 1 before it, so it goes on where the
last one that arrived ended (`Followed`). What follows a disconnect on the line
is another of its packets (`Left`).

*Snapshots.* A snapshot is written as the difference from a base both sides
should have, and both keep their snapshots and the entities of them in rings.
`SnapshotsInv` says that a frame of the server, a message in flight and a
snapshot of the client hold the entities sent under their number, unless the
ring they are in has come round since; and that the base the server takes is
younger than the client's ring, by the three snapshots the code keeps as a
margin, so that what the client has parsed since takes no more than the rest of
its ring of entities. The lemmas about `WriteEntities` and `ParseEntities`
(`DifferenceApplies`, `ParsesAll`) say that reading a difference gives back what
was written, for any two sorted lists of entities.

*Downloads.* The client's commands are the thread: at its n-th command it was
downloading the file `Asked(q, n)` and had acknowledged `Acked(q, n)` of its
blocks, and `CommandFits` says which command may follow which. The server stands
at the last command it executed, and every message and packet in flight at the
one it was made after; the invariant `Good` says what each knows of the client
from there.
The file of a block in flight was asked for then, and is the client's still or is
complete (`Since`); the server's window holds the blocks from `clientBlock` on of
the file it sends (`WindowFits`) and is no further than acknowledgements the
client can have given (`Kept`), also those the server has not seen
(`PendingFits`). What makes the proof long is what happens when the client has
ended a file and the server has not heard of it: it sends the last blocks again,
whose indices are those of the first blocks of a short file asked for next. If no
file is shorter than the window the blocks that come late are all numbered above
0 (`Late`), no later file takes them, and `OwnFits` shows that the block the
client waits for is the right one. If there is a short file, the client may take a
wrong block; `mixed` says so from then on, and `Inv` asks for nothing more than
the types. A level change may reach the client in the middle of a file only when
nothing is acknowledged any more and the server takes no packets of the old level
(`GamestateFits`, `PacketFits`, `Idle`), which is why one change does not break a
download and two may. `RoomForCommands` follows from what the invariant says of a
block in flight: it is less than a window ahead of the acknowledgements the server
had seen when it was sent, so that the acknowledgements since then have different
indices from a range as long as the window.

*Connection.* `GameAgrees` is inductive with the types: every action that changes
the state of a slot tells the game in the same step. `OneSlotEach` is inductive
with the types when there is one qport, for then the slots that match a connect
packet (`SameClient`) are exactly those of its address, and moving the port of a
slot makes no second one: a new slot is taken only if none matches.
`SameChallenge` and `NotReset` take two observations. Challenges are numbered in
the order they are issued, and `Handshake` says that a client has the latest of
those that are in use for it, in its slot, in a connect packet or in an answer; a
challenge it may still take up is later than all of them. And what is late is
late by a bounded time: `Expiry` adds the ticks a datagram has left to the age of
the slot, which tick in opposite directions, so that a connect packet of an
earlier challenge is gone once the quick reject of its slot ends, and an answer
of an earlier slot is gone with the zombie. `Agreement` is what follows from the
two: once the client is answered its slot has its challenge, and while an earlier
connect packet is under way the slot is there to turn it away. For `NotReset` the
connect packets count twice a life, as a client sends the last of them just
before the answer to the first arrives. `HeardSince` keeps the timeout from
taking a slot that young.

*Votes.* `VotesInv` says, of each vote that runs and to which nobody came back,
that its counts are the cardinalities of the sets of players there who said yes
and no (`Counted`); of one that does not run, that its counts are zero and
nobody is marked (`Fresh`), until the intermission, when `G_ClearVotes` leaves
both; that the number of voters is that of the players there (`Numbered`); that
what waits to be executed has its kind and excludes a running vote (`Waits`);
and that a player who is not in the game yet has no marks and has not moved
(`Newcomer`, in `ClientsInv`); he may be on a team already. The last is needed
because a vote of all also counts players who are still connecting, and those it
is decided by are the ones who voted or moved. A step
adds a player to these sets or takes one out, and the count goes by one with
them. `DecidedForAll` follows from `Counted` and `Numbered`: before its time a
vote is over only when all have voted (`SaidApart`), and then those it is decided
by are all who are there (`AllVoted`).

*Level flow.* `InTurn` says of an orderly rotation that between the map it played
last and the node it is left at there is no map, nor up to the walk while that is
in it. Every step out of a node moves both by one (`Left`, `NextNode`), a jump
leaves from a node that is no map, and late in a walk only nodes that are no maps
are passed over; coming round the end of the rotation is arithmetic of remainders
(`AheadFacts`). Of the queue, `Ring` says that the
head is at slot 0 or 1: every level builds the ring anew from 0, and between two
levels at most one map is taken. So nothing ever wraps, and the places in use are
those from head to tail. It has to be so: of a ring that wrapped,
`G_GetPlayMapQueueLength` takes the remainder of a negative number
(`g_playmap.c:834`), which in C is not positive. `OneEach` says that no map and no owner is there twice;
without it the reload, which adds one entry after the other and replaces the
owner's earlier one, would lose maps. The loops that validate and reload the
queue are folds, and their invariants (`Looked`: what was looked at so far is what
is left of that part of the list) are shown for all numbers of steps by the
smallest number at which they would fail (`SetInduction`). For the refinement the
list is `Queued(queue)`, and the places kept are the witness of `IsLeft`.

A lemma per action (`AddStep`, `WriteStep`, `PacketEventStep`, ...) shows the
invariant preserved; the lemmas about rings (`SlotsDiffer`, `StoreKeeps`,
`OverfullRing`) say when two numbers share a slot.

### Only model-checked

Liveness (`EventuallySent`, `GetsIntoLevel`, both `Delivered`, `GetsInOrIsTold`,
`Downloaded`, `EndsAndIsDone`, `AnotherLevel`), which needs ENABLED and fairness.
Every other property of a passing run is a theorem, some under the assumptions
named above. The proofs about `Snapshots`, `Downloads` and `LevelFlow` need what a
recursive function computes; without the library's
induction theorems, whose operators cannot be instantiated, it is shown that the
set of numbers at which it would be wrong has no smallest element
(`SetInduction`). `ClientCommands`, `Session` and `Connection` take the smallest
element of a set directly.

## 6. Abstractions

- *Texts* of commands, messages, moves and votes are their numbers or kinds; the
  bytes of a block are its file and index, the state of an entity its version.
- *Time* is left out of the netchan, `Session` and `ClientCommands`: a timeout
  may come at any moment, a move has a level time only because `SV_UserMove`
  compares them. `Connection` counts it in ticks, `Votes` in frames. In
  `Downloads` the second after which a window is sent again may pass at any
  moment once the window is out.
- *Thresholds* of a vote are percentages, compared exactly, where the code
  divides and multiplies in floating point.
- *One client.* Outside `Connection` the server's loops over clients treat them
  alike; what one does to another are reliable commands, which
  `SV_SendServerCommand` adds at any time, and entities, which `OtherSnapshot`
  writes at any time.
- *`Session` leaves out* pure pak checks, VoIP, rate control, and downloads and
  entities, which have modules of their own; *`ClientCommands` leaves out*
  changes of level, which `Session` has, and the wrap of the ring of 64 moves.
- *The client's sending half* of the netchan sends all fragments of a message at
  once; it is the case of `NetChan` in which nothing happens in between.
- *`Connection` leaves out* bans, the limits on rate and ping, alternate
  protocols, the loopback client, malformed userinfo and the five frames that
  `SV_CheckTimeouts` counts before it drops (a guard against a debugger).
- *`Downloads` leaves out* cURL, files of more than 65,535 blocks, errors of the
  file system, the prompts, and the fragments of a gamestate.
- *`Snapshots` leaves out* which entities are visible, the fields of an entity,
  the player state and area bits, baselines other than "nothing", messages that
  overflow, and a change of level.
- *`Votes` leaves out* what each vote does, the permissions and limits for
  calling one, and scrims. `ExitLevel` at the end of an intermission is one step
  with the level that follows it (`NewLevel`): in between no frame runs, and a
  player who begins in that moment and calls a vote is left out.
- *`MapRotation` leaves out* what a condition tests, files with errors, and maps
  that do not exist; which rotation `g_initialMapRotation` names, and whether
  `g_playMapEnable` is on when a level ends, is open; an operator's command comes
  while no map command waits.
- *`PlayMapQueue` leaves out* layouts, flags and the pool.

## 7. Plan

Done: netchan, session, client commands, connection, downloads, snapshot deltas,
votes, map rotation, playmap queue and what follows a level. Next:

1. Proofs: the safety of all modules is proved. What is left is to weaken
   assumptions: `Connection` with several qports of clients that keep theirs.
2. Scrims, the rest of the level flow (warmup, exit rules, the ready state of an
   intermission), teams and spawn queues, `bg_list` and `bg_alloc`, the console
   buffer and latched variables, the master server's list, bans: each small, in
   the order of what a mistake in them would cost. The movers' state machines are
   small next to the geometry that drives them.

Not planned: movement, combat, collision and buildables (geometry and floating
point), renderers, sound, screen and menus (output), the virtual machine and the
file system (code generation and input and output), vendored code. They are most
of the lines of the repository: SQLite alone is more than a third.
