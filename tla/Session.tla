------------------------------ MODULE Session ------------------------------
(***************************************************************************)
(* The session between the server and one connected client: how reliable   *)
(* server commands, gamestates and snapshots get from the one to the       *)
(* other, how the client is moved to a new level, and how it is dropped.   *)
(*                                                                         *)
(* Below this module is the netchan (module SvNetChan): of the messages    *)
(* built for the other side some get there, each whole, in the order they  *)
(* were built.  So a direction is a sequence that may lose any element.    *)
(*                                                                         *)
(* A command is known by its number; a ring slot and a message hold the    *)
(* number of the command whose text is there, 0 where there is none.       *)
(* Message numbers are only ever compared with gamestateMessageNum, so a   *)
(* message carries the outcome (later), which a new gamestate resets.      *)
(***************************************************************************)
EXTENDS Integers, Sequences, FiniteSets

CONSTANTS
  MAX_RELIABLE_COMMANDS,
  PACKET_BACKUP,   \* snapshots the client keeps
  Capacity,        \* bound: messages in flight in one direction
  MaxCommands,     \* bound: commands the game adds by itself
  MaxServerId,     \* bound: serverIds, one per level and per map_restart
  MaxRestarts      \* bound: map_restarts of one level

M == MAX_RELIABLE_COMMANDS
ASSUME RingAssumption == M \in Nat \ {0}
ASSUME BackupAssumption == PACKET_BACKUP \in Nat \ {0}
ASSUME CapacityAssumption == Capacity \in Nat \ {0}
ASSUME BoundsAssumption ==
  {MaxCommands, MaxServerId, MaxRestarts} \subseteq Nat

VARIABLES
  sv,        \* the level: serverId, restartedServerId, systemInfo
  cl,        \* the server's client_t
  clc,       \* the client's connection
  cg,        \* the snapshots the client holds for its cgame
  toClient,  \* messages in flight, oldest first
  toServer,
  executed   \* history: the commands the client executed, in order

vars == <<sv, cl, clc, cg, toClient, toServer, executed>>

-----------------------------------------------------------------------------
(* Values. *)

CS_FREE == 0
CS_ZOMBIE == 1
CS_CONNECTED == 2
CS_PRIMED == 3
CS_ACTIVE == 4

Slots == 0..M-1

\* A command: its kind, and the serverId a systeminfo configstring carries.
Kinds == {"game", "print", "disconnect", "map_restart", "cs"}
Command == [kind : Kinds, serverId : Nat]
Plain(k) == [kind |-> k, serverId |-> 0]

SvState == [serverId : Nat, restartedServerId : Nat, systemInfo : Nat]

\* issued is the history of all commands numbered for this client, so its
\* length is reliableSequence; overflowed says one of them was not stored;
\* unheard is the last level a map_restart let the client into before the
\* server had heard of it there, and dropCalls counts the calls of the game's
\* ClientDisconnect since its last ClientConnect.
ClientT == [state : CS_FREE..CS_ACTIVE, issued : Seq(Command),
            reliableAcknowledge : Nat, reliableCommands : [Slots -> Nat],
            csUpdated : BOOLEAN, overflowed : BOOLEAN, unheard : Nat, dropCalls : Nat]

\* level is the history of which level's gamestate the client loaded.
ClientConnection ==
  [state : {"CA_CONNECTED", "CA_PRIMED", "CA_DISCONNECTED"}, serverId : Nat,
   level : Nat, serverCommandSequence : Nat, serverCommands : [Slots -> Nat],
   later : BOOLEAN]

\* A snapshot, with the reliableSequence of the server when it was built.
Snapshot == [serverCommandNum : Nat, built : Nat, active : BOOLEAN]
NoSnapshot == [serverCommandNum |-> -1, built |-> 0, active |-> FALSE]
CGame == [snapshots : Seq(Snapshot), nextSnap : Snapshot \cup {NoSnapshot},
          snap : Snapshot \cup {NoSnapshot}]
NoCGame == [snapshots |-> <<>>, nextSnap |-> NoSnapshot, snap |-> NoSnapshot]

\* first is the number of the first command a message carries.
Message ==
  [gamestate : BOOLEAN, first : Nat \ {0}, commands : Seq(Nat), built : Nat,
   serverId : Nat, level : Nat, active : BOOLEAN, later : BOOLEAN]

\* key is the command a packet's moves are encoded with.
Packet == [serverId : Nat, level : Nat, later : BOOLEAN,
           serverCommandSequence : Nat, move : BOOLEAN, key : Nat]

reliableSequence(c) == Len(c.issued)
Pending(c) == reliableSequence(c) - c.reliableAcknowledge
lastExecutedServerCommand == Len(executed)

\* CL_Disconnect wipes the connection and the client state.
NoConnection(state) ==
  [state |-> state, serverId |-> 0, level |-> 0, serverCommandSequence |-> 0,
   serverCommands |-> [s \in Slots |-> 0], later |-> state = "CA_CONNECTED"]

Init ==
  /\ sv = [serverId |-> 1, restartedServerId |-> 1, systemInfo |-> 1]
  /\ cl = [state |-> CS_CONNECTED, issued |-> <<>>, reliableAcknowledge |-> 0,
           reliableCommands |-> [s \in Slots |-> 0], csUpdated |-> FALSE,
           overflowed |-> FALSE, unheard |-> 0, dropCalls |-> 0]
  /\ clc = NoConnection("CA_CONNECTED")
  /\ cg = NoCGame
  /\ toClient = <<>>
  /\ toServer = <<>>
  /\ executed = <<>>

-----------------------------------------------------------------------------
(* The reliable commands of the server. *)

\* The next command goes into its slot.
Store(c, cmd) ==
  LET n == reliableSequence(c) + 1
  IN  [c EXCEPT !.issued = Append(@, cmd), !.reliableCommands[n % M] = n]

\* Mutant: the client stays in the game.
DropOverflowed_Stays(c) ==
  [Store(Store(c, Plain("print")), Plain("disconnect")) EXCEPT !.dropCalls = @ + 1]

\* SV_DropClient for a client with more than M commands pending: a last
\* print to everyone, this client included, the game is told, and a disconnect
\* is added.  The two pass SV_AddServerCommand, which looks for exactly M + 1.
DropOverflowed(c) ==
  [Store(Store(c, Plain("print")), Plain("disconnect"))
     EXCEPT !.state = CS_ZOMBIE, !.dropCalls = @ + 1]

\* One more command than the ring holds: it is numbered, not stored, and the
\* client is dropped.
Overflow(c, cmd) ==
  DropOverflowed([c EXCEPT !.issued = Append(@, cmd), !.overflowed = TRUE])

\* Mutant: the overflow is looked for one command too late.
SV_AddServerCommand_Late(c, cmd) ==
  IF c.state < CS_PRIMED THEN c
  ELSE IF Pending(c) = M + 1 THEN Overflow(c, cmd)
  ELSE Store(c, cmd)

SV_AddServerCommand(c, cmd) ==
  IF c.state < CS_PRIMED THEN c
  ELSE IF Pending(c) = M THEN Overflow(c, cmd)
  ELSE Store(c, cmd)

SV_DropClient(c) ==
  IF c.state = CS_ZOMBIE THEN c
  ELSE [SV_AddServerCommand(SV_AddServerCommand(c, Plain("print")), Plain("disconnect"))
          EXCEPT !.state = CS_ZOMBIE, !.dropCalls = @ + 1]

\* The systeminfo configstring for one client: sent to an active one, noted
\* for one that is loading.
SetSystemInfo(c) ==
  IF c.state >= CS_ACTIVE
  THEN SV_AddServerCommand(c, [kind |-> "cs", serverId |-> sv.serverId])
  ELSE IF c.state = CS_PRIMED THEN [c EXCEPT !.csUpdated = TRUE] ELSE c

\* SV_ClientEnterWorld, with SV_UpdateConfigstrings for the systeminfo.
SV_ClientEnterWorld(c) ==
  LET entered == [c EXCEPT !.state = CS_ACTIVE]
  IN  IF ~c.csUpdated THEN entered
      ELSE [SV_AddServerCommand(entered, [kind |-> "cs", serverId |-> sv.systemInfo])
              EXCEPT !.csUpdated = FALSE]

\* What SV_UpdateServerCommandsToClient writes: every unacknowledged command.
FirstToSend(c) == c.reliableAcknowledge + 1

CommandsToSend(c) ==
  [k \in 1..(reliableSequence(c) - FirstToSend(c) + 1) |->
     c.reliableCommands[(FirstToSend(c) + k - 1) % M]]

-----------------------------------------------------------------------------
(* Channels. *)

\* Sending into a full channel loses the oldest message in it.
Send(channel, m) ==
  IF Len(channel) < Capacity THEN Append(channel, m) ELSE Append(Tail(channel), m)

LoseFrom(channel, i) == SubSeq(channel, 1, i - 1) \o SubSeq(channel, i + 1, Len(channel))

Lose ==
  \/ \E i \in DOMAIN toClient :
       /\ toClient' = LoseFrom(toClient, i)
       /\ UNCHANGED <<sv, cl, clc, cg, toServer, executed>>
  \/ \E i \in DOMAIN toServer :
       /\ toServer' = LoseFrom(toServer, i)
       /\ UNCHANGED <<sv, cl, clc, cg, toClient, executed>>

-----------------------------------------------------------------------------
(* The server. *)

\* The game sends the client a command (trap_SendServerCommand).
SV_SendServerCommand ==
  /\ reliableSequence(cl) < MaxCommands
  /\ cl' = SV_AddServerCommand(cl, Plain("game"))
  /\ cl' # cl
  /\ UNCHANGED <<sv, clc, cg, toClient, toServer, executed>>

\* A new level: all that is per level is new, and the clients wait for a
\* gamestate, which they get when the server next hears from them.
SV_SpawnServer ==
  LET id == sv.serverId + 1
  IN  /\ id <= MaxServerId
      /\ sv' = [serverId |-> id, restartedServerId |-> id, systemInfo |-> id]
      /\ cl' = IF cl.state < CS_CONNECTED THEN cl
               ELSE [cl EXCEPT !.state = CS_CONNECTED, !.dropCalls = 0]
      /\ UNCHANGED <<clc, cg, toClient, toServer, executed>>

\* A client that is not in the game yet may never have got the level's gamestate.
Unheard(c) == IF c.state < CS_ACTIVE THEN sv.restartedServerId ELSE c.unheard

\* The level starts over: a new serverId, which the systeminfo configstring
\* says only from the next frame on, and the game lets every client in again,
\* or refuses it.
SV_MapRestart_f ==
  LET told == IF cl.state < CS_CONNECTED THEN cl
              ELSE [SV_AddServerCommand(cl, Plain("map_restart"))
                      EXCEPT !.dropCalls = 0, !.unheard = Unheard(cl)]
  IN  /\ sv.serverId < MaxServerId
      /\ sv.serverId - sv.restartedServerId < MaxRestarts
      /\ sv' = [sv EXCEPT !.serverId = @ + 1]
      /\ cl' \in IF cl.state < CS_CONNECTED THEN {cl}
                 ELSE {SV_ClientEnterWorld(told), SV_DropClient(told)}
      /\ UNCHANGED <<clc, cg, toClient, toServer, executed>>

\* SV_Frame, before anything else it does: a changed systeminfo is broadcast.
UpdateSystemInfo ==
  /\ sv.systemInfo # sv.serverId
  /\ sv' = [sv EXCEPT !.systemInfo = sv.serverId]
  /\ cl' = SetSystemInfo(cl)
  /\ UNCHANGED <<clc, cg, toClient, toServer, executed>>

\* SV_Frame, at its end: a snapshot, also for a client that is loading or is
\* a zombie.
SV_SendClientSnapshot ==
  /\ sv.systemInfo = sv.serverId
  /\ cl.state # CS_FREE
  /\ toClient' = Send(toClient,
       [gamestate |-> FALSE, first |-> FirstToSend(cl),
        commands |-> CommandsToSend(cl), built |-> reliableSequence(cl),
        serverId |-> 0, level |-> 0, active |-> cl.state = CS_ACTIVE, later |-> TRUE])
  /\ UNCHANGED <<sv, cl, clc, cg, toServer, executed>>

\* The client quits, is kicked or is refused a new level.
DropClient ==
  /\ cl.state >= CS_CONNECTED
  /\ cl' = SV_DropClient(cl)
  /\ UNCHANGED <<sv, clc, cg, toClient, toServer, executed>>

\* The slot of a zombie is freed some time after; a client not heard of for
\* long enough is dropped and freed at once.
SV_CheckTimeouts ==
  /\ sv.systemInfo = sv.serverId
  /\ cl.state # CS_FREE
  /\ cl' = [SV_DropClient(cl) EXCEPT !.state = CS_FREE]
  /\ UNCHANGED <<sv, clc, cg, toClient, toServer, executed>>

\* A gamestate makes all that was sent before it, and it, not later.
ForgetLater(channel) == [i \in DOMAIN channel |-> [channel[i] EXCEPT !.later = FALSE]]

\* SV_SendClientGameState to c, which is cl after the packet p was read.
SV_SendClientGameState(c) ==
  /\ cl' = [c EXCEPT !.state = CS_PRIMED]
  /\ toClient' = Send(ForgetLater(toClient),
       [gamestate |-> TRUE, first |-> FirstToSend(c),
        commands |-> CommandsToSend(c),
        built |-> reliableSequence(c), serverId |-> sv.systemInfo,
        level |-> sv.restartedServerId, active |-> FALSE, later |-> FALSE])
  /\ toServer' = ForgetLater(Tail(toServer))
  /\ clc' = [clc EXCEPT !.later = FALSE]

\* Mutant: every outdated packet is taken for one from before a restart.
WrongServerId_Ignored(c, p) ==
  /\ cl' = c
  /\ toServer' = Tail(toServer)
  /\ UNCHANGED <<toClient, clc>>

\* The serverId of the packet is not the server's: before the restart of this
\* level it is ignored, and else the gamestate is sent again unless the client
\* may still be about to receive it.
WrongServerId(c, p) ==
  IF /\ \/ sv.restartedServerId > p.serverId
        \/ p.serverId > sv.serverId
     /\ p.later
  THEN SV_SendClientGameState(c)
  ELSE /\ cl' = c
       /\ toServer' = Tail(toServer)
       /\ UNCHANGED <<toClient, clc>>

\* Mutant: a client one command short of the limit counts as out of range.
Stale_OrEqual(c, p) == p.serverCommandSequence <= reliableSequence(c) - M

\* The packet acknowledges a command that is not in the ring any more.
Stale(c, p) == p.serverCommandSequence < reliableSequence(c) - M

\* Mutant: the moves are executed before the serverId is looked at.
SV_ExecuteClientMessage_MovesFirst(p) ==
  LET acked == [cl EXCEPT !.reliableAcknowledge = p.serverCommandSequence]
      moved == IF p.move /\ cl.state = CS_PRIMED THEN SV_ClientEnterWorld(acked) ELSE acked
  IN  IF p.serverId # sv.serverId THEN WrongServerId(moved, p)
      ELSE /\ cl' = moved
           /\ toServer' = Tail(toServer)
           /\ UNCHANGED <<toClient, clc>>

\* SV_ExecuteClientMessage, with SV_UserMove for the moves of a client that is
\* not in the level yet.
SV_ExecuteClientMessage(p) ==
  LET acked == [cl EXCEPT !.reliableAcknowledge = p.serverCommandSequence]
      stale == Stale(cl, p)
  IN  IF ~stale /\ p.serverId # sv.serverId THEN WrongServerId(acked, p)
      ELSE /\ cl' = IF stale
                    THEN [cl EXCEPT !.reliableAcknowledge = reliableSequence(cl)]
                    ELSE IF p.move /\ cl.state = CS_PRIMED
                    THEN SV_ClientEnterWorld(acked)
                    ELSE acked
           /\ toServer' = Tail(toServer)
           /\ UNCHANGED <<toClient, clc>>

\* A zombie's packets are not looked into, a freed slot's find no client.
SV_PacketEvent ==
  /\ toServer # <<>>
  /\ IF cl.state > CS_ZOMBIE THEN SV_ExecuteClientMessage(Head(toServer))
     ELSE /\ toServer' = Tail(toServer)
          /\ UNCHANGED <<cl, clc, toClient>>
  /\ UNCHANGED <<sv, cg, executed>>

-----------------------------------------------------------------------------
(* The client. *)

\* CL_WritePacket; a client in a level has moves to send, unless none is new.
CL_WritePacket(move) ==
  /\ clc.state # "CA_DISCONNECTED"
  /\ move => clc.state = "CA_PRIMED"
  /\ toServer' = Send(toServer,
       [serverId |-> clc.serverId, level |-> clc.level, later |-> clc.later,
        serverCommandSequence |-> clc.serverCommandSequence, move |-> move,
        key |-> clc.serverCommands[clc.serverCommandSequence % M]])
  /\ UNCHANGED <<sv, cl, clc, cg, toClient, executed>>

\* The last command of message m.
LastCommand(m) == m.first + Len(m.commands) - 1

\* CL_ParseCommandString for every command of message m: those not seen yet go
\* into their slots.
CL_ParseCommandStrings(m) ==
  [s \in Slots |->
     LET new == {n \in m.first..LastCommand(m) : n > clc.serverCommandSequence /\ n % M = s}
     IN  IF new = {} THEN clc.serverCommands[s]
         ELSE m.commands[(CHOOSE n \in new : \A k \in new : k <= n) - m.first + 1]]

\* Mutant: the command sequence stays where it was.
CL_ParseSnapshot_NoSequence(m) ==
  [clc EXCEPT !.serverCommands = CL_ParseCommandStrings(m), !.later = m.later]

\* The connection after a gamestate: it marks the command sequence, and the
\* cgame of the new level starts.
CL_ParseGamestate(m) ==
  [clc EXCEPT !.state = "CA_PRIMED", !.serverId = m.serverId, !.level = m.level,
              !.serverCommands = CL_ParseCommandStrings(m),
              !.serverCommandSequence = m.built, !.later = m.later]

\* The connection after a snapshot.
CL_ParseSnapshot(m) ==
  [clc EXCEPT !.serverCommands = CL_ParseCommandStrings(m),
              !.serverCommandSequence = IF @ >= LastCommand(m) THEN @ ELSE LastCommand(m),
              !.later = m.later]

\* The oldest of PACKET_BACKUP snapshots falls out for a new one.
Keep(snapshots, s) ==
  IF Len(snapshots) < PACKET_BACKUP THEN Append(snapshots, s)
  ELSE Append(Tail(snapshots), s)

CL_ParseServerMessage ==
  /\ toClient # <<>>
  /\ LET m == Head(toClient)
     IN  IF clc.state = "CA_DISCONNECTED" THEN UNCHANGED <<clc, cg>>
         ELSE IF m.gamestate
         THEN /\ clc' = CL_ParseGamestate(m)
              /\ cg' = NoCGame
         ELSE /\ clc' = CL_ParseSnapshot(m)
              /\ cg' = [cg EXCEPT !.snapshots = Keep(@,
                   [serverCommandNum |-> clc'.serverCommandSequence,
                    built |-> m.built, active |-> m.active])]
  /\ toClient' = Tail(toClient)
  /\ UNCHANGED <<sv, cl, toServer, executed>>

Content(n) == clc.serverCommands[n % M]
KindOf(n) == IF Content(n) = 0 THEN "game" ELSE cl.issued[Content(n)].kind

\* CG_ExecuteNewServerCommands: the commands up to latest, in their order.
\* CL_GetServerCommand ends the connection when one was overwritten in the
\* ring, was never received, or is a disconnect; else the cgame goes on as next.
ExecuteNewServerCommands(latest, next) ==
  LET first == lastExecutedServerCommand + 1
      lost == first <= latest /\ (first <= clc.serverCommandSequence - M
                                  \/ latest > clc.serverCommandSequence)
      ends == {n \in first..latest : KindOf(n) = "disconnect"}
      last == IF ends = {} THEN latest ELSE CHOOSE n \in ends : \A k \in ends : n <= k
      ids == {n \in first..last : KindOf(n) = "cs"}
      newest == CHOOSE n \in ids : \A k \in ids : k <= n
  IN  /\ executed' = IF lost THEN executed
                     ELSE executed \o [k \in 1..(last - first + 1) |-> Content(first + k - 1)]
      /\ IF lost \/ ends # {}
         THEN /\ clc' = NoConnection("CA_DISCONNECTED")
              /\ cg' = NoCGame
         ELSE /\ clc' = IF ids = {} THEN clc
                        ELSE [clc EXCEPT !.serverId = cl.issued[Content(newest)].serverId]
              /\ cg' = next

\* The first snapshot with entities becomes cg.snap, with its commands.
CG_SetInitialSnapshot ==
  /\ clc.state = "CA_PRIMED"
  /\ cg.snap = NoSnapshot
  /\ cg.snapshots # <<>>
  /\ LET s == Head(cg.snapshots)
     IN  IF s.active
         THEN ExecuteNewServerCommands(s.serverCommandNum,
                [cg EXCEPT !.snapshots = Tail(@), !.snap = s])
         ELSE /\ cg' = [cg EXCEPT !.snapshots = Tail(@)]
              /\ UNCHANGED <<clc, executed>>
  /\ UNCHANGED <<sv, cl, toClient, toServer>>

\* The next snapshot is read in, to interpolate towards.
CG_SetNextSnap ==
  /\ clc.state = "CA_PRIMED"
  /\ cg.snap # NoSnapshot
  /\ cg.nextSnap = NoSnapshot
  /\ cg.snapshots # <<>>
  /\ cg' = [cg EXCEPT !.snapshots = Tail(@), !.nextSnap = Head(cg.snapshots)]
  /\ UNCHANGED <<sv, cl, clc, toClient, toServer, executed>>

\* Mutant: a snapshot is shown before its commands are executed.
CG_TransitionSnapshot_NoCommands ==
  /\ clc.state = "CA_PRIMED"
  /\ cg.nextSnap # NoSnapshot
  /\ cg' = [cg EXCEPT !.snap = cg.nextSnap, !.nextSnap = NoSnapshot]
  /\ UNCHANGED <<sv, cl, clc, toClient, toServer, executed>>

\* The time of the next snapshot has come.
CG_TransitionSnapshot ==
  /\ clc.state = "CA_PRIMED"
  /\ cg.nextSnap # NoSnapshot
  /\ ExecuteNewServerCommands(cg.nextSnap.serverCommandNum,
       [cg EXCEPT !.snap = cg.nextSnap, !.nextSnap = NoSnapshot])
  /\ UNCHANGED <<sv, cl, toClient, toServer>>

\* The user leaves.
CL_Disconnect ==
  /\ clc.state # "CA_DISCONNECTED"
  /\ clc' = NoConnection("CA_DISCONNECTED")
  /\ cg' = NoCGame
  /\ UNCHANGED <<sv, cl, toClient, toServer, executed>>

-----------------------------------------------------------------------------
Server ==
  \/ SV_SendServerCommand \/ SV_SpawnServer \/ SV_MapRestart_f
  \/ UpdateSystemInfo \/ SV_SendClientSnapshot \/ DropClient
  \/ SV_CheckTimeouts \/ SV_PacketEvent

Client ==
  \/ \E move \in BOOLEAN : CL_WritePacket(move)
  \/ CL_ParseServerMessage
  \/ CG_SetInitialSnapshot \/ CG_SetNextSnap \/ CG_TransitionSnapshot
  \/ CL_Disconnect

Next == Server \/ Client \/ Lose

Spec == Init /\ [][Next]_vars

(***************************************************************************)
(* SV_Frame and the client's frame run for as long as the programs do: the *)
(* server updates systeminfo and sends snapshots, the client sends its     *)
(* moves and runs its cgame.  The network may lose messages, but of those  *)
(* of a kind that are sent again and again it delivers some.               *)
(***************************************************************************)
Fairness ==
  /\ WF_vars(UpdateSystemInfo)
  /\ WF_vars(SV_SendClientSnapshot)
  /\ WF_vars(CL_WritePacket(clc.state = "CA_PRIMED"))
  /\ WF_vars(CG_SetInitialSnapshot)
  /\ WF_vars(CG_SetNextSnap)
  /\ WF_vars(CG_TransitionSnapshot)
  /\ SF_vars(SV_PacketEvent /\ ~Head(toServer).move)
  /\ SF_vars(SV_PacketEvent /\ Head(toServer).move)
  /\ SF_vars(CL_ParseServerMessage /\ Head(toClient).gamestate)
  /\ SF_vars(CL_ParseServerMessage /\ ~Head(toClient).gamestate)

FairSpec == Spec /\ Fairness

-----------------------------------------------------------------------------
(***************************************************************************)
(* Properties.                                                             *)
(***************************************************************************)

TypeOK ==
  /\ sv \in SvState
  /\ cl \in ClientT
  /\ clc \in ClientConnection
  /\ cg \in CGame
  /\ toClient \in Seq(Message)
  /\ toServer \in Seq(Packet)
  /\ executed \in Seq(Nat)

\* The client executes the commands the server issued, each once and in the
\* order they were issued, whatever was lost on the way, until the server
\* drops it for an overflow (CL_ParseCommandString, cl_parse.c:851).
InOrder == ~cl.overflowed => \A n \in DOMAIN executed : executed[n] = n

\* "The given command will be transmitted to the client, and is guaranteed to
\* not have future snapshot_t executed before it is executed" (sv_main.c:135).
CommandsBeforeSnapshot ==
  cg.snap # NoSnapshot => cg.snap.built <= lastExecutedServerCommand

\* A packet that says the server's serverId comes from a client that loaded
\* the server's level, also after the level was restarted ("if this is a usercmd
\* from a previous gamestate, ignore it or retransmit the current gamestate",
\* sv_client.c:1742).  It does not hold of a client that a map_restart lets in
\* (sv_ccmds.c:229) before the server heard of it in the level.
EveryOwnLevel ==
  \A i \in DOMAIN toServer :
    toServer[i].serverId = sv.serverId => toServer[i].level = sv.restartedServerId

\* The same of every client but those: whatever gamestates, systeminfo commands
\* and packets of levels and restarts before are still under way, serverIds that
\* restarts move on are never taken for those of another level.
OwnLevel == cl.unheard # sv.restartedServerId => EveryOwnLevel

\* "if we would be losing an old command that hasn't been acknowledged, we
\* must drop the connection" (sv_main.c:153).
OverflowDrops == cl.overflowed => cl.state <= CS_ZOMBIE

\* The moves of a packet are decoded with the command they were encoded with
\* ("also use the last acknowledged server command in the key",
\* sv_client.c:1498).  It does not hold when the ring is full.
MoveKeysAgree ==
  [][toServer # <<>> /\ toServer' = Tail(toServer) /\ Head(toServer).move
       /\ cl.state = CS_ACTIVE /\ Head(toServer).serverId = sv.serverId
       /\ cl'.reliableAcknowledge = Head(toServer).serverCommandSequence
     => Head(toServer).key = cl'.reliableCommands[cl'.reliableAcknowledge % M]]_vars

\* "we check == instead of >= so a broadcast print added by SV_DropClient()
\* doesn't cause a recursive drop client" (sv_main.c:155): the game hears of
\* the end of a client once.  It does not hold when the ring is full.
DroppedOnce == cl.dropCalls <= 1

Over == clc.state = "CA_DISCONNECTED" \/ cl.state <= CS_ZOMBIE

\* A client that stays gets into the current level, whatever levels come and
\* whatever the network loses: "they just haven't caught the map_restart yet"
\* (sv_client.c:1756).
GetsIntoLevel ==
  <>[](\/ Over
       \/ /\ cl.state = CS_ACTIVE
          /\ clc.serverId = sv.serverId
          /\ clc.level = sv.restartedServerId)

\* Every command is executed, unless the session ends.
Delivered ==
  \A n \in 1..MaxCommands : reliableSequence(cl) >= n ~> Over \/ Len(executed) >= n

\* The session keeps the promise of module ReliableCommands.
Commands == INSTANCE ReliableCommands WITH issued <- cl.issued, givenUp <- cl.overflowed

KeepsPromise == Commands!Spec

-----------------------------------------------------------------------------
(***************************************************************************)
(* The inductive invariant.                                                *)
(***************************************************************************)

\* Until an overflow the ring of client_t c holds the last M commands, and so
\* all that wait for an acknowledgement.
RingInv(c) ==
  /\ c.reliableAcknowledge <= reliableSequence(c)
  /\ \A s \in Slots : c.reliableCommands[s] <= reliableSequence(c)
  /\ ~c.overflowed =>
       /\ Pending(c) <= M
       /\ \A n \in 1..reliableSequence(c) :
            n > reliableSequence(c) - M => c.reliableCommands[n % M] = n

Connected(k) == k.state # "CA_DISCONNECTED"

\* A message m on its way from c to the connection k: its commands go on to the
\* last one issued when it was built, and leave no gap at the client.
MessageFits(c, k, m) ==
  /\ m.built <= reliableSequence(c)
  /\ LastCommand(m) = m.built
  /\ \A i \in DOMAIN m.commands : m.commands[i] <= reliableSequence(c)
  /\ Connected(k) => k.serverCommandSequence <= m.built
  /\ ~c.overflowed =>
       /\ \A i \in DOMAIN m.commands : m.commands[i] = m.first + i - 1
       /\ Connected(k) => m.first <= k.serverCommandSequence + 1

MessageInv(c, k, channel) ==
  /\ \A i \in DOMAIN channel : MessageFits(c, k, channel[i])
  /\ \A i, j \in DOMAIN channel : i <= j => channel[i].built <= channel[j].built

\* A packet on its way from k to c never takes an acknowledgement back.
PacketFits(c, k, p) ==
  /\ p.serverCommandSequence <= reliableSequence(c)
  /\ Connected(k) => p.serverCommandSequence <= k.serverCommandSequence
  /\ ~c.overflowed => c.reliableAcknowledge <= p.serverCommandSequence

PacketInv(c, k, channel) ==
  /\ \A i \in DOMAIN channel : PacketFits(c, k, channel[i])
  /\ \A i, j \in DOMAIN channel :
       i <= j => channel[i].serverCommandSequence <= channel[j].serverCommandSequence

\* Until an overflow the ring of the client holds the last M commands it has
\* received.
ClientInv(c, k) ==
  /\ k.serverCommandSequence <= reliableSequence(c)
  /\ \A s \in Slots : k.serverCommands[s] <= reliableSequence(c)
  /\ Connected(k) /\ ~c.overflowed =>
       /\ c.reliableAcknowledge <= k.serverCommandSequence
       /\ \A n \in 1..k.serverCommandSequence :
            n > k.serverCommandSequence - M => k.serverCommands[n % M] = n

\* A snapshot has its commands with it, and is shown after them.
SnapshotReady(k, s) ==
  s.built <= s.serverCommandNum /\ s.serverCommandNum <= k.serverCommandSequence

CGameInv(k, g, done) ==
  /\ Connected(k) => Len(done) <= k.serverCommandSequence
  /\ \A i \in DOMAIN g.snapshots : SnapshotReady(k, g.snapshots[i])
  /\ g.nextSnap # NoSnapshot => SnapshotReady(k, g.nextSnap)
  /\ g.snap # NoSnapshot => g.snap.built <= Len(done)

Ordered(c, done) == ~c.overflowed => \A n \in DOMAIN done : done[n] = n

SessionInv ==
  /\ TypeOK
  /\ RingInv(cl)
  /\ MessageInv(cl, clc, toClient)
  /\ PacketInv(cl, clc, toServer)
  /\ ClientInv(cl, clc)
  /\ CGameInv(clc, cg, executed)
  /\ Ordered(cl, executed)

(* Which levels client and server may name to each other.                   *)

\* The connection k, if it stands, loaded the level of v.
InLevel(v, k) == Connected(k) => k.level = v.restartedServerId

\* No systeminfo command of client_t c names a serverId above id.
Issues(c, id) == \A n \in DOMAIN c.issued : c.issued[n].serverId <= id

LevelOK(v) ==
  /\ 1 <= v.restartedServerId /\ v.restartedServerId <= v.serverId
  /\ v.systemInfo <= v.serverId

\* A client the server heard of in the level may only name its serverIds, and
\* be told of them, if that is the level it loaded.
LevelsOK(v, c, k) ==
  /\ c.unheard <= v.restartedServerId
  /\ Issues(c, v.serverId)
  /\ k.serverId <= v.serverId /\ k.level <= v.restartedServerId
  /\ c.unheard # v.restartedServerId =>
       /\ k.serverId >= v.restartedServerId => InLevel(v, k)
       /\ InLevel(v, k) \/ (c.state # CS_ACTIVE /\ Issues(c, v.restartedServerId - 1))

\* The levels a client loads go up, and those its packets name with them.
GameStateOK(v, k, m) ==
  /\ m.serverId <= v.serverId /\ m.level <= v.restartedServerId
  /\ m.gamestate =>
       /\ m.serverId >= v.restartedServerId => m.level = v.restartedServerId
       /\ Connected(k) => k.level <= m.level

GameStatesOK(v, k, channel) ==
  /\ \A i \in DOMAIN channel : GameStateOK(v, k, channel[i])
  /\ \A i, j \in DOMAIN channel :
       i <= j /\ channel[i].gamestate /\ channel[j].gamestate
         => channel[i].level <= channel[j].level

PacketsOK(v, c, k, channel) ==
  \A i \in DOMAIN channel :
    /\ channel[i].serverId <= v.serverId /\ channel[i].level <= v.restartedServerId
    /\ Connected(k) => channel[i].level <= k.level
    /\ c.unheard # v.restartedServerId /\ channel[i].serverId >= v.restartedServerId
         => channel[i].level = v.restartedServerId

LevelInv ==
  /\ LevelOK(sv)
  /\ LevelsOK(sv, cl, clc)
  /\ GameStatesOK(sv, clc, toClient)
  /\ PacketsOK(sv, cl, clc, toServer)
=============================================================================
