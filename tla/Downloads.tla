----------------------------- MODULE Downloads -----------------------------
(***************************************************************************)
(* The download of paks over the game connection.  The client asks for one *)
(* file after another with reliable commands and acknowledges every block  *)
(* with one; the server keeps a window of blocks in flight and sends it    *)
(* again when nothing was acknowledged for a second.                       *)
(*                                                                         *)
(* Below is the netchan: a message may be lost and is never overtaken.  A  *)
(* packet of the client names the commands it holds by the number of the   *)
(* last one.  A block is known by its file and its index; the one behind   *)
(* the last is empty and ends the file.  Messages of the server are        *)
(* numbered by the gamestates sent: 2g for gamestate g itself, 2g + 1 for  *)
(* what follows it.                                                        *)
(***************************************************************************)
EXTENDS Integers, Sequences, FiniteSetsExt, SequencesExt

CONSTANTS
  Blocks,                \* how many blocks each pak has, by its number
  Paks,                  \* the paks each level needs, by its serverId
  Refused,               \* the paks the server does not send
  MAX_DOWNLOAD_WINDOW,
  MAX_RELIABLE_COMMANDS,
  Capacity,              \* bound: messages in flight in one direction
  MaxLosses              \* bound: messages the network loses

File == DOMAIN Blocks
Levels == DOMAIN Paks
ASSUME BlocksAssumption == Blocks \in Seq(Nat \ {0})
\* A level names each pak once.
ASSUME PaksAssumption ==
  /\ Paks \in Seq(Seq(File)) /\ Paks # <<>> /\ Refused \subseteq File
  /\ \A l \in Levels : IsInjective(Paks[l])
ASSUME WindowAssumption ==
  MAX_DOWNLOAD_WINDOW \in Nat \ {0} /\ MAX_RELIABLE_COMMANDS \in Nat \ {0}
ASSUME BoundsAssumption == Capacity \in Nat \ {0} /\ MaxLosses \in Nat

VARIABLES
  s,         \* the server: its level and the client_t; its gamestates are, for
             \* each one sent, the last command executed before
  c,         \* the client; its mixed are the files of which it took a block for
             \* one of another file
  commands,  \* history: the client's commands; its length is reliableSequence
  toServer,  \* packets in flight, oldest first
  toClient,  \* messages in flight, oldest first
  losses     \* messages lost

vars == <<s, c, commands, toServer, toClient, losses>>

NoFile == 0
Slots == 0..MAX_DOWNLOAD_WINDOW - 1
Block == [file : File, index : Nat]

\* The commands: what is asked, for which file or block; and, for history, the
\* file that the client is downloading when it has asked.
Download(f) == [what |-> "download", which |-> f, file |-> f]
NextDl(i, f) == [what |-> "nextdl", which |-> i, file |-> f]
StopDl == [what |-> "stopdl", which |-> 0, file |-> NoFile]
DoneDl(f) == [what |-> "donedl", which |-> 0, file |-> f]

\* blocks holds the window; a slot is Unread before its first use.
Unread == [file |-> NoFile, index |-> 0]
IsEmpty(b) == b.file = NoFile \/ b.index = Blocks[b.file]

Init ==
  /\ s = [serverId |-> 1, state |-> "CS_PRIMED", gamestates |-> <<0>>,
          lastClientCommand |-> 0, downloadName |-> NoFile, download |-> NoFile,
          currentBlock |-> 0, clientBlock |-> 0, xmitBlock |-> 0,
          blocks |-> [i \in Slots |-> Unread]]
  /\ c = [state |-> "CA_CONNECTED", serverId |-> 0, messageNum |-> 0,
          reliableAcknowledge |-> 0, downloadList |-> {}, downloadRestart |-> FALSE,
          downloadName |-> NoFile, downloadBlock |-> 0, download |-> NoFile,
          written |-> <<>>, saved |-> {}, mixed |-> {}]
  /\ commands = <<>>
  /\ toServer = <<>>
  /\ toClient = <<[kind |-> "gamestate", number |-> 2, commands |-> 0, serverId |-> 1]>>
  /\ losses = 0

-----------------------------------------------------------------------------
(* The network. *)

HasRoom(q) == Len(q) < Capacity

Lose ==
  /\ losses < MaxLosses
  /\ losses' = losses + 1
  /\ \/ \E i \in DOMAIN toServer : toServer' = RemoveAt(toServer, i) /\ UNCHANGED toClient
     \/ \E i \in DOMAIN toClient : toClient' = RemoveAt(toClient, i) /\ UNCHANGED toServer
  /\ UNCHANGED <<s, c, commands>>

-----------------------------------------------------------------------------
(* The server. *)

Dropped(server) == server.state = "CS_ZOMBIE"

\* A message of the server: its number and the last command executed.
Message(server, kind) ==
  [kind |-> kind, number |-> 2 * Len(server.gamestates) + 1,
   commands |-> server.lastClientCommand]

SV_CloseDownload(server) == [server EXCEPT !.download = NoFile, !.downloadName = NoFile]

SV_NextDownload_f(server, block) ==
  IF block # server.clientBlock
  THEN [SV_CloseDownload(server) EXCEPT !.state = "CS_ZOMBIE"]
  ELSE IF IsEmpty(server.blocks[server.clientBlock % MAX_DOWNLOAD_WINDOW])
  THEN SV_CloseDownload(server)
  ELSE [server EXCEPT !.clientBlock = @ + 1]

SV_BeginDownload_f(server, f) == [SV_CloseDownload(server) EXCEPT !.downloadName = f]

SV_SendClientGameState(server) ==
  [server EXCEPT !.gamestates = Append(@, server.lastClientCommand)]

\* SV_ExecuteClientCommand: command n.
SV_ExecuteClientCommand(server, n) ==
  LET what == commands[n].what
      which == commands[n].which
  IN CASE what = "download" -> SV_BeginDownload_f(server, which)
       [] what = "nextdl" -> SV_NextDownload_f(server, which)
       [] what = "stopdl" -> SV_CloseDownload(server)
       [] what = "donedl" -> SV_SendClientGameState(server)

\* Mutant: a command that comes again is executed again.
SV_ClientCommand_Again(server, n) ==
  IF Dropped(server) THEN server
  ELSE [SV_ExecuteClientCommand(server, n) EXCEPT !.lastClientCommand = n]

\* A command is executed once, and none after the client was dropped.
SV_ClientCommand(server, n) ==
  IF Dropped(server) \/ n <= server.lastClientCommand THEN server
  ELSE [SV_ExecuteClientCommand(server, n) EXCEPT !.lastClientCommand = n]

SaysNextDl(server) ==
  server.lastClientCommand # 0 /\ commands[server.lastClientCommand].what = "nextdl"

\* A packet of another level is read all the same while the client downloads.
Tolerated(server, packet) ==
  \/ packet.serverId = server.serverId
  \/ server.downloadName # NoFile
  \/ SaysNextDl(server)

\* SV_ExecuteClientMessage: the commands, or the gamestate the client lost.
SV_ExecuteClientMessage(server, packet) ==
  LET after[n \in 0..packet.commands] ==
        IF n = 0 THEN server ELSE SV_ClientCommand(after[n - 1], n)
  IN IF Tolerated(server, packet) THEN after[packet.commands]
     ELSE IF packet.messageAcknowledge > 2 * Len(server.gamestates)
     THEN SV_SendClientGameState(server)
     ELSE server

\* The gamestates a packet made the server send.
Answered(server) ==
  [i \in 1..Len(server.gamestates) - Len(s.gamestates) |->
     [kind |-> "gamestate", number |-> 2 * (Len(s.gamestates) + i),
      commands |-> server.gamestates[Len(s.gamestates) + i], serverId |-> server.serverId]]

ServerReceives ==
  /\ ~Dropped(s)
  /\ toServer # <<>>
  /\ toServer' = Tail(toServer)
  /\ s' = SV_ExecuteClientMessage(s, Head(toServer))
  /\ toClient' = toClient \o Answered(s')
  /\ UNCHANGED <<c, commands, losses>>

\* A new level: the client is told when its next packet comes.
SV_SpawnServer ==
  /\ ~Dropped(s)
  /\ s.serverId + 1 \in Levels
  /\ s' = [s EXCEPT !.serverId = @ + 1]
  /\ UNCHANGED <<c, commands, toServer, toClient, losses>>

\* SV_SendClientMessages: nothing while the client downloads.  What a snapshot
\* holds is not of interest here, so one at a time is enough.
SV_SendClientSnapshot ==
  /\ ~Dropped(s)
  /\ s.downloadName = NoFile
  /\ toClient = <<>>
  /\ toClient' = <<Message(s, "snapshot")>>
  /\ UNCHANGED <<s, c, commands, toServer, losses>>

\* The name is forgotten with the refusal, which is sent once.
RefuseDownload ==
  /\ ~Dropped(s)
  /\ s.downloadName \in Refused
  /\ HasRoom(toClient)
  /\ toClient' = Append(toClient, Message(s, "refusal"))
  /\ s' = [s EXCEPT !.downloadName = NoFile]
  /\ UNCHANGED <<c, commands, toServer, losses>>

\* Opening the file resets the window; a file is open until it is closed.
Opened(server) ==
  IF server.download # NoFile THEN server
  ELSE [server EXCEPT !.download = server.downloadName, !.currentBlock = 0,
                      !.clientBlock = 0, !.xmitBlock = 0]

\* Blocks read up to a window from the block first on; the empty block is behind
\* the last.
ReadFrom(server, first) ==
  LET upTo == Min({first + MAX_DOWNLOAD_WINDOW, Blocks[server.downloadName] + 1})
  IN [server EXCEPT !.currentBlock = upTo,
       !.blocks = [i \in Slots |->
         LET read == {k \in server.currentBlock..upTo - 1 : k % MAX_DOWNLOAD_WINDOW = i}
         IN IF read = {} THEN @[i]
            ELSE [file |-> server.downloadName, index |-> Max(read)]]]

\* Mutant: the window moves on with what is sent, not with what is acknowledged.
Filled_Sent(server) == ReadFrom(server, server.xmitBlock)

\* The window starts at the first block that is not acknowledged.
Filled(server) == ReadFrom(server, server.clientBlock)

\* Mutant: the window is never sent again.
Resent_Never(server) == server

\* A second after the last block of the window was sent it is sent again.
Resent(server) ==
  IF server.xmitBlock = server.currentBlock
  THEN [server EXCEPT !.xmitBlock = server.clientBlock] ELSE server

\* SV_WriteDownloadToClient: one block of the window.
SV_WriteDownloadToClient ==
  /\ ~Dropped(s)
  /\ s.downloadName \notin Refused \cup {NoFile}
  /\ HasRoom(toClient)
  /\ LET ready == Resent(Filled(Opened(s)))
         block == ready.blocks[ready.xmitBlock % MAX_DOWNLOAD_WINDOW]
     IN /\ ready.xmitBlock < ready.currentBlock
        /\ s' = [ready EXCEPT !.xmitBlock = @ + 1]
        /\ toClient' = Append(toClient,
             [kind |-> "download", number |-> Message(s, "download").number,
              commands |-> s.lastClientCommand, block |-> ready.xmitBlock, data |-> block])
  /\ UNCHANGED <<c, commands, toServer, losses>>

-----------------------------------------------------------------------------
(* The client. *)

Packet(client, n) ==
  [serverId |-> client.serverId, messageAcknowledge |-> client.messageNum, commands |-> n]

\* CL_WritePacket: every command not acknowledged yet.  A packet that says
\* what the one before it says is left out.
CL_WritePacket ==
  /\ c.state # "CA_DISCONNECTED"
  /\ HasRoom(toServer)
  /\ toServer # <<>> => Last(toServer) # Packet(c, Len(commands))
  /\ toServer' = Append(toServer, Packet(c, Len(commands)))
  /\ UNCHANGED <<s, c, commands, toClient, losses>>

\* Com_Error(ERR_DROP): the client leaves and closes its file.
Left(client) == [client EXCEPT !.state = "CA_DISCONNECTED", !.download = NoFile,
                               !.downloadName = NoFile]

\* More commands than the ring holds are an error.
Overflows(client, new) ==
  Len(commands) + Len(new) - client.reliableAcknowledge > MAX_RELIABLE_COMMANDS

\* What becomes of the client and its commands when it adds some.
Adding(client, new) ==
  IF Overflows(client, new)
  THEN c' = Left(client) /\ UNCHANGED commands
  ELSE c' = client /\ commands' = commands \o new

\* CL_DownloadsComplete: asks for the gamestate anew if there was a download.
AfterDownloads(client) ==
  IF client.downloadRestart
  THEN [client |-> [client EXCEPT !.downloadRestart = FALSE],
        new |-> <<DoneDl(client.downloadName)>>]
  ELSE [client |-> [client EXCEPT !.state = "CA_LOADING"], new |-> <<>>]

\* The paks of a level.
Needed(level) == {Paks[level][i] : i \in DOMAIN Paks[level]}

\* The list is asked for in the order in which the level names its paks.
FirstOf(list, level) ==
  Paks[level][Min({i \in DOMAIN Paks[level] : Paks[level][i] \in list})]

\* CL_NextDownload and CL_BeginDownload: the next file of the list, if any.
CL_NextDownload(client) ==
  IF client.downloadList = {}
  THEN AfterDownloads([client EXCEPT !.downloadName = NoFile])
  ELSE LET f == FirstOf(client.downloadList, client.serverId)
       IN [client |-> [client EXCEPT !.downloadName = f, !.downloadList = @ \ {f},
                                     !.downloadBlock = 0, !.downloadRestart = TRUE],
           new |-> <<Download(f)>>]

\* CL_ParseGamestate, with CL_InitDownloads.
CL_ParseGamestate(client, message) ==
  LET level == message.serverId
      missing == Needed(level) \ client.saved
      loaded == [client EXCEPT !.serverId = level, !.downloadList = missing]
      next == IF missing = {} THEN AfterDownloads(loaded)
              ELSE CL_NextDownload([loaded EXCEPT !.state = "CA_CONNECTED"])
  IN Adding(next.client, next.new) /\ UNCHANGED toServer

\* A message that is not read to its end is read on as if it were commands,
\* which is an error unless the data happen to say that the message ends.
Garbled(client, new) ==
  /\ UNCHANGED toServer
  /\ \/ Adding(client, new)
     \/ c' = Left(client) /\ UNCHANGED commands

\* Mutant: a block of any index is taken.
IsExpected_Any(client, message) == TRUE

IsExpected(client, message) == message.block = client.downloadBlock

\* The size of the file is in front of block 0, and is read from it only while
\* block 0 is the one expected.
SizeUnread(client, message) == message.block = 0 /\ client.downloadBlock # 0

\* The block is written, and acknowledged; the empty one ends the file, which is
\* left only if its checksum is right.
TakeBlock(client, message) ==
  LET end == IsEmpty(message.data)
      f == client.downloadName
      written == (IF client.download = NoFile THEN <<>> ELSE client.written)
                   \o (IF end THEN <<>> ELSE <<message.data>>)
      taken == [client EXCEPT !.download = IF end THEN NoFile
                                           ELSE IF @ = NoFile THEN f ELSE @,
                              !.written = written, !.downloadBlock = @ + 1,
                              !.mixed = @ \cup ({message.data.file} \ {f})]
      right == written = [i \in 1..Blocks[f] |-> [file |-> f, index |-> i - 1]]
      acknowledgement == <<NextDl(client.downloadBlock, IF end THEN NoFile ELSE f)>>
      next == CL_NextDownload([taken EXCEPT !.saved = @ \cup {f}])
      stays == right /\ ~Overflows(client, acknowledgement \o next.new)
  IN IF ~end \/ Overflows(client, acknowledgement)
     THEN Adding(taken, acknowledgement) /\ UNCHANGED toServer
     ELSE /\ toServer' = IF HasRoom(toServer)
                         THEN Append(toServer, Packet(client, Len(commands) + 1))
                         ELSE toServer
          /\ c' = IF stays THEN next.client ELSE Left(taken)
          /\ commands' = commands \o acknowledgement \o (IF stays THEN next.new ELSE <<>>)

CL_ParseDownload(client, message) ==
  CASE client.downloadName = NoFile -> Garbled(client, <<StopDl>>)
    [] client.downloadName # NoFile /\ SizeUnread(client, message) -> Garbled(client, <<>>)
    [] client.downloadName # NoFile /\ ~SizeUnread(client, message) ->
         IF IsExpected(client, message) THEN TakeBlock(client, message)
         ELSE c' = client /\ UNCHANGED <<commands, toServer>>

\* A refusal is a block 0 of an illegal size, whichever way it is read.
ClientReceives ==
  /\ c.state # "CA_DISCONNECTED"
  /\ toClient # <<>>
  /\ toClient' = Tail(toClient)
  /\ LET message == Head(toClient)
         client == [c EXCEPT !.messageNum = message.number,
                             !.reliableAcknowledge = message.commands]
     IN CASE message.kind = "gamestate" -> CL_ParseGamestate(client, message)
          [] message.kind = "download" -> CL_ParseDownload(client, message)
          [] message.kind = "refusal" ->
               IF client.downloadName = NoFile THEN Garbled(client, <<StopDl>>)
               ELSE c' = Left(client) /\ UNCHANGED <<commands, toServer>>
          [] message.kind = "snapshot" -> c' = client /\ UNCHANGED <<commands, toServer>>
  /\ UNCHANGED <<s, losses>>

-----------------------------------------------------------------------------
Next ==
  \/ Lose
  \/ ServerReceives
  \/ SV_SpawnServer
  \/ SV_SendClientSnapshot
  \/ RefuseDownload
  \/ SV_WriteDownloadToClient
  \/ CL_WritePacket
  \/ ClientReceives

Spec == Init /\ [][Next]_vars

\* Both sides keep running frames, and what is in flight arrives or is lost.
FairSpec ==
  /\ Spec
  /\ WF_toServer(~Dropped(s) /\ toServer # <<>> /\ toServer' = Tail(toServer))
  /\ WF_toClient(c.state # "CA_DISCONNECTED" /\ toClient # <<>> /\ toClient' = Tail(toClient))
  /\ WF_vars(SV_SendClientSnapshot)
  /\ WF_vars(SV_WriteDownloadToClient)
  /\ WF_vars(CL_WritePacket)

-----------------------------------------------------------------------------
AnyFile == File \cup {NoFile}
Command == [what : {"download", "nextdl", "stopdl", "donedl"}, which : Nat, file : AnyFile]
Server ==
  [serverId : Levels, state : {"CS_PRIMED", "CS_ZOMBIE"}, gamestates : Seq(Nat),
   lastClientCommand : Nat, downloadName : AnyFile, download : AnyFile, currentBlock : Nat,
   clientBlock : Nat, xmitBlock : Nat, blocks : [Slots -> Block \cup {Unread}]]
Client ==
  [state : {"CA_CONNECTED", "CA_LOADING", "CA_DISCONNECTED"}, serverId : Levels \cup {0},
   messageNum : Nat, reliableAcknowledge : Nat, downloadList : SUBSET File,
   downloadRestart : BOOLEAN, downloadName : AnyFile, downloadBlock : Nat,
   download : AnyFile, written : Seq(Block), saved : SUBSET File, mixed : SUBSET AnyFile]
PacketType == [serverId : Levels \cup {0}, messageAcknowledge : Nat, commands : Nat]
MessageType ==
  [kind : {"gamestate"}, number : Nat, commands : Nat, serverId : Levels]
  \cup [kind : {"snapshot", "refusal"}, number : Nat, commands : Nat]
  \cup [kind : {"download"}, number : Nat, commands : Nat, block : Nat,
        data : Block \cup {Unread}]

\* The list holds what the level needs; no command is known before it is given.
TypeOK ==
  /\ s \in Server /\ s.lastClientCommand <= Len(commands)
  /\ c \in Client
  /\ c.downloadList \subseteq IF c.serverId = 0 THEN {} ELSE Needed(c.serverId)
  /\ commands \in Seq(Command)
  /\ \A n \in DOMAIN commands : commands[n].what = "download" => commands[n].which \in File
  /\ toServer \in Seq(PacketType)
  /\ \A i \in DOMAIN toServer : toServer[i].commands <= Len(commands)
  /\ toClient \in Seq(MessageType)
  /\ Len(toServer) <= Capacity /\ losses \in 0..MaxLosses

\* What the client writes is the file it asked for, block by block, whatever was
\* lost and sent again, unless it took a block of another file.  That happens only
\* when there is a file with fewer blocks than the window, whose blocks are sent
\* again after the file was complete (SV_WriteDownloadToClient, CL_ParseDownload).
Intact ==
  /\ c.mixed # {} => \E f \in File : Blocks[f] < MAX_DOWNLOAD_WINDOW
  /\ c.download # NoFile /\ c.mixed = {} =>
       /\ c.download = c.downloadName
       /\ c.written = [i \in 1..c.downloadBlock |-> [file |-> c.download, index |-> i - 1]]

\* The server gives a client up for a "broken download" (SV_NextDownload_f) only
\* when the client took another file's block for the first of its file: no loss
\* and no level change alone makes an acknowledgement come out of turn.  Two level
\* changes may, the first to a level that needs no pak: the client ends its download,
\* asks for the same file anew, and once more when its donedl is answered, while the
\* first block of it is on the way.
Unbroken == ~Dropped(s) \/ c.mixed # {} \/ s.serverId > 2

\* The reason MAX_DOWNLOAD_WINDOW is 48 (qcommon.h:201): of the commands of a client
\* that took no other file's block no more acknowledgements of blocks wait to be
\* acknowledged themselves than the window has blocks.
RoomForCommands ==
  c.mixed # {} \/
  Cardinality({n \in c.reliableAcknowledge + 1..Len(commands) : commands[n].what = "nextdl"})
    <= MAX_DOWNLOAD_WINDOW

\* A download comes to an end, whatever is lost on the way, unless what is lost
\* is the refusal of it, which the server does not repeat.
Downloaded == []<>(c.downloadName \in Refused \cup {NoFile} \/ Dropped(s))

\* "if we can tell that the client has dropped the last gamestate we sent them,
\* resend it" (sv_client.c:1760): so a client gets into the level.  It does not
\* hold: the server only looks when the serverId of a packet is another.
Loads == <>(c.state # "CA_CONNECTED" \/ Dropped(s))

=============================================================================
