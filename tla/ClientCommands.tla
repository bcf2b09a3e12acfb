--------------------------- MODULE ClientCommands ---------------------------
(***************************************************************************)
(* What the client sends the server: reliable commands, each repeated in   *)
(* every packet until it is acknowledged, and moves (usercmd_t), repeated  *)
(* in the next cl_packetdup packets and then forgotten.                    *)
(*                                                                         *)
(* The session is one that stays in its level: the client has the          *)
(* gamestate, the server waits for its first move.  Below is the netchan,  *)
(* so a direction is a sequence of messages that may lose any element.     *)
(*                                                                         *)
(* A command is known by its number and a ring slot holds the number of    *)
(* the command whose text is there; a move is known by its cmdNumber.      *)
(***************************************************************************)
EXTENDS Integers, Sequences

CONSTANTS
  MAX_RELIABLE_COMMANDS,
  MAX_PACKET_USERCMDS,   \* moves a packet holds
  cl_packetdup,          \* packets a move is repeated in
  Capacity,              \* bound: messages in flight in one direction
  MaxCommands,           \* bound: commands the client adds
  MaxMoves               \* bound: moves the client makes

M == MAX_RELIABLE_COMMANDS
ASSUME RingAssumption == M \in Nat \ {0}
ASSUME MovesAssumption == MAX_PACKET_USERCMDS \in Nat \ {0} /\ cl_packetdup \in 0..5
ASSUME BoundsAssumption == {Capacity, MaxCommands, MaxMoves} \subseteq Nat

VARIABLES
  clc,         \* the client's connection
  cmds,        \* history: the moves made; its length is cl.cmdNumber
  outPackets,  \* cmdNumber at the last cl_packetdup + 1 packets, oldest first
  added,       \* history: the commands added; its length is reliableSequence
  cl,          \* the server's client_t
  toServer,    \* packets in flight, oldest first
  lostLast,    \* history: packets lost after the last one in toServer
  toClient,    \* the acknowledgements in flight
  executed,    \* history: the commands the server executed, in order
  thought      \* history: what moves each packet made the server execute

vars == <<clc, cmds, outPackets, added, cl, toServer, lostLast, toClient, executed, thought>>
clientVars == <<clc, cmds, outPackets, added>>
serverVars == <<cl, executed, thought>>

Slots == 0..M-1
Kinds == {"game", "disconnect"}

\* overflowed says that a command took the slot of an unacknowledged one.
ClientConnection ==
  [state : {"CA_ACTIVE", "CA_DISCONNECTED"}, reliableAcknowledge : Nat,
   reliableCommands : [Slots -> Nat], overflowed : BOOLEAN]

\* A move: the level time it is for, and the commands added before it.
Usercmd == [serverTime : Nat, commands : Nat]

\* entered is the time of the move that let the client in; missed says that
\* moves were lost for good on the way.
ClientT == [state : {"CS_ZOMBIE", "CS_PRIMED", "CS_ACTIVE"}, lastClientCommand : Nat,
            lastUsercmd : Nat, entered : Nat, missed : BOOLEAN]

\* A packet: the commands from number first on, the moves from + 1 .. upTo, and
\* how many packets directly before it were lost.
Packet == [first : Nat \ {0}, commands : Seq(Nat), from : Nat, upTo : Nat,
           clipped : BOOLEAN, lost : Nat]

Thought == [moves : SUBSET Nat, commands : Nat]

reliableSequence == Len(added)
cmdNumber == Len(cmds)
Unacknowledged == reliableSequence - clc.reliableAcknowledge

\* Losses in a row are counted as far as anything depends on them.
MaxLost == IF cl_packetdup < 2 THEN 3 ELSE cl_packetdup + 1
Count(n) == IF n > MaxLost THEN MaxLost ELSE n

Init ==
  /\ clc = [state |-> "CA_ACTIVE", reliableAcknowledge |-> 0,
            reliableCommands |-> [s \in Slots |-> 0], overflowed |-> FALSE]
  /\ cmds = <<>>
  /\ outPackets = [k \in 1..cl_packetdup + 1 |-> 0]
  /\ added = <<>>
  /\ cl = [state |-> "CS_PRIMED", lastClientCommand |-> 0, lastUsercmd |-> 0,
           entered |-> 0, missed |-> FALSE]
  /\ toServer = <<>>
  /\ lostLast = 0
  /\ toClient = <<>>
  /\ executed = <<>>
  /\ thought = <<>>

-----------------------------------------------------------------------------
(* The network. *)

\* Losing packet i of toServer; the packet behind it knows.
LosePacket(i) ==
  /\ toServer' = [k \in 1..Len(toServer) - 1 |->
       IF k < i THEN toServer[k]
       ELSE IF k = i
       THEN [toServer[k + 1] EXCEPT !.lost = Count(@ + toServer[i].lost + 1)]
       ELSE toServer[k + 1]]
  /\ lostLast' = IF i = Len(toServer) THEN Count(lostLast + toServer[i].lost + 1)
                 ELSE lostLast

\* A sequence without its element n.
Without(q, n) == SubSeq(q, 1, n - 1) \o SubSeq(q, n + 1, Len(q))

Lose ==
  \/ /\ \E i \in DOMAIN toServer : LosePacket(i)
     /\ UNCHANGED <<clientVars, serverVars, toClient>>
  \/ /\ \E i \in DOMAIN toClient : toClient' = Without(toClient, i)
     /\ UNCHANGED <<clientVars, serverVars, toServer, lostLast>>

-----------------------------------------------------------------------------
(* The client. *)

\* CL_AddReliableCommand, for a command that is not the disconnect, and finds
\* room; the disconnect is part of CL_Disconnect.
CL_AddReliableCommand ==
  /\ clc.state # "CA_DISCONNECTED"
  /\ reliableSequence < MaxCommands
  /\ Unacknowledged < M
  /\ added' = Append(added, "game")
  /\ clc' = [clc EXCEPT !.reliableCommands[(reliableSequence + 1) % M] = reliableSequence + 1]
  /\ UNCHANGED <<cmds, outPackets, serverVars, toServer, lostLast, toClient>>

\* A move, for the time it is, which may be the time of the move before it.
CL_CreateNewCommands ==
  /\ clc.state # "CA_DISCONNECTED"
  /\ cmdNumber < MaxMoves
  /\ \E dt \in {0, 1} :
       cmds' = Append(cmds,
         [serverTime |-> dt + (IF cmds = <<>> THEN 0 ELSE cmds[cmdNumber].serverTime),
          commands |-> reliableSequence])
  /\ UNCHANGED <<clc, outPackets, added, serverVars, toServer, lostLast, toClient>>

\* Mutant: only the moves since the last packet are sent.
FirstMove_NoDuplicates(sent) == sent[Len(sent)]

\* The moves sent are those since the packet cl_packetdup before the last.
FirstMove(sent) == sent[1]

\* The first command that is not acknowledged.
FirstCommand == clc.reliableAcknowledge + 1

\* The packet CL_WritePacket builds: all unacknowledged commands out of ring,
\* of which the last is number n, and the moves not in the packets before sent.
NewPacket(n, ring, sent, lost) ==
  LET first == FirstCommand
      count == cmdNumber - FirstMove(sent)
      clipped == count > MAX_PACKET_USERCMDS
  IN  [first |-> first,
       commands |-> [k \in 1..(n - first + 1) |-> ring[(first + k - 1) % M]],
       from |-> IF clipped THEN cmdNumber - MAX_PACKET_USERCMDS ELSE FirstMove(sent),
       upTo |-> cmdNumber, clipped |-> clipped, lost |-> lost]

\* The packets before the next one.
Sent(sent) == Append(Tail(sent), cmdNumber)

CL_WritePacket ==
  /\ clc.state # "CA_DISCONNECTED"
  /\ Len(toServer) < Capacity
  /\ toServer' = Append(toServer,
       NewPacket(reliableSequence, clc.reliableCommands, outPackets, lostLast))
  /\ lostLast' = 0
  /\ outPackets' = Sent(outPackets)
  /\ UNCHANGED <<clc, cmds, added, serverVars, toClient>>

\* Mutant: the disconnect is sent once.
LastPackets_One(n, ring) == <<NewPacket(n, ring, outPackets, lostLast)>>

\* CL_Disconnect sends three packets, "in case one is dropped".
LastPackets(n, ring) ==
  <<NewPacket(n, ring, outPackets, lostLast),
    NewPacket(n, ring, Sent(outPackets), 0),
    NewPacket(n, ring, Sent(Sent(outPackets)), 0)>>

\* CL_Disconnect, because the user leaves, or because CL_AddReliableCommand
\* found no room for a command: the disconnect is added also to a full ring.
CL_Disconnect ==
  LET n == reliableSequence + 1
      ring == [clc.reliableCommands EXCEPT ![n % M] = n]
  IN  /\ clc.state # "CA_DISCONNECTED"
      /\ Len(toServer) + 3 <= Capacity
      /\ added' = Append(added, "disconnect")
      /\ toServer' = toServer \o LastPackets(n, ring)
      /\ lostLast' = 0
      /\ clc' = [state |-> "CA_DISCONNECTED", reliableAcknowledge |-> 0,
                 reliableCommands |-> [s \in Slots |-> 0],
                 overflowed |-> Unacknowledged >= M]
      /\ UNCHANGED <<cmds, outPackets, serverVars, toClient>>

\* Mutant: what was sent is taken for acknowledged.
CL_ParseServerMessage_AllSent ==
  /\ toClient # <<>>
  /\ clc' = IF clc.state = "CA_DISCONNECTED" THEN clc
            ELSE [clc EXCEPT !.reliableAcknowledge = reliableSequence]
  /\ toClient' = Tail(toClient)
  /\ UNCHANGED <<cmds, outPackets, added, serverVars, toServer, lostLast>>

\* CL_ParseServerMessage reads the acknowledgement in every message.
CL_ParseServerMessage ==
  /\ toClient # <<>>
  /\ clc' = IF clc.state = "CA_DISCONNECTED" THEN clc
            ELSE [clc EXCEPT !.reliableAcknowledge =
                    IF Head(toClient) < reliableSequence - M THEN reliableSequence
                    ELSE Head(toClient)]
  /\ toClient' = Tail(toClient)
  /\ UNCHANGED <<cmds, outPackets, added, serverVars, toServer, lostLast>>

-----------------------------------------------------------------------------
(* The server. *)

\* Every message to the client acknowledges its commands.
SV_SendMessage ==
  /\ Len(toClient) < Capacity
  /\ toClient' = Append(toClient, cl.lastClientCommand)
  /\ UNCHANGED <<clientVars, serverVars, toServer, lostLast>>

Drop(c) == [c EXCEPT !.state = "CS_ZOMBIE"]

\* The client is kicked, or times out.
SV_DropClient ==
  /\ cl.state # "CS_ZOMBIE"
  /\ cl' = Drop(cl)
  /\ UNCHANGED <<clientVars, executed, thought, toServer, lostLast, toClient>>

Time(k) == cmds[k].serverTime
LastCommand(p) == p.first + Len(p.commands) - 1

\* Mutant: a move for the time of the last one counts as new.
IsNew_SameTime(last, k) == Time(k) >= last

\* A move the server has not executed.
IsNew(last, k) == Time(k) > last

\* SV_UserMove for client c: its first move lets it in, the new ones are
\* executed, of those for the same time the first.
SV_UserMove(c, p, done) ==
  LET first == p.from + 1
      entering == c.state = "CS_PRIMED"
      last == IF entering THEN Time(first) ELSE c.lastUsercmd
      made == {k \in first..p.upTo :
                 /\ Time(k) <= Time(p.upTo)
                 /\ IsNew(last, k)
                 /\ \A j \in first..k - 1 : Time(j) # Time(k)}
  IN  IF p.upTo = p.from
      THEN /\ cl' = c
           /\ UNCHANGED thought
      ELSE /\ cl' = [c EXCEPT !.state = "CS_ACTIVE",
                              !.entered = IF entering THEN last ELSE @,
                              !.lastUsercmd = IF Time(p.upTo) > last THEN Time(p.upTo) ELSE last]
           /\ thought' = IF made = {} THEN thought
                         ELSE Append(thought, [moves |-> made, commands |-> done])

\* Mutant: the last command is executed once more.
NextCommand_Last == cl.lastClientCommand

\* The command the server is to execute next.
NextCommand == cl.lastClientCommand + 1

\* The client after the commands of packet p up to number last.
Heard(p, last) ==
  [cl EXCEPT !.lastClientCommand = last,
             !.missed = @ \/ (cl.state = "CS_ACTIVE" /\ (p.clipped \/ p.lost > cl_packetdup))]

\* Mutant: the commands of a packet are executed after its moves.
SV_ExecuteClientMessage_MovesFirst(p) ==
  LET last == IF LastCommand(p) > cl.lastClientCommand THEN LastCommand(p)
              ELSE cl.lastClientCommand
  IN  /\ executed' = executed \o [k \in 1..last - cl.lastClientCommand |->
                                    p.commands[cl.lastClientCommand + k - p.first + 1]]
      /\ SV_UserMove([cl EXCEPT !.lastClientCommand = last], p, Len(executed))

\* SV_ExecuteClientMessage: first the commands of packet p, by SV_ClientCommand,
\* up to a disconnect, then its moves.  A gap before the commands ends it all.
SV_ExecuteClientMessage(p) ==
  LET next == IF p.first > NextCommand THEN p.first ELSE NextCommand
      all == IF LastCommand(p) >= next THEN LastCommand(p) ELSE cl.lastClientCommand
      Text(n) == p.commands[n - p.first + 1]
      IsEnd(n) == n >= next /\ added[Text(n)] = "disconnect"
  IN  IF all >= next /\ next > cl.lastClientCommand + 1
      THEN /\ cl' = Drop(cl)
           /\ UNCHANGED <<executed, thought>>
      ELSE \E last \in cl.lastClientCommand..all :
             LET done == executed \o [k \in 1..(last - next + 1) |-> Text(next + k - 1)]
                 heard == Heard(p, last)
             IN  /\ \A n \in next..last - 1 : ~IsEnd(n)
                 /\ last = all \/ IsEnd(last)
                 /\ executed' = done
                 /\ IF IsEnd(last) THEN cl' = Drop(heard) /\ UNCHANGED thought
                    ELSE SV_UserMove(heard, p, Len(done))

SV_PacketEvent ==
  /\ toServer # <<>>
  /\ IF cl.state = "CS_ZOMBIE" THEN UNCHANGED serverVars
     ELSE SV_ExecuteClientMessage(Head(toServer))
  /\ toServer' = Tail(toServer)
  /\ UNCHANGED <<clientVars, lostLast, toClient>>

-----------------------------------------------------------------------------
Next ==
  \/ CL_AddReliableCommand \/ CL_CreateNewCommands \/ CL_WritePacket
  \/ CL_Disconnect \/ CL_ParseServerMessage
  \/ SV_SendMessage \/ SV_DropClient \/ SV_PacketEvent
  \/ Lose

Spec == Init /\ [][Next]_vars

(***************************************************************************)
(* The frames of both programs run on, and the network delivers some of    *)
(* the packets and some of the messages.                                   *)
(***************************************************************************)
Fairness ==
  /\ WF_vars(CL_WritePacket)
  /\ WF_vars(SV_SendMessage)
  /\ SF_vars(SV_PacketEvent)
  /\ SF_vars(CL_ParseServerMessage)

FairSpec == Spec /\ Fairness

-----------------------------------------------------------------------------
(***************************************************************************)
(* Properties.                                                             *)
(***************************************************************************)

TypeOK ==
  /\ clc \in ClientConnection
  /\ cmds \in Seq(Usercmd)
  /\ outPackets \in Seq(Nat)
  /\ added \in Seq(Kinds)
  /\ cl \in ClientT
  /\ toServer \in Seq(Packet)
  /\ lostLast \in Nat
  /\ toClient \in Seq(Nat)
  /\ executed \in Seq(Nat)
  /\ thought \in Seq(Thought)

\* The commands of the client are executed each once and in their order, and
\* the server never finds one missing, unless a disconnect overflowed the ring
\* (CL_AddReliableCommand, SV_ClientCommand).
Commands == INSTANCE ReliableCommands WITH issued <- added, givenUp <- clc.overflowed

KeepsPromise == Commands!Spec

\* The server never has to "drop the connection if we have somehow lost
\* commands" (sv_client.c:1399): no packet leaves a gap after the commands it
\* has executed.
NothingLost == \A i \in DOMAIN toServer : toServer[i].first <= cl.lastClientCommand + 1

\* A command "is gauranteed to not have future usercmd_t executed before it is
\* executed" (cl_main.c:593): the moves of a packet are executed after all
\* commands that were added before them.
CommandsBeforeMoves ==
  \A i \in DOMAIN thought : \A k \in thought[i].moves :
    cmds[k].commands <= thought[i].commands

\* Although a move is sent in several packets it is executed once, and after
\* those before it (SV_UserMove).
MovesInOrder ==
  \A i, j \in DOMAIN thought : i < j =>
    \A k \in thought[i].moves, l \in thought[j].moves : Time(k) < Time(l)

\* "even if a couple packets are dropped in a row, all the cmds will make it to
\* the server" (cl_input.c:774): while no more than cl_packetdup packets in a
\* row are lost, and none held more moves than fit, there is a move executed
\* for every time the client moved at.
MovesMade ==
  ~cl.missed =>
    \A k \in DOMAIN cmds :
      cl.entered < Time(k) /\ Time(k) <= cl.lastUsercmd =>
        \E i \in DOMAIN thought : \E l \in thought[i].moves : Time(l) = Time(k)

\* "send it a few times in case one is dropped" (cl_main.c:1455): the server
\* knows that the client left unless its last three packets were all lost.
DisconnectHeard ==
  clc.state = "CA_DISCONNECTED" /\ toServer = <<>> /\ lostLast < 3 =>
    cl.state = "CS_ZOMBIE"

\* "also leave one slot open for the disconnect command" (cl_main.c:603): the
\* disconnect never takes the slot of a command the server may still need.  It
\* does not hold when the ring is full.
SlotForDisconnect ==
  \A i \in DOMAIN toServer : \A k \in DOMAIN toServer[i].commands :
    toServer[i].commands[k] = toServer[i].first + k - 1

\* Every command is executed, unless the client leaves or is dropped.
Delivered ==
  \A n \in 1..MaxCommands :
    reliableSequence >= n ~>
      Len(executed) >= n \/ cl.state = "CS_ZOMBIE" \/ clc.state = "CA_DISCONNECTED"

-----------------------------------------------------------------------------
(***************************************************************************)
(* The inductive invariant.                                                *)
(***************************************************************************)

Connected == clc.state # "CA_DISCONNECTED"

\* A connected client never overflowed its ring: it holds the last M commands,
\* and so all that wait for an acknowledgement.
RingInv ==
  Connected =>
    /\ ~clc.overflowed
    /\ clc.reliableAcknowledge <= cl.lastClientCommand
    /\ Unacknowledged <= M
    /\ \A n \in 1..reliableSequence :
         n > reliableSequence - M => clc.reliableCommands[n % M] = n

\* The acknowledgements on their way never go back.
AcknowledgeInv ==
  /\ cl.lastClientCommand <= reliableSequence
  /\ \A i \in DOMAIN toClient :
       /\ toClient[i] <= cl.lastClientCommand
       /\ Connected => clc.reliableAcknowledge <= toClient[i]
  /\ \A i, j \in DOMAIN toClient : i <= j => toClient[i] <= toClient[j]

\* A packet's commands leave no gap at the server, end with the last one added
\* when it was built, and its moves are not older than they are.
PacketFits(p) ==
  /\ p.first <= cl.lastClientCommand + 1
  /\ p.from <= p.upTo
  /\ p.upTo <= cmdNumber
  /\ LastCommand(p) <= reliableSequence
  /\ \A k \in DOMAIN p.commands : p.commands[k] \in 1..reliableSequence
  /\ ~clc.overflowed => \A k \in DOMAIN p.commands : p.commands[k] = p.first + k - 1
  /\ \A k \in p.from + 1..p.upTo : cmds[k].commands <= LastCommand(p)

PacketInv == \A i \in DOMAIN toServer : PacketFits(toServer[i])

MoveInv ==
  /\ \A k \in DOMAIN cmds : cmds[k].commands <= reliableSequence
  /\ Len(outPackets) = cl_packetdup + 1
  /\ \A k \in DOMAIN outPackets : outPackets[k] <= cmdNumber
  /\ \A i \in DOMAIN thought : thought[i].moves \subseteq 1..cmdNumber

\* The server has executed as many commands as it acknowledges.
ExecutedInv ==
  /\ Len(executed) = cl.lastClientCommand
  /\ ~clc.overflowed => \A n \in DOMAIN executed : executed[n] = n

\* Client, server and network agree on the client's commands
\* (CL_AddReliableCommand, CL_WritePacket, SV_ClientCommand).
ClientCommandsInv ==
  /\ TypeOK /\ RingInv /\ AcknowledgeInv /\ PacketInv /\ MoveInv /\ ExecutedInv
  /\ CommandsBeforeMoves

\* Moves are for later and later times.  The server has executed none for a time
\* after lastUsercmd, which is the time of a move, and none before one let the
\* client in.
UsercmdInv ==
  /\ \A j, k \in DOMAIN cmds : j <= k => Time(j) <= Time(k)
  /\ cl.lastUsercmd = 0 \/ \E k \in DOMAIN cmds : Time(k) = cl.lastUsercmd
  /\ cl.state = "CS_PRIMED" => thought = <<>>
  /\ \A i \in DOMAIN thought : \A k \in thought[i].moves : Time(k) <= cl.lastUsercmd

\* Every move is executed once and in its order (SV_UserMove).
MovesInv == UsercmdInv /\ MovesInOrder

\* A move is in the packet it is made for and in the cl_packetdup packets after.
Window == cl_packetdup + 1

\* Packet p has the moves after move m, unless there were too many.
Follows(p, m) == p.clipped \/ p.from = m

\* The packets q in flight stand in line among the n sent, of which packet m went
\* up to move upTo[m]: q[i] is packet at[i], and at[0] the last one the server
\* read.  A packet counts those lost directly before it, last those lost after
\* all of q.  Packets 0..cl_packetdup are imagined, so that each has a window.
Line(q, last, n, upTo, at) ==
  /\ q \in Seq(Packet)
  /\ \A i \in 0..Len(q) : Window <= at[i] /\ at[i] <= n
  /\ \A i \in 1..Len(q) :
       /\ at[i - 1] < at[i]
       /\ q[i].lost = Count(at[i] - at[i - 1] - 1)
       /\ q[i].upTo = upTo[at[i]]
       /\ Follows(q[i], upTo[at[i] - Window])
  /\ last = Count(n - at[Len(q)])

\* No packet goes back behind the moves of one before.
Numbered(n, upTo) ==
  /\ \A i, j \in 0..n : i <= j => upTo[i] <= upTo[j]
  /\ upTo[n] <= cmdNumber

\* The last packets are the ones sent remembers.
Remembers(sent, n, upTo) ==
  /\ sent \in Seq(Nat) /\ Len(sent) = Window
  /\ \A k \in 1..Window : sent[k] = upTo[n - Window + k]

\* While nothing was missed, the server has the moves of the packets it read.
Followed(upTo, at) ==
  cl.state = "CS_ACTIVE" /\ ~cl.missed =>
    \A k \in DOMAIN cmds : k <= upTo[at[0]] => Time(k) <= cl.lastUsercmd

\* The last three packets of a client that left end with the disconnect, and the
\* server that has read one of them, or executed the command, knows.
Left(n, at) ==
  clc.state = "CA_DISCONNECTED" =>
    /\ reliableSequence \in DOMAIN added /\ added[reliableSequence] = "disconnect"
    /\ at[0] > n - 3 \/ cl.lastClientCommand = reliableSequence => cl.state = "CS_ZOMBIE"
    /\ \A i \in DOMAIN toServer :
         /\ at[i] > n - 3 => LastCommand(toServer[i]) = reliableSequence
         /\ LastCommand(toServer[i]) = reliableSequence =>
              /\ toServer[i].commands # <<>>
              /\ toServer[i].commands[Len(toServer[i].commands)] = reliableSequence

Positions(n, upTo, at) ==
  /\ Line(toServer, lostLast, n, upTo, at)
  /\ Numbered(n, upTo)
  /\ Connected => Remembers(outPackets, n, upTo)
  /\ Followed(upTo, at)
  /\ Left(n, at)
=============================================================================
