----------------------------- MODULE SvNetChan -----------------------------
(***************************************************************************)
(* How the server sends to one client (src/server/sv_net_chan.c): the      *)
(* netchan of NetChan, plus the queue that holds the messages built while  *)
(* a fragmented one is still going out, plus the encoding the alternate    *)
(* protocols put on a message.                                             *)
(*                                                                         *)
(* SV_Netchan_Encode xors a message with a key made of outgoingSequence    *)
(* and of the last client command the server executed; the client decodes  *)
(* with the sequence of the datagram and the command that the header of    *)
(* the message acknowledges (CL_Netchan_Decode).  A message is readable    *)
(* exactly when the two keys agree, so the model keeps, beside each        *)
(* message, the command its header acknowledges and the key it is under.   *)
(***************************************************************************)
EXTENDS NetChan

CONSTANTS
  Messages,           \* the messages the server may build
  alternateProtocol,  \* 0: plain messages and a checksum; 1, 2: encoded
  MaxMessages,        \* bound: messages the server builds
  MaxClientCommands   \* bound: client commands the server executes

ASSUME MessagesAssumption == Messages \subseteq Message
ASSUME ProtocolAssumption == alternateProtocol \in 0..2
ASSUME BoundsAssumption == MaxMessages \in Nat /\ MaxClientCommands \in Nat

VARIABLES
  netchan_queue,      \* messages waiting for the netchan, oldest first
  lastClientCommand,  \* the last client command executed
  headers,            \* headers[s]: what message s acknowledges and its key
  built               \* history: every message built, in order

svVars == <<netchan_queue, lastClientCommand, headers, built>>
vars == <<chanVars, svVars>>

NoKey == <<0, 0>>

\* The key SV_Netchan_Encode would use now.
EncodeKey == <<outgoingSequence, lastClientCommand>>

\* The key the client uses for the message numbered s.
DecodeKey(s) ==
  IF alternateProtocol = 0 THEN NoKey ELSE <<s, headers[s].reliableAcknowledge>>

Built == [data : Message, reliableAcknowledge : Nat]

Init ==
  /\ Netchan_Setup
  /\ netchan_queue = <<>>
  /\ lastClientCommand = 0
  /\ headers = <<>>
  /\ built = <<>>

\* Mutant: only an unfinished message makes the next one wait.
SV_Netchan_Transmit_IgnoreQueue(m) ==
  LET msg == [data |-> m, reliableAcknowledge |-> lastClientCommand]
  IN  /\ Len(built) < MaxMessages
      /\ built' = Append(built, msg)
      /\ IF unsentFragments
         THEN /\ netchan_queue' = Append(netchan_queue, msg)
              /\ UNCHANGED <<chanVars, headers>>
         ELSE /\ Netchan_Transmit(m)
              /\ headers' = Append(headers,
                   [reliableAcknowledge |-> msg.reliableAcknowledge, key |-> NoKey])
              /\ UNCHANGED netchan_queue
      /\ UNCHANGED lastClientCommand

\* The server builds a message m (a gamestate, a snapshot or a download
\* block) and hands it to SV_Netchan_Transmit.  Its header acknowledges the
\* client commands executed so far.
SV_Netchan_Transmit(m) ==
  LET msg == [data |-> m, reliableAcknowledge |-> lastClientCommand]
  IN  /\ Len(built) < MaxMessages
      /\ built' = Append(built, msg)
      /\ IF unsentFragments \/ netchan_queue # <<>>
         THEN /\ netchan_queue' = Append(netchan_queue, msg)
              /\ UNCHANGED <<chanVars, headers>>
         ELSE /\ Netchan_Transmit(m)
              /\ headers' = Append(headers,
                   [reliableAcknowledge |-> msg.reliableAcknowledge,
                    key |-> IF alternateProtocol = 0 THEN NoKey ELSE EncodeKey])
              /\ UNCHANGED netchan_queue
      /\ UNCHANGED lastClientCommand

\* A queued message leaves as it was stored.
SV_Netchan_TransmitNextInQueue ==
  /\ Netchan_Transmit(Head(netchan_queue).data)
  /\ headers' = Append(headers,
       [reliableAcknowledge |-> Head(netchan_queue).reliableAcknowledge, key |-> NoKey])
  /\ netchan_queue' = Tail(netchan_queue)

\* Mutant: the queue is never looked at.
SV_Netchan_TransmitNextFragment_NoQueue ==
  /\ Netchan_TransmitNextFragment
  /\ UNCHANGED svVars

\* Called for every client by SV_SendQueuedMessages when the rate allows it.
SV_Netchan_TransmitNextFragment ==
  /\ \/ /\ Netchan_TransmitNextFragment
        /\ UNCHANGED <<netchan_queue, headers>>
     \/ /\ ~unsentFragments
        /\ netchan_queue # <<>>
        /\ SV_Netchan_TransmitNextInQueue
  /\ UNCHANGED <<lastClientCommand, built>>

\* The server executes the client's next command (SV_ClientCommand).
ExecuteClientCommand ==
  /\ lastClientCommand < MaxClientCommands
  /\ lastClientCommand' = lastClientCommand + 1
  /\ UNCHANGED <<chanVars, netchan_queue, headers, built>>

\* The client reads a datagram.
CL_Netchan_Process(p) ==
  /\ Netchan_Process(p)
  /\ UNCHANGED svVars

Next ==
  \/ \E m \in Messages : SV_Netchan_Transmit(m)
  \/ SV_Netchan_TransmitNextFragment
  \/ ExecuteClientCommand
  \/ \E p \in packets : CL_Netchan_Process(p)

Spec == Init /\ [][Next]_vars

(***************************************************************************)
(* SV_Frame runs for as long as the server does, and SV_SendQueuedMessages *)
(* calls SV_Netchan_TransmitNextFragment for every client once per round.  *)
(* Nothing is assumed of the network.                                      *)
(***************************************************************************)
Fairness == WF_vars(SV_Netchan_TransmitNextFragment)

FairSpec == Spec /\ Fairness

-----------------------------------------------------------------------------
(***************************************************************************)
(* Properties.                                                             *)
(***************************************************************************)

TypeOK ==
  /\ ChanTypeOK
  /\ netchan_queue \in Seq(Built)
  /\ lastClientCommand \in Nat
  /\ headers \in Seq([reliableAcknowledge : Nat, key : Nat \X Nat])
  /\ built \in Seq(Built)

\* No message the server built is lost, repeated or overtaken before it gets
\* to the wire: what is transmitted and what is queued make up what was
\* built ("make sure they get sent in correct order", sv_net_chan.c:206).
QueueKeepsOrder ==
  [k \in DOMAIN built |-> built[k].data] =
    transmitted \o [k \in DOMAIN netchan_queue |-> netchan_queue[k].data]

\* The client can read every message it accepts: the message was encoded with
\* the key the client decodes with ("insert it in the queue, the message will
\* be encoded and sent later", sv_net_chan.c:226).  It does not hold with an
\* alternate protocol: a message that waited in the queue is not encoded.
Readable ==
  \A i \in DOMAIN received :
    headers[received[i].sequence].key = DecodeKey(received[i].sequence)

\* Every message the server builds is put on the wire to its last fragment,
\* also one that was queued behind others.
EventuallySent ==
  \A k \in 1..MaxMessages : Len(built) >= k ~> outgoingSequence > k

\* The netchan keeps the promise of module MessageChannel, which is what module
\* Session takes for granted: the queue, the fragments and the sequence numbers
\* of net_chan.c and sv_net_chan.c do together what "sent in correct order"
\* (sv_net_chan.c:206) asks for.
Channel == INSTANCE MessageChannel WITH
  sent <- [k \in DOMAIN built |-> built[k].data],
  delivered <- received

KeepsPromise == Channel!Spec

\* The inductive invariant of the server's channel.
SvReassemblyInv == TypeOK /\ ReassemblyInv
=============================================================================
