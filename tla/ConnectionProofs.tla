-------------------------- MODULE ConnectionProofs --------------------------
(***************************************************************************)
(* Proofs about Connection: types, that the game has a player where the    *)
(* server has a client, that a client that keeps its qport has one slot,   *)
(* and, for clients that keep their addresses as well and a network that   *)
(* forgets a datagram in time, that both ends of a connection agree on its *)
(* challenge and that none that stands is set up again.  All for any       *)
(* number of clients, slots and challenges.                                *)
(***************************************************************************)
EXTENDS Connection, WellFoundedInduction, TLAPS

-----------------------------------------------------------------------------
(* Least elements and ages. *)

\* Min of a set of natural numbers is its least element.
LEMMA MinIsLeast ==
  ASSUME NEW S, S \subseteq Nat, S # {}
  PROVE  Min(S) \in S /\ \A k \in S : Min(S) <= k
<1>1. PICK n \in S : \A k \in S : ~(<<k, n>> \in OpToRel(<, Nat))
  BY NatLessThanWellFounded, WFMin
<1>2. ASSUME NEW k \in S PROVE n <= k
  <2>1. k \in Nat /\ n \in Nat
    OBVIOUS
  <2>2. <<k, n>> \in OpToRel(<, Nat) <=> k < n
    BY <2>1, Zenon DEF OpToRel
  <2>3. ~(k < n)
    BY <1>1, <2>2, Zenon
  <2> QED
    BY <2>1, <2>3
<1> QED
  BY <1>2 DEF Min

\* An age stays within its limit.
LEMMA OlderType ==
  ASSUME NEW last \in Nat, NEW age \in 0..last
  PROVE  Older(age, last) \in 0..last
<1>1. {age + 1, last} \subseteq Nat /\ {age + 1, last} # {}
  OBVIOUS
<1>2. Min({age + 1, last}) \in {age + 1, last} /\ Min({age + 1, last}) <= last
  BY <1>1, MinIsLeast
<1> QED
  BY <1>2 DEF Older

LEMMA LimitTypes ==
  /\ RETRANSMIT_TIMEOUT \in Nat /\ sv_reconnectlimit \in Nat /\ sv_zombietime \in Nat
  /\ sv_timeout \in Nat /\ Lifetime \in Nat
  /\ LongSilent \in Nat
<1>1. {RETRANSMIT_TIMEOUT, sv_reconnectlimit, sv_zombietime, sv_timeout, Lifetime} \subseteq Nat
  BY TimeAssumption
<1>2. Max({sv_zombietime, sv_timeout}) \in Nat
  <2>1. \E x \in {sv_zombietime, sv_timeout} : \A y \in {sv_zombietime, sv_timeout} : x >= y
    BY <1>1
  <2> QED
    BY <1>1, <2>1 DEF Max
<1> QED
  BY <1>1, <1>2 DEF LongSilent

LEMMA NoClientType == NoClient \in ClientT
<1>1. (CHOOSE q \in QPorts : TRUE) \in QPorts
  BY ClientAssumption
<1> QED
  BY <1>1, LimitTypes DEF NoClient, ClientT

-----------------------------------------------------------------------------
(* Datagrams. *)

LEMMA FromClientType ==
  ASSUME TypeOK, NEW c \in Clients,
         NEW kind \in {"getchallenge", "connect", "disconnect"}
  PROVE  FromClient(c, kind) \in ToServer
BY LimitTypes DEF TypeOK, FromClient, ToServer, ClientConnection

LEMMA FromServerType ==
  ASSUME NEW to \in Addresses, NEW number \in Nat, NEW reply \in Nat,
         NEW kind \in {"challengeResponse", "connectResponse", "print"}
  PROVE  FromServer(kind, to, number, reply) \in ToClient
BY LimitTypes DEF FromServer, ToClient

LEMMA SendType ==
  ASSUME TypeOK, NEW d \in ToServer \cup ToClient, Send(d)
  PROVE  network' \subseteq ToServer \cup ToClient
BY DEF TypeOK, Send, Younger

LEMMA ToServerHasFrom ==
  ASSUME NEW d \in ToServer \cup ToClient, "from" \in DOMAIN d
  PROVE  d \in ToServer
BY DEF ToServer, ToClient

LEMMA ToClientHasTo ==
  ASSUME NEW d \in ToServer \cup ToClient, "to" \in DOMAIN d
  PROVE  d \in ToClient
BY DEF ToServer, ToClient

-----------------------------------------------------------------------------
(* Types: the client's steps. *)

LEMMA WipedType ==
  ASSUME TypeOK, NEW c \in Clients
  PROVE  /\ Wiped(c) \in ClientConnection
         /\ Wiped(c).attempts = clc[c].attempts
         /\ Farewell(c) \subseteq ToServer
<1>1. clc[c] \in ClientConnection
  BY DEF TypeOK
<1>2. Wiped(c) \in ClientConnection /\ Wiped(c).attempts = clc[c].attempts
  <2>1. /\ "CA_DISCONNECTED" \in {"CA_DISCONNECTED", "CA_CONNECTING", "CA_CHALLENGING",
                                  "CA_CONNECTED"}
        /\ 0 \in Nat /\ RETRANSMIT_TIMEOUT \in 0..RETRANSMIT_TIMEOUT /\ 0 \in 0..LongSilent
    BY LimitTypes
  <2>2. FALSE \in BOOLEAN
    OBVIOUS
  <2>3. Wiped(c) \in ClientConnection
    BY <1>1, <2>1, <2>2, Zenon DEF Wiped, ClientConnection
  <2>4. Wiped(c).attempts = clc[c].attempts
    BY <1>1 DEF Wiped, ClientConnection
  <2> QED
    BY <2>3, <2>4
<1>3. FromClient(c, "disconnect") \in ToServer
  BY FromClientType
<1> QED
  BY <1>2, <1>3 DEF Farewell

\* A step of the client that sends datagrams of its own only.
LEMMA ClientStep ==
  ASSUME TypeOK, NEW c \in Clients, NEW d \in ClientConnection,
         clc' = [clc EXCEPT ![c] = d],
         network' \subseteq ToServer \cup ToClient,
         UNCHANGED_server, UNCHANGED_routers
  PROVE  TypeOK'
BY DEF TypeOK, UNCHANGED_server, UNCHANGED_routers

LEMMA DisconnectType ==
  ASSUME TypeOK, NEW c \in Clients, CL_Disconnect(c)
  PROVE  TypeOK'
<1>1. network' \subseteq ToServer \cup ToClient
  BY WipedType DEF CL_Disconnect, TypeOK
<1>2. Wiped(c) \in ClientConnection
  BY WipedType
<1> QED
  BY <1>1, <1>2, ClientStep DEF CL_Disconnect

LEMMA ConnectType ==
  ASSUME TypeOK, NEW c \in Clients, CL_Connect_f(c)
  PROVE  TypeOK'
<1> DEFINE d == [Wiped(c) EXCEPT !.state = "CA_CONNECTING", !.attempts = @ + 1,
                                !.number = clc[c].attempts + 1]
<1>1. network' \subseteq ToServer \cup ToClient
  BY WipedType DEF CL_Connect_f, TypeOK
<1>2. d \in ClientConnection
  <2>1. clc[c].attempts \in Nat
    BY DEF TypeOK, ClientConnection
  <2>2. Wiped(c) \in ClientConnection
    BY WipedType
  <2>3. /\ "CA_CONNECTING" \in {"CA_DISCONNECTED", "CA_CONNECTING", "CA_CHALLENGING",
                                "CA_CONNECTED"}
        /\ Wiped(c).attempts + 1 \in Nat /\ clc[c].attempts + 1 \in Nat
    BY <2>1, WipedType
  <2> QED
    BY <2>2, <2>3, Zenon DEF ClientConnection
<1>3. clc' = [clc EXCEPT ![c] = d]
  BY DEF CL_Connect_f
<1> QED
  BY <1>1, <1>2, <1>3, ClientStep DEF CL_Connect_f

LEMMA RestartType ==
  ASSUME TypeOK, NEW c \in Clients, Restart(c)
  PROVE  TypeOK'
<1>1. PICK q \in QPorts : clc' = [clc EXCEPT ![c] = [Wiped(c) EXCEPT !.qport = q]]
  BY DEF Restart
<1>2. [Wiped(c) EXCEPT !.qport = q] \in ClientConnection
  BY WipedType DEF ClientConnection
<1>3. network' \subseteq ToServer \cup ToClient
  BY DEF Restart, TypeOK
<1> QED
  BY <1>1, <1>2, <1>3, ClientStep DEF Restart

LEMMA ResendType ==
  ASSUME TypeOK, NEW c \in Clients, CL_CheckForResend(c)
  PROVE  TypeOK'
<1> DEFINE kind == IF clc[c].state = "CA_CONNECTING" THEN "getchallenge" ELSE "connect"
<1>1. FromClient(c, kind) \in ToServer
  BY FromClientType
<1>2. network' \subseteq ToServer \cup ToClient
  BY <1>1, SendType DEF CL_CheckForResend
<1>3. [clc[c] EXCEPT !.waited = 0] \in ClientConnection
  BY LimitTypes DEF TypeOK, ClientConnection
<1>4. clc' = [clc EXCEPT ![c] = [clc[c] EXCEPT !.waited = 0]]
  BY DEF CL_CheckForResend, TypeOK
<1> QED
  BY <1>2, <1>3, <1>4, ClientStep DEF CL_CheckForResend

\* Whatever a client reads that is numbered.
LEMMA ReadType ==
  ASSUME TypeOK, NEW c \in Clients, NEW d, d.number \in Nat
  PROVE  ReadBy(c, d) \in ClientConnection
<1>1. clc[c] \in ClientConnection /\ Wiped(c) \in ClientConnection
  BY WipedType DEF TypeOK
<1> QED
  <2>1. /\ "CA_CHALLENGING" \in {"CA_DISCONNECTED", "CA_CONNECTING", "CA_CHALLENGING",
                                 "CA_CONNECTED"}
        /\ "CA_CONNECTED" \in {"CA_DISCONNECTED", "CA_CONNECTING", "CA_CHALLENGING",
                               "CA_CONNECTED"}
        /\ 0 \in Nat /\ RETRANSMIT_TIMEOUT \in 0..RETRANSMIT_TIMEOUT /\ 0 \in 0..LongSilent
    BY LimitTypes
  <2>2. FALSE \in BOOLEAN /\ TRUE \in BOOLEAN
    OBVIOUS
  <2>3. /\ [clc[c] EXCEPT !.state = "CA_CHALLENGING", !.number = d.number,
                          !.waited = RETRANSMIT_TIMEOUT] \in ClientConnection
        /\ [clc[c] EXCEPT !.silent = 0] \in ClientConnection
    BY <1>1, <2>1, <2>2, Zenon DEF ClientConnection
  <2>4. /\ [clc[c] EXCEPT !.state = "CA_CONNECTED", !.waited = RETRANSMIT_TIMEOUT,
                          !.told = FALSE] \in ClientConnection
        /\ [clc[c] EXCEPT !.told = TRUE] \in ClientConnection
    BY <1>1, <2>1, <2>2, Zenon DEF ClientConnection
  <2> QED
    BY <1>1, <2>3, <2>4, Zenon DEF ReadBy

LEMMA ClientEventType ==
  ASSUME TypeOK, NEW c \in Clients, NEW d, d.number \in Nat, CL_PacketEvent(c, d)
  PROVE  TypeOK'
<1>1. network' \subseteq ToServer \cup ToClient
  BY WipedType DEF CL_PacketEvent, TypeOK
<1>2. ReadBy(c, d) \in ClientConnection
  BY ReadType
<1> QED
  BY <1>1, <1>2, ClientStep DEF CL_PacketEvent

LEMMA ClientReceivesType ==
  ASSUME TypeOK, NEW c \in Clients, ClientReceives(c)
  PROVE  TypeOK'
<1>1. PICK d \in network : "to" \in DOMAIN d /\ CL_PacketEvent(c, d)
  BY DEF ClientReceives
<1>2. d \in ToClient
  BY <1>1, ToClientHasTo DEF TypeOK
<1>3. d.number \in Nat
  BY <1>2 DEF ToClient
<1> QED
  BY <1>1, <1>3, ClientEventType

-----------------------------------------------------------------------------
(* Types: the server's steps. *)

\* A step of the server that leaves the clients as they are.
LEMMA ServerStep ==
  ASSUME TypeOK,
         slots' \in [Slots -> ClientT], challenges' \in [Entries -> ChallengeT],
         issued' \in Nat, game' \in [Slots -> BOOLEAN],
         network' \subseteq ToServer \cup ToClient,
         UNCHANGED clc, UNCHANGED_routers
  PROVE  TypeOK'
BY DEF TypeOK, UNCHANGED_routers

LEMMA GetChallengeType ==
  ASSUME TypeOK, NEW d \in ToServer, SV_GetChallenge(d)
  PROVE  TypeOK'
<1>1. issued + 1 \in Nat /\ d.from \in Addresses /\ d.number \in Nat
  BY DEF TypeOK, ToServer
<1>2. [adr |-> d.from, challenge |-> issued + 1, connected |-> FALSE] \in ChallengeT
  BY <1>1 DEF ChallengeT
<1>3. challenges' \in [Entries -> ChallengeT]
  BY <1>2 DEF SV_GetChallenge, TypeOK
<1>4. network' \subseteq ToServer \cup ToClient
  BY <1>1, FromServerType, SendType DEF SV_GetChallenge
<1> QED
  BY <1>1, <1>3, <1>4, ServerStep DEF SV_GetChallenge, TypeOK

LEMMA NewClientType ==
  ASSUME NEW d \in ToServer
  PROVE  NewClient(d) \in ClientT
BY LimitTypes DEF ToServer, NewClient, ClientT

\* A refusal, or an answer without a slot.
LEMMA TellType ==
  ASSUME TypeOK, NEW d \in ToServer, Send(FromServer("print", d.from, 0, 0))
  PROVE  network' \subseteq ToServer \cup ToClient
<1>1. d.from \in Addresses
  BY DEF ToServer
<1>2. FromServer("print", d.from, 0, 0) \in ToClient
  BY <1>1, FromServerType
<1> QED
  BY <1>2, SendType

LEMMA AcceptType ==
  ASSUME TypeOK, NEW d \in ToServer, NEW i, Accept(d, i)
  PROVE  /\ slots' \in [Slots -> ClientT] /\ game' \in [Slots -> BOOLEAN]
         /\ network' \subseteq ToServer \cup ToClient
<1>1. slots' \in [Slots -> ClientT]
  BY NewClientType DEF Accept, TypeOK
<1>2. game' \in [Slots -> BOOLEAN]
  BY DEF Accept, TypeOK
<1>3. d.from \in Addresses /\ d.number \in Nat
  BY DEF ToServer
<1>4. FromServer("connectResponse", d.from, d.number, 0) \in ToClient
  BY <1>3, FromServerType
<1> QED
  BY <1>1, <1>2, <1>4, SendType DEF Accept

LEMMA RefuseType ==
  ASSUME TypeOK, NEW d \in ToServer, NEW i, Refuse(d, i)
  PROVE  /\ slots' \in [Slots -> ClientT] /\ game' \in [Slots -> BOOLEAN]
         /\ network' \subseteq ToServer \cup ToClient
<1>1. slots' \in [Slots -> ClientT] /\ game' \in [Slots -> BOOLEAN]
  BY NoClientType DEF Refuse, TypeOK
<1> QED
  BY <1>1, TellType DEF Refuse

LEMMA DirectConnectType ==
  ASSUME TypeOK, NEW d \in ToServer, SV_DirectConnect(d)
  PROVE  TypeOK'
<1>1. /\ slots' \in [Slots -> ClientT] /\ game' \in [Slots -> BOOLEAN]
      /\ network' \subseteq ToServer \cup ToClient
      /\ challenges' \in [Entries -> ChallengeT]
  <2>1. CASE Tell(d) /\ UNCHANGED challenges
    BY <2>1, TellType DEF Tell, TypeOK
  <2>2. CASE Admit(d)
    <3>1. challenges' \in [Entries -> ChallengeT]
      BY <2>2 DEF Admit, TypeOK, ChallengeT
    <3>2. CASE Candidates(d) = {}
      BY <2>2, <3>1, <3>2, TellType DEF Admit, Tell, TypeOK
    <3>3. CASE Candidates(d) # {}
      <4>1. Accept(d, Min(Candidates(d))) \/ Refuse(d, Min(Candidates(d)))
        BY <2>2, <3>3 DEF Admit
      <4> QED
        BY <3>1, <4>1, AcceptType, RefuseType
    <3> QED
      BY <3>2, <3>3
  <2> QED
    BY <2>1, <2>2 DEF SV_DirectConnect
<1> QED
  BY <1>1, ServerStep DEF SV_DirectConnect, TypeOK

LEMMA ForgetType ==
  ASSUME TypeOK, NEW adr
  PROVE  ForgetChallenge(adr) \in [Entries -> ChallengeT]
<1>1. NoChallenge \in ChallengeT
  BY DEF NoChallenge, ChallengeT
<1> QED
  BY <1>1 DEF ForgetChallenge, TypeOK

LEMMA DropType ==
  ASSUME TypeOK, NEW i \in Slots, NEW c \in ClientT, SV_DropClient(i, c)
  PROVE  /\ slots' \in [Slots -> ClientT] /\ game' \in [Slots -> BOOLEAN]
         /\ challenges' \in [Entries -> ChallengeT]
<1>1. [c EXCEPT !.state = "CS_ZOMBIE"] \in ClientT
  BY DEF ClientT
<1>2. game' \in [Slots -> BOOLEAN]
  BY DEF SV_DropClient, TypeOK
<1> QED
  BY <1>1, <1>2, ForgetType DEF SV_DropClient, TypeOK

\* A packet with the address and qport of a slot; what kind it is makes no
\* difference here.
LEMMA PacketEventType ==
  ASSUME TypeOK, NEW d, d.from \in Addresses, SV_PacketEvent(d)
  PROVE  TypeOK'
<1> DEFINE i == Min(Recipients(d))
<1>1. i \in Slots
  <2>1. Recipients(d) \subseteq Nat /\ Recipients(d) # {}
    BY SlotAssumption DEF Recipients, Slots, SV_PacketEvent
  <2> QED
    BY <2>1, MinIsLeast DEF Recipients
<1> DEFINE c == [slots[i] EXCEPT !.adr = d.from]
           e == [c EXCEPT !.silent = 0]
<1>2. c \in ClientT /\ e \in ClientT
  <2>1. slots[i] \in ClientT
    BY <1>1 DEF TypeOK
  <2> HIDE DEF i
  <2>2. c \in ClientT
    BY <2>1 DEF ClientT
  <2>3. 0 \in 0..LongSilent
    BY LimitTypes
  <2> QED
    BY <2>2, <2>3 DEF ClientT
<1>3. \/ slots' = [slots EXCEPT ![i] = c] /\ UNCHANGED <<challenges, game>>
      \/ SV_DropClient(i, e)
      \/ slots' = [slots EXCEPT ![i] = e] /\ UNCHANGED <<challenges, game>>
  BY DEF SV_PacketEvent, Heard
<1> HIDE DEF i, c, e
<1>4. /\ slots' \in [Slots -> ClientT] /\ game' \in [Slots -> BOOLEAN]
      /\ challenges' \in [Entries -> ChallengeT]
  <2>1. CASE slots' = [slots EXCEPT ![i] = c] /\ UNCHANGED <<challenges, game>>
    BY <1>2, <2>1 DEF TypeOK
  <2>2. CASE SV_DropClient(i, e)
    BY <1>1, <1>2, <2>2, DropType
  <2>3. CASE slots' = [slots EXCEPT ![i] = e] /\ UNCHANGED <<challenges, game>>
    BY <1>2, <2>3 DEF TypeOK
  <2> QED
    BY <1>3, <2>1, <2>2, <2>3
<1> QED
  BY <1>4, ServerStep DEF SV_PacketEvent, TypeOK

LEMMA WritePacketType ==
  ASSUME TypeOK, NEW c \in Clients, CL_WritePacket(c)
  PROVE  TypeOK'
<1>1. FromClient(c, "packet").from \in Addresses
  BY DEF FromClient, TypeOK
<1> QED
  BY <1>1, PacketEventType DEF CL_WritePacket

LEMMA ServerReceivesType ==
  ASSUME TypeOK, NEW c \in Clients, ServerReceives(c)
  PROVE  TypeOK'
<1>1. PICK d \in network :
        /\ "from" \in DOMAIN d
        /\ SV_GetChallenge(d) \/ SV_DirectConnect(d) \/ SV_PacketEvent(d)
  BY DEF ServerReceives
<1>2. d \in ToServer
  BY <1>1, ToServerHasFrom DEF TypeOK
<1>3. d.from \in Addresses
  BY <1>2 DEF ToServer
<1> QED
  BY <1>1, <1>2, <1>3, GetChallengeType, DirectConnectType, PacketEventType

LEMMA SendClientMessageType ==
  ASSUME TypeOK, NEW i \in Slots, SV_SendClientMessage(i)
  PROVE  TypeOK'
<1>1. PICK kind \in {"message", "disconnect"}, c \in Clients :
        CL_PacketEvent(c, FromServer(kind, slots[i].adr, slots[i].challenge, 0))
  BY DEF SV_SendClientMessage
<1>2. slots[i].challenge \in Nat
  BY DEF TypeOK, ClientT
<1>3. FromServer(kind, slots[i].adr, slots[i].challenge, 0).number \in Nat
  BY <1>2 DEF FromServer
<1> QED
  BY <1>1, <1>3, ClientEventType

LEMMA KickType ==
  ASSUME TypeOK, NEW i \in Slots, KickClient(i)
  PROVE  TypeOK'
<1>1. slots[i] \in ClientT
  BY DEF TypeOK
<1> QED
  BY <1>1, DropType, ServerStep DEF KickClient, TypeOK

LEMMA CheckTimeoutType ==
  ASSUME TypeOK, NEW i \in Slots, SV_CheckTimeout(i)
  PROVE  TypeOK'
<1>1. slots' \in [Slots -> ClientT]
  BY NoClientType DEF SV_CheckTimeout, TypeOK
<1>2. game' \in [Slots -> BOOLEAN]
  BY DEF SV_CheckTimeout, TypeOK
<1>3. challenges' \in [Entries -> ChallengeT]
  BY ForgetType DEF SV_CheckTimeout, TypeOK
<1> QED
  BY <1>1, <1>2, <1>3, ServerStep DEF SV_CheckTimeout, TypeOK

-----------------------------------------------------------------------------
(* Types: time and the routers. *)

LEMMA TickType ==
  ASSUME TypeOK, Tick
  PROVE  TypeOK'
<1>1. slots' \in [Slots -> ClientT]
  <2>1. ASSUME NEW i \in Slots
        PROVE  [slots[i] EXCEPT !.connected = Older(@, sv_reconnectlimit),
                                !.silent = Older(@, LongSilent)] \in ClientT
    <3>1. /\ slots[i] \in ClientT
          /\ slots[i].connected \in 0..sv_reconnectlimit /\ slots[i].silent \in 0..LongSilent
      BY DEF TypeOK, ClientT
    <3>2. /\ Older(slots[i].connected, sv_reconnectlimit) \in 0..sv_reconnectlimit
          /\ Older(slots[i].silent, LongSilent) \in 0..LongSilent
      BY <3>1, OlderType, LimitTypes
    <3> QED
      BY <3>1, <3>2, Zenon DEF ClientT
  <2> QED
    BY <2>1 DEF Tick
<1>2. clc' \in [Clients -> ClientConnection]
  <2>1. ASSUME NEW c \in Clients
        PROVE  [clc[c] EXCEPT !.waited = Older(@, RETRANSMIT_TIMEOUT),
                  !.silent = IF clc[c].state = "CA_CONNECTED" THEN Older(@, LongSilent) ELSE 0]
               \in ClientConnection
    <3> DEFINE w == Older(clc[c].waited, RETRANSMIT_TIMEOUT)
               t == IF clc[c].state = "CA_CONNECTED" THEN Older(clc[c].silent, LongSilent) ELSE 0
    <3>1. clc[c] \in ClientConnection
      BY DEF TypeOK
    <3>2. /\ clc[c].waited \in 0..RETRANSMIT_TIMEOUT
          /\ clc[c].silent \in 0..LongSilent
      BY <3>1 DEF ClientConnection
    <3>3. w \in 0..RETRANSMIT_TIMEOUT /\ t \in 0..LongSilent
      BY <3>2, OlderType, LimitTypes
    <3> HIDE DEF w, t
    <3>4. [clc[c] EXCEPT !.waited = w, !.silent = t] \in ClientConnection
      BY <3>1, <3>3, Zenon DEF ClientConnection
    <3> QED
      BY <3>4 DEF w, t
  <2> QED
    BY <2>1 DEF Tick
<1>3. network' \subseteq ToServer \cup ToClient
  <2>1. ASSUME NEW e \in network, e.ticks > 0
        PROVE  [e EXCEPT !.ticks = @ - 1] \in ToServer \cup ToClient
    <3>1. CASE e \in ToServer
      BY <2>1, <3>1, LimitTypes DEF ToServer
    <3>2. CASE e \in ToClient
      BY <2>1, <3>2, LimitTypes DEF ToClient
    <3> QED
      BY <3>1, <3>2 DEF TypeOK
  <2> QED
    BY <2>1 DEF Tick
<1> QED
  BY <1>1, <1>2, <1>3 DEF Tick, TypeOK, UNCHANGED_routers

LEMMA TranslateType ==
  ASSUME TypeOK, NEW c \in Clients, Translate(c)
  PROVE  TypeOK'
<1>1. PICK p \in Ports : address' = [address EXCEPT ![c].port = p]
  BY DEF Translate
<1>2. [address[c] EXCEPT !.port = p] \in Addresses
  BY DEF TypeOK, Addresses
<1>3. address' \in [Clients -> Addresses]
  BY <1>1, <1>2 DEF TypeOK
<1> QED
  BY <1>3 DEF Translate, TypeOK, UNCHANGED_server

LEMMA InitType == Init => TypeOK
<1> SUFFICES ASSUME Init PROVE TypeOK
  OBVIOUS
<1>1. slots \in [Slots -> ClientT] /\ game \in [Slots -> BOOLEAN]
  BY NoClientType DEF Init
<1>2. challenges \in [Entries -> ChallengeT]
  BY DEF Init, ChallengeT, NoChallenge
<1>3. clc \in [Clients -> ClientConnection]
  <2>1. PICK q \in [Clients -> QPorts] :
          clc = [c \in Clients |->
                   [state |-> "CA_DISCONNECTED", attempts |-> 0, number |-> 0, qport |-> q[c],
                    waited |-> RETRANSMIT_TIMEOUT, silent |-> 0, told |-> FALSE]]
    BY DEF Init
  <2>2. ASSUME NEW c \in Clients
        PROVE  [state |-> "CA_DISCONNECTED", attempts |-> 0, number |-> 0, qport |-> q[c],
                waited |-> RETRANSMIT_TIMEOUT, silent |-> 0, told |-> FALSE] \in ClientConnection
    BY LimitTypes DEF ClientConnection
  <2> QED
    BY <2>1, <2>2
<1>4. address \in [Clients -> Addresses]
  BY ClientAssumption DEF Init, Addresses
<1> QED
  BY <1>1, <1>2, <1>3, <1>4 DEF Init, TypeOK

LEMMA NextType == TypeOK /\ [Next]_vars => TypeOK'
<1> SUFFICES ASSUME TypeOK, [Next]_vars PROVE TypeOK'
  OBVIOUS
<1>1. CASE UNCHANGED vars
  BY <1>1 DEF vars, TypeOK
<1>2. ASSUME NEW c \in Clients, CL_CheckTimeout(c) PROVE TypeOK'
  BY <1>2, DisconnectType DEF CL_CheckTimeout
<1>3. ASSUME NEW c \in Clients,
             \/ CL_Connect_f(c) \/ CL_Disconnect(c) \/ Restart(c) \/ CL_CheckForResend(c)
             \/ CL_WritePacket(c) \/ ClientReceives(c) \/ ServerReceives(c) \/ Translate(c)
      PROVE  TypeOK'
  BY <1>3, ConnectType, DisconnectType, RestartType, ResendType, WritePacketType,
     ClientReceivesType, ServerReceivesType, TranslateType
<1>4. ASSUME NEW i \in Slots, SV_SendClientMessage(i) \/ KickClient(i) \/ SV_CheckTimeout(i)
      PROVE  TypeOK'
  BY <1>4, SendClientMessageType, KickType, CheckTimeoutType
<1>5. CASE Tick
  BY <1>5, TickType
<1> QED
  BY <1>1, <1>2, <1>3, <1>4, <1>5 DEF Next

\* The types of the slots, the challenges, the clients' connections and the
\* datagrams (client_t, challenge_t, clientConnection_t).
THEOREM ConnectionTypeCorrect == Spec => []TypeOK
<1>1. Init => TypeOK
  BY InitType
<1>2. TypeOK /\ [Next]_vars => TypeOK'
  BY NextType
<1> QED
  BY <1>1, <1>2, PTL DEF Spec

-----------------------------------------------------------------------------
(* The game's players. *)

\* A slot is given a client and the game a player, or neither.
LEMMA GameSlot ==
  ASSUME TypeOK, GameAgrees, NEW i, NEW c, NEW b \in BOOLEAN,
         b <=> c.state = "CS_CONNECTED",
         slots' = [slots EXCEPT ![i] = c], game' = [game EXCEPT ![i] = b]
  PROVE  GameAgrees'
<1> SUFFICES ASSUME NEW j \in Slots
             PROVE  game'[j] <=> slots'[j].state = "CS_CONNECTED"
  BY DEF GameAgrees
<1>1. j \in DOMAIN slots /\ j \in DOMAIN game
  BY DEF TypeOK
<1>2. game[j] <=> slots[j].state = "CS_CONNECTED"
  BY DEF GameAgrees
<1>3. CASE i = j
  <2>1. slots'[j] = c /\ game'[j] = b
    BY <1>1, <1>3, Zenon
  <2> QED
    BY <2>1, Zenon
<1>4. CASE i # j
  <2>1. slots'[j] = slots[j] /\ game'[j] = game[j]
    BY <1>1, <1>4, Zenon
  <2> QED
    BY <1>2, <2>1, Zenon
<1> QED
  BY <1>3, <1>4

\* The record in a slot changes, whether it is connected does not.
LEMMA SameGame ==
  ASSUME TypeOK, GameAgrees, NEW i, NEW c,
         slots' = [slots EXCEPT ![i] = c], UNCHANGED game,
         c.state = "CS_CONNECTED" <=> slots[i].state = "CS_CONNECTED"
  PROVE  GameAgrees'
<1> SUFFICES ASSUME NEW j \in Slots
             PROVE  game[j] <=> slots'[j].state = "CS_CONNECTED"
  BY Zenon DEF GameAgrees
<1>1. j \in DOMAIN slots
  BY DEF TypeOK
<1>2. slots'[j].state = "CS_CONNECTED" <=> slots[j].state = "CS_CONNECTED"
  BY <1>1, Zenon
<1> QED
  BY <1>2, Zenon DEF GameAgrees

LEMMA DropGame ==
  ASSUME TypeOK, GameAgrees, NEW i, NEW c \in ClientT, SV_DropClient(i, c)
  PROVE  GameAgrees'
<1>1. [c EXCEPT !.state = "CS_ZOMBIE"].state = "CS_ZOMBIE"
  BY DEF ClientT
<1>2. FALSE \in BOOLEAN
  OBVIOUS
<1>3. /\ slots' = [slots EXCEPT ![i] = [c EXCEPT !.state = "CS_ZOMBIE"]]
      /\ game' = [game EXCEPT ![i] = FALSE]
  BY Zenon DEF SV_DropClient
<1>4. "CS_ZOMBIE" # "CS_CONNECTED"
  OBVIOUS
<1> QED
  BY <1>1, <1>2, <1>3, <1>4, GameSlot, Zenon

LEMMA DirectConnectGame ==
  ASSUME TypeOK, GameAgrees, NEW d, SV_DirectConnect(d)
  PROVE  GameAgrees'
<1>1. CASE UNCHANGED <<slots, game>>
  BY <1>1, Zenon DEF GameAgrees
<1>2. CASE Admit(d) /\ Candidates(d) # {}
  <2> DEFINE i == Min(Candidates(d))
  <2>1. PICK denied \in BOOLEAN :
          IF ClientConnect(i, denied) THEN Accept(d, i) ELSE Refuse(d, i)
    BY <1>2, Zenon DEF Admit
  <2>2. i \in Slots
    <3>1. Candidates(d) \subseteq Slots
      BY DEF Candidates, SameClient, FreeSlots
    <3>2. Candidates(d) \subseteq Nat
      BY <3>1, SlotAssumption DEF Slots
    <3> QED
      BY <1>2, <3>1, <3>2, MinIsLeast
  <2> HIDE DEF i
  <2>3. CASE Accept(d, i)
    <3>1. NewClient(d).state = "CS_CONNECTED" /\ TRUE \in BOOLEAN
      BY DEF NewClient
    <3>2. slots' = [slots EXCEPT ![i] = NewClient(d)] /\ game' = [game EXCEPT ![i] = TRUE]
      BY <2>3, Zenon DEF Accept
    <3> QED
      BY <3>1, <3>2, GameSlot, Zenon
  <2>4. CASE Refuse(d, i) /\ ~ClientConnect(i, denied)
    <3>1. slots[i].state # "CS_CONNECTED"
      BY <2>2, <2>4, Zenon DEF ClientConnect, GameAgrees
    <3>2. NoClient.state # "CS_CONNECTED"
      BY DEF NoClient
    <3>3. slots' = [slots EXCEPT ![i] = NoClient] /\ UNCHANGED game
      BY <2>4, Zenon DEF Refuse
    <3> QED
      BY <3>1, <3>2, <3>3, SameGame, Zenon
  <2> QED
    BY <2>1, <2>3, <2>4, Zenon
<1> QED
  BY <1>1, <1>2, Zenon DEF SV_DirectConnect, Admit, Tell

LEMMA RecipientType ==
  ASSUME NEW d, SV_PacketEvent(d)
  PROVE  Min(Recipients(d)) \in Recipients(d) /\ Min(Recipients(d)) \in Slots
<1>1. Recipients(d) \subseteq Nat /\ Recipients(d) # {}
  BY SlotAssumption DEF Recipients, Slots, SV_PacketEvent
<1> QED
  BY <1>1, MinIsLeast DEF Recipients

LEMMA PacketEventGame ==
  ASSUME TypeOK, GameAgrees, NEW d, d.from \in Addresses, SV_PacketEvent(d)
  PROVE  GameAgrees'
<1> DEFINE i == Min(Recipients(d))
           c == [slots[i] EXCEPT !.adr = d.from]
           e == [c EXCEPT !.silent = 0]
<1>1. i \in Slots
  BY RecipientType
<1>2. slots[i] \in ClientT
  BY <1>1 DEF TypeOK
<1>3. c \in ClientT /\ e \in ClientT /\ c.state = slots[i].state /\ e.state = slots[i].state
  <2> HIDE DEF i
  <2>1. c \in ClientT /\ c.state = slots[i].state
    BY <1>2 DEF ClientT
  <2>2. 0 \in 0..LongSilent
    BY LimitTypes
  <2> QED
    BY <2>1, <2>2 DEF ClientT
<1>4. \/ slots' = [slots EXCEPT ![i] = c] /\ UNCHANGED game
      \/ SV_DropClient(i, e)
      \/ slots' = [slots EXCEPT ![i] = e] /\ UNCHANGED game
  BY DEF SV_PacketEvent, Heard
<1> HIDE DEF i, c, e
<1> QED
  BY <1>3, <1>4, SameGame, DropGame

LEMMA NextGame == TypeOK /\ GameAgrees /\ [Next]_vars => GameAgrees'
<1> SUFFICES ASSUME TypeOK, GameAgrees, [Next]_vars PROVE GameAgrees'
  OBVIOUS
<1>1. CASE UNCHANGED <<slots, game>>
  BY <1>1, Zenon DEF GameAgrees
<1>2. ASSUME NEW c \in Clients, CL_WritePacket(c) PROVE GameAgrees'
  <2>1. FromClient(c, "packet").from \in Addresses
    BY DEF FromClient, TypeOK
  <2> QED
    BY <1>2, <2>1, PacketEventGame DEF CL_WritePacket
<1>3. ASSUME NEW c \in Clients, ServerReceives(c) PROVE GameAgrees'
  <2>1. PICK d \in network :
          /\ "from" \in DOMAIN d
          /\ SV_GetChallenge(d) \/ SV_DirectConnect(d) \/ SV_PacketEvent(d)
    BY <1>3 DEF ServerReceives
  <2>2. d.from \in Addresses
    BY <2>1, ToServerHasFrom DEF TypeOK, ToServer
  <2>3. CASE SV_GetChallenge(d)
    BY <1>1, <2>3 DEF SV_GetChallenge
  <2> QED
    BY <2>1, <2>2, <2>3, DirectConnectGame, PacketEventGame
<1>4. ASSUME NEW i \in Slots, KickClient(i) PROVE GameAgrees'
  <2>1. slots[i] \in ClientT
    BY DEF TypeOK
  <2> QED
    BY <1>4, <2>1, DropGame DEF KickClient
<1>5. ASSUME NEW i \in Slots, SV_CheckTimeout(i) PROVE GameAgrees'
  <2>1. NoClient.state # "CS_CONNECTED" /\ FALSE \in BOOLEAN
    BY DEF NoClient
  <2>2. slots' = [slots EXCEPT ![i] = NoClient]
    BY <1>5, Zenon DEF SV_CheckTimeout
  <2>3. \/ slots[i].state # "CS_CONNECTED" /\ UNCHANGED game
        \/ game' = [game EXCEPT ![i] = FALSE]
    BY <1>5 DEF SV_CheckTimeout
  <2> QED
    BY <2>1, <2>2, <2>3, GameSlot, SameGame, Zenon
<1>6. CASE Tick
  <2>1. ASSUME NEW i \in Slots PROVE slots'[i].state = slots[i].state
    BY <1>6 DEF Tick, TypeOK, ClientT
  <2>2. UNCHANGED game
    BY <1>6 DEF Tick
  <2> QED
    BY <2>1, <2>2, Zenon DEF GameAgrees
<1>7. CASE UNCHANGED vars
  BY <1>1, <1>7 DEF vars
<1>8. ASSUME NEW c \in Clients,
             \/ CL_Connect_f(c) \/ CL_Disconnect(c) \/ Restart(c) \/ CL_CheckForResend(c)
             \/ CL_CheckTimeout(c) \/ ClientReceives(c) \/ Translate(c)
      PROVE  GameAgrees'
  BY <1>1, <1>8 DEF CL_Connect_f, CL_Disconnect, Restart, CL_CheckForResend, CL_CheckTimeout,
     ClientReceives, CL_PacketEvent, Translate, UNCHANGED_server
<1>9. ASSUME NEW i \in Slots, SV_SendClientMessage(i) PROVE GameAgrees'
  BY <1>1, <1>9 DEF SV_SendClientMessage, CL_PacketEvent, UNCHANGED_server
<1> QED
  BY <1>2, <1>3, <1>4, <1>5, <1>6, <1>7, <1>8, <1>9 DEF Next

\* The game has a player in exactly the slots the server has a connected client
\* in, whatever connects, takes a slot over, is refused, leaves or is dropped.
THEOREM ConnectionGameAgrees == Spec => []GameAgrees
<1>1. Init => GameAgrees
  BY DEF Init, GameAgrees, NoClient
<1>2. TypeOK /\ GameAgrees /\ [Next]_vars => GameAgrees'
  BY NextGame
<1>3. Spec => []TypeOK
  BY ConnectionTypeCorrect
<1> QED
  BY <1>1, <1>2, <1>3, PTL DEF Spec

-----------------------------------------------------------------------------
(* One slot for each client. *)

\* The record in slot i changes to one that is free or of a client that no other
\* slot is of.
LEMMA OneSlotStep ==
  ASSUME TypeOK, OneSlotEach, NEW i \in Slots, NEW c,
         slots' = [slots EXCEPT ![i] = c],
         \/ c.state = "CS_FREE"
         \/ \A j \in Slots :
              InUse(j) /\ slots[j].adr.base = c.adr.base /\ slots[j].qport = c.qport => j = i
  PROVE  OneSlotEach'
<1> SUFFICES ASSUME NEW j \in Slots, NEW k \in Slots,
                    slots'[j].state # "CS_FREE", slots'[k].state # "CS_FREE",
                    slots'[j].adr.base = slots'[k].adr.base,
                    slots'[j].qport = slots'[k].qport
             PROVE  j = k
  BY Zenon DEF OneSlotEach, InUse
<1>1. i \in DOMAIN slots /\ j \in DOMAIN slots /\ k \in DOMAIN slots
  BY DEF TypeOK
<1>2. slots'[i] = c
  BY <1>1, Zenon
<1>3. \A n \in Slots : n # i => slots'[n] = slots[n]
  BY Zenon DEF TypeOK
<1>4. CASE j # i /\ k # i
  BY <1>3, <1>4, Zenon DEF OneSlotEach, InUse
<1>5. CASE j = i /\ k # i
  BY <1>2, <1>3, <1>5, Zenon DEF InUse
<1>6. CASE j # i /\ k = i
  BY <1>2, <1>3, <1>6, Zenon DEF InUse
<1> QED
  BY <1>4, <1>5, <1>6, Zenon

\* A slot in use that keeps its client, whatever else changes in it.
LEMMA SameClientSlot ==
  ASSUME TypeOK, OneSlotEach, NEW i \in Slots, NEW c,
         slots' = [slots EXCEPT ![i] = c],
         InUse(i), c.adr.base = slots[i].adr.base, c.qport = slots[i].qport
  PROVE  OneSlotEach'
<1>1. ASSUME NEW j \in Slots, InUse(j), slots[j].adr.base = c.adr.base,
             slots[j].qport = c.qport
      PROVE  j = i
  BY <1>1, Zenon DEF OneSlotEach
<1> QED
  BY <1>1, OneSlotStep, Zenon

\* Admit lets a client in with the slot it has, or with a free one if it has none.
LEMMA DirectConnectSlot ==
  ASSUME NEW q, QPorts = {q}, TypeOK, OneSlotEach, NEW d \in ToServer, SV_DirectConnect(d)
  PROVE  OneSlotEach'
<1>1. CASE UNCHANGED slots
  BY <1>1, Zenon DEF OneSlotEach, InUse
<1>2. CASE Admit(d) /\ Candidates(d) # {}
  <2> DEFINE i == Min(Candidates(d))
  <2>1. Accept(d, i) \/ Refuse(d, i)
    BY <1>2, Zenon DEF Admit
  <2>2. i \in Candidates(d) /\ i \in Slots
    <3>1. Candidates(d) \subseteq Slots
      BY DEF Candidates, SameClient, FreeSlots
    <3>2. Candidates(d) \subseteq Nat
      BY <3>1, SlotAssumption DEF Slots
    <3> QED
      BY <1>2, <3>1, <3>2, MinIsLeast
  <2> HIDE DEF i
  <2>3. CASE Accept(d, i)
    <3>1. NewClient(d).adr = d.from /\ NewClient(d).qport = d.qport
      BY DEF NewClient
    <3>2. \A j \in Slots : slots[j].qport = q
      BY DEF TypeOK, ClientT
    <3>3. d.qport = q
      BY DEF ToServer
    <3>4. ASSUME NEW j \in Slots, InUse(j), slots[j].adr.base = d.from.base
          PROVE  j = i
      <4>1. j \in SameClient(d)
        BY <3>2, <3>3, <3>4, Zenon DEF SameClient, InUse
      <4>2. i \in SameClient(d)
        BY <2>2, <4>1, Zenon DEF Candidates
      <4>3. InUse(i) /\ slots[i].adr.base = d.from.base
        BY <4>2, Zenon DEF SameClient, InUse
      <4> QED
        BY <2>2, <3>2, <3>4, <4>3, Zenon DEF OneSlotEach
    <3>5. slots' = [slots EXCEPT ![i] = NewClient(d)]
      BY <2>3, Zenon DEF Accept
    <3>6. \A j \in Slots : InUse(j) /\ slots[j].adr.base = NewClient(d).adr.base => j = i
      BY <3>1, <3>4, Zenon
    <3> QED
      BY <2>2, <3>5, <3>6, OneSlotStep, Zenon
  <2>4. CASE Refuse(d, i)
    <3>1. NoClient.state = "CS_FREE"
      BY DEF NoClient
    <3>2. slots' = [slots EXCEPT ![i] = NoClient]
      BY <2>4, Zenon DEF Refuse
    <3> QED
      BY <2>2, <3>1, <3>2, OneSlotStep, Zenon
  <2> QED
    BY <2>1, <2>3, <2>4
<1> QED
  BY <1>1, <1>2, Zenon DEF SV_DirectConnect, Admit, Tell

\* A packet only sets the port of a slot right.
LEMMA PacketEventSlot ==
  ASSUME TypeOK, OneSlotEach, NEW d, d.from \in Addresses, SV_PacketEvent(d)
  PROVE  OneSlotEach'
<1> DEFINE i == Min(Recipients(d))
           c == [slots[i] EXCEPT !.adr = d.from]
           e == [c EXCEPT !.silent = 0]
           z == [e EXCEPT !.state = "CS_ZOMBIE"]
<1>1. i \in Slots /\ InUse(i) /\ slots[i].adr.base = d.from.base
  BY RecipientType DEF Recipients, InUse
<1>2. slots[i] \in ClientT
  BY <1>1 DEF TypeOK
<1>3. /\ c.adr = d.from /\ c.qport = slots[i].qport
      /\ e.adr = d.from /\ e.qport = slots[i].qport
      /\ z.adr = d.from /\ z.qport = slots[i].qport
  <2> HIDE DEF i
  <2> QED
    BY <1>2 DEF ClientT
<1>4. \E n \in {c, e, z} : slots' = [slots EXCEPT ![i] = n]
  BY DEF SV_PacketEvent, Heard, SV_DropClient
<1> HIDE DEF i, c, e, z
<1>5. PICK n \in {c, e, z} : slots' = [slots EXCEPT ![i] = n]
  BY <1>4
<1>6. n.adr.base = slots[i].adr.base /\ n.qport = slots[i].qport
  BY <1>1, <1>3, <1>5
<1> QED
  BY <1>1, <1>5, <1>6, SameClientSlot, Zenon

LEMMA NextSlot ==
  ASSUME NEW q, QPorts = {q}, TypeOK, OneSlotEach, [Next]_vars
  PROVE  OneSlotEach'
<1>1. CASE UNCHANGED slots
  BY <1>1, Zenon DEF OneSlotEach, InUse
<1>2. ASSUME NEW c \in Clients, CL_WritePacket(c) PROVE OneSlotEach'
  <2>1. FromClient(c, "packet").from \in Addresses
    BY DEF FromClient, TypeOK
  <2> QED
    BY <1>2, <2>1, PacketEventSlot DEF CL_WritePacket
<1>3. ASSUME NEW c \in Clients, ServerReceives(c) PROVE OneSlotEach'
  <2>1. PICK d \in network :
          /\ "from" \in DOMAIN d
          /\ SV_GetChallenge(d) \/ SV_DirectConnect(d) \/ SV_PacketEvent(d)
    BY <1>3 DEF ServerReceives
  <2>2. d \in ToServer /\ d.from \in Addresses
    BY <2>1, ToServerHasFrom DEF TypeOK, ToServer
  <2>3. CASE SV_GetChallenge(d)
    BY <1>1, <2>3 DEF SV_GetChallenge
  <2> QED
    BY <2>1, <2>2, <2>3, DirectConnectSlot, PacketEventSlot
<1>4. ASSUME NEW i \in Slots, KickClient(i) PROVE OneSlotEach'
  <2> DEFINE z == [slots[i] EXCEPT !.state = "CS_ZOMBIE"]
  <2>1. slots' = [slots EXCEPT ![i] = z] /\ InUse(i)
    BY <1>4 DEF KickClient, SV_DropClient, InUse
  <2>2. z.adr = slots[i].adr /\ z.qport = slots[i].qport
    BY DEF TypeOK, ClientT
  <2> HIDE DEF z
  <2>3. z.adr.base = slots[i].adr.base
    BY <2>2
  <2> QED
    BY <2>1, <2>2, <2>3, SameClientSlot, Zenon
<1>5. ASSUME NEW i \in Slots, SV_CheckTimeout(i) PROVE OneSlotEach'
  <2>1. NoClient.state = "CS_FREE"
    BY DEF NoClient
  <2>2. slots' = [slots EXCEPT ![i] = NoClient]
    BY <1>5, Zenon DEF SV_CheckTimeout
  <2> QED
    BY <2>1, <2>2, OneSlotStep, Zenon
<1>6. CASE Tick
  <2>1. \A i \in Slots : /\ slots'[i].state = slots[i].state
                         /\ slots'[i].adr = slots[i].adr
                         /\ slots'[i].qport = slots[i].qport
    BY <1>6 DEF Tick, TypeOK, ClientT
  <2> QED
    BY <2>1, Zenon DEF OneSlotEach, InUse
<1>7. CASE UNCHANGED vars
  BY <1>1, <1>7 DEF vars
<1>8. ASSUME NEW c \in Clients,
             \/ CL_Connect_f(c) \/ CL_Disconnect(c) \/ Restart(c) \/ CL_CheckForResend(c)
             \/ CL_CheckTimeout(c) \/ ClientReceives(c) \/ Translate(c)
      PROVE  OneSlotEach'
  BY <1>1, <1>8 DEF CL_Connect_f, CL_Disconnect, Restart, CL_CheckForResend, CL_CheckTimeout,
     ClientReceives, CL_PacketEvent, Translate, UNCHANGED_server
<1>9. ASSUME NEW i \in Slots, SV_SendClientMessage(i) PROVE OneSlotEach'
  BY <1>1, <1>9 DEF SV_SendClientMessage, CL_PacketEvent, UNCHANGED_server
<1> QED
  BY <1>2, <1>3, <1>4, <1>5, <1>6, <1>7, <1>8, <1>9 DEF Next

\* While every client has the same qport, as one that keeps its own does, no
\* address has two slots, however its packets are repeated and its port moves.
THEOREM ConnectionOneSlot ==
  ASSUME NEW q, QPorts = {q}
  PROVE  Spec => []OneSlotEach
<1>1. Init => OneSlotEach
  BY DEF Init, OneSlotEach, InUse, NoClient
<1>2. TypeOK /\ OneSlotEach /\ [Next]_vars => OneSlotEach'
  BY NextSlot
<1>3. Spec => []TypeOK
  BY ConnectionTypeCorrect
<1> QED
  BY <1>1, <1>2, <1>3, PTL DEF Spec

-----------------------------------------------------------------------------
(* What is under way for a client, and which challenge its connection has. *)
(*                                                                         *)
(* Every client has an IP address of its own here, so what is under way    *)
(* from it or to it can be told by the address.  A number is the client's  *)
(* own, of an attempt, or the server's, of a challenge.                    *)

OwnAddresses == \A c, e \in Clients : Base[c] = Base[e] => c = e

Connects(c) == {d \in network : d.kind = "connect" /\ d.from.base = Base[c]}
Responses(c) == {d \in network : d.kind = "connectResponse" /\ d.to.base = Base[c]}
SlotsOf(c) == {i \in Slots : InUse(i) /\ slots[i].adr.base = Base[c]}

\* The attempts it asks for a challenge for, and what it is offered for which.
Requested(c) ==
  {d.number : d \in {e \in network : e.kind = "getchallenge" /\ e.from.base = Base[c]}}
Offered(c) ==
  {<<d.number, d.reply>> :
     d \in {e \in network : e.kind = "challengeResponse" /\ e.to.base = Base[c]}}

\* The challenges that are in use for it.
Known(c) ==
  {d.number : d \in Connects(c)} \cup {d.number : d \in Responses(c)}
    \cup {slots[i].challenge : i \in SlotsOf(c)}

\* The client always has the latest challenge that is in use, and one it may still
\* take is later than all of them.
Handshake(c) ==
  /\ \A n \in Requested(c) : n <= clc[c].attempts
  /\ \A o \in Offered(c) : o[1] <= issued /\ o[2] <= clc[c].attempts
  /\ \A n \in Known(c) : n <= issued
  /\ clc[c].state = "CA_CONNECTING" =>
       /\ clc[c].number <= clc[c].attempts
       /\ \A o \in Offered(c) : o[2] = clc[c].number => \A n \in Known(c) : n < o[1]
  /\ clc[c].state \in {"CA_CHALLENGING", "CA_CONNECTED"} =>
       /\ clc[c].number <= issued
       /\ \A n \in Known(c) : n <= clc[c].number

\* What was sent before a slot was given out does not outlive it by much.
Expiry(c) ==
  \A i \in SlotsOf(c) :
    /\ \A d \in Connects(c) :
         d.number < slots[i].challenge => d.ticks + slots[i].connected <= Lifetime
    /\ \A d \in Connects(c) :
         clc[c].state = "CA_CONNECTED" => d.ticks + slots[i].connected <= 2 * Lifetime
    /\ \A d \in Responses(c) : d.ticks + slots[i].connected <= Lifetime

\* The server has answered the client with the challenge it has.
Answered(c) ==
  \/ clc[c].state = "CA_CONNECTED"
  \/ /\ clc[c].state = "CA_CHALLENGING"
     /\ \E d \in Responses(c) : d.number = clc[c].number

\* Then the client's slot has that challenge, and while a connect packet of an
\* earlier one is under way, the slot is still there to turn it away.
Agreement(c) ==
  Answered(c) =>
    /\ \A i \in SlotsOf(c) : slots[i].challenge = clc[c].number
    /\ \A d \in Connects(c) : d.number < clc[c].number => SlotsOf(c) # {}

AddressesKept == \A c \in Clients : address[c].base = Base[c]

\* A client was heard of when it connected.
HeardSince ==
  \A i \in Slots :
    InUse(i) => slots[i].silent <= slots[i].connected \/ slots[i].connected = sv_reconnectlimit

ClientInv(c) == Handshake(c) /\ Expiry(c) /\ Agreement(c)

HandshakeInv == AddressesKept /\ HeardSince /\ \A c \in Clients : ClientInv(c)

LEMMA NumberTypes ==
  ASSUME TypeOK, NEW c
  PROVE  /\ Requested(c) \subseteq Nat /\ Offered(c) \subseteq Nat \X Nat
         /\ Known(c) \subseteq Nat
         /\ \A d \in Connects(c) : d.number \in Nat /\ d.ticks \in 0..Lifetime
         /\ \A d \in Responses(c) : d.number \in Nat /\ d.ticks \in 0..Lifetime
<1>1. ASSUME NEW d \in network PROVE d.number \in Nat /\ d.ticks \in 0..Lifetime
  BY DEF TypeOK, ToServer, ToClient
<1>2. ASSUME NEW d \in network, d.kind = "challengeResponse" PROVE d.reply \in Nat
  BY <1>2 DEF TypeOK, ToServer, ToClient
<1>3. Requested(c) \subseteq Nat /\ Offered(c) \subseteq Nat \X Nat
  BY <1>1, <1>2 DEF Requested, Offered
<1>4. \A i \in Slots : slots[i].challenge \in Nat
  BY DEF TypeOK, ClientT
<1>5. Known(c) \subseteq Nat
  BY <1>1, <1>4, Zenon DEF Known, Connects, Responses, SlotsOf
<1> QED
  BY <1>1, <1>3, <1>5 DEF Connects, Responses

LEMMA SlotTypes ==
  ASSUME TypeOK, NEW i \in Slots
  PROVE  /\ slots[i] \in ClientT /\ slots[i].challenge \in Nat
         /\ slots[i].connected \in 0..sv_reconnectlimit
         /\ slots[i].silent \in 0..LongSilent
BY DEF TypeOK, ClientT

LEMMA ConnectionTypes ==
  ASSUME TypeOK, NEW c \in Clients
  PROVE  /\ clc[c].number \in Nat /\ clc[c].attempts \in Nat /\ issued \in Nat
         /\ clc[c].state \in {"CA_DISCONNECTED", "CA_CONNECTING", "CA_CHALLENGING",
                              "CA_CONNECTED"}
BY DEF TypeOK, ClientConnection

-----------------------------------------------------------------------------
(* Steps that leave a client alone. *)

\* Nothing is sent to it or by it that counts.
NothingNew(c) ==
  /\ Connects(c)' \subseteq Connects(c) /\ Responses(c)' \subseteq Responses(c)
  /\ Requested(c)' \subseteq Requested(c) /\ Offered(c)' \subseteq Offered(c)

\* It gets no slot, and the one it has stays as old as it is.
SlotsKept(c) ==
  \A i \in SlotsOf(c)' :
    /\ i \in SlotsOf(c) /\ slots'[i].challenge = slots[i].challenge
    /\ slots'[i].connected = slots[i].connected

\* The step is of somebody else.
Untouched(c) ==
  /\ NothingNew(c) /\ SlotsKept(c) /\ SlotsOf(c)' = SlotsOf(c)
  /\ clc'[c] = clc[c] /\ issued <= issued'

LEMMA KnownKept ==
  ASSUME NEW c, NothingNew(c), SlotsKept(c)
  PROVE  Known(c)' \subseteq Known(c)
<1> SUFFICES ASSUME NEW n \in Known(c)' PROVE n \in Known(c)
  OBVIOUS
<1>1. CASE \E d \in Connects(c)' : n = d.number
  BY <1>1, Zenon DEF NothingNew, Known
<1>2. CASE \E d \in Responses(c)' : n = d.number
  BY <1>2, Zenon DEF NothingNew, Known
<1>3. CASE \E i \in SlotsOf(c)' : n = slots'[i].challenge
  BY <1>3, Zenon DEF SlotsKept, Known
<1> QED
  BY <1>1, <1>2, <1>3, Zenon DEF Known

\* What a client may do with its attempt, whatever is lost on the way to it.
Moves(c) ==
  \/ /\ clc'[c].state = clc[c].state
     /\ clc'[c].number = clc[c].number /\ clc'[c].attempts = clc[c].attempts
  \/ clc'[c].state = "CA_DISCONNECTED" /\ clc'[c].attempts = clc[c].attempts
  \/ /\ clc'[c].state = "CA_CONNECTING" /\ clc'[c].number = clc[c].attempts + 1
     /\ clc'[c].attempts = clc[c].attempts + 1
  \/ /\ clc[c].state = "CA_CONNECTING" /\ clc'[c].state = "CA_CHALLENGING"
     /\ <<clc'[c].number, clc[c].number>> \in Offered(c)
     /\ clc'[c].attempts = clc[c].attempts
  \/ /\ clc[c].state = "CA_CHALLENGING" /\ clc'[c].state = "CA_CONNECTED"
     /\ \E d \in Responses(c) : d.number = clc[c].number
     /\ clc'[c].number = clc[c].number /\ clc'[c].attempts = clc[c].attempts

LEMMA HandshakeMoves ==
  ASSUME TypeOK, TypeOK', NEW c \in Clients, Handshake(c), Moves(c),
         Known(c)' \subseteq Known(c), Requested(c)' \subseteq Requested(c),
         Offered(c)' \subseteq Offered(c), issued <= issued'
  PROVE  Handshake(c)'
<1>1. /\ Known(c)' \subseteq Known(c) /\ Requested(c)' \subseteq Requested(c)
      /\ Offered(c)' \subseteq Offered(c)
  OBVIOUS
<1>2. Requested(c) \subseteq Nat /\ Offered(c) \subseteq Nat \X Nat /\ Known(c) \subseteq Nat
  BY NumberTypes
<1>3. /\ clc[c].number \in Nat /\ clc[c].attempts \in Nat /\ issued \in Nat
      /\ clc'[c].number \in Nat /\ clc'[c].attempts \in Nat /\ issued' \in Nat
  BY DEF TypeOK, ClientConnection
<1>4. clc[c].attempts <= clc'[c].attempts
  BY <1>3 DEF Moves
<1>5. \A n \in Requested(c)' : n <= clc'[c].attempts
  BY <1>1, <1>2, <1>3, <1>4 DEF Handshake
<1>6. ASSUME NEW o \in Offered(c)' PROVE o[1] <= issued' /\ o[2] <= clc'[c].attempts
  <2>1. o[1] <= issued /\ o[2] <= clc[c].attempts /\ o[1] \in Nat /\ o[2] \in Nat
    BY <1>1, <1>2 DEF Handshake
  <2> QED
    BY <1>3, <1>4, <2>1
<1>7. \A n \in Known(c)' : n <= issued'
  BY <1>1, <1>2, <1>3 DEF Handshake
<1>8. ASSUME clc'[c].state = "CA_CONNECTING"
      PROVE  /\ clc'[c].number <= clc'[c].attempts
             /\ \A o \in Offered(c)' : o[2] = clc'[c].number => \A n \in Known(c)' : n < o[1]
  <2>1. CASE /\ clc'[c].number = clc[c].attempts + 1
             /\ clc'[c].attempts = clc[c].attempts + 1
    <3>1. ASSUME NEW o \in Offered(c)' PROVE o[2] # clc'[c].number
      BY <1>1, <1>2, <1>3, <2>1 DEF Handshake
    <3> QED
      BY <1>3, <2>1, <3>1
  <2>2. CASE /\ clc'[c].state = clc[c].state
             /\ clc'[c].number = clc[c].number /\ clc'[c].attempts = clc[c].attempts
    BY <1>1, <1>8, <2>2, Zenon DEF Handshake
  <2> QED
    BY <1>8, <2>1, <2>2 DEF Moves
<1>9. ASSUME clc'[c].state \in {"CA_CHALLENGING", "CA_CONNECTED"}
      PROVE  clc'[c].number <= issued' /\ \A n \in Known(c)' : n <= clc'[c].number
  <2>1. CASE /\ clc[c].state \in {"CA_CHALLENGING", "CA_CONNECTED"}
             /\ clc'[c].number = clc[c].number
    BY <1>1, <1>3, <2>1 DEF Handshake
  <2>2. CASE /\ clc[c].state = "CA_CONNECTING"
             /\ <<clc'[c].number, clc[c].number>> \in Offered(c)
    <3> DEFINE o == <<clc'[c].number, clc[c].number>>
    <3>1. o \in Offered(c) /\ o[1] = clc'[c].number /\ o[2] = clc[c].number
      BY <2>2
    <3>2. o[1] <= issued /\ \A n \in Known(c) : n < o[1]
      BY <2>2, <3>1 DEF Handshake
    <3>3. clc'[c].number <= issued'
      BY <1>3, <3>1, <3>2
    <3>4. \A n \in Known(c)' : n <= clc'[c].number
      BY <1>1, <1>2, <1>3, <3>1, <3>2
    <3> QED
      BY <3>3, <3>4
  <2> QED
    BY <1>9, <2>1, <2>2 DEF Moves
<1> QED
  BY <1>5, <1>6, <1>7, <1>8, <1>9 DEF Handshake

\* A client becomes connected by an answer that is under way, so that its slot is
\* not older than that, and a connect packet no older than two datagrams' lives.
LEMMA ExpiryMoves ==
  ASSUME TypeOK, NEW c \in Clients, Expiry(c), Moves(c), NothingNew(c), SlotsKept(c)
  PROVE  Expiry(c)'
<1> SUFFICES ASSUME NEW i \in SlotsOf(c)'
             PROVE  /\ \A d \in Connects(c)' :
                         d.number < slots'[i].challenge =>
                           d.ticks + slots'[i].connected <= Lifetime
                    /\ \A d \in Connects(c)' :
                         clc'[c].state = "CA_CONNECTED" =>
                           d.ticks + slots'[i].connected <= 2 * Lifetime
                    /\ \A d \in Responses(c)' : d.ticks + slots'[i].connected <= Lifetime
  BY Zenon DEF Expiry
<1>1. /\ i \in SlotsOf(c) /\ i \in Slots /\ slots'[i].challenge = slots[i].challenge
      /\ slots'[i].connected = slots[i].connected
  BY Zenon DEF SlotsKept, SlotsOf
<1>2. Connects(c)' \subseteq Connects(c) /\ Responses(c)' \subseteq Responses(c)
  BY DEF NothingNew
<1>3. /\ \A d \in Connects(c)' :
           d.number < slots'[i].challenge => d.ticks + slots'[i].connected <= Lifetime
      /\ \A d \in Responses(c)' : d.ticks + slots'[i].connected <= Lifetime
  BY <1>1, <1>2, Zenon DEF Expiry
<1>4. ASSUME NEW d \in Connects(c)', clc'[c].state = "CA_CONNECTED"
      PROVE  d.ticks + slots'[i].connected <= 2 * Lifetime
  <2>1. d \in Connects(c)
    BY <1>2
  <2>2. CASE clc[c].state = "CA_CONNECTED"
    BY <1>1, <2>1, <2>2, Zenon DEF Expiry
  <2>3. CASE \E r \in Responses(c) : TRUE
    <3>1. PICK r \in Responses(c) : TRUE
      BY <2>3
    <3>2. r.ticks + slots[i].connected <= Lifetime
      BY <1>1, Zenon DEF Expiry
    <3>3. r.ticks \in 0..Lifetime /\ d.ticks \in 0..Lifetime
      BY <2>1, <3>1, NumberTypes
    <3>4. slots[i].connected \in 0..sv_reconnectlimit /\ sv_reconnectlimit \in Nat
      BY <1>1, SlotTypes, LimitTypes
    <3>5. Lifetime \in Nat
      BY LimitTypes
    <3> QED
      BY <1>1, <3>2, <3>3, <3>4, <3>5
  <2> QED
    BY <1>4, <2>2, <2>3 DEF Moves
<1> QED
  BY <1>3, <1>4, Zenon

LEMMA AnsweredMoves ==
  ASSUME TypeOK, NEW c \in Clients, Handshake(c), Moves(c), NothingNew(c), Answered(c)'
  PROVE  Answered(c) /\ clc'[c].number = clc[c].number
<1>1. Responses(c)' \subseteq Responses(c)
  BY DEF NothingNew
<1>2. CASE clc'[c].state = clc[c].state /\ clc'[c].number = clc[c].number
  BY <1>1, <1>2 DEF Answered
<1>3. CASE /\ clc[c].state = "CA_CONNECTING" /\ clc'[c].state = "CA_CHALLENGING"
           /\ <<clc'[c].number, clc[c].number>> \in Offered(c)
  <2>1. PICK d \in Responses(c) : d.number = clc'[c].number
    BY <1>1, <1>3 DEF Answered
  <2>2. d.number \in Known(c) /\ d.number \in Nat
    BY <2>1, NumberTypes DEF Known
  <2> DEFINE o == <<clc'[c].number, clc[c].number>>
  <2>3. o \in Offered(c) /\ o[1] = clc'[c].number /\ o[2] = clc[c].number
    BY <1>3
  <2>4. d.number < o[1]
    BY <1>3, <2>2, <2>3 DEF Handshake
  <2> QED
    BY <2>1, <2>2, <2>3, <2>4
<1>4. CASE /\ clc[c].state = "CA_CHALLENGING" /\ clc'[c].state = "CA_CONNECTED"
           /\ \E d \in Responses(c) : d.number = clc[c].number
           /\ clc'[c].number = clc[c].number
  BY <1>4, Zenon DEF Answered
<1>5. CASE clc'[c].state \in {"CA_DISCONNECTED", "CA_CONNECTING"}
  BY <1>5 DEF Answered
<1> QED
  BY <1>2, <1>3, <1>4, <1>5 DEF Moves

LEMMA AgreementMoves ==
  ASSUME TypeOK, NEW c \in Clients, Handshake(c), Agreement(c), Moves(c), NothingNew(c),
         SlotsKept(c), SlotsOf(c)' = SlotsOf(c)
  PROVE  Agreement(c)'
<1> SUFFICES ASSUME Answered(c)'
             PROVE  /\ \A i \in SlotsOf(c)' : slots'[i].challenge = clc'[c].number
                    /\ \A d \in Connects(c)' : d.number < clc'[c].number => SlotsOf(c)' # {}
  BY Zenon DEF Agreement
<1>1. Answered(c) /\ clc'[c].number = clc[c].number
  BY AnsweredMoves
<1>2. /\ \A i \in SlotsOf(c) : slots[i].challenge = clc[c].number
      /\ \A d \in Connects(c) : d.number < clc[c].number => SlotsOf(c) # {}
  BY <1>1, Zenon DEF Agreement
<1> QED
  BY <1>1, <1>2, Zenon DEF SlotsKept, NothingNew

LEMMA ClientMoves ==
  ASSUME TypeOK, TypeOK', NEW c \in Clients, ClientInv(c), Moves(c), NothingNew(c),
         SlotsKept(c), SlotsOf(c)' = SlotsOf(c), issued <= issued'
  PROVE  ClientInv(c)'
<1>1. /\ Known(c)' \subseteq Known(c) /\ Requested(c)' \subseteq Requested(c)
      /\ Offered(c)' \subseteq Offered(c)
  BY KnownKept DEF NothingNew
<1> QED
  BY <1>1, HandshakeMoves, ExpiryMoves, AgreementMoves DEF ClientInv

LEMMA UntouchedKeeps ==
  ASSUME TypeOK, TypeOK', NEW c \in Clients, ClientInv(c), Untouched(c)
  PROVE  ClientInv(c)'
<1>1. Moves(c)
  BY DEF Untouched, Moves
<1> QED
  BY <1>1, ClientMoves DEF Untouched

\* Datagrams that are neither answered nor answers.
LEMMA NothingNewBy ==
  ASSUME NEW c,
         \A d \in network' :
           \/ d \in network
           \/ d.kind \in {"disconnect", "print"}
           \/ /\ d.kind \in {"getchallenge", "connect"}
              /\ d.from.base # Base[c]
           \/ /\ d.kind \in {"challengeResponse", "connectResponse"}
              /\ d.to.base # Base[c]
  PROVE  NothingNew(c)
<1>1. ASSUME NEW d \in network', d.kind \in {"getchallenge", "connect"}, d.from.base = Base[c]
      PROVE  d \in network
  BY <1>1
<1>2. ASSUME NEW d \in network', d.kind \in {"challengeResponse", "connectResponse"},
             d.to.base = Base[c]
      PROVE  d \in network
  BY <1>2
<1>3. Connects(c)' \subseteq Connects(c) /\ Responses(c)' \subseteq Responses(c)
  BY <1>1, <1>2 DEF Connects, Responses
<1>4. Requested(c)' \subseteq Requested(c)
  BY <1>1 DEF Requested
<1>5. Offered(c)' \subseteq Offered(c)
  BY <1>2 DEF Offered
<1> QED
  BY <1>3, <1>4, <1>5 DEF NothingNew

LEMMA SlotsSame ==
  ASSUME NEW c, UNCHANGED slots
  PROVE  SlotsKept(c) /\ SlotsOf(c)' = SlotsOf(c)
BY Zenon DEF SlotsKept, SlotsOf, InUse

-----------------------------------------------------------------------------
(* The client's steps. *)

LEMMA ClientStepKeeps ==
  ASSUME TypeOK, TypeOK', HandshakeInv, NEW c \in Clients, NEW n,
         clc' = [clc EXCEPT ![c] = n], Moves(c),
         \A d \in network' : d \in network \/ d.kind \in {"disconnect", "print"},
         UNCHANGED_server, UNCHANGED_routers
  PROVE  HandshakeInv'
<1>1. UNCHANGED <<slots, issued, address>>
  BY DEF UNCHANGED_server, UNCHANGED_routers
<1>2. AddressesKept' /\ HeardSince'
  BY <1>1, Zenon DEF HandshakeInv, AddressesKept, HeardSince, InUse
<1>3. ASSUME NEW e \in Clients PROVE ClientInv(e)'
  <2>1. NothingNew(e)
    BY NothingNewBy, Zenon
  <2>2. SlotsKept(e) /\ SlotsOf(e)' = SlotsOf(e) /\ ClientInv(e)
    BY <1>1, SlotsSame DEF HandshakeInv
  <2>3. issued \in Nat /\ issued' = issued
    BY <1>1 DEF TypeOK
  <2>4. issued <= issued'
    BY <2>3
  <2>5. CASE e = c
    BY <2>1, <2>2, <2>4, <2>5, ClientMoves
  <2>6. CASE e # c
    <3>1. clc'[e] = clc[e]
      BY <2>6, Zenon DEF TypeOK
    <3>2. Untouched(e)
      BY <2>1, <2>2, <2>4, <3>1, Zenon DEF Untouched
    <3> QED
      BY <2>2, <3>2, UntouchedKeeps
  <2> QED
    BY <2>5, <2>6
<1> QED
  BY <1>2, <1>3, Zenon DEF HandshakeInv

LEMMA FarewellKind ==
  ASSUME NEW c, NEW d \in Farewell(c)
  PROVE  d.kind \in {"disconnect", "print"}
BY DEF Farewell, FromClient

LEMMA DisconnectKeeps ==
  ASSUME TypeOK, TypeOK', HandshakeInv, NEW c \in Clients, CL_Disconnect(c)
  PROVE  HandshakeInv'
<1>1. /\ clc' = [clc EXCEPT ![c] = Wiped(c)] /\ network' = network \cup Farewell(c)
      /\ UNCHANGED_server /\ UNCHANGED_routers
  BY Zenon DEF CL_Disconnect
<1>2. Wiped(c).state = "CA_DISCONNECTED" /\ Wiped(c).attempts = clc[c].attempts
  BY DEF Wiped, TypeOK, ClientConnection
<1>3. clc'[c] = Wiped(c)
  BY <1>1 DEF TypeOK
<1>4. Moves(c)
  BY <1>2, <1>3, Zenon DEF Moves
<1> QED
  BY <1>1, <1>4, FarewellKind, ClientStepKeeps

LEMMA ConnectKeeps ==
  ASSUME TypeOK, TypeOK', HandshakeInv, NEW c \in Clients, CL_Connect_f(c)
  PROVE  HandshakeInv'
<1> DEFINE n == [Wiped(c) EXCEPT !.state = "CA_CONNECTING", !.attempts = @ + 1,
                                !.number = clc[c].attempts + 1]
<1>1. /\ clc' = [clc EXCEPT ![c] = n] /\ network' = network \cup Farewell(c)
      /\ UNCHANGED_server /\ UNCHANGED_routers
  BY Zenon DEF CL_Connect_f
<1>2. Wiped(c) \in ClientConnection /\ Wiped(c).attempts = clc[c].attempts
  BY WipedType
<1>3. /\ n.state = "CA_CONNECTING" /\ n.attempts = clc[c].attempts + 1
      /\ n.number = clc[c].attempts + 1
  BY <1>2 DEF ClientConnection
<1> HIDE DEF n
<1>4. clc'[c] = n
  BY <1>1 DEF TypeOK
<1>5. Moves(c)
  BY <1>3, <1>4, Zenon DEF Moves
<1> QED
  BY <1>1, <1>5, FarewellKind, ClientStepKeeps

LEMMA RestartKeeps ==
  ASSUME TypeOK, TypeOK', HandshakeInv, NEW c \in Clients, Restart(c)
  PROVE  HandshakeInv'
<1>1. PICK q \in QPorts : clc' = [clc EXCEPT ![c] = [Wiped(c) EXCEPT !.qport = q]]
  BY DEF Restart
<1> DEFINE n == [Wiped(c) EXCEPT !.qport = q]
<1>2. n.state = "CA_DISCONNECTED" /\ n.attempts = clc[c].attempts
  BY DEF Wiped, TypeOK, ClientConnection
<1>3. clc' = [clc EXCEPT ![c] = n]
  BY <1>1
<1> HIDE DEF n
<1>4. clc'[c] = n
  BY <1>3 DEF TypeOK
<1>5. Moves(c)
  BY <1>2, <1>4, Zenon DEF Moves
<1>6. network' = network /\ UNCHANGED_server /\ UNCHANGED_routers
  BY DEF Restart
<1> QED
  BY <1>3, <1>5, <1>6, ClientStepKeeps

\* What a client reads and does not take for an answer of the handshake changes
\* neither its attempt nor its number, unless it ends the connection.
LEMMA ReadMoves ==
  ASSUME TypeOK, NEW c \in Clients, NEW d, clc'[c] = ReadBy(c, d),
         d.kind = "challengeResponse" => <<d.number, d.reply>> \in Offered(c),
         d.kind = "connectResponse" => d \in Responses(c)
  PROVE  Moves(c)
<1>1. clc[c] \in ClientConnection
  BY DEF TypeOK
<1>2. CASE /\ d.kind = "challengeResponse" /\ clc[c].state = "CA_CONNECTING"
           /\ d.reply = clc[c].number
           /\ clc'[c] = [clc[c] EXCEPT !.state = "CA_CHALLENGING", !.number = d.number,
                                       !.waited = RETRANSMIT_TIMEOUT]
  <2>1. /\ clc'[c].state = "CA_CHALLENGING" /\ clc'[c].number = d.number
        /\ clc'[c].attempts = clc[c].attempts
    BY <1>1, <1>2 DEF ClientConnection
  <2> QED
    BY <1>2, <2>1, Zenon DEF Moves
<1>3. CASE /\ d.kind = "connectResponse" /\ clc[c].state = "CA_CHALLENGING"
           /\ d.number = clc[c].number
           /\ clc'[c] = [clc[c] EXCEPT !.state = "CA_CONNECTED",
                                       !.waited = RETRANSMIT_TIMEOUT, !.told = FALSE]
  <2>1. /\ clc'[c].state = "CA_CONNECTED" /\ clc'[c].number = clc[c].number
        /\ clc'[c].attempts = clc[c].attempts
    BY <1>1, <1>3 DEF ClientConnection
  <2> QED
    BY <1>3, <2>1, Zenon DEF Moves
<1>4. CASE clc'[c] \in {[clc[c] EXCEPT !.told = TRUE], [clc[c] EXCEPT !.silent = 0], clc[c]}
  BY <1>1, <1>4 DEF Moves, ClientConnection
<1>5. CASE clc'[c] = Wiped(c)
  <2>1. Wiped(c).state = "CA_DISCONNECTED" /\ Wiped(c).attempts = clc[c].attempts
    BY <1>1 DEF Wiped, ClientConnection
  <2> QED
    BY <1>5, <2>1, Zenon DEF Moves
<1> QED
  BY <1>2, <1>3, <1>4, <1>5 DEF ReadBy

LEMMA ClientEventKeeps ==
  ASSUME TypeOK, TypeOK', HandshakeInv, NEW c \in Clients, NEW d, CL_PacketEvent(c, d),
         d.kind = "challengeResponse" => <<d.number, d.reply>> \in Offered(c),
         d.kind = "connectResponse" => d \in Responses(c)
  PROVE  HandshakeInv'
<1>1. /\ clc' = [clc EXCEPT ![c] = ReadBy(c, d)]
      /\ network' \subseteq network \cup Farewell(c)
      /\ UNCHANGED_server /\ UNCHANGED_routers
  BY DEF CL_PacketEvent
<1>2. clc'[c] = ReadBy(c, d)
  BY <1>1, Zenon DEF TypeOK
<1>3. Moves(c)
  BY <1>2, ReadMoves
<1> QED
  BY <1>1, <1>3, FarewellKind, ClientStepKeeps

LEMMA ClientReceivesKeeps ==
  ASSUME TypeOK, TypeOK', HandshakeInv, NEW c \in Clients, ClientReceives(c)
  PROVE  HandshakeInv'
<1>1. PICK d \in network : d.to = address[c] /\ CL_PacketEvent(c, d)
  BY DEF ClientReceives
<1>2. d.to.base = Base[c]
  BY <1>1 DEF HandshakeInv, AddressesKept
<1>3. /\ d.kind = "challengeResponse" => <<d.number, d.reply>> \in Offered(c)
      /\ d.kind = "connectResponse" => d \in Responses(c)
  BY <1>1, <1>2, Zenon DEF Offered, Responses
<1> QED
  BY <1>1, <1>3, ClientEventKeeps

LEMMA SendClientMessageKeeps ==
  ASSUME TypeOK, TypeOK', HandshakeInv, NEW i \in Slots, SV_SendClientMessage(i)
  PROVE  HandshakeInv'
<1>1. PICK kind \in {"message", "disconnect"}, c \in Clients :
        CL_PacketEvent(c, FromServer(kind, slots[i].adr, slots[i].challenge, 0))
  BY DEF SV_SendClientMessage
<1> DEFINE d == FromServer(kind, slots[i].adr, slots[i].challenge, 0)
<1>2. d.kind \notin {"challengeResponse", "connectResponse"}
  BY DEF FromServer
<1> HIDE DEF d
<1>3. CL_PacketEvent(c, d)
  BY <1>1 DEF d
<1> QED
  BY <1>2, <1>3, ClientEventKeeps

\* What is sent is new, whatever becomes of an older copy of it.
LEMMA SendAdds ==
  ASSUME NEW d, Send(d)
  PROVE  \A e \in network' : e \in network \/ e = d
BY DEF Send, Younger

\* A client asks for a challenge with the number of its attempt.
LEMMA RequestKeeps ==
  ASSUME TypeOK, NEW c \in Clients, ClientInv(c),
         clc[c].state = "CA_CONNECTING", Send(FromClient(c, "getchallenge")),
         address[c].base = Base[c],
         clc'[c].state = clc[c].state, clc'[c].number = clc[c].number,
         clc'[c].attempts = clc[c].attempts, UNCHANGED <<slots, issued>>
  PROVE  ClientInv(c)'
<1> DEFINE d == FromClient(c, "getchallenge")
<1>1. d.kind = "getchallenge" /\ d.number = clc[c].number
  BY DEF FromClient
<1>2. \A e \in network' : e \in network \/ e = d
  BY SendAdds
<1> HIDE DEF d
<1>3. Connects(c)' \subseteq Connects(c) /\ Responses(c)' \subseteq Responses(c)
  BY <1>1, <1>2 DEF Connects, Responses
<1>4. Offered(c)' \subseteq Offered(c)
  BY <1>1, <1>2 DEF Offered
<1>5. ASSUME NEW n \in Requested(c)' PROVE n \in Requested(c) \/ n = clc[c].number
  BY <1>1, <1>2 DEF Requested
<1>6. SlotsKept(c) /\ SlotsOf(c)' = SlotsOf(c)
  BY SlotsSame
<1>7. Known(c)' \subseteq Known(c)
  <2>1. {slots'[i].challenge : i \in SlotsOf(c)'} \subseteq {slots[i].challenge : i \in SlotsOf(c)}
    BY <1>6, Zenon DEF SlotsKept
  <2> QED
    BY <1>3, <2>1 DEF Known
<1>8. Handshake(c)'
  <2>1. \A n \in Requested(c)' : n <= clc'[c].attempts
    BY <1>5 DEF ClientInv, Handshake
  <2>2. \A o \in Offered(c)' : o[1] <= issued' /\ o[2] <= clc'[c].attempts
    BY <1>4 DEF ClientInv, Handshake
  <2>3. \A n \in Known(c)' : n <= issued'
    BY <1>7 DEF ClientInv, Handshake
  <2>4. /\ clc'[c].number <= clc'[c].attempts
        /\ \A o \in Offered(c)' : o[2] = clc'[c].number => \A n \in Known(c)' : n < o[1]
    BY <1>4, <1>7, Zenon DEF ClientInv, Handshake
  <2> QED
    BY <2>1, <2>2, <2>3, <2>4 DEF Handshake
<1>9. Expiry(c)'
  <2>1. clc'[c].state # "CA_CONNECTED"
    OBVIOUS
  <2> QED
    BY <1>3, <1>6, <2>1, Zenon DEF ClientInv, Expiry, SlotsKept
<1>10. Agreement(c)'
  BY DEF Agreement, Answered
<1> QED
  BY <1>8, <1>9, <1>10, Zenon DEF ClientInv

\* A client that has a challenge connects with it: the latest in use.
LEMMA ConnectRequestKeeps ==
  ASSUME TypeOK, NEW c \in Clients, ClientInv(c),
         clc[c].state = "CA_CHALLENGING", Send(FromClient(c, "connect")),
         address[c].base = Base[c],
         clc'[c].state = clc[c].state, clc'[c].number = clc[c].number,
         clc'[c].attempts = clc[c].attempts, UNCHANGED <<slots, issued>>
  PROVE  ClientInv(c)'
<1> DEFINE d == FromClient(c, "connect")
<1>1. d.kind = "connect" /\ d.number = clc[c].number
  BY DEF FromClient
<1>2. \A e \in network' : e \in network \/ e = d
  BY SendAdds
<1> HIDE DEF d
<1>3. Responses(c)' \subseteq Responses(c)
  BY <1>1, <1>2 DEF Responses
<1>4. Offered(c)' \subseteq Offered(c) /\ Requested(c)' \subseteq Requested(c)
  BY <1>1, <1>2 DEF Offered, Requested
<1>5. ASSUME NEW e \in Connects(c)' PROVE e \in Connects(c) \/ e.number = clc[c].number
  BY <1>1, <1>2 DEF Connects
<1>6. SlotsKept(c) /\ SlotsOf(c)' = SlotsOf(c)
  BY SlotsSame
<1>7. ASSUME NEW n \in Known(c)' PROVE n \in Known(c) \/ n = clc[c].number
  <2>1. CASE \E e \in Connects(c)' : n = e.number
    BY <1>5, <2>1, Zenon DEF Known
  <2>2. CASE \E e \in Responses(c)' : n = e.number
    BY <1>3, <2>2, Zenon DEF Known
  <2>3. CASE \E i \in SlotsOf(c)' : n = slots'[i].challenge
    BY <1>6, <2>3, Zenon DEF Known
  <2> QED
    BY <1>7, <2>1, <2>2, <2>3, Zenon DEF Known
<1>8. /\ clc[c].number <= issued /\ \A n \in Known(c) : n <= clc[c].number
      /\ clc[c].number \in Nat /\ issued \in Nat /\ Known(c) \subseteq Nat
  BY ConnectionTypes, NumberTypes DEF ClientInv, Handshake
<1>9. Handshake(c)'
  <2>1. \A n \in Requested(c)' : n <= clc'[c].attempts
    BY <1>4 DEF ClientInv, Handshake
  <2>2. \A o \in Offered(c)' : o[1] <= issued' /\ o[2] <= clc'[c].attempts
    BY <1>4 DEF ClientInv, Handshake
  <2>3. \A n \in Known(c)' : n <= clc'[c].number
    BY <1>7, <1>8
  <2>4. \A n \in Known(c)' : n <= issued'
    BY <1>7, <1>8
  <2> QED
    BY <1>8, <2>1, <2>2, <2>3, <2>4 DEF Handshake
<1>10. Expiry(c)'
  <2> SUFFICES ASSUME NEW i \in SlotsOf(c)
               PROVE  /\ \A e \in Connects(c)' :
                           e.number < slots[i].challenge =>
                             e.ticks + slots[i].connected <= Lifetime
                      /\ \A e \in Responses(c)' : e.ticks + slots[i].connected <= Lifetime
    BY <1>6, Zenon DEF Expiry
  <2>1. slots[i].challenge \in Known(c)
    BY Zenon DEF Known
  <2>2. ~(clc[c].number < slots[i].challenge)
    BY <1>8, <2>1
  <2> QED
    BY <1>3, <1>5, <2>2, Zenon DEF ClientInv, Expiry
<1>11. Agreement(c)'
  <2> SUFFICES ASSUME Answered(c)'
               PROVE  /\ \A i \in SlotsOf(c) : slots[i].challenge = clc[c].number
                      /\ \A e \in Connects(c)' : e.number < clc[c].number => SlotsOf(c) # {}
    BY <1>6, Zenon DEF Agreement
  <2>1. Answered(c)
    BY <1>3 DEF Answered
  <2>2. /\ \A i \in SlotsOf(c) : slots[i].challenge = clc[c].number
        /\ \A e \in Connects(c) : e.number < clc[c].number => SlotsOf(c) # {}
    BY <2>1, Zenon DEF ClientInv, Agreement
  <2>3. ~(clc[c].number < clc[c].number)
    BY <1>8
  <2> QED
    BY <1>5, <2>2, <2>3, Zenon
<1> QED
  BY <1>9, <1>10, <1>11, Zenon DEF ClientInv

LEMMA ResendKeeps ==
  ASSUME TypeOK, TypeOK', HandshakeInv, OwnAddresses, NEW c \in Clients, CL_CheckForResend(c)
  PROVE  HandshakeInv'
<1> DEFINE kind == IF clc[c].state = "CA_CONNECTING" THEN "getchallenge" ELSE "connect"
<1>1. /\ clc' = [clc EXCEPT ![c] = [clc[c] EXCEPT !.waited = 0]]
      /\ Send(FromClient(c, kind)) /\ UNCHANGED <<slots, issued, address>>
      /\ clc[c].state \in {"CA_CONNECTING", "CA_CHALLENGING"}
  BY DEF CL_CheckForResend, UNCHANGED_server, UNCHANGED_routers
<1>2. AddressesKept' /\ HeardSince'
  BY <1>1, Zenon DEF HandshakeInv, AddressesKept, HeardSince, InUse
<1>3. address[c].base = Base[c]
  BY DEF HandshakeInv, AddressesKept
<1>4. ASSUME NEW e \in Clients PROVE ClientInv(e)'
  <2>1. ClientInv(e)
    BY DEF HandshakeInv
  <2>2. CASE e = c
    <3>1. clc'[c] = [clc[c] EXCEPT !.waited = 0]
      BY <1>1 DEF TypeOK
    <3>2. /\ clc'[c].state = clc[c].state /\ clc'[c].number = clc[c].number
          /\ clc'[c].attempts = clc[c].attempts
      BY <3>1 DEF TypeOK, ClientConnection
    <3>3. CASE clc[c].state = "CA_CONNECTING"
      BY <1>1, <1>3, <2>1, <2>2, <3>2, <3>3, RequestKeeps
    <3>4. CASE clc[c].state = "CA_CHALLENGING"
      BY <1>1, <1>3, <2>1, <2>2, <3>2, <3>4, ConnectRequestKeeps
    <3> QED
      BY <1>1, <3>3, <3>4
  <2>3. CASE e # c
    <3> DEFINE d == FromClient(c, kind)
    <3>1. d.kind \in {"getchallenge", "connect"} /\ d.from.base = Base[c]
      BY <1>3 DEF FromClient
    <3>2. Base[c] # Base[e]
      BY <2>3 DEF OwnAddresses
    <3> HIDE DEF d
    <3>3. \A m \in network' : m \in network \/ m = d
      BY <1>1, SendAdds DEF d
    <3>4. NothingNew(e)
      BY <3>1, <3>2, <3>3, NothingNewBy, Zenon
    <3>5. clc'[e] = clc[e]
      BY <1>1, <2>3, Zenon DEF TypeOK
    <3>6. issued <= issued'
      BY <1>1 DEF TypeOK
    <3>7. SlotsKept(e) /\ SlotsOf(e)' = SlotsOf(e)
      BY <1>1, SlotsSame
    <3>8. Untouched(e)
      BY <3>4, <3>5, <3>6, <3>7, Zenon DEF Untouched
    <3> QED
      BY <2>1, <3>8, UntouchedKeeps
  <2> QED
    BY <2>2, <2>3
<1> QED
  BY <1>2, <1>4, Zenon DEF HandshakeInv

-----------------------------------------------------------------------------
(* The server's steps. *)

LEMMA SlotsOfAre ==
  ASSUME NEW c, NEW i
  PROVE  /\ i \in SlotsOf(c) <=>
              i \in Slots /\ slots[i].state # "CS_FREE" /\ slots[i].adr.base = Base[c]
         /\ i \in SlotsOf(c)' <=>
              i \in Slots /\ slots'[i].state # "CS_FREE" /\ slots'[i].adr.base = Base[c]
BY Zenon DEF SlotsOf, InUse

\* A challenge that is offered is later than all that are in use.
LEMMA OfferKeeps ==
  ASSUME TypeOK, TypeOK', NEW c \in Clients, ClientInv(c), NEW d \in network,
         d.kind = "getchallenge", d.from.base = Base[c],
         Send(FromServer("challengeResponse", d.from, issued + 1, d.number)),
         issued' = issued + 1, UNCHANGED <<slots, clc>>
  PROVE  ClientInv(c)'
<1> DEFINE r == FromServer("challengeResponse", d.from, issued + 1, d.number)
<1>1. r.kind = "challengeResponse" /\ r.number = issued + 1 /\ r.reply = d.number
  BY DEF FromServer
<1>2. \A e \in network' : e \in network \/ e = r
  BY SendAdds
<1> HIDE DEF r
<1>3. /\ Connects(c)' \subseteq Connects(c) /\ Responses(c)' \subseteq Responses(c)
      /\ Requested(c)' \subseteq Requested(c)
  BY <1>1, <1>2 DEF Connects, Responses, Requested
<1>4. ASSUME NEW o \in Offered(c)'
      PROVE  o \in Offered(c) \/ o = <<issued + 1, d.number>>
  BY <1>1, <1>2 DEF Offered
<1>5. SlotsKept(c) /\ SlotsOf(c)' = SlotsOf(c)
  BY SlotsSame
<1>6. Known(c)' \subseteq Known(c)
  <2>1. {slots'[i].challenge : i \in SlotsOf(c)'} \subseteq {slots[i].challenge : i \in SlotsOf(c)}
    BY <1>5, Zenon DEF SlotsKept
  <2> QED
    BY <1>3, <2>1 DEF Known
<1>7. /\ clc[c].number \in Nat /\ clc[c].attempts \in Nat /\ issued \in Nat
      /\ Known(c) \subseteq Nat /\ Offered(c) \subseteq Nat \X Nat
  BY ConnectionTypes, NumberTypes
<1>8. d.number <= clc[c].attempts
  BY Zenon DEF ClientInv, Handshake, Requested
<1>9. ASSUME NEW n \in Known(c) PROVE n <= issued /\ n < issued + 1 /\ n <= issued + 1
  BY <1>7 DEF ClientInv, Handshake
<1>10. Handshake(c)'
  <2>1. \A n \in Requested(c)' : n <= clc'[c].attempts
    BY <1>3 DEF ClientInv, Handshake
  <2>2. ASSUME NEW o \in Offered(c)' PROVE o[1] <= issued' /\ o[2] <= clc'[c].attempts
    <3>1. CASE o \in Offered(c)
      <4>1. o[1] <= issued /\ o[2] <= clc[c].attempts /\ o[1] \in Nat
        BY <1>7, <3>1 DEF ClientInv, Handshake
      <4> QED
        BY <1>7, <4>1
    <3>2. CASE o = <<issued + 1, d.number>>
      BY <1>7, <1>8, <3>2
    <3> QED
      BY <1>4, <3>1, <3>2
  <2>3. \A n \in Known(c)' : n <= issued'
    BY <1>6, <1>9
  <2>4. ASSUME clc'[c].state = "CA_CONNECTING"
        PROVE  /\ clc'[c].number <= clc'[c].attempts
               /\ \A o \in Offered(c)' : o[2] = clc'[c].number => \A n \in Known(c)' : n < o[1]
    <3>1. clc'[c].number <= clc'[c].attempts
      BY <2>4 DEF ClientInv, Handshake
    <3>2. ASSUME NEW o \in Offered(c)', o[2] = clc'[c].number, NEW n \in Known(c)'
          PROVE  n < o[1]
      <4>1. CASE o \in Offered(c)
        BY <1>6, <2>4, <3>2, <4>1, Zenon DEF ClientInv, Handshake
      <4>2. CASE o = <<issued + 1, d.number>>
        BY <1>6, <1>9, <4>2
      <4> QED
        BY <1>4, <4>1, <4>2
    <3> QED
      BY <3>1, <3>2
  <2>5. ASSUME clc'[c].state \in {"CA_CHALLENGING", "CA_CONNECTED"}
        PROVE  clc'[c].number <= issued' /\ \A n \in Known(c)' : n <= clc'[c].number
    BY <1>6, <1>7, <2>5 DEF ClientInv, Handshake
  <2> QED
    BY <2>1, <2>2, <2>3, <2>4, <2>5 DEF Handshake
<1>11. Expiry(c)'
  BY <1>3, <1>5, Zenon DEF ClientInv, Expiry, SlotsKept
<1>12. Agreement(c)'
  <2>1. Answered(c)' => Answered(c)
    BY <1>3 DEF Answered
  <2> QED
    BY <1>3, <1>5, <2>1, Zenon DEF ClientInv, Agreement, SlotsKept
<1> QED
  BY <1>10, <1>11, <1>12, Zenon DEF ClientInv

LEMMA GetChallengeKeeps ==
  ASSUME TypeOK, TypeOK', HandshakeInv, NEW d \in network, SV_GetChallenge(d)
  PROVE  HandshakeInv'
<1>1. /\ UNCHANGED <<slots, clc, address>> /\ issued' = issued + 1
      /\ Send(FromServer("challengeResponse", d.from, issued + 1, d.number))
      /\ d.kind = "getchallenge"
  BY DEF SV_GetChallenge, UNCHANGED_routers
<1>2. AddressesKept' /\ HeardSince'
  BY <1>1, Zenon DEF HandshakeInv, AddressesKept, HeardSince, InUse
<1>3. ASSUME NEW e \in Clients PROVE ClientInv(e)'
  <2>1. ClientInv(e)
    BY DEF HandshakeInv
  <2>2. CASE d.from.base = Base[e]
    BY <1>1, <2>1, <2>2, OfferKeeps
  <2>3. CASE d.from.base # Base[e]
    <3> DEFINE r == FromServer("challengeResponse", d.from, issued + 1, d.number)
    <3>1. r.kind = "challengeResponse" /\ r.to.base # Base[e]
      BY <2>3 DEF FromServer
    <3> HIDE DEF r
    <3>2. \A m \in network' : m \in network \/ m = r
      BY <1>1, SendAdds DEF r
    <3>3. NothingNew(e)
      BY <3>1, <3>2, NothingNewBy, Zenon
    <3>4. SlotsKept(e) /\ SlotsOf(e)' = SlotsOf(e)
      BY <1>1, SlotsSame
    <3>5. issued <= issued'
      BY <1>1 DEF TypeOK
    <3>6. Untouched(e)
      BY <1>1, <3>3, <3>4, <3>5, Zenon DEF Untouched
    <3> QED
      BY <2>1, <3>6, UntouchedKeeps
  <2> QED
    BY <2>2, <2>3
<1> QED
  BY <1>2, <1>3, Zenon DEF HandshakeInv

\* The client of a slot is heard of, or dropped: the slot stays as old as it is.
LEMMA SameSlotKeeps ==
  ASSUME TypeOK, TypeOK', HandshakeInv, NEW i \in Slots, InUse(i), NEW n,
         slots' = [slots EXCEPT ![i] = n], n.state # "CS_FREE",
         n.adr.base = slots[i].adr.base, n.challenge = slots[i].challenge,
         n.connected = slots[i].connected, n.silent \in {0, slots[i].silent},
         UNCHANGED <<network, clc, issued, address>>
  PROVE  HandshakeInv'
<1>1. slots'[i] = n /\ \A j \in Slots : j # i => slots'[j] = slots[j]
  BY DEF TypeOK
<1>2. AddressesKept'
  BY Zenon DEF HandshakeInv, AddressesKept
<1>3. HeardSince'
  <2> SUFFICES ASSUME NEW j \in Slots, InUse(j)'
               PROVE  \/ slots'[j].silent <= slots'[j].connected
                      \/ slots'[j].connected = sv_reconnectlimit
    BY DEF HeardSince
  <2>1. CASE j # i
    BY <1>1, <2>1, Zenon DEF HandshakeInv, HeardSince, InUse
  <2>2. CASE j = i /\ n.silent = slots[i].silent
    BY <1>1, <2>2, Zenon DEF HandshakeInv, HeardSince
  <2>3. CASE j = i /\ n.silent = 0
    <3>1. slots[i].connected \in 0..sv_reconnectlimit /\ sv_reconnectlimit \in Nat
      BY SlotTypes, LimitTypes
    <3> QED
      BY <1>1, <2>3, <3>1
  <2> QED
    BY <2>1, <2>2, <2>3
<1>4. ASSUME NEW c \in Clients PROVE ClientInv(c)'
  <2>1. ClientInv(c)
    BY DEF HandshakeInv
  <2>2. ASSUME NEW j PROVE j \in SlotsOf(c)' <=> j \in SlotsOf(c)
    <3>1. CASE j = i
      BY <1>1, <3>1, SlotsOfAre, Zenon DEF InUse
    <3>2. CASE j # i
      BY <1>1, <3>2, SlotsOfAre, Zenon
    <3> QED
      BY <3>1, <3>2
  <2>3. SlotsKept(c)
    <3> SUFFICES ASSUME NEW j \in SlotsOf(c)'
                 PROVE  /\ j \in SlotsOf(c) /\ slots'[j].challenge = slots[j].challenge
                        /\ slots'[j].connected = slots[j].connected
      BY DEF SlotsKept
    <3>1. j \in Slots
      BY SlotsOfAre
    <3>2. j \in SlotsOf(c)
      BY <2>2
    <3>3. /\ slots'[j].challenge = slots[j].challenge
          /\ slots'[j].connected = slots[j].connected
      BY <1>1, <3>1, Zenon
    <3> QED
      BY <3>2, <3>3
  <2>4. NothingNew(c)
    BY DEF NothingNew, Connects, Responses, Requested, Offered
  <2>5. issued <= issued'
    BY DEF TypeOK
  <2>6. Untouched(c)
    BY <2>2, <2>3, <2>4, <2>5 DEF Untouched
  <2> QED
    BY <2>1, <2>6, UntouchedKeeps
<1> QED
  BY <1>2, <1>3, <1>4, Zenon DEF HandshakeInv

\* A slot is freed of which no earlier connect packet is under way.
LEMMA FreedKeeps ==
  ASSUME TypeOK, TypeOK', HandshakeInv, NEW i \in Slots, NEW n,
         slots' = [slots EXCEPT ![i] = n], n.state = "CS_FREE",
         \A d \in network' : d \in network \/ d.kind \in {"disconnect", "print"},
         \A c \in Clients :
           i \in SlotsOf(c) => \A d \in Connects(c) : ~(d.number < slots[i].challenge),
         UNCHANGED <<clc, issued, address>>
  PROVE  HandshakeInv'
<1>1. slots'[i] = n /\ \A j \in Slots : j # i => slots'[j] = slots[j]
  BY DEF TypeOK
<1>2. AddressesKept'
  BY Zenon DEF HandshakeInv, AddressesKept
<1>3. HeardSince'
  BY <1>1, Zenon DEF HandshakeInv, HeardSince, InUse
<1>4. ASSUME NEW c \in Clients PROVE ClientInv(c)'
  <2>1. ClientInv(c)
    BY DEF HandshakeInv
  <2>2. ASSUME NEW j
        PROVE  /\ j \in SlotsOf(c)' => j \in SlotsOf(c) /\ j # i
               /\ j \in SlotsOf(c) /\ j # i => j \in SlotsOf(c)'
    <3>1. slots'[i].state = "CS_FREE"
      BY <1>1, Zenon
    <3>2. i \notin SlotsOf(c)'
      BY <3>1, SlotsOfAre, Zenon
    <3>3. j # i => (j \in SlotsOf(c)' <=> j \in SlotsOf(c))
      BY <1>1, SlotsOfAre, Zenon
    <3> QED
      BY <3>2, <3>3, Zenon
  <2>3. SlotsKept(c)
    <3> SUFFICES ASSUME NEW j \in SlotsOf(c)'
                 PROVE  /\ j \in SlotsOf(c) /\ slots'[j].challenge = slots[j].challenge
                        /\ slots'[j].connected = slots[j].connected
      BY DEF SlotsKept
    <3>1. j \in SlotsOf(c) /\ j # i /\ j \in Slots
      BY <2>2, SlotsOfAre
    <3> QED
      BY <1>1, <3>1, Zenon
  <2>4. NothingNew(c)
    BY NothingNewBy, Zenon
  <2>5. issued <= issued'
    BY DEF TypeOK
  <2>6. Moves(c)
    BY DEF Moves
  <2>7. /\ Known(c)' \subseteq Known(c) /\ Requested(c)' \subseteq Requested(c)
        /\ Offered(c)' \subseteq Offered(c)
    BY <2>3, <2>4, KnownKept DEF NothingNew
  <2>8. Handshake(c)' /\ Expiry(c)'
    BY <2>1, <2>3, <2>4, <2>5, <2>6, <2>7, HandshakeMoves, ExpiryMoves DEF ClientInv
  <2>9. Agreement(c)'
    <3> SUFFICES ASSUME Answered(c)'
                 PROVE  /\ \A j \in SlotsOf(c)' : slots'[j].challenge = clc[c].number
                        /\ \A d \in Connects(c)' :
                             d.number < clc[c].number => SlotsOf(c)' # {}
      BY Zenon DEF Agreement
    <3>1. Answered(c)
      BY <2>1, <2>4, <2>6, AnsweredMoves DEF ClientInv
    <3>2. /\ \A j \in SlotsOf(c) : slots[j].challenge = clc[c].number
          /\ \A d \in Connects(c) : d.number < clc[c].number => SlotsOf(c) # {}
      BY <2>1, <3>1, Zenon DEF ClientInv, Agreement
    <3>3. \A j \in SlotsOf(c)' : slots'[j].challenge = clc[c].number
      BY <2>3, <3>2, Zenon DEF SlotsKept
    <3>4. ASSUME NEW d \in Connects(c)', d.number < clc[c].number PROVE SlotsOf(c)' # {}
      <4>1. d \in Connects(c)
        BY <2>4 DEF NothingNew
      <4>2. PICK j \in SlotsOf(c) : TRUE
        BY <3>2, <3>4, <4>1
      <4>3. j # i
        BY <3>2, <3>4, <4>1, <4>2, Zenon
      <4> QED
        BY <2>2, <4>2, <4>3
    <3> QED
      BY <3>3, <3>4
  <2> QED
    BY <2>8, <2>9 DEF ClientInv
<1> QED
  BY <1>2, <1>3, <1>4, Zenon DEF HandshakeInv

\* An old slot is one of which no earlier connect packet is under way.
LEMMA OldSlot ==
  ASSUME TypeOK, HandshakeInv, NEW i \in Slots, slots[i].connected > Lifetime
  PROVE  \A c \in Clients :
           i \in SlotsOf(c) => \A d \in Connects(c) : ~(d.number < slots[i].challenge)
<1> SUFFICES ASSUME NEW c \in Clients, i \in SlotsOf(c), NEW d \in Connects(c),
                    d.number < slots[i].challenge
             PROVE  FALSE
  OBVIOUS
<1>1. d.ticks + slots[i].connected <= Lifetime
  BY Zenon DEF HandshakeInv, ClientInv, Expiry
<1>2. d.ticks \in 0..Lifetime /\ slots[i].connected \in 0..sv_reconnectlimit
  BY NumberTypes, SlotTypes
<1>3. Lifetime \in Nat /\ sv_reconnectlimit \in Nat
  BY LimitTypes
<1> QED
  BY <1>1, <1>2, <1>3

LEMMA CheckTimeoutKeeps ==
  ASSUME TypeOK, TypeOK', HandshakeInv, NEW i \in Slots, SV_CheckTimeout(i),
         Lifetime <= sv_zombietime, Lifetime <= sv_timeout, Lifetime < sv_reconnectlimit
  PROVE  HandshakeInv'
<1>1. slots[i].silent > Lifetime /\ InUse(i)
  <2>1. /\ slots[i].silent > sv_zombietime \/ slots[i].silent > sv_timeout
        /\ slots[i].state \in {"CS_ZOMBIE", "CS_CONNECTED"}
    BY DEF SV_CheckTimeout
  <2>2. slots[i].silent \in 0..LongSilent /\ LongSilent \in Nat
    BY SlotTypes, LimitTypes
  <2> QED
    BY <2>1, <2>2, LimitTypes DEF InUse
<1>2. slots[i].connected > Lifetime
  <2>1. slots[i].silent <= slots[i].connected \/ slots[i].connected = sv_reconnectlimit
    BY <1>1 DEF HandshakeInv, HeardSince
  <2>2. slots[i].silent \in Nat /\ slots[i].connected \in Nat
    BY SlotTypes, LimitTypes
  <2> QED
    BY <1>1, <2>1, <2>2, LimitTypes
<1>3. /\ slots' = [slots EXCEPT ![i] = NoClient]
      /\ UNCHANGED <<clc, issued, address, network>>
  BY DEF SV_CheckTimeout, UNCHANGED_routers
<1>4. NoClient.state = "CS_FREE"
  BY DEF NoClient
<1> QED
  BY <1>2, <1>3, <1>4, OldSlot, FreedKeeps

LEMMA DropKeeps ==
  ASSUME TypeOK, TypeOK', HandshakeInv, NEW i \in Slots, InUse(i), NEW c \in ClientT,
         SV_DropClient(i, c),
         c.adr.base = slots[i].adr.base, c.challenge = slots[i].challenge,
         c.connected = slots[i].connected, c.silent \in {0, slots[i].silent},
         UNCHANGED <<network, clc, issued, address>>
  PROVE  HandshakeInv'
<1> DEFINE z == [c EXCEPT !.state = "CS_ZOMBIE"]
<1>1. slots' = [slots EXCEPT ![i] = z]
  BY DEF SV_DropClient
<1>2. /\ z.state = "CS_ZOMBIE" /\ z.adr = c.adr /\ z.challenge = c.challenge
      /\ z.connected = c.connected /\ z.silent = c.silent
  BY DEF ClientT
<1> HIDE DEF z
<1>3. z.state # "CS_FREE" /\ z.adr.base = slots[i].adr.base
  BY <1>2
<1> QED
  BY <1>1, <1>2, <1>3, SameSlotKeeps

LEMMA KickKeeps ==
  ASSUME TypeOK, TypeOK', HandshakeInv, NEW i \in Slots, KickClient(i)
  PROVE  HandshakeInv'
<1>1. slots[i] \in ClientT /\ InUse(i) /\ SV_DropClient(i, slots[i])
  BY SlotTypes DEF KickClient, InUse
<1>2. UNCHANGED <<network, clc, issued, address>>
  BY DEF KickClient, UNCHANGED_routers
<1> QED
  BY <1>1, <1>2, DropKeeps

LEMMA PacketEventKeeps ==
  ASSUME TypeOK, TypeOK', HandshakeInv, NEW d, d.from \in Addresses, SV_PacketEvent(d)
  PROVE  HandshakeInv'
<1> DEFINE i == Min(Recipients(d))
           c == [slots[i] EXCEPT !.adr = d.from]
           e == [c EXCEPT !.silent = 0]
<1>1. i \in Slots /\ InUse(i) /\ slots[i].adr.base = d.from.base
  BY RecipientType DEF Recipients, InUse
<1>2. slots[i] \in ClientT
  BY <1>1 DEF TypeOK
<1>3. /\ c.adr = d.from /\ c.state = slots[i].state /\ c.challenge = slots[i].challenge
      /\ c.connected = slots[i].connected /\ c.silent = slots[i].silent
      /\ e.adr = d.from /\ e.state = slots[i].state /\ e.challenge = slots[i].challenge
      /\ e.connected = slots[i].connected /\ e.silent = 0 /\ e \in ClientT
  <2> HIDE DEF i
  <2>1. c \in ClientT
    BY <1>2 DEF ClientT
  <2>2. 0 \in 0..LongSilent
    BY LimitTypes
  <2> QED
    BY <1>2, <2>1, <2>2 DEF ClientT
<1>4. \/ slots' = [slots EXCEPT ![i] = c]
      \/ SV_DropClient(i, e)
      \/ slots' = [slots EXCEPT ![i] = e]
  BY DEF SV_PacketEvent, Heard
<1>5. UNCHANGED <<network, clc, issued, address>>
  BY DEF SV_PacketEvent, UNCHANGED_routers
<1> HIDE DEF i, c, e
<1>6. c.adr.base = slots[i].adr.base /\ e.adr.base = slots[i].adr.base
  BY <1>1, <1>3
<1>7. c.state # "CS_FREE" /\ e.state # "CS_FREE"
  BY <1>1, <1>3 DEF InUse
<1>8. CASE slots' = [slots EXCEPT ![i] = c]
  BY <1>1, <1>3, <1>5, <1>6, <1>7, <1>8, SameSlotKeeps
<1>9. CASE slots' = [slots EXCEPT ![i] = e]
  BY <1>1, <1>3, <1>5, <1>6, <1>7, <1>9, SameSlotKeeps
<1>10. CASE SV_DropClient(i, e)
  BY <1>1, <1>3, <1>5, <1>6, <1>10, DropKeeps
<1> QED
  BY <1>4, <1>8, <1>9, <1>10

\* The slot of an accepted connect packet becomes one that has been there for no
\* time.  It is not for an earlier challenge than the one the client is connected
\* with, or the slot would have turned it away.
LEMMA AcceptedKeeps ==
  ASSUME TypeOK, TypeOK', NEW c \in Clients, ClientInv(c), NEW i \in Slots,
         NEW d \in Connects(c), SlotsOf(c) \subseteq {i},
         i \in SlotsOf(c) => slots[i].connected > Lifetime,
         SlotsOf(c)' = {i}, slots'[i].challenge = d.number, slots'[i].connected = 0,
         Send(FromServer("connectResponse", d.from, d.number, 0)),
         UNCHANGED <<clc, issued>>
  PROVE  ClientInv(c)'
<1> DEFINE r == FromServer("connectResponse", d.from, d.number, 0)
<1>1. r.kind = "connectResponse" /\ r.number = d.number
  BY DEF FromServer
<1>2. \A e \in network' : e \in network \/ e = r
  BY SendAdds
<1> HIDE DEF r
<1>3. /\ Connects(c)' \subseteq Connects(c) /\ Requested(c)' \subseteq Requested(c)
      /\ Offered(c)' \subseteq Offered(c)
  BY <1>1, <1>2 DEF Connects, Requested, Offered
<1>4. ASSUME NEW e \in Responses(c)' PROVE e \in Responses(c) \/ e.number = d.number
  BY <1>1, <1>2 DEF Responses
<1>5. d.number \in Known(c)
  BY Zenon DEF Known
<1>6. Known(c)' \subseteq Known(c)
  <2> SUFFICES ASSUME NEW n \in Known(c)' PROVE n \in Known(c)
    OBVIOUS
  <2>1. CASE \E e \in Connects(c)' : n = e.number
    BY <1>3, <2>1, Zenon DEF Known
  <2>2. CASE \E e \in Responses(c)' : n = e.number
    BY <1>4, <1>5, <2>2, Zenon DEF Known
  <2>3. CASE \E j \in SlotsOf(c)' : n = slots'[j].challenge
    BY <1>5, <2>3, Zenon
  <2> QED
    BY <2>1, <2>2, <2>3, Zenon DEF Known
<1>7. Handshake(c)'
  <2>1. Moves(c) /\ issued <= issued'
    BY DEF Moves, TypeOK
  <2> QED
    BY <1>3, <1>6, <2>1, HandshakeMoves DEF ClientInv
<1>8. Lifetime \in Nat /\ sv_reconnectlimit \in Nat
  BY LimitTypes
<1>9. Expiry(c)'
  <2>1. ASSUME NEW e \in Connects(c)' PROVE e.ticks + 0 <= Lifetime /\ e.ticks + 0 <= 2 * Lifetime
    BY <1>3, <1>8, NumberTypes
  <2>2. ASSUME NEW e \in Responses(c)' PROVE e.ticks + 0 <= Lifetime
    <3>1. e.ticks \in 0..Lifetime
      BY NumberTypes DEF TypeOK, Responses, ToServer, ToClient
    <3> QED
      BY <1>8, <3>1
  <2> QED
    BY <2>1, <2>2, Zenon DEF Expiry
<1>10. Agreement(c)'
  <2> SUFFICES ASSUME Answered(c)' PROVE d.number = clc[c].number
    BY Zenon DEF Agreement
  <2>1. CASE ~Answered(c)
    BY <1>4, <2>1, Zenon DEF Answered
  <2>2. CASE Answered(c)
    <3>1. clc[c].state \in {"CA_CHALLENGING", "CA_CONNECTED"}
      BY <2>2 DEF Answered
    <3>2. d.number <= clc[c].number /\ d.number \in Nat /\ clc[c].number \in Nat
      BY <1>5, <3>1, NumberTypes, ConnectionTypes DEF ClientInv, Handshake
    <3>3. ASSUME d.number < clc[c].number PROVE FALSE
      <4>1. i \in SlotsOf(c) /\ slots[i].challenge = clc[c].number
        BY <2>2, <3>3 DEF ClientInv, Agreement
      <4>2. d.ticks + slots[i].connected <= Lifetime
        BY <3>3, <4>1, Zenon DEF ClientInv, Expiry
      <4>3. d.ticks \in 0..Lifetime /\ slots[i].connected \in 0..sv_reconnectlimit
        BY NumberTypes, SlotTypes
      <4> QED
        BY <1>8, <4>1, <4>2, <4>3
    <3> QED
      BY <3>2, <3>3
  <2> QED
    BY <2>1, <2>2
<1> QED
  BY <1>7, <1>9, <1>10, Zenon DEF ClientInv

\* The slot of a connect packet is the one of its address, or is free, and is
\* past the quick reject.
LEMMA CandidateSlot ==
  ASSUME NEW q, QPorts = {q}, TypeOK, OneSlotEach, NEW d \in ToServer, ~TooSoon(d),
         Candidates(d) # {}, Lifetime < sv_reconnectlimit, NEW i, i = Min(Candidates(d))
  PROVE  /\ i \in Slots
         /\ \A j \in Slots : InUse(j) /\ slots[j].adr.base = d.from.base => j = i
         /\ InUse(i) => slots[i].adr.base = d.from.base
                        /\ slots[i].connected >= sv_reconnectlimit
                        /\ slots[i].connected > Lifetime
<1>1. i \in Candidates(d) /\ i \in Slots
  <2>1. Candidates(d) \subseteq Slots
    BY DEF Candidates, SameClient, FreeSlots
  <2>2. Candidates(d) \subseteq Nat
    BY <2>1, SlotAssumption DEF Slots
  <2> QED
    BY <2>1, <2>2, MinIsLeast
<1>2. \A j \in Slots : slots[j].qport = q
  BY DEF TypeOK, ClientT
<1>3. d.qport = q
  BY DEF ToServer
<1>4. ASSUME NEW j \in Slots, InUse(j), slots[j].adr.base = d.from.base PROVE j = i
  <2>1. j \in SameClient(d)
    BY <1>2, <1>3, <1>4, Zenon DEF SameClient, InUse
  <2>2. i \in SameClient(d)
    BY <1>1, <2>1, Zenon DEF Candidates
  <2>3. InUse(i) /\ slots[i].adr.base = d.from.base
    BY <2>2, Zenon DEF SameClient, InUse
  <2> QED
    BY <1>1, <1>2, <1>4, <2>3, Zenon DEF OneSlotEach
<1>5. ASSUME InUse(i)
      PROVE  /\ slots[i].adr.base = d.from.base /\ slots[i].connected >= sv_reconnectlimit
             /\ slots[i].connected > Lifetime
  <2>1. SameClient(d) # {} /\ i \in SameClient(d)
    BY <1>1, <1>5, Zenon DEF Candidates, FreeSlots, InUse
  <2>2. i = Min(SameClient(d))
    BY <2>1 DEF Candidates
  <2>3. ~(slots[i].connected < sv_reconnectlimit)
    BY <2>1, <2>2, Zenon DEF TooSoon
  <2>4. slots[i].connected \in 0..sv_reconnectlimit
    BY <1>1, SlotTypes
  <2>5. slots[i].adr.base = d.from.base
    BY <2>1, Zenon DEF SameClient
  <2> QED
    BY <2>3, <2>4, <2>5, LimitTypes
<1> QED
  BY <1>1, <1>4, <1>5

LEMMA AcceptKeeps ==
  ASSUME TypeOK, TypeOK', HandshakeInv, NEW d \in network, d.kind = "connect",
         NEW i \in Slots, Accept(d, i),
         \A j \in Slots : InUse(j) /\ slots[j].adr.base = d.from.base => j = i,
         InUse(i) => slots[i].adr.base = d.from.base /\ slots[i].connected > Lifetime,
         UNCHANGED <<clc, issued, address>>
  PROVE  HandshakeInv'
<1>1. /\ slots'[i] = NewClient(d)
      /\ \A j \in Slots : j # i => slots'[j] = slots[j]
      /\ Send(FromServer("connectResponse", d.from, d.number, 0))
  BY DEF Accept, TypeOK
<1>2. /\ NewClient(d).state # "CS_FREE" /\ NewClient(d).adr = d.from
      /\ NewClient(d).challenge = d.number /\ NewClient(d).connected = 0
      /\ NewClient(d).silent = 0
  BY DEF NewClient
<1>3. AddressesKept'
  BY Zenon DEF HandshakeInv, AddressesKept
<1>4. HeardSince'
  <2> SUFFICES ASSUME NEW j \in Slots, InUse(j)'
               PROVE  \/ slots'[j].silent <= slots'[j].connected
                      \/ slots'[j].connected = sv_reconnectlimit
    BY DEF HeardSince
  <2>1. CASE j # i
    BY <1>1, <2>1, Zenon DEF HandshakeInv, HeardSince, InUse
  <2>2. CASE j = i
    BY <1>1, <1>2, <2>2
  <2> QED
    BY <2>1, <2>2
<1>5. ASSUME NEW c \in Clients PROVE ClientInv(c)'
  <2>1. ClientInv(c)
    BY DEF HandshakeInv
  <2>2. CASE d.from.base = Base[c]
    <3>1. d \in Connects(c)
      BY <2>2, Zenon DEF Connects
    <3>2. SlotsOf(c) \subseteq {i}
      BY <2>2, Zenon DEF SlotsOf
    <3>3. i \in SlotsOf(c) => slots[i].connected > Lifetime
      BY DEF SlotsOf
    <3>4. ASSUME NEW j PROVE j \in SlotsOf(c)' <=> j = i
      <4>1. CASE j = i
        BY <1>1, <1>2, <2>2, <4>1, SlotsOfAre, Zenon
      <4>2. CASE j # i
        BY <1>1, <3>2, <4>2, SlotsOfAre, Zenon
      <4> QED
        BY <4>1, <4>2
    <3>5. SlotsOf(c)' = {i}
      BY <3>4
    <3> QED
      BY <1>1, <1>2, <2>1, <3>1, <3>2, <3>3, <3>5, AcceptedKeeps
  <2>3. CASE d.from.base # Base[c]
    <3> DEFINE r == FromServer("connectResponse", d.from, d.number, 0)
    <3>1. r.kind = "connectResponse" /\ r.to.base # Base[c]
      BY <2>3 DEF FromServer
    <3> HIDE DEF r
    <3>2. \A m \in network' : m \in network \/ m = r
      BY <1>1, SendAdds DEF r
    <3>3. NothingNew(c)
      BY <3>1, <3>2, NothingNewBy, Zenon
    <3>4. i \notin SlotsOf(c) /\ i \notin SlotsOf(c)'
      <4>1. slots'[i].adr.base = d.from.base
        BY <1>1, <1>2, Zenon
      <4>2. i \notin SlotsOf(c)'
        BY <2>3, <4>1, SlotsOfAre, Zenon
      <4>3. i \notin SlotsOf(c)
        BY <2>3, SlotsOfAre, Zenon DEF InUse
      <4> QED
        BY <4>2, <4>3
    <3>5. ASSUME NEW j PROVE j \in SlotsOf(c)' <=> j \in SlotsOf(c)
      <4>1. CASE j = i
        BY <3>4, <4>1
      <4>2. CASE j # i
        BY <1>1, <4>2, SlotsOfAre, Zenon
      <4> QED
        BY <4>1, <4>2
    <3>6. SlotsKept(c)
      <4> SUFFICES ASSUME NEW j \in SlotsOf(c)'
                   PROVE  /\ j \in SlotsOf(c) /\ slots'[j].challenge = slots[j].challenge
                          /\ slots'[j].connected = slots[j].connected
        BY DEF SlotsKept
      <4>1. j \in SlotsOf(c) /\ j # i /\ j \in Slots
        BY <3>4, <3>5, SlotsOfAre
      <4> QED
        BY <1>1, <4>1, Zenon
    <3>7. issued <= issued'
      BY DEF TypeOK
    <3>8. Untouched(c)
      BY <3>3, <3>5, <3>6, <3>7 DEF Untouched
    <3> QED
      BY <2>1, <3>8, UntouchedKeeps
  <2> QED
    BY <2>2, <2>3
<1> QED
  BY <1>3, <1>4, <1>5, Zenon DEF HandshakeInv

LEMMA DirectConnectKeeps ==
  ASSUME NEW q, QPorts = {q}, TypeOK, TypeOK', OneSlotEach, HandshakeInv,
         NEW d \in network, d \in ToServer, SV_DirectConnect(d),
         Lifetime < sv_reconnectlimit
  PROVE  HandshakeInv'
<1>1. d.kind = "connect" /\ ~TooSoon(d) /\ UNCHANGED <<clc, issued, address>>
  BY DEF SV_DirectConnect, UNCHANGED_routers
<1> DEFINE r == FromServer("print", d.from, 0, 0)
<1>2. r.kind \in {"disconnect", "print"}
  BY DEF FromServer
<1> HIDE DEF r
<1>3. ASSUME UNCHANGED slots, Send(r) PROVE HandshakeInv'
  <2>1. AddressesKept' /\ HeardSince'
    BY <1>1, <1>3, Zenon DEF HandshakeInv, AddressesKept, HeardSince, InUse
  <2>2. \A e \in network' : e \in network \/ e = r
    BY <1>3, SendAdds
  <2>3. ASSUME NEW c \in Clients PROVE ClientInv(c)'
    <3>1. NothingNew(c)
      BY <1>2, <2>2, NothingNewBy, Zenon
    <3>2. issued <= issued'
      BY <1>1 DEF TypeOK
    <3>3. Untouched(c)
      BY <1>1, <1>3, <3>1, <3>2, SlotsSame, Zenon DEF Untouched
    <3> QED
      BY <3>3, UntouchedKeeps DEF HandshakeInv
  <2> QED
    BY <2>1, <2>3, Zenon DEF HandshakeInv
<1>4. ASSUME Candidates(d) # {}, NEW i, i = Min(Candidates(d)), Accept(d, i) \/ Refuse(d, i)
      PROVE  HandshakeInv'
  <2>1. /\ i \in Slots
        /\ \A j \in Slots : InUse(j) /\ slots[j].adr.base = d.from.base => j = i
        /\ InUse(i) => slots[i].adr.base = d.from.base /\ slots[i].connected > Lifetime
    BY <1>1, <1>4, CandidateSlot
  <2>2. CASE Accept(d, i)
    BY <1>1, <2>1, <2>2, AcceptKeeps
  <2>3. CASE Refuse(d, i)
    <3>1. slots' = [slots EXCEPT ![i] = NoClient] /\ Send(r)
      BY <2>3 DEF Refuse, r
    <3>2. NoClient.state = "CS_FREE"
      BY DEF NoClient
    <3>3. \A e \in network' : e \in network \/ e.kind \in {"disconnect", "print"}
      BY <1>2, <3>1, SendAdds
    <3>4. \A c \in Clients :
            i \in SlotsOf(c) => \A e \in Connects(c) : ~(e.number < slots[i].challenge)
      <4>1. CASE InUse(i)
        BY <2>1, <4>1, OldSlot
      <4>2. CASE ~InUse(i)
        BY <4>2, Zenon DEF SlotsOf
      <4> QED
        BY <4>1, <4>2
    <3> QED
      BY <1>1, <2>1, <3>1, <3>2, <3>3, <3>4, FreedKeeps
  <2> QED
    BY <1>4, <2>2, <2>3
<1>5. CASE Tell(d)
  BY <1>3, <1>5 DEF Tell, r
<1>6. CASE Admit(d) /\ Candidates(d) # {}
  <2>1. Accept(d, Min(Candidates(d))) \/ Refuse(d, Min(Candidates(d)))
    BY <1>6, Zenon DEF Admit
  <2> QED
    BY <1>4, <1>6, <2>1
<1> QED
  BY <1>5, <1>6, Zenon DEF SV_DirectConnect, Admit

LEMMA ServerReceivesKeeps ==
  ASSUME NEW q, QPorts = {q}, TypeOK, TypeOK', OneSlotEach, HandshakeInv,
         NEW c \in Clients, ServerReceives(c), Lifetime < sv_reconnectlimit
  PROVE  HandshakeInv'
<1>1. PICK d \in network :
        /\ "from" \in DOMAIN d
        /\ SV_GetChallenge(d) \/ SV_DirectConnect(d) \/ SV_PacketEvent(d)
  BY DEF ServerReceives
<1>2. d \in ToServer /\ d.from \in Addresses
  BY <1>1, ToServerHasFrom DEF TypeOK, ToServer
<1>3. CASE SV_GetChallenge(d)
  BY <1>3, GetChallengeKeeps
<1>4. CASE SV_DirectConnect(d)
  BY <1>2, <1>4, DirectConnectKeeps
<1>5. CASE SV_PacketEvent(d)
  BY <1>2, <1>5, PacketEventKeeps
<1> QED
  BY <1>1, <1>3, <1>4, <1>5

-----------------------------------------------------------------------------
(* Time. *)

LEMMA OlderIs ==
  ASSUME NEW last \in Nat, NEW age \in 0..last
  PROVE  /\ Older(age, last) = IF age < last THEN age + 1 ELSE last
         /\ age <= Older(age, last) /\ Older(age, last) <= age + 1
<1>1. {age + 1, last} \subseteq Nat /\ {age + 1, last} # {}
  OBVIOUS
<1>2. Min({age + 1, last}) \in {age + 1, last}
      /\ \A k \in {age + 1, last} : Min({age + 1, last}) <= k
  BY <1>1, MinIsLeast
<1> QED
  BY <1>2 DEF Older

\* A tick makes what is under way a tick nearer to being lost, and a slot at most
\* a tick older.
LEMMA TickKeepsClient ==
  ASSUME TypeOK, TypeOK', Tick, NEW c \in Clients, ClientInv(c)
  PROVE  ClientInv(c)'
<1>1. ASSUME NEW i \in Slots
      PROVE  /\ slots'[i].state = slots[i].state /\ slots'[i].adr = slots[i].adr
             /\ slots'[i].challenge = slots[i].challenge
             /\ slots'[i].connected = Older(slots[i].connected, sv_reconnectlimit)
  BY DEF Tick, TypeOK, ClientT
<1>2. ASSUME NEW i \in Slots
      PROVE  /\ slots[i].connected \in Nat /\ slots'[i].connected \in Nat
             /\ slots'[i].connected <= slots[i].connected + 1
  <2>1. slots[i].connected \in 0..sv_reconnectlimit /\ sv_reconnectlimit \in Nat
    BY SlotTypes, LimitTypes
  <2>2. Older(slots[i].connected, sv_reconnectlimit) \in 0..sv_reconnectlimit
    BY <2>1, OlderType
  <2>3. Older(slots[i].connected, sv_reconnectlimit) <= slots[i].connected + 1
    BY <2>1, OlderIs
  <2> QED
    BY <1>1, <2>1, <2>2, <2>3
<1>3. /\ clc'[c].state = clc[c].state /\ clc'[c].number = clc[c].number
      /\ clc'[c].attempts = clc[c].attempts /\ issued' = issued
  <2> DEFINE w == Older(clc[c].waited, RETRANSMIT_TIMEOUT)
             t == IF clc[c].state = "CA_CONNECTED" THEN Older(clc[c].silent, LongSilent) ELSE 0
  <2>1. clc'[c] = [clc[c] EXCEPT !.waited = w, !.silent = t] /\ issued' = issued
    BY DEF Tick
  <2>2. clc[c] \in ClientConnection
    BY DEF TypeOK
  <2> HIDE DEF w, t
  <2> QED
    BY <2>1, <2>2 DEF ClientConnection
<1>4. SlotsOf(c)' = SlotsOf(c)
  BY <1>1, Zenon DEF SlotsOf, InUse
<1>5. ASSUME NEW d \in network'
      PROVE  \E e \in network :
               /\ d = [e EXCEPT !.ticks = @ - 1] /\ e.ticks \in Nat
               /\ d.kind = e.kind /\ d.number = e.number /\ d.ticks = e.ticks - 1
               /\ e \in ToServer => d.from = e.from
               /\ e \in ToClient => d.to = e.to /\ d.reply = e.reply
  <2>1. PICK e \in network : e.ticks > 0 /\ d = [e EXCEPT !.ticks = @ - 1]
    BY DEF Tick
  <2>2. e.ticks \in Nat
    BY LimitTypes DEF TypeOK, ToServer, ToClient
  <2>3. CASE e \in ToServer
    BY <2>1, <2>2, <2>3 DEF ToServer, ToClient
  <2>4. CASE e \in ToClient
    BY <2>1, <2>2, <2>4 DEF ToServer, ToClient
  <2> QED
    BY <2>3, <2>4 DEF TypeOK
<1>6. ASSUME NEW d \in Connects(c)'
      PROVE  \E e \in Connects(c) :
               d.number = e.number /\ e.ticks \in Nat /\ d.ticks = e.ticks - 1
  <2>1. d \in network' /\ d.kind = "connect" /\ d.from.base = Base[c]
    BY DEF Connects
  <2>2. PICK e \in network :
          /\ e.ticks \in Nat /\ d.kind = e.kind /\ d.number = e.number
          /\ d.ticks = e.ticks - 1 /\ (e \in ToServer => d.from = e.from)
    BY <1>5, <2>1
  <2>3. e \in ToServer
    BY <2>1, <2>2 DEF TypeOK, ToClient
  <2> QED
    BY <2>1, <2>2, <2>3, Zenon DEF Connects
<1>7. ASSUME NEW d \in Responses(c)'
      PROVE  \E e \in Responses(c) :
               d.number = e.number /\ e.ticks \in Nat /\ d.ticks = e.ticks - 1
  <2>1. d \in network' /\ d.kind = "connectResponse" /\ d.to.base = Base[c]
    BY DEF Responses
  <2>2. PICK e \in network :
          /\ e.ticks \in Nat /\ d.kind = e.kind /\ d.number = e.number
          /\ d.ticks = e.ticks - 1 /\ (e \in ToClient => d.to = e.to)
    BY <1>5, <2>1
  <2>3. e \in ToClient
    BY <2>1, <2>2 DEF TypeOK, ToServer
  <2> QED
    BY <2>1, <2>2, <2>3, Zenon DEF Responses
<1>8. Requested(c)' \subseteq Requested(c)
  <2> SUFFICES ASSUME NEW d \in network', d.kind = "getchallenge", d.from.base = Base[c]
               PROVE  d.number \in Requested(c)
    BY Zenon DEF Requested
  <2>1. PICK e \in network :
          d.kind = e.kind /\ d.number = e.number /\ (e \in ToServer => d.from = e.from)
    BY <1>5
  <2>2. e \in ToServer
    BY <2>1 DEF TypeOK, ToClient
  <2> QED
    BY <2>1, <2>2, Zenon DEF Requested
<1>9. Offered(c)' \subseteq Offered(c)
  <2> SUFFICES ASSUME NEW d \in network', d.kind = "challengeResponse", d.to.base = Base[c]
               PROVE  <<d.number, d.reply>> \in Offered(c)
    BY Zenon DEF Offered
  <2>1. PICK e \in network :
          /\ d.kind = e.kind /\ d.number = e.number
          /\ e \in ToClient => d.to = e.to /\ d.reply = e.reply
    BY <1>5
  <2>2. e \in ToClient
    BY <2>1 DEF TypeOK, ToServer
  <2> QED
    BY <2>1, <2>2, Zenon DEF Offered
<1>10. Known(c)' \subseteq Known(c)
  <2> SUFFICES ASSUME NEW n \in Known(c)' PROVE n \in Known(c)
    OBVIOUS
  <2>1. CASE \E d \in Connects(c)' : n = d.number
    BY <1>6, <2>1, Zenon DEF Known
  <2>2. CASE \E d \in Responses(c)' : n = d.number
    BY <1>7, <2>2, Zenon DEF Known
  <2>3. CASE \E i \in SlotsOf(c)' : n = slots'[i].challenge
    <3>1. PICK i \in SlotsOf(c) : n = slots'[i].challenge
      BY <1>4, <2>3
    <3>2. n = slots[i].challenge
      BY <1>1, <3>1, SlotsOfAre
    <3> QED
      BY <3>1, <3>2, Zenon DEF Known
  <2> QED
    BY <2>1, <2>2, <2>3, Zenon DEF Known
<1>11. Handshake(c)'
  <2>1. Moves(c) /\ issued <= issued'
    BY <1>3 DEF Moves, TypeOK
  <2> QED
    BY <1>8, <1>9, <1>10, <2>1, HandshakeMoves DEF ClientInv
<1>12. Expiry(c)'
  <2> SUFFICES ASSUME NEW i \in SlotsOf(c)'
               PROVE  /\ \A d \in Connects(c)' :
                           d.number < slots'[i].challenge =>
                             d.ticks + slots'[i].connected <= Lifetime
                      /\ \A d \in Connects(c)' :
                           clc'[c].state = "CA_CONNECTED" =>
                             d.ticks + slots'[i].connected <= 2 * Lifetime
                      /\ \A d \in Responses(c)' : d.ticks + slots'[i].connected <= Lifetime
    BY Zenon DEF Expiry
  <2>1. i \in SlotsOf(c) /\ i \in Slots
    BY <1>4, SlotsOfAre
  <2>2. /\ slots[i].connected \in Nat /\ slots'[i].connected \in Nat
        /\ slots'[i].connected <= slots[i].connected + 1
        /\ slots'[i].challenge = slots[i].challenge
    BY <1>1, <1>2, <2>1
  <2>3. Lifetime \in Nat
    BY LimitTypes
  <2>4. ASSUME NEW d \in Connects(c)', d.number < slots'[i].challenge
        PROVE  d.ticks + slots'[i].connected <= Lifetime
    <3>1. PICK e \in Connects(c) :
            d.number = e.number /\ e.ticks \in Nat /\ d.ticks = e.ticks - 1
      BY <1>6
    <3>2. e.ticks + slots[i].connected <= Lifetime
      BY <2>1, <2>2, <2>4, <3>1, Zenon DEF ClientInv, Expiry
    <3> QED
      BY <2>2, <2>3, <3>1, <3>2
  <2>5. ASSUME NEW d \in Connects(c)', clc'[c].state = "CA_CONNECTED"
        PROVE  d.ticks + slots'[i].connected <= 2 * Lifetime
    <3>1. PICK e \in Connects(c) :
            d.number = e.number /\ e.ticks \in Nat /\ d.ticks = e.ticks - 1
      BY <1>6
    <3>2. e.ticks + slots[i].connected <= 2 * Lifetime
      BY <1>3, <2>1, <2>5, Zenon DEF ClientInv, Expiry
    <3> QED
      BY <2>2, <2>3, <3>1, <3>2
  <2>6. ASSUME NEW d \in Responses(c)' PROVE d.ticks + slots'[i].connected <= Lifetime
    <3>1. PICK e \in Responses(c) :
            d.number = e.number /\ e.ticks \in Nat /\ d.ticks = e.ticks - 1
      BY <1>7
    <3>2. e.ticks + slots[i].connected <= Lifetime
      BY <2>1, Zenon DEF ClientInv, Expiry
    <3> QED
      BY <2>2, <2>3, <3>1, <3>2
  <2> QED
    BY <2>4, <2>5, <2>6
<1>13. Agreement(c)'
  <2> SUFFICES ASSUME Answered(c)'
               PROVE  /\ \A i \in SlotsOf(c)' : slots'[i].challenge = clc'[c].number
                      /\ \A d \in Connects(c)' : d.number < clc'[c].number => SlotsOf(c)' # {}
    BY Zenon DEF Agreement
  <2>1. Answered(c)
    BY <1>3, <1>7, Zenon DEF Answered
  <2>2. \A i \in SlotsOf(c)' : slots'[i].challenge = clc'[c].number
    BY <1>1, <1>3, <1>4, <2>1, SlotsOfAre, Zenon DEF ClientInv, Agreement
  <2>3. ASSUME NEW d \in Connects(c)', d.number < clc'[c].number PROVE SlotsOf(c)' # {}
    <3>1. PICK e \in Connects(c) : d.number = e.number
      BY <1>6
    <3> QED
      BY <1>3, <1>4, <2>1, <2>3, <3>1, Zenon DEF ClientInv, Agreement
  <2> QED
    BY <2>2, <2>3
<1> QED
  BY <1>11, <1>12, <1>13, Zenon DEF ClientInv

LEMMA TickKeeps ==
  ASSUME TypeOK, TypeOK', HandshakeInv, Tick
  PROVE  HandshakeInv'
<1>1. AddressesKept'
  BY DEF Tick, UNCHANGED_routers, HandshakeInv, AddressesKept
<1>2. HeardSince'
  <2> SUFFICES ASSUME NEW i \in Slots, InUse(i)'
               PROVE  \/ slots'[i].silent <= slots'[i].connected
                      \/ slots'[i].connected = sv_reconnectlimit
    BY DEF HeardSince
  <2> DEFINE w == Older(slots[i].connected, sv_reconnectlimit)
             t == Older(slots[i].silent, LongSilent)
  <2>1. slots'[i] = [slots[i] EXCEPT !.connected = w, !.silent = t]
    BY DEF Tick
  <2>2. slots[i] \in ClientT
    BY DEF TypeOK
  <2>3. /\ slots[i].connected \in 0..sv_reconnectlimit /\ sv_reconnectlimit \in Nat
        /\ slots[i].silent \in 0..LongSilent /\ LongSilent \in Nat
    BY SlotTypes, LimitTypes
  <2>4. /\ w = IF slots[i].connected < sv_reconnectlimit THEN slots[i].connected + 1
               ELSE sv_reconnectlimit
        /\ t <= slots[i].silent + 1 /\ t \in 0..LongSilent
    BY <2>3, OlderIs, OlderType
  <2> HIDE DEF w, t
  <2>5. slots'[i].connected = w /\ slots'[i].silent = t /\ slots'[i].state = slots[i].state
    BY <2>1, <2>2 DEF ClientT
  <2>6. slots[i].silent <= slots[i].connected \/ slots[i].connected = sv_reconnectlimit
    BY <2>5 DEF HandshakeInv, HeardSince, InUse
  <2> QED
    BY <2>3, <2>4, <2>5, <2>6
<1>3. \A c \in Clients : ClientInv(c)'
  BY TickKeepsClient DEF HandshakeInv
<1> QED
  BY <1>1, <1>2, <1>3, Zenon DEF HandshakeInv

\* Everything else the invariant is about stays as it is.
LEMMA TranslateKeeps ==
  ASSUME TypeOK, TypeOK', HandshakeInv, NEW c \in Clients, Translate(c)
  PROVE  HandshakeInv'
<1>1. UNCHANGED <<slots, issued, clc, network>>
  BY DEF Translate, UNCHANGED_server
<1>2. AddressesKept'
  <2>1. PICK p \in Ports : address' = [address EXCEPT ![c].port = p]
    BY DEF Translate
  <2>2. ASSUME NEW e \in Clients PROVE address'[e].base = address[e].base
    BY <2>1 DEF TypeOK, Addresses
  <2> QED
    BY <2>2 DEF HandshakeInv, AddressesKept
<1>3. HeardSince'
  BY <1>1, Zenon DEF HandshakeInv, HeardSince, InUse
<1>4. ASSUME NEW e \in Clients PROVE ClientInv(e)'
  <2>1. NothingNew(e)
    BY <1>1 DEF NothingNew, Connects, Responses, Requested, Offered
  <2>2. issued <= issued'
    BY <1>1 DEF TypeOK
  <2>3. Untouched(e)
    BY <1>1, <2>1, <2>2, SlotsSame, Zenon DEF Untouched
  <2> QED
    BY <2>3, UntouchedKeeps DEF HandshakeInv
<1> QED
  BY <1>2, <1>3, <1>4, Zenon DEF HandshakeInv

-----------------------------------------------------------------------------
(* Both ends of a connection agree. *)

LEMMA InitHandshake == Init => HandshakeInv
<1> SUFFICES ASSUME Init PROVE HandshakeInv
  OBVIOUS
<1>1. AddressesKept
  BY DEF Init, AddressesKept
<1>2. \A i \in Slots : ~InUse(i)
  BY DEF Init, InUse, NoClient
<1>3. ASSUME NEW c \in Clients PROVE ClientInv(c)
  <2>1. network = {} /\ clc[c].state = "CA_DISCONNECTED"
    BY DEF Init
  <2>2. SlotsOf(c) = {} /\ Connects(c) = {} /\ Responses(c) = {}
    BY <1>2, <2>1 DEF SlotsOf, Connects, Responses
  <2>3. Requested(c) = {} /\ Offered(c) = {}
    BY <2>1 DEF Requested, Offered
  <2>4. Known(c) = {}
    BY <2>2 DEF Known
  <2> QED
    BY <2>1, <2>2, <2>3, <2>4 DEF ClientInv, Handshake, Expiry, Agreement, Answered
<1> QED
  BY <1>1, <1>2, <1>3 DEF HandshakeInv, HeardSince

LEMMA NextHandshake ==
  ASSUME NEW q, QPorts = {q}, OwnAddresses,
         Lifetime <= sv_zombietime, Lifetime <= sv_timeout, Lifetime < sv_reconnectlimit,
         TypeOK, TypeOK', OneSlotEach, HandshakeInv, [Next]_vars
  PROVE  HandshakeInv'
<1>1. ASSUME NEW c \in Clients,
             \/ CL_Connect_f(c) \/ CL_Disconnect(c) \/ Restart(c) \/ CL_CheckForResend(c)
             \/ CL_CheckTimeout(c) \/ ClientReceives(c) \/ Translate(c)
      PROVE  HandshakeInv'
  BY <1>1, ConnectKeeps, DisconnectKeeps, RestartKeeps, ResendKeeps, ClientReceivesKeeps,
     TranslateKeeps DEF CL_CheckTimeout
<1>2. ASSUME NEW c \in Clients, CL_WritePacket(c) PROVE HandshakeInv'
  <2>1. FromClient(c, "packet").from \in Addresses
    BY DEF FromClient, TypeOK
  <2> QED
    BY <1>2, <2>1, PacketEventKeeps DEF CL_WritePacket
<1>3. ASSUME NEW c \in Clients, ServerReceives(c) PROVE HandshakeInv'
  BY <1>3, ServerReceivesKeeps
<1>4. ASSUME NEW i \in Slots, SV_SendClientMessage(i) \/ KickClient(i) \/ SV_CheckTimeout(i)
      PROVE  HandshakeInv'
  BY <1>4, SendClientMessageKeeps, KickKeeps, CheckTimeoutKeeps
<1>5. CASE Tick
  BY <1>5, TickKeeps
<1>6. CASE UNCHANGED vars
  <2>1. UNCHANGED <<slots, issued, clc, network, address>>
    BY <1>6 DEF vars
  <2>2. AddressesKept' /\ HeardSince'
    BY <2>1, Zenon DEF HandshakeInv, AddressesKept, HeardSince, InUse
  <2>3. ASSUME NEW e \in Clients PROVE ClientInv(e)'
    <3>1. NothingNew(e)
      BY <2>1 DEF NothingNew, Connects, Responses, Requested, Offered
    <3>2. issued <= issued'
      BY <2>1 DEF TypeOK
    <3>3. Untouched(e)
      BY <2>1, <3>1, <3>2, SlotsSame, Zenon DEF Untouched
    <3> QED
      BY <3>3, UntouchedKeeps DEF HandshakeInv
  <2> QED
    BY <2>2, <2>3, Zenon DEF HandshakeInv
<1> QED
  BY <1>1, <1>2, <1>3, <1>4, <1>5, <1>6 DEF Next

LEMMA HandshakeAgrees ==
  ASSUME HandshakeInv
  PROVE  SameChallenge
<1> SUFFICES ASSUME NEW c \in Clients, NEW i \in Slots,
                    clc[c].state = "CA_CONNECTED", Serves(i, c)
             PROVE  slots[i].challenge = clc[c].number
  BY Zenon DEF SameChallenge
<1>1. i \in SlotsOf(c)
  BY DEF Serves, SlotsOf, InUse
<1>2. Answered(c)
  BY DEF Answered
<1> QED
  BY <1>1, <1>2, Zenon DEF HandshakeInv, ClientInv, Agreement

\* A client of a slot is not set up again: what could do it is under way for less
\* than the quick reject lasts.
LEMMA SlotNotReset ==
  ASSUME NEW q, QPorts = {q}, 2 * Lifetime < sv_reconnectlimit,
         TypeOK, OneSlotEach, HandshakeInv, [Next]_vars,
         NEW c \in Clients, NEW i \in Slots,
         clc[c].state = "CA_CONNECTED", Serves(i, c), slots'[i].state = "CS_CONNECTED"
  PROVE  slots'[i].challenge = slots[i].challenge /\ slots'[i].connected >= slots[i].connected
<1>1. /\ slots[i].connected \in 0..sv_reconnectlimit /\ slots[i].challenge \in Nat
      /\ sv_reconnectlimit \in Nat /\ Lifetime \in Nat
  BY SlotTypes, LimitTypes
<1>2. i \in SlotsOf(c) /\ InUse(i) /\ slots[i].adr.base = Base[c]
  BY DEF Serves, SlotsOf, InUse
<1>3. CASE slots'[i] = slots[i]
  BY <1>1, <1>3
<1>4. ASSUME NEW j, NEW n, slots' = [slots EXCEPT ![j] = n],
             j = i => n.challenge = slots[i].challenge /\ n.connected = slots[i].connected
      PROVE  slots'[i].challenge = slots[i].challenge
             /\ slots'[i].connected >= slots[i].connected
  <2>1. CASE j # i
    BY <1>3, <1>4, <2>1 DEF TypeOK
  <2>2. CASE j = i
    <3>1. slots'[i] = n
      BY <1>4, <2>2 DEF TypeOK
    <3> QED
      BY <1>1, <1>4, <2>2, <3>1
  <2> QED
    BY <2>1, <2>2
<1>5. ASSUME NEW j \in Slots, NEW n, slots' = [slots EXCEPT ![j] = n], n.state = "CS_FREE"
      PROVE  slots'[i] = slots[i]
  BY <1>5 DEF TypeOK
<1>6. ASSUME NEW d, SV_PacketEvent(d)
      PROVE  slots'[i].challenge = slots[i].challenge
             /\ slots'[i].connected >= slots[i].connected
  <2> DEFINE j == Min(Recipients(d))
             r == [slots[j] EXCEPT !.adr = d.from]
             e == [r EXCEPT !.silent = 0]
             z == [e EXCEPT !.state = "CS_ZOMBIE"]
  <2>1. j \in Slots
    BY <1>6, RecipientType
  <2>2. slots[j] \in ClientT
    BY <2>1 DEF TypeOK
  <2>3. \A n \in {r, e, z} :
          n.challenge = slots[j].challenge /\ n.connected = slots[j].connected
    <3> HIDE DEF j
    <3> QED
      BY <2>2 DEF ClientT
  <2>4. \E n \in {r, e, z} : slots' = [slots EXCEPT ![j] = n]
    BY <1>6 DEF SV_PacketEvent, Heard, SV_DropClient
  <2> HIDE DEF j, r, e, z
  <2>5. PICK n \in {r, e, z} : slots' = [slots EXCEPT ![j] = n]
    BY <2>4
  <2>6. j = i => n.challenge = slots[i].challenge /\ n.connected = slots[i].connected
    BY <2>3
  <2> QED
    BY <1>4, <2>5, <2>6
<1>7. ASSUME NEW d \in network, d \in ToServer, SV_DirectConnect(d)
      PROVE  slots'[i] = slots[i]
  <2>1. CASE UNCHANGED slots
    BY <2>1
  <2>2. CASE Admit(d) /\ Candidates(d) # {}
    <3> DEFINE j == Min(Candidates(d))
    <3>1. Accept(d, j) \/ Refuse(d, j)
      BY <2>2, Zenon DEF Admit
    <3>2. ~TooSoon(d) /\ d.kind = "connect" /\ Lifetime < sv_reconnectlimit
      BY <1>1, <1>7 DEF SV_DirectConnect
    <3>3. /\ j \in Slots
          /\ InUse(j) => slots[j].adr.base = d.from.base
                         /\ slots[j].connected >= sv_reconnectlimit
      BY <2>2, <3>2, <1>7, CandidateSlot
    <3> HIDE DEF j
    <3>4. j # i
      <4> SUFFICES ASSUME j = i PROVE FALSE
        OBVIOUS
      <4>1. d \in Connects(c)
        BY <1>2, <3>2, <3>3 DEF Connects
      <4>2. d.ticks + slots[i].connected <= 2 * Lifetime
        BY <1>2, <4>1, Zenon DEF HandshakeInv, ClientInv, Expiry
      <4>3. d.ticks \in 0..Lifetime
        BY <4>1, NumberTypes
      <4> QED
        BY <1>1, <1>2, <3>3, <4>2, <4>3
    <3> QED
      BY <3>1, <3>4 DEF Accept, Refuse, TypeOK
  <2> QED
    BY <1>7, <2>1, <2>2, Zenon DEF SV_DirectConnect, Admit, Tell
<1>8. ASSUME NEW e \in Clients, CL_WritePacket(e)
      PROVE  slots'[i].challenge = slots[i].challenge
             /\ slots'[i].connected >= slots[i].connected
  BY <1>6, <1>8 DEF CL_WritePacket
<1>9. ASSUME NEW e \in Clients, ServerReceives(e)
      PROVE  slots'[i].challenge = slots[i].challenge
             /\ slots'[i].connected >= slots[i].connected
  <2>1. PICK d \in network :
          /\ "from" \in DOMAIN d
          /\ SV_GetChallenge(d) \/ SV_DirectConnect(d) \/ SV_PacketEvent(d)
    BY <1>9 DEF ServerReceives
  <2>2. d \in ToServer
    BY <2>1, ToServerHasFrom DEF TypeOK
  <2>3. CASE SV_GetChallenge(d)
    BY <1>3, <2>3 DEF SV_GetChallenge
  <2> QED
    BY <1>3, <1>6, <1>7, <2>1, <2>2, <2>3
<1>10. ASSUME NEW j \in Slots, KickClient(j)
       PROVE  slots'[i].challenge = slots[i].challenge
              /\ slots'[i].connected >= slots[i].connected
  <2> DEFINE z == [slots[j] EXCEPT !.state = "CS_ZOMBIE"]
  <2>1. slots' = [slots EXCEPT ![j] = z]
    BY <1>10 DEF KickClient, SV_DropClient
  <2>2. z.challenge = slots[j].challenge /\ z.connected = slots[j].connected
    BY DEF TypeOK, ClientT
  <2> HIDE DEF z
  <2> QED
    BY <1>4, <2>1, <2>2
<1>11. ASSUME NEW j \in Slots, SV_CheckTimeout(j)
       PROVE  slots'[i] = slots[i]
  BY <1>5, <1>11 DEF SV_CheckTimeout, NoClient
<1>12. CASE Tick
  <2>1. /\ slots'[i].challenge = slots[i].challenge
        /\ slots'[i].connected = Older(slots[i].connected, sv_reconnectlimit)
    BY <1>12 DEF Tick, TypeOK, ClientT
  <2>2. /\ Older(slots[i].connected, sv_reconnectlimit) \in 0..sv_reconnectlimit
        /\ slots[i].connected <= Older(slots[i].connected, sv_reconnectlimit)
    BY <1>1, OlderIs, OlderType
  <2> QED
    BY <1>1, <2>1, <2>2
<1>13. CASE UNCHANGED vars
  BY <1>3, <1>13 DEF vars
<1>14. ASSUME NEW e \in Clients,
              \/ CL_Connect_f(e) \/ CL_Disconnect(e) \/ Restart(e) \/ CL_CheckForResend(e)
              \/ CL_CheckTimeout(e) \/ ClientReceives(e) \/ Translate(e)
       PROVE  slots' = slots
  BY <1>14 DEF CL_Connect_f, CL_Disconnect, Restart, CL_CheckForResend, CL_CheckTimeout,
     ClientReceives, CL_PacketEvent, Translate, UNCHANGED_server
<1>15. ASSUME NEW j \in Slots, SV_SendClientMessage(j) PROVE slots' = slots
  BY <1>15 DEF SV_SendClientMessage, CL_PacketEvent, UNCHANGED_server
<1> QED
  BY <1>3, <1>8, <1>9, <1>10, <1>11, <1>12, <1>13, <1>14, <1>15 DEF Next

\* Of clients that have IP addresses of their own and keep their qport, each that
\* is connected has the challenge of its slot, if no datagram lives longer than a
\* zombie, a silent client or the quick reject of a reconnect.
THEOREM ConnectionSameChallenge ==
  ASSUME NEW q, QPorts = {q}, OwnAddresses,
         Lifetime <= sv_zombietime, Lifetime <= sv_timeout, Lifetime < sv_reconnectlimit
  PROVE  Spec => []SameChallenge
<1>1. Init => HandshakeInv
  BY InitHandshake
<1>2. TypeOK /\ TypeOK' /\ OneSlotEach /\ HandshakeInv /\ [Next]_vars => HandshakeInv'
  BY NextHandshake
<1>3. HandshakeInv => SameChallenge
  BY HandshakeAgrees
<1>4. (Spec => []TypeOK) /\ (Spec => []OneSlotEach)
  BY ConnectionTypeCorrect, ConnectionOneSlot
<1> QED
  BY <1>1, <1>2, <1>3, <1>4, PTL DEF Spec

\* Nor is a connection that stands set up again by what is late, repeated or
\* somebody else's, if the quick reject outlasts two datagrams: a connect packet
\* may be sent as late as its client's connectResponse arrives.
THEOREM ConnectionNotReset ==
  ASSUME NEW q, QPorts = {q}, OwnAddresses,
         Lifetime <= sv_zombietime, Lifetime <= sv_timeout, 2 * Lifetime < sv_reconnectlimit
  PROVE  Spec => NotReset
<1> DEFINE Kept ==
      \A c \in Clients, i \in Slots :
        /\ clc[c].state = "CA_CONNECTED" /\ clc'[c].state = "CA_CONNECTED"
        /\ Serves(i, c) /\ slots'[i].state = "CS_CONNECTED"
        => /\ slots'[i].challenge = slots[i].challenge
           /\ slots'[i].connected >= slots[i].connected
<1>1. Init => HandshakeInv
  BY InitHandshake
<1>2. Lifetime < sv_reconnectlimit
  BY LimitTypes
<1>3. TypeOK /\ TypeOK' /\ OneSlotEach /\ HandshakeInv /\ [Next]_vars => HandshakeInv'
  BY <1>2, NextHandshake
<1>4. TypeOK /\ OneSlotEach /\ HandshakeInv /\ [Next]_vars => [Kept]_vars
  BY SlotNotReset
<1>5. (Spec => []TypeOK) /\ (Spec => []OneSlotEach)
  BY ConnectionTypeCorrect, ConnectionOneSlot
<1> QED
  BY <1>1, <1>3, <1>4, <1>5, PTL DEF Spec, NotReset
=============================================================================
