----------------------------- MODULE Connection -----------------------------
(***************************************************************************)
(* How clients get into a server and out of it: challenges, the connect    *)
(* handshake, the server's slots, reconnects, drops and timeouts.          *)
(*                                                                         *)
(* The network loses and repeats datagrams and delivers them in any order, *)
(* but each only for Lifetime ticks.  A tick is about a second: the limits *)
(* of the code, all in seconds, are in ticks.  A challenge number is fresh *)
(* for each request, so it also tells which of two entries is older.       *)
(* Packets and messages of a connection come all the time, so one arrives  *)
(* at once or is lost; they carry the challenge as their checksum does.    *)
(***************************************************************************)
EXTENDS Integers, FiniteSets, FiniteSetsExt

CONSTANTS
  Clients,
  Base,                \* the IP address of each client
  Ports,               \* the UDP ports its router may give a client
  InitPort,            \* the one each client starts with
  QPorts,              \* the values of net_qport
  HasPassword,         \* the clients that know sv_privatePassword
  Nowhere,             \* no address
  sv_maxclients,
  sv_privateClients,
  MAX_CHALLENGES,
  RETRANSMIT_TIMEOUT,
  sv_reconnectlimit,
  sv_zombietime,
  sv_timeout,          \* and cl_timeout, which has the same default
  Lifetime,            \* how many ticks a datagram may be under way
  MaxAttempts,         \* bound: connects a user types
  MaxIssued,           \* bound: challenges the server gives out
  MaxTranslations      \* bound: changes of port by a router

Addresses == [base : {Base[c] : c \in Clients}, port : Ports]

ASSUME ClientAssumption ==
  /\ InitPort \in [Clients -> Ports]
  /\ DOMAIN Base = Clients
  /\ HasPassword \subseteq Clients /\ QPorts # {}
  /\ Nowhere \notin Addresses
ASSUME SlotAssumption ==
  /\ sv_maxclients \in Nat
  /\ sv_privateClients \in Nat
  /\ MAX_CHALLENGES \in Nat \ {0}
ASSUME TimeAssumption ==
  {RETRANSMIT_TIMEOUT, sv_reconnectlimit, sv_zombietime, sv_timeout, Lifetime,
   MaxAttempts, MaxIssued, MaxTranslations} \subseteq Nat

VARIABLES
  slots,        \* svs.clients
  challenges,   \* svs.challenges
  issued,       \* how many challenges there have been
  game,         \* for each slot, whether the game has a player in it
  clc,          \* the clients' connections
  address,      \* where each client's datagrams come from
  translations, \* how often that changed
  network       \* the datagrams under way

vars == <<slots, challenges, issued, game, clc, address, translations, network>>

-----------------------------------------------------------------------------
(* Values. *)

Slots == 1..sv_maxclients
Entries == 0..MAX_CHALLENGES - 1
MAX_CHALLENGES_MULTI == MAX_CHALLENGES \div 2

\* An age stops when it makes no difference any more.
Older(age, last) == Min({age + 1, last})
LongSilent == Max({sv_zombietime, sv_timeout}) + 1

\* connected and silent are the ages of lastConnectTime and lastPacketTime.
ClientT == [state : {"CS_FREE", "CS_ZOMBIE", "CS_CONNECTED"},
            adr : Addresses \cup {Nowhere}, qport : QPorts, challenge : Nat,
            connected : 0..sv_reconnectlimit, silent : 0..LongSilent]

NoClient == [state |-> "CS_FREE", adr |-> Nowhere, qport |-> CHOOSE q \in QPorts : TRUE,
             challenge |-> 0, connected |-> sv_reconnectlimit,
             silent |-> LongSilent]

ChallengeT == [adr : Addresses \cup {Nowhere}, challenge : Nat, connected : BOOLEAN]
NoChallenge == [adr |-> Nowhere, challenge |-> 0, connected |-> FALSE]

\* number is clc.challenge: first the client's own, then the server's.  waited
\* is the age of connectTime, silent that of lastPacketTime, told whether the
\* user was shown a message of the server since the attempt began.
ClientConnection ==
  [state : {"CA_DISCONNECTED", "CA_CONNECTING", "CA_CHALLENGING", "CA_CONNECTED"},
   attempts : Nat, number : Nat, qport : QPorts, waited : 0..RETRANSMIT_TIMEOUT,
   silent : 0..LongSilent, told : BOOLEAN]

\* A datagram to the server (from) or to a client (to).  client stands for the
\* userinfo, of which only the password matters.
ToServer ==
  [kind : {"getchallenge", "connect", "disconnect"}, from : Addresses,
   client : Clients, qport : QPorts, number : Nat, ticks : 0..Lifetime]
ToClient ==
  [kind : {"challengeResponse", "connectResponse", "print"},
   to : Addresses, number : Nat, reply : Nat, ticks : 0..Lifetime]

TypeOK ==
  /\ slots \in [Slots -> ClientT]
  /\ challenges \in [Entries -> ChallengeT]
  /\ issued \in Nat
  /\ game \in [Slots -> BOOLEAN]
  /\ clc \in [Clients -> ClientConnection]
  /\ address \in [Clients -> Addresses]
  /\ translations \in Nat
  /\ network \subseteq ToServer \cup ToClient

Init ==
  /\ slots = [i \in Slots |-> NoClient]
  /\ challenges = [i \in Entries |-> NoChallenge]
  /\ issued = 0
  /\ game = [i \in Slots |-> FALSE]
  /\ \E q \in [Clients -> QPorts] :
       clc = [c \in Clients |->
                [state |-> "CA_DISCONNECTED", attempts |-> 0, number |-> 0, qport |-> q[c],
                 waited |-> RETRANSMIT_TIMEOUT, silent |-> 0, told |-> FALSE]]
  /\ address = [c \in Clients |-> [base |-> Base[c], port |-> InitPort[c]]]
  /\ translations = 0
  /\ network = {}

FromClient(c, kind) ==
  [kind |-> kind, from |-> address[c], client |-> c, qport |-> clc[c].qport,
   number |-> clc[c].number, ticks |-> Lifetime]

FromServer(kind, to, number, reply) ==
  [kind |-> kind, to |-> to, number |-> number, reply |-> reply, ticks |-> Lifetime]

\* A datagram is as good as the youngest copy of it.
Younger(d) == {e \in network : [e EXCEPT !.ticks = Lifetime] # d} \cup {d}
Send(d) == network' = Younger(d)

-----------------------------------------------------------------------------
(* The client. *)

UNCHANGED_server == UNCHANGED <<slots, challenges, issued, game>>
UNCHANGED_routers == UNCHANGED <<address, translations>>

\* CL_Disconnect: a connected client says so before it wipes its connection.
Farewell(c) ==
  IF clc[c].state = "CA_CONNECTED" THEN {FromClient(c, "disconnect")} ELSE {}

Wiped(c) == [clc[c] EXCEPT !.state = "CA_DISCONNECTED", !.number = 0,
                           !.waited = RETRANSMIT_TIMEOUT, !.silent = 0, !.told = FALSE]

CL_Disconnect(c) ==
  /\ clc[c].state # "CA_DISCONNECTED"
  /\ clc' = [clc EXCEPT ![c] = Wiped(c)]
  /\ network' = network \cup Farewell(c)
  /\ UNCHANGED_server /\ UNCHANGED_routers

\* The user types connect, from a connection or from none.  The client's own
\* number is that of the attempt.
CL_Connect_f(c) ==
  /\ clc[c].attempts < MaxAttempts
  /\ clc' = [clc EXCEPT ![c] =
       [Wiped(c) EXCEPT !.state = "CA_CONNECTING", !.attempts = @ + 1,
                        !.number = clc[c].attempts + 1]]
  /\ network' = network \cup Farewell(c)
  /\ UNCHANGED_server /\ UNCHANGED_routers

\* The program ends without a word; the next one picks another net_qport.
Restart(c) ==
  /\ clc[c].state # "CA_DISCONNECTED"
  /\ \E q \in QPorts : clc' = [clc EXCEPT ![c] = [Wiped(c) EXCEPT !.qport = q]]
  /\ UNCHANGED network
  /\ UNCHANGED_server /\ UNCHANGED_routers

\* Mutant: the challenge is asked for again once it is there.
CL_CheckForResend_GetChallenge(c) ==
  /\ clc[c].state \in {"CA_CONNECTING", "CA_CHALLENGING"}
  /\ clc[c].waited >= RETRANSMIT_TIMEOUT
  /\ clc' = [clc EXCEPT ![c].waited = 0]
  /\ Send(FromClient(c, "getchallenge"))
  /\ UNCHANGED_server /\ UNCHANGED_routers

\* A request every RETRANSMIT_TIMEOUT until there is an answer.
CL_CheckForResend(c) ==
  /\ clc[c].state \in {"CA_CONNECTING", "CA_CHALLENGING"}
  /\ clc[c].waited >= RETRANSMIT_TIMEOUT
  /\ clc' = [clc EXCEPT ![c].waited = 0]
  /\ Send(FromClient(c, IF clc[c].state = "CA_CONNECTING" THEN "getchallenge" ELSE "connect"))
  /\ UNCHANGED_server /\ UNCHANGED_routers

CL_CheckTimeout(c) ==
  /\ clc[c].state = "CA_CONNECTED"
  /\ clc[c].silent > sv_timeout
  /\ CL_Disconnect(c)

\* Mutant: a connectResponse for another challenge will do.
ReadBy_AnyResponse(c, d) ==
  CASE d.kind = "challengeResponse" /\ clc[c].state = "CA_CONNECTING"
                                    /\ d.reply = clc[c].number ->
         [clc[c] EXCEPT !.state = "CA_CHALLENGING", !.number = d.number,
                        !.waited = RETRANSMIT_TIMEOUT]
    [] d.kind = "connectResponse" /\ clc[c].state = "CA_CHALLENGING" ->
         [clc[c] EXCEPT !.state = "CA_CONNECTED", !.waited = RETRANSMIT_TIMEOUT, !.told = FALSE]
    [] d.kind = "print" /\ clc[c].state # "CA_CONNECTED" -> [clc[c] EXCEPT !.told = TRUE]
    [] d.kind = "disconnect" /\ clc[c].state = "CA_CONNECTED"
                             /\ d.number = clc[c].number -> Wiped(c)
    [] clc[c].state = "CA_CONNECTED" -> [clc[c] EXCEPT !.silent = 0]
    [] OTHER -> clc[c]

\* What a client makes of a datagram.  Once it is connected, any is a sign of life.
ReadBy(c, d) ==
  CASE d.kind = "challengeResponse" /\ clc[c].state = "CA_CONNECTING"
                                    /\ d.reply = clc[c].number ->
         [clc[c] EXCEPT !.state = "CA_CHALLENGING", !.number = d.number,
                        !.waited = RETRANSMIT_TIMEOUT]
    [] d.kind = "connectResponse" /\ clc[c].state = "CA_CHALLENGING"
                                  /\ d.number = clc[c].number ->
         [clc[c] EXCEPT !.state = "CA_CONNECTED", !.waited = RETRANSMIT_TIMEOUT, !.told = FALSE]
    [] d.kind = "print" /\ clc[c].state # "CA_CONNECTED" -> [clc[c] EXCEPT !.told = TRUE]
    [] d.kind = "disconnect" /\ clc[c].state = "CA_CONNECTED"
                             /\ d.number = clc[c].number -> Wiped(c)
    [] clc[c].state = "CA_CONNECTED" -> [clc[c] EXCEPT !.silent = 0]
    [] OTHER -> clc[c]

CL_PacketEvent(c, d) ==
  /\ clc[c].state # "CA_DISCONNECTED"
  /\ clc' = [clc EXCEPT ![c] = ReadBy(c, d)]
  /\ clc' # clc
  /\ network' = network \cup
       (IF clc'[c].state = "CA_DISCONNECTED" THEN Farewell(c) ELSE {})
  /\ UNCHANGED_server /\ UNCHANGED_routers

ClientReceives(c) ==
  \E d \in network : "to" \in DOMAIN d /\ d.to = address[c] /\ CL_PacketEvent(c, d)

-----------------------------------------------------------------------------
(* The server: challenges. *)

\* An address that has an unused challenge only gets an entry of the first
\* half, unless that entry comes later.
Scanned(from) ==
  LET own == {i \in Entries : challenges[i].adr = from /\ ~challenges[i].connected}
  IN {i \in Entries : own = {} \/ i < MAX_CHALLENGES_MULTI \/ i < Min(own)}

\* The entry that is overwritten: the first of the oldest, or the first of all.
Oldest(from) ==
  LET least == {i \in Scanned(from) :
                  \A j \in Scanned(from) : challenges[i].challenge <= challenges[j].challenge}
  IN IF least = {} THEN 0 ELSE Min(least)

SV_GetChallenge(d) ==
  /\ d.kind = "getchallenge"
  /\ issued < MaxIssued
  /\ issued' = issued + 1
  /\ challenges' = [challenges EXCEPT ![Oldest(d.from)] =
       [adr |-> d.from, challenge |-> issued + 1, connected |-> FALSE]]
  /\ Send(FromServer("challengeResponse", d.from, issued + 1, d.number))
  /\ UNCHANGED <<slots, game, clc>> /\ UNCHANGED_routers

-----------------------------------------------------------------------------
(* The server: connecting. *)

\* Mutant: the UDP port tells clients apart.
SameClient_SamePort(d) ==
  {i \in Slots : slots[i].state # "CS_FREE" /\ slots[i].adr = d.from}

\* The slots a connect packet takes for its own: same IP address, and the same
\* qport or the same UDP port.
SameClient(d) ==
  {i \in Slots : /\ slots[i].state # "CS_FREE"
                 /\ slots[i].adr.base = d.from.base
                 /\ slots[i].qport = d.qport \/ slots[i].adr.port = d.from.port}

\* Mutant: no quick reject.
TooSoon_Never(d) == FALSE

TooSoon(d) ==
  /\ SameClient(d) # {}
  /\ slots[Min(SameClient(d))].connected < sv_reconnectlimit

Challenge(d) ==
  {i \in Entries : challenges[i].adr = d.from /\ challenges[i].challenge = d.number}

\* The slots beyond the reserved ones, or all of them with the password.
FreeSlots(d) ==
  {i \in Slots : /\ slots[i].state = "CS_FREE"
                 /\ d.client \in HasPassword \/ i > sv_privateClients}

\* A known client gets the slot it has, another the first free one.
Candidates(d) == IF SameClient(d) # {} THEN SameClient(d) ELSE FreeSlots(d)

\* Mutant: a player the game still has is looked at again.
ClientConnect_Again(i, denied) == ~denied

\* The game's ClientConnect: a player the game still has is not looked at.
ClientConnect(i, denied) == game[i] \/ ~denied

NewClient(d) ==
  [state |-> "CS_CONNECTED", adr |-> d.from, qport |-> d.qport, challenge |-> d.number,
   connected |-> 0, silent |-> 0]

Accept(d, i) ==
  /\ slots' = [slots EXCEPT ![i] = NewClient(d)]
  /\ game' = [game EXCEPT ![i] = TRUE]
  /\ Send(FromServer("connectResponse", d.from, d.number, 0))

\* A refusal leaves the slot cleared, whatever was in it.
Refuse(d, i) ==
  /\ slots' = [slots EXCEPT ![i] = NoClient]
  /\ UNCHANGED game
  /\ Send(FromServer("print", d.from, 0, 0))

Tell(d) == Send(FromServer("print", d.from, 0, 0)) /\ UNCHANGED <<slots, game>>

\* With a challenge of its address the packet is let in, if there is a slot.
Admit(d) ==
  /\ challenges' = [challenges EXCEPT ![Min(Challenge(d))].connected = TRUE]
  /\ IF Candidates(d) = {} THEN Tell(d)
     ELSE LET i == Min(Candidates(d))
          IN \E denied \in BOOLEAN :
               IF ClientConnect(i, denied) THEN Accept(d, i) ELSE Refuse(d, i)

SV_DirectConnect(d) ==
  /\ d.kind = "connect"
  /\ ~TooSoon(d)
  /\ IF Challenge(d) = {} THEN Tell(d) /\ UNCHANGED challenges ELSE Admit(d)
  /\ UNCHANGED <<issued, clc>> /\ UNCHANGED_routers

-----------------------------------------------------------------------------
(* The server: connected clients. *)

\* A drop forgets one challenge of the address, the first.
ForgetChallenge(adr) ==
  LET own == {i \in Entries : challenges[i].adr = adr}
  IN IF own = {} THEN challenges ELSE [challenges EXCEPT ![Min(own)] = NoChallenge]

SV_DropClient(i, c) ==
  /\ challenges' = ForgetChallenge(c.adr)
  /\ slots' = [slots EXCEPT ![i] = [c EXCEPT !.state = "CS_ZOMBIE"]]
  /\ game' = [game EXCEPT ![i] = FALSE]

\* A packet is for the first slot with its IP address and qport, whose UDP port
\* it sets right; with another challenge its checksum is wrong.
Recipients(d) ==
  {i \in Slots : /\ slots[i].state # "CS_FREE"
                 /\ slots[i].adr.base = d.from.base
                 /\ slots[i].qport = d.qport}

Heard(d, i) ==
  LET c == [slots[i] EXCEPT !.adr = d.from]
  IN IF d.number # c.challenge \/ c.state = "CS_ZOMBIE"
     THEN slots' = [slots EXCEPT ![i] = c] /\ UNCHANGED <<challenges, game>>
     ELSE IF d.kind = "disconnect" THEN SV_DropClient(i, [c EXCEPT !.silent = 0])
     ELSE slots' = [slots EXCEPT ![i] = [c EXCEPT !.silent = 0]] /\ UNCHANGED <<challenges, game>>

SV_PacketEvent(d) ==
  /\ Recipients(d) # {}
  /\ Heard(d, Min(Recipients(d)))
  /\ UNCHANGED <<issued, clc, network>> /\ UNCHANGED_routers

\* A packet of a connected client arrives.
CL_WritePacket(c) ==
  /\ clc[c].state = "CA_CONNECTED"
  /\ SV_PacketEvent(FromClient(c, "packet"))

\* The frame's message to a client arrives; the one to a zombie says that it was
\* dropped, if it was far enough in to be told.
SV_SendClientMessage(i) ==
  /\ slots[i].state # "CS_FREE"
  /\ \E kind \in {"message"} \cup (IF slots[i].state = "CS_ZOMBIE" THEN {"disconnect"} ELSE {}) :
       \E c \in Clients :
         /\ address[c] = slots[i].adr
         /\ CL_PacketEvent(c, FromServer(kind, slots[i].adr, slots[i].challenge, 0))

\* The operator, or the game.
KickClient(i) ==
  /\ slots[i].state = "CS_CONNECTED"
  /\ SV_DropClient(i, slots[i])
  /\ UNCHANGED <<issued, clc, network>> /\ UNCHANGED_routers

\* A zombie's slot becomes free; a client not heard of is dropped without one.
SV_CheckTimeout(i) ==
  /\ \/ /\ slots[i].state = "CS_ZOMBIE"
        /\ slots[i].silent > sv_zombietime
        /\ UNCHANGED <<challenges, game>>
     \/ /\ slots[i].state = "CS_CONNECTED"
        /\ slots[i].silent > sv_timeout
        /\ challenges' = ForgetChallenge(slots[i].adr)
        /\ game' = [game EXCEPT ![i] = FALSE]
  /\ slots' = [slots EXCEPT ![i] = NoClient]
  /\ UNCHANGED <<issued, clc, network>> /\ UNCHANGED_routers

-----------------------------------------------------------------------------
(* Time and the network. *)

Tick ==
  /\ slots' = [i \in Slots |-> [slots[i] EXCEPT !.connected = Older(@, sv_reconnectlimit),
                                             !.silent = Older(@, LongSilent)]]
  /\ clc' = [c \in Clients |-> [clc[c] EXCEPT
               !.waited = Older(@, RETRANSMIT_TIMEOUT),
               !.silent = IF clc[c].state = "CA_CONNECTED" THEN Older(@, LongSilent) ELSE 0]]
  /\ network' = {[d EXCEPT !.ticks = @ - 1] : d \in {e \in network : e.ticks > 0}}
  /\ UNCHANGED <<challenges, issued, game>> /\ UNCHANGED_routers

\* A router gives a client another port, one no other client behind it has.
Translate(c) ==
  /\ translations < MaxTranslations
  /\ translations' = translations + 1
  /\ \E p \in Ports :
       /\ \A b \in Clients : address[b] # [base |-> Base[c], port |-> p]
       /\ address' = [address EXCEPT ![c].port = p]
  /\ UNCHANGED_server /\ UNCHANGED <<clc, network>>

ServerReceives(c) ==
  \E d \in network :
    /\ "from" \in DOMAIN d
    /\ d.client = c
    /\ \/ SV_GetChallenge(d)
       \/ SV_DirectConnect(d)
       \/ d.kind = "disconnect" /\ SV_PacketEvent(d)

Next ==
  \/ \E c \in Clients :
       \/ CL_Connect_f(c) \/ CL_Disconnect(c) \/ Restart(c) \/ CL_CheckForResend(c)
       \/ CL_WritePacket(c) \/ CL_CheckTimeout(c) \/ ClientReceives(c)
       \/ ServerReceives(c) \/ Translate(c)
  \/ \E i \in Slots : SV_SendClientMessage(i) \/ KickClient(i) \/ SV_CheckTimeout(i)
  \/ Tick

Fairness ==
  /\ WF_vars(Tick)
  /\ \A c \in Clients : /\ WF_vars(CL_CheckForResend(c))
                         /\ SF_vars(ServerReceives(c))
                         /\ SF_vars(ClientReceives(c))

Spec == Init /\ [][Next]_vars
FairSpec == Spec /\ Fairness

-----------------------------------------------------------------------------
(* Properties. *)

InUse(i) == slots[i].state # "CS_FREE"

\* "It is possible to have multiple clients from a single IP address, so they
\* are differentiated by the qport variable" (sv_main.c:1017): no client has
\* two slots, however often its connect packets are repeated and its port
\* changes under it (SV_DirectConnect, SV_PacketEvent).  That is so while a
\* client keeps its qport; of one that comes back with another a packet may
\* match one slot by the port and a later one by the qport.
OneSlotEach ==
  \A i, j \in Slots :
    InUse(i) /\ InUse(j) /\ slots[i].adr.base = slots[j].adr.base
      /\ slots[i].qport = slots[j].qport => i = j

\* The game has a player in exactly the slots the server has a client in
\* (ClientConnect, ClientDisconnect): none is forgotten by a reconnect, a
\* refusal, a drop or a timeout.
GameAgrees == \A i \in Slots : game[i] <=> slots[i].state = "CS_CONNECTED"

\* The slot that client c's packets go to.
Serves(i, c) ==
  slots[i].state = "CS_CONNECTED" /\ slots[i].adr.base = Base[c] /\ slots[i].qport = clc[c].qport

\* A client that is connected and the slot its packets go to agree on the
\* challenge, on which the checksums of both depend (Netchan_Setup): if not,
\* neither would hear the other.
SameChallenge ==
  \A c \in Clients, i \in Slots :
    clc[c].state = "CA_CONNECTED" /\ Serves(i, c) => slots[i].challenge = clc[c].number

\* A connection that stands is not set up again by a connect packet that is
\* late, repeated or somebody else's (SV_DirectConnect, its quick reject).
NotReset ==
  [][\A c \in Clients, i \in Slots :
       /\ clc[c].state = "CA_CONNECTED" /\ clc'[c].state = "CA_CONNECTED"
       /\ Serves(i, c) /\ slots'[i].state = "CS_CONNECTED"
       => /\ slots'[i].challenge = slots[i].challenge
          /\ slots'[i].connected >= slots[i].connected]_vars

\* A client that keeps asking gets a challenge, while the server still has one to
\* give, and with it gets in or its user is told why not, whatever part of the
\* handshake is lost (CL_CheckForResend, SV_GetChallenge, SV_DirectConnect).
GetsInOrIsTold ==
  \A c \in Clients :
    /\ clc[c].state = "CA_CONNECTING" ~>
         clc[c].state # "CA_CONNECTING" \/ clc[c].told \/ issued = MaxIssued
    /\ clc[c].state = "CA_CHALLENGING" ~>
         clc[c].state # "CA_CHALLENGING" \/ clc[c].told
=============================================================================
