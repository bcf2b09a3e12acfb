-------------------------- MODULE DownloadsProofs --------------------------
(***************************************************************************)
(* Proofs about Downloads: the types, that what the client writes is the   *)
(* file it asked for, that no acknowledgement comes out of turn, and that  *)
(* no more of them wait than the window has blocks.                        *)
(*                                                                         *)
(* The inductive invariant Inv relates the client's commands, which are    *)
(* kept as a history, to what both sides know of them: at command n the    *)
(* client was downloading Asked(q, n), of which it had taken Acked(q, n)   *)
(* blocks.  It holds the server, the messages and the packets in flight to *)
(* the commands they were made after.  A step of the server is about the   *)
(* client as it stands; a step of the client adds at most two commands.    *)
(***************************************************************************)
EXTENDS Downloads, FiniteSetTheorems, SequenceTheorems, WellFoundedInduction, TLAPS

-----------------------------------------------------------------------------
(* Numbers and constants. *)

W == MAX_DOWNLOAD_WINDOW

LEMMA Constants ==
  /\ W \in Nat /\ W > 0 /\ Capacity \in Nat /\ Capacity > 0 /\ MaxLosses \in Nat
  /\ \A f \in File : f \in Nat /\ f # NoFile /\ Blocks[f] \in Nat /\ Blocks[f] > 0
  /\ NoFile \notin File
  /\ 1 \in Levels
  /\ \A l \in Levels : l \in Nat /\ l > 0
  /\ \A l \in Levels : \A i \in DOMAIN Paks[l] : i \in Nat /\ Paks[l][i] \in File
<1>1. /\ W \in Nat /\ W > 0 /\ Capacity \in Nat /\ Capacity > 0 /\ MaxLosses \in Nat
  BY WindowAssumption, BoundsAssumption DEF W
<1>2. File = 1..Len(Blocks) /\ Len(Blocks) \in Nat
  BY BlocksAssumption, LenProperties DEF File
<1>3. \A f \in File : Blocks[f] \in Nat /\ Blocks[f] > 0
  <2>1. \A f \in 1..Len(Blocks) : Blocks[f] \in Nat \ {0}
    BY BlocksAssumption, ElementOfSeq
  <2> QED
    BY <1>2, <2>1
<1>4. Levels = 1..Len(Paks) /\ Len(Paks) \in Nat /\ Len(Paks) # 0
  BY PaksAssumption, LenProperties, EmptySeq DEF Levels
<1>5. ASSUME NEW l \in Levels PROVE Paks[l] \in Seq(File)
  BY <1>4, PaksAssumption, ElementOfSeq
<1>6. ASSUME NEW l \in Levels, NEW i \in DOMAIN Paks[l] PROVE i \in Nat /\ Paks[l][i] \in File
  <2>1. DOMAIN Paks[l] = 1..Len(Paks[l]) /\ Len(Paks[l]) \in Nat
    BY <1>5, LenProperties
  <2>2. i \in 1..Len(Paks[l])
    BY <2>1
  <2> QED
    BY <1>5, <2>1, <2>2, ElementOfSeq
<1> QED
  BY <1>1, <1>2, <1>3, <1>4, <1>6 DEF NoFile

LEMMA SetInduction ==
  ASSUME NEW S, 0 \in S, \A n \in Nat : n \in S => n + 1 \in S
  PROVE  Nat \subseteq S
<1> SUFFICES ASSUME Nat \ S # {} PROVE FALSE
  OBVIOUS
<1>1. PICK n \in Nat \ S : \A k \in Nat \ S : ~(<<k, n>> \in OpToRel(<, Nat))
  BY NatLessThanWellFounded, WFMin
<1>2. ASSUME NEW k \in Nat \ S, k < n PROVE FALSE
  <2>1. k \in Nat /\ n \in Nat
    OBVIOUS
  <2>2. <<k, n>> \in OpToRel(<, Nat) <=> k < n
    BY <2>1, Zenon DEF OpToRel
  <2> QED
    BY <1>1, <1>2, <2>2, Zenon
<1>3. n # 0 /\ n - 1 \in Nat /\ n - 1 < n /\ (n - 1) + 1 = n
  OBVIOUS
<1> QED
  BY <1>2, <1>3

\* The smallest of some numbers.
LEMMA Smallest ==
  ASSUME NEW S \in SUBSET Nat, S # {}
  PROVE  \E n \in S : \A k \in S : n <= k
<1>1. PICK n \in S : \A k \in S : ~(<<k, n>> \in OpToRel(<, Nat))
  BY NatLessThanWellFounded, WFMin
<1>2. ASSUME NEW k \in S PROVE n <= k
  <2>1. k \in Nat /\ n \in Nat
    OBVIOUS
  <2>2. <<k, n>> \in OpToRel(<, Nat) <=> k < n
    BY <2>1, Zenon DEF OpToRel
  <2>3. ~(k < n)
    BY <1>1, <2>2, Zenon
  <2> QED
    BY <2>1, <2>3
<1> QED
  BY <1>2

LEMMA MinOf ==
  ASSUME NEW S \in SUBSET Nat, S # {}
  PROVE  Min(S) \in S /\ \A k \in S : Min(S) <= k
BY Smallest DEF Min

\* The largest of some numbers that have a bound.
LEMMA MaxOf ==
  ASSUME NEW S \in SUBSET Nat, S # {}, NEW b \in Nat, \A k \in S : k <= b
  PROVE  Max(S) \in S /\ \A k \in S : k <= Max(S)
<1> DEFINE T == {b - k : k \in S}
<1>1. T \in SUBSET Nat /\ T # {}
  <2>1. \A k \in S : b - k \in Nat
    OBVIOUS
  <2> QED
    BY <2>1, Zenon
<1>2. PICK t \in T : \A u \in T : t <= u
  BY <1>1, Smallest
<1>3. PICK n \in S : t = b - n
  OBVIOUS
<1>4. ASSUME NEW k \in S PROVE k <= n
  <2>1. b - k \in T
    OBVIOUS
  <2>2. t <= b - k /\ k \in Nat /\ n \in Nat
    BY <1>2, <2>1
  <2> QED
    BY <1>3, <2>2
<1>5. \E m \in S : \A k \in S : m >= k
  <2>1. \A k \in S : n >= k
    BY <1>4
  <2> QED
    BY <2>1
<1>6. \A k \in S : Max(S) >= k /\ k \in Nat
  BY <1>5 DEF Max
<1>7. Max(S) \in S
  BY <1>5 DEF Max
<1> QED
  BY <1>6, <1>7

\* The next file is one of the list.
LEMMA FirstOfList ==
  ASSUME NEW l \in Levels, NEW list, list \subseteq Needed(l), list # {}
  PROVE  FirstOf(list, l) \in list
<1> DEFINE S == {i \in DOMAIN Paks[l] : Paks[l][i] \in list}
<1>1. S # {}
  BY DEF Needed
<1>2. S \in SUBSET Nat
  BY Constants
<1>3. Min(S) \in S
  <2> HIDE DEF S
  <2> QED
    BY <1>1, <1>2, MinOf
<1> QED
  BY <1>3 DEF FirstOf

\* Two numbers less than a ring apart have different slots.
LEMMA SlotsDiffer ==
  ASSUME NEW K \in Nat, K > 0, NEW a \in Int, NEW b \in Int, a < b, b < a + K
  PROVE  a % K # b % K
<1> DEFINE q == a \div K
           r == b \div K
<1>1. q \in Int /\ r \in Int /\ a % K \in Int /\ b % K \in Int
  OBVIOUS
<1>2. a = K * q + (a % K) /\ b = K * r + (b % K)
  OBVIOUS
<1> HIDE DEF q, r
<1> SUFFICES ASSUME a % K = b % K PROVE FALSE
  OBVIOUS
<1>3. b - a = K * (r - q)
  BY <1>1, <1>2
<1>4. CASE r - q <= 0
  <2>1. K * (r - q) <= 0
    BY <1>1, <1>4
  <2> QED
    BY <2>1, <1>3
<1>5. CASE r - q >= 1
  <2>1. K * (r - q) >= K
    BY <1>1, <1>5
  <2> QED
    BY <2>1, <1>3
<1> QED
  BY <1>1, <1>4, <1>5

LEMMA SlotOf ==
  ASSUME NEW k \in Nat
  PROVE  k % W \in Slots
BY Constants DEF Slots, W

-----------------------------------------------------------------------------
(* Types. *)

LEMMA BlockType ==
  ASSUME NEW b \in Block \cup {Unread}
  PROVE  b.file \in AnyFile /\ b.index \in Nat /\ (b.file # NoFile => b \in Block)
BY Constants DEF Block, Unread, AnyFile, NoFile

LEMMA CommandTypes ==
  /\ \A f \in File : Download(f) \in Command /\ Download(f).which \in File
  /\ \A i \in Nat, f \in AnyFile : NextDl(i, f) \in Command /\ NextDl(i, f).what # "download"
  /\ StopDl \in Command /\ StopDl.what # "download"
  /\ \A f \in AnyFile : DoneDl(f) \in Command /\ DoneDl(f).what # "download"
<1>1. \A f \in File : Download(f) \in Command /\ Download(f).which \in File
  BY Constants DEF Download, Command, AnyFile
<1>2. \A i \in Nat, f \in AnyFile : NextDl(i, f) \in Command /\ NextDl(i, f).what # "download"
  BY DEF NextDl, Command
<1>3. StopDl \in Command /\ StopDl.what # "download"
  BY DEF StopDl, Command, AnyFile
<1>4. \A f \in AnyFile : DoneDl(f) \in Command /\ DoneDl(f).what # "download"
  BY DEF DoneDl, Command
<1> QED
  BY <1>1, <1>2, <1>3, <1>4

LEMMA CloseType ==
  ASSUME NEW server \in Server
  PROVE  SV_CloseDownload(server) \in Server
BY DEF SV_CloseDownload, Server, AnyFile

LEMMA ExecuteType ==
  ASSUME NEW server \in Server, NEW n \in DOMAIN commands, n \in Nat, commands[n] \in Command,
         commands[n].what = "download" => commands[n].which \in File
  PROVE  SV_ClientCommand(server, n) \in Server
<1>1. SV_CloseDownload(server) \in Server
  BY CloseType
<1>2. commands[n].what = "download" => SV_BeginDownload_f(server, commands[n].which) \in Server
  BY <1>1 DEF SV_BeginDownload_f, Server, AnyFile
<1>3. \A i : SV_NextDownload_f(server, i) \in Server
  <2>1. [SV_CloseDownload(server) EXCEPT !.state = "CS_ZOMBIE"] \in Server
    BY <1>1 DEF Server
  <2>2. [server EXCEPT !.clientBlock = @ + 1] \in Server
    BY DEF Server
  <2> QED
    BY <1>1, <2>1, <2>2, Zenon DEF SV_NextDownload_f
<1>4. SV_SendClientGameState(server) \in Server
  <2>1. server.gamestates \in Seq(Nat) /\ server.lastClientCommand \in Nat
    BY DEF Server
  <2> DEFINE q == Append(server.gamestates, server.lastClientCommand)
  <2>2. q \in Seq(Nat)
    BY <2>1, AppendProperties
  <2>3. SV_SendClientGameState(server) = [server EXCEPT !.gamestates = q]
    BY DEF SV_SendClientGameState
  <2> HIDE DEF q
  <2> QED
    BY <2>2, <2>3 DEF Server
<1>5. commands[n].what \in {"download", "nextdl", "stopdl", "donedl"}
  BY DEF Command
<1>6. SV_ExecuteClientCommand(server, n) \in Server
  BY <1>1, <1>2, <1>3, <1>4, <1>5 DEF SV_ExecuteClientCommand
<1> QED
  BY <1>6 DEF SV_ClientCommand, Server

\* The server after each command of a packet.
LEMMA Runs ==
  ASSUME NEW server, NEW packet, packet.commands \in Nat, Tolerated(server, packet)
  PROVE  \E after :
           /\ after[0] = server
           /\ \A n \in 1..packet.commands : after[n] = SV_ClientCommand(after[n - 1], n)
           /\ SV_ExecuteClientMessage(server, packet) = after[packet.commands]
<1> DEFINE K == packet.commands
           Run(f, k) == f = [n \in 0..k |-> IF n = 0 THEN server ELSE SV_ClientCommand(f[n - 1], n)]
           S == {k \in Nat : \E f : Run(f, k)}
<1>1. 0 \in S
  <2> DEFINE f == [n \in 0..0 |-> server]
  <2>1. f = [n \in 0..0 |-> IF n = 0 THEN server ELSE SV_ClientCommand(f[n - 1], n)]
    <3>1. \A n \in 0..0 : n = 0
      OBVIOUS
    <3> QED
      BY <3>1, Zenon
  <2> QED
    BY <2>1
<1>2. ASSUME NEW k \in Nat, k \in S PROVE k + 1 \in S
  <2>1. PICK f : Run(f, k)
    BY <1>2
  <2> DEFINE last == SV_ClientCommand(f[k], k + 1)
             g == [n \in 0..k + 1 |-> IF n = k + 1 THEN last ELSE f[n]]
  <2>2. g[k + 1] = last /\ \A n \in 0..k : g[n] = f[n]
    OBVIOUS
  <2>3. ASSUME NEW n \in 0..k + 1
        PROVE  g[n] = IF n = 0 THEN server ELSE SV_ClientCommand(g[n - 1], n)
    <3>1. CASE n = k + 1
      <4>1. g[n - 1] = f[k] /\ n # 0
        BY <2>2, <3>1
      <4> HIDE DEF g
      <4> QED
        BY <2>2, <3>1, <4>1
    <3>2. CASE n \in 1..k
      <4>1. g[n] = f[n] /\ g[n - 1] = f[n - 1] /\ n \in 0..k /\ n # 0
        BY <2>2, <3>2
      <4>2. f[n] = SV_ClientCommand(f[n - 1], n)
        BY <2>1, <4>1, Zenon
      <4> HIDE DEF g
      <4> QED
        BY <4>1, <4>2
    <3>3. CASE n = 0
      <4>1. g[n] = f[n] /\ n \in 0..k
        BY <2>2, <3>3
      <4>2. f[n] = server
        BY <2>1, <3>3, <4>1, Zenon
      <4> HIDE DEF g
      <4> QED
        BY <3>3, <4>1, <4>2
    <3> QED
      BY <3>1, <3>2, <3>3
  <2>4. g = [n \in 0..k + 1 |-> g[n]]
    BY Zenon
  <2> HIDE DEF g
  <2>5. Run(g, k + 1)
    BY <2>3, <2>4, Zenon
  <2> QED
    BY <2>5
<1>3. K \in S
  <2> HIDE DEF S
  <2> QED
    BY <1>1, <1>2, SetInduction
<1>4. \E f : Run(f, K)
  BY <1>3
<1> DEFINE F == CHOOSE f : Run(f, K)
<1>5. Run(F, K)
  BY <1>4, Zenon
<1>6. SV_ExecuteClientMessage(server, packet) = F[K]
  BY Zenon DEF SV_ExecuteClientMessage
<1> HIDE DEF F
<1>7. F[0] = server
  <2>1. 0 \in 0..K
    OBVIOUS
  <2> QED
    BY <1>5, <2>1, Zenon
<1>8. ASSUME NEW n \in 1..K PROVE F[n] = SV_ClientCommand(F[n - 1], n)
  <2>1. n \in 0..K /\ n # 0
    OBVIOUS
  <2> QED
    BY <1>5, <2>1, Zenon
<1> QED
  BY <1>6, <1>7, <1>8, Zenon

LEMMA ReadFromType ==
  ASSUME NEW server \in Server, server.downloadName \in File, NEW first \in Nat
  PROVE  /\ ReadFrom(server, first) \in Server
         /\ ReadFrom(server, first).downloadName = server.downloadName
         /\ ReadFrom(server, first).xmitBlock = server.xmitBlock
         /\ ReadFrom(server, first).clientBlock = server.clientBlock
<1> DEFINE upTo == Min({first + MAX_DOWNLOAD_WINDOW, Blocks[server.downloadName] + 1})
           read(i) == {k \in server.currentBlock..upTo - 1 : k % MAX_DOWNLOAD_WINDOW = i}
           new == [i \in Slots |-> IF read(i) = {} THEN server.blocks[i]
                     ELSE [file |-> server.downloadName, index |-> Max(read(i))]]
<1>1. upTo \in Nat
  <2>1. first + W \in Nat /\ Blocks[server.downloadName] + 1 \in Nat
    BY Constants
  <2> QED
    BY <2>1, MinOf DEF W
<1> HIDE DEF upTo
<1>2. ASSUME NEW i \in Slots, read(i) # {} PROVE Max(read(i)) \in Nat
  <2>1. read(i) \in SUBSET Nat /\ \A k \in read(i) : k <= upTo
    BY <1>1 DEF Server
  <2> HIDE DEF read
  <2> QED
    BY <1>1, <1>2, <2>1, MaxOf
<1>3. new \in [Slots -> Block \cup {Unread}]
  <2>1. ASSUME NEW i \in Slots
        PROVE  (IF read(i) = {} THEN server.blocks[i]
                ELSE [file |-> server.downloadName, index |-> Max(read(i))]) \in Block \cup {Unread}
    <3>1. server.blocks[i] \in Block \cup {Unread}
      BY DEF Server
    <3>2. read(i) # {} => [file |-> server.downloadName, index |-> Max(read(i))] \in Block
      BY <1>2 DEF Block
    <3> HIDE DEF read
    <3> QED
      BY <3>1, <3>2
  <2> HIDE DEF read
  <2> QED
    BY <2>1
<1>4. ReadFrom(server, first) = [server EXCEPT !.currentBlock = upTo, !.blocks = new]
  BY DEF ReadFrom, upTo
<1> HIDE DEF new
<1> QED
  BY <1>1, <1>3, <1>4 DEF Server

LEMMA ReadyType ==
  ASSUME NEW server \in Server, server.downloadName \in File
  PROVE  Resent(Filled(Opened(server))) \in Server
<1> DEFINE opened == Opened(server)
           filled == Filled(opened)
<1>1. opened \in Server /\ opened.downloadName = server.downloadName
  BY DEF Opened, Server, AnyFile
<1> HIDE DEF opened
<1>2. filled \in Server
  <2>1. opened.clientBlock \in Nat
    BY <1>1 DEF Server
  <2> QED
    BY <1>1, <2>1, ReadFromType DEF Filled
<1> HIDE DEF filled
<1>3. Resent(filled) \in Server
  BY <1>2 DEF Resent, Server
<1> QED
  BY <1>3 DEF filled, opened

\* Commands that can be added.
Proper(new) ==
  /\ new \in Seq(Command)
  /\ \A i \in DOMAIN new : new[i].what = "download" => new[i].which \in File

LEMMA ProperNone == Proper(<<>>)
BY DEF Proper

LEMMA ProperOne ==
  ASSUME NEW x \in Command, x.what = "download" => x.which \in File
  PROVE  Proper(<<x>>) /\ Len(<<x>>) = 1 /\ <<x>>[1] = x
<1>1. <<x>> \in Seq(Command) /\ DOMAIN <<x>> = 1..1 /\ <<x>>[1] = x /\ Len(<<x>>) = 1
  OBVIOUS
<1> QED
  BY <1>1 DEF Proper

LEMMA ProperBoth ==
  ASSUME NEW q, NEW new, Proper(q), Proper(new)
  PROVE  /\ Proper(q \o new) /\ Len(q \o new) = Len(q) + Len(new) /\ Len(q) \in Nat /\ Len(new) \in Nat
         /\ \A i \in 1..Len(q) : (q \o new)[i] = q[i]
         /\ \A i \in 1..Len(new) : (q \o new)[Len(q) + i] = new[i]
<1> DEFINE r == q \o new
<1>1. /\ DOMAIN q = 1..Len(q) /\ DOMAIN new = 1..Len(new) /\ Len(q) \in Nat /\ Len(new) \in Nat
  BY LenProperties DEF Proper
<1>2. /\ r \in Seq(Command) /\ Len(r) = Len(q) + Len(new) /\ DOMAIN r = 1..Len(r)
      /\ \A i \in 1..Len(r) : r[i] = IF i <= Len(q) THEN q[i] ELSE new[i - Len(q)]
  BY ConcatProperties, LenProperties DEF Proper
<1> HIDE DEF r
<1>3. ASSUME NEW i \in 1..Len(q) PROVE r[i] = q[i]
  BY <1>1, <1>2
<1>4. ASSUME NEW i \in 1..Len(new) PROVE r[Len(q) + i] = new[i]
  <2>1. Len(q) + i \in 1..Len(r) /\ ~(Len(q) + i <= Len(q)) /\ (Len(q) + i) - Len(q) = i
    BY <1>1, <1>2
  <2> QED
    BY <1>2, <2>1
<1>5. ASSUME NEW i \in DOMAIN r, r[i].what = "download" PROVE r[i].which \in File
  <2>1. CASE i <= Len(q)
    <3>1. i \in DOMAIN q /\ r[i] = q[i]
      BY <1>1, <1>2, <2>1
    <3> QED
      BY <1>5, <3>1 DEF Proper
  <2>2. CASE ~(i <= Len(q))
    <3>1. i - Len(q) \in DOMAIN new /\ r[i] = new[i - Len(q)]
      BY <1>1, <1>2, <2>2
    <3> QED
      BY <1>5, <3>1 DEF Proper
  <2> QED
    BY <2>1, <2>2
<1>6. Proper(r)
  BY <1>2, <1>5, Zenon DEF Proper
<1> QED
  BY <1>1, <1>2, <1>3, <1>4, <1>6 DEF r

\* The client as its type has it.
ClientOK(client) ==
  /\ client \in Client
  /\ client.downloadList \subseteq IF client.serverId = 0 THEN {} ELSE Needed(client.serverId)

LEMMA NextType ==
  ASSUME NEW client, ClientOK(client)
  PROVE  /\ ClientOK(AfterDownloads(client).client) /\ Proper(AfterDownloads(client).new)
         /\ ClientOK(CL_NextDownload(client).client) /\ Proper(CL_NextDownload(client).new)
         /\ AfterDownloads(client).client.mixed = client.mixed
         /\ CL_NextDownload(client).client.mixed = client.mixed
<1>1. ASSUME NEW any, ClientOK(any)
      PROVE  ClientOK(AfterDownloads(any).client) /\ Proper(AfterDownloads(any).new)
             /\ AfterDownloads(any).client.mixed = any.mixed
  <2>1. CASE any.downloadRestart
    <3>1. Proper(<<DoneDl(any.downloadName)>>)
      <4>1. any.downloadName \in AnyFile
        BY <1>1 DEF ClientOK, Client
      <4> QED
        BY <4>1, CommandTypes, ProperOne
    <3>2. ClientOK([any EXCEPT !.downloadRestart = FALSE]) /\ [any EXCEPT !.downloadRestart = FALSE].mixed = any.mixed
      BY <1>1 DEF ClientOK, Client
    <3> QED
      BY <2>1, <3>1, <3>2 DEF AfterDownloads
  <2>2. CASE ~any.downloadRestart
    <3>1. ClientOK([any EXCEPT !.state = "CA_LOADING"]) /\ [any EXCEPT !.state = "CA_LOADING"].mixed = any.mixed
      BY <1>1 DEF ClientOK, Client
    <3> QED
      BY <2>2, <3>1, ProperNone DEF AfterDownloads
  <2> QED
    BY <2>1, <2>2
<1>2. CASE client.downloadList = {}
  <2> DEFINE cleared == [client EXCEPT !.downloadName = NoFile]
  <2>1. ClientOK(cleared) /\ cleared.mixed = client.mixed
    BY DEF ClientOK, Client, AnyFile
  <2>2. CL_NextDownload(client) = AfterDownloads(cleared)
    BY <1>2 DEF CL_NextDownload
  <2> HIDE DEF cleared
  <2> QED
    BY <1>1, <2>1, <2>2
<1>3. CASE client.downloadList # {}
  <2> DEFINE f == FirstOf(client.downloadList, client.serverId)
             taken == [client EXCEPT !.downloadName = f, !.downloadList = @ \ {f},
                                     !.downloadBlock = 0, !.downloadRestart = TRUE]
  <2>1. client.serverId \in Levels /\ client.downloadList \subseteq Needed(client.serverId)
    BY <1>3 DEF ClientOK, Client
  <2>2. f \in client.downloadList /\ f \in File
    <3>1. f \in client.downloadList
      BY <1>3, <2>1, FirstOfList
    <3> QED
      BY <3>1 DEF ClientOK, Client
  <2> HIDE DEF f
  <2>3. ClientOK(taken) /\ taken.mixed = client.mixed
    BY <2>2 DEF ClientOK, Client, AnyFile
  <2>4. CL_NextDownload(client) = [client |-> taken, new |-> <<Download(f)>>]
    BY <1>3 DEF CL_NextDownload, f
  <2>5. Proper(<<Download(f)>>)
    BY <2>2, CommandTypes, ProperOne
  <2> HIDE DEF taken
  <2> QED
    BY <1>1, <2>3, <2>4, <2>5
<1> QED
  BY <1>2, <1>3

-----------------------------------------------------------------------------
(* Queues. *)

\* Some elements of a sequence, in their order.
PartOf(part, q) ==
  /\ Len(part) <= Len(q)
  /\ \E f \in [1..Len(part) -> 1..Len(q)] :
       /\ \A i \in 1..Len(part) : part[i] = q[f[i]]
       /\ \A i, j \in 1..Len(part) : i < j => f[i] < f[j]

LEMMA WholeIsPart ==
  ASSUME NEW S, NEW q \in Seq(S)
  PROVE  PartOf(q, q)
<1> DEFINE f == [i \in 1..Len(q) |-> i]
<1>1. /\ f \in [1..Len(q) -> 1..Len(q)] /\ Len(q) \in Nat
      /\ \A i \in 1..Len(q) : q[i] = q[f[i]]
      /\ \A i, j \in 1..Len(q) : i < j => f[i] < f[j]
  OBVIOUS
<1> HIDE DEF f
<1> QED
  BY <1>1 DEF PartOf

LEMMA RemovedPart ==
  ASSUME NEW S, NEW q \in Seq(S), NEW n \in DOMAIN q
  PROVE  RemoveAt(q, n) \in Seq(S) /\ PartOf(RemoveAt(q, n), q)
<1>1. Len(q) \in Nat /\ DOMAIN q = 1..Len(q) /\ n \in 1..Len(q)
  BY LenProperties
<1> DEFINE a == SubSeq(q, 1, n - 1)
           b == SubSeq(q, n + 1, Len(q))
           part == RemoveAt(q, n)
<1>2. /\ a \in Seq(S) /\ Len(a) = n - 1
      /\ \A i \in 1..(n - 1) : a[i] = q[i]
  BY <1>1, SubSeqProperties
<1>3. /\ b \in Seq(S) /\ Len(b) = Len(q) - n
      /\ \A i \in 1..(Len(q) - n) : b[i] = q[i + n]
  BY <1>1, SubSeqProperties
<1> HIDE DEF a, b
<1>4. part = a \o b
  BY DEF a, b, RemoveAt
<1>5. /\ part \in Seq(S) /\ Len(part) = Len(q) - 1
      /\ \A i \in 1..Len(part) : part[i] = IF i <= n - 1 THEN a[i] ELSE b[i - (n - 1)]
  <2>1. Len(a) + Len(b) = Len(q) - 1
    BY <1>1, <1>2, <1>3
  <2> QED
    <3>1. /\ a \o b \in Seq(S) /\ Len(a \o b) = Len(a) + Len(b)
          /\ \A i \in 1..(Len(a) + Len(b)) :
               (a \o b)[i] = IF i <= Len(a) THEN a[i] ELSE b[i - Len(a)]
      BY <1>2, <1>3, ConcatProperties
    <3> HIDE DEF part
    <3> QED
      BY <1>2, <1>4, <2>1, <3>1
<1> HIDE DEF part
<1> DEFINE f == [i \in 1..Len(part) |-> IF i < n THEN i ELSE i + 1]
<1>6. f \in [1..Len(part) -> 1..Len(q)] /\ \A i, j \in 1..Len(part) : i < j => f[i] < f[j]
  BY <1>1, <1>5
<1>7. ASSUME NEW i \in 1..Len(part) PROVE part[i] = q[f[i]]
  <2>1. CASE i < n
    BY <1>1, <1>2, <1>5, <2>1
  <2>2. CASE ~(i < n)
    <3> DEFINE j == i - (n - 1)
    <3>1. j \in 1..(Len(q) - n) /\ j + n = i + 1 /\ f[i] = i + 1
      BY <1>1, <1>5, <2>2
    <3>2. part[i] = b[j]
      BY <1>1, <1>5, <2>2
    <3> HIDE DEF j, f
    <3> QED
      BY <1>3, <3>1, <3>2
  <2> QED
    BY <2>1, <2>2
<1>8. Len(part) <= Len(q)
  BY <1>1, <1>5
<1> HIDE DEF f
<1>9. PartOf(part, q)
  BY <1>6, <1>7, <1>8 DEF PartOf
<1> QED
  BY <1>5, <1>9 DEF part

LEMMA TailPart ==
  ASSUME NEW S, NEW q \in Seq(S), q # <<>>
  PROVE  /\ Tail(q) \in Seq(S) /\ PartOf(Tail(q), q)
         /\ Head(q) = q[1] /\ 1 \in 1..Len(q) /\ Head(q) \in S
         /\ Len(Tail(q)) = Len(q) - 1
         /\ \A i \in 1..Len(Tail(q)) : Tail(q)[i] = q[i + 1] /\ i + 1 \in 1..Len(q)
<1>1. Len(q) \in Nat /\ Len(q) # 0 /\ DOMAIN q = 1..Len(q)
  BY LenProperties, EmptySeq
<1>2. /\ Tail(q) \in Seq(S) /\ Len(Tail(q)) = Len(q) - 1
      /\ \A i \in 1..Len(Tail(q)) : Tail(q)[i] = q[i + 1]
      /\ Head(q) = q[1] /\ Head(q) \in S
  BY HeadTailProperties
<1> DEFINE f == [i \in 1..Len(Tail(q)) |-> i + 1]
<1>3. /\ f \in [1..Len(Tail(q)) -> 1..Len(q)]
      /\ \A i \in 1..Len(Tail(q)) : Tail(q)[i] = q[f[i]]
      /\ \A i, j \in 1..Len(Tail(q)) : i < j => f[i] < f[j]
  BY <1>1, <1>2
<1>4. PartOf(Tail(q), q)
  <2> HIDE DEF f
  <2> QED
    BY <1>1, <1>2, <1>3 DEF PartOf
<1> QED
  BY <1>1, <1>2, <1>4

LEMMA SequenceOf ==
  ASSUME NEW S, NEW T, NEW q \in Seq(S), \A i \in 1..Len(q) : q[i] \in T
  PROVE  q \in Seq(T)
BY SeqDef, LenProperties

\* What holds of a queue, one by one and in pairs, holds of some of it followed
\* by new elements of which it holds too.
LEMMA QueueGoesOn ==
  ASSUME NEW S, NEW q \in Seq(S), NEW part \in Seq(S), PartOf(part, q), NEW new \in Seq(S),
         NEW T, NEW R,
         \A i \in 1..Len(q) : q[i] \in T,
         \A i \in 1..Len(new) : new[i] \in T,
         \A i, j \in 1..Len(q) : i < j => <<q[i], q[j]>> \in R,
         \A i \in 1..Len(q), j \in 1..Len(new) : <<q[i], new[j]>> \in R,
         \A i, j \in 1..Len(new) : i < j => <<new[i], new[j]>> \in R
  PROVE  /\ part \o new \in Seq(S) /\ Len(part \o new) = Len(part) + Len(new)
         /\ \A i \in 1..Len(part \o new) : (part \o new)[i] \in T
         /\ \A i, j \in 1..Len(part \o new) :
              i < j => <<(part \o new)[i], (part \o new)[j]>> \in R
<1> DEFINE r == part \o new
           k == Len(part)
<1>1. k \in Nat /\ Len(new) \in Nat /\ Len(q) \in Nat
  BY LenProperties
<1>2. /\ r \in Seq(S) /\ Len(r) = k + Len(new)
      /\ \A i \in 1..Len(r) : r[i] = IF i <= k THEN part[i] ELSE new[i - k]
  BY ConcatProperties
<1>3. PICK f \in [1..k -> 1..Len(q)] :
        /\ \A i \in 1..k : part[i] = q[f[i]]
        /\ \A i, j \in 1..k : i < j => f[i] < f[j]
  BY DEF PartOf
<1> HIDE DEF r, k
<1>4. ASSUME NEW i \in 1..Len(r)
      PROVE  \/ i \in 1..k /\ f[i] \in 1..Len(q) /\ r[i] = q[f[i]]
             \/ i - k \in 1..Len(new) /\ i > k /\ r[i] = new[i - k]
  <2>1. CASE i <= k
    <3>1. i \in 1..k /\ r[i] = part[i]
      BY <1>1, <1>2, <2>1
    <3> QED
      BY <1>3, <3>1
  <2>2. CASE ~(i <= k)
    BY <1>1, <1>2, <2>2
  <2> QED
    BY <2>1, <2>2
<1>5. ASSUME NEW i \in 1..Len(r) PROVE r[i] \in T
  BY <1>4
<1>6. ASSUME NEW i \in 1..Len(r), NEW j \in 1..Len(r), i < j PROVE <<r[i], r[j]>> \in R
  <2>1. CASE i \in 1..k /\ j \in 1..k
    <3>1. f[i] < f[j] /\ f[i] \in 1..Len(q) /\ f[j] \in 1..Len(q) /\ r[i] = q[f[i]] /\ r[j] = q[f[j]]
      BY <1>1, <1>3, <1>4, <1>6, <2>1
    <3> QED
      BY <3>1
  <2>2. CASE i \in 1..k /\ j > k
    <3>1. f[i] \in 1..Len(q) /\ r[i] = q[f[i]] /\ j - k \in 1..Len(new) /\ r[j] = new[j - k]
      BY <1>1, <1>4, <2>2
    <3> QED
      BY <3>1
  <2>3. CASE i > k
    <3>1. /\ i - k \in 1..Len(new) /\ r[i] = new[i - k] /\ j - k \in 1..Len(new) /\ r[j] = new[j - k]
          /\ i - k < j - k
      BY <1>1, <1>4, <1>6, <2>3
    <3> QED
      BY <3>1
  <2>4. i \in Nat /\ j \in Nat /\ i > 0 /\ j > 0
    BY <1>1, <1>2
  <2> QED
    BY <1>1, <1>6, <2>1, <2>2, <2>3, <2>4
<1> QED
  BY <1>1, <1>2, <1>5, <1>6, Zenon DEF r, k

-----------------------------------------------------------------------------
(* Type correctness. *)

PacketsOK(q, n) ==
  /\ q \in Seq(PacketType)
  /\ \A i \in DOMAIN q : q[i].commands <= n

\* What is known of the parts when the types are right.
LEMMA Parts ==
  ASSUME TypeOK
  PROVE  /\ s \in Server /\ s.lastClientCommand <= Len(commands) /\ ClientOK(c) /\ Proper(commands)
         /\ PacketsOK(toServer, Len(commands)) /\ toClient \in Seq(MessageType)
         /\ Len(toServer) <= Capacity /\ losses \in 0..MaxLosses
         /\ Len(commands) \in Nat /\ s.lastClientCommand \in Nat /\ Len(toServer) \in Nat
         /\ DOMAIN commands = 1..Len(commands) /\ DOMAIN toServer = 1..Len(toServer)
<1>1. s.lastClientCommand \in Nat
  BY DEF TypeOK, Server
<1>2. Len(commands) \in Nat /\ Len(toServer) \in Nat
  BY LenProperties DEF TypeOK
<1>3. DOMAIN commands = 1..Len(commands) /\ DOMAIN toServer = 1..Len(toServer)
  BY LenProperties DEF TypeOK
<1> QED
  BY <1>1, <1>2, <1>3 DEF TypeOK, ClientOK, Proper, PacketsOK

\* A command already executed changes nothing but is not executed again.
LEMMA LastCommand ==
  ASSUME NEW server \in Server, NEW n \in Nat
  PROVE  SV_ClientCommand(server, n).lastClientCommand \in {n, server.lastClientCommand}
<1> DEFINE x == SV_ExecuteClientCommand(server, n)
<1>1. \A r : [r EXCEPT !.lastClientCommand = n].lastClientCommand = n \/ "lastClientCommand" \notin DOMAIN r
  OBVIOUS
<1>2. "lastClientCommand" \in DOMAIN server
  BY DEF Server
<1> QED
  BY <1>1, <1>2 DEF SV_ClientCommand

\* The server after the commands of a packet.
LEMMA MessageTypes ==
  ASSUME TypeOK, NEW packet \in PacketType, packet.commands <= Len(commands)
  PROVE  /\ SV_ExecuteClientMessage(s, packet) \in Server
         /\ SV_ExecuteClientMessage(s, packet).lastClientCommand <= Len(commands)
<1> DEFINE Fits(server) == server \in Server /\ server.lastClientCommand <= Len(commands)
<1>1. /\ packet.commands \in Nat /\ Fits(s) /\ Proper(commands)
      /\ Len(commands) \in Nat /\ DOMAIN commands = 1..Len(commands)
  BY Parts DEF PacketType
<1>2. CASE Tolerated(s, packet)
  <2>1. PICK after :
          /\ after[0] = s
          /\ \A n \in 1..packet.commands : after[n] = SV_ClientCommand(after[n - 1], n)
          /\ SV_ExecuteClientMessage(s, packet) = after[packet.commands]
    BY <1>1, <1>2, Runs
  <2> DEFINE S == {n \in Nat : n <= packet.commands => Fits(after[n])}
  <2>2. 0 \in S
    BY <1>1, <2>1
  <2>3. ASSUME NEW n \in Nat, n \in S PROVE n + 1 \in S
    <3> SUFFICES ASSUME n + 1 <= packet.commands PROVE Fits(after[n + 1])
      OBVIOUS
    <3>1. Fits(after[n])
      BY <1>1, <2>3
    <3>2. n + 1 \in DOMAIN commands /\ n + 1 \in 1..packet.commands /\ (n + 1) - 1 = n /\ n + 1 \in Nat
      BY <1>1
    <3>3. after[n + 1] = SV_ClientCommand(after[n], n + 1)
      BY <2>1, <3>2
    <3>4. commands[n + 1] \in Command /\ (commands[n + 1].what = "download" => commands[n + 1].which \in File)
      <4>1. commands \in Seq(Command)
        BY <1>1 DEF Proper
      <4>2. n + 1 \in 1..Len(commands)
        BY <1>1, <3>2
      <4> QED
        BY <1>1, <3>2, <4>1, <4>2, ElementOfSeq DEF Proper
    <3> DEFINE next == SV_ClientCommand(after[n], n + 1)
    <3>5. next \in Server
      BY <3>1, <3>2, <3>4, ExecuteType
    <3>6. next.lastClientCommand \in {n + 1, after[n].lastClientCommand}
      BY <3>1, <3>2, LastCommand
    <3>7. n + 1 <= Len(commands) /\ after[n].lastClientCommand <= Len(commands)
      BY <1>1, <3>1, <3>2
    <3> HIDE DEF next
    <3>8. next.lastClientCommand <= Len(commands)
      BY <3>6, <3>7
    <3> QED
      BY <3>3, <3>5, <3>8 DEF next
  <2>4. packet.commands \in S
    <3> HIDE DEF S
    <3> QED
      BY <1>1, <2>2, <2>3, SetInduction
  <2> QED
    BY <1>1, <2>1, <2>4
<1>3. CASE ~Tolerated(s, packet)
  <2> DEFINE q == Append(s.gamestates, s.lastClientCommand)
             sent == [s EXCEPT !.gamestates = q]
  <2>1. q \in Seq(Nat)
    BY <1>1, AppendProperties DEF Server
  <2> HIDE DEF q
  <2>2. sent \in Server /\ sent.lastClientCommand = s.lastClientCommand
    BY <1>1, <2>1 DEF Server
  <2>3. SV_ExecuteClientMessage(s, packet) \in {s, sent}
    BY <1>3, Zenon DEF SV_ExecuteClientMessage, SV_SendClientGameState, q
  <2> HIDE DEF sent
  <2> QED
    BY <1>1, <2>2, <2>3
<1> QED
  BY <1>2, <1>3

LEMMA AnsweredType ==
  ASSUME TypeOK, NEW server \in Server
  PROVE  Answered(server) \in Seq(MessageType)
<1> DEFINE k == Len(server.gamestates) - Len(s.gamestates)
           at(i) == Len(s.gamestates) + i
           gamestate(i) == [kind |-> "gamestate", number |-> 2 * at(i),
                            commands |-> server.gamestates[at(i)], serverId |-> server.serverId]
<1>1. /\ server.gamestates \in Seq(Nat) /\ s.gamestates \in Seq(Nat) /\ server.serverId \in Levels
      /\ Len(server.gamestates) \in Nat /\ Len(s.gamestates) \in Nat
  <2>1. s \in Server
    BY Parts
  <2>2. server.gamestates \in Seq(Nat) /\ s.gamestates \in Seq(Nat) /\ server.serverId \in Levels
    BY <2>1 DEF Server
  <2> QED
    BY <2>2, LenProperties
<1>2. ASSUME NEW i \in 1..k PROVE gamestate(i) \in MessageType
  <2>1. at(i) \in 1..Len(server.gamestates) /\ 2 * at(i) \in Nat
    BY <1>1
  <2>2. server.gamestates[at(i)] \in Nat
    BY <1>1, <2>1, ElementOfSeq
  <2> HIDE DEF at
  <2> QED
    BY <1>1, <2>1, <2>2 DEF MessageType
<1>3. Answered(server) = [i \in 1..k |-> gamestate(i)]
  BY DEF Answered
<1> HIDE DEF gamestate
<1>4. CASE k \in Nat
  BY <1>2, <1>3, <1>4, SeqDef
<1>5. CASE ~(k \in Nat)
  <2>1. k \in Int /\ k < 0
    <3>1. \A a, b \in Nat : ~(a - b \in Nat) => a - b \in Int /\ a - b < 0
      OBVIOUS
    <3>2. Len(server.gamestates) \in Nat /\ Len(s.gamestates) \in Nat
      BY <1>1
    <3> QED
      BY <1>5, <3>1, <3>2, Zenon
  <2> HIDE DEF k
  <2>3. \A i \in 1..k : FALSE
    BY <2>1
  <2>4. 1..k = 1..0
    BY <2>3
  <2>2. Answered(server) \in [1..0 -> MessageType]
    BY <1>2, <1>3, <2>4
  <2> QED
    BY <2>2, SeqDef
<1> QED
  BY <1>4, <1>5

LEMMA InitTypes ==
  Init => TypeOK
<1> SUFFICES ASSUME Init PROVE TypeOK
  OBVIOUS
<1>1. s \in Server /\ s.lastClientCommand = 0
  BY Constants DEF Init, Server, AnyFile, Unread, NoFile
<1>2. c \in Client /\ c.downloadList = {}
  BY Constants DEF Init, Client, AnyFile, NoFile
<1>3. commands = <<>> /\ toServer = <<>> /\ losses = 0 /\ Len(commands) = 0 /\ Len(toServer) = 0
  BY DEF Init
<1>4. toClient \in Seq(MessageType)
  <2> DEFINE m == [kind |-> "gamestate", number |-> 2, commands |-> 0, serverId |-> 1]
  <2>1. m \in MessageType
    BY Constants DEF MessageType
  <2>2. toClient = <<m>>
    BY DEF Init
  <2> HIDE DEF m
  <2> QED
    BY <2>1, <2>2
<1>5. /\ commands \in Seq(Command) /\ \A n \in DOMAIN commands : commands[n].what = "download" => commands[n].which \in File
      /\ toServer \in Seq(PacketType) /\ \A i \in DOMAIN toServer : toServer[i].commands <= Len(commands)
  BY <1>3
<1> QED
  BY <1>1, <1>2, <1>3, <1>4, <1>5, Constants DEF TypeOK

LEMMA LoseTypes ==
  ASSUME TypeOK, Lose
  PROVE  TypeOK'
<1>1. /\ Len(commands) \in Nat /\ toServer \in Seq(PacketType) /\ toClient \in Seq(MessageType)
      /\ DOMAIN toServer = 1..Len(toServer) /\ Len(toServer) <= Capacity /\ losses \in 0..MaxLosses
      /\ \A i \in DOMAIN toServer : toServer[i].commands <= Len(commands)
  BY Parts DEF PacketsOK
<1>2. s' = s /\ c' = c /\ commands' = commands /\ losses' \in 0..MaxLosses
  BY <1>1, Constants DEF Lose
<1>3. toClient' \in Seq(MessageType)
  <2>1. \/ toClient' = toClient
        \/ \E i \in DOMAIN toClient : toClient' = RemoveAt(toClient, i)
    BY DEF Lose
  <2> QED
    BY <1>1, <2>1, RemovedPart
<1>4. /\ toServer' \in Seq(PacketType) /\ Len(toServer') <= Capacity
      /\ \A i \in DOMAIN toServer' : toServer'[i].commands <= Len(commands)
  <2>1. \/ toServer' = toServer
        \/ \E i \in DOMAIN toServer : toServer' = RemoveAt(toServer, i)
    BY DEF Lose
  <2>2. toServer' \in Seq(PacketType) /\ PartOf(toServer', toServer)
    BY <1>1, <2>1, RemovedPart, WholeIsPart
  <2>3. DOMAIN toServer' = 1..Len(toServer') /\ Len(toServer') \in Nat /\ Len(toServer) \in Nat
    BY <1>1, <2>2, LenProperties
  <2>4. Len(toServer') <= Capacity
    BY <1>1, <2>2, <2>3, Constants DEF PartOf
  <2>5. PICK f \in [1..Len(toServer') -> 1..Len(toServer)] :
          \A i \in 1..Len(toServer') : toServer'[i] = toServer[f[i]]
    BY <2>2 DEF PartOf
  <2> QED
    BY <1>1, <2>2, <2>3, <2>4, <2>5
<1> QED
  BY <1>2, <1>3, <1>4 DEF TypeOK

LEMMA ReceivesTypes ==
  ASSUME TypeOK, ServerReceives
  PROVE  TypeOK'
<1> DEFINE packet == Head(toServer)
<1>1. /\ Len(commands) \in Nat /\ toServer \in Seq(PacketType) /\ toClient \in Seq(MessageType)
      /\ DOMAIN toServer = 1..Len(toServer) /\ Len(toServer) \in Nat /\ Len(toServer) <= Capacity
      /\ \A i \in DOMAIN toServer : toServer[i].commands <= Len(commands)
  BY Parts DEF PacketsOK
<1>2. /\ c' = c /\ commands' = commands /\ losses' = losses /\ toServer # <<>> /\ toServer' = Tail(toServer)
      /\ s' = SV_ExecuteClientMessage(s, packet) /\ toClient' = toClient \o Answered(s')
  BY DEF ServerReceives
<1>3. /\ toServer' \in Seq(PacketType) /\ packet = toServer[1] /\ 1 \in DOMAIN toServer /\ packet \in PacketType
      /\ Len(toServer') = Len(toServer) - 1 /\ Len(toServer') \in Nat
      /\ \A i \in 1..Len(toServer') : toServer'[i] = toServer[i + 1] /\ i + 1 \in DOMAIN toServer
  BY <1>1, <1>2, TailPart, LenProperties
<1>4. packet.commands <= Len(commands)
  BY <1>1, <1>3
<1> HIDE DEF packet
<1>5. s' \in Server /\ s'.lastClientCommand <= Len(commands)
  BY <1>2, <1>3, <1>4, MessageTypes
<1>6. toClient' \in Seq(MessageType)
  <2> DEFINE new == Answered(s')
  <2>1. new \in Seq(MessageType)
    BY <1>5, AnsweredType
  <2>2. toClient' = toClient \o new
    BY <1>2
  <2> HIDE DEF new
  <2>3. toClient \o new \in Seq(MessageType)
    BY <1>1, <2>1, ConcatProperties
  <2> QED
    BY <2>2, <2>3, Zenon
<1>7. DOMAIN toServer' = 1..Len(toServer') /\ Len(toServer') <= Capacity
  BY <1>1, <1>3, LenProperties, Constants
<1>8. \A i \in DOMAIN toServer' : toServer'[i].commands <= Len(commands)
  BY <1>1, <1>3, <1>7
<1> QED
  BY <1>2, <1>3, <1>5, <1>6, <1>7, <1>8 DEF TypeOK

\* A message that the server sends on its own.
LEMMA SendTypes ==
  ASSUME TypeOK, s' \in Server, s'.lastClientCommand = s.lastClientCommand, NEW m \in MessageType,
         toClient' = Append(toClient, m) \/ toClient' = <<m>>,
         UNCHANGED <<c, commands, toServer, losses>>
  PROVE  TypeOK'
<1>1. toClient' \in Seq(MessageType)
  <2>1. toClient \in Seq(MessageType)
    BY Parts
  <2>2. Append(toClient, m) \in Seq(MessageType)
    BY <2>1, AppendProperties
  <2>3. <<m>> \in Seq(MessageType)
    OBVIOUS
  <2> QED
    BY <2>2, <2>3, Zenon
<1> QED
  BY <1>1 DEF TypeOK

LEMMA Messages ==
  ASSUME TypeOK
  PROVE  /\ \A kind \in {"snapshot", "refusal"} : Message(s, kind) \in MessageType
         /\ \A b \in Nat, data \in Block \cup {Unread} :
              [kind |-> "download", number |-> Message(s, "download").number,
               commands |-> s.lastClientCommand, block |-> b, data |-> data] \in MessageType
<1>1. 2 * Len(s.gamestates) + 1 \in Nat /\ s.lastClientCommand \in Nat
  <2>1. s.gamestates \in Seq(Nat) /\ s.lastClientCommand \in Nat
    BY Parts DEF Server
  <2>2. Len(s.gamestates) \in Nat
    BY <2>1, LenProperties
  <2> QED
    BY <2>1, <2>2
<1> DEFINE n == 2 * Len(s.gamestates) + 1
<1>2. \A kind : Message(s, kind) = [kind |-> kind, number |-> n, commands |-> s.lastClientCommand]
  BY DEF Message
<1>3. Message(s, "download").number = n
  BY <1>2
<1> HIDE DEF n
<1> QED
  BY <1>1, <1>2, <1>3 DEF MessageType, n

LEMMA SpawnTypes ==
  ASSUME TypeOK, SV_SpawnServer
  PROVE  TypeOK'
<1>1. s' \in Server /\ s'.lastClientCommand = s.lastClientCommand
  BY Parts DEF SV_SpawnServer, Server
<1> QED
  BY <1>1 DEF TypeOK, SV_SpawnServer

LEMMA SnapshotTypes ==
  ASSUME TypeOK, SV_SendClientSnapshot
  PROVE  TypeOK'
<1>1. s' = s /\ s \in Server
  BY Parts DEF SV_SendClientSnapshot
<1> QED
  BY <1>1, Messages, SendTypes DEF SV_SendClientSnapshot

LEMMA RefuseTypes ==
  ASSUME TypeOK, RefuseDownload
  PROVE  TypeOK'
<1>1. s' \in Server /\ s'.lastClientCommand = s.lastClientCommand
  BY Parts DEF RefuseDownload, Server, AnyFile
<1> QED
  BY <1>1, Messages, SendTypes DEF RefuseDownload

LEMMA WriteTypes ==
  ASSUME TypeOK, SV_WriteDownloadToClient
  PROVE  TypeOK'
<1> DEFINE ready == Resent(Filled(Opened(s)))
<1>1. s \in Server /\ s.downloadName \in File
  BY Parts DEF SV_WriteDownloadToClient, Server, AnyFile
<1>2. ready \in Server
  BY <1>1, ReadyType
<1>3. ready.lastClientCommand = s.lastClientCommand
  BY DEF Resent, Filled, Opened, ReadFrom
<1>4. ready.blocks[ready.xmitBlock % MAX_DOWNLOAD_WINDOW] \in Block \cup {Unread} /\ ready.xmitBlock \in Nat
  <2>1. ready.xmitBlock \in Nat
    BY <1>2 DEF Server
  <2> QED
    BY <1>2, <2>1, SlotOf DEF Server, W
<1>5. /\ s' = [ready EXCEPT !.xmitBlock = @ + 1]
      /\ toClient' = Append(toClient,
           [kind |-> "download", number |-> Message(s, "download").number,
            commands |-> s.lastClientCommand, block |-> ready.xmitBlock,
            data |-> ready.blocks[ready.xmitBlock % MAX_DOWNLOAD_WINDOW]])
      /\ UNCHANGED <<c, commands, toServer, losses>>
  BY DEF SV_WriteDownloadToClient
<1> HIDE DEF ready
<1>6. s' \in Server /\ s'.lastClientCommand = s.lastClientCommand
  <2>1. \A n \in Nat : n + 1 \in Nat
    OBVIOUS
  <2>2. ready.xmitBlock + 1 \in Nat
    BY <1>4, <2>1, Zenon
  <2> DEFINE n == ready.xmitBlock + 1
  <2>3. s' = [ready EXCEPT !.xmitBlock = n]
    BY <1>5
  <2> HIDE DEF n
  <2>4. [ready EXCEPT !.xmitBlock = n] \in Server
    BY <1>2, <2>2 DEF Server, n
  <2>5. s'.lastClientCommand = ready.lastClientCommand
    BY <1>2, <2>3 DEF Server
  <2> QED
    BY <1>3, <2>3, <2>4, <2>5, Zenon
<1> QED
  BY <1>4, <1>5, <1>6, Messages, SendTypes

LEMMA WritePacketTypes ==
  ASSUME TypeOK, CL_WritePacket
  PROVE  TypeOK'
<1> DEFINE p == Packet(c, Len(commands))
<1>1. /\ c \in Client /\ Len(commands) \in Nat /\ toServer \in Seq(PacketType)
      /\ DOMAIN toServer = 1..Len(toServer) /\ Len(toServer) \in Nat
      /\ \A i \in DOMAIN toServer : toServer[i].commands <= Len(commands)
  BY Parts DEF PacketsOK, ClientOK
<1>2. p \in PacketType /\ p.commands = Len(commands)
  BY <1>1 DEF Packet, PacketType, Client
<1>3. toServer' = Append(toServer, p) /\ Len(toServer) < Capacity
  BY DEF CL_WritePacket, HasRoom
<1> HIDE DEF p
<1> DEFINE r == Append(toServer, p)
<1>4. /\ r \in Seq(PacketType) /\ Len(r) = Len(toServer) + 1
      /\ \A i \in 1..Len(toServer) : r[i] = toServer[i]
      /\ r[Len(toServer) + 1] = p
  BY <1>1, <1>2, AppendProperties
<1> HIDE DEF r
<1>5. DOMAIN r = 1..Len(r) /\ Len(r) <= Capacity
  BY <1>1, <1>3, <1>4, LenProperties, Constants
<1>6. \A i \in DOMAIN r : r[i].commands <= Len(commands)
  <2>1. ASSUME NEW i \in 1..Len(r) PROVE i \in 1..Len(toServer) \/ i = Len(toServer) + 1
    BY <1>1, <1>4
  <2> QED
    BY <1>1, <1>2, <1>4, <1>5, <2>1
<1>7. r = toServer'
  BY <1>3 DEF r
<1> QED
  BY <1>4, <1>5, <1>6, <1>7 DEF TypeOK, CL_WritePacket

\* The client that adds commands.
LEMMA AddingTypes ==
  ASSUME TypeOK, NEW client, ClientOK(client), NEW new, Proper(new), Adding(client, new)
  PROVE  ClientOK(c') /\ Proper(commands') /\ Len(commands) <= Len(commands')
<1>1. ClientOK(Left(client))
  BY Constants DEF Left, ClientOK, Client, AnyFile, NoFile
<1>2. Proper(commands) /\ Len(commands) \in Nat
  BY Parts
<1>3. Proper(commands \o new) /\ Len(commands) <= Len(commands \o new)
  <2> DEFINE r == commands \o new
  <2>1. Proper(r) /\ Len(r) = Len(commands) + Len(new) /\ Len(new) \in Nat
    BY <1>2, ProperBoth
  <2> HIDE DEF r
  <2>2. Len(commands) <= Len(r)
    BY <1>2, <2>1
  <2> QED
    BY <2>1, <2>2 DEF r
<1>4. Len(commands) <= Len(commands)
  BY <1>2
<1>5. \/ c' = Left(client) /\ commands' = commands
      \/ c' = client /\ commands' = commands \o new
  BY DEF Adding
<1> QED
  BY <1>1, <1>2, <1>3, <1>4, <1>5, Zenon

LEMMA GamestateTypes ==
  ASSUME TypeOK, NEW client, ClientOK(client), NEW m, m.serverId \in Levels,
         CL_ParseGamestate(client, m)
  PROVE  ClientOK(c') /\ Proper(commands') /\ Len(commands) <= Len(commands') /\ UNCHANGED toServer
<1> DEFINE missing == Needed(m.serverId) \ client.saved
           loaded == [client EXCEPT !.serverId = m.serverId, !.downloadList = missing]
           connected == [loaded EXCEPT !.state = "CA_CONNECTED"]
           next == IF missing = {} THEN AfterDownloads(loaded) ELSE CL_NextDownload(connected)
<1>1. missing \subseteq Needed(m.serverId) /\ missing \subseteq File
  BY Constants DEF Needed
<1>2. m.serverId # 0
  BY Constants
<1> HIDE DEF missing
<1>3. ClientOK(loaded)
  BY <1>1, <1>2 DEF ClientOK, Client
<1> HIDE DEF loaded
<1>4. ClientOK(connected)
  BY <1>3 DEF ClientOK, Client
<1> HIDE DEF connected
<1>5. ClientOK(next.client) /\ Proper(next.new)
  BY <1>3, <1>4, NextType
<1>6. Adding(next.client, next.new) /\ UNCHANGED toServer
  BY Zenon DEF CL_ParseGamestate, missing, loaded, connected
<1> HIDE DEF next
<1> QED
  BY <1>5, <1>6, AddingTypes

\* What becomes of a message that is garbled.
LEMMA GarbledTypes ==
  ASSUME TypeOK, NEW client, ClientOK(client), NEW new, Proper(new), Garbled(client, new)
  PROVE  ClientOK(c') /\ Proper(commands') /\ Len(commands) <= Len(commands') /\ UNCHANGED toServer
<1>1. ClientOK(Left(client))
  BY Constants DEF Left, ClientOK, Client, AnyFile, NoFile
<1>2. Proper(commands) /\ Len(commands) \in Nat
  BY Parts
<1>3. CASE Adding(client, new)
  BY <1>3, AddingTypes DEF Garbled
<1>4. CASE c' = Left(client) /\ UNCHANGED commands
  BY <1>1, <1>2, <1>4 DEF Garbled
<1> QED
  BY <1>3, <1>4 DEF Garbled

LEMMA BlockTypes ==
  ASSUME TypeOK, NEW client, ClientOK(client), NEW m, m.data \in Block \cup {Unread},
         client.downloadName # NoFile, TakeBlock(client, m)
  PROVE  /\ ClientOK(c') /\ Proper(commands') /\ Len(commands) <= Len(commands')
         /\ \/ UNCHANGED toServer
            \/ HasRoom(toServer) /\ toServer' = Append(toServer, Packet(client, Len(commands) + 1))
               /\ Len(commands) + 1 <= Len(commands')
<1> DEFINE end == IsEmpty(m.data)
           f == client.downloadName
           written == (IF client.download = NoFile THEN <<>> ELSE client.written)
                        \o (IF end THEN <<>> ELSE <<m.data>>)
           taken == [client EXCEPT !.download = IF end THEN NoFile
                                                ELSE IF @ = NoFile THEN f ELSE @,
                                   !.written = written, !.downloadBlock = @ + 1,
                                   !.mixed = @ \cup ({m.data.file} \ {f})]
           acknowledgement == <<NextDl(client.downloadBlock, IF end THEN NoFile ELSE f)>>
           ended == [taken EXCEPT !.saved = @ \cup {f}]
           next == CL_NextDownload(ended)
<1>1. client \in Client /\ f \in File /\ f \in AnyFile /\ NoFile \in AnyFile
  BY DEF ClientOK, Client, AnyFile
<1>2. written \in Seq(Block)
  <2> DEFINE a == IF client.download = NoFile THEN <<>> ELSE client.written
             b == IF end THEN <<>> ELSE <<m.data>>
  <2>1. ~end => m.data \in Block
    <3>1. m.data.file = NoFile => end
      BY DEF IsEmpty
    <3> QED
      BY <3>1, BlockType
  <2>2. a \in Seq(Block)
    BY <1>1 DEF Client
  <2>3. b \in Seq(Block)
    <3>1. <<>> \in Seq(Block) /\ (m.data \in Block => <<m.data>> \in Seq(Block))
      OBVIOUS
    <3> HIDE DEF end
    <3> QED
      BY <2>1, <3>1, Zenon
  <2> HIDE DEF a, b
  <2>4. a \o b \in Seq(Block)
    BY <2>2, <2>3, ConcatProperties
  <2> QED
    BY <2>4 DEF a, b
<1>3. {m.data.file} \ {f} \subseteq AnyFile
  BY BlockType
<1> HIDE DEF written
<1>4. ClientOK(taken)
  <2>1. \A n \in Nat : n + 1 \in Nat
    OBVIOUS
  <2> DEFINE d == IF end THEN NoFile ELSE IF client.download = NoFile THEN f ELSE client.download
             x == client.mixed \cup ({m.data.file} \ {f})
             n == client.downloadBlock + 1
  <2>2. d \in AnyFile
    BY <1>1 DEF Client
  <2>3. x \subseteq AnyFile
    BY <1>1, <1>3 DEF Client
  <2>4. n \in Nat
    BY <1>1, <2>1 DEF Client
  <2>5. taken = [client EXCEPT !.download = d, !.written = written, !.downloadBlock = n, !.mixed = x]
    OBVIOUS
  <2> HIDE DEF d, x, n, taken
  <2>6. taken \in Client
    BY <1>1, <1>2, <2>2, <2>3, <2>4, <2>5 DEF Client
  <2>7. taken.downloadList = client.downloadList /\ taken.serverId = client.serverId
    BY <1>1, <2>5 DEF Client
  <2> QED
    BY <2>6, <2>7 DEF ClientOK
<1>5. Proper(acknowledgement) /\ Len(acknowledgement) = 1
  <2> DEFINE x == NextDl(client.downloadBlock, IF end THEN NoFile ELSE f)
  <2>1. x \in Command /\ x.what # "download"
    <3>1. client.downloadBlock \in Nat
      BY <1>1 DEF Client
    <3>2. (IF end THEN NoFile ELSE f) \in AnyFile
      BY <1>1
    <3> QED
      BY <3>1, <3>2, CommandTypes
  <2> HIDE DEF x
  <2>2. Proper(<<x>>) /\ Len(<<x>>) = 1
    BY <2>1, ProperOne
  <2> QED
    BY <2>2 DEF x
<1>6. ClientOK(Left(taken))
  <2> HIDE DEF taken
  <2> QED
    BY <1>4, Constants DEF Left, ClientOK, Client, AnyFile, NoFile
<1>7. ClientOK(next.client) /\ Proper(next.new)
  <2>1. ClientOK(ended)
    <3>1. \A q \in SUBSET File : q \cup {f} \in SUBSET File
      BY <1>1
    <3> HIDE DEF taken, f
    <3> QED
      BY <1>4, <3>1 DEF ClientOK, Client
  <2> HIDE DEF ended
  <2> QED
    BY <2>1, NextType
<1>8. CASE Adding(taken, acknowledgement) /\ UNCHANGED toServer
  BY <1>4, <1>5, <1>8, AddingTypes
<1> DEFINE more(stays) == IF stays THEN next.new ELSE <<>>
           q(stays) == commands \o acknowledgement \o more(stays)
<1>9. CASE \E stays \in BOOLEAN :
             /\ toServer' = IF HasRoom(toServer)
                            THEN Append(toServer, Packet(client, Len(commands) + 1)) ELSE toServer
             /\ c' = IF stays THEN next.client ELSE Left(taken)
             /\ commands' = q(stays)
  <2>1. PICK stays \in BOOLEAN :
          /\ toServer' = IF HasRoom(toServer)
                         THEN Append(toServer, Packet(client, Len(commands) + 1)) ELSE toServer
          /\ c' = IF stays THEN next.client ELSE Left(taken)
          /\ commands' = q(stays)
    BY <1>9
  <2>2. Proper(more(stays))
    BY <1>7, ProperNone
  <2> DEFINE r == more(stays)
  <2>3. Proper(r)
    BY <2>2
  <2>4. commands' = commands \o acknowledgement \o r
    BY <2>1
  <2> HIDE DEF taken, next, acknowledgement, r, more, q
  <2> DEFINE a == commands \o acknowledgement
  <2>5. Proper(commands) /\ Len(commands) \in Nat
    BY Parts
  <2>6. Proper(a) /\ Len(a) = Len(commands) + 1
    <3>1. Proper(a) /\ Len(a) = Len(commands) + Len(acknowledgement)
      BY <1>5, <2>5, ProperBoth
    <3> HIDE DEF a
    <3> QED
      BY <1>5, <3>1
  <2> HIDE DEF a
  <2> DEFINE b == a \o r
  <2>7. Proper(b) /\ Len(b) = Len(a) + Len(r) /\ Len(r) \in Nat
    BY <2>3, <2>6, ProperBoth
  <2> HIDE DEF b
  <2>8. Len(commands) <= Len(b) /\ Len(commands) + 1 <= Len(b)
    BY <2>5, <2>6, <2>7
  <2>9. commands' = b
    BY <2>4 DEF a, b
  <2> QED
    BY <1>6, <1>7, <2>1, <2>7, <2>8, <2>9, Zenon
<1>10. \/ Adding(taken, acknowledgement) /\ UNCHANGED toServer
       \/ \E stays \in BOOLEAN :
             /\ toServer' = IF HasRoom(toServer)
                            THEN Append(toServer, Packet(client, Len(commands) + 1)) ELSE toServer
             /\ c' = IF stays THEN next.client ELSE Left(taken)
             /\ commands' = q(stays)
  BY DEF TakeBlock, written
<1> QED
  BY <1>8, <1>9, <1>10, Zenon

LEMMA ClientTypes ==
  ASSUME TypeOK, ClientReceives
  PROVE  TypeOK'
<1> DEFINE m == Head(toClient)
           client == [c EXCEPT !.messageNum = m.number, !.reliableAcknowledge = m.commands]
<1>1. /\ ClientOK(c) /\ Proper(commands) /\ Len(commands) \in Nat /\ s \in Server
      /\ s.lastClientCommand \in Nat /\ s.lastClientCommand <= Len(commands) /\ losses \in 0..MaxLosses
      /\ toServer \in Seq(PacketType) /\ toClient \in Seq(MessageType)
      /\ DOMAIN toServer = 1..Len(toServer) /\ Len(toServer) \in Nat /\ Len(toServer) <= Capacity
      /\ \A i \in DOMAIN toServer : toServer[i].commands <= Len(commands)
  BY Parts DEF PacketsOK
<1>2. toClient # <<>> /\ toClient' = Tail(toClient) /\ s' = s /\ losses' = losses
  BY DEF ClientReceives
<1>3. toClient' \in Seq(MessageType) /\ m \in MessageType
  BY <1>1, <1>2, TailPart
<1>4. /\ m.number \in Nat /\ m.commands \in Nat
      /\ m.kind = "gamestate" => m.serverId \in Levels
      /\ m.kind = "download" => m.data \in Block \cup {Unread}
      /\ m.kind \in {"gamestate", "download", "refusal", "snapshot"}
  BY <1>3 DEF MessageType
<1>5. (CASE m.kind = "gamestate" -> CL_ParseGamestate(client, m)
        [] m.kind = "download" -> CL_ParseDownload(client, m)
        [] m.kind = "refusal" ->
             IF client.downloadName = NoFile THEN Garbled(client, <<StopDl>>)
             ELSE c' = Left(client) /\ UNCHANGED <<commands, toServer>>
        [] m.kind = "snapshot" -> c' = client /\ UNCHANGED <<commands, toServer>>)
  BY DEF ClientReceives
<1> HIDE DEF m
<1>6. ClientOK(client) /\ ClientOK(Left(client))
  BY <1>1, <1>4, Constants DEF ClientOK, Client, Left, AnyFile, NoFile
<1> HIDE DEF client
<1>7. Proper(<<StopDl>>) /\ Proper(<<>>)
  BY CommandTypes, ProperOne, ProperNone
<1> DEFINE Grows == ClientOK(c') /\ Proper(commands') /\ Len(commands) <= Len(commands')
           Says == \/ UNCHANGED toServer
                   \/ \E x \in Client : HasRoom(toServer) /\ toServer' = Append(toServer, Packet(x, Len(commands) + 1))
                        /\ Len(commands) + 1 <= Len(commands')
<1>8. ASSUME m.kind = "gamestate" PROVE Grows /\ Says
  <2>1. CL_ParseGamestate(client, m)
    BY <1>5, <1>8
  <2>2. Grows /\ UNCHANGED toServer
    BY <1>4, <1>6, <1>8, <2>1, GamestateTypes
  <2> QED
    BY <2>2
<1>9. ASSUME m.kind = "refusal" PROVE Grows /\ Says
  <2>1. CASE Garbled(client, <<StopDl>>)
    <3>1. Grows /\ UNCHANGED toServer
      BY <1>6, <1>7, <2>1, GarbledTypes
    <3> QED
      BY <3>1
  <2>2. CASE c' = Left(client) /\ UNCHANGED <<commands, toServer>>
    BY <1>1, <1>6, <2>2
  <2> QED
    BY <1>5, <1>9, <2>1, <2>2
<1>10. ASSUME m.kind = "snapshot" PROVE Grows /\ Says
  BY <1>1, <1>5, <1>6, <1>10
<1>11. ASSUME m.kind = "download" PROVE Grows /\ Says
  <2>1. CL_ParseDownload(client, m)
    BY <1>5, <1>11
  <2>2. CASE Garbled(client, <<StopDl>>) \/ Garbled(client, <<>>)
    <3>1. Grows /\ UNCHANGED toServer
      BY <1>6, <1>7, <2>2, GarbledTypes
    <3> QED
      BY <3>1
  <2>3. CASE client.downloadName # NoFile /\ TakeBlock(client, m)
    <3>1. /\ ClientOK(c') /\ Proper(commands') /\ Len(commands) <= Len(commands')
          /\ \/ UNCHANGED toServer
             \/ HasRoom(toServer) /\ toServer' = Append(toServer, Packet(client, Len(commands) + 1))
                /\ Len(commands) + 1 <= Len(commands')
      BY <1>4, <1>6, <1>11, <2>3, BlockTypes
    <3>2. client \in Client
      BY <1>6 DEF ClientOK
    <3> QED
      BY <3>1, <3>2
  <2>4. CASE c' = client /\ UNCHANGED <<commands, toServer>>
    BY <1>1, <1>6, <2>4
  <2> QED
    BY <2>1, <2>2, <2>3, <2>4 DEF CL_ParseDownload
<1>12. Grows /\ Says
  BY <1>4, <1>8, <1>9, <1>10, <1>11
<1>13. Len(commands') \in Nat
  BY <1>12, LenProperties DEF Proper
<1>14. PacketsOK(toServer', Len(commands')) /\ Len(toServer') <= Capacity
  <2>1. CASE UNCHANGED toServer
    <3>1. \A n \in Nat : n <= Len(commands) => n <= Len(commands')
      BY <1>1, <1>12, <1>13
    <3>2. \A i \in DOMAIN toServer : toServer[i].commands \in Nat
      <4>1. \A i \in DOMAIN toServer : toServer[i] \in PacketType
        BY <1>1, ElementOfSeq
      <4> QED
        BY <4>1 DEF PacketType
    <3>3. \A i \in DOMAIN toServer : toServer[i].commands <= Len(commands')
      BY <1>1, <3>1, <3>2
    <3> QED
      BY <1>1, <2>1, <3>3 DEF PacketsOK
  <2>2. CASE \E x \in Client : HasRoom(toServer) /\ toServer' = Append(toServer, Packet(x, Len(commands) + 1))
               /\ Len(commands) + 1 <= Len(commands')
    <3>1. PICK x \in Client : HasRoom(toServer) /\ toServer' = Append(toServer, Packet(x, Len(commands) + 1))
               /\ Len(commands) + 1 <= Len(commands')
      BY <2>2
    <3> DEFINE p == Packet(x, Len(commands) + 1)
               r == Append(toServer, p)
    <3>2. p \in PacketType /\ p.commands = Len(commands) + 1
      BY <1>1 DEF Packet, PacketType, Client
    <3> HIDE DEF p
    <3>3. /\ r \in Seq(PacketType) /\ Len(r) = Len(toServer) + 1
          /\ \A i \in 1..Len(toServer) : r[i] = toServer[i]
          /\ r[Len(toServer) + 1] = p
      BY <1>1, <3>2, AppendProperties
    <3>4. toServer' = r
      BY <3>1 DEF p
    <3> HIDE DEF r
    <3>5. DOMAIN r = 1..Len(r) /\ Len(r) <= Capacity
      BY <1>1, <3>1, <3>3, LenProperties, Constants DEF HasRoom
    <3>6. ASSUME NEW i \in DOMAIN r PROVE r[i].commands <= Len(commands')
      <4>1. CASE i = Len(toServer) + 1
        BY <3>1, <3>2, <3>3, <4>1
      <4>2. CASE i \in 1..Len(toServer)
        <5>1. r[i] = toServer[i] /\ toServer[i].commands <= Len(commands) /\ toServer[i] \in PacketType
          BY <1>1, <3>3, <4>2, ElementOfSeq
        <5>2. toServer[i].commands \in Nat
          BY <5>1 DEF PacketType
        <5> QED
          BY <1>1, <1>12, <1>13, <5>1, <5>2
      <4> QED
        BY <1>1, <3>3, <3>5, <4>1, <4>2
    <3> QED
      BY <3>3, <3>4, <3>5, <3>6 DEF PacketsOK
  <2> QED
    BY <1>12, <2>1, <2>2
<1>15. s'.lastClientCommand <= Len(commands')
  BY <1>1, <1>2, <1>12, <1>13
<1> QED
  BY <1>1, <1>2, <1>3, <1>12, <1>14, <1>15 DEF TypeOK, ClientOK, Proper, PacketsOK

LEMMA NextTypes ==
  ASSUME TypeOK, [Next]_vars
  PROVE  TypeOK'
<1>1. CASE UNCHANGED vars
  BY <1>1 DEF TypeOK, vars
<1> QED
  BY <1>1, LoseTypes, ReceivesTypes, SpawnTypes, SnapshotTypes, RefuseTypes, WriteTypes,
     WritePacketTypes, ClientTypes DEF Next

\* The types are right, for every choice of paks and levels: no command of the
\* client and no packet of it is known before it is given, the list of what is
\* missing is of the level's paks, and no window slot holds anything but a block.
THEOREM DownloadsTypeCorrect == Spec => []TypeOK
<1>1. Init => TypeOK
  BY InitTypes
<1>2. TypeOK /\ [Next]_vars => TypeOK'
  BY NextTypes
<1> QED
  BY <1>1, <1>2, PTL DEF Spec

-----------------------------------------------------------------------------
(* The inductive invariant.  It holds while the client has not taken one    *)
(* file's block for another's.  Its parts are about a server, a client, the *)
(* commands q, and a message or packet in flight.                           *)

NoShort == \A f \in File : W <= Blocks[f]
Alive(client) == client.state # "CA_DISCONNECTED"

\* The file that the client was downloading when it had given n commands, and
\* how many of its blocks it had acknowledged.
Asked(q, n) == IF n = 0 THEN NoFile ELSE q[n].file
Acked(q, n) == IF n # 0 /\ q[n].what = "nextdl" THEN q[n].which + 1 ELSE 0

\* What the client says when: it acknowledges the blocks of a file in turn, and
\* asks anew only for a file of which it has taken none.
CommandFits(q, n) ==
  LET before == Asked(q, n - 1)
      file == q[n].file
      which == q[n].which
  IN /\ q[n].what = "download" =>
          which \in File /\ file = which /\ (before # NoFile => Acked(q, n - 1) = 0)
     /\ q[n].what = "nextdl" =>
          /\ before # NoFile /\ which = Acked(q, n - 1) /\ which <= Blocks[before]
          /\ file = IF which = Blocks[before] THEN NoFile ELSE before
     /\ q[n].what = "stopdl" => before = NoFile /\ file = NoFile
     /\ q[n].what = "donedl" =>
          /\ file = before
          /\ IF before = NoFile THEN n > 1 /\ q[n - 1].what = "nextdl" ELSE Acked(q, n - 1) = 0

\* A download is cut short by a level that needs none.
CutFits(q, n, client) ==
  q[n].what = "donedl" /\ Asked(q, n - 1) # NoFile =>
    client.serverId >= 2 /\ (client.serverId = 2 => Needed(2) \subseteq client.saved)

CommandsFit(q, client) == \A n \in 1..Len(q) : CommandFits(q, n) /\ CutFits(q, n, client)

\* The client goes on with its file; it asks twice for one only when the level
\* changed twice.
Again(q, n, level) == q[n].what = "nextdl" \/ (q[n].what = "download" /\ level > 2)
Holds(q, a, level) ==
  \A j \in a..Len(q) : Asked(q, j) = Asked(q, a) /\ (j > a => Again(q, j, level))

\* The file asked for at a is the client's still, or is complete.
Since(q, a, client, level) ==
  \/ Asked(q, a) \in client.saved \cup {NoFile}
  \/ Asked(q, a) = client.downloadName /\ Holds(q, a, level)

\* Whoever has said "donedl" after a asks for nothing more.
Calm(q, a) ==
  \A j \in a + 1..Len(q) : q[j].what = "donedl" => \A i \in j..Len(q) : Asked(q, i) = NoFile

\* Neither does the server send a file, nor was its last command a "nextdl": it
\* reads no packet of another level.
Idle(server, q) ==
  /\ server.downloadName = NoFile
  /\ ~(server.lastClientCommand # 0 /\ q[server.lastClientCommand].what = "nextdl")

\* A file is complete when its empty block is acknowledged.
Completed(q, k) ==
  \E e \in k + 1..Len(q) :
    q[e].what = "nextdl" /\ Asked(q, e - 1) = Asked(q, k) /\ Asked(q, e) = NoFile

\* The list, and the file that is not in it any more.
ListFits(client) ==
  LET f == client.downloadName
      l == client.serverId
      list == client.downloadList
  IN /\ l = 0 => f = NoFile /\ list = {} /\ ~client.downloadRestart
     /\ l # 0 =>
          /\ list \subseteq Needed(l) /\ Needed(l) \subseteq client.saved \cup list \cup {f}
          /\ client.downloadRestart \/ list # {} => f \in Needed(l)
          /\ f \in Needed(l) => FirstOf(list \cup {f}, l) = f
     /\ list \cap (client.saved \cup {f}) = {}

FileFits(client) ==
  LET f == client.downloadName
      taken == client.downloadBlock
  IN IF f # NoFile /\ taken > 0
     THEN client.download = f /\ client.written = [i \in 1..taken |-> [file |-> f, index |-> i - 1]]
     ELSE client.download = NoFile

Working(client, q) ==
  /\ client.downloadName = Asked(q, Len(q))
  /\ client.downloadName # NoFile =>
       client.downloadBlock = Acked(q, Len(q)) /\ client.downloadName \notin client.saved
  /\ FileFits(client) /\ ListFits(client)
  /\ \A k \in 1..Len(q) : Asked(q, k) \in client.saved => Completed(q, k)

ClientFits(client, server, q) ==
  /\ client.serverId <= server.serverId
  /\ client.reliableAcknowledge <= server.lastClientCommand
  /\ client.messageNum <= 2 * Len(server.gamestates) + 1
  /\ IF Alive(client) THEN Working(client, q) ELSE client.download = NoFile

\* The window is of the file that is sent, and no further than the client can
\* have acknowledged.
WindowFits(server) ==
  LET f == server.downloadName
  IN /\ server.clientBlock <= server.currentBlock
     /\ server.currentBlock <= server.clientBlock + W
     /\ server.currentBlock <= Blocks[f] + 1
     /\ \A k \in 0..server.currentBlock - 1 :
          /\ server.blocks[k % W].file = f
          /\ k >= server.clientBlock => server.blocks[k % W].index = k

Kept(server, q) ==
  WindowFits(server) /\ server.clientBlock <= Acked(q, server.lastClientCommand)

\* The server has sent block i of the file.
Sent(server, i, q) ==
  /\ server.downloadName # NoFile /\ i < server.currentBlock /\ Kept(server, q)
  /\ server.download = NoFile =>
       server.clientBlock = Acked(q, server.lastClientCommand) /\ server.currentBlock <= W

\* What the server sends again are the last blocks.
Late(server) ==
  LET f == server.downloadName
  IN server.download # NoFile /\ server.currentBlock = Blocks[f] + 1 /\ server.xmitBlock > Blocks[f] - W

\* The acknowledgement k, which the server has not seen.
PendingFits(server, k, q) ==
  LET n == server.lastClientCommand
  IN /\ \A j \in n..k - 1 : Asked(q, j) = Asked(q, n)
     /\ \A j \in n + 1..k : Again(q, j, server.serverId)
     /\ Asked(q, n) \notin Refused /\ Sent(server, q[k].which, q)
     /\ server.serverId <= 2 => server.download # NoFile

OpenFits(server, q) ==
  LET f == server.downloadName
  IN server.download # NoFile =>
       /\ server.download = f /\ f \notin Refused /\ Kept(server, q)
       /\ server.currentBlock >= W \/ server.currentBlock = Blocks[f] + 1
       /\ server.xmitBlock <= server.currentBlock

ServerFits(server, q) ==
  LET n == server.lastClientCommand
      f == server.downloadName
  IN /\ f = Asked(q, n) \/ (f = NoFile /\ Asked(q, n) \in Refused)
     /\ OpenFits(server, q)
     /\ \A k \in n + 1..Len(q) : q[k].what = "nextdl" => PendingFits(server, k, q)
     /\ server.serverId <= 2 /\ f # NoFile =>
          IF server.download = NoFile THEN Acked(q, n) = 0 ELSE server.clientBlock = Acked(q, n)

\* A complete file is sent from its last blocks on.
LateFits(server, client) ==
  Alive(client) /\ NoShort /\ server.downloadName \in client.saved => Late(server)

KnownFits(server, client, q) ==
  LET n == server.lastClientCommand
  IN /\ server.downloadName # NoFile => Since(q, n, client, server.serverId)
     /\ ~Idle(server, q) => Calm(q, n)

ServerGood(server, client, q) ==
  IF Dropped(server) THEN server.serverId > 2
  ELSE /\ ServerFits(server, q) /\ LateFits(server, client)
       /\ Alive(client) => KnownFits(server, client, q)

\* A block of the client's own file.
OwnFits(m, server, client, q) ==
  /\ m.data.index = m.block \/ m.block < client.downloadBlock
  /\ ~Dropped(server) =>
       /\ Sent(server, m.block, q)
       /\ server.serverId <= 2 => server.download # NoFile
       /\ NoShort /\ m.block = Blocks[m.data.file] => Late(server)

BlockFits(m, server, client, q) ==
  LET f == m.data.file
  IN /\ f = Asked(q, m.commands) /\ f \in File /\ f \notin Refused
     /\ m.block <= Blocks[f] /\ m.block < Acked(q, m.commands) + W
     /\ Alive(client) =>
          /\ Since(q, m.commands, client, server.serverId)
          /\ NoShort /\ f \in client.saved => m.block > Blocks[f] - W
          /\ f = client.downloadName => OwnFits(m, server, client, q)
          /\ client.downloadName # NoFile /\ client.downloadBlock > 0 => f = client.downloadName

\* A gamestate comes when the client acknowledges no more blocks, and changes
\* the level when the server reads no more packets of the old one.
GamestateFits(m, server, client, q) ==
  /\ client.serverId <= m.serverId /\ m.serverId <= server.serverId
  /\ client.messageNum < m.number /\ m.number <= 2 * Len(server.gamestates)
  /\ Alive(client) =>
       /\ \A k \in m.commands + 1..Len(q) : q[k].what # "nextdl"
       /\ client.downloadName # NoFile => client.downloadBlock = 0
       /\ m.serverId > client.serverId /\ ~Dropped(server) => Idle(server, q)
       /\ \/ Asked(q, m.commands) \in Refused \cup {NoFile}
          \/ m.commands < Len(q) /\ q[m.commands + 1].what = "donedl"
       /\ m.serverId = client.serverId /\ client.downloadName \in Needed(client.serverId) =>
            server.serverId > 2

MessageFits(m, server, client, q) ==
  /\ client.messageNum <= m.number /\ m.number <= 2 * Len(server.gamestates) + 1
  /\ client.reliableAcknowledge <= m.commands /\ m.commands <= server.lastClientCommand
  /\ m.kind = "download" => BlockFits(m, server, client, q)
  /\ m.kind = "gamestate" => GamestateFits(m, server, client, q)

InOrder(m, later, client) ==
  /\ m.commands <= later.commands /\ m.number <= later.number
  /\ later.kind = "gamestate" => m.number < later.number
  /\ Alive(client) =>
       /\ m.kind = "gamestate" /\ m.serverId > client.serverId => later.kind = "snapshot"
       /\ m.kind = "download" /\ later.kind = "download" =>
            /\ m.data.file = client.downloadName => later.data.file = client.downloadName
            /\ NoShort /\ m.data.file = later.data.file /\ m.block = Blocks[m.data.file] =>
                 later.block > m.block - W

MessagesFit(messages, server, client, q) ==
  /\ \A i \in 1..Len(messages) : MessageFits(messages[i], server, client, q)
  /\ \A i, j \in 1..Len(messages) : i < j => InOrder(messages[i], messages[j], client)

\* A packet of an older level has nothing to say.
PacketFits(p, server, client, q) ==
  /\ p.serverId <= client.serverId /\ p.messageAcknowledge <= client.messageNum
  /\ Alive(client) =>
       IF p.serverId = client.serverId
       THEN Since(q, p.commands, client, server.serverId) /\ Calm(q, p.commands)
       ELSE ~Dropped(server) =>
              Idle(server, q) /\ p.messageAcknowledge <= 2 * Len(server.gamestates)

PacketsFit(packets, server, client, q) ==
  /\ \A i \in 1..Len(packets) : PacketFits(packets[i], server, client, q)
  /\ \A i, j \in 1..Len(packets) : i < j => packets[i].serverId <= packets[j].serverId

Good ==
  /\ CommandsFit(commands, c) /\ ClientFits(c, s, commands) /\ ServerGood(s, c, commands)
  /\ MessagesFit(toClient, s, c, commands) /\ PacketsFit(toServer, s, c, commands)

Inv ==
  /\ TypeOK /\ RoomForCommands
  /\ IF c.mixed = {} THEN Good ELSE ~NoShort

-----------------------------------------------------------------------------
(* The commands of the client. *)

LEMMA QueueTypes ==
  ASSUME NEW q, Proper(q)
  PROVE  /\ Len(q) \in Nat
         /\ \A n \in 1..Len(q) :
              /\ q[n].which \in Nat /\ q[n].file \in AnyFile
              /\ q[n].what \in {"download", "nextdl", "stopdl", "donedl"}
         /\ \A n \in 0..Len(q) : Asked(q, n) \in AnyFile /\ Acked(q, n) \in Nat
<1>1. Len(q) \in Nat /\ q \in Seq(Command)
  BY LenProperties DEF Proper
<1>2. \A n \in 1..Len(q) : q[n] \in Command
  BY <1>1, ElementOfSeq
<1>3. \A n \in 1..Len(q) :
        /\ q[n].which \in Nat /\ q[n].file \in AnyFile
        /\ q[n].what \in {"download", "nextdl", "stopdl", "donedl"}
  BY <1>2 DEF Command
<1>4. ASSUME NEW n \in 0..Len(q) PROVE Asked(q, n) \in AnyFile /\ Acked(q, n) \in Nat
  <2>1. CASE n = 0
    BY <2>1 DEF Asked, Acked, AnyFile
  <2>2. CASE n # 0
    <3>1. n \in 1..Len(q)
      BY <1>1, <2>2
    <3>2. q[n].file \in AnyFile /\ q[n].which \in Nat /\ q[n].which + 1 \in Nat
      BY <1>3, <3>1
    <3>3. Asked(q, n) = q[n].file
      BY <2>2 DEF Asked
    <3>4. Acked(q, n) = q[n].which + 1 \/ Acked(q, n) = 0
      BY DEF Acked
    <3> QED
      BY <3>2, <3>3, <3>4
  <2> QED
    BY <2>1, <2>2
<1> QED
  BY <1>1, <1>3, <1>4

\* A sequence of commands to which some were added.
Longer(q, r) ==
  Proper(q) /\ Proper(r) /\ Len(q) <= Len(r) /\ \A n \in 1..Len(q) : r[n] = q[n]

LEMMA LongerSame ==
  ASSUME NEW q, NEW r, Longer(q, r)
  PROVE  /\ \A n \in 0..Len(q) : Asked(r, n) = Asked(q, n) /\ Acked(r, n) = Acked(q, n)
         /\ \A n \in 1..Len(q) : r[n] = q[n]
         /\ Len(q) \in Nat /\ Len(r) \in Nat /\ Len(q) <= Len(r)
<1>1. Len(q) \in Nat /\ Len(r) \in Nat /\ Len(q) <= Len(r)
  BY QueueTypes DEF Longer
<1>2. \A n \in 1..Len(q) : r[n] = q[n]
  BY DEF Longer
<1>3. ASSUME NEW n \in 0..Len(q) PROVE Asked(r, n) = Asked(q, n) /\ Acked(r, n) = Acked(q, n)
  <2>1. CASE n = 0
    BY <2>1 DEF Asked, Acked
  <2>2. CASE n # 0
    <3>1. r[n] = q[n]
      BY <1>1, <1>2, <2>2
    <3> QED
      BY <3>1 DEF Asked, Acked
  <2> QED
    BY <2>1, <2>2
<1> QED
  BY <1>1, <1>2, <1>3

LEMMA LongerFits ==
  ASSUME NEW q, NEW r, Longer(q, r), NEW n \in 1..Len(q), CommandFits(q, n)
  PROVE  CommandFits(r, n)
<1>1. /\ r[n] = q[n] /\ Asked(r, n - 1) = Asked(q, n - 1) /\ Acked(r, n - 1) = Acked(q, n - 1)
      /\ n > 1 => r[n - 1] = q[n - 1]
  <2>1. n - 1 \in 0..Len(q) /\ (n > 1 => n - 1 \in 1..Len(q))
    BY QueueTypes DEF Longer
  <2> QED
    BY <2>1, LongerSame
<1> QED
  BY <1>1 DEF CommandFits

LEMMA LevelHolds ==
  ASSUME NEW q, NEW a, NEW level \in Nat, NEW higher \in Nat, level <= higher
  PROVE  /\ Holds(q, a, level) => Holds(q, a, higher)
         /\ \A client : Since(q, a, client, level) => Since(q, a, client, higher)
<1>1. \A j : Again(q, j, level) => Again(q, j, higher)
  BY DEF Again
<1> QED
  BY <1>1 DEF Holds, Since

LEMMA HoldsFrom ==
  ASSUME NEW q, Proper(q), NEW a \in Nat, NEW b \in a..Len(q), NEW level, Holds(q, a, level)
  PROVE  Holds(q, b, level) /\ Asked(q, b) = Asked(q, a) /\ Asked(q, Len(q)) = Asked(q, a)
<1>1. Len(q) \in Nat
  BY QueueTypes
<1>2. b \in a..Len(q) /\ Len(q) \in a..Len(q) /\ \A j \in b..Len(q) : j \in a..Len(q) /\ (j > b => j > a)
  BY <1>1
<1> QED
  BY <1>2 DEF Holds

\* While the client goes on with a file it acknowledges more and more of it.
LEMMA AckedGrows ==
  ASSUME NEW q, Proper(q), \A n \in 1..Len(q) : CommandFits(q, n), NEW a \in Nat, a <= Len(q),
         NEW level, Holds(q, a, level), Asked(q, a) # NoFile, NEW i \in a..Len(q), NEW k \in i..Len(q)
  PROVE  Acked(q, i) <= Acked(q, k)
<1>1. Len(q) \in Nat /\ \A n \in 0..Len(q) : Acked(q, n) \in Nat
  BY QueueTypes
<1>2. ASSUME NEW n \in i..Len(q), n + 1 <= Len(q) PROVE Acked(q, n) <= Acked(q, n + 1)
  <2>1. /\ n \in a..Len(q) /\ n + 1 \in a..Len(q) /\ n + 1 > a /\ (n + 1) - 1 = n
        /\ n + 1 \in 1..Len(q) /\ n + 1 # 0 /\ n \in 0..Len(q)
    BY <1>1, <1>2
  <2>2. Asked(q, n) # NoFile /\ Again(q, n + 1, level)
    BY <2>1 DEF Holds
  <2>3. CommandFits(q, n + 1)
    BY <2>1
  <2>4. CASE q[n + 1].what = "nextdl"
    <3>1. q[n + 1].which = Acked(q, n) /\ Acked(q, n + 1) = q[n + 1].which + 1
      BY <2>1, <2>3, <2>4 DEF CommandFits, Acked
    <3> QED
      BY <1>1, <2>1, <3>1
  <2>5. CASE q[n + 1].what = "download"
    <3>1. Acked(q, n) = 0 /\ Acked(q, n + 1) = 0
      BY <2>1, <2>2, <2>3, <2>5 DEF CommandFits, Acked
    <3> QED
      BY <3>1
  <2> QED
    BY <2>2, <2>4, <2>5 DEF Again
<1> DEFINE S == {d \in Nat : i + d <= Len(q) => Acked(q, i) <= Acked(q, i + d)}
<1>3. 0 \in S
  <2>1. Acked(q, i) \in Nat /\ i + 0 = i
    BY <1>1
  <2> QED
    BY <2>1
<1>4. ASSUME NEW d \in Nat, d \in S PROVE d + 1 \in S
  <2> SUFFICES ASSUME i + (d + 1) <= Len(q) PROVE Acked(q, i) <= Acked(q, i + (d + 1))
    OBVIOUS
  <2>1. i + d \in i..Len(q) /\ (i + d) + 1 <= Len(q) /\ i + (d + 1) = (i + d) + 1
        /\ i \in 0..Len(q) /\ i + d \in 0..Len(q) /\ (i + d) + 1 \in 0..Len(q)
    BY <1>1
  <2>2. Acked(q, i) <= Acked(q, i + d)
    BY <1>1, <1>4, <2>1
  <2>3. Acked(q, i + d) <= Acked(q, (i + d) + 1)
    BY <1>2, <2>1
  <2>4. Acked(q, i) \in Nat /\ Acked(q, i + d) \in Nat /\ Acked(q, (i + d) + 1) \in Nat
    BY <1>1, <2>1
  <2> QED
    BY <2>1, <2>2, <2>3, <2>4
<1>5. k - i \in S
  <2> HIDE DEF S
  <2>1. k - i \in Nat
    BY <1>1
  <2> QED
    BY <1>3, <1>4, <2>1, SetInduction
<1>6. i + (k - i) = k /\ k <= Len(q)
  BY <1>1
<1> QED
  BY <1>5, <1>6

-----------------------------------------------------------------------------
(* The window. *)

\* What does not change when blocks are read.
SameDownload(server, t) ==
  /\ t \in Server /\ t.serverId = server.serverId /\ t.state = server.state
  /\ t.gamestates = server.gamestates /\ t.lastClientCommand = server.lastClientCommand
  /\ t.downloadName = server.downloadName

LEMMA FilledWindow ==
  ASSUME NEW server \in Server, server.downloadName \in File, WindowFits(server), NEW t, t = Filled(server)
  PROVE  /\ SameDownload(server, t) /\ WindowFits(t)
         /\ t.download = server.download /\ t.clientBlock = server.clientBlock
         /\ t.xmitBlock = server.xmitBlock /\ server.currentBlock <= t.currentBlock
         /\ t.currentBlock >= W \/ t.currentBlock = Blocks[t.downloadName] + 1
<1> DEFINE f == server.downloadName
           b == server.clientBlock
           cur == server.currentBlock
           upTo == Min({b + MAX_DOWNLOAD_WINDOW, Blocks[f] + 1})
           read(i) == {k \in cur..upTo - 1 : k % MAX_DOWNLOAD_WINDOW = i}
           new == [i \in Slots |-> IF read(i) = {} THEN server.blocks[i]
                                   ELSE [file |-> f, index |-> Max(read(i))]]
<1>1. /\ b \in Nat /\ cur \in Nat /\ W \in Nat /\ W > 0 /\ Blocks[f] \in Nat
      /\ server.blocks \in [Slots -> Block \cup {Unread}]
  BY Constants DEF Server
<1>2. /\ b <= cur /\ cur <= b + W /\ cur <= Blocks[f] + 1
      /\ \A k \in 0..cur - 1 :
           server.blocks[k % W].file = f /\ (k >= b => server.blocks[k % W].index = k)
  BY DEF WindowFits
<1>3. upTo \in {b + W, Blocks[f] + 1} /\ upTo <= b + W /\ upTo <= Blocks[f] + 1
  <2> DEFINE T == {b + W, Blocks[f] + 1}
  <2>1. T \in SUBSET Nat /\ T # {}
    BY <1>1
  <2> HIDE DEF T
  <2>2. Min(T) \in T /\ \A k \in T : Min(T) <= k
    BY <2>1, MinOf
  <2>3. b + W \in T /\ Blocks[f] + 1 \in T
    BY DEF T
  <2> QED
    BY <2>2, <2>3 DEF T, W
<1>4. t = [server EXCEPT !.currentBlock = upTo, !.blocks = new]
  BY DEF Filled, ReadFrom, upTo
<1> HIDE DEF upTo
<1>5. upTo \in Nat /\ cur <= upTo /\ (upTo >= W \/ upTo = Blocks[f] + 1)
  BY <1>1, <1>2, <1>3
<1>6. ASSUME NEW k \in 0..upTo - 1
      PROVE  new[k % W].file = f /\ (k >= b => new[k % W].index = k)
  <2> DEFINE i == k % W
  <2>1. i \in Slots /\ k \in Nat
    <3>1. k \in Nat
      BY <1>5
    <3> QED
      BY <3>1, SlotOf
  <2>2. CASE read(i) = {}
    <3>1. new[i] = server.blocks[i]
      BY <2>1, <2>2
    <3>2. k \notin cur..upTo - 1
      BY <2>2 DEF W
    <3>3. k \in 0..cur - 1
      BY <1>1, <1>5, <3>2
    <3> HIDE DEF new
    <3> QED
      BY <1>2, <3>1, <3>3
  <2>3. CASE read(i) # {}
    <3> DEFINE m == Max(read(i))
    <3>1. new[i] = [file |-> f, index |-> m]
      BY <2>1, <2>3
    <3>2. m \in read(i)
      <4>1. read(i) \in SUBSET Nat /\ \A x \in read(i) : x <= upTo
        BY <1>1, <1>5
      <4> HIDE DEF read
      <4> QED
        BY <1>5, <2>3, <4>1, MaxOf
    <3>3. m \in cur..upTo - 1 /\ m % W = k % W
      BY <3>2 DEF W
    <3> HIDE DEF m, new, read
    <3>4. ASSUME k >= b PROVE m = k
      <4>1. k \in Int /\ m \in Int /\ k < b + W /\ m < b + W /\ m >= b
        BY <1>1, <1>2, <1>3, <1>5, <3>3
      <4>2. CASE k < m
        BY <1>1, <3>3, <3>4, <4>1, <4>2, SlotsDiffer
      <4>3. CASE m < k
        BY <1>1, <3>3, <3>4, <4>1, <4>3, SlotsDiffer
      <4> QED
        BY <4>1, <4>2, <4>3
    <3> QED
      BY <3>1, <3>4
  <2> QED
    BY <2>2, <2>3
<1>7. SameDownload(server, t)
  <2>1. t \in Server
    BY <1>1, ReadFromType DEF Filled
  <2> HIDE DEF new
  <2> QED
    BY <1>4, <2>1 DEF SameDownload, Server
<1> HIDE DEF new
<1>8. /\ t.currentBlock = upTo /\ t.blocks = new /\ t.clientBlock = b /\ t.downloadName = f
      /\ t.download = server.download /\ t.xmitBlock = server.xmitBlock
  BY <1>4 DEF Server
<1>9. WindowFits(t)
  <2>1. /\ t.clientBlock <= t.currentBlock /\ t.currentBlock <= t.clientBlock + W
        /\ t.currentBlock <= Blocks[t.downloadName] + 1
    BY <1>1, <1>2, <1>3, <1>5, <1>8
  <2>2. \A k \in 0..upTo - 1 : new[k % W].file = f /\ (k >= b => new[k % W].index = k)
    BY <1>6
  <2>3. \A k \in 0..t.currentBlock - 1 :
          t.blocks[k % W].file = t.downloadName /\ (k >= t.clientBlock => t.blocks[k % W].index = k)
    BY <1>8, <2>2
  <2> QED
    BY <2>1, <2>3 DEF WindowFits
<1> QED
  BY <1>5, <1>7, <1>8, <1>9

\* The server when it is ready to send a block.
LEMMA ReadyWindow ==
  ASSUME NEW server \in Server, server.downloadName \in File,
         server.download # NoFile => server.download = server.downloadName /\ WindowFits(server),
         server.download # NoFile => server.xmitBlock <= server.currentBlock,
         NEW t, t = Resent(Filled(Opened(server)))
  PROVE  /\ SameDownload(server, t) /\ WindowFits(t)
         /\ t.download = server.downloadName
         /\ t.clientBlock = IF server.download = NoFile THEN 0 ELSE server.clientBlock
         /\ server.download # NoFile => server.currentBlock <= t.currentBlock
         /\ t.currentBlock >= W \/ t.currentBlock = Blocks[t.downloadName] + 1
         /\ t.xmitBlock <= t.currentBlock
         /\ server.download # NoFile => t.xmitBlock = server.xmitBlock \/ t.xmitBlock = t.clientBlock
<1> DEFINE opened == Opened(server)
           filled == Filled(opened)
<1>1. /\ SameDownload(server, opened) /\ WindowFits(opened) /\ opened.download = server.downloadName
      /\ opened.clientBlock = IF server.download = NoFile THEN 0 ELSE server.clientBlock
      /\ server.download # NoFile => opened = server
      /\ opened.xmitBlock <= opened.currentBlock
  <2>1. CASE server.download = NoFile
    <3> DEFINE x == [server EXCEPT !.download = server.downloadName, !.currentBlock = 0,
                                   !.clientBlock = 0, !.xmitBlock = 0]
    <3>1. opened = x
      BY <2>1 DEF Opened
    <3>2. x \in Server
      BY DEF Server
    <3>3. /\ x.serverId = server.serverId /\ x.state = server.state
          /\ x.gamestates = server.gamestates /\ x.lastClientCommand = server.lastClientCommand
          /\ x.downloadName = server.downloadName /\ x.download = server.downloadName
          /\ x.currentBlock = 0 /\ x.clientBlock = 0 /\ x.xmitBlock = 0
      BY DEF Server
    <3> HIDE DEF x
    <3>4. SameDownload(server, x)
      BY <3>2, <3>3 DEF SameDownload
    <3>5. WindowFits(x)
      <4>1. \A k \in 0..0 - 1 : FALSE
        OBVIOUS
      <4>2. Blocks[x.downloadName] \in Nat /\ W \in Nat /\ W > 0
        BY <3>3, Constants
      <4> QED
        BY <3>3, <4>1, <4>2 DEF WindowFits
    <3> QED
      BY <2>1, <3>1, <3>3, <3>4, <3>5
  <2>2. CASE server.download # NoFile
    <3>1. opened = server
      BY <2>2 DEF Opened
    <3> HIDE DEF opened
    <3> QED
      BY <2>2, <3>1 DEF SameDownload
  <2> QED
    BY <2>1, <2>2
<1>2. opened \in Server /\ opened.downloadName \in File
  BY <1>1 DEF SameDownload
<1> HIDE DEF opened
<1>3. /\ SameDownload(opened, filled) /\ WindowFits(filled)
      /\ filled.download = opened.download /\ filled.clientBlock = opened.clientBlock
      /\ filled.xmitBlock = opened.xmitBlock /\ opened.currentBlock <= filled.currentBlock
      /\ filled.currentBlock >= W \/ filled.currentBlock = Blocks[filled.downloadName] + 1
  BY <1>1, <1>2, FilledWindow
<1> HIDE DEF filled
<1>4. /\ SameDownload(filled, t) /\ WindowFits(t) /\ t.download = filled.download
      /\ t.clientBlock = filled.clientBlock /\ t.currentBlock = filled.currentBlock
      /\ t.xmitBlock = filled.xmitBlock \/ t.xmitBlock = filled.clientBlock
  <2>1. filled \in Server
    BY <1>3 DEF SameDownload
  <2>2. t = [filled EXCEPT !.xmitBlock = filled.clientBlock] \/ t = filled
    BY DEF Resent, filled, opened
  <2>3. CASE t = filled
    BY <1>3, <2>1, <2>3 DEF SameDownload
  <2>4. CASE t = [filled EXCEPT !.xmitBlock = filled.clientBlock]
    <3>1. t \in Server
      BY <2>1, <2>4 DEF Server
    <3>2. /\ t.serverId = filled.serverId /\ t.state = filled.state
          /\ t.gamestates = filled.gamestates /\ t.lastClientCommand = filled.lastClientCommand
          /\ t.downloadName = filled.downloadName /\ t.download = filled.download
          /\ t.currentBlock = filled.currentBlock /\ t.clientBlock = filled.clientBlock
          /\ t.xmitBlock = filled.clientBlock /\ t.blocks = filled.blocks
      BY <2>1, <2>4 DEF Server
    <3> HIDE <2>4
    <3> QED
      BY <1>3, <3>1, <3>2 DEF SameDownload, WindowFits
  <2> QED
    BY <2>2, <2>3, <2>4
<1>5. SameDownload(server, t)
  BY <1>1, <1>3, <1>4 DEF SameDownload
<1>6. /\ filled.clientBlock <= filled.currentBlock
      /\ filled.xmitBlock \in Nat /\ filled.clientBlock \in Nat /\ filled.currentBlock \in Nat
      /\ opened.currentBlock \in Nat /\ opened.xmitBlock \in Nat
  BY <1>1, <1>3 DEF WindowFits, SameDownload, Server
<1>7. t.xmitBlock <= t.currentBlock
  BY <1>1, <1>3, <1>4, <1>6
<1>8. t.downloadName = filled.downloadName
  BY <1>4 DEF SameDownload
<1> QED
  BY <1>1, <1>3, <1>4, <1>5, <1>7, <1>8

-----------------------------------------------------------------------------
(* What a command does to the server. *)

SameWindow(server, t) ==
  /\ t.currentBlock = server.currentBlock /\ t.xmitBlock = server.xmitBlock
  /\ t.blocks = server.blocks

SameFile(server, t) == t.downloadName = server.downloadName /\ t.download = server.download
NoDownload(t) == t.downloadName = NoFile /\ t.download = NoFile

Downloading(server, t, file) ==
  /\ t.downloadName = file /\ t.download = NoFile /\ t.clientBlock = server.clientBlock
  /\ t.gamestates = server.gamestates /\ ~Dropped(t)
Acknowledging(server, t, block) ==
  /\ t.gamestates = server.gamestates
  /\ \/ block # server.clientBlock /\ Dropped(t)
     \/ /\ block = server.clientBlock /\ ~Dropped(t)
        /\ IF IsEmpty(server.blocks[server.clientBlock % W]) THEN NoDownload(t)
           ELSE SameFile(server, t) /\ t.clientBlock = server.clientBlock + 1
Stopping(server, t) ==
  NoDownload(t) /\ t.gamestates = server.gamestates /\ ~Dropped(t)
Ending(server, t) ==
  /\ SameFile(server, t) /\ t.clientBlock = server.clientBlock /\ ~Dropped(t)
  /\ t.gamestates = Append(server.gamestates, server.lastClientCommand)

LEMMA Executed ==
  ASSUME NEW server \in Server, Proper(commands), NEW n \in 1..Len(commands), ~Dropped(server),
         n > server.lastClientCommand, NEW t, t = SV_ClientCommand(server, n)
  PROVE  /\ t \in Server /\ t.serverId = server.serverId /\ t.lastClientCommand = n
         /\ SameWindow(server, t)
         /\ commands[n].what = "download" => Downloading(server, t, commands[n].which)
         /\ commands[n].what = "nextdl" => Acknowledging(server, t, commands[n].which)
         /\ commands[n].what = "stopdl" => Stopping(server, t)
         /\ commands[n].what = "donedl" => Ending(server, t)
<1> DEFINE x == SV_ExecuteClientCommand(server, n)
           what == commands[n].what
           which == commands[n].which
           closed == SV_CloseDownload(server)
<1>1. /\ n \in Nat /\ n \in DOMAIN commands /\ commands[n] \in Command
      /\ commands[n].what = "download" => commands[n].which \in File
      /\ commands[n].what \in {"download", "nextdl", "stopdl", "donedl"}
      /\ server.lastClientCommand \in Nat /\ ~(n <= server.lastClientCommand)
  <2>1. commands \in Seq(Command) /\ DOMAIN commands = 1..Len(commands) /\ Len(commands) \in Nat
    BY LenProperties DEF Proper
  <2>2. commands[n] \in Command
    BY <2>1, ElementOfSeq
  <2>3. commands[n].what \in {"download", "nextdl", "stopdl", "donedl"}
    BY <2>2 DEF Command
  <2>4. server.lastClientCommand \in Nat
    BY DEF Server
  <2> QED
    BY <2>1, <2>2, <2>3, <2>4 DEF Proper
<1>2. t = [x EXCEPT !.lastClientCommand = n]
  BY <1>1 DEF SV_ClientCommand
<1>3. t \in Server
  BY <1>1, ExecuteType
<1>4. /\ closed \in Server /\ NoDownload(closed) /\ SameWindow(server, closed)
      /\ closed.serverId = server.serverId /\ closed.gamestates = server.gamestates
      /\ closed.clientBlock = server.clientBlock /\ closed.state = server.state
  BY CloseType DEF SV_CloseDownload, Server, SameWindow, NoDownload
<1> HIDE DEF closed
<1>5. ASSUME NEW y \in Server, x = y
      PROVE  /\ t.lastClientCommand = n /\ t.serverId = y.serverId /\ SameWindow(y, t) /\ SameFile(y, t)
             /\ t.clientBlock = y.clientBlock /\ t.gamestates = y.gamestates /\ t.state = y.state
  <2>1. t = [y EXCEPT !.lastClientCommand = n]
    BY <1>2, <1>5
  <2> QED
    BY <2>1 DEF Server, SameWindow, SameFile
<1>6. CASE what = "download"
  <2> DEFINE y == [closed EXCEPT !.downloadName = which]
  <2>1. x = y
    BY <1>6 DEF SV_ExecuteClientCommand, SV_BeginDownload_f, closed
  <2>2. /\ y \in Server /\ y.serverId = server.serverId /\ SameWindow(server, y)
        /\ y.downloadName = which /\ y.download = NoFile /\ y.clientBlock = server.clientBlock
        /\ y.gamestates = server.gamestates /\ y.state = server.state
    BY <1>1, <1>4, <1>6 DEF Server, SameWindow, AnyFile, NoDownload
  <2> HIDE DEF y, x
  <2> QED
    BY <1>3, <1>5, <1>6, <2>1, <2>2 DEF Downloading, SameWindow, SameFile, Dropped
<1>7. CASE what = "stopdl"
  <2>1. x = closed
    BY <1>7 DEF SV_ExecuteClientCommand, closed
  <2> HIDE DEF x
  <2> QED
    BY <1>3, <1>4, <1>5, <1>7, <2>1 DEF Stopping, SameWindow, SameFile, NoDownload, Dropped
<1>8. CASE what = "donedl"
  <2> DEFINE q == Append(server.gamestates, server.lastClientCommand)
             y == [server EXCEPT !.gamestates = q]
  <2>1. x = y
    BY <1>8 DEF SV_ExecuteClientCommand, SV_SendClientGameState
  <2>2. q \in Seq(Nat)
    BY <1>1, AppendProperties DEF Server
  <2> HIDE DEF q
  <2>3. /\ y \in Server /\ y.serverId = server.serverId /\ SameWindow(server, y) /\ SameFile(server, y)
        /\ y.clientBlock = server.clientBlock /\ y.gamestates = q /\ y.state = server.state
    BY <2>2 DEF Server, SameWindow, SameFile
  <2> HIDE DEF y, x
  <2> QED
    BY <1>3, <1>5, <1>8, <2>1, <2>3 DEF Ending, SameWindow, SameFile, Dropped, q
<1>9. CASE what = "nextdl"
  <2>1. x = SV_NextDownload_f(server, which)
    BY <1>9 DEF SV_ExecuteClientCommand
  <2>2. CASE which # server.clientBlock
    <3> DEFINE y == [closed EXCEPT !.state = "CS_ZOMBIE"]
    <3>1. x = y
      BY <2>1, <2>2 DEF SV_NextDownload_f, closed
    <3>2. /\ y \in Server /\ y.serverId = server.serverId /\ SameWindow(server, y)
          /\ y.gamestates = server.gamestates /\ y.state = "CS_ZOMBIE"
      BY <1>4 DEF Server, SameWindow
    <3> HIDE DEF y, x
    <3> QED
      BY <1>3, <1>5, <1>9, <2>2, <3>1, <3>2 DEF Acknowledging, SameWindow, Dropped
  <2>3. CASE which = server.clientBlock /\ IsEmpty(server.blocks[server.clientBlock % W])
    <3>1. x = closed
      BY <2>1, <2>3, Zenon DEF SV_NextDownload_f, closed, W
    <3> HIDE DEF x
    <3> QED
      BY <1>3, <1>4, <1>5, <1>9, <2>3, <3>1 DEF Acknowledging, SameWindow, SameFile, NoDownload, Dropped
  <2>4. CASE which = server.clientBlock /\ ~IsEmpty(server.blocks[server.clientBlock % W])
    <3> DEFINE y == [server EXCEPT !.clientBlock = @ + 1]
    <3>1. x = y
      BY <2>1, <2>4, Zenon DEF SV_NextDownload_f, W
    <3>2. /\ y \in Server /\ y.serverId = server.serverId /\ SameWindow(server, y) /\ SameFile(server, y)
          /\ y.gamestates = server.gamestates /\ y.state = server.state
          /\ y.clientBlock = server.clientBlock + 1
      BY DEF Server, SameWindow, SameFile
    <3> HIDE DEF y, x
    <3> QED
      BY <1>3, <1>5, <1>9, <2>4, <3>1, <3>2 DEF Acknowledging, SameWindow, SameFile, Dropped
  <2> QED
    BY <2>2, <2>3, <2>4
<1> QED
  BY <1>1, <1>6, <1>7, <1>8, <1>9

LEMMA ServerTypes ==
  ASSUME NEW server \in Server
  PROVE  /\ server.serverId \in Nat /\ server.lastClientCommand \in Nat
         /\ server.currentBlock \in Nat /\ server.clientBlock \in Nat /\ server.xmitBlock \in Nat
         /\ server.downloadName \in AnyFile /\ server.download \in AnyFile
         /\ server.downloadName # NoFile => server.downloadName \in File
BY Constants DEF Server, AnyFile

LEMMA WindowStays ==
  ASSUME NEW server \in Server, NEW t \in Server, SameWindow(server, t),
         t.downloadName = server.downloadName, server.clientBlock <= t.clientBlock,
         t.clientBlock <= server.currentBlock, WindowFits(server)
  PROVE  WindowFits(t)
<1>1. /\ server.clientBlock \in Nat /\ server.currentBlock \in Nat /\ t.clientBlock \in Nat
      /\ t.currentBlock = server.currentBlock /\ W \in Nat /\ t.blocks = server.blocks
  BY Constants, ServerTypes DEF SameWindow
<1>2. /\ server.currentBlock <= server.clientBlock + W
      /\ server.currentBlock <= Blocks[server.downloadName] + 1
      /\ \A k \in 0..server.currentBlock - 1 :
           /\ server.blocks[k % W].file = server.downloadName
           /\ k >= server.clientBlock => server.blocks[k % W].index = k
  BY DEF WindowFits
<1>3. ASSUME NEW k \in 0..server.currentBlock - 1
      PROVE  /\ t.blocks[k % W].file = t.downloadName
             /\ k >= t.clientBlock => t.blocks[k % W].index = k
  <2>1. k >= t.clientBlock => k >= server.clientBlock
    BY <1>1
  <2>2. /\ server.blocks[k % W].file = server.downloadName
        /\ k >= server.clientBlock => server.blocks[k % W].index = k
    BY <1>2
  <2> QED
    BY <1>1, <2>1, <2>2
<1>4. t.clientBlock <= t.currentBlock /\ t.currentBlock <= t.clientBlock + W
      /\ t.currentBlock <= Blocks[t.downloadName] + 1
  BY <1>1, <1>2
<1> QED
  BY <1>1, <1>3, <1>4 DEF WindowFits

\* The server with the next command of the client.
Steps(server, t) ==
  /\ server \in Server /\ ~Dropped(server)
  /\ server.lastClientCommand + 1 \in 1..Len(commands)
  /\ t = SV_ClientCommand(server, server.lastClientCommand + 1)

AllFit == Proper(commands) /\ \A n \in 1..Len(commands) : CommandFits(commands, n)

LEMMA StepTypes ==
  ASSUME AllFit, NEW server, NEW t, Steps(server, t)
  PROVE  LET n == server.lastClientCommand
             x == commands[n + 1]
         IN /\ n \in Nat /\ n + 1 \in Nat /\ Len(commands) \in Nat /\ n \in 0..Len(commands)
            /\ n + 1 \in 0..Len(commands) /\ n + 1 \in 1..Len(commands)
            /\ CommandFits(commands, n + 1) /\ Asked(commands, n + 1) = x.file
            /\ Acked(commands, n + 1) = (IF x.what = "nextdl" THEN x.which + 1 ELSE 0)
            /\ (n + 1) - 1 = n /\ x.which \in Nat
            /\ x.what \in {"download", "nextdl", "stopdl", "donedl"}
            /\ server \in Server /\ t \in Server /\ t.serverId = server.serverId
            /\ t.lastClientCommand = n + 1 /\ SameWindow(server, t)
            /\ x.what = "download" => Downloading(server, t, x.which)
            /\ x.what = "nextdl" => Acknowledging(server, t, x.which)
            /\ x.what = "stopdl" => Stopping(server, t)
            /\ x.what = "donedl" => Ending(server, t)
<1> DEFINE n == server.lastClientCommand
<1>1. server \in Server /\ n \in Nat /\ n + 1 \in 1..Len(commands) /\ Len(commands) \in Nat /\ Proper(commands)
  BY ServerTypes, QueueTypes DEF Steps, AllFit
<1>2. n + 1 > n /\ n + 1 # 0 /\ (n + 1) - 1 = n /\ n \in 0..Len(commands) /\ n + 1 \in 0..Len(commands)
  BY <1>1
<1>3. CommandFits(commands, n + 1)
  BY <1>1 DEF AllFit
<1>4. commands[n + 1].which \in Nat /\ commands[n + 1].what \in {"download", "nextdl", "stopdl", "donedl"}
  BY <1>1, QueueTypes
<1>5. /\ Asked(commands, n + 1) = commands[n + 1].file
      /\ Acked(commands, n + 1) = IF commands[n + 1].what = "nextdl" THEN commands[n + 1].which + 1 ELSE 0
  BY <1>2 DEF Asked, Acked
<1>6. t = SV_ClientCommand(server, n + 1) /\ ~Dropped(server)
  BY DEF Steps
<1>7. /\ t \in Server /\ t.serverId = server.serverId
      /\ t.lastClientCommand = n + 1 /\ SameWindow(server, t)
      /\ commands[n + 1].what = "download" => Downloading(server, t, commands[n + 1].which)
      /\ commands[n + 1].what = "nextdl" => Acknowledging(server, t, commands[n + 1].which)
      /\ commands[n + 1].what = "stopdl" => Stopping(server, t)
      /\ commands[n + 1].what = "donedl" => Ending(server, t)
  BY <1>1, <1>2, <1>6, Executed
<1> QED
  BY <1>1, <1>2, <1>3, <1>4, <1>5, <1>7

\* An acknowledgement that the server executes.
LEMMA NextDlFacts ==
  ASSUME AllFit, NEW server, NEW t, Steps(server, t), ServerFits(server, commands),
         commands[server.lastClientCommand + 1].what = "nextdl"
  PROVE  LET n == server.lastClientCommand
             i == commands[n + 1].which
             f == server.downloadName
         IN /\ f = Asked(commands, n) /\ f \in File /\ f \notin Refused /\ Sent(server, i, commands)
            /\ i = Acked(commands, n) /\ Acked(commands, n + 1) = i + 1
            /\ Asked(commands, n + 1) = IF i = Blocks[f] THEN NoFile ELSE f
            /\ server.clientBlock <= i
            /\ IsEmpty(server.blocks[i % W]) <=> i = Blocks[f]
            /\ server.serverId <= 2 => server.clientBlock = i /\ server.download # NoFile
<1> DEFINE n == server.lastClientCommand
           i == commands[n + 1].which
           f == server.downloadName
<1>1. /\ n \in Nat /\ n + 1 \in n + 1..Len(commands) /\ CommandFits(commands, n + 1) /\ server \in Server
      /\ (n + 1) - 1 = n /\ i \in Nat /\ Asked(commands, n + 1) = commands[n + 1].file
      /\ Acked(commands, n + 1) = i + 1 /\ n \in 0..Len(commands)
  BY StepTypes
<1>2. PendingFits(server, n + 1, commands)
  BY <1>1 DEF ServerFits
<1>3. Sent(server, i, commands) /\ Asked(commands, n) \notin Refused
      /\ (server.serverId <= 2 => server.download # NoFile)
  BY <1>2 DEF PendingFits
<1>4. f = Asked(commands, n) /\ f \in File
  BY <1>1, <1>3, ServerTypes DEF Sent, ServerFits
<1>5. /\ i = Acked(commands, n) /\ Asked(commands, n + 1) = IF i = Blocks[f] THEN NoFile ELSE f
  BY <1>1, <1>4 DEF CommandFits
<1>6. i < server.currentBlock /\ server.clientBlock <= i /\ WindowFits(server)
  BY <1>3, <1>5 DEF Sent, Kept
<1>7. i \in 0..server.currentBlock - 1 /\ i >= server.clientBlock
  BY <1>1, <1>6, ServerTypes
<1>8. server.blocks[i % W].file = f /\ server.blocks[i % W].index = i
  BY <1>6, <1>7 DEF WindowFits
<1>9. IsEmpty(server.blocks[i % W]) <=> i = Blocks[f]
  BY <1>4, <1>8, Constants DEF IsEmpty
<1>10. server.serverId <= 2 => server.clientBlock = i
  BY <1>3, <1>4, <1>5, Constants DEF ServerFits
<1> QED
  BY <1>1, <1>3, <1>4, <1>5, <1>6, <1>9, <1>10

\* What stays when the client goes on with the file.
Carries(server, t) ==
  /\ \A i \in Nat : Sent(server, i, commands) => Sent(t, i, commands)
  /\ server.serverId <= 2 /\ server.download # NoFile => t.download # NoFile
  /\ NoShort /\ Sent(server, Blocks[server.downloadName], commands) /\ Late(server) => Late(t)
  /\ t.downloadName = server.downloadName

GoesOn(n, level) ==
  Asked(commands, n + 1) = Asked(commands, n) /\ Again(commands, n + 1, level)

LEMMA StepCarries ==
  ASSUME AllFit, NEW server, NEW t, Steps(server, t), ServerFits(server, commands), ~Dropped(t),
         server.downloadName # NoFile, GoesOn(server.lastClientCommand, server.serverId)
  PROVE  Carries(server, t)
<1> DEFINE n == server.lastClientCommand
           x == commands[n + 1]
           f == server.downloadName
<1>1. /\ n \in Nat /\ n + 1 \in Nat /\ n \in 0..Len(commands) /\ n + 1 \in 0..Len(commands)
      /\ CommandFits(commands, n + 1) /\ Asked(commands, n + 1) = x.file
      /\ Acked(commands, n + 1) = (IF x.what = "nextdl" THEN x.which + 1 ELSE 0)
      /\ (n + 1) - 1 = n /\ x.which \in Nat
      /\ server \in Server /\ t \in Server /\ t.serverId = server.serverId
      /\ t.lastClientCommand = n + 1 /\ SameWindow(server, t)
      /\ x.what = "download" => Downloading(server, t, x.which)
      /\ x.what = "nextdl" => Acknowledging(server, t, x.which)
  BY StepTypes
<1>2. f = Asked(commands, n) /\ Asked(commands, n + 1) = Asked(commands, n) /\ f \in File
  BY <1>1, ServerTypes DEF ServerFits, GoesOn
<1>3. /\ server.clientBlock \in Nat /\ server.currentBlock \in Nat /\ t.clientBlock \in Nat
      /\ W \in Nat /\ Blocks[f] \in Nat /\ t.currentBlock = server.currentBlock
      /\ t.xmitBlock = server.xmitBlock
  BY <1>1, <1>2, ServerTypes, Constants DEF SameWindow
<1>4. CASE x.what = "download"
  <2>1. Downloading(server, t, x.which) /\ x.file = x.which /\ Acked(commands, n) = 0
        /\ Acked(commands, n + 1) = 0 /\ server.serverId > 2
    BY <1>1, <1>2, <1>4 DEF CommandFits, GoesOn, Again
  <2>2. t.downloadName = f /\ t.download = NoFile /\ t.clientBlock = server.clientBlock
    BY <1>1, <1>2, <2>1 DEF Downloading
  <2>3. ASSUME NEW i \in Nat, Sent(server, i, commands)
        PROVE  Sent(t, i, commands) /\ server.currentBlock <= W /\ i < server.currentBlock
    <3>1. server.clientBlock = 0 /\ WindowFits(server) /\ i < server.currentBlock
      BY <1>3, <2>1, <2>3 DEF Sent, Kept
    <3>2. server.currentBlock <= W /\ 0 <= server.currentBlock
      BY <1>3, <3>1 DEF WindowFits
    <3>3. WindowFits(t)
      BY <1>1, <1>3, <2>2, <3>1, <3>2, WindowStays
    <3> QED
      BY <1>1, <1>2, <1>3, <2>1, <2>2, <3>1, <3>2, <3>3 DEF Sent, Kept
  <2>4. ~(NoShort /\ Sent(server, Blocks[f], commands))
    <3> SUFFICES ASSUME NoShort, Sent(server, Blocks[f], commands) PROVE FALSE
      OBVIOUS
    <3>1. server.currentBlock <= W /\ Blocks[f] < server.currentBlock /\ W <= Blocks[f]
      BY <1>2, <1>3, <2>3 DEF NoShort
    <3> QED
      BY <1>3, <3>1
  <2>5. ~(server.serverId <= 2)
    BY <1>1, <2>1, ServerTypes
  <2> QED
    BY <2>2, <2>3, <2>4, <2>5 DEF Carries
<1>5. CASE x.what = "nextdl"
  <2> DEFINE w == x.which
  <2>1. /\ w = Acked(commands, n) /\ Acked(commands, n + 1) = w + 1 /\ server.clientBlock <= w
        /\ Asked(commands, n + 1) = (IF w = Blocks[f] THEN NoFile ELSE f)
        /\ IsEmpty(server.blocks[w % W]) <=> w = Blocks[f]
        /\ Sent(server, w, commands)
    BY <1>5, NextDlFacts
  <2>2. w # Blocks[f]
    BY <1>2, <2>1
  <2>3. /\ w = server.clientBlock /\ SameFile(server, t) /\ t.clientBlock = w + 1
    BY <1>1, <1>5, <2>1, <2>2 DEF Acknowledging
  <2>4. WindowFits(server) /\ w < server.currentBlock
    BY <2>1 DEF Sent, Kept
  <2>5. w \in Nat /\ server.clientBlock <= t.clientBlock /\ t.clientBlock <= server.currentBlock
    BY <1>1, <1>3, <2>3, <2>4
  <2>6. t.downloadName = f /\ t.download = server.download
    BY <2>3 DEF SameFile
  <2>7. WindowFits(t)
    BY <1>1, <2>4, <2>5, <2>6, WindowStays
  <2>8. ASSUME NEW i \in Nat, Sent(server, i, commands) PROVE Sent(t, i, commands)
    <3>1. /\ i < server.currentBlock
          /\ server.download = NoFile => server.currentBlock <= W
      BY <2>8 DEF Sent
    <3>2. t.clientBlock <= Acked(commands, n + 1) /\ t.clientBlock = Acked(commands, n + 1)
      BY <2>1, <2>3, <2>5
    <3> QED
      BY <1>1, <1>2, <1>3, <2>6, <2>7, <3>1, <3>2 DEF Sent, Kept
  <2>9. Late(server) => Late(t)
    BY <1>3, <2>6 DEF Late
  <2> QED
    BY <2>6, <2>8, <2>9 DEF Carries
<1> QED
  BY <1>4, <1>5 DEF GoesOn, Again

\* A pending acknowledgement says that the client goes on.
LEMMA PendingGoesOn ==
  ASSUME AllFit, NEW server, NEW t, Steps(server, t), NEW k \in server.lastClientCommand + 2..Len(commands),
         PendingFits(server, k, commands)
  PROVE  /\ GoesOn(server.lastClientCommand, server.serverId)
         /\ server.downloadName # NoFile
         /\ Carries(server, t) => PendingFits(t, k, commands)
<1> DEFINE n == server.lastClientCommand
<1>1. /\ n \in Nat /\ n + 1 \in Nat /\ Len(commands) \in Nat /\ server \in Server
      /\ t.serverId = server.serverId /\ t.lastClientCommand = n + 1 /\ k \in n + 2..Len(commands)
  BY StepTypes
<1>2. /\ \A j \in n..k - 1 : Asked(commands, j) = Asked(commands, n)
      /\ \A j \in n + 1..k : Again(commands, j, server.serverId)
      /\ Asked(commands, n) \notin Refused /\ Sent(server, commands[k].which, commands)
      /\ server.serverId <= 2 => server.download # NoFile
  BY DEF PendingFits
<1>3. n + 1 \in n..k - 1 /\ n + 1 \in n + 1..k /\ k \in 1..Len(commands)
  BY <1>1
<1>4. Asked(commands, n + 1) = Asked(commands, n) /\ Again(commands, n + 1, server.serverId)
  BY <1>2, <1>3
<1>5. ASSUME Carries(server, t) PROVE PendingFits(t, k, commands)
  <2>1. \A j \in n + 1..k - 1 : j \in n..k - 1
    BY <1>1
  <2>2. \A j \in (n + 1) + 1..k : j \in n + 1..k
    BY <1>1
  <2>3. commands[k].which \in Nat
    BY <1>3, QueueTypes DEF AllFit
  <2>4. Sent(t, commands[k].which, commands)
    BY <1>2, <1>5, <2>3 DEF Carries
  <2> QED
    BY <1>1, <1>2, <1>4, <1>5, <2>1, <2>2, <2>4 DEF PendingFits, Carries
<1> QED
  BY <1>2, <1>4, <1>5 DEF GoesOn, Sent

LEMMA StepFits ==
  ASSUME AllFit, NEW server, NEW t, Steps(server, t), ServerFits(server, commands)
  PROVE  IF Dropped(t) THEN t.serverId > 2 ELSE ServerFits(t, commands)
<1> DEFINE n == server.lastClientCommand
           x == commands[n + 1]
           f == server.downloadName
           before == Asked(commands, n)
           after == Asked(commands, n + 1)
<1>1. /\ n \in Nat /\ n + 1 \in Nat /\ n \in 0..Len(commands) /\ n + 1 \in 0..Len(commands)
      /\ CommandFits(commands, n + 1) /\ after = x.file
      /\ Acked(commands, n + 1) = (IF x.what = "nextdl" THEN x.which + 1 ELSE 0)
      /\ (n + 1) - 1 = n /\ x.which \in Nat /\ Len(commands) \in Nat
      /\ x.what \in {"download", "nextdl", "stopdl", "donedl"}
      /\ server \in Server /\ t \in Server /\ t.serverId = server.serverId
      /\ t.lastClientCommand = n + 1 /\ SameWindow(server, t)
      /\ x.what = "download" => Downloading(server, t, x.which)
      /\ x.what = "nextdl" => Acknowledging(server, t, x.which)
      /\ x.what = "stopdl" => Stopping(server, t)
      /\ x.what = "donedl" => Ending(server, t)
  BY StepTypes
<1>2. /\ server.clientBlock \in Nat /\ server.currentBlock \in Nat /\ t.clientBlock \in Nat
      /\ server.serverId \in Nat /\ t.currentBlock = server.currentBlock
      /\ t.xmitBlock = server.xmitBlock
  BY <1>1, ServerTypes DEF SameWindow
<1>3. /\ f = before \/ (f = NoFile /\ before \in Refused)
      /\ OpenFits(server, commands)
      /\ server.serverId <= 2 /\ f # NoFile =>
           IF server.download = NoFile THEN Acked(commands, n) = 0
           ELSE server.clientBlock = Acked(commands, n)
  BY DEF ServerFits
<1>4. ASSUME ~Dropped(t), NEW k \in t.lastClientCommand + 1..Len(commands), commands[k].what = "nextdl"
      PROVE  PendingFits(t, k, commands)
  <2>1. k \in n + 1..Len(commands) /\ k \in n + 2..Len(commands)
    BY <1>1
  <2>2. PendingFits(server, k, commands)
    BY <1>4, <2>1 DEF ServerFits
  <2> QED
    BY <1>4, <2>1, <2>2, PendingGoesOn, StepCarries
<1>5. CASE x.what = "download"
  <2>1. /\ t.downloadName = after /\ t.download = NoFile /\ ~Dropped(t)
        /\ Acked(commands, n + 1) = 0
    BY <1>1, <1>5 DEF Downloading, CommandFits
  <2> QED
    BY <1>1, <1>4, <2>1 DEF ServerFits, OpenFits
<1>6. CASE x.what = "stopdl"
  <2>1. t.downloadName = after /\ t.download = NoFile /\ ~Dropped(t) /\ after = NoFile
    BY <1>1, <1>6 DEF Stopping, CommandFits, NoDownload
  <2> QED
    BY <1>1, <1>4, <2>1 DEF ServerFits, OpenFits
<1>7. CASE x.what = "donedl"
  <2>1. /\ t.downloadName = f /\ t.download = server.download /\ t.clientBlock = server.clientBlock
        /\ ~Dropped(t) /\ after = before /\ Acked(commands, n + 1) = 0
    BY <1>1, <1>7 DEF Ending, CommandFits, SameFile
  <2>2. before # NoFile => Acked(commands, n) = 0
    BY <1>1, <1>7 DEF CommandFits
  <2>3. OpenFits(t, commands)
    <3> SUFFICES ASSUME t.download # NoFile PROVE OpenFits(t, commands)
      BY DEF OpenFits
    <3>1. /\ server.download = f /\ f \notin Refused /\ Kept(server, commands)
          /\ server.currentBlock >= W \/ server.currentBlock = Blocks[f] + 1
          /\ server.xmitBlock <= server.currentBlock
      BY <1>3, <2>1 DEF OpenFits
    <3>2. WindowFits(server) /\ server.clientBlock <= Acked(commands, n) /\ Acked(commands, n) = 0
          /\ server.clientBlock <= server.currentBlock
      BY <1>3, <2>1, <2>2, <3>1 DEF Kept, WindowFits
    <3>3. WindowFits(t)
      BY <1>1, <1>2, <2>1, <3>2, WindowStays
    <3>4. Kept(t, commands)
      BY <1>1, <1>2, <2>1, <3>2, <3>3 DEF Kept
    <3> QED
      BY <1>2, <2>1, <3>1, <3>4 DEF OpenFits
  <2>4. t.serverId <= 2 /\ t.downloadName # NoFile =>
          IF t.download = NoFile THEN Acked(commands, n + 1) = 0
          ELSE t.clientBlock = Acked(commands, n + 1)
    BY <1>1, <1>3, <2>1, <2>2
  <2>5. t.downloadName = after \/ (t.downloadName = NoFile /\ after \in Refused)
    BY <1>3, <2>1
  <2> QED
    BY <1>1, <1>4, <2>1, <2>3, <2>4, <2>5 DEF ServerFits
<1>8. CASE x.what = "nextdl"
  <2> DEFINE w == x.which
  <2>1. /\ f = before /\ f \in File /\ f \notin Refused /\ Sent(server, w, commands)
        /\ w = Acked(commands, n) /\ Acked(commands, n + 1) = w + 1
        /\ after = (IF w = Blocks[f] THEN NoFile ELSE f)
        /\ server.clientBlock <= w
        /\ IsEmpty(server.blocks[w % W]) <=> w = Blocks[f]
        /\ server.serverId <= 2 => server.clientBlock = w /\ server.download # NoFile
    BY <1>8, NextDlFacts
  <2>2. CASE w # server.clientBlock
    <3>1. Dropped(t)
      BY <1>1, <1>8, <2>2 DEF Acknowledging
    <3>2. ~(server.serverId <= 2)
      BY <2>1, <2>2
    <3> QED
      BY <1>1, <1>2, <3>1, <3>2
  <2>3. CASE w = server.clientBlock /\ w = Blocks[f]
    <3>1. t.downloadName = after /\ t.download = NoFile /\ ~Dropped(t) /\ after = NoFile
      BY <1>1, <1>8, <2>1, <2>3 DEF Acknowledging, NoDownload
    <3> QED
      BY <1>1, <1>4, <3>1 DEF ServerFits, OpenFits
  <2>4. CASE w = server.clientBlock /\ w # Blocks[f]
    <3>1. /\ t.downloadName = f /\ t.download = server.download /\ t.clientBlock = w + 1
          /\ ~Dropped(t) /\ after = f
      BY <1>1, <1>8, <2>1, <2>4 DEF Acknowledging, SameFile
    <3>2. w < server.currentBlock /\ WindowFits(server)
      BY <2>1 DEF Sent, Kept
    <3>3. server.clientBlock <= t.clientBlock /\ t.clientBlock <= server.currentBlock
      BY <1>1, <1>2, <2>4, <3>1, <3>2
    <3>4. WindowFits(t)
      BY <1>1, <3>1, <3>2, <3>3, WindowStays
    <3>5. Kept(t, commands)
      BY <1>1, <1>2, <2>1, <3>1, <3>4 DEF Kept
    <3>6. OpenFits(t, commands)
      BY <1>2, <1>3, <3>1, <3>5 DEF OpenFits
    <3>7. t.serverId <= 2 => t.download # NoFile /\ t.clientBlock = Acked(commands, n + 1)
      BY <1>1, <2>1, <3>1
    <3> QED
      BY <1>1, <1>4, <2>1, <3>1, <3>6, <3>7 DEF ServerFits
  <2> QED
    BY <2>2, <2>3, <2>4
<1> QED
  BY <1>1, <1>5, <1>6, <1>7, <1>8

\* When the client has a file complete, the server sends its last blocks at most.
LEMMA StepLate ==
  ASSUME AllFit, NEW server, NEW t, Steps(server, t), ServerFits(server, commands), ~Dropped(t),
         NEW client, client.saved \subseteq File, LateFits(server, client),
         Alive(client) => \A k \in 1..Len(commands) : Asked(commands, k) \in client.saved => Completed(commands, k)
  PROVE  LateFits(t, client)
<1> SUFFICES ASSUME Alive(client), NoShort, t.downloadName \in client.saved PROVE Late(t)
  BY DEF LateFits
<1> DEFINE n == server.lastClientCommand
           x == commands[n + 1]
           f == t.downloadName
<1>1. /\ n \in Nat /\ n + 1 \in 1..Len(commands) /\ Len(commands) \in Nat
      /\ x.what \in {"download", "nextdl", "stopdl", "donedl"}
      /\ server \in Server /\ t \in Server /\ t.serverId = server.serverId
      /\ t.lastClientCommand = n + 1 /\ SameWindow(server, t)
      /\ x.what = "download" => Downloading(server, t, x.which)
      /\ x.what = "nextdl" => Acknowledging(server, t, x.which)
      /\ x.what = "stopdl" => Stopping(server, t)
      /\ x.what = "donedl" => Ending(server, t)
  BY StepTypes
<1>2. f \in File /\ f # NoFile /\ Blocks[f] \in Nat /\ W \in Nat /\ W <= Blocks[f]
  BY Constants DEF NoShort
<1>3. ServerFits(t, commands)
  BY StepFits
<1>4. Asked(commands, n + 1) = f
  BY <1>1, <1>2, <1>3 DEF ServerFits
<1>5. PICK e \in (n + 1) + 1..Len(commands) :
        /\ commands[e].what = "nextdl"
        /\ Asked(commands, e - 1) = Asked(commands, n + 1) /\ Asked(commands, e) = NoFile
  BY <1>1, <1>4 DEF Completed
<1>6. commands[e].which = Blocks[f]
  <2>1. e \in 1..Len(commands) /\ e # 0
    BY <1>1
  <2>2. CommandFits(commands, e) /\ commands[e].file = NoFile
    BY <1>5, <2>1 DEF AllFit, Asked
  <2> QED
    BY <1>2, <1>4, <1>5, <2>2 DEF CommandFits
<1>7. PendingFits(t, e, commands)
  BY <1>1, <1>3, <1>5 DEF ServerFits
<1>8. Sent(t, Blocks[f], commands)
  BY <1>6, <1>7 DEF PendingFits
<1>9. t.currentBlock = Blocks[f] + 1 /\ t.download # NoFile
  <2>1. Blocks[f] < t.currentBlock /\ t.currentBlock <= Blocks[f] + 1
    BY <1>8 DEF Sent, Kept, WindowFits
  <2>2. t.currentBlock \in Nat
    BY <1>1, ServerTypes
  <2>3. t.download = NoFile => t.currentBlock <= W
    BY <1>8 DEF Sent
  <2> QED
    BY <1>2, <2>1, <2>2, <2>3
<1>10. server.downloadName = f /\ t.xmitBlock = server.xmitBlock
  <2>1. x.what # "download" /\ x.what # "stopdl"
    BY <1>1, <1>2, <1>9 DEF Downloading, Stopping, NoDownload
  <2>2. SameFile(server, t)
    BY <1>1, <1>2, <2>1 DEF Acknowledging, Ending, NoDownload
  <2> QED
    BY <1>1, <2>2 DEF SameFile, SameWindow
<1>11. Late(server)
  BY <1>10 DEF LateFits
<1> QED
  BY <1>9, <1>10, <1>11 DEF Late

-----------------------------------------------------------------------------
(* The commands of a packet, one after another. *)

LEMMA CarriesOn ==
  ASSUME NEW a, a.downloadName \in File, NEW b, NEW t, Carries(a, b), Carries(b, t), b.serverId = a.serverId
  PROVE  Carries(a, t)
<1>1. Blocks[a.downloadName] \in Nat
  BY Constants
<1> QED
  BY <1>1 DEF Carries

\* Gamestate a answers the command that follows command a.
Answers(a, n) ==
  /\ a \in Nat /\ s.lastClientCommand <= a /\ a < n
  /\ commands[a + 1].what = "donedl"
  /\ \A k \in a + 1..Len(commands) : commands[k].what # "nextdl"

\* A server that has executed some commands more.
Follows(server) ==
  LET old == Len(s.gamestates)
      new == Len(server.gamestates)
  IN /\ server \in Server /\ server.serverId = s.serverId
     /\ s.lastClientCommand <= server.lastClientCommand
     /\ IF Dropped(server) THEN server.serverId > 2
        ELSE ServerFits(server, commands) /\ LateFits(server, c)
     /\ old <= new
     /\ \A i \in old + 1..new : Answers(server.gamestates[i], server.lastClientCommand)
     /\ \A i, j \in old + 1..new : i < j => server.gamestates[i] < server.gamestates[j]
     /\ (/\ ~Dropped(server) /\ s.downloadName # NoFile
         /\ \A n \in s.lastClientCommand..server.lastClientCommand - 1 : GoesOn(n, s.serverId))
        => Carries(s, server)

LEMMA FollowsAnswer ==
  ASSUME NEW server \in Server, NEW t \in Server, NEW n \in Nat, t.lastClientCommand = n + 1,
         server.lastClientCommand = n, s \in Server,
         t.gamestates = Append(server.gamestates, n), Answers(n, n + 1),
         Len(s.gamestates) <= Len(server.gamestates),
         \A i \in Len(s.gamestates) + 1..Len(server.gamestates) : Answers(server.gamestates[i], n),
         \A i, j \in Len(s.gamestates) + 1..Len(server.gamestates) :
           i < j => server.gamestates[i] < server.gamestates[j]
  PROVE  /\ Len(s.gamestates) <= Len(t.gamestates)
         /\ \A i \in Len(s.gamestates) + 1..Len(t.gamestates) : Answers(t.gamestates[i], n + 1)
         /\ \A i, j \in Len(s.gamestates) + 1..Len(t.gamestates) :
              i < j => t.gamestates[i] < t.gamestates[j]
<1> DEFINE old == Len(s.gamestates)
           len == Len(server.gamestates)
           g == server.gamestates
           h == t.gamestates
<1>1. g \in Seq(Nat) /\ s.gamestates \in Seq(Nat)
  BY DEF Server
<1>2. len \in Nat /\ old \in Nat /\ Len(h) = len + 1 /\ h[len + 1] = n /\ \A i \in 1..len : h[i] = g[i]
  BY <1>1, AppendProperties, LenProperties
<1>3. \A a : Answers(a, n) => Answers(a, n + 1) /\ a < n
  BY DEF Answers
<1> HIDE DEF g, h, len, old
<1>4. /\ old <= len /\ \A i \in old + 1..len : Answers(g[i], n)
      /\ \A i, j \in old + 1..len : i < j => g[i] < g[j]
  BY DEF g, len, old
<1>5. ASSUME NEW i \in old + 1..len + 1
      PROVE  \/ i \in old + 1..len /\ h[i] = g[i] /\ Answers(h[i], n)
             \/ i = len + 1 /\ h[i] = n
  <2>1. CASE i <= len
    <3>1. i \in old + 1..len /\ i \in 1..len
      BY <1>2, <2>1
    <3>2. h[i] = g[i] /\ Answers(g[i], n)
      BY <1>2, <1>4, <3>1
    <3> QED
      BY <3>1, <3>2
  <2>2. CASE ~(i <= len)
    <3>1. i = len + 1
      BY <1>2, <2>2
    <3> QED
      BY <1>2, <3>1
  <2> QED
    BY <2>1, <2>2
<1>6. \A i \in old + 1..len + 1 : Answers(h[i], n + 1)
  BY <1>3, <1>5
<1>7. ASSUME NEW i \in old + 1..len + 1, NEW j \in old + 1..len + 1, i < j PROVE h[i] < h[j]
  <2>1. i \in old + 1..len /\ h[i] = g[i] /\ Answers(h[i], n)
    <3>1. i # len + 1
      BY <1>2, <1>7
    <3> QED
      BY <1>5, <3>1
  <2>2. CASE j \in old + 1..len /\ h[j] = g[j]
    BY <1>4, <1>7, <2>1, <2>2
  <2>3. CASE j = len + 1 /\ h[j] = n
    BY <1>3, <2>1, <2>3
  <2> QED
    BY <1>5, <2>2, <2>3
<1>8. old <= Len(h)
  BY <1>2, <1>4
<1> QED
  BY <1>2, <1>6, <1>7, <1>8 DEF h, old

LEMMA FollowsStep ==
  ASSUME TypeOK, AllFit, NEW server, NEW t, Steps(server, t), Follows(server), c.saved \subseteq File,
         Alive(c) => \A k \in 1..Len(commands) : Asked(commands, k) \in c.saved => Completed(commands, k)
  PROVE  Follows(t) /\ t.lastClientCommand = server.lastClientCommand + 1
<1> DEFINE n == server.lastClientCommand
           x == commands[n + 1]
           old == Len(s.gamestates)
<1>1. /\ n \in Nat /\ n + 1 \in 1..Len(commands) /\ Len(commands) \in Nat
      /\ x.what \in {"download", "nextdl", "stopdl", "donedl"}
      /\ server \in Server /\ t \in Server /\ t.serverId = server.serverId
      /\ t.lastClientCommand = n + 1 /\ n + 1 \in Nat /\ n < n + 1
      /\ x.what = "download" => Downloading(server, t, x.which)
      /\ x.what = "nextdl" => Acknowledging(server, t, x.which)
      /\ x.what = "stopdl" => Stopping(server, t)
      /\ x.what = "donedl" => Ending(server, t)
  BY StepTypes
<1>2. /\ server.serverId = s.serverId /\ s.lastClientCommand <= n /\ s \in Server
      /\ s.lastClientCommand \in Nat /\ ~Dropped(server)
      /\ ServerFits(server, commands) /\ LateFits(server, c)
      /\ old <= Len(server.gamestates)
      /\ \A i \in old + 1..Len(server.gamestates) : Answers(server.gamestates[i], n)
      /\ \A i, j \in old + 1..Len(server.gamestates) : i < j => server.gamestates[i] < server.gamestates[j]
  BY Parts DEF Follows, Steps
<1>3. IF Dropped(t) THEN t.serverId > 2 ELSE ServerFits(t, commands) /\ LateFits(t, c)
  BY <1>2, StepFits, StepLate
<1>4. /\ old <= Len(t.gamestates)
      /\ \A i \in old + 1..Len(t.gamestates) : Answers(t.gamestates[i], n + 1)
      /\ \A i, j \in old + 1..Len(t.gamestates) : i < j => t.gamestates[i] < t.gamestates[j]
  <2>1. CASE x.what = "donedl"
    <3>1. t.gamestates = Append(server.gamestates, n)
      BY <1>1, <2>1 DEF Ending
    <3>2. ASSUME NEW k \in n + 1..Len(commands), commands[k].what = "nextdl" PROVE FALSE
      <4>1. k \in n + 2..Len(commands)
        <5>1. k # n + 1
          BY <2>1, <3>2
        <5> QED
          BY <1>1, <5>1
      <4>2. PendingFits(server, k, commands)
        BY <1>2, <3>2 DEF ServerFits
      <4>3. GoesOn(n, server.serverId)
        BY <4>1, <4>2, PendingGoesOn
      <4> QED
        BY <2>1, <4>3 DEF GoesOn, Again
    <3>3. Answers(n, n + 1)
      BY <1>1, <1>2, <2>1, <3>2 DEF Answers
    <3> QED
      BY <1>1, <1>2, <3>1, <3>3, FollowsAnswer
  <2>2. CASE x.what # "donedl"
    <3>1. t.gamestates = server.gamestates
      BY <1>1, <2>2 DEF Downloading, Acknowledging, Stopping
    <3>2. \A a : Answers(a, n) => Answers(a, n + 1)
      BY <1>1 DEF Answers
    <3> QED
      BY <1>2, <3>1, <3>2
  <2> QED
    BY <2>1, <2>2
<1>5. ASSUME ~Dropped(t), s.downloadName # NoFile,
             \A k \in s.lastClientCommand..t.lastClientCommand - 1 : GoesOn(k, s.serverId)
      PROVE  Carries(s, t)
  <2>1. \A k \in s.lastClientCommand..n - 1 : GoesOn(k, s.serverId)
    <3>1. \A k \in s.lastClientCommand..n - 1 : k \in s.lastClientCommand..t.lastClientCommand - 1
      BY <1>1, <1>2
    <3> QED
      BY <1>5, <3>1
  <2>2. GoesOn(n, s.serverId)
    <3>1. n \in s.lastClientCommand..t.lastClientCommand - 1
      BY <1>1, <1>2
    <3> QED
      BY <1>5, <3>1
  <2>3. Carries(s, server)
    BY <1>2, <1>5, <2>1 DEF Follows
  <2>4. server.downloadName # NoFile /\ s.downloadName \in File
    BY <1>2, <1>5, <2>3, ServerTypes DEF Carries
  <2>5. Carries(server, t)
    BY <1>2, <1>5, <2>2, <2>4, StepCarries
  <2> QED
    BY <1>2, <2>3, <2>4, <2>5, CarriesOn
<1>6. s.lastClientCommand <= n + 1
  BY <1>1, <1>2
<1> QED
  BY <1>1, <1>2, <1>3, <1>4, <1>5, <1>6 DEF Follows

LEMMA FollowsSelf ==
  ASSUME TypeOK, ~Dropped(s), ServerFits(s, commands), LateFits(s, c)
  PROVE  Follows(s)
<1>1. s \in Server /\ s.lastClientCommand \in Nat
  BY Parts
<1>2. Len(s.gamestates) \in Nat
  BY <1>1, LenProperties DEF Server
<1>3. \A i \in Len(s.gamestates) + 1..Len(s.gamestates) : FALSE
  BY <1>2
<1>4. Carries(s, s)
  BY DEF Carries
<1>5. s.lastClientCommand <= s.lastClientCommand /\ Len(s.gamestates) <= Len(s.gamestates)
  BY <1>1, <1>2
<1> QED
  BY <1>1, <1>3, <1>4, <1>5 DEF Follows

\* All the commands of a packet.
LEMMA Executes ==
  ASSUME TypeOK, AllFit, ~Dropped(s), ServerFits(s, commands), LateFits(s, c),
         Alive(c) => \A k \in 1..Len(commands) : Asked(commands, k) \in c.saved => Completed(commands, k),
         NEW packet \in PacketType, packet.commands <= Len(commands), Tolerated(s, packet),
         NEW t, t = SV_ExecuteClientMessage(s, packet)
  PROVE  /\ Follows(t)
         /\ \/ t = s /\ packet.commands <= s.lastClientCommand
            \/ /\ packet.commands > s.lastClientCommand
               /\ Dropped(t) \/ t.lastClientCommand = packet.commands
<1> DEFINE K == packet.commands
           old == s.lastClientCommand
<1>1. K \in Nat /\ Len(commands) \in Nat /\ old \in Nat /\ K <= Len(commands) /\ c.saved \subseteq File
  BY Parts DEF PacketType, ClientOK, Client
<1>2. PICK after :
        /\ after[0] = s
        /\ \A n \in 1..K : after[n] = SV_ClientCommand(after[n - 1], n)
        /\ t = after[K]
  BY <1>1, Runs
<1> DEFINE Done(k) ==
             /\ Follows(after[k])
             /\ \/ after[k] = s /\ k <= old
                \/ k > old /\ (Dropped(after[k]) \/ after[k].lastClientCommand = k)
           S == {k \in Nat : k <= K => Done(k)}
<1>3. 0 \in S
  <2>1. Follows(after[0]) /\ after[0] = s
    BY <1>2, FollowsSelf
  <2> QED
    BY <1>1, <2>1
<1>4. ASSUME NEW k \in Nat, k \in S PROVE k + 1 \in S
  <2> SUFFICES ASSUME k + 1 <= K PROVE Done(k + 1)
    OBVIOUS
  <2> DEFINE server == after[k]
             next == after[k + 1]
  <2>1. k <= K
    BY <1>1
  <2>2. Done(k)
    BY <1>4, <2>1
  <2>3. next = SV_ClientCommand(server, k + 1)
    <3>1. k + 1 \in 1..K /\ (k + 1) - 1 = k
      BY <1>1
    <3> QED
      BY <1>2, <3>1
  <2>4. CASE server = s /\ k + 1 <= old
    <3>1. next = s
      BY <2>3, <2>4 DEF SV_ClientCommand
    <3> HIDE DEF server, next
    <3> QED
      BY <2>2, <2>4, <3>1 DEF server, next
  <2>5. CASE Dropped(server) /\ k > old
    <3>1. next = server
      BY <2>3, <2>5 DEF SV_ClientCommand
    <3>2. k + 1 > old
      BY <1>1, <2>5
    <3> HIDE DEF server, next
    <3> QED
      BY <2>2, <2>5, <3>1, <3>2 DEF server, next
  <2>6. CASE ~Dropped(server) /\ server.lastClientCommand = k /\ k >= old
    <3>1. k + 1 \in 1..Len(commands) /\ k + 1 > old
      BY <1>1, <2>6
    <3>2. Steps(server, next)
      BY <2>2, <2>3, <2>6, <3>1 DEF Steps, Follows
    <3>3. Follows(next) /\ next.lastClientCommand = k + 1
      BY <1>1, <2>2, <2>6, <3>2, FollowsStep
    <3> QED
      BY <3>1, <3>3
  <2>7. \/ server = s /\ k + 1 <= old
        \/ Dropped(server) /\ k > old
        \/ ~Dropped(server) /\ server.lastClientCommand = k /\ k >= old
    <3>1. CASE server = s /\ k <= old
      <4>1. k + 1 <= old \/ k = old
        BY <1>1, <3>1
      <4>2. k = old => k >= old
        BY <1>1
      <4> HIDE DEF server
      <4> QED
        BY <3>1, <4>1, <4>2
    <3>2. CASE k > old /\ (Dropped(server) \/ server.lastClientCommand = k)
      <4>1. k >= old
        BY <1>1, <3>2
      <4> HIDE DEF server
      <4> QED
        BY <3>2, <4>1
    <3> QED
      BY <2>2, <3>1, <3>2
  <2> QED
    BY <2>4, <2>5, <2>6, <2>7
<1>5. K \in S
  <2> HIDE DEF S
  <2> QED
    BY <1>1, <1>3, <1>4, SetInduction
<1>6. Done(K) /\ K <= K
  BY <1>1, <1>5
<1> QED
  BY <1>2, <1>6

-----------------------------------------------------------------------------
(* What the server's moves leave as it is. *)

\* The server after a move of its own.
ServerGoes(t) ==
  /\ t \in Server /\ s.serverId <= t.serverId
  /\ s.lastClientCommand <= t.lastClientCommand /\ t.lastClientCommand <= Len(commands)
  /\ Len(s.gamestates) <= Len(t.gamestates)
  /\ (/\ ~Dropped(t) /\ s.downloadName \in File /\ s.downloadName \notin Refused
      /\ \A n \in s.lastClientCommand..Len(commands) - 1 : GoesOn(n, s.serverId))
     => Carries(s, t)

LEMMA Numbers ==
  ASSUME TypeOK, NEW t, ServerGoes(t)
  PROVE  /\ s \in Server /\ s.serverId \in Nat /\ s.lastClientCommand \in Nat
         /\ t.serverId \in Nat /\ t.lastClientCommand \in Nat
         /\ Len(s.gamestates) \in Nat /\ Len(t.gamestates) \in Nat /\ Len(commands) \in Nat
         /\ s.serverId <= t.serverId /\ Len(s.gamestates) <= Len(t.gamestates)
         /\ s.lastClientCommand <= t.lastClientCommand /\ t.lastClientCommand <= Len(commands)
<1>1. s \in Server /\ t \in Server /\ Len(commands) \in Nat
  BY Parts DEF ServerGoes
<1>2. s.gamestates \in Seq(Nat) /\ t.gamestates \in Seq(Nat)
  BY <1>1 DEF Server
<1> QED
  BY <1>1, <1>2, ServerTypes, LenProperties DEF ServerGoes

LEMMA ClientNumbers ==
  ASSUME TypeOK
  PROVE  /\ c.serverId \in Nat /\ c.messageNum \in Nat /\ c.reliableAcknowledge \in Nat
         /\ c.downloadBlock \in Nat /\ c.downloadName \in AnyFile /\ c.saved \subseteq File
         /\ c.downloadList \subseteq File /\ c \in Client /\ Proper(commands) /\ Len(commands) \in Nat
BY Parts, Constants DEF ClientOK, Client

LEMMA MessageNumbers ==
  ASSUME NEW m \in MessageType
  PROVE  /\ m.number \in Nat /\ m.commands \in Nat
         /\ m.kind = "gamestate" => m.serverId \in Nat
         /\ m.kind = "download" => m.block \in Nat
BY Constants DEF MessageType

LEMMA GoodParts ==
  ASSUME TypeOK, Good
  PROVE  /\ AllFit /\ CommandsFit(commands, c) /\ ClientFits(c, s, commands)
         /\ ServerGood(s, c, commands)
         /\ MessagesFit(toClient, s, c, commands) /\ PacketsFit(toServer, s, c, commands)
         /\ Alive(c) => Working(c, commands)
         /\ ~Dropped(s) => ServerFits(s, commands) /\ LateFits(s, c)
         /\ ~Dropped(s) /\ Alive(c) => KnownFits(s, c, commands)
BY ClientNumbers DEF Good, AllFit, CommandsFit, ClientFits, ServerGood

\* The client still downloads the file that it was downloading after command a.
LEMMA StillGoesOn ==
  ASSUME TypeOK, NEW a \in Nat, NEW level, Holds(commands, a, level)
  PROVE  \A n \in a..Len(commands) - 1 : GoesOn(n, level)
<1>1. Len(commands) \in Nat
  BY Parts
<1>2. ASSUME NEW n \in a..Len(commands) - 1 PROVE GoesOn(n, level)
  <2>1. n \in a..Len(commands) /\ n + 1 \in a..Len(commands) /\ n + 1 > a
    BY <1>1
  <2> QED
    BY <2>1 DEF Holds, GoesOn
<1> QED
  BY <1>2

LEMMA KeptBlock ==
  ASSUME TypeOK, Good, ~Dropped(s), NEW t, ServerGoes(t), NEW m \in MessageType, m.kind = "download",
         BlockFits(m, s, c, commands), m.commands <= s.lastClientCommand
  PROVE  BlockFits(m, t, c, commands)
<1> DEFINE f == m.data.file
           n == s.lastClientCommand
<1>1. /\ f = Asked(commands, m.commands) /\ f \in File /\ f \notin Refused
      /\ m.block <= Blocks[f] /\ m.block < Acked(commands, m.commands) + W
      /\ m.block \in Nat /\ m.commands \in Nat /\ f # NoFile /\ Blocks[f] \in Nat
  BY MessageNumbers, Constants DEF BlockFits
<1> SUFFICES ASSUME Alive(c)
             PROVE  /\ Since(commands, m.commands, c, t.serverId)
                    /\ f = c.downloadName => OwnFits(m, t, c, commands)
  BY <1>1 DEF BlockFits
<1>2. Since(commands, m.commands, c, s.serverId) /\ (f = c.downloadName => OwnFits(m, s, c, commands))
  BY DEF BlockFits
<1>3. Since(commands, m.commands, c, t.serverId)
  BY <1>2, Numbers, LevelHolds
<1>4. ASSUME f = c.downloadName PROVE OwnFits(m, t, c, commands)
  <2>1. f \notin c.saved
    BY <1>1, <1>4, GoodParts DEF Working
  <2>2. Holds(commands, m.commands, s.serverId)
    BY <1>1, <1>2, <2>1 DEF Since
  <2>3. n \in m.commands..Len(commands) /\ n \in Nat
    BY <1>1, Parts
  <2>4. Holds(commands, n, s.serverId) /\ Asked(commands, n) = f
    BY <1>1, <2>2, <2>3, ClientNumbers, HoldsFrom
  <2>5. Sent(s, m.block, commands) /\ (s.serverId <= 2 => s.download # NoFile)
        /\ (NoShort /\ m.block = Blocks[f] => Late(s)) /\ (m.data.index = m.block \/ m.block < c.downloadBlock)
    BY <1>2, <1>4 DEF OwnFits
  <2>6. s.downloadName = f
    BY <2>4, <2>5, GoodParts DEF ServerFits, Sent
  <2>7. ~Dropped(t) => Carries(s, t)
    BY <1>1, <2>3, <2>4, <2>6, StillGoesOn DEF ServerGoes
  <2>8. t.serverId <= 2 => s.serverId <= 2
    BY Numbers
  <2>9. ~Dropped(t) => Sent(t, m.block, commands)
    BY <1>1, <2>5, <2>7 DEF Carries
  <2>10. ~Dropped(t) /\ t.serverId <= 2 => t.download # NoFile
    BY <2>5, <2>7, <2>8 DEF Carries
  <2>11. ~Dropped(t) /\ NoShort /\ m.block = Blocks[f] => Late(t)
    BY <2>5, <2>6, <2>7 DEF Carries
  <2> QED
    BY <2>5, <2>9, <2>10, <2>11 DEF OwnFits
<1> QED
  BY <1>3, <1>4

LEMMA KeptMessage ==
  ASSUME TypeOK, Good, ~Dropped(s), NEW t, ServerGoes(t), NEW m \in MessageType,
         MessageFits(m, s, c, commands),
         m.kind = "gamestate" /\ Alive(c) /\ m.serverId > c.serverId /\ ~Dropped(t) => Idle(t, commands)
  PROVE  MessageFits(m, t, c, commands)
<1>1. /\ c.messageNum <= m.number /\ m.number <= 2 * Len(s.gamestates) + 1
      /\ c.reliableAcknowledge <= m.commands /\ m.commands <= s.lastClientCommand
      /\ m.kind = "download" => BlockFits(m, s, c, commands)
      /\ m.kind = "gamestate" => GamestateFits(m, s, c, commands)
  BY DEF MessageFits
<1>2. m.number \in Nat /\ m.commands \in Nat /\ (m.kind = "gamestate" => m.serverId \in Nat)
  BY MessageNumbers
<1>3. m.number <= 2 * Len(t.gamestates) + 1 /\ m.commands <= t.lastClientCommand
  BY <1>1, <1>2, Numbers
<1>4. m.kind = "download" => BlockFits(m, t, c, commands)
  BY <1>1, KeptBlock
<1>5. ASSUME m.kind = "gamestate" PROVE GamestateFits(m, t, c, commands)
  <2>1. GamestateFits(m, s, c, commands)
    BY <1>1, <1>5
  <2>2. m.serverId <= t.serverId /\ m.number <= 2 * Len(t.gamestates)
    BY <1>2, <1>5, <2>1, Numbers DEF GamestateFits
  <2>3. s.serverId > 2 => t.serverId > 2
    BY Numbers
  <2> QED
    BY <1>5, <2>1, <2>2, <2>3 DEF GamestateFits
<1> QED
  BY <1>1, <1>3, <1>4, <1>5 DEF MessageFits

LEMMA KeptPacket ==
  ASSUME TypeOK, Good, ~Dropped(s), NEW t, ServerGoes(t), NEW p \in PacketType,
         PacketFits(p, s, c, commands),
         Alive(c) /\ p.serverId # c.serverId /\ ~Dropped(t) => Idle(t, commands)
  PROVE  PacketFits(p, t, c, commands)
<1>1. p.messageAcknowledge \in Nat
  BY DEF PacketType
<1>2. p.messageAcknowledge <= 2 * Len(s.gamestates) => p.messageAcknowledge <= 2 * Len(t.gamestates)
  BY <1>1, Numbers
<1>3. \A a : Since(commands, a, c, s.serverId) => Since(commands, a, c, t.serverId)
  BY Numbers, LevelHolds
<1> QED
  BY <1>2, <1>3 DEF PacketFits

LEMMA KeptClient ==
  ASSUME TypeOK, Good, NEW t, ServerGoes(t)
  PROVE  ClientFits(c, t, commands)
<1>1. /\ c.serverId <= s.serverId /\ c.reliableAcknowledge <= s.lastClientCommand
      /\ c.messageNum <= 2 * Len(s.gamestates) + 1
      /\ IF Alive(c) THEN Working(c, commands) ELSE c.download = NoFile
  BY GoodParts DEF ClientFits
<1>2. c.serverId <= t.serverId /\ c.reliableAcknowledge <= t.lastClientCommand
      /\ c.messageNum <= 2 * Len(t.gamestates) + 1
  BY <1>1, Numbers, ClientNumbers
<1> QED
  BY <1>1, <1>2 DEF ClientFits

\* Messages in flight, some of them lost or taken, and new ones behind them.
LEMMA MessagesGoOn ==
  ASSUME NEW q \in Seq(MessageType), NEW part \in Seq(MessageType), PartOf(part, q),
         NEW new \in Seq(MessageType), NEW server, NEW client, NEW r,
         \A i \in 1..Len(q) : MessageFits(q[i], server, client, r),
         \A i \in 1..Len(new) : MessageFits(new[i], server, client, r),
         \A i, j \in 1..Len(q) : i < j => InOrder(q[i], q[j], client),
         \A i \in 1..Len(q), j \in 1..Len(new) : InOrder(q[i], new[j], client),
         \A i, j \in 1..Len(new) : i < j => InOrder(new[i], new[j], client)
  PROVE  MessagesFit(part \o new, server, client, r)
<1> DEFINE T == {m \in MessageType : MessageFits(m, server, client, r)}
           R == {x \in MessageType \X MessageType : InOrder(x[1], x[2], client)}
           z == part \o new
<1>1. /\ \A i \in 1..Len(q) : q[i] \in MessageType
      /\ \A i \in 1..Len(new) : new[i] \in MessageType
  BY ElementOfSeq
<1>2. /\ \A i \in 1..Len(q) : q[i] \in T
      /\ \A i \in 1..Len(new) : new[i] \in T
  BY <1>1
<1>3. \A m, later \in MessageType : InOrder(m, later, client) => <<m, later>> \in R
  OBVIOUS
<1>4. \A m, later : <<m, later>> \in R => InOrder(m, later, client)
  OBVIOUS
<1>5. \A m : m \in T => MessageFits(m, server, client, r)
  OBVIOUS
<1> HIDE DEF T, R
<1>6. /\ \A i, j \in 1..Len(q) : i < j => <<q[i], q[j]>> \in R
      /\ \A i \in 1..Len(q), j \in 1..Len(new) : <<q[i], new[j]>> \in R
      /\ \A i, j \in 1..Len(new) : i < j => <<new[i], new[j]>> \in R
  BY <1>1, <1>3, Zenon
<1>7. /\ \A i \in 1..Len(z) : z[i] \in T
      /\ \A i, j \in 1..Len(z) : i < j => <<z[i], z[j]>> \in R
  BY <1>2, <1>6, QueueGoesOn
<1> HIDE DEF z
<1>8. MessagesFit(z, server, client, r)
  BY <1>4, <1>5, <1>7, Zenon DEF MessagesFit
<1> QED
  BY <1>8 DEF z

LEMMA PacketsGoOn ==
  ASSUME NEW q \in Seq(PacketType), NEW part \in Seq(PacketType), PartOf(part, q),
         NEW new \in Seq(PacketType), NEW server, NEW client, NEW r,
         \A i \in 1..Len(q) : PacketFits(q[i], server, client, r),
         \A i \in 1..Len(new) : PacketFits(new[i], server, client, r),
         \A i, j \in 1..Len(q) : i < j => q[i].serverId <= q[j].serverId,
         \A i \in 1..Len(q), j \in 1..Len(new) : q[i].serverId <= new[j].serverId,
         \A i, j \in 1..Len(new) : i < j => new[i].serverId <= new[j].serverId
  PROVE  PacketsFit(part \o new, server, client, r)
<1> DEFINE T == {p \in PacketType : PacketFits(p, server, client, r)}
           R == {x \in PacketType \X PacketType : x[1].serverId <= x[2].serverId}
           z == part \o new
<1>1. /\ \A i \in 1..Len(q) : q[i] \in PacketType
      /\ \A i \in 1..Len(new) : new[i] \in PacketType
  BY ElementOfSeq
<1>2. /\ \A i \in 1..Len(q) : q[i] \in T
      /\ \A i \in 1..Len(new) : new[i] \in T
  BY <1>1
<1>3. \A p, later \in PacketType : p.serverId <= later.serverId => <<p, later>> \in R
  OBVIOUS
<1>4. \A p, later : <<p, later>> \in R => p.serverId <= later.serverId
  OBVIOUS
<1>5. \A p : p \in T => PacketFits(p, server, client, r)
  OBVIOUS
<1> HIDE DEF T, R
<1>6. /\ \A i, j \in 1..Len(q) : i < j => <<q[i], q[j]>> \in R
      /\ \A i \in 1..Len(q), j \in 1..Len(new) : <<q[i], new[j]>> \in R
      /\ \A i, j \in 1..Len(new) : i < j => <<new[i], new[j]>> \in R
  BY <1>1, <1>3, Zenon
<1>7. /\ \A i \in 1..Len(z) : z[i] \in T
      /\ \A i, j \in 1..Len(z) : i < j => <<z[i], z[j]>> \in R
  BY <1>2, <1>6, QueueGoesOn
<1> HIDE DEF z
<1>8. PacketsFit(z, server, client, r)
  BY <1>4, <1>5, <1>7, Zenon DEF PacketsFit
<1> QED
  BY <1>8 DEF z

LEMMA NoneNew ==
  ASSUME NEW S, NEW q \in Seq(S)
  PROVE  q \o <<>> = q /\ <<>> \in Seq(S) /\ Len(<<>>) = 0 /\ \A i \in 1..Len(<<>>) : FALSE
BY ConcatEmptySeq

LEMMA OneNew ==
  ASSUME NEW S, NEW q \in Seq(S), NEW e \in S
  PROVE  /\ Append(q, e) = q \o <<e>> /\ <<e>> \in Seq(S)
         /\ \A i \in 1..Len(<<e>>) : i = 1 /\ <<e>>[i] = e
<1>1. Append(q, e) = q \o <<e>>
  BY AppendIsConcat
<1>2. <<e>> \in Seq(S)
  OBVIOUS
<1>3. Len(<<e>>) = 1 /\ <<e>>[1] = e
  OBVIOUS
<1> DEFINE one == <<e>>
<1> HIDE DEF one
<1>4. Len(one) = 1 /\ one[1] = e
  BY <1>3 DEF one
<1>5. \A i \in 1..Len(one) : i = 1 /\ one[i] = e
  BY <1>4
<1> QED
  BY <1>1, <1>2, <1>5 DEF one

-----------------------------------------------------------------------------
(* ServerReceives. *)

\* A move of the server that sends some messages.
LEMMA ServerMoves ==
  ASSUME TypeOK, Good, ~Dropped(s), ServerGoes(s'), UNCHANGED <<c, commands>>,
         ServerGood(s', c, commands), PacketsFit(toServer', s', c, commands),
         NEW new \in Seq(MessageType), toClient' = toClient \o new,
         \A i \in 1..Len(toClient) :
           /\ toClient[i].kind = "gamestate" /\ Alive(c) /\ toClient[i].serverId > c.serverId /\ ~Dropped(s')
           => Idle(s', commands),
         \A i \in 1..Len(new) : MessageFits(new[i], s', c, commands),
         \A i \in 1..Len(toClient), j \in 1..Len(new) : InOrder(toClient[i], new[j], c),
         \A i, j \in 1..Len(new) : i < j => InOrder(new[i], new[j], c)
  PROVE  Good'
<1>1. toClient \in Seq(MessageType) /\ Len(toClient) \in Nat
  BY Parts, LenProperties
<1>2. /\ \A i \in 1..Len(toClient) : MessageFits(toClient[i], s, c, commands)
      /\ \A i, j \in 1..Len(toClient) : i < j => InOrder(toClient[i], toClient[j], c)
  BY GoodParts DEF MessagesFit
<1>3. \A i \in 1..Len(toClient) : MessageFits(toClient[i], s', c, commands)
  <2>1. ASSUME NEW i \in 1..Len(toClient) PROVE MessageFits(toClient[i], s', c, commands)
    <3>1. toClient[i] \in MessageType
      BY <1>1, ElementOfSeq
    <3> QED
      BY <1>2, <3>1, KeptMessage
  <2> QED
    BY <2>1
<1>4. PartOf(toClient, toClient)
  BY <1>1, WholeIsPart
<1>5. MessagesFit(toClient \o new, s', c, commands)
  BY <1>1, <1>2, <1>3, <1>4, MessagesGoOn
<1>6. CommandsFit(commands, c) /\ ClientFits(c, s', commands)
  BY GoodParts, KeptClient
<1> QED
  BY <1>5, <1>6 DEF Good

LEMMA LengthOf ==
  ASSUME NEW S, NEW q \in Seq(S), NEW k \in Nat, DOMAIN q = 1..k
  PROVE  Len(q) = k
<1> DEFINE len == Len(q)
<1>1. len \in Nat /\ 1..len = 1..k
  BY LenProperties
<1> HIDE DEF len
<1>2. \A a, b \in Nat : 1..a = 1..b => ~(a < b)
  <2>1. ASSUME NEW a \in Nat, NEW b \in Nat, 1..a = 1..b, a < b PROVE FALSE
    <3>1. b \in 1..b /\ ~(b \in 1..a)
      BY <2>1
    <3> QED
      BY <2>1, <3>1
  <2> QED
    BY <2>1
<1>3. ~(len < k) /\ ~(k < len)
  BY <1>1, <1>2
<1>4. len = k
  BY <1>1, <1>3
<1> QED
  BY <1>4 DEF len

LEMMA AnsweredAre ==
  ASSUME TypeOK, NEW t \in Server, Len(s.gamestates) <= Len(t.gamestates), NEW new, new = Answered(t)
  PROVE  LET old == Len(s.gamestates)
         IN /\ new \in Seq(MessageType) /\ Len(new) = Len(t.gamestates) - old /\ Len(new) \in Nat /\ old \in Nat
            /\ \A i \in 1..Len(new) :
                 /\ new[i].kind = "gamestate" /\ new[i].number = 2 * (old + i)
                 /\ new[i].commands = t.gamestates[old + i] /\ new[i].serverId = t.serverId
                 /\ old + i \in old + 1..Len(t.gamestates)
<1> DEFINE old == Len(s.gamestates)
           k == Len(t.gamestates) - old
<1>1. new \in Seq(MessageType)
  BY AnsweredType
<1>2. old \in Nat /\ Len(t.gamestates) \in Nat /\ k \in Nat
  <2>1. s.gamestates \in Seq(Nat) /\ t.gamestates \in Seq(Nat)
    BY Parts DEF Server
  <2>2. old \in Nat /\ Len(t.gamestates) \in Nat
    BY <2>1, LenProperties
  <2> QED
    BY <2>2
<1> DEFINE gamestate(i) == [kind |-> "gamestate", number |-> 2 * (old + i),
                            commands |-> t.gamestates[old + i], serverId |-> t.serverId]
<1>3. new = [i \in 1..k |-> gamestate(i)]
  BY DEF Answered
<1>4. DOMAIN new = 1..k /\ \A i \in 1..k : new[i] = gamestate(i)
  BY <1>3
<1>5. Len(new) = k
  BY <1>1, <1>2, <1>4, LengthOf
<1>6. \A i \in 1..k : old + i \in old + 1..Len(t.gamestates)
  BY <1>2
<1>7. \A i : /\ gamestate(i).kind = "gamestate" /\ gamestate(i).number = 2 * (old + i)
             /\ gamestate(i).commands = t.gamestates[old + i] /\ gamestate(i).serverId = t.serverId
  OBVIOUS
<1> HIDE DEF gamestate, k
<1> QED
  BY <1>1, <1>2, <1>4, <1>5, <1>6, <1>7 DEF k

\* What stays in flight of the packets when one is taken.
LEMMA OtherPackets ==
  ASSUME TypeOK, Good, ~Dropped(s), NEW t, ServerGoes(t), toServer # <<>>,
         Alive(c) /\ ~Dropped(t) /\ Head(toServer).serverId # c.serverId => Idle(t, commands)
  PROVE  PacketsFit(Tail(toServer), t, c, commands)
<1>1. toServer \in Seq(PacketType) /\ Len(toServer) \in Nat
  BY Parts, LenProperties DEF PacketsOK
<1>2. /\ Tail(toServer) \in Seq(PacketType) /\ PartOf(Tail(toServer), toServer)
      /\ Head(toServer) = toServer[1] /\ 1 \in 1..Len(toServer)
  BY <1>1, TailPart
<1>3. /\ \A i \in 1..Len(toServer) : PacketFits(toServer[i], s, c, commands)
      /\ \A i, j \in 1..Len(toServer) : i < j => toServer[i].serverId <= toServer[j].serverId
  BY GoodParts DEF PacketsFit
<1>4. ASSUME NEW i \in 1..Len(toServer) PROVE PacketFits(toServer[i], t, c, commands)
  <2>1. toServer[i] \in PacketType /\ toServer[1] \in PacketType /\ PacketFits(toServer[i], s, c, commands)
    BY <1>1, <1>2, <1>3, ElementOfSeq
  <2>2. ASSUME Alive(c), toServer[i].serverId # c.serverId, ~Dropped(t) PROVE Idle(t, commands)
    <3>1. toServer[i].serverId \in Nat /\ toServer[1].serverId \in Nat /\ c.serverId \in Nat
      BY <2>1, ClientNumbers, Constants DEF PacketType
    <3>2. toServer[i].serverId <= c.serverId
      BY <2>1 DEF PacketFits
    <3>3. toServer[1].serverId <= toServer[i].serverId
      BY <1>1, <1>3, <3>1
    <3>4. toServer[1].serverId # c.serverId
      BY <2>2, <3>1, <3>2, <3>3
    <3> QED
      BY <1>2, <2>2, <3>4
  <2> QED
    BY <2>1, <2>2, KeptPacket
<1>5. PacketsFit(Tail(toServer) \o <<>>, t, c, commands)
  <2>1. <<>> \in Seq(PacketType) /\ \A i \in 1..Len(<<>>) : FALSE
    BY <1>1, NoneNew
  <2> QED
    BY <1>1, <1>2, <1>3, <1>4, <2>1, PacketsGoOn
<1>6. Tail(toServer) \o <<>> = Tail(toServer)
  BY <1>2, NoneNew
<1> QED
  BY <1>5, <1>6

\* A server that is as it was but for its level and its gamestates.
LEMMA Unmoved ==
  ASSUME TypeOK, Good, ~Dropped(s), NEW t \in Server, t.state = s.state, s.serverId <= t.serverId,
         t.lastClientCommand = s.lastClientCommand, SameWindow(s, t), SameFile(s, t),
         t.clientBlock = s.clientBlock, Len(s.gamestates) <= Len(t.gamestates)
  PROVE  /\ ServerGood(t, c, commands) /\ ServerGoes(t) /\ ~Dropped(t)
         /\ Idle(s, commands) => Idle(t, commands)
<1> DEFINE n == s.lastClientCommand
<1>1. /\ s \in Server /\ s.serverId \in Nat /\ t.serverId \in Nat /\ n <= Len(commands) /\ n \in Nat
      /\ t.serverId <= 2 => s.serverId <= 2
  BY Parts, ServerTypes
<1>2. /\ t.downloadName = s.downloadName /\ t.download = s.download /\ t.currentBlock = s.currentBlock
      /\ t.xmitBlock = s.xmitBlock /\ t.blocks = s.blocks
  BY DEF SameWindow, SameFile
<1>3. /\ ServerFits(s, commands) /\ LateFits(s, c) /\ (Alive(c) => KnownFits(s, c, commands))
  BY GoodParts
<1>4. WindowFits(s) <=> WindowFits(t)
  BY <1>2 DEF WindowFits
<1>5. Kept(s, commands) <=> Kept(t, commands)
  BY <1>4 DEF Kept
<1>6. \A i : Sent(s, i, commands) <=> Sent(t, i, commands)
  BY <1>2, <1>5 DEF Sent
<1>7. Late(s) <=> Late(t)
  BY <1>2 DEF Late
<1>8. ~Dropped(t)
  BY DEF Dropped
<1>9. Carries(s, t)
  BY <1>1, <1>2, <1>6, <1>7 DEF Carries
<1>10. Idle(s, commands) <=> Idle(t, commands)
  BY <1>2 DEF Idle
<1>11. \A j : Again(commands, j, s.serverId) => Again(commands, j, t.serverId)
  BY <1>1 DEF Again
<1>12. \A k : PendingFits(s, k, commands) => PendingFits(t, k, commands)
  BY <1>1, <1>2, <1>6, <1>11 DEF PendingFits
<1>13. ServerFits(t, commands)
  <2>1. OpenFits(t, commands)
    BY <1>2, <1>3, <1>5 DEF ServerFits, OpenFits
  <2> QED
    BY <1>1, <1>2, <1>3, <1>12, <2>1 DEF ServerFits
<1>14. LateFits(t, c)
  BY <1>2, <1>3, <1>7 DEF LateFits
<1>15. Alive(c) => KnownFits(t, c, commands)
  <2>1. Since(commands, n, c, s.serverId) => Since(commands, n, c, t.serverId)
    BY <1>1, LevelHolds
  <2> QED
    BY <1>2, <1>3, <1>10, <2>1 DEF KnownFits
<1>16. ServerGood(t, c, commands)
  BY <1>8, <1>13, <1>14, <1>15 DEF ServerGood
<1>17. ServerGoes(t)
  BY <1>1, <1>9 DEF ServerGoes
<1> QED
  BY <1>8, <1>10, <1>16, <1>17

\* The packet that the server reads.
LEMMA FirstPacket ==
  ASSUME TypeOK, Good, ~Dropped(s), toServer # <<>>
  PROVE  LET p == Head(toServer)
         IN /\ p \in PacketType /\ p.commands <= Len(commands) /\ p.commands \in Nat
            /\ p.serverId \in Nat /\ p.messageAcknowledge \in Nat
            /\ PacketFits(p, s, c, commands)
            /\ Alive(c) /\ p.serverId # c.serverId => Idle(s, commands)
            /\ Alive(c) /\ p.serverId # c.serverId => p.serverId # s.serverId
            /\ Tolerated(s, p) <=> p.serverId = s.serverId \/ ~Idle(s, commands)
<1> DEFINE p == Head(toServer)
<1>1. toServer \in Seq(PacketType) /\ Len(toServer) \in Nat
      /\ \A i \in 1..Len(toServer) : toServer[i].commands <= Len(commands)
  BY Parts DEF PacketsOK
<1>2. p = toServer[1] /\ 1 \in 1..Len(toServer)
  BY <1>1, TailPart
<1>3. p \in PacketType /\ p.commands <= Len(commands) /\ PacketFits(p, s, c, commands)
  BY <1>1, <1>2, ElementOfSeq, GoodParts DEF PacketsFit
<1> HIDE DEF p
<1>4. p.commands \in Nat /\ p.serverId \in Nat /\ p.messageAcknowledge \in Nat
  BY <1>3, Constants DEF PacketType
<1>5. Alive(c) /\ p.serverId # c.serverId => Idle(s, commands)
  BY <1>3 DEF PacketFits
<1>6. p.serverId # c.serverId => p.serverId # s.serverId
  <2>1. p.serverId <= c.serverId /\ c.serverId <= s.serverId /\ c.serverId \in Nat /\ s.serverId \in Nat
    BY <1>3, GoodParts, ClientNumbers, Parts, ServerTypes DEF PacketFits, ClientFits
  <2> QED
    BY <1>4, <2>1
<1>7. Tolerated(s, p) <=> p.serverId = s.serverId \/ ~Idle(s, commands)
  BY DEF Tolerated, SaysNextDl, Idle
<1> QED
  BY <1>3, <1>4, <1>5, <1>6, <1>7 DEF p

\* A packet that tells the server nothing.
LEMMA NothingNew ==
  ASSUME TypeOK, Good, ServerReceives, s' = s
  PROVE  Good'
<1>1. /\ ~Dropped(s) /\ toServer # <<>> /\ toServer' = Tail(toServer)
      /\ toClient' = toClient \o Answered(s) /\ UNCHANGED <<c, commands>>
  BY DEF ServerReceives
<1>2. ServerGood(s, c, commands) /\ ServerGoes(s)
  <2>1. s \in Server /\ Len(s.gamestates) \in Nat /\ s.serverId \in Nat
    BY Parts, LenProperties, ServerTypes DEF Server
  <2> QED
    BY <1>1, <2>1, Unmoved DEF SameWindow, SameFile
<1>3. PacketsFit(toServer', s, c, commands)
  BY <1>1, <1>2, OtherPackets, FirstPacket
<1>4. /\ Answered(s) \in Seq(MessageType) /\ \A i \in 1..Len(Answered(s)) : FALSE
  <2>1. s \in Server /\ Len(s.gamestates) \in Nat
    BY Parts, LenProperties DEF Server
  <2>2. /\ Answered(s) \in Seq(MessageType) /\ Len(Answered(s)) = Len(s.gamestates) - Len(s.gamestates)
    BY <2>1, AnsweredAre
  <2>3. Len(Answered(s)) = 0
    BY <2>1, <2>2
  <2> QED
    BY <2>2, <2>3
<1>5. \A i \in 1..Len(toClient) :
           /\ toClient[i].kind = "gamestate" /\ Alive(c) /\ toClient[i].serverId > c.serverId
           => Idle(s, commands)
  BY <1>1, GoodParts DEF MessagesFit, MessageFits, GamestateFits
<1> QED
  BY <1>1, <1>2, <1>3, <1>4, <1>5, ServerMoves

\* A packet of another level, which says that the client saw what followed the
\* last gamestate: the server sends another one.
LEMMA GamestateAgain ==
  ASSUME TypeOK, Good, ServerReceives, ~Tolerated(s, Head(toServer)),
         Head(toServer).messageAcknowledge > 2 * Len(s.gamestates)
  PROVE  Good'
<1> DEFINE n == s.lastClientCommand
           old == Len(s.gamestates)
           g == Append(s.gamestates, n)
           p == Head(toServer)
           t == [s EXCEPT !.gamestates = g]
           m == [kind |-> "gamestate", number |-> 2 * (old + 1), commands |-> n, serverId |-> s.serverId]
<1>1. /\ ~Dropped(s) /\ toServer # <<>> /\ toServer' = Tail(toServer)
      /\ toClient' = toClient \o Answered(s') /\ UNCHANGED <<c, commands>>
      /\ s' = t
  BY DEF ServerReceives, SV_ExecuteClientMessage, SV_SendClientGameState
<1>2. /\ s \in Server /\ n \in Nat /\ n <= Len(commands) /\ Len(commands) \in Nat /\ s.serverId \in Nat
      /\ s.gamestates \in Seq(Nat) /\ old \in Nat /\ s.serverId \in Levels
  BY Parts, ServerTypes, LenProperties DEF Server
<1>3. g \in Seq(Nat) /\ Len(g) = old + 1 /\ g[old + 1] = n
  BY <1>2, AppendProperties
<1> HIDE DEF g
<1>4. /\ t \in Server /\ t.gamestates = g /\ t.state = s.state /\ t.serverId = s.serverId
      /\ t.lastClientCommand = n /\ SameWindow(s, t) /\ SameFile(s, t) /\ t.clientBlock = s.clientBlock
  BY <1>2, <1>3 DEF Server, SameWindow, SameFile
<1>5. /\ m.kind = "gamestate" /\ m.number = 2 * (old + 1) /\ m.commands = n /\ m.serverId = s.serverId
      /\ m \in MessageType
  BY <1>2 DEF MessageType
<1> HIDE DEF t, m
<1>6. ServerGood(t, c, commands) /\ ServerGoes(t) /\ ~Dropped(t) /\ (Idle(s, commands) => Idle(t, commands))
  <2>1. s.serverId <= t.serverId /\ Len(s.gamestates) <= Len(t.gamestates)
    BY <1>2, <1>3, <1>4
  <2> QED
    BY <1>1, <1>4, <2>1, Unmoved, Zenon
<1>7. /\ p \in PacketType /\ p.messageAcknowledge \in Nat /\ PacketFits(p, s, c, commands)
      /\ p.serverId # s.serverId /\ Idle(s, commands)
      /\ p.messageAcknowledge > 2 * old
  BY <1>1, FirstPacket
<1> HIDE DEF p
<1>8. c.messageNum \in Nat /\ c.messageNum <= 2 * old + 1 /\ c.messageNum > 2 * old
      /\ c.reliableAcknowledge <= n /\ c.serverId <= s.serverId /\ c.serverId \in Nat
  <2>1. p.messageAcknowledge <= c.messageNum
    BY <1>7 DEF PacketFits
  <2>2. c.messageNum <= 2 * old + 1 /\ c.reliableAcknowledge <= n /\ c.serverId <= s.serverId
        /\ c.messageNum \in Nat /\ c.serverId \in Nat
    BY GoodParts, ClientNumbers DEF ClientFits
  <2> QED
    BY <1>2, <1>7, <2>1, <2>2
<1>9. Alive(c) => p.serverId = c.serverId
  <2>1. Alive(c) /\ p.serverId # c.serverId => p.messageAcknowledge <= 2 * old
    BY <1>1, <1>7 DEF PacketFits
  <2> QED
    BY <1>2, <1>7, <2>1
<1>10. PacketsFit(toServer', t, c, commands)
  BY <1>1, <1>6, <1>7, OtherPackets
<1>11. ServerFits(s, commands) /\ s.downloadName = NoFile
  BY <1>1, <1>7, GoodParts DEF Idle
<1>12. \A k \in n + 1..Len(commands) : commands[k].what # "nextdl"
  BY <1>11 DEF ServerFits, PendingFits, Sent
<1>13. ASSUME Alive(c), c.downloadName # NoFile PROVE c.downloadBlock = 0
  <2>1. c.downloadBlock = Acked(commands, Len(commands))
    BY <1>13, GoodParts DEF Working
  <2>2. Len(commands) # 0 => commands[Len(commands)].what # "nextdl"
    <3>1. CASE Len(commands) = n
      BY <1>2, <1>7, <3>1 DEF Idle
    <3>2. CASE Len(commands) # n
      <4>1. Len(commands) \in n + 1..Len(commands)
        BY <1>2, <3>2
      <4> QED
        BY <1>12, <4>1
    <3> QED
      BY <3>1, <3>2
  <2> QED
    BY <2>1, <2>2 DEF Acked
<1>14. Asked(commands, n) \in Refused \cup {NoFile}
  BY <1>11 DEF ServerFits
<1>15. GamestateFits(m, t, c, commands)
  <2>1. c.messageNum < m.number /\ m.number <= 2 * Len(t.gamestates) /\ m.serverId <= t.serverId
    BY <1>2, <1>3, <1>4, <1>5, <1>8
  <2>2. Alive(c) => m.serverId # c.serverId
    BY <1>5, <1>7, <1>9
  <2> QED
    BY <1>5, <1>6, <1>7, <1>8, <1>12, <1>13, <1>14, <2>1, <2>2 DEF GamestateFits
<1>16. MessageFits(m, t, c, commands)
  <2>1. c.messageNum <= m.number /\ m.number <= 2 * Len(t.gamestates) + 1 /\ n <= n
    BY <1>2, <1>3, <1>4, <1>5, <1>8
  <2> QED
    BY <1>4, <1>5, <1>8, <1>15, <2>1 DEF MessageFits
<1>17. ASSUME NEW i \in 1..Len(toClient) PROVE InOrder(toClient[i], m, c)
  <2> DEFINE before == toClient[i]
  <2>1. before \in MessageType /\ MessageFits(before, s, c, commands)
    BY Parts, ElementOfSeq, GoodParts DEF MessagesFit
  <2> HIDE DEF before
  <2>2. before.commands <= n /\ before.number <= 2 * old + 1 /\ before.number \in Nat
    BY <2>1, MessageNumbers DEF MessageFits
  <2>3. before.number <= m.number /\ before.number < m.number
    BY <1>2, <1>5, <2>2
  <2>4. before.kind # "gamestate"
    <3>1. before.kind = "gamestate" => c.messageNum < before.number /\ before.number <= 2 * old
      BY <2>1 DEF MessageFits, GamestateFits
    <3> QED
      BY <1>2, <1>8, <2>2, <3>1
  <2>5. InOrder(before, m, c)
    BY <1>5, <2>2, <2>3, <2>4 DEF InOrder
  <2> QED
    BY <2>5 DEF before
<1> DEFINE new == Answered(t)
<1>18. /\ new \in Seq(MessageType) /\ Len(new) = 1
       /\ new[1].kind = "gamestate" /\ new[1].number = 2 * (old + 1)
       /\ new[1].commands = n /\ new[1].serverId = s.serverId
  <2>1. old <= Len(t.gamestates) /\ Len(t.gamestates) = old + 1
    BY <1>2, <1>3, <1>4
  <2>2. /\ new \in Seq(MessageType) /\ Len(new) = (old + 1) - old
        /\ \A i \in 1..Len(new) :
                 /\ new[i].kind = "gamestate" /\ new[i].number = 2 * (old + i)
                 /\ new[i].commands = t.gamestates[old + i] /\ new[i].serverId = t.serverId
    BY <1>4, <2>1, AnsweredAre
  <2> HIDE DEF new
  <2>3. Len(new) = 1 /\ 1 \in 1..Len(new)
    BY <1>2, <2>2
  <2> QED
    BY <1>3, <1>4, <2>2, <2>3
<1> HIDE DEF new
<1>19. MessageFits(new[1], t, c, commands) /\ \A i \in 1..Len(toClient) : InOrder(toClient[i], new[1], c)
  <2>1. GamestateFits(new[1], t, c, commands)
    BY <1>5, <1>15, <1>18 DEF GamestateFits
  <2>2. MessageFits(new[1], t, c, commands)
    BY <1>5, <1>16, <1>18, <2>1 DEF MessageFits
  <2>3. \A i \in 1..Len(toClient) : InOrder(toClient[i], new[1], c)
    BY <1>5, <1>17, <1>18 DEF InOrder
  <2> QED
    BY <2>2, <2>3
<1>20. \A i \in 1..Len(new) : i = 1
  BY <1>18
<1>21. /\ \A i \in 1..Len(new) : MessageFits(new[i], t, c, commands)
       /\ \A i \in 1..Len(toClient), j \in 1..Len(new) : InOrder(toClient[i], new[j], c)
       /\ \A i, j \in 1..Len(new) : i < j => InOrder(new[i], new[j], c)
  <2>1. \A i, j \in 1..Len(new) : ~(i < j)
    BY <1>20
  <2> QED
    BY <1>19, <1>20, <2>1
<1> QED
  BY <1>1, <1>6, <1>7, <1>10, <1>18, <1>21, ServerMoves DEF new

\* Commands that the server had not executed.
LEMMA CommandsExecuted ==
  ASSUME TypeOK, Good, ServerReceives, Tolerated(s, Head(toServer)),
         Head(toServer).commands > s.lastClientCommand, Follows(s'), s'.lastClientCommand <= Len(commands),
         Dropped(s') \/ s'.lastClientCommand = Head(toServer).commands
  PROVE  Good'
<1> DEFINE n == s.lastClientCommand
           old == Len(s.gamestates)
           p == Head(toServer)
           t == s'
           len == Len(commands)
           new == Answered(t)
<1>1. /\ ~Dropped(s) /\ toServer # <<>> /\ toServer' = Tail(toServer)
      /\ toClient' = toClient \o new /\ UNCHANGED <<c, commands>>
  BY DEF ServerReceives
<1>2. /\ s \in Server /\ n \in Nat /\ n <= len /\ len \in Nat /\ s.serverId \in Nat
      /\ s.gamestates \in Seq(Nat) /\ old \in Nat
  BY Parts, ServerTypes, LenProperties DEF Server
<1>3. /\ t \in Server /\ t.serverId = s.serverId /\ n <= t.lastClientCommand
      /\ IF Dropped(t) THEN t.serverId > 2 ELSE ServerFits(t, commands) /\ LateFits(t, c)
      /\ old <= Len(t.gamestates) /\ t.lastClientCommand <= len /\ t.lastClientCommand \in Nat
      /\ Len(t.gamestates) \in Nat
  <2>1. t \in Server
    BY DEF Follows
  <2>2. t.gamestates \in Seq(Nat) /\ t.lastClientCommand \in Nat
    BY <2>1 DEF Server
  <2>3. Len(t.gamestates) \in Nat
    BY <2>2, LenProperties
  <2> QED
    BY <2>1, <2>2, <2>3 DEF Follows
<1>4. /\ \A i \in old + 1..Len(t.gamestates) : Answers(t.gamestates[i], t.lastClientCommand)
      /\ \A i, j \in old + 1..Len(t.gamestates) : i < j => t.gamestates[i] < t.gamestates[j]
      /\ (/\ ~Dropped(t) /\ s.downloadName # NoFile
          /\ \A k \in n..t.lastClientCommand - 1 : GoesOn(k, s.serverId))
         => Carries(s, t)
  BY DEF Follows
<1>5. /\ p \in PacketType /\ p.commands > n /\ p.commands <= len /\ p.commands \in Nat
      /\ PacketFits(p, s, c, commands) /\ (Dropped(t) \/ t.lastClientCommand = p.commands)
      /\ p.serverId = s.serverId \/ ~Idle(s, commands)
      /\ Alive(c) => p.serverId = c.serverId
  BY <1>1, FirstPacket
<1>6. /\ new \in Seq(MessageType) /\ Len(new) = Len(t.gamestates) - old
      /\ \A i \in 1..Len(new) :
           /\ new[i].kind = "gamestate" /\ new[i].number = 2 * (old + i)
           /\ new[i].commands = t.gamestates[old + i] /\ new[i].serverId = t.serverId
           /\ old + i \in old + 1..Len(t.gamestates)
  BY <1>3, AnsweredAre
<1> HIDE DEF p, new
<1>7. /\ c.serverId <= s.serverId /\ c.serverId \in Nat
      /\ c.messageNum <= 2 * old + 1 /\ c.messageNum \in Nat
      /\ c.reliableAcknowledge <= n /\ c.reliableAcknowledge \in Nat
  BY GoodParts, ClientNumbers DEF ClientFits
<1>8. ServerGoes(t)
  <2>1. ASSUME ~Dropped(t), s.downloadName \in File, \A k \in n..len - 1 : GoesOn(k, s.serverId)
        PROVE  Carries(s, t)
    <3>1. s.downloadName # NoFile
      BY <2>1, Constants
    <3>2. \A k \in n..t.lastClientCommand - 1 : k \in n..len - 1
      BY <1>2, <1>3
    <3> QED
      BY <1>4, <2>1, <3>1, <3>2
  <2>2. s.serverId <= t.serverId
    BY <1>2, <1>3
  <2> QED
    BY <1>3, <2>1, <2>2 DEF ServerGoes
<1>9. ServerGood(t, c, commands)
  <2>1. ASSUME ~Dropped(t), Alive(c) PROVE KnownFits(t, c, commands)
    <3>1. Since(commands, p.commands, c, s.serverId) /\ Calm(commands, p.commands)
      BY <1>5, <2>1 DEF PacketFits
    <3> QED
      BY <1>3, <1>5, <2>1, <3>1 DEF KnownFits
  <2> QED
    BY <1>3, <2>1 DEF ServerGood
<1>10. PacketsFit(toServer', t, c, commands)
  BY <1>1, <1>5, <1>8, OtherPackets DEF p
\* Once the client speaks of another level it wants no more of this one.
<1>11. ASSUME Alive(c), c.serverId # s.serverId \/ ~Idle(s, commands)
       PROVE  Calm(commands, n)
  BY <1>1, <1>5, <1>11, GoodParts DEF KnownFits
<1>12. ASSUME NEW i \in 1..Len(toClient), toClient[i].kind = "gamestate", Alive(c)
       PROVE  ~(toClient[i].serverId > c.serverId)
  <2> DEFINE m == toClient[i]
  <2>1. m \in MessageType /\ MessageFits(m, s, c, commands)
    BY Parts, ElementOfSeq, GoodParts DEF MessagesFit
  <2>2. m.serverId <= s.serverId /\ (m.serverId > c.serverId => Idle(s, commands)) /\ m.serverId \in Nat
    BY <1>1, <1>12, <2>1, MessageNumbers DEF MessageFits, GamestateFits
  <2> HIDE DEF m
  <2>3. m.serverId > c.serverId => c.serverId = s.serverId
    BY <1>5, <1>12, <2>2
  <2>4. ~(m.serverId > c.serverId)
    BY <1>2, <1>7, <2>2, <2>3
  <2> QED
    BY <2>4 DEF m
\* The gamestates that the server sends.
<1>13. ASSUME NEW i \in 1..Len(new)
       PROVE  LET a == new[i].commands
              IN /\ a \in Nat /\ n <= a /\ a < t.lastClientCommand /\ a + 1 \in 1..len
                 /\ commands[a + 1].what = "donedl"
                 /\ \A k \in a + 1..len : commands[k].what # "nextdl"
                 /\ CommandFits(commands, a + 1) /\ CutFits(commands, a + 1, c)
                 /\ new[i].number \in Nat /\ new[i].number <= 2 * Len(t.gamestates)
                 /\ 2 * old + 1 < new[i].number
  <2> DEFINE a == new[i].commands
  <2>1. Answers(a, t.lastClientCommand)
    BY <1>4, <1>6
  <2>2. new[i].number = 2 * (old + i) /\ i \in Nat /\ i >= 1 /\ old + i <= Len(t.gamestates)
    BY <1>2, <1>3, <1>6
  <2> HIDE DEF a
  <2>3. /\ a \in Nat /\ n <= a /\ a < t.lastClientCommand
        /\ commands[a + 1].what = "donedl"
        /\ \A k \in a + 1..len : commands[k].what # "nextdl"
    BY <2>1 DEF Answers
  <2>4. a + 1 \in 1..len
    BY <1>2, <1>3, <2>3
  <2>5. CommandFits(commands, a + 1) /\ CutFits(commands, a + 1, c)
    BY <2>4, GoodParts DEF CommandsFit
  <2>6. /\ new[i].number \in Nat /\ new[i].number <= 2 * Len(t.gamestates)
        /\ 2 * old + 1 < new[i].number
    BY <1>2, <1>3, <2>2
  <2> QED
    BY <2>3, <2>4, <2>5, <2>6 DEF a
<1>14. ASSUME NEW i \in 1..Len(new), Alive(c), Calm(commands, n)
       PROVE  \A k \in new[i].commands + 1..len : Asked(commands, k) = NoFile
  <2> DEFINE a == new[i].commands
  <2>1. a \in Nat /\ n <= a /\ a + 1 \in 1..len /\ commands[a + 1].what = "donedl"
    BY <1>13
  <2> HIDE DEF a
  <2>2. a + 1 \in n + 1..len
    BY <1>2, <2>1
  <2>3. \A k \in a + 1..len : Asked(commands, k) = NoFile
    BY <1>14, <2>1, <2>2 DEF Calm
  <2> QED
    BY <2>3 DEF a
<1>15. ASSUME NEW i \in 1..Len(new), Alive(c), c.downloadName # NoFile PROVE c.downloadBlock = 0
  <2> DEFINE a == new[i].commands
  <2>1. a \in Nat /\ a + 1 \in 1..len /\ \A k \in a + 1..len : commands[k].what # "nextdl"
    BY <1>13
  <2> HIDE DEF a
  <2>2. commands[len].what # "nextdl"
    BY <1>2, <2>1
  <2> QED
    BY <1>15, <2>2, GoodParts DEF Working, Acked
<1>16. ASSUME NEW i \in 1..Len(new), Alive(c), ~Dropped(t), new[i].serverId > c.serverId
       PROVE  Idle(t, commands)
  <2> DEFINE a == new[i].commands
             last == t.lastClientCommand
  <2>1. c.serverId # s.serverId
    BY <1>2, <1>3, <1>6, <1>7, <1>16
  <2>2. \A k \in a + 1..len : Asked(commands, k) = NoFile /\ commands[k].what # "nextdl"
    BY <1>11, <1>13, <1>14, <1>16, <2>1
  <2>3. a \in Nat /\ a < last
    BY <1>13
  <2> HIDE DEF a
  <2>4. last \in a + 1..len
    BY <1>2, <1>3, <2>3
  <2>5. Asked(commands, last) = NoFile /\ commands[last].what # "nextdl"
    BY <2>2, <2>4
  <2> QED
    BY <1>3, <1>16, <2>5 DEF Idle, ServerFits
<1>17. ASSUME NEW i \in 1..Len(new), Alive(c), new[i].serverId = c.serverId,
              c.downloadName \in Needed(c.serverId)
       PROVE  t.serverId > 2
  <2> SUFFICES ASSUME ~(t.serverId > 2) PROVE FALSE
    OBVIOUS
  <2> DEFINE a == new[i].commands
             before == Asked(commands, a)
  <2>1. c.serverId = s.serverId /\ c.serverId \in Nat /\ ~(c.serverId > 2)
    BY <1>3, <1>6, <1>7, <1>17
  <2>2. c.downloadName # NoFile /\ c.downloadName \notin c.saved /\ Asked(commands, len) = c.downloadName
    <3>1. c.serverId \in Levels
      BY <1>2, <2>1, Parts DEF Server
    <3>2. c.downloadName \in File
      BY <1>17, <3>1, Constants DEF Needed
    <3> QED
      BY <1>17, <3>2, Constants, GoodParts DEF Working
  <2>3. /\ a \in Nat /\ n <= a /\ a + 1 \in 1..len /\ (a + 1) - 1 = a /\ commands[a + 1].what = "donedl"
        /\ CommandFits(commands, a + 1) /\ CutFits(commands, a + 1, c)
    BY <1>13
  <2> HIDE DEF a
  <2>4. CASE before = NoFile
    <3>1. a > 0 /\ commands[a].what = "nextdl"
      BY <2>3, <2>4 DEF CommandFits
    <3>2. ~Idle(s, commands)
      <4>1. CASE a = n
        BY <1>2, <3>1, <4>1 DEF Idle
      <4>2. CASE a # n
        <5>1. a \in n + 1..len
          BY <1>2, <2>3, <4>2
        <5>2. PendingFits(s, a, commands)
          BY <1>1, <3>1, <5>1, GoodParts DEF ServerFits
        <5> QED
          BY <5>2 DEF PendingFits, Sent, Idle
      <4> QED
        BY <4>1, <4>2
    <3>3. \A k \in a + 1..len : Asked(commands, k) = NoFile
      BY <1>11, <1>14, <1>17, <3>2 DEF a
    <3>4. len \in a + 1..len
      BY <1>2, <2>3
    <3> QED
      BY <2>2, <3>3, <3>4
  <2>5. CASE before # NoFile
    <3>1. c.serverId = 2 /\ Needed(2) \subseteq c.saved
      BY <2>1, <2>3, <2>5 DEF CutFits
    <3> QED
      BY <1>17, <2>2, <3>1
  <2> QED
    BY <2>4, <2>5
<1>18. ASSUME NEW i \in 1..Len(new) PROVE MessageFits(new[i], t, c, commands)
  <2> DEFINE m == new[i]
  <2>1. /\ m.kind = "gamestate" /\ m.serverId = t.serverId
        /\ m.commands \in Nat /\ n <= m.commands /\ m.commands < t.lastClientCommand
        /\ m.commands + 1 \in 1..len /\ commands[m.commands + 1].what = "donedl"
        /\ \A k \in m.commands + 1..len : commands[k].what # "nextdl"
        /\ m.number \in Nat /\ m.number <= 2 * Len(t.gamestates) /\ 2 * old + 1 < m.number
    BY <1>6, <1>13
  <2>2. /\ Alive(c) /\ c.downloadName # NoFile => c.downloadBlock = 0
        /\ Alive(c) /\ m.serverId > c.serverId /\ ~Dropped(t) => Idle(t, commands)
        /\ Alive(c) /\ m.serverId = c.serverId /\ c.downloadName \in Needed(c.serverId) => t.serverId > 2
    BY <1>15, <1>16, <1>17
  <2> HIDE DEF m
  <2>3. /\ c.messageNum < m.number /\ c.messageNum <= m.number
        /\ m.number <= 2 * Len(t.gamestates) + 1 /\ m.commands < len
        /\ c.reliableAcknowledge <= m.commands /\ m.commands <= t.lastClientCommand
        /\ c.serverId <= m.serverId /\ m.serverId <= t.serverId
    <3>1. c.messageNum < m.number /\ c.messageNum <= m.number
      BY <1>2, <1>7, <2>1
    <3>2. m.number <= 2 * Len(t.gamestates) + 1
      BY <1>3, <2>1
    <3>3. m.commands < len /\ m.commands <= t.lastClientCommand
      BY <1>2, <1>3, <2>1
    <3>4. c.reliableAcknowledge <= m.commands
      BY <1>2, <1>7, <2>1
    <3>5. c.serverId <= m.serverId /\ m.serverId <= t.serverId
      BY <1>2, <1>3, <1>7, <2>1
    <3> QED
      BY <3>1, <3>2, <3>3, <3>4, <3>5
  <2>4. GamestateFits(m, t, c, commands)
    BY <2>1, <2>2, <2>3 DEF GamestateFits
  <2>5. MessageFits(m, t, c, commands)
    BY <2>1, <2>3, <2>4 DEF MessageFits
  <2> QED
    BY <2>5 DEF m
<1>19. ASSUME NEW i \in 1..Len(toClient), NEW j \in 1..Len(new) PROVE InOrder(toClient[i], new[j], c)
  <2> DEFINE m == toClient[i]
             later == new[j]
  <2>1. /\ m.commands \in Nat /\ m.number \in Nat /\ m.commands <= n /\ m.number <= 2 * old + 1
    <3>1. m \in MessageType /\ MessageFits(m, s, c, commands)
      BY Parts, ElementOfSeq, GoodParts DEF MessagesFit
    <3> QED
      BY <3>1, MessageNumbers DEF MessageFits
  <2>2. /\ later.kind = "gamestate" /\ n <= later.commands /\ later.commands \in Nat
        /\ later.number \in Nat /\ 2 * old + 1 < later.number
    BY <1>6, <1>13
  <2>3. Alive(c) /\ m.kind = "gamestate" => ~(m.serverId > c.serverId)
    BY <1>12
  <2> HIDE DEF m, later
  <2>4. m.commands <= later.commands /\ m.number <= later.number /\ m.number < later.number
    BY <1>2, <2>1, <2>2
  <2>5. InOrder(m, later, c)
    BY <2>2, <2>3, <2>4 DEF InOrder
  <2> QED
    BY <2>5 DEF m, later
<1>20. ASSUME NEW i \in 1..Len(new), NEW j \in 1..Len(new), i < j PROVE InOrder(new[i], new[j], c)
  <2> DEFINE m == new[i]
             later == new[j]
  <2>1. /\ m.kind = "gamestate" /\ later.kind = "gamestate" /\ m.number = 2 * (old + i)
        /\ later.number = 2 * (old + j) /\ m.serverId = t.serverId
        /\ m.commands < later.commands
    <3>1. old + i < old + j
      BY <1>2, <1>20
    <3> QED
      BY <1>4, <1>6, <3>1
  <2>2. /\ m.commands \in Nat /\ later.commands \in Nat /\ n <= later.commands /\ n <= m.commands
        /\ commands[later.commands + 1].what = "donedl" /\ CommandFits(commands, later.commands + 1)
        /\ \A k \in m.commands + 1..len : commands[k].what # "nextdl"
        /\ later.commands + 1 \in 1..len
    BY <1>13
  <2>3. m.number < later.number /\ m.number <= later.number /\ m.commands <= later.commands
    <3>1. \A a, x, y \in Nat : x < y => 2 * (a + x) < 2 * (a + y) /\ 2 * (a + x) <= 2 * (a + y)
      OBVIOUS
    <3>2. i \in Nat /\ j \in Nat
      OBVIOUS
    <3>3. m.number < later.number /\ m.number <= later.number
      BY <1>2, <1>20, <2>1, <3>1, <3>2
    <3> HIDE DEF m, later
    <3>4. m.commands <= later.commands
      BY <2>1, <2>2
    <3> QED
      BY <3>3, <3>4
  <2>4. ASSUME Alive(c) PROVE ~(m.serverId > c.serverId)
    <3> SUFFICES ASSUME m.serverId > c.serverId PROVE FALSE
      OBVIOUS
    <3>1. c.serverId # s.serverId
      BY <1>2, <1>3, <1>7, <2>1
    <3>2. \A k \in m.commands + 1..len : Asked(commands, k) = NoFile
      BY <1>11, <1>14, <2>4, <3>1
    <3> DEFINE b == later.commands
    <3> HIDE DEF b
    <3>3. b \in m.commands + 1..len /\ (b + 1) - 1 = b
      BY <1>2, <2>1, <2>2 DEF b
    <3>4. Asked(commands, b) = NoFile /\ commands[b].what # "nextdl"
      BY <2>2, <3>2, <3>3
    <3>5. commands[b + 1].what = "donedl" /\ CommandFits(commands, b + 1)
      BY <2>2 DEF b
    <3> QED
      BY <3>3, <3>4, <3>5 DEF CommandFits
  <2> HIDE DEF m, later
  <2>5. InOrder(m, later, c)
    BY <2>1, <2>3, <2>4 DEF InOrder
  <2> QED
    BY <2>5 DEF m, later
<1> QED
  BY <1>1, <1>6, <1>8, <1>9, <1>10, <1>12, <1>18, <1>19, <1>20, ServerMoves

LEMMA ReceivesGood ==
  ASSUME TypeOK, Good, ServerReceives
  PROVE  Good'
<1> DEFINE p == Head(toServer)
<1>1. ~Dropped(s) /\ toServer # <<>> /\ s' = SV_ExecuteClientMessage(s, p)
  BY DEF ServerReceives
<1>2. p \in PacketType /\ p.commands <= Len(commands) /\ p.commands \in Nat
  BY <1>1, FirstPacket
<1>3. s'.lastClientCommand <= Len(commands)
  BY <1>1, <1>2, MessageTypes
<1>4. CASE Tolerated(s, p)
  <2>1. /\ AllFit /\ ServerFits(s, commands) /\ LateFits(s, c)
        /\ Alive(c) => \A k \in 1..Len(commands) : Asked(commands, k) \in c.saved => Completed(commands, k)
    BY <1>1, GoodParts DEF Working
  <2>2. /\ Follows(s')
        /\ \/ s' = s /\ p.commands <= s.lastClientCommand
           \/ /\ p.commands > s.lastClientCommand
              /\ Dropped(s') \/ s'.lastClientCommand = p.commands
    BY <1>1, <1>2, <1>4, <2>1, Executes
  <2>3. CASE s' = s
    BY <2>3, NothingNew
  <2>4. CASE /\ p.commands > s.lastClientCommand
             /\ Dropped(s') \/ s'.lastClientCommand = p.commands
    BY <1>3, <1>4, <2>2, <2>4, CommandsExecuted
  <2> QED
    BY <2>2, <2>3, <2>4
<1>5. CASE ~Tolerated(s, p) /\ p.messageAcknowledge > 2 * Len(s.gamestates)
  BY <1>5, GamestateAgain
<1>6. CASE ~Tolerated(s, p) /\ ~(p.messageAcknowledge > 2 * Len(s.gamestates))
  <2>1. s' = s
    BY <1>1, <1>6 DEF SV_ExecuteClientMessage
  <2> QED
    BY <2>1, NothingNew
<1> QED
  BY <1>4, <1>5, <1>6

-----------------------------------------------------------------------------
(* The server's other moves. *)

LEMMA SpawnGood ==
  ASSUME TypeOK, Good, SV_SpawnServer
  PROVE  Good'
<1> DEFINE t == [s EXCEPT !.serverId = @ + 1]
<1>1. /\ ~Dropped(s) /\ s' = t /\ s.serverId + 1 \in Levels
      /\ UNCHANGED <<c, commands, toServer, toClient, losses>>
  BY DEF SV_SpawnServer
<1>2. s \in Server /\ s.serverId \in Nat
  BY Parts, ServerTypes
<1>3. /\ t \in Server /\ t.state = s.state /\ t.serverId = s.serverId + 1 /\ t.gamestates = s.gamestates
      /\ t.lastClientCommand = s.lastClientCommand
      /\ SameWindow(s, t) /\ SameFile(s, t) /\ t.clientBlock = s.clientBlock
  BY <1>1, <1>2 DEF Server, SameWindow, SameFile
<1> HIDE DEF t
<1>4. s.serverId <= t.serverId /\ Len(s.gamestates) <= Len(t.gamestates)
  <2>1. Len(s.gamestates) \in Nat
    BY <1>2, LenProperties DEF Server
  <2> QED
    BY <1>2, <1>3, <2>1
<1>5. ServerGood(t, c, commands) /\ ServerGoes(t) /\ ~Dropped(t) /\ (Idle(s, commands) => Idle(t, commands))
  BY <1>1, <1>3, <1>4, Unmoved, Zenon
<1>6. toClient \in Seq(MessageType) /\ toServer \in Seq(PacketType)
  BY Parts DEF PacketsOK
<1>7. PacketsFit(toServer, t, c, commands)
  <2>1. ASSUME NEW i \in 1..Len(toServer) PROVE PacketFits(toServer[i], t, c, commands)
    <3>1. toServer[i] \in PacketType /\ PacketFits(toServer[i], s, c, commands)
      BY <1>6, ElementOfSeq, GoodParts DEF PacketsFit
    <3>2. Alive(c) /\ toServer[i].serverId # c.serverId => Idle(t, commands)
      BY <1>1, <1>5, <3>1 DEF PacketFits
    <3> QED
      BY <1>1, <1>5, <3>1, <3>2, KeptPacket
  <2> QED
    BY <2>1, GoodParts DEF PacketsFit
<1>8. \A i \in 1..Len(toClient) :
        toClient[i].kind = "gamestate" /\ Alive(c) /\ toClient[i].serverId > c.serverId => Idle(t, commands)
  BY <1>1, <1>5, GoodParts DEF MessagesFit, MessageFits, GamestateFits
<1>9. toClient \o <<>> = toClient /\ <<>> \in Seq(MessageType) /\ \A i \in 1..Len(<<>>) : FALSE
  BY <1>6, NoneNew
<1> QED
  BY <1>1, <1>5, <1>7, <1>8, <1>9, ServerMoves

\* The server sends one message.
LEMMA ServerSends ==
  ASSUME TypeOK, Good, ~Dropped(s), ServerGoes(s'), UNCHANGED <<c, commands, toServer>>,
         ServerGood(s', c, commands), Idle(s, commands) => Idle(s', commands),
         NEW m \in MessageType, toClient' = Append(toClient, m), MessageFits(m, s', c, commands),
         \A i \in 1..Len(toClient) : InOrder(toClient[i], m, c)
  PROVE  Good'
<1>1. toClient \in Seq(MessageType) /\ toServer \in Seq(PacketType)
  BY Parts DEF PacketsOK
<1>2. PacketsFit(toServer', s', c, commands)
  <2>1. ASSUME NEW i \in 1..Len(toServer) PROVE PacketFits(toServer[i], s', c, commands)
    <3>1. toServer[i] \in PacketType /\ PacketFits(toServer[i], s, c, commands)
      BY <1>1, ElementOfSeq, GoodParts DEF PacketsFit
    <3>2. Alive(c) /\ toServer[i].serverId # c.serverId => Idle(s', commands)
      BY <3>1 DEF PacketFits
    <3> QED
      BY <3>1, <3>2, KeptPacket
  <2> QED
    BY <2>1, GoodParts DEF PacketsFit
<1>3. \A i \in 1..Len(toClient) :
        toClient[i].kind = "gamestate" /\ Alive(c) /\ toClient[i].serverId > c.serverId => Idle(s', commands)
  BY GoodParts DEF MessagesFit, MessageFits, GamestateFits
<1> DEFINE new == <<m>>
<1>4. toClient' = toClient \o new /\ new \in Seq(MessageType) /\ \A i \in 1..Len(new) : i = 1 /\ new[i] = m
  BY <1>1, OneNew
<1> HIDE DEF new
<1>5. \A i, j \in 1..Len(new) : ~(i < j)
  BY <1>4
<1>6. /\ \A i \in 1..Len(new) : MessageFits(new[i], s', c, commands)
      /\ \A i \in 1..Len(toClient), j \in 1..Len(new) : InOrder(toClient[i], new[j], c)
      /\ \A i, j \in 1..Len(new) : i < j => InOrder(new[i], new[j], c)
  BY <1>4, <1>5
<1> QED
  BY <1>2, <1>3, <1>4, <1>6, ServerMoves

\* What a message that is sent comes after.
LEMMA Behind ==
  ASSUME TypeOK, Good, NEW m \in MessageType, m.commands = s.lastClientCommand,
         m.number = 2 * Len(s.gamestates) + 1, NEW i \in 1..Len(toClient)
  PROVE  /\ toClient[i] \in MessageType /\ MessageFits(toClient[i], s, c, commands)
         /\ toClient[i].commands <= m.commands /\ toClient[i].number <= m.number
BY Parts, ElementOfSeq, GoodParts DEF MessagesFit, MessageFits

LEMMA SnapshotGood ==
  ASSUME TypeOK, Good, SV_SendClientSnapshot
  PROVE  Good'
<1> DEFINE m == Message(s, "snapshot")
<1>1. /\ ~Dropped(s) /\ toClient = <<>> /\ toClient' = <<m>> /\ UNCHANGED <<s, c, commands, toServer>>
  BY DEF SV_SendClientSnapshot
<1>2. s \in Server /\ Len(s.gamestates) \in Nat /\ s.serverId \in Nat /\ s.lastClientCommand \in Nat
  BY Parts, LenProperties, ServerTypes DEF Server
<1>3. ServerGood(s, c, commands) /\ ServerGoes(s)
  <2>1. s.serverId <= s.serverId /\ Len(s.gamestates) <= Len(s.gamestates)
    BY <1>2
  <2> QED
    BY <1>1, <1>2, <2>1, Unmoved DEF SameWindow, SameFile
<1>4. /\ m \in MessageType /\ m.kind = "snapshot" /\ m.number = 2 * Len(s.gamestates) + 1
      /\ m.commands = s.lastClientCommand
  BY <1>2 DEF Message, MessageType
<1> HIDE DEF m
<1>5. toClient' = Append(toClient, m) /\ \A i \in 1..Len(toClient) : FALSE
  BY <1>1
<1>6. MessageFits(m, s, c, commands)
  <2>1. c.messageNum <= m.number /\ c.reliableAcknowledge <= m.commands
    BY <1>4, GoodParts DEF ClientFits
  <2> QED
    BY <1>2, <1>4, <2>1 DEF MessageFits
<1> QED
  BY <1>1, <1>3, <1>4, <1>5, <1>6, ServerSends

LEMMA RefuseGood ==
  ASSUME TypeOK, Good, RefuseDownload
  PROVE  Good'
<1> DEFINE m == Message(s, "refusal")
           t == [s EXCEPT !.downloadName = NoFile]
           f == s.downloadName
           n == s.lastClientCommand
<1>1. /\ ~Dropped(s) /\ f \in Refused /\ toClient' = Append(toClient, m) /\ UNCHANGED <<c, commands, toServer>>
      /\ s' = t
  BY DEF RefuseDownload
<1>2. /\ s \in Server /\ Len(s.gamestates) \in Nat /\ s.serverId \in Nat /\ n \in Nat
      /\ n <= Len(commands) /\ f # NoFile
  BY <1>1, Parts, LenProperties, ServerTypes, PaksAssumption, Constants DEF Server
<1>3. /\ m \in MessageType /\ m.kind = "refusal" /\ m.number = 2 * Len(s.gamestates) + 1
      /\ m.commands = n
  BY <1>2 DEF Message, MessageType
<1>4. /\ t \in Server /\ t.downloadName = NoFile /\ t.serverId = s.serverId /\ t.lastClientCommand = n
      /\ t.download = s.download /\ t.state = s.state /\ t.gamestates = s.gamestates
  BY <1>2 DEF Server, AnyFile
<1> HIDE DEF m, t
<1>5. ServerFits(s, commands) /\ LateFits(s, c) /\ (Alive(c) => KnownFits(s, c, commands))
  BY <1>1, GoodParts
<1>6. f = Asked(commands, n) /\ s.download = NoFile
  BY <1>1, <1>2, <1>5 DEF ServerFits, OpenFits
<1>7. \A k \in n + 1..Len(commands) : commands[k].what # "nextdl"
  BY <1>1, <1>5, <1>6 DEF ServerFits, PendingFits
<1>8. ~Dropped(t) /\ ~Idle(s, commands)
  BY <1>1, <1>2, <1>4 DEF Dropped, Idle
<1>9. ServerFits(t, commands)
  BY <1>1, <1>4, <1>6, <1>7 DEF ServerFits, OpenFits
<1>10. LateFits(t, c)
  BY <1>4, ClientNumbers, Constants DEF LateFits
<1>11. Alive(c) => KnownFits(t, c, commands)
  BY <1>4, <1>5, <1>8 DEF KnownFits
<1>12. ServerGood(t, c, commands)
  BY <1>8, <1>9, <1>10, <1>11 DEF ServerGood
<1>13. ServerGoes(t)
  <2>1. s.serverId <= t.serverId /\ Len(s.gamestates) <= Len(t.gamestates) /\ n <= t.lastClientCommand
    BY <1>2, <1>4
  <2> QED
    BY <1>1, <1>2, <1>4, <2>1 DEF ServerGoes
<1>14. MessageFits(m, t, c, commands)
  <2>1. c.messageNum <= m.number /\ c.reliableAcknowledge <= m.commands
    BY <1>3, GoodParts DEF ClientFits
  <2> QED
    BY <1>2, <1>3, <1>4, <2>1 DEF MessageFits
<1>15. ASSUME NEW i \in 1..Len(toClient) PROVE InOrder(toClient[i], m, c)
  <2>1. toClient[i].kind = "gamestate" /\ Alive(c) => ~(toClient[i].serverId > c.serverId)
    BY <1>1, <1>8, GoodParts DEF MessagesFit, MessageFits, GamestateFits
  <2> QED
    BY <1>3, <2>1, Behind DEF InOrder
<1> QED
  BY <1>1, <1>3, <1>8, <1>12, <1>13, <1>14, <1>15, ServerSends

\* The server t that sends block m of a file.
Sends(t, m) ==
  LET f == s.downloadName
  IN /\ t \in Server /\ t.state = s.state /\ t.serverId = s.serverId /\ t.gamestates = s.gamestates
     /\ t.lastClientCommand = s.lastClientCommand /\ t.downloadName = f /\ t.download = f
     /\ WindowFits(t) /\ (t.currentBlock >= W \/ t.currentBlock = Blocks[f] + 1)
     /\ t.clientBlock = IF s.download = NoFile THEN 0 ELSE s.clientBlock
     /\ s.download # NoFile => s.currentBlock <= t.currentBlock
     /\ s.download # NoFile => m.block \in {s.xmitBlock, t.clientBlock}
     /\ m \in MessageType /\ m.kind = "download" /\ m.number = 2 * Len(s.gamestates) + 1
     /\ m.commands = s.lastClientCommand /\ m.block \in Nat /\ m.data.file = f
     /\ m.data.index = m.block \/ m.block < t.clientBlock
     /\ m.block < t.currentBlock /\ t.xmitBlock = m.block + 1

LEMMA BlockSent ==
  ASSUME TypeOK, Good, SV_WriteDownloadToClient
  PROVE  /\ ~Dropped(s) /\ s.downloadName \in File \ Refused /\ UNCHANGED <<c, commands, toServer>>
         /\ \E m : Sends(s', m) /\ toClient' = Append(toClient, m)
<1> DEFINE f == s.downloadName
           ready == Resent(Filled(Opened(s)))
           i == ready.xmitBlock
           data == ready.blocks[i % MAX_DOWNLOAD_WINDOW]
           t == [ready EXCEPT !.xmitBlock = @ + 1]
           m == [kind |-> "download", number |-> Message(s, "download").number,
                 commands |-> s.lastClientCommand, block |-> i, data |-> data]
<1>1. /\ ~Dropped(s) /\ f \notin Refused \cup {NoFile} /\ UNCHANGED <<c, commands, toServer>>
      /\ i < ready.currentBlock /\ s' = t /\ toClient' = Append(toClient, m)
  BY DEF SV_WriteDownloadToClient
<1>2. /\ s \in Server /\ f \in File /\ Len(s.gamestates) \in Nat /\ s.lastClientCommand \in Nat
  BY <1>1, Parts, ServerTypes, LenProperties DEF Server
<1>3. /\ s.download # NoFile => s.download = s.downloadName /\ WindowFits(s)
      /\ s.download # NoFile => s.xmitBlock <= s.currentBlock
  BY <1>1, GoodParts DEF ServerFits, OpenFits, Kept
<1>4. /\ SameDownload(s, ready) /\ WindowFits(ready) /\ ready.download = f
      /\ ready.clientBlock = IF s.download = NoFile THEN 0 ELSE s.clientBlock
      /\ s.download # NoFile => s.currentBlock <= ready.currentBlock
      /\ ready.currentBlock >= W \/ ready.currentBlock = Blocks[ready.downloadName] + 1
      /\ s.download # NoFile => i = s.xmitBlock \/ i = ready.clientBlock
  BY <1>2, <1>3, ReadyWindow
<1>5. Message(s, "download").number = 2 * Len(s.gamestates) + 1
  BY DEF Message
<1> HIDE DEF ready
<1>6. /\ ready \in Server /\ ready.serverId = s.serverId /\ ready.state = s.state
      /\ ready.gamestates = s.gamestates /\ ready.lastClientCommand = s.lastClientCommand
      /\ ready.downloadName = f
  BY <1>4 DEF SameDownload
<1>7. i \in Nat /\ ready.currentBlock \in Nat /\ ready.clientBlock \in Nat
  BY <1>6, ServerTypes
<1>8. i \in 0..ready.currentBlock - 1 /\ i % W \in Slots
  BY <1>1, <1>7, SlotOf
<1>9. data.file = f /\ (i >= ready.clientBlock => data.index = i)
  BY <1>4, <1>6, <1>8 DEF WindowFits, W
<1>10. data \in Block \cup {Unread}
  BY <1>6, <1>8 DEF Server, W
<1> HIDE DEF data
<1>11. /\ m \in MessageType /\ m.kind = "download" /\ m.number = 2 * Len(s.gamestates) + 1
       /\ m.commands = s.lastClientCommand /\ m.block = i /\ m.data = data
  BY <1>2, <1>5, <1>7, <1>10 DEF MessageType
<1> HIDE DEF m
<1>12. i + 1 \in Nat
  BY <1>7
<1>13. /\ t \in Server /\ t.serverId = ready.serverId /\ t.state = ready.state
       /\ t.gamestates = ready.gamestates /\ t.lastClientCommand = ready.lastClientCommand
       /\ t.downloadName = ready.downloadName /\ t.download = ready.download
       /\ t.currentBlock = ready.currentBlock /\ t.clientBlock = ready.clientBlock
       /\ t.xmitBlock = i + 1 /\ t.blocks = ready.blocks
  BY <1>6, <1>12 DEF Server
<1> HIDE DEF t
<1>14. WindowFits(t)
  BY <1>4, <1>13 DEF WindowFits
<1>15. m.data.index = m.block \/ m.block < t.clientBlock
  BY <1>7, <1>9, <1>11, <1>13
<1>16. Sends(t, m)
  BY <1>1, <1>4, <1>6, <1>7, <1>9, <1>11, <1>13, <1>14, <1>15 DEF Sends
<1> QED
  BY <1>1, <1>2, <1>16

\* What the server sends comes from the end of the file once the client has it.
LEMMA SendsLate ==
  ASSUME TypeOK, Good, s.downloadName \in File, NEW t, NEW m, Sends(t, m), Late(s)
  PROVE  Late(t) /\ m.block > Blocks[s.downloadName] - W
<1> DEFINE f == s.downloadName
<1>1. /\ s.download # NoFile /\ s.currentBlock = Blocks[f] + 1 /\ s.xmitBlock > Blocks[f] - W
  BY DEF Late
<1>2. /\ t.downloadName = f /\ t.download = f /\ s.currentBlock <= t.currentBlock
      /\ m.block \in {s.xmitBlock, t.clientBlock} /\ t.xmitBlock = m.block + 1 /\ m.block \in Nat
      /\ t.currentBlock <= Blocks[f] + 1 /\ t.currentBlock <= t.clientBlock + W
      /\ t \in Server
  BY <1>1 DEF Sends, WindowFits
<1>3. t.currentBlock \in Nat /\ t.clientBlock \in Nat /\ Blocks[f] \in Nat /\ W \in Nat /\ f # NoFile
  BY <1>2, ServerTypes, Constants
<1>4. t.currentBlock = Blocks[f] + 1
  BY <1>1, <1>2, <1>3
<1>5. t.clientBlock > Blocks[f] - W
  BY <1>2, <1>3, <1>4
<1>6. m.block > Blocks[f] - W
  BY <1>1, <1>2, <1>5
<1>7. t.xmitBlock > Blocks[f] - W
  BY <1>2, <1>3, <1>6
<1> QED
  BY <1>2, <1>3, <1>4, <1>6, <1>7 DEF Late

LEMMA SendsFits ==
  ASSUME TypeOK, Good, ~Dropped(s), s.downloadName \in File \ Refused, NEW t, NEW m, Sends(t, m)
  PROVE  /\ ServerGood(t, c, commands) /\ ServerGoes(t) /\ ~Dropped(t) /\ ~Idle(s, commands)
         /\ Sent(t, m.block, commands) /\ s.downloadName = Asked(commands, s.lastClientCommand)
<1> DEFINE f == s.downloadName
           n == s.lastClientCommand
<1>1. /\ t \in Server /\ t.state = s.state /\ t.serverId = s.serverId /\ t.gamestates = s.gamestates
      /\ t.lastClientCommand = n /\ t.downloadName = f /\ t.download = f
      /\ WindowFits(t) /\ (t.currentBlock >= W \/ t.currentBlock = Blocks[f] + 1)
      /\ t.clientBlock = IF s.download = NoFile THEN 0 ELSE s.clientBlock
      /\ s.download # NoFile => s.currentBlock <= t.currentBlock
      /\ m.block \in Nat /\ m.block < t.currentBlock /\ t.xmitBlock = m.block + 1
  BY DEF Sends
<1>2. /\ s \in Server /\ f # NoFile /\ Blocks[f] \in Nat /\ W \in Nat /\ s.serverId \in Nat /\ n \in Nat
      /\ s.currentBlock \in Nat /\ t.currentBlock \in Nat /\ t.clientBlock \in Nat
      /\ Len(s.gamestates) \in Nat /\ n <= Len(commands)
  BY <1>1, Parts, ServerTypes, Constants, LenProperties DEF Server
<1>3. ServerFits(s, commands) /\ LateFits(s, c) /\ (Alive(c) => KnownFits(s, c, commands))
  BY GoodParts
<1>4. f = Asked(commands, n) /\ OpenFits(s, commands)
  BY <1>2, <1>3 DEF ServerFits
<1>5. Acked(commands, n) \in Nat
  <2>1. n \in 0..Len(commands)
    BY <1>2, Parts
  <2> QED
    BY <2>1, QueueTypes, Parts
<1>6. Kept(t, commands)
  <2>1. s.download # NoFile => s.clientBlock <= Acked(commands, n)
    BY <1>4 DEF OpenFits, Kept
  <2>2. t.clientBlock <= Acked(commands, n)
    BY <1>1, <1>5, <2>1
  <2> QED
    BY <1>1, <2>2 DEF Kept
<1>7. ASSUME NEW i \in Nat, Sent(s, i, commands) PROVE Sent(t, i, commands)
  <2>1. i < s.currentBlock /\ WindowFits(s) /\ (s.download = NoFile => s.currentBlock <= W)
    BY <1>7 DEF Sent, Kept
  <2>2. s.currentBlock <= Blocks[f] + 1
    BY <2>1 DEF WindowFits
  <2>3. s.currentBlock <= t.currentBlock
    BY <1>1, <1>2, <2>1, <2>2
  <2>4. i < t.currentBlock
    BY <1>2, <2>1, <2>3
  <2> QED
    BY <1>1, <1>2, <1>6, <2>4 DEF Sent
<1>8. Late(s) => Late(t)
  BY SendsLate
<1>9. Carries(s, t)
  BY <1>1, <1>2, <1>7, <1>8 DEF Carries
<1>10. ~Dropped(t) /\ ~Idle(s, commands)
  BY <1>1, <1>2 DEF Dropped, Idle
<1>11. \A k \in n + 1..Len(commands) : commands[k].what = "nextdl" => PendingFits(t, k, commands)
  <2>1. ASSUME NEW k \in n + 1..Len(commands), commands[k].what = "nextdl" PROVE PendingFits(t, k, commands)
    <3>1. PendingFits(s, k, commands)
      BY <1>3, <2>1 DEF ServerFits
    <3>2. k \in 1..Len(commands)
      BY <1>2, Parts
    <3>3. commands[k].which \in Nat
      BY <3>2, QueueTypes, Parts
    <3>4. Sent(t, commands[k].which, commands)
      BY <1>7, <3>1, <3>3 DEF PendingFits
    <3> QED
      BY <1>1, <1>2, <3>1, <3>4 DEF PendingFits
  <2> QED
    BY <2>1
<1>12. OpenFits(t, commands)
  <2>1. t.xmitBlock <= t.currentBlock
    BY <1>1, <1>2
  <2> QED
    BY <1>1, <1>6, <2>1 DEF OpenFits
<1>13. s.serverId <= 2 => t.clientBlock = Acked(commands, n)
  BY <1>1, <1>2, <1>3 DEF ServerFits
<1>14. ServerFits(t, commands)
  BY <1>1, <1>2, <1>4, <1>11, <1>12, <1>13 DEF ServerFits
<1>15. LateFits(t, c)
  BY <1>1, <1>3, <1>8 DEF LateFits
<1>16. Alive(c) => KnownFits(t, c, commands)
  BY <1>1, <1>2, <1>3, <1>10 DEF KnownFits
<1>17. ServerGood(t, c, commands)
  BY <1>10, <1>14, <1>15, <1>16 DEF ServerGood
<1>18. ServerGoes(t)
  <2>1. s.serverId <= t.serverId /\ Len(s.gamestates) <= Len(t.gamestates) /\ n <= t.lastClientCommand
    BY <1>1, <1>2
  <2> QED
    BY <1>1, <1>2, <1>9, <2>1 DEF ServerGoes
<1>19. Sent(t, m.block, commands)
  BY <1>1, <1>2, <1>6 DEF Sent
<1> QED
  BY <1>4, <1>10, <1>17, <1>18, <1>19

LEMMA SentFits ==
  ASSUME TypeOK, Good, ~Dropped(s), s.downloadName \in File \ Refused, NEW t, NEW m, Sends(t, m)
  PROVE  MessageFits(m, t, c, commands)
<1> DEFINE f == s.downloadName
           n == s.lastClientCommand
           len == Len(commands)
<1>1. /\ t \in Server /\ t.serverId = s.serverId /\ t.gamestates = s.gamestates
      /\ t.lastClientCommand = n /\ t.downloadName = f /\ t.download = f
      /\ WindowFits(t) /\ (s.download # NoFile => m.block \in {s.xmitBlock, t.clientBlock})
      /\ m \in MessageType /\ m.kind = "download" /\ m.number = 2 * Len(s.gamestates) + 1
      /\ m.commands = n /\ m.block \in Nat /\ m.data.file = f
      /\ (m.data.index = m.block \/ m.block < t.clientBlock)
      /\ m.block < t.currentBlock /\ t.xmitBlock = m.block + 1
  BY DEF Sends
<1>2. /\ s \in Server /\ f # NoFile /\ f \in File /\ Blocks[f] \in Nat /\ W \in Nat /\ W > 0 /\ n \in Nat
      /\ t.currentBlock \in Nat /\ t.clientBlock \in Nat
      /\ Len(s.gamestates) \in Nat /\ n <= len /\ len \in Nat
  BY <1>1, Parts, ServerTypes, Constants, LenProperties DEF Server
<1>3. /\ ServerGood(t, c, commands) /\ ~Dropped(t) /\ ~Idle(s, commands)
      /\ Sent(t, m.block, commands) /\ f = Asked(commands, n)
  BY SendsFits
<1>4. ServerFits(s, commands) /\ LateFits(s, c) /\ (Alive(c) => KnownFits(s, c, commands))
  BY GoodParts
<1>5. m.block <= Blocks[f] /\ m.block < Acked(commands, n) + W
  <2>1. n \in 0..len /\ Proper(commands)
    BY <1>2, Parts
  <2>2. Acked(commands, n) \in Nat /\ t.clientBlock <= Acked(commands, n)
    BY <1>1, <1>3, <2>1, QueueTypes DEF Sent, Kept
  <2>3. t.currentBlock <= Blocks[f] + 1 /\ t.currentBlock <= t.clientBlock + W
    BY <1>1 DEF WindowFits
  <2> QED
    BY <1>1, <1>2, <2>2, <2>3
<1>6. ASSUME Alive(c)
      PROVE  /\ Since(commands, n, c, s.serverId)
             /\ NoShort /\ f \in c.saved => m.block > Blocks[f] - W
  <2>1. Since(commands, n, c, s.serverId)
    BY <1>2, <1>4, <1>6 DEF KnownFits
  <2>2. NoShort /\ f \in c.saved => m.block > Blocks[f] - W
    BY <1>2, <1>4, <1>6, SendsLate DEF LateFits
  <2> QED
    BY <2>1, <2>2
<1>7. ASSUME Alive(c), f = c.downloadName PROVE OwnFits(m, t, c, commands)
  <2>1. f \notin c.saved /\ c.downloadBlock = Acked(commands, len)
    BY <1>2, <1>7, GoodParts DEF Working
  <2>2. Holds(commands, n, s.serverId)
    BY <1>2, <1>3, <1>6, <1>7, <2>1 DEF Since
  <2>3. n \in n..len /\ len \in n..len /\ n \in 0..len /\ len \in 0..len
    BY <1>2
  <2>4. Acked(commands, n) <= Acked(commands, len)
    BY <1>2, <1>3, <2>2, <2>3, AckedGrows, GoodParts DEF AllFit
  <2>5. t.clientBlock <= Acked(commands, n)
    BY <1>1, <1>3 DEF Sent, Kept
  <2>6. Acked(commands, n) \in Nat /\ Acked(commands, len) \in Nat
    BY <2>3, QueueTypes, Parts
  <2>7. m.data.index = m.block \/ m.block < c.downloadBlock
    BY <1>1, <1>2, <2>1, <2>4, <2>5, <2>6
  <2>8. ASSUME m.block = Blocks[f] PROVE Late(t)
    <3>1. t.currentBlock <= Blocks[f] + 1
      BY <1>1 DEF WindowFits
    <3>2. t.currentBlock = Blocks[f] + 1 /\ t.xmitBlock > Blocks[f] - W
      BY <1>1, <1>2, <2>8, <3>1
    <3> QED
      BY <1>1, <1>2, <3>2 DEF Late
  <2> QED
    BY <1>1, <1>2, <1>3, <2>7, <2>8 DEF OwnFits
<1>8. ASSUME Alive(c), c.downloadName # NoFile, c.downloadBlock > 0 PROVE f = c.downloadName
  <2> SUFFICES ASSUME f # c.downloadName PROVE FALSE
    OBVIOUS
  <2>1. c.downloadName = Asked(commands, len) /\ c.downloadBlock = Acked(commands, len)
    BY <1>8, GoodParts DEF Working
  <2>2. len # 0 /\ commands[len].what = "nextdl"
    BY <1>8, <2>1 DEF Acked
  <2>3. n # len
    BY <1>3, <2>1
  <2>4. len \in n + 1..len /\ len - 1 \in n..len - 1 /\ len \in 1..len
    BY <1>2, <2>2, <2>3
  <2>5. PendingFits(s, len, commands)
    BY <1>4, <2>2, <2>4 DEF ServerFits
  <2>6. Asked(commands, len - 1) = f
    BY <1>3, <2>4, <2>5 DEF PendingFits
  <2>7. CommandFits(commands, len)
    BY <2>4, GoodParts DEF AllFit
  <2>8. commands[len].file = NoFile \/ commands[len].file = f
    BY <2>2, <2>6, <2>7 DEF CommandFits
  <2>9. Asked(commands, len) = commands[len].file
    BY <2>2 DEF Asked
  <2> QED
    BY <1>8, <2>1, <2>8, <2>9
<1>9. BlockFits(m, t, c, commands)
  BY <1>1, <1>2, <1>3, <1>5, <1>6, <1>7, <1>8 DEF BlockFits
<1>10. /\ c.messageNum <= m.number /\ m.number <= 2 * Len(t.gamestates) + 1
       /\ c.reliableAcknowledge <= m.commands /\ m.commands <= t.lastClientCommand
  <2>1. c.messageNum <= m.number /\ c.reliableAcknowledge <= m.commands
    BY <1>1, GoodParts DEF ClientFits
  <2> QED
    BY <1>1, <1>2, <2>1
<1> QED
  BY <1>1, <1>9, <1>10 DEF MessageFits

LEMMA SentInOrder ==
  ASSUME TypeOK, Good, ~Dropped(s), s.downloadName \in File \ Refused, NEW t, NEW m, Sends(t, m),
         NEW i \in 1..Len(toClient)
  PROVE  InOrder(toClient[i], m, c)
<1> DEFINE f == s.downloadName
           n == s.lastClientCommand
           before == toClient[i]
<1>1. m \in MessageType /\ m.kind = "download" /\ m.number = 2 * Len(s.gamestates) + 1
      /\ m.commands = n /\ m.block \in Nat /\ m.data.file = f
  BY DEF Sends
<1>2. /\ before \in MessageType /\ MessageFits(before, s, c, commands)
      /\ before.commands <= m.commands /\ before.number <= m.number /\ before.commands \in Nat
      /\ before.kind = "download" => before.block \in Nat
  BY <1>1, Behind, MessageNumbers
<1> HIDE DEF before
<1>3. f \in File /\ f # NoFile /\ Blocks[f] \in Nat /\ W \in Nat /\ n \in Nat /\ n <= Len(commands) /\ Len(commands) \in Nat
  BY Constants, Parts
<1>4. ~Idle(s, commands) /\ f = Asked(commands, n)
  BY SendsFits
<1>5. before.kind = "gamestate" /\ Alive(c) => ~(before.serverId > c.serverId)
  BY <1>2, <1>4 DEF MessageFits, GamestateFits
<1>6. ASSUME Alive(c), before.kind = "download"
      PROVE  /\ before.data.file = c.downloadName => f = c.downloadName
             /\ NoShort /\ before.data.file = f /\ before.block = Blocks[f] => m.block > before.block - W
  <2>1. BlockFits(before, s, c, commands)
    BY <1>2, <1>6 DEF MessageFits
  <2>2. ASSUME before.data.file = c.downloadName PROVE f = c.downloadName
    <3>1. before.data.file = Asked(commands, before.commands) /\ before.data.file \in File
      BY <2>1 DEF BlockFits
    <3>2. before.data.file # NoFile /\ before.data.file \notin c.saved
      BY <1>6, <2>2, <3>1, Constants, GoodParts DEF Working
    <3>3. Holds(commands, before.commands, s.serverId)
      BY <1>6, <2>1, <3>1, <3>2 DEF BlockFits, Since
    <3>4. n \in before.commands..Len(commands)
      BY <1>1, <1>2, <1>3
    <3>5. Asked(commands, n) = Asked(commands, before.commands)
      BY <1>2, <3>3, <3>4, HoldsFrom, Parts
    <3> QED
      BY <1>4, <2>2, <3>1, <3>5
  <2>3. ASSUME NoShort, before.data.file = f, before.block = Blocks[f] PROVE m.block > before.block - W
    <3>1. Late(s)
      <4>1. CASE f \in c.saved
        BY <1>6, <2>3, <4>1, GoodParts DEF LateFits
      <4>2. CASE f \notin c.saved
        <5>1. f = Asked(commands, before.commands)
          BY <2>1, <2>3 DEF BlockFits
        <5>2. f = c.downloadName
          BY <1>3, <1>6, <2>1, <4>2, <5>1 DEF BlockFits, Since
        <5>3. OwnFits(before, s, c, commands)
          BY <1>6, <2>1, <2>3, <5>2 DEF BlockFits
        <5> QED
          BY <2>3, <5>3 DEF OwnFits
      <4> QED
        BY <4>1, <4>2
    <3> QED
      BY <1>3, <2>3, <3>1, SendsLate
  <2> QED
    BY <2>2, <2>3
<1>7. InOrder(before, m, c)
  BY <1>1, <1>2, <1>5, <1>6 DEF InOrder
<1> QED
  BY <1>7 DEF before

LEMMA WriteGood ==
  ASSUME TypeOK, Good, SV_WriteDownloadToClient
  PROVE  Good'
<1>1. PICK m :
        /\ ~Dropped(s) /\ s.downloadName \in File \ Refused /\ UNCHANGED <<c, commands, toServer>>
        /\ Sends(s', m) /\ toClient' = Append(toClient, m)
  BY BlockSent
<1>2. ServerGood(s', c, commands) /\ ServerGoes(s') /\ ~Idle(s, commands)
  BY <1>1, SendsFits
<1>3. m \in MessageType /\ MessageFits(m, s', c, commands)
  BY <1>1, SentFits DEF Sends
<1>4. \A i \in 1..Len(toClient) : InOrder(toClient[i], m, c)
  BY <1>1, SentInOrder
<1> QED
  BY <1>1, <1>2, <1>3, <1>4, ServerSends

-----------------------------------------------------------------------------
(* The network, and the packets of the client. *)

LEMMA LoseGood ==
  ASSUME TypeOK, Good, Lose
  PROVE  Good'
<1>1. /\ toServer \in Seq(PacketType) /\ toClient \in Seq(MessageType)
      /\ DOMAIN toServer = 1..Len(toServer) /\ DOMAIN toClient = 1..Len(toClient)
  BY Parts, LenProperties DEF PacketsOK
<1>2. UNCHANGED <<s, c, commands>>
  BY DEF Lose
<1>3. toClient' \in Seq(MessageType) /\ PartOf(toClient', toClient)
  <2>1. \/ toClient' = toClient
        \/ \E i \in DOMAIN toClient : toClient' = RemoveAt(toClient, i)
    BY DEF Lose
  <2> QED
    BY <1>1, <2>1, RemovedPart, WholeIsPart
<1>4. toServer' \in Seq(PacketType) /\ PartOf(toServer', toServer)
  <2>1. \/ toServer' = toServer
        \/ \E i \in DOMAIN toServer : toServer' = RemoveAt(toServer, i)
    BY DEF Lose
  <2> QED
    BY <1>1, <2>1, RemovedPart, WholeIsPart
<1>5. MessagesFit(toClient', s, c, commands)
  <2>1. /\ toClient' \o <<>> = toClient' /\ <<>> \in Seq(MessageType) /\ \A i \in 1..Len(<<>>) : FALSE
    BY <1>3, NoneNew
  <2>2. MessagesFit(toClient' \o <<>>, s, c, commands)
    BY <1>1, <1>3, <2>1, GoodParts, MessagesGoOn DEF MessagesFit
  <2> QED
    BY <2>1, <2>2
<1>6. PacketsFit(toServer', s, c, commands)
  <2>1. /\ toServer' \o <<>> = toServer' /\ <<>> \in Seq(PacketType) /\ \A i \in 1..Len(<<>>) : FALSE
    BY <1>4, NoneNew
  <2>2. /\ \A i \in 1..Len(toServer) : PacketFits(toServer[i], s, c, commands)
        /\ \A i, j \in 1..Len(toServer) : i < j => toServer[i].serverId <= toServer[j].serverId
    BY GoodParts DEF PacketsFit
  <2>3. PacketsFit(toServer' \o <<>>, s, c, commands)
    BY <1>1, <1>4, <2>1, <2>2, PacketsGoOn
  <2> QED
    BY <2>1, <2>3
<1> QED
  BY <1>2, <1>5, <1>6 DEF Good

\* The client speaks of its own level, and of all its commands.
LEMMA NewestPacket ==
  ASSUME NEW client \in Client, NEW server, NEW q, Proper(q), Alive(client) => Working(client, q),
         NEW p, p = Packet(client, Len(q))
  PROVE  p \in PacketType /\ p.serverId = client.serverId /\ PacketFits(p, server, client, q)
<1>1. Len(q) \in Nat /\ client.messageNum \in Nat /\ client.serverId \in Nat /\ client.serverId \in Levels \cup {0}
  BY QueueTypes, Constants DEF Client
<1>2. /\ p \in PacketType /\ p.serverId = client.serverId /\ p.messageAcknowledge = client.messageNum
      /\ p.commands = Len(q)
  BY <1>1 DEF Packet, PacketType
<1>3. \A j \in Len(q)..Len(q) : j = Len(q) /\ ~(j > Len(q))
  BY <1>1
<1>4. Holds(q, Len(q), server.serverId)
  BY <1>3 DEF Holds
<1>5. \A j \in Len(q) + 1..Len(q) : FALSE
  BY <1>1
<1>6. Calm(q, Len(q))
  BY <1>5 DEF Calm
<1>7. Alive(client) => Since(q, Len(q), client, server.serverId)
  BY <1>4 DEF Since, Working
<1> QED
  BY <1>1, <1>2, <1>6, <1>7 DEF PacketFits

LEMMA WritePacketGood ==
  ASSUME TypeOK, Good, CL_WritePacket
  PROVE  Good'
<1> DEFINE p == Packet(c, Len(commands))
           new == <<p>>
<1>1. /\ toServer' = Append(toServer, p) /\ UNCHANGED <<s, c, commands, toClient>>
  BY DEF CL_WritePacket
<1>2. toServer \in Seq(PacketType)
  BY Parts DEF PacketsOK
<1>3. p \in PacketType /\ p.serverId = c.serverId /\ PacketFits(p, s, c, commands)
  BY ClientNumbers, GoodParts, NewestPacket
<1> HIDE DEF p
<1>4. toServer' = toServer \o new /\ new \in Seq(PacketType) /\ \A i \in 1..Len(new) : i = 1 /\ new[i] = p
  BY <1>1, <1>2, <1>3, OneNew
<1> HIDE DEF new
<1>5. \A i, j \in 1..Len(new) : ~(i < j)
  BY <1>4
<1>6. \A i \in 1..Len(toServer), j \in 1..Len(new) : toServer[i].serverId <= new[j].serverId
  BY <1>3, <1>4, GoodParts DEF PacketsFit, PacketFits
<1>7. PartOf(toServer, toServer)
  BY <1>2, WholeIsPart
<1>8. /\ \A i \in 1..Len(toServer) : PacketFits(toServer[i], s, c, commands)
      /\ \A i, j \in 1..Len(toServer) : i < j => toServer[i].serverId <= toServer[j].serverId
  BY GoodParts DEF PacketsFit
<1>9. /\ \A i \in 1..Len(new) : PacketFits(new[i], s, c, commands)
      /\ \A i, j \in 1..Len(new) : i < j => new[i].serverId <= new[j].serverId
  BY <1>3, <1>4, <1>5
<1>10. PacketsFit(toServer \o new, s, c, commands)
  BY <1>2, <1>4, <1>6, <1>7, <1>8, <1>9, PacketsGoOn
<1> QED
  BY <1>1, <1>4, <1>10 DEF Good

-----------------------------------------------------------------------------
(* ClientReceives: the message that arrives. *)

Sound(client, q, messages, packets) ==
  /\ CommandsFit(q, client) /\ ClientFits(client, s, q) /\ ServerGood(s, client, q)
  /\ MessagesFit(messages, s, client, q) /\ PacketsFit(packets, s, client, q)

SameFiles(x, y) ==
  /\ y.state = x.state /\ y.serverId = x.serverId /\ y.downloadList = x.downloadList
  /\ y.downloadRestart = x.downloadRestart /\ y.downloadName = x.downloadName
  /\ y.downloadBlock = x.downloadBlock /\ y.download = x.download /\ y.written = x.written
  /\ y.saved = x.saved /\ y.mixed = x.mixed

LEMMA FilesFit ==
  ASSUME NEW x, NEW y, SameFiles(x, y), NEW q
  PROVE  /\ Alive(x) <=> Alive(y)
         /\ Working(x, q) <=> Working(y, q)
         /\ CommandsFit(q, x) <=> CommandsFit(q, y)
         /\ ServerGood(s, x, q) <=> ServerGood(s, y, q)
         /\ \A m : BlockFits(m, s, x, q) <=> BlockFits(m, s, y, q)
         /\ \A a, level : Since(q, a, x, level) <=> Since(q, a, y, level)
         /\ \A m, later : InOrder(m, later, x) <=> InOrder(m, later, y)
<1>1. Alive(x) <=> Alive(y)
  BY DEF Alive, SameFiles
<1>2. \A a, level : Since(q, a, x, level) <=> Since(q, a, y, level)
  BY DEF Since, SameFiles
<1>3. Working(x, q) <=> Working(y, q)
  <2>1. ListFits(x) <=> ListFits(y)
    BY DEF ListFits, SameFiles
  <2>2. FileFits(x) <=> FileFits(y)
    BY DEF FileFits, SameFiles
  <2> QED
    BY <2>1, <2>2 DEF Working, SameFiles
<1>4. CommandsFit(q, x) <=> CommandsFit(q, y)
  BY DEF CommandsFit, CutFits, SameFiles
<1>5. ServerGood(s, x, q) <=> ServerGood(s, y, q)
  <2>1. LateFits(s, x) <=> LateFits(s, y)
    BY <1>1 DEF LateFits, SameFiles
  <2>2. KnownFits(s, x, q) <=> KnownFits(s, y, q)
    BY <1>2 DEF KnownFits
  <2> QED
    BY <1>1, <2>1, <2>2 DEF ServerGood
<1>6. \A m : BlockFits(m, s, x, q) <=> BlockFits(m, s, y, q)
  <2>1. \A m : OwnFits(m, s, x, q) <=> OwnFits(m, s, y, q)
    BY DEF OwnFits, SameFiles
  <2> QED
    BY <1>1, <1>2, <2>1 DEF BlockFits, SameFiles
<1>7. \A m, later : InOrder(m, later, x) <=> InOrder(m, later, y)
  BY <1>1 DEF InOrder, SameFiles
<1> QED
  BY <1>1, <1>2, <1>3, <1>4, <1>5, <1>6, <1>7

\* The client with the numbers of message m.
Told(client, m) == [client EXCEPT !.messageNum = m.number, !.reliableAcknowledge = m.commands]

LEMMA Arrived ==
  ASSUME TypeOK, Good, toClient # <<>>
  PROVE  LET m == Head(toClient)
             rest == Tail(toClient)
             client == Told(c, m)
         IN /\ m \in MessageType /\ MessageFits(m, s, c, commands) /\ rest \in Seq(MessageType)
            /\ ClientOK(client) /\ SameFiles(c, client)
            /\ client.messageNum = m.number /\ client.reliableAcknowledge = m.commands
            /\ Sound(client, commands, rest, toServer)
            /\ m.kind = "download" => BlockFits(m, s, client, commands)
            /\ \A i \in 1..Len(rest) : InOrder(m, rest[i], client)
<1> DEFINE m == Head(toClient)
           rest == Tail(toClient)
           client == Told(c, m)
<1>1. /\ toClient \in Seq(MessageType) /\ ClientOK(c)
      /\ \A i \in 1..Len(toClient) : MessageFits(toClient[i], s, c, commands)
      /\ \A i, j \in 1..Len(toClient) : i < j => InOrder(toClient[i], toClient[j], c)
  BY Parts, GoodParts DEF MessagesFit
<1>2. /\ rest \in Seq(MessageType) /\ m = toClient[1] /\ 1 \in 1..Len(toClient) /\ m \in MessageType
      /\ \A i \in 1..Len(rest) : rest[i] = toClient[i + 1] /\ i + 1 \in 1..Len(toClient)
  BY <1>1, TailPart
<1> HIDE DEF m, rest
<1>3. MessageFits(m, s, c, commands) /\ m.number \in Nat /\ m.commands \in Nat
  BY <1>1, <1>2, MessageNumbers
<1>4. /\ ClientOK(client) /\ SameFiles(c, client)
      /\ client.messageNum = m.number /\ client.reliableAcknowledge = m.commands
  BY <1>1, <1>3 DEF Told, ClientOK, Client, SameFiles
<1> HIDE DEF client
<1>5. CommandsFit(commands, client) /\ ServerGood(s, client, commands)
  BY <1>4, FilesFit, GoodParts
<1>6. ClientFits(client, s, commands)
  <2>1. m.number <= 2 * Len(s.gamestates) + 1 /\ m.commands <= s.lastClientCommand
    BY <1>3 DEF MessageFits
  <2>2. c.serverId <= s.serverId /\ IF Alive(c) THEN Working(c, commands) ELSE c.download = NoFile
    BY GoodParts DEF ClientFits
  <2>3. client.serverId <= s.serverId /\ IF Alive(client) THEN Working(client, commands) ELSE client.download = NoFile
    BY <1>4, <2>2, FilesFit DEF SameFiles
  <2> QED
    BY <1>4, <2>1, <2>3 DEF ClientFits
<1>7. PacketsFit(toServer, s, client, commands)
  <2>1. ASSUME NEW i \in 1..Len(toServer) PROVE PacketFits(toServer[i], s, client, commands)
    <3> DEFINE p == toServer[i]
    <3>1. PacketFits(p, s, c, commands) /\ p \in PacketType
      BY Parts, ElementOfSeq, GoodParts DEF PacketsFit, PacketsOK
    <3> HIDE DEF p
    <3>2. p.messageAcknowledge <= client.messageNum
      <4>1. p.messageAcknowledge <= c.messageNum /\ c.messageNum <= m.number
        BY <1>3, <3>1 DEF PacketFits, MessageFits
      <4>2. p.messageAcknowledge \in Nat /\ c.messageNum \in Nat
        BY <3>1, ClientNumbers DEF PacketType
      <4> QED
        BY <1>3, <1>4, <4>1, <4>2
    <3>3. PacketFits(p, s, client, commands)
      <4>1. client.serverId = c.serverId /\ (Alive(client) <=> Alive(c))
            /\ \A a, level : Since(commands, a, client, level) <=> Since(commands, a, c, level)
        BY <1>4, FilesFit DEF SameFiles
      <4> QED
        BY <3>1, <3>2, <4>1 DEF PacketFits
    <3> QED
      BY <3>3 DEF p
  <2> QED
    BY <2>1, GoodParts DEF PacketsFit
<1>8. ASSUME NEW i \in 1..Len(rest)
      PROVE  InOrder(m, rest[i], client) /\ MessageFits(rest[i], s, client, commands)
  <2> DEFINE x == rest[i]
  <2>1. x = toClient[i + 1] /\ i + 1 \in 1..Len(toClient) /\ 1 < i + 1 /\ x \in MessageType
    <3>1. x = toClient[i + 1] /\ i + 1 \in 1..Len(toClient) /\ x \in MessageType
      BY <1>2, ElementOfSeq
    <3>2. Len(rest) \in Nat
      BY <1>2, LenProperties
    <3>3. 1 < i + 1
      BY <3>2
    <3> QED
      BY <3>1, <3>3
  <2>2. MessageFits(x, s, c, commands) /\ InOrder(m, x, c)
    BY <1>1, <1>2, <2>1
  <2> HIDE DEF x
  <2>3. InOrder(m, x, client)
    BY <1>4, <2>2, FilesFit
  <2>4. m.number <= x.number /\ m.commands <= x.commands /\ (x.kind = "gamestate" => m.number < x.number)
    BY <2>2 DEF InOrder
  <2>5. x.kind = "download" => BlockFits(x, s, client, commands)
    BY <1>4, <2>2, FilesFit DEF MessageFits
  <2>6. ASSUME x.kind = "gamestate" PROVE GamestateFits(x, s, client, commands)
    <3>1. GamestateFits(x, s, c, commands) /\ (Alive(client) <=> Alive(c))
      BY <1>4, <2>2, <2>6, FilesFit DEF MessageFits
    <3> QED
      BY <1>4, <2>4, <2>6, <3>1 DEF GamestateFits, SameFiles
  <2>7. MessageFits(x, s, client, commands)
    BY <1>4, <2>2, <2>4, <2>5, <2>6 DEF MessageFits
  <2> QED
    BY <2>3, <2>7 DEF x
<1>9. MessagesFit(rest, s, client, commands)
  <2>1. ASSUME NEW i \in 1..Len(rest), NEW j \in 1..Len(rest), i < j PROVE InOrder(rest[i], rest[j], client)
    <3>1. /\ rest[i] = toClient[i + 1] /\ i + 1 \in 1..Len(toClient)
          /\ rest[j] = toClient[j + 1] /\ j + 1 \in 1..Len(toClient) /\ i + 1 < j + 1
      BY <1>2, <2>1
    <3>2. InOrder(toClient[i + 1], toClient[j + 1], c)
      BY <1>1, <3>1
    <3> QED
      BY <1>4, <3>1, <3>2, FilesFit
  <2> QED
    BY <1>8, <2>1 DEF MessagesFit
<1>10. m.kind = "download" => BlockFits(m, s, client, commands)
  BY <1>3, <1>4, FilesFit DEF MessageFits
<1>11. Sound(client, commands, rest, toServer)
  BY <1>5, <1>6, <1>7, <1>9 DEF Sound
<1> QED
  BY <1>2, <1>3, <1>4, <1>8, <1>10, <1>11 DEF m, rest, client

-----------------------------------------------------------------------------
(* More commands of the client. *)

LEMMA ServerLonger ==
  ASSUME NEW q, NEW r, Longer(q, r), NEW server, server.lastClientCommand \in 0..Len(q)
  PROVE  /\ Idle(server, q) <=> Idle(server, r)
         /\ \A i : Sent(server, i, q) <=> Sent(server, i, r)
         /\ \A k \in server.lastClientCommand + 1..Len(q) : PendingFits(server, k, q) => PendingFits(server, k, r)
         /\ /\ ServerFits(server, q)
            /\ \A k \in Len(q) + 1..Len(r) : r[k].what = "nextdl" => PendingFits(server, k, r)
            => ServerFits(server, r)
<1> DEFINE n == server.lastClientCommand
<1>1. /\ n \in 0..Len(q) /\ Len(q) \in Nat /\ Len(r) \in Nat /\ Len(q) <= Len(r) /\ n \in Nat
      /\ \A j \in 0..Len(q) : Asked(r, j) = Asked(q, j) /\ Acked(r, j) = Acked(q, j)
      /\ \A j \in 1..Len(q) : r[j] = q[j]
  BY LongerSame
<1>2. n # 0 => n \in 1..Len(q)
  BY <1>1
<1>3. Idle(server, q) <=> Idle(server, r)
  BY <1>1, <1>2 DEF Idle
<1>4. Kept(server, q) <=> Kept(server, r)
  BY <1>1 DEF Kept
<1>5. \A i : Sent(server, i, q) <=> Sent(server, i, r)
  BY <1>1, <1>4 DEF Sent
<1>6. ASSUME NEW k \in n + 1..Len(q), PendingFits(server, k, q) PROVE PendingFits(server, k, r)
  <2>1. /\ \A j \in n..k - 1 : j \in 0..Len(q)
        /\ \A j \in n + 1..k : j \in 1..Len(q)
        /\ k \in 1..Len(q)
    BY <1>1
  <2>2. /\ \A j \in n..k - 1 : Asked(q, j) = Asked(q, n)
        /\ \A j \in n + 1..k : Again(q, j, server.serverId)
        /\ Asked(q, n) \notin Refused /\ Sent(server, q[k].which, q)
        /\ server.serverId <= 2 => server.download # NoFile
    BY <1>6 DEF PendingFits
  <2>3. \A j \in n..k - 1 : Asked(r, j) = Asked(r, n)
    BY <1>1, <2>1, <2>2
  <2>4. \A j \in n + 1..k : Again(r, j, server.serverId)
    BY <1>1, <2>1, <2>2 DEF Again
  <2>5. Asked(r, n) \notin Refused /\ Sent(server, r[k].which, r)
    BY <1>1, <1>5, <2>1, <2>2
  <2> QED
    BY <2>2, <2>3, <2>4, <2>5 DEF PendingFits
<1>7. ASSUME ServerFits(server, q),
             \A k \in Len(q) + 1..Len(r) : r[k].what = "nextdl" => PendingFits(server, k, r)
      PROVE  ServerFits(server, r)
  <2>1. /\ server.downloadName = Asked(q, n) \/ (server.downloadName = NoFile /\ Asked(q, n) \in Refused)
        /\ OpenFits(server, q)
        /\ \A k \in n + 1..Len(q) : q[k].what = "nextdl" => PendingFits(server, k, q)
        /\ server.serverId <= 2 /\ server.downloadName # NoFile =>
             IF server.download = NoFile THEN Acked(q, n) = 0 ELSE server.clientBlock = Acked(q, n)
    BY <1>7 DEF ServerFits
  <2>2. OpenFits(server, r)
    BY <1>4, <2>1 DEF OpenFits
  <2>3. ASSUME NEW k \in n + 1..Len(r), r[k].what = "nextdl" PROVE PendingFits(server, k, r)
    <3>1. CASE k \in n + 1..Len(q)
      <4>1. k \in 1..Len(q)
        BY <1>1, <3>1
      <4>2. r[k] = q[k]
        BY <1>1, <4>1
      <4> QED
        BY <1>6, <2>1, <2>3, <3>1, <4>2
    <3>2. CASE k \in Len(q) + 1..Len(r)
      BY <1>7, <2>3, <3>2
    <3> QED
      BY <1>1, <3>1, <3>2
  <2> QED
    BY <1>1, <2>1, <2>2, <2>3 DEF ServerFits
<1> QED
  BY <1>3, <1>5, <1>6, <1>7

\* The commands that were there go on to fit.
LEMMA CommandsGoOn ==
  ASSUME NEW q, NEW r, Longer(q, r), NEW client, NEW next, CommandsFit(q, client),
         client.saved \subseteq next.saved, client.serverId \in Nat, next.serverId \in Nat,
         client.serverId <= next.serverId,
         \A n \in Len(q) + 1..Len(r) : CommandFits(r, n) /\ CutFits(r, n, next)
  PROVE  CommandsFit(r, next)
<1>1. /\ Len(q) \in Nat /\ Len(r) \in Nat /\ Len(q) <= Len(r)
      /\ \A j \in 0..Len(q) : Asked(r, j) = Asked(q, j)
      /\ \A j \in 1..Len(q) : r[j] = q[j]
  BY LongerSame
<1>2. ASSUME NEW n \in 1..Len(r) PROVE CommandFits(r, n) /\ CutFits(r, n, next)
  <2>1. CASE n \in 1..Len(q)
    <3>1. CommandFits(q, n) /\ CutFits(q, n, client) /\ n - 1 \in 0..Len(q)
      BY <1>1, <2>1 DEF CommandsFit
    <3>2. CommandFits(r, n)
      BY <2>1, <3>1, LongerFits
    <3>3. r[n] = q[n] /\ Asked(r, n - 1) = Asked(q, n - 1)
      BY <1>1, <2>1, <3>1
    <3>4. CutFits(r, n, next)
      BY <3>1, <3>3 DEF CutFits
    <3> QED
      BY <3>2, <3>4
  <2>2. CASE n \in Len(q) + 1..Len(r)
    BY <2>2
  <2> QED
    BY <1>1, <2>1, <2>2
<1> QED
  BY <1>2 DEF CommandsFit

\* The client leaves, and nothing more can go wrong.
LEMMA Leaves ==
  ASSUME TypeOK, NEW client, ClientOK(client),
         NEW messages \in Seq(MessageType), NEW packets \in Seq(PacketType),
         Sound(client, commands, messages, packets),
         NEW gone, ~Alive(gone), gone.download = NoFile, gone.messageNum = client.messageNum,
         gone.reliableAcknowledge = client.reliableAcknowledge, client.saved \subseteq gone.saved,
         gone.serverId \in Nat, client.serverId <= gone.serverId, gone.serverId <= s.serverId,
         \A i \in 1..Len(messages) : messages[i].kind = "gamestate" => gone.serverId <= messages[i].serverId,
         NEW r, Longer(commands, r),
         \A n \in Len(commands) + 1..Len(r) : CommandFits(r, n) /\ CutFits(r, n, gone),
         ~Dropped(s) => \A k \in Len(commands) + 1..Len(r) : r[k].what = "nextdl" => PendingFits(s, k, r)
  PROVE  Sound(gone, r, messages, packets)
<1>1. client.serverId \in Nat /\ client.messageNum \in Nat
  BY Constants DEF ClientOK, Client
<1>2. /\ CommandsFit(commands, client) /\ ClientFits(client, s, commands) /\ ServerGood(s, client, commands)
      /\ MessagesFit(messages, s, client, commands) /\ PacketsFit(packets, s, client, commands)
  BY DEF Sound
<1>3. CommandsFit(r, gone)
  BY <1>1, <1>2, CommandsGoOn
<1>4. ClientFits(gone, s, r)
  BY <1>2 DEF ClientFits
<1>5. ServerGood(s, gone, r)
  <2>1. s.lastClientCommand \in 0..Len(commands)
    BY Parts
  <2>2. ~Dropped(s) => ServerFits(s, r)
    BY <1>2, <2>1, ServerLonger DEF ServerGood
  <2> QED
    BY <1>2, <2>2 DEF ServerGood, LateFits
<1>6. MessagesFit(messages, s, gone, r)
  <2>1. ASSUME NEW i \in 1..Len(messages) PROVE MessageFits(messages[i], s, gone, r)
    <3> DEFINE m == messages[i]
    <3>1. m \in MessageType /\ MessageFits(m, s, client, commands) /\ (m.kind = "gamestate" => gone.serverId <= m.serverId)
      BY <1>2, ElementOfSeq DEF MessagesFit
    <3> HIDE DEF m
    <3>2. m.commands \in 0..Len(commands)
      <4>1. m.commands <= s.lastClientCommand /\ m.commands \in Nat
        BY <3>1, MessageNumbers DEF MessageFits
      <4> QED
        BY <4>1, Parts
    <3>3. m.kind = "download" => BlockFits(m, s, gone, r)
      <4>1. Asked(r, m.commands) = Asked(commands, m.commands) /\ Acked(r, m.commands) = Acked(commands, m.commands)
        BY <3>2, LongerSame
      <4> QED
        BY <3>1, <4>1 DEF MessageFits, BlockFits
    <3>4. m.kind = "gamestate" => GamestateFits(m, s, gone, r)
      BY <3>1 DEF MessageFits, GamestateFits
    <3>5. MessageFits(m, s, gone, r)
      BY <3>1, <3>3, <3>4 DEF MessageFits
    <3> QED
      BY <3>5 DEF m
  <2>2. ASSUME NEW i \in 1..Len(messages), NEW j \in 1..Len(messages), i < j
        PROVE  InOrder(messages[i], messages[j], gone)
    <3>1. InOrder(messages[i], messages[j], client)
      BY <1>2, <2>2 DEF MessagesFit
    <3> QED
      BY <3>1 DEF InOrder
  <2> QED
    BY <2>1, <2>2 DEF MessagesFit
<1>7. PacketsFit(packets, s, gone, r)
  <2>1. ASSUME NEW i \in 1..Len(packets) PROVE PacketFits(packets[i], s, gone, r)
    <3> DEFINE p == packets[i]
    <3>1. p \in PacketType /\ PacketFits(p, s, client, commands)
      BY <1>2, ElementOfSeq DEF PacketsFit
    <3> HIDE DEF p
    <3>2. p.serverId \in Nat /\ p.serverId <= client.serverId /\ p.messageAcknowledge <= client.messageNum
      BY <3>1, Constants DEF PacketFits, PacketType
    <3>3. p.serverId <= gone.serverId
      BY <1>1, <3>2
    <3>4. PacketFits(p, s, gone, r)
      BY <3>2, <3>3 DEF PacketFits
    <3> QED
      BY <3>4 DEF p
  <2> QED
    BY <1>2, <2>1 DEF PacketsFit
<1> QED
  BY <1>3, <1>4, <1>5, <1>6, <1>7 DEF Sound

\* The client goes on in its level: with the same file, or with another one when
\* it has none or has this one complete.
Proceeds(client, q, next, r, level) ==
  /\ next.serverId = client.serverId /\ next.messageNum = client.messageNum
  /\ next.reliableAcknowledge = client.reliableAcknowledge /\ client.saved \subseteq next.saved
  /\ \/ /\ next.downloadName = client.downloadName
        /\ \A j \in Len(q) + 1..Len(r) : Asked(r, j) = client.downloadName /\ Again(r, j, level)
     \/ client.downloadName \in next.saved \cup {NoFile}
  /\ \A j \in Len(q) + 1..Len(r) :
       r[j].what = "donedl" \/ client.downloadName = NoFile => \A i \in j..Len(r) : Asked(r, i) = NoFile

LEMMA SinceGoesOn ==
  ASSUME NEW q, NEW r, Longer(q, r), NEW client, NEW next, NEW level, Proceeds(client, q, next, r, level),
         client.downloadName = Asked(q, Len(q)), NEW a \in 0..Len(q)
  PROVE  /\ Since(q, a, client, level) => Since(r, a, next, level)
         /\ Calm(q, a) => Calm(r, a)
<1>1. /\ Len(q) \in Nat /\ Len(r) \in Nat /\ Len(q) <= Len(r)
      /\ \A j \in 0..Len(q) : Asked(r, j) = Asked(q, j)
      /\ \A j \in 1..Len(q) : r[j] = q[j]
  BY LongerSame
<1>2. ASSUME Since(q, a, client, level) PROVE Since(r, a, next, level)
  <2>1. CASE Asked(q, a) \in client.saved \cup {NoFile}
    BY <1>1, <2>1 DEF Since, Proceeds
  <2>2. CASE Asked(q, a) = client.downloadName /\ client.downloadName \in next.saved \cup {NoFile}
    BY <1>1, <2>2 DEF Since
  <2>3. CASE /\ Asked(q, a) = client.downloadName /\ Holds(q, a, level)
             /\ next.downloadName = client.downloadName
             /\ \A j \in Len(q) + 1..Len(r) : Asked(r, j) = client.downloadName /\ Again(r, j, level)
    <3>1. ASSUME NEW j \in a..Len(r) PROVE Asked(r, j) = Asked(r, a) /\ (j > a => Again(r, j, level))
      <4>1. CASE j <= Len(q)
        <5>1. j \in a..Len(q) /\ j \in 0..Len(q) /\ (j > a => j \in 1..Len(q))
          BY <1>1, <4>1
        <5>2. Asked(q, j) = Asked(q, a) /\ (j > a => Again(q, j, level))
          BY <2>3, <5>1 DEF Holds
        <5> QED
          BY <1>1, <5>1, <5>2 DEF Again
      <4>2. CASE ~(j <= Len(q))
        <5>1. j \in Len(q) + 1..Len(r)
          BY <1>1, <4>2
        <5> QED
          BY <1>1, <2>3, <5>1
      <4> QED
        BY <4>1, <4>2
    <3>2. Holds(r, a, level)
      BY <3>1 DEF Holds
    <3> QED
      BY <1>1, <2>3, <3>2 DEF Since
  <2> QED
    BY <1>2, <2>1, <2>2, <2>3 DEF Since, Proceeds
<1>3. ASSUME Calm(q, a), NEW j \in a + 1..Len(r), r[j].what = "donedl", NEW i \in j..Len(r)
      PROVE  Asked(r, i) = NoFile
  <2>1. CASE ~(j <= Len(q))
    <3>1. j \in Len(q) + 1..Len(r)
      BY <1>1, <2>1
    <3> QED
      BY <1>3, <3>1 DEF Proceeds
  <2>2. CASE j <= Len(q)
    <3>1. j \in a + 1..Len(q) /\ j \in 1..Len(q) /\ Len(q) \in j..Len(q)
      BY <1>1, <2>2
    <3>2. \A k \in j..Len(q) : Asked(q, k) = NoFile
      BY <1>1, <1>3, <3>1 DEF Calm
    <3>3. client.downloadName = NoFile
      BY <3>1, <3>2
    <3>4. CASE i <= Len(q)
      <4>1. i \in j..Len(q) /\ i \in 0..Len(q)
        BY <1>1, <3>4
      <4> QED
        BY <1>1, <3>2, <4>1
    <3>5. CASE ~(i <= Len(q))
      <4>1. i \in Len(q) + 1..Len(r) /\ i \in i..Len(r)
        BY <1>1, <3>5
      <4> QED
        BY <3>3, <4>1 DEF Proceeds
    <3> QED
      BY <3>4, <3>5
  <2> QED
    BY <2>1, <2>2
<1> QED
  BY <1>2, <1>3 DEF Calm

LEMMA StaysSound ==
  ASSUME TypeOK, NEW client, ClientOK(client), Alive(client), NEW next, ClientOK(next), Alive(next),
         NEW messages \in Seq(MessageType), NEW packets \in Seq(PacketType),
         Sound(client, commands, messages, packets),
         \A i \in 1..Len(packets) : packets[i].commands <= Len(commands),
         NEW r, Longer(commands, r), Proceeds(client, commands, next, r, s.serverId), Working(next, r),
         \A n \in Len(commands) + 1..Len(r) : CommandFits(r, n) /\ CutFits(r, n, next),
         ~Dropped(s) => \A k \in Len(commands) + 1..Len(r) : r[k].what = "nextdl" => PendingFits(s, k, r),
         \A f \in next.saved \ client.saved :
           NoShort =>
             /\ ~Dropped(s) /\ s.downloadName = f => Late(s)
             /\ \A i \in 1..Len(messages) :
                  messages[i].kind = "download" /\ messages[i].data.file = f => messages[i].block > Blocks[f] - W,
         \/ /\ next.downloadName = client.downloadName /\ client.downloadBlock <= next.downloadBlock
            /\ next.downloadBlock # client.downloadBlock =>
                 \A i \in 1..Len(messages) :
                   messages[i].kind = "download" => messages[i].data.file = client.downloadName
         \/ /\ next.downloadName # client.downloadName
            /\ next.downloadBlock = 0 \/ next.downloadName = NoFile,
         \/ \A i \in 1..Len(messages) : messages[i].kind # "gamestate"
         \/ /\ next.downloadName = client.downloadName /\ next.downloadBlock = client.downloadBlock
            /\ \A k \in Len(commands) + 1..Len(r) : r[k].what # "nextdl"
  PROVE  Sound(next, r, messages, packets)
<1>1. /\ client.serverId \in Nat /\ next.serverId = client.serverId
      /\ next.messageNum = client.messageNum /\ next.reliableAcknowledge = client.reliableAcknowledge
      /\ client.saved \subseteq next.saved /\ next.saved \subseteq File
      /\ client.downloadBlock \in Nat /\ next.downloadBlock \in Nat
  BY Constants DEF Proceeds, ClientOK, Client
<1>2. /\ CommandsFit(commands, client) /\ ClientFits(client, s, commands) /\ ServerGood(s, client, commands)
      /\ MessagesFit(messages, s, client, commands) /\ PacketsFit(packets, s, client, commands)
      /\ Working(client, commands)
  BY DEF Sound, ClientFits
<1>3. /\ Len(commands) \in Nat /\ s.lastClientCommand \in 0..Len(commands) /\ Len(commands) <= Len(r)
      /\ Len(r) \in Nat
  BY Parts, LongerSame
<1>4. ASSUME NEW a \in 0..Len(commands)
      PROVE  /\ Since(commands, a, client, s.serverId) => Since(r, a, next, s.serverId)
             /\ Calm(commands, a) => Calm(r, a)
  BY <1>2, SinceGoesOn DEF Working
<1>5. CommandsFit(r, next)
  <2>1. client.serverId <= next.serverId /\ next.serverId \in Nat
    BY <1>1
  <2> QED
    BY <1>1, <1>2, <2>1, CommandsGoOn
<1>6. ClientFits(next, s, r)
  BY <1>1, <1>2 DEF ClientFits
<1>7. /\ Idle(s, commands) <=> Idle(s, r)
      /\ \A i : Sent(s, i, commands) <=> Sent(s, i, r)
      /\ ~Dropped(s) => ServerFits(s, r)
  BY <1>2, <1>3, ServerLonger DEF ServerGood
<1>8. ServerGood(s, next, r)
  <2>1. ~Dropped(s) => LateFits(s, next)
    BY <1>2 DEF ServerGood, LateFits
  <2>2. ~Dropped(s) => KnownFits(s, next, r)
    BY <1>2, <1>3, <1>4, <1>7 DEF ServerGood, KnownFits
  <2> QED
    BY <1>2, <1>7, <2>1, <2>2 DEF ServerGood
<1>9. ASSUME NEW i \in 1..Len(messages)
      PROVE  /\ messages[i] \in MessageType /\ MessageFits(messages[i], s, client, commands)
             /\ messages[i].commands \in 0..Len(commands)
             /\ messages[i].kind = "download" /\ next.downloadName # client.downloadName =>
                  messages[i].data.file # next.downloadName
  <2> DEFINE m == messages[i]
  <2>1. m \in MessageType /\ MessageFits(m, s, client, commands)
    BY <1>2, ElementOfSeq DEF MessagesFit
  <2> HIDE DEF m
  <2>2. m.commands \in 0..Len(commands)
    <3>1. m.commands <= s.lastClientCommand /\ m.commands \in Nat
      BY <2>1, MessageNumbers DEF MessageFits
    <3> QED
      BY <1>3, <3>1
  <2>3. ASSUME m.kind = "download", next.downloadName # client.downloadName
        PROVE  m.data.file # next.downloadName
    <3>1. BlockFits(m, s, client, commands)
      BY <2>1, <2>3 DEF MessageFits
    <3>2. m.data.file \in client.saved \/ m.data.file = client.downloadName
      <4>1. m.data.file # NoFile
        BY <3>1, Constants DEF BlockFits
      <4> QED
        BY <3>1, <4>1 DEF BlockFits, Since
    <3>3. next.downloadName \notin next.saved
      BY <1>1, Constants DEF Working
    <3> QED
      BY <1>1, <2>3, <3>2, <3>3
  <2> QED
    BY <2>1, <2>2, <2>3 DEF m
<1>10. ASSUME NEW i \in 1..Len(messages) PROVE MessageFits(messages[i], s, next, r)
  <2> DEFINE m == messages[i]
  <2>1. /\ m \in MessageType /\ MessageFits(m, s, client, commands) /\ m.commands \in 0..Len(commands)
        /\ m.kind = "download" /\ next.downloadName # client.downloadName => m.data.file # next.downloadName
        /\ \A f \in next.saved \ client.saved : NoShort /\ m.kind = "download" /\ m.data.file = f => m.block > Blocks[f] - W
        /\ \/ /\ next.downloadName = client.downloadName /\ client.downloadBlock <= next.downloadBlock
              /\ next.downloadBlock # client.downloadBlock =>
                   (m.kind = "download" => m.data.file = client.downloadName)
           \/ /\ next.downloadName # client.downloadName
              /\ next.downloadBlock = 0 \/ next.downloadName = NoFile
        /\ \/ m.kind # "gamestate"
           \/ /\ next.downloadName = client.downloadName /\ next.downloadBlock = client.downloadBlock
              /\ \A k \in Len(commands) + 1..Len(r) : r[k].what # "nextdl"
    BY <1>9
  <2> HIDE DEF m
  <2>2. /\ Asked(r, m.commands) = Asked(commands, m.commands)
        /\ Acked(r, m.commands) = Acked(commands, m.commands)
        /\ m.commands < Len(commands) => r[m.commands + 1] = commands[m.commands + 1]
    <3>1. m.commands < Len(commands) => m.commands + 1 \in 1..Len(commands)
      BY <1>3, <2>1
    <3> QED
      BY <2>1, <3>1, LongerSame
  <2>3. ASSUME m.kind = "download" PROVE BlockFits(m, s, next, r)
    <3> DEFINE f == m.data.file
    <3>1. BlockFits(m, s, client, commands) /\ m.block \in Nat
      BY <2>1, <2>3, MessageNumbers DEF MessageFits
    <3>2. /\ f = Asked(commands, m.commands) /\ f \in File /\ f \notin Refused
          /\ m.block <= Blocks[f] /\ m.block < Acked(commands, m.commands) + W
          /\ Since(commands, m.commands, client, s.serverId)
          /\ NoShort /\ f \in client.saved => m.block > Blocks[f] - W
          /\ f = client.downloadName => OwnFits(m, s, client, commands)
          /\ client.downloadName # NoFile /\ client.downloadBlock > 0 => f = client.downloadName
      BY <3>1 DEF BlockFits
    <3>3. Since(r, m.commands, next, s.serverId)
      BY <1>4, <2>1, <3>2
    <3>4. NoShort /\ f \in next.saved => m.block > Blocks[f] - W
      BY <2>1, <2>3, <3>2
    <3>5. ASSUME f = next.downloadName PROVE OwnFits(m, s, next, r)
      <4>1. next.downloadName = client.downloadName /\ client.downloadBlock <= next.downloadBlock
        BY <2>1, <2>3, <3>5
      <4>2. OwnFits(m, s, client, commands)
        BY <3>2, <3>5, <4>1
      <4>3. m.data.index = m.block \/ m.block < next.downloadBlock
        BY <1>1, <3>1, <4>1, <4>2 DEF OwnFits
      <4> QED
        BY <1>7, <4>2, <4>3 DEF OwnFits
    <3>6. next.downloadName # NoFile /\ next.downloadBlock > 0 => f = next.downloadName
      BY <2>1, <2>3, <3>2
    <3> QED
      BY <2>2, <3>2, <3>3, <3>4, <3>5, <3>6 DEF BlockFits
  <2>4. ASSUME m.kind = "gamestate" PROVE GamestateFits(m, s, next, r)
    <3>1. GamestateFits(m, s, client, commands)
      BY <2>1, <2>4 DEF MessageFits
    <3>2. /\ next.downloadName = client.downloadName /\ next.downloadBlock = client.downloadBlock
          /\ \A k \in Len(commands) + 1..Len(r) : r[k].what # "nextdl"
      BY <2>1, <2>4
    <3>3. \A k \in m.commands + 1..Len(r) : r[k].what # "nextdl"
      <4>1. ASSUME NEW k \in m.commands + 1..Len(r) PROVE r[k].what # "nextdl"
        <5>1. CASE k <= Len(commands)
          <6>1. k \in m.commands + 1..Len(commands) /\ k \in 1..Len(commands)
            BY <1>3, <2>1, <5>1
          <6>2. r[k] = commands[k]
            BY <6>1, LongerSame
          <6> QED
            BY <3>1, <6>1, <6>2 DEF GamestateFits
        <5>2. CASE ~(k <= Len(commands))
          <6>1. k \in Len(commands) + 1..Len(r)
            BY <1>3, <2>1, <5>2
          <6> QED
            BY <3>2, <6>1
        <5> QED
          BY <5>1, <5>2
      <4> QED
        BY <4>1
    <3>4. m.commands < Len(commands) => m.commands < Len(r)
      BY <1>3, <2>1
    <3> QED
      BY <1>1, <1>7, <2>2, <3>1, <3>2, <3>3, <3>4 DEF GamestateFits
  <2>5. MessageFits(m, s, next, r)
    BY <1>1, <2>1, <2>3, <2>4 DEF MessageFits
  <2> QED
    BY <2>5 DEF m
<1>11. ASSUME NEW i \in 1..Len(messages), NEW j \in 1..Len(messages), i < j
       PROVE  InOrder(messages[i], messages[j], next)
  <2>1. InOrder(messages[i], messages[j], client)
    BY <1>2, <1>11 DEF MessagesFit
  <2>2. messages[i].kind = "download" /\ messages[i].data.file = next.downloadName =>
          next.downloadName = client.downloadName
    BY <1>9
  <2> QED
    BY <1>1, <2>1, <2>2 DEF InOrder
<1>12. ASSUME NEW i \in 1..Len(packets) PROVE PacketFits(packets[i], s, next, r)
  <2> DEFINE p == packets[i]
  <2>1. p \in PacketType /\ PacketFits(p, s, client, commands) /\ p.commands <= Len(commands)
    BY <1>2, ElementOfSeq DEF PacketsFit
  <2> HIDE DEF p
  <2>2. p.commands \in 0..Len(commands)
    BY <1>3, <2>1 DEF PacketType
  <2>3. PacketFits(p, s, next, r)
    BY <1>1, <1>4, <1>7, <2>1, <2>2 DEF PacketFits
  <2> QED
    BY <2>3 DEF p
<1>13. MessagesFit(messages, s, next, r) /\ PacketsFit(packets, s, next, r)
  BY <1>2, <1>10, <1>11, <1>12 DEF MessagesFit, PacketsFit
<1> QED
  BY <1>5, <1>6, <1>8, <1>13 DEF Sound

\* Message m has arrived, and the client knows its numbers.
Has(m, client, rest) ==
  /\ m \in MessageType /\ MessageFits(m, s, c, commands) /\ rest \in Seq(MessageType)
  /\ ClientOK(client) /\ SameFiles(c, client)
  /\ client.messageNum = m.number /\ client.reliableAcknowledge = m.commands
  /\ Sound(client, commands, rest, toServer)
  /\ m.kind = "download" => BlockFits(m, s, client, commands)
  /\ \A i \in 1..Len(rest) : InOrder(m, rest[i], client)

LEMMA OneMore ==
  ASSUME NEW q, Proper(q), NEW x \in Command, x.what = "download" => x.which \in File
  PROVE  LET r == q \o <<x>>
         IN /\ Longer(q, r) /\ Len(q) \in Nat /\ Len(r) = Len(q) + 1 /\ r[Len(q) + 1] = x
            /\ Asked(r, Len(q) + 1) = x.file
            /\ Acked(r, Len(q) + 1) = IF x.what = "nextdl" THEN x.which + 1 ELSE 0
            /\ Asked(r, Len(q)) = Asked(q, Len(q)) /\ Acked(r, Len(q)) = Acked(q, Len(q))
            /\ (Len(q) + 1) - 1 = Len(q)
            /\ \A n \in Len(q) + 1..Len(r) : n = Len(q) + 1
<1> DEFINE new == <<x>>
           r == q \o new
<1>1. Proper(new) /\ Len(new) = 1 /\ new[1] = x /\ 1 \in 1..Len(new)
  BY ProperOne
<1> HIDE DEF new
<1>2. /\ Proper(r) /\ Len(r) = Len(q) + Len(new) /\ Len(q) \in Nat
      /\ \A i \in 1..Len(q) : r[i] = q[i]
      /\ r[Len(q) + 1] = new[1]
  <2>1. Proper(r) /\ Len(r) = Len(q) + Len(new) /\ Len(q) \in Nat
    BY <1>1, ProperBoth
  <2>2. \A i \in 1..Len(q) : r[i] = q[i]
    BY <1>1, ProperBoth, Zenon
  <2>3. \A i \in 1..Len(r) : r[i] = IF i <= Len(q) THEN q[i] ELSE new[i - Len(q)]
    BY <1>1, ConcatProperties, LenProperties DEF Proper
  <2> HIDE DEF r
  <2>4. Len(q) + 1 \in 1..Len(r) /\ ~(Len(q) + 1 <= Len(q)) /\ (Len(q) + 1) - Len(q) = 1
    BY <1>1, <2>1
  <2> QED
    BY <2>1, <2>2, <2>3, <2>4
<1> HIDE DEF r
<1>3. Len(r) = Len(q) + 1 /\ r[Len(q) + 1] = x /\ Len(q) <= Len(r) /\ Len(q) + 1 # 0
      /\ (Len(q) + 1) - 1 = Len(q) /\ Len(q) \in 0..Len(q)
  BY <1>1, <1>2
<1>4. Longer(q, r)
  BY <1>2, <1>3 DEF Longer
<1>5. Asked(r, Len(q)) = Asked(q, Len(q)) /\ Acked(r, Len(q)) = Acked(q, Len(q))
  BY <1>3, <1>4, LongerSame
<1>6. Asked(r, Len(q) + 1) = x.file /\ Acked(r, Len(q) + 1) = IF x.what = "nextdl" THEN x.which + 1 ELSE 0
  BY <1>3 DEF Asked, Acked
<1>7. \A n \in Len(q) + 1..Len(r) : n = Len(q) + 1
  BY <1>2, <1>3
<1> QED
  BY <1>2, <1>3, <1>4, <1>5, <1>6, <1>7 DEF r, new

LEMMA NoneMore ==
  ASSUME NEW q, Proper(q)
  PROVE  q \o <<>> = q /\ Longer(q, q) /\ Len(q) \in Nat /\ \A n \in Len(q) + 1..Len(q) : FALSE
<1>1. q \in Seq(Command) /\ Len(q) \in Nat
  BY LenProperties DEF Proper
<1>2. q \o <<>> = q
  BY <1>1, ConcatEmptySeq
<1>3. Longer(q, q)
  BY <1>1 DEF Longer
<1>4. \A n \in Len(q) + 1..Len(q) : FALSE
  BY <1>1
<1> QED
  BY <1>1, <1>2, <1>3, <1>4

\* What was complete is complete.
LEMMA CompletedGoesOn ==
  ASSUME NEW q, NEW r, Longer(q, r), NEW saved,
         \A k \in 1..Len(q) : Asked(q, k) \in saved => Completed(q, k)
  PROVE  \A k \in 1..Len(q) : Asked(r, k) \in saved => Completed(r, k)
<1>1. /\ Len(q) \in Nat /\ Len(r) \in Nat /\ Len(q) <= Len(r)
      /\ \A j \in 0..Len(q) : Asked(r, j) = Asked(q, j)
      /\ \A j \in 1..Len(q) : r[j] = q[j]
  BY LongerSame
<1>2. ASSUME NEW k \in 1..Len(q), Asked(r, k) \in saved PROVE Completed(r, k)
  <2>1. k \in 0..Len(q)
    BY <1>1
  <2>2. PICK e \in k + 1..Len(q) :
          q[e].what = "nextdl" /\ Asked(q, e - 1) = Asked(q, k) /\ Asked(q, e) = NoFile
    BY <1>1, <1>2, <2>1 DEF Completed
  <2>3. e \in k + 1..Len(r) /\ e \in 1..Len(q) /\ e \in 0..Len(q) /\ e - 1 \in 0..Len(q)
    BY <1>1, <2>2
  <2>4. r[e].what = "nextdl" /\ Asked(r, e - 1) = Asked(r, k) /\ Asked(r, e) = NoFile
    BY <1>1, <2>1, <2>2, <2>3
  <2> QED
    BY <2>3, <2>4 DEF Completed
<1> QED
  BY <1>2

\* The client leaves in its level.
LEMMA Quits ==
  ASSUME TypeOK, NEW client, ClientOK(client), NEW messages \in Seq(MessageType),
         NEW packets \in Seq(PacketType), Sound(client, commands, messages, packets),
         NEW gone, ~Alive(gone), gone.download = NoFile, gone.messageNum = client.messageNum,
         gone.reliableAcknowledge = client.reliableAcknowledge, client.saved \subseteq gone.saved,
         gone.serverId = client.serverId,
         NEW r, Longer(commands, r),
         \A n \in Len(commands) + 1..Len(r) : CommandFits(r, n) /\ CutFits(r, n, gone),
         ~Dropped(s) => \A k \in Len(commands) + 1..Len(r) : r[k].what = "nextdl" => PendingFits(s, k, r)
  PROVE  Sound(gone, r, messages, packets)
<1>1. client.serverId \in Nat
  BY Constants DEF ClientOK, Client
<1>2. client.serverId <= s.serverId
  BY DEF Sound, ClientFits
<1>3. \A i \in 1..Len(messages) : messages[i].kind = "gamestate" => client.serverId <= messages[i].serverId
  BY DEF Sound, MessagesFit, MessageFits, GamestateFits
<1>4. /\ gone.serverId \in Nat /\ client.serverId <= gone.serverId /\ gone.serverId <= s.serverId
      /\ \A i \in 1..Len(messages) : messages[i].kind = "gamestate" => gone.serverId <= messages[i].serverId
  BY <1>1, <1>2, <1>3
<1> QED
  BY <1>4, Leaves

LEMMA QuitsNow ==
  ASSUME TypeOK, NEW m, NEW client, NEW rest, Has(m, client, rest)
  PROVE  Sound(Left(client), commands, rest, toServer)
<1>1. /\ ClientOK(client) /\ rest \in Seq(MessageType) /\ Sound(client, commands, rest, toServer)
      /\ toServer \in Seq(PacketType) /\ Proper(commands)
  BY Parts DEF Has, PacketsOK
<1> DEFINE gone == Left(client)
<1>2. /\ ~Alive(gone) /\ gone.download = NoFile /\ gone.messageNum = client.messageNum
      /\ gone.reliableAcknowledge = client.reliableAcknowledge /\ client.saved \subseteq gone.saved
      /\ gone.serverId = client.serverId
  BY <1>1 DEF Left, Alive, ClientOK, Client
<1> HIDE DEF gone
<1>3. Longer(commands, commands) /\ \A n \in Len(commands) + 1..Len(commands) : FALSE
  BY <1>1, NoneMore
<1>4. Sound(gone, commands, rest, toServer)
  BY <1>1, <1>2, <1>3, Quits
<1> QED
  BY <1>4 DEF gone

-----------------------------------------------------------------------------
(* ClientReceives: a message that the client does not read to its end. *)

LEMMA GarbledSound ==
  ASSUME TypeOK, NEW m, NEW client, NEW rest, Has(m, client, rest), Alive(client), NEW new,
         (new = <<StopDl>> /\ client.downloadName = NoFile) \/ new = <<>>, Garbled(client, new)
  PROVE  Sound(c', commands', rest, toServer')
<1>1. /\ ClientOK(client) /\ rest \in Seq(MessageType) /\ Sound(client, commands, rest, toServer)
      /\ toServer \in Seq(PacketType) /\ Proper(commands) /\ toServer' = toServer
      /\ \A i \in 1..Len(toServer) : toServer[i].commands <= Len(commands)
  BY Parts DEF Has, PacketsOK, Garbled
<1>2. Working(client, commands)
  BY <1>1 DEF Sound, ClientFits
<1>3. CASE c' = Left(client) /\ commands' = commands
  BY <1>1, <1>3, QuitsNow
<1>4. CASE c' = client /\ commands' = commands \o new /\ new = <<>>
  <2>1. commands \o <<>> = commands
    BY <1>1, NoneMore
  <2> QED
    BY <1>1, <1>4, <2>1
<1>5. CASE c' = client /\ commands' = commands \o new /\ new = <<StopDl>> /\ client.downloadName = NoFile
  <2> DEFINE x == StopDl
             q == commands
             r == q \o <<x>>
             L == Len(q)
  <2>1. x \in Command /\ x.what = "stopdl" /\ x.file = NoFile
    BY CommandTypes DEF StopDl
  <2>2. commands' = r
    BY <1>5
  <2> HIDE DEF x
  <2>3. /\ Longer(q, r) /\ L \in Nat /\ Len(r) = L + 1 /\ r[L + 1] = x
        /\ Asked(r, L + 1) = NoFile /\ Asked(r, L) = Asked(q, L) /\ (L + 1) - 1 = L
        /\ \A n \in L + 1..Len(r) : n = L + 1
    BY <1>1, <2>1, OneMore
  <2> HIDE DEF r
  <2>4. Asked(q, L) = NoFile /\ \A k \in 1..L : Asked(q, k) \in client.saved => Completed(q, k)
    BY <1>2, <1>5 DEF Working
  <2> HIDE DEF q, L
  <2>5. CommandFits(r, L + 1) /\ CutFits(r, L + 1, client)
    BY <2>1, <2>3, <2>4 DEF CommandFits, CutFits
  <2>6. NoFile \notin client.saved
    BY <1>1, Constants DEF ClientOK, Client
  <2>7. Working(client, r)
    <3>1. \A k \in 1..L : Asked(r, k) \in client.saved => Completed(r, k)
      BY <2>3, <2>4, CompletedGoesOn DEF L
    <3>2. \A k \in 1..Len(r) : k \in 1..L \/ k = L + 1
      BY <2>3
    <3>3. \A k \in 1..Len(r) : Asked(r, k) \in client.saved => Completed(r, k)
      BY <2>3, <2>6, <3>1, <3>2
    <3> QED
      BY <1>2, <1>5, <2>3, <3>3 DEF Working
  <2>8. Proceeds(client, q, client, r, s.serverId)
    <3>1. \A j \in L + 1..Len(r) : \A i \in j..Len(r) : i = L + 1
      BY <2>3
    <3> QED
      BY <1>5, <2>3, <3>1 DEF Proceeds, L
  <2>9. \A k \in L + 1..Len(r) : r[k].what # "nextdl"
    BY <2>1, <2>3
  <2>10. client.downloadBlock <= client.downloadBlock
    BY <1>1 DEF ClientOK, Client
  <2>11. \A n \in L + 1..Len(r) : CommandFits(r, n) /\ CutFits(r, n, client)
    BY <2>3, <2>5
  <2>12. Sound(client, r, rest, toServer)
    BY <1>1, <2>3, <2>7, <2>8, <2>9, <2>10, <2>11, StaysSound DEF q, L
  <2> QED
    BY <1>1, <1>5, <2>2, <2>12
<1> QED
  BY <1>3, <1>4, <1>5 DEF Garbled, Adding

-----------------------------------------------------------------------------
(* ClientReceives: a gamestate. *)

\* The client's commands after one that ends no file.
LEMMA WorkingOn ==
  ASSUME NEW q, NEW r, Longer(q, r), Len(r) = Len(q) + 1, NEW client, Working(client, q),
         NEW next, next.saved = client.saved, next.downloadName = Asked(r, Len(q) + 1),
         next.downloadName \notin next.saved, FileFits(next), ListFits(next),
         next.downloadName # NoFile => next.downloadBlock = Acked(r, Len(q) + 1)
  PROVE  Working(next, r)
<1>1. Len(q) \in Nat
  BY LongerSame
<1>2. \A k \in 1..Len(q) : Asked(r, k) \in next.saved => Completed(r, k)
  BY CompletedGoesOn DEF Working
<1>3. \A k \in 1..Len(r) : k \in 1..Len(q) \/ k = Len(q) + 1
  BY <1>1
<1>4. \A k \in 1..Len(r) : Asked(r, k) \in next.saved => Completed(r, k)
  BY <1>2, <1>3
<1> QED
  BY <1>4 DEF Working

\* The client gets into a new level, and everything before is over.
LEMMA NewLevel ==
  ASSUME TypeOK, Good, NEW m, NEW client, NEW rest, Has(m, client, rest), Alive(client),
         m.kind = "gamestate", client.serverId < m.serverId,
         NEW next, next.serverId = m.serverId, next.messageNum = client.messageNum,
         next.reliableAcknowledge = client.reliableAcknowledge, next.saved = client.saved,
         NEW r, Longer(commands, r),
         Alive(next) => Working(next, r), ~Alive(next) => next.download = NoFile,
         \A n \in Len(commands) + 1..Len(r) :
           CommandFits(r, n) /\ CutFits(r, n, next) /\ r[n].what # "nextdl"
  PROVE  Sound(next, r, rest, toServer)
<1>1. /\ ClientOK(client) /\ rest \in Seq(MessageType) /\ Sound(client, commands, rest, toServer)
      /\ m \in MessageType /\ GamestateFits(m, s, c, commands) /\ SameFiles(c, client)
      /\ client.messageNum = m.number /\ \A i \in 1..Len(rest) : InOrder(m, rest[i], client)
  BY DEF Has, MessageFits
<1>2. /\ CommandsFit(commands, client) /\ ClientFits(client, s, commands) /\ ServerGood(s, client, commands)
      /\ MessagesFit(rest, s, client, commands) /\ PacketsFit(toServer, s, client, commands)
  BY <1>1 DEF Sound
<1>3. /\ client.serverId \in Nat /\ m.serverId \in Nat /\ m.number \in Nat /\ c.messageNum \in Nat
      /\ c.serverId = client.serverId /\ Alive(c)
      /\ s.serverId \in Nat /\ Len(s.gamestates) \in Nat
  <2>1. client.serverId \in Nat
    BY <1>1, Constants DEF ClientOK, Client
  <2>2. m.serverId \in Nat /\ m.number \in Nat
    BY <1>1, MessageNumbers
  <2>3. c.messageNum \in Nat
    BY ClientNumbers
  <2>4. c.serverId = client.serverId /\ Alive(c)
    BY <1>1 DEF SameFiles, Alive
  <2>5. s.serverId \in Nat /\ s.gamestates \in Seq(Nat)
    BY Parts, Constants DEF Server
  <2> QED
    BY <2>1, <2>2, <2>3, <2>4, <2>5, LenProperties
<1>4. /\ m.serverId <= s.serverId /\ c.messageNum < m.number /\ m.number <= 2 * Len(s.gamestates)
      /\ ~Dropped(s) => Idle(s, commands)
  BY <1>1, <1>3 DEF GamestateFits
<1>5. /\ Len(commands) \in Nat /\ s.lastClientCommand \in 0..Len(commands) /\ Len(r) \in Nat
  BY Parts, LongerSame
<1>6. CommandsFit(r, next)
  <2>1. client.serverId <= next.serverId /\ next.serverId \in Nat /\ client.saved \subseteq next.saved
    BY <1>3
  <2> QED
    BY <1>2, <1>3, <2>1, CommandsGoOn
<1>7. ClientFits(next, s, r)
  BY <1>2, <1>4 DEF ClientFits
<1>8. /\ Idle(s, commands) <=> Idle(s, r)
      /\ ~Dropped(s) => ServerFits(s, r)
  BY <1>2, <1>5, ServerLonger DEF ServerGood
<1>9. ServerGood(s, next, r)
  <2>1. ~Dropped(s) => LateFits(s, next)
    <3>1. NoFile \notin next.saved
      BY <1>1, Constants DEF ClientOK, Client
    <3> QED
      BY <1>4, <3>1 DEF LateFits, Idle
  <2>2. ~Dropped(s) => KnownFits(s, next, r)
    BY <1>4, <1>8 DEF KnownFits, Idle
  <2> QED
    BY <1>2, <1>8, <2>1, <2>2 DEF ServerGood
<1>10. \A i \in 1..Len(rest) : rest[i].kind = "snapshot"
  BY <1>1 DEF InOrder
<1>11. MessagesFit(rest, s, next, r)
  <2>1. ASSUME NEW i \in 1..Len(rest) PROVE MessageFits(rest[i], s, next, r)
    BY <1>2, <1>10 DEF MessagesFit, MessageFits
  <2>2. ASSUME NEW i \in 1..Len(rest), NEW j \in 1..Len(rest), i < j PROVE InOrder(rest[i], rest[j], next)
    <3>1. InOrder(rest[i], rest[j], client)
      BY <1>2, <2>2 DEF MessagesFit
    <3> QED
      BY <1>10, <3>1 DEF InOrder
  <2> QED
    BY <2>1, <2>2 DEF MessagesFit
<1>12. ASSUME NEW i \in 1..Len(toServer) PROVE PacketFits(toServer[i], s, next, r)
  <2> DEFINE p == toServer[i]
  <2>1. p \in PacketType /\ PacketFits(p, s, c, commands)
    BY Parts, ElementOfSeq, GoodParts DEF PacketsFit, PacketsOK
  <2> HIDE DEF p
  <2>2. p.serverId \in Nat /\ p.messageAcknowledge \in Nat
    BY <2>1, Constants DEF PacketType
  <2>3. p.serverId <= c.serverId /\ p.messageAcknowledge <= c.messageNum
    BY <2>1 DEF PacketFits
  <2>4. /\ p.serverId <= next.serverId /\ p.serverId # next.serverId
        /\ p.messageAcknowledge <= next.messageNum /\ p.messageAcknowledge <= 2 * Len(s.gamestates)
    BY <1>1, <1>3, <1>4, <2>2, <2>3
  <2>5. PacketFits(p, s, next, r)
    BY <1>4, <1>8, <2>4 DEF PacketFits
  <2> QED
    BY <2>5 DEF p
<1>13. PacketsFit(toServer, s, next, r)
  BY <1>2, <1>12 DEF PacketsFit
<1> QED
  BY <1>6, <1>7, <1>9, <1>11, <1>13 DEF Sound

\* The client as a gamestate leaves it, and the commands that it gives.
Entered(client, m, next, new) ==
  LET missing == Needed(m.serverId) \ client.saved
      f == FirstOf(missing, m.serverId)
  IN /\ ClientOK(next) /\ next.serverId = m.serverId /\ next.messageNum = client.messageNum
     /\ next.reliableAcknowledge = client.reliableAcknowledge /\ next.saved = client.saved
     /\ next.download = client.download /\ next.written = client.written
     /\ Alive(client) => Alive(next)
     /\ \/ /\ missing = {} /\ next.downloadList = {} /\ ~next.downloadRestart
           /\ next.downloadName = client.downloadName /\ next.downloadBlock = client.downloadBlock
           /\ new = IF client.downloadRestart THEN <<DoneDl(client.downloadName)>> ELSE <<>>
        \/ /\ missing # {} /\ f \in missing /\ next.downloadName = f /\ next.downloadList = missing \ {f}
           /\ next.downloadBlock = 0 /\ new = <<Download(f)>>

LEMMA GamestateNext ==
  ASSUME NEW client, ClientOK(client), NEW m, m.serverId \in Levels, CL_ParseGamestate(client, m)
  PROVE  /\ toServer' = toServer
         /\ \E next, new :
              /\ Entered(client, m, next, new)
              /\ \/ c' = Left(next) /\ commands' = commands
                 \/ c' = next /\ commands' = commands \o new
<1> DEFINE missing == Needed(m.serverId) \ client.saved
           loaded == [client EXCEPT !.serverId = m.serverId, !.downloadList = missing]
           connected == [loaded EXCEPT !.state = "CA_CONNECTED"]
           after == IF missing = {} THEN AfterDownloads(loaded) ELSE CL_NextDownload(connected)
<1>1. missing \subseteq Needed(m.serverId) /\ missing \subseteq File
  BY Constants DEF Needed
<1>2. m.serverId # 0
  BY Constants
<1>3. Adding(after.client, after.new) /\ UNCHANGED toServer
  BY Zenon DEF CL_ParseGamestate, missing, loaded, connected
<1>4. missing # {} => FirstOf(missing, m.serverId) \in missing
  BY <1>1, FirstOfList
<1> HIDE DEF missing
<1>5. /\ ClientOK(loaded) /\ loaded.serverId = m.serverId /\ loaded.messageNum = client.messageNum
      /\ loaded.reliableAcknowledge = client.reliableAcknowledge /\ loaded.saved = client.saved
      /\ loaded.download = client.download /\ loaded.written = client.written
      /\ loaded.downloadName = client.downloadName /\ loaded.downloadBlock = client.downloadBlock
      /\ loaded.downloadRestart = client.downloadRestart /\ loaded.downloadList = missing
      /\ loaded.state = client.state
  BY <1>1, <1>2 DEF ClientOK, Client
<1> HIDE DEF loaded
<1>6. /\ ClientOK(connected) /\ connected.serverId = m.serverId /\ connected.messageNum = client.messageNum
      /\ connected.reliableAcknowledge = client.reliableAcknowledge /\ connected.saved = client.saved
      /\ connected.download = client.download /\ connected.written = client.written
      /\ connected.downloadList = missing /\ connected.state = "CA_CONNECTED"
  BY <1>5 DEF ClientOK, Client
<1> HIDE DEF connected
<1>7. ClientOK(after.client)
  BY <1>5, <1>6, NextType
<1>8. Entered(client, m, after.client, after.new)
  <2>1. CASE missing = {} /\ client.downloadRestart
    <3>1. /\ after.client = [loaded EXCEPT !.downloadRestart = FALSE]
          /\ after.new = <<DoneDl(client.downloadName)>>
      BY <1>5, <2>1 DEF AfterDownloads
    <3>2. /\ after.client.serverId = m.serverId /\ after.client.messageNum = client.messageNum
          /\ after.client.reliableAcknowledge = client.reliableAcknowledge
          /\ after.client.saved = client.saved /\ after.client.download = client.download
          /\ after.client.written = client.written /\ after.client.downloadName = client.downloadName
          /\ after.client.downloadBlock = client.downloadBlock /\ after.client.downloadList = {}
          /\ ~after.client.downloadRestart /\ (Alive(client) => Alive(after.client))
      BY <1>5, <2>1, <3>1 DEF Alive, ClientOK, Client
    <3> HIDE DEF after
    <3> QED
      BY <1>7, <2>1, <3>1, <3>2 DEF Entered, missing
  <2>2. CASE missing = {} /\ ~client.downloadRestart
    <3>1. after.client = [loaded EXCEPT !.state = "CA_LOADING"] /\ after.new = <<>>
      BY <1>5, <2>2 DEF AfterDownloads
    <3>2. /\ after.client.serverId = m.serverId /\ after.client.messageNum = client.messageNum
          /\ after.client.reliableAcknowledge = client.reliableAcknowledge
          /\ after.client.saved = client.saved /\ after.client.download = client.download
          /\ after.client.written = client.written /\ after.client.downloadName = client.downloadName
          /\ after.client.downloadBlock = client.downloadBlock /\ after.client.downloadList = {}
          /\ ~after.client.downloadRestart /\ (Alive(client) => Alive(after.client))
      BY <1>5, <2>2, <3>1 DEF Alive, ClientOK, Client
    <3> HIDE DEF after
    <3> QED
      BY <1>7, <2>2, <3>1, <3>2 DEF Entered, missing
  <2>3. CASE missing # {}
    <3> DEFINE f == FirstOf(missing, m.serverId)
    <3>1. /\ after.client = [connected EXCEPT !.downloadName = f, !.downloadList = @ \ {f},
                                              !.downloadBlock = 0, !.downloadRestart = TRUE]
          /\ after.new = <<Download(f)>>
      BY <1>6, <2>3 DEF CL_NextDownload
    <3> HIDE DEF f
    <3>2. /\ after.client.serverId = m.serverId /\ after.client.messageNum = client.messageNum
          /\ after.client.reliableAcknowledge = client.reliableAcknowledge
          /\ after.client.saved = client.saved /\ after.client.download = client.download
          /\ after.client.written = client.written /\ after.client.downloadName = f
          /\ after.client.downloadBlock = 0 /\ after.client.downloadList = missing \ {f}
          /\ Alive(after.client)
      BY <1>6, <3>1 DEF Alive, ClientOK, Client
    <3> HIDE DEF after
    <3> QED
      BY <1>4, <1>7, <2>3, <3>1, <3>2 DEF Entered, missing, f
  <2> QED
    BY <2>1, <2>2, <2>3
<1>9. \/ c' = Left(after.client) /\ commands' = commands
      \/ c' = after.client /\ commands' = commands \o after.new
  BY <1>3 DEF Adding
<1> HIDE DEF after
<1> QED
  BY <1>3, <1>8, <1>9

LEMMA EnteredFits ==
  ASSUME NEW q, Proper(q), NEW client, ClientOK(client), Working(client, q), NEW m, m.serverId \in Levels,
         client.serverId <= m.serverId, client.downloadName # NoFile => client.downloadBlock = 0,
         NEW next, NEW new, Entered(client, m, next, new)
  PROVE  /\ Longer(q, q \o new) /\ Working(next, q \o new)
         /\ \A n \in Len(q) + 1..Len(q \o new) :
              /\ CommandFits(q \o new, n) /\ CutFits(q \o new, n, next) /\ (q \o new)[n].what # "nextdl"
              /\ m.serverId = client.serverId =>
                   /\ client.downloadName \in Needed(client.serverId)
                   /\ next.downloadName = client.downloadName /\ next.downloadBlock = client.downloadBlock
                   /\ (q \o new)[n].what = "download" /\ Asked(q \o new, n) = client.downloadName
         /\ new = <<>> => next.downloadName = client.downloadName /\ next.downloadBlock = client.downloadBlock
         /\ new = <<>> \/ (Len(q) \in Nat /\ Len(q \o new) = Len(q) + 1)
<1> DEFINE l == m.serverId
           missing == Needed(l) \ client.saved
           f0 == client.downloadName
           L == Len(q)
<1>1. /\ f0 = Asked(q, L) /\ FileFits(client) /\ ListFits(client)
      /\ f0 # NoFile => f0 \notin client.saved /\ client.downloadBlock = Acked(q, L)
      /\ \A k \in 1..L : Asked(q, k) \in client.saved => Completed(q, k)
  BY DEF Working
<1>2. client.serverId \in Nat /\ l \in Nat /\ l > 0 /\ f0 \in AnyFile /\ (client.serverId # 0 => client.serverId \in Levels)
  BY Constants DEF ClientOK, Client
<1>3. \A k \in Levels : NoFile \notin Needed(k) /\ Needed(k) \subseteq File
  BY Constants DEF Needed
<1>4. NoFile \notin client.saved
  BY Constants DEF ClientOK, Client
<1>5. client.downloadBlock > 0 => client.downloadBlock # 0
  OBVIOUS
<1>6. client.download = NoFile
  BY <1>1, <1>5 DEF FileFits
<1>7. next.serverId = l /\ next.saved = client.saved /\ next.download = NoFile
  BY <1>6 DEF Entered
<1>8. CASE missing = {} /\ new = <<>>
  <2>1. q \o new = q /\ Longer(q, q) /\ \A n \in L + 1..Len(q) : FALSE
    BY <1>8, NoneMore
  <2>2. /\ next.downloadList = {} /\ ~next.downloadRestart
        /\ next.downloadName = f0 /\ next.downloadBlock = client.downloadBlock
    BY <1>8 DEF Entered
  <2>3. ListFits(next)
    BY <1>1, <1>2, <1>3, <1>7, <1>8, <2>2 DEF ListFits
  <2>4. FileFits(next)
    BY <1>1, <1>5, <1>7, <2>2 DEF FileFits
  <2>5. Working(next, q)
    BY <1>1, <1>7, <2>2, <2>3, <2>4 DEF Working
  <2> QED
    BY <2>1, <2>2, <2>5
<1>9. CASE missing = {} /\ new = <<DoneDl(f0)>> /\ client.downloadRestart
  <2> DEFINE x == DoneDl(f0)
             r == q \o <<x>>
  <2>1. x \in Command /\ x.what = "donedl" /\ x.file = f0
    BY <1>2, CommandTypes DEF DoneDl
  <2> HIDE DEF x
  <2>2. /\ Longer(q, r) /\ L \in Nat /\ Len(r) = L + 1 /\ r[L + 1] = x
        /\ Asked(r, L + 1) = f0 /\ Acked(r, L + 1) = 0 /\ Asked(r, L) = Asked(q, L)
        /\ Acked(r, L) = Acked(q, L) /\ (L + 1) - 1 = L
        /\ \A n \in L + 1..Len(r) : n = L + 1
    BY <2>1, OneMore
  <2>3. r = q \o new
    BY <1>9 DEF x
  <2> HIDE DEF r, L
  <2>4. client.serverId # 0 /\ f0 \in Needed(client.serverId) /\ f0 # NoFile
    BY <1>1, <1>2, <1>3, <1>9 DEF ListFits
  <2>5. /\ next.downloadList = {} /\ ~next.downloadRestart
        /\ next.downloadName = f0 /\ next.downloadBlock = client.downloadBlock
    BY <1>9 DEF Entered
  <2>6. ListFits(next)
    BY <1>1, <1>2, <1>3, <1>7, <1>9, <2>5 DEF ListFits
  <2>7. FileFits(next)
    BY <1>1, <1>5, <1>7, <2>5 DEF FileFits
  <2>8. Working(next, r)
    BY <1>1, <1>7, <2>2, <2>4, <2>5, <2>6, <2>7, WorkingOn DEF L
  <2>9. CommandFits(r, L + 1)
    BY <1>1, <2>1, <2>2, <2>4 DEF CommandFits
  <2>10. l # client.serverId
    BY <1>1, <1>9, <2>4
  <2>11. next.serverId >= 2 /\ (next.serverId = 2 => Needed(2) \subseteq next.saved)
    BY <1>2, <1>7, <1>9, <2>4, <2>10
  <2>12. CutFits(r, L + 1, next)
    BY <2>11 DEF CutFits
  <2> QED
    BY <1>9, <2>1, <2>2, <2>3, <2>5, <2>8, <2>9, <2>10, <2>12 DEF L
<1>10. CASE missing # {}
  <2> DEFINE f == FirstOf(missing, l)
             x == Download(f)
             r == q \o <<x>>
  <2>1. /\ f \in missing /\ next.downloadName = f /\ next.downloadList = missing \ {f}
        /\ next.downloadBlock = 0 /\ new = <<x>>
    BY <1>10 DEF Entered
  <2>2. f \in File /\ f # NoFile
    BY <1>3, <2>1
  <2>3. FirstOf((missing \ {f}) \cup {f}, l) = f
    <3>1. (missing \ {f}) \cup {f} = missing
      BY <2>1
    <3> QED
      BY <3>1
  <2> HIDE DEF f
  <2>4. x \in Command /\ x.what = "download" /\ x.file = f /\ x.which = f
    BY <2>2, CommandTypes DEF Download
  <2> HIDE DEF x
  <2>5. /\ Longer(q, r) /\ L \in Nat /\ Len(r) = L + 1 /\ r[L + 1] = x
        /\ Asked(r, L + 1) = f /\ Acked(r, L + 1) = 0 /\ Asked(r, L) = Asked(q, L)
        /\ Acked(r, L) = Acked(q, L) /\ (L + 1) - 1 = L
        /\ \A n \in L + 1..Len(r) : n = L + 1
    BY <2>2, <2>4, OneMore
  <2>6. r = q \o new
    BY <2>1
  <2> HIDE DEF r, L
  <2>7. ListFits(next)
    <3>1. missing \ {f} \subseteq Needed(l) /\ Needed(l) \subseteq client.saved \cup (missing \ {f}) \cup {f}
      OBVIOUS
    <3>2. (missing \ {f}) \cap (client.saved \cup {f}) = {} /\ f \in Needed(l)
      BY <2>1
    <3> HIDE DEF missing
    <3> QED
      BY <1>2, <1>7, <2>1, <2>3, <3>1, <3>2 DEF ListFits
  <2>8. FileFits(next)
    BY <1>7, <2>1 DEF FileFits
  <2>9. Working(next, r)
    BY <1>1, <1>7, <2>1, <2>5, <2>7, <2>8, WorkingOn DEF L
  <2>10. CommandFits(r, L + 1) /\ CutFits(r, L + 1, next)
    BY <1>1, <2>2, <2>4, <2>5 DEF CommandFits, CutFits
  <2>11. ASSUME l = client.serverId
         PROVE  f0 \in Needed(client.serverId) /\ f = f0 /\ next.downloadBlock = client.downloadBlock
    <3>1. /\ client.downloadList \subseteq Needed(l) /\ Needed(l) \subseteq client.saved \cup client.downloadList \cup {f0}
          /\ client.downloadList # {} => f0 \in Needed(l)
          /\ f0 \in Needed(l) => FirstOf(client.downloadList \cup {f0}, l) = f0
          /\ client.downloadList \cap (client.saved \cup {f0}) = {}
      BY <1>1, <1>2, <2>11 DEF ListFits
    <3>2. f0 \in Needed(l) /\ f0 # NoFile /\ f0 \notin client.saved
      BY <1>1, <1>2, <1>3, <1>10, <2>11, <3>1
    <3>3. missing = client.downloadList \cup {f0}
      BY <3>1, <3>2
    <3>4. f = f0
      BY <3>1, <3>2, <3>3 DEF f
    <3> QED
      BY <2>1, <2>11, <3>2, <3>4
  <2>12. new # <<>>
    BY <2>1
  <2> QED
    BY <2>1, <2>4, <2>5, <2>6, <2>9, <2>10, <2>11, <2>12 DEF L
<1>11. /\ missing = {} => new = <<>> \/ (new = <<DoneDl(f0)>> /\ client.downloadRestart)
  BY DEF Entered
<1> QED
  BY <1>8, <1>9, <1>10, <1>11

LEMMA GamestateSound ==
  ASSUME TypeOK, Good, NEW m, NEW client, NEW rest, Has(m, client, rest), Alive(client),
         m.kind = "gamestate", CL_ParseGamestate(client, m)
  PROVE  Sound(c', commands', rest, toServer')
<1>1. /\ ClientOK(client) /\ rest \in Seq(MessageType) /\ Sound(client, commands, rest, toServer)
      /\ toServer \in Seq(PacketType) /\ Proper(commands)
      /\ \A i \in 1..Len(toServer) : toServer[i].commands <= Len(commands)
      /\ m \in MessageType /\ GamestateFits(m, s, c, commands) /\ SameFiles(c, client)
      /\ client.messageNum = m.number
  BY Parts DEF Has, PacketsOK, MessageFits
<1>2. Working(client, commands) /\ Alive(c)
  BY <1>1 DEF Sound, ClientFits, SameFiles, Alive
<1>3. m.serverId \in Levels /\ m.serverId \in Nat /\ client.serverId \in Nat
  BY <1>1, Constants DEF MessageType, ClientOK, Client
<1>4. /\ client.serverId <= m.serverId
      /\ client.downloadName # NoFile => client.downloadBlock = 0
      /\ m.serverId = client.serverId /\ client.downloadName \in Needed(client.serverId) => s.serverId > 2
  BY <1>1, <1>2 DEF GamestateFits, SameFiles
<1>5. toServer' = toServer
  BY <1>1, <1>3, GamestateNext
<1>6. PICK next, new :
        /\ Entered(client, m, next, new)
        /\ \/ c' = Left(next) /\ commands' = commands
           \/ c' = next /\ commands' = commands \o new
  BY <1>1, <1>3, GamestateNext
<1> DEFINE r == commands \o new
           L == Len(commands)
<1>7. /\ Longer(commands, r) /\ Working(next, r)
      /\ \A n \in L + 1..Len(r) :
           /\ CommandFits(r, n) /\ CutFits(r, n, next) /\ r[n].what # "nextdl"
           /\ m.serverId = client.serverId =>
                /\ client.downloadName \in Needed(client.serverId)
                /\ next.downloadName = client.downloadName /\ next.downloadBlock = client.downloadBlock
                /\ r[n].what = "download" /\ Asked(r, n) = client.downloadName
      /\ new = <<>> => next.downloadName = client.downloadName /\ next.downloadBlock = client.downloadBlock
      /\ new = <<>> \/ Len(r) = L + 1
  BY <1>1, <1>2, <1>3, <1>4, <1>6, EnteredFits
<1>8. /\ ClientOK(next) /\ next.serverId = m.serverId /\ next.messageNum = client.messageNum
      /\ next.reliableAcknowledge = client.reliableAcknowledge /\ next.saved = client.saved
      /\ Alive(next)
  BY <1>6 DEF Entered
<1>9. \/ c' = next /\ commands' = r
      \/ c' = Left(next) /\ commands' = commands
  BY <1>6
<1>10. new = <<>> => r = commands
  BY <1>1, NoneMore
<1>11. L \in Nat /\ Len(r) \in Nat
  BY <1>7, LongerSame
<1>12. Longer(commands, commands) /\ \A n \in L + 1..L : FALSE
  BY <1>1, NoneMore
<1> HIDE DEF r, L
<1> DEFINE gone == Left(next)
<1>13. /\ ~Alive(gone) /\ gone.download = NoFile /\ gone.messageNum = client.messageNum
       /\ gone.reliableAcknowledge = client.reliableAcknowledge /\ gone.saved = client.saved
       /\ gone.serverId = m.serverId
  BY <1>8 DEF Left, Alive, ClientOK, Client
<1> HIDE DEF gone
<1>14. CASE client.serverId < m.serverId
  <2>1. Sound(next, r, rest, toServer)
    BY <1>7, <1>8, <1>14, NewLevel DEF L
  <2>2. Sound(gone, commands, rest, toServer)
    BY <1>12, <1>13, <1>14, NewLevel DEF L
  <2> QED
    BY <1>5, <1>9, <2>1, <2>2 DEF gone
<1>15. CASE client.serverId = m.serverId
  <2>1. Sound(gone, commands, rest, toServer)
    BY <1>1, <1>12, <1>13, <1>15, Quits DEF L
  <2>2. next.downloadName = client.downloadName /\ next.downloadBlock = client.downloadBlock
    <3>1. CASE new = <<>>
      BY <1>7, <3>1
    <3>2. CASE Len(r) = L + 1
      <4>1. L + 1 \in L + 1..Len(r)
        BY <1>11, <3>2
      <4> QED
        BY <1>7, <1>15, <4>1
    <3> QED
      BY <1>7, <3>1, <3>2
  <2>3. ASSUME NEW j \in L + 1..Len(r)
        PROVE  /\ Asked(r, j) = client.downloadName /\ Again(r, j, s.serverId)
               /\ r[j].what # "donedl" /\ client.downloadName # NoFile
    <3>1. /\ client.downloadName \in Needed(client.serverId) /\ r[j].what = "download"
          /\ Asked(r, j) = client.downloadName
      BY <1>7, <1>15
    <3>2. client.downloadName # NoFile
      BY <1>3, <1>15, <3>1, Constants DEF Needed
    <3> QED
      BY <1>4, <1>15, <3>1, <3>2 DEF Again
  <2>4. Proceeds(client, commands, next, r, s.serverId)
    BY <1>8, <1>15, <2>2, <2>3 DEF Proceeds, L
  <2>5. /\ next.downloadName = client.downloadName /\ client.downloadBlock <= next.downloadBlock
        /\ next.downloadBlock = client.downloadBlock
    BY <1>1, <2>2 DEF ClientOK, Client
  <2>6. /\ \A n \in L + 1..Len(r) : CommandFits(r, n) /\ CutFits(r, n, next)
        /\ \A n \in L + 1..Len(r) : r[n].what # "nextdl"
        /\ \A f \in next.saved \ client.saved : FALSE
    BY <1>7, <1>8
  <2>7. Sound(next, r, rest, toServer)
    BY <1>1, <1>7, <1>8, <2>4, <2>5, <2>6, StaysSound DEF L
  <2> QED
    BY <1>5, <1>9, <2>1, <2>7 DEF gone
<1> QED
  BY <1>3, <1>4, <1>14, <1>15

-----------------------------------------------------------------------------
(* ClientReceives: a block. *)

LEMMA AddsPacket ==
  ASSUME NEW client, NEW q, NEW messages, NEW packets \in Seq(PacketType),
         Sound(client, q, messages, packets),
         NEW p \in PacketType, PacketFits(p, s, client, q), p.serverId = client.serverId
  PROVE  Sound(client, q, messages, Append(packets, p))
<1> DEFINE new == <<p>>
<1>1. Append(packets, p) = packets \o new /\ new \in Seq(PacketType)
      /\ \A i \in 1..Len(new) : i = 1 /\ new[i] = p
  BY OneNew
<1> HIDE DEF new
<1>2. PacketsFit(packets, s, client, q)
  BY DEF Sound
<1>3. \A i \in 1..Len(packets) : packets[i].serverId <= client.serverId
  BY <1>2 DEF PacketsFit, PacketFits
<1>4. PartOf(packets, packets)
  BY WholeIsPart
<1>5. /\ \A i \in 1..Len(packets) : PacketFits(packets[i], s, client, q)
      /\ \A i, j \in 1..Len(packets) : i < j => packets[i].serverId <= packets[j].serverId
      /\ \A i \in 1..Len(packets), j \in 1..Len(new) : packets[i].serverId <= new[j].serverId
      /\ \A i \in 1..Len(new) : PacketFits(new[i], s, client, q)
      /\ \A i, j \in 1..Len(new) : i < j => new[i].serverId <= new[j].serverId
  BY <1>1, <1>2, <1>3 DEF PacketsFit
<1>6. PacketsFit(packets \o new, s, client, q)
  BY <1>1, <1>4, <1>5, PacketsGoOn
<1> QED
  BY <1>1, <1>6 DEF Sound

\* The client takes another file's block only where there is a short file.
LEMMA OtherBlock ==
  ASSUME NEW m, NEW client, NEW rest, Has(m, client, rest), Alive(client), m.kind = "download",
         client.downloadName # NoFile, m.block = client.downloadBlock, m.data.file # client.downloadName
  PROVE  ~NoShort
<1> DEFINE f == m.data.file
<1>1. BlockFits(m, s, client, commands) /\ m \in MessageType
  BY DEF Has
<1>2. f = Asked(commands, m.commands) /\ f \in File /\ Since(commands, m.commands, client, s.serverId)
      /\ (NoShort /\ f \in client.saved => m.block > Blocks[f] - W)
      /\ (client.downloadBlock > 0 => f = client.downloadName)
  BY <1>1 DEF BlockFits
<1>3. f # NoFile /\ Blocks[f] \in Nat /\ W \in Nat /\ m.block \in Nat
  BY <1>1, <1>2, Constants, MessageNumbers
<1>4. f \in client.saved
  BY <1>2, <1>3 DEF Since
<1>5. m.block = 0
  BY <1>2, <1>3
<1>6. NoShort => W <= Blocks[f]
  BY <1>2 DEF NoShort
<1> HIDE DEF f
<1> QED
  BY <1>2, <1>3, <1>4, <1>5, <1>6

\* The block that the client takes, and the acknowledgement of it.
LEMMA OwnBlock ==
  ASSUME TypeOK, NEW m, NEW client, NEW rest, Has(m, client, rest), Alive(client), m.kind = "download",
         client.downloadName # NoFile, m.block = client.downloadBlock, m.data.file = client.downloadName
  PROVE  LET f == client.downloadName
             b == client.downloadBlock
         IN /\ f \in File /\ f \notin Refused /\ b \in Nat /\ b <= Blocks[f] /\ f \notin client.saved
            /\ m.data = [file |-> f, index |-> b] /\ (IsEmpty(m.data) <=> b = Blocks[f])
            /\ f = Asked(commands, Len(commands)) /\ b = Acked(commands, Len(commands))
            /\ m.commands \in 0..Len(commands) /\ m.commands <= s.lastClientCommand
            /\ Asked(commands, m.commands) = f /\ Holds(commands, m.commands, s.serverId)
            /\ b < Acked(commands, m.commands) + W
            /\ ~Dropped(s) => /\ Sent(s, b, commands) /\ (s.serverId <= 2 => s.download # NoFile)
                              /\ NoShort /\ b = Blocks[f] => Late(s)
            /\ \A i \in 1..Len(rest) :
                 /\ rest[i].kind # "gamestate"
                 /\ rest[i].kind = "download" => rest[i].data.file = f
                 /\ NoShort /\ b = Blocks[f] /\ rest[i].kind = "download" => rest[i].block > Blocks[f] - W
<1> DEFINE f == client.downloadName
           b == client.downloadBlock
           q == commands
           L == Len(q)
           a == m.commands
<1>1. BlockFits(m, s, client, q) /\ m \in MessageType /\ Sound(client, q, rest, toServer)
      /\ ClientOK(client) /\ MessageFits(m, s, c, q) /\ rest \in Seq(MessageType)
      /\ \A i \in 1..Len(rest) : InOrder(m, rest[i], client)
  BY DEF Has
<1>2. Working(client, q) /\ MessagesFit(rest, s, client, q)
  BY <1>1 DEF Sound, ClientFits
<1>3. /\ f = Asked(q, a) /\ f \in File /\ f \notin Refused /\ b <= Blocks[f] /\ b < Acked(q, a) + W
      /\ Since(q, a, client, s.serverId) /\ OwnFits(m, s, client, q)
  BY <1>1 DEF BlockFits
<1>4. f \notin client.saved /\ f = Asked(q, L) /\ b = Acked(q, L)
  BY <1>2 DEF Working
<1>5. b \in Nat /\ a \in Nat /\ L \in Nat /\ s.lastClientCommand \in 0..L
  BY <1>1, Parts, MessageNumbers DEF ClientOK, Client
<1>6. a <= s.lastClientCommand /\ a \in 0..L
  <2>1. a <= s.lastClientCommand
    BY <1>1 DEF MessageFits
  <2> QED
    BY <1>5, <2>1
<1>7. Holds(q, a, s.serverId)
  BY <1>3, <1>4 DEF Since
<1>8. m.data.index = b
  <2>1. ~(b < b)
    BY <1>5
  <2> QED
    BY <1>3, <2>1 DEF OwnFits
<1>9. m.data \in Block
  <2>1. m.data \in Block \cup {Unread}
    BY <1>1 DEF MessageType
  <2> QED
    BY <2>1, BlockType
<1>10. m.data = [file |-> f, index |-> b]
  BY <1>8, <1>9 DEF Block
<1>11. IsEmpty(m.data) <=> b = Blocks[f]
  BY <1>8 DEF IsEmpty
<1>12. ~Dropped(s) => /\ Sent(s, b, q) /\ (s.serverId <= 2 => s.download # NoFile)
                      /\ NoShort /\ b = Blocks[f] => Late(s)
  BY <1>3 DEF OwnFits
<1>13. ASSUME NEW i \in 1..Len(rest)
       PROVE  /\ rest[i].kind # "gamestate"
              /\ rest[i].kind = "download" => rest[i].data.file = f
              /\ NoShort /\ b = Blocks[f] /\ rest[i].kind = "download" => rest[i].block > Blocks[f] - W
  <2> DEFINE x == rest[i]
  <2>1. x \in MessageType /\ InOrder(m, x, client) /\ MessageFits(x, s, client, q)
    BY <1>1, <1>2, ElementOfSeq DEF MessagesFit
  <2> HIDE DEF x, f, b, q, a
  <2>2. m.commands <= x.commands /\ x.commands \in Nat /\ x.commands <= s.lastClientCommand
    BY <2>1, MessageNumbers DEF InOrder, MessageFits
  <2>3. x.commands \in a..L /\ (x.commands < L => x.commands + 1 \in a..L /\ x.commands + 1 > a)
    BY <1>5, <1>6, <2>2 DEF a
  <2>4. Asked(q, x.commands) = f
    BY <1>3, <1>7, <2>3 DEF Holds
  <2>5. x.commands < L => q[x.commands + 1].what # "donedl"
    BY <1>7, <2>3 DEF Holds, Again
  <2>6. x.kind # "gamestate"
    <3>1. f # NoFile
      BY <1>3, Constants
    <3> QED
      BY <1>3, <2>1, <2>4, <2>5, <3>1 DEF MessageFits, GamestateFits, L
  <2>7. x.kind = "download" => x.data.file = f
    BY <2>1 DEF InOrder, f
  <2>8. NoShort /\ b = Blocks[f] /\ x.kind = "download" => x.block > Blocks[f] - W
    BY <2>1, <2>7 DEF InOrder, f, b
  <2> QED
    BY <2>6, <2>7, <2>8 DEF x, f, b
<1> QED
  BY <1>3, <1>4, <1>5, <1>6, <1>7, <1>10, <1>11, <1>12, <1>13

\* The commands with the acknowledgement of a block.
LEMMA Acknowledged ==
  ASSUME TypeOK, NEW m, NEW client, NEW rest, Has(m, client, rest), Alive(client), m.kind = "download",
         client.downloadName # NoFile, m.block = client.downloadBlock, m.data.file = client.downloadName
  PROVE  LET f == client.downloadName
             b == client.downloadBlock
             file == IF IsEmpty(m.data) THEN NoFile ELSE f
             r == commands \o <<NextDl(b, file)>>
             L == Len(commands)
         IN /\ Longer(commands, r) /\ L \in Nat /\ Len(r) = L + 1
            /\ r[L + 1].what = "nextdl" /\ r[L + 1].which = b
            /\ Asked(r, L) = f /\ Asked(r, L + 1) = file /\ Acked(r, L + 1) = b + 1 /\ (L + 1) - 1 = L
            /\ CommandFits(r, L + 1) /\ \A any : CutFits(r, L + 1, any)
            /\ \A n \in L + 1..Len(r) : n = L + 1
            /\ ~Dropped(s) => PendingFits(s, L + 1, r)
<1> DEFINE f == client.downloadName
           b == client.downloadBlock
           file == IF IsEmpty(m.data) THEN NoFile ELSE f
           q == commands
           L == Len(commands)
           x == NextDl(b, file)
           r == q \o <<x>>
<1>1. /\ f \in File /\ f \notin Refused /\ b \in Nat /\ b <= Blocks[f]
      /\ (IsEmpty(m.data) <=> b = Blocks[f]) /\ f = Asked(q, L) /\ b = Acked(q, L)
      /\ m.commands \in 0..L /\ m.commands <= s.lastClientCommand
      /\ Asked(q, m.commands) = f /\ Holds(q, m.commands, s.serverId)
      /\ ~Dropped(s) => Sent(s, b, q) /\ (s.serverId <= 2 => s.download # NoFile)
  BY OwnBlock
<1>2. file \in AnyFile /\ Proper(q) /\ s.lastClientCommand \in 0..L
  BY <1>1, Parts DEF AnyFile
<1>3. f # NoFile
  BY <1>1, Constants
<1>4. file = IF b = Blocks[f] THEN NoFile ELSE f
  BY <1>1
<1> HIDE DEF f, b, file
<1>5. x \in Command /\ x.what = "nextdl" /\ x.which = b /\ x.file = file
  BY <1>1, <1>2, CommandTypes DEF NextDl
<1> HIDE DEF x
<1>6. /\ Longer(q, r) /\ L \in Nat /\ Len(r) = L + 1 /\ r[L + 1] = x
      /\ Asked(r, L + 1) = file /\ Acked(r, L + 1) = b + 1
      /\ Asked(r, L) = f /\ Acked(r, L) = b /\ (L + 1) - 1 = L
      /\ \A n \in L + 1..Len(r) : n = L + 1
  BY <1>1, <1>2, <1>5, OneMore
<1> HIDE DEF r
<1>7. CommandFits(r, L + 1)
  BY <1>1, <1>3, <1>4, <1>5, <1>6 DEF CommandFits
<1>8. \A any : CutFits(r, L + 1, any)
  BY <1>5, <1>6 DEF CutFits
<1>9. ASSUME ~Dropped(s) PROVE PendingFits(s, L + 1, r)
  <2> DEFINE n == s.lastClientCommand
             a == m.commands
  <2>1. /\ n \in a..L /\ \A j \in n..L : j \in a..L /\ j \in 0..L
        /\ \A j \in n + 1..L : j \in a..L /\ j > a /\ j \in 1..L
        /\ n \in n..L
    BY <1>1, <1>2, <1>6
  <2>2. \A j \in n..L : Asked(r, j) = f
    <3>1. \A j \in n..L : Asked(q, j) = f
      BY <1>1, <2>1 DEF Holds
    <3> QED
      BY <1>6, <2>1, <3>1, LongerSame
  <2>3. \A j \in n + 1..L : Again(r, j, s.serverId)
    <3>1. \A j \in n + 1..L : Again(q, j, s.serverId)
      BY <1>1, <2>1 DEF Holds
    <3>2. \A j \in n + 1..L : r[j] = q[j]
      BY <1>6, <2>1, LongerSame
    <3> QED
      BY <3>1, <3>2 DEF Again
  <2>4. Again(r, L + 1, s.serverId)
    BY <1>5, <1>6 DEF Again
  <2>5. \A j \in n + 1..L + 1 : j \in n + 1..L \/ j = L + 1
    BY <1>2, <1>6
  <2>6. \A j \in n + 1..L + 1 : Again(r, j, s.serverId)
    BY <2>3, <2>4, <2>5
  <2>7. \A j \in n..(L + 1) - 1 : Asked(r, j) = Asked(r, n)
    BY <1>6, <2>1, <2>2
  <2>8. Sent(s, r[L + 1].which, r)
    BY <1>1, <1>2, <1>5, <1>6, <1>9, ServerLonger
  <2>9. Asked(r, n) \notin Refused
    BY <1>1, <2>1, <2>2
  <2> QED
    BY <1>1, <1>9, <2>6, <2>7, <2>8, <2>9 DEF PendingFits
<1> QED
  BY <1>5, <1>6, <1>7, <1>8, <1>9 DEF r, x, f, b, file

\* The client that has taken a block, and its acknowledgement.
Taken(client, m) ==
  LET end == IsEmpty(m.data)
      f == client.downloadName
  IN [client EXCEPT !.download = IF end THEN NoFile ELSE IF @ = NoFile THEN f ELSE @,
                    !.written = (IF client.download = NoFile THEN <<>> ELSE client.written)
                                  \o (IF end THEN <<>> ELSE <<m.data>>),
                    !.downloadBlock = @ + 1, !.mixed = @ \cup ({m.data.file} \ {f})]
Answer(client, m) ==
  <<NextDl(client.downloadBlock, IF IsEmpty(m.data) THEN NoFile ELSE client.downloadName)>>
\* The client that has a complete file.
Ended(client, m) == [Taken(client, m) EXCEPT !.saved = @ \cup {client.downloadName}]

LEMMA TakeCases ==
  ASSUME NEW client \in Client, NEW m, TakeBlock(client, m)
  PROVE  LET r == commands \o Answer(client, m)
             next == CL_NextDownload(Ended(client, m))
         IN \/ c' = Left(Taken(client, m)) /\ commands' = commands /\ toServer' = toServer
            \/ ~IsEmpty(m.data) /\ c' = Taken(client, m) /\ commands' = r /\ toServer' = toServer
            \/ /\ IsEmpty(m.data)
               /\ toServer' = IF HasRoom(toServer)
                              THEN Append(toServer, Packet(client, Len(commands) + 1)) ELSE toServer
               /\ \/ c' = Left(Taken(client, m)) /\ commands' = r \o <<>>
                  \/ c' = next.client /\ commands' = r \o next.new
<1> DEFINE end == IsEmpty(m.data)
           f == client.downloadName
           written == (IF client.download = NoFile THEN <<>> ELSE client.written)
                        \o (IF end THEN <<>> ELSE <<m.data>>)
           taken == [client EXCEPT !.download = IF end THEN NoFile
                                                ELSE IF @ = NoFile THEN f ELSE @,
                                   !.written = written, !.downloadBlock = @ + 1,
                                   !.mixed = @ \cup ({m.data.file} \ {f})]
           acknowledgement == <<NextDl(client.downloadBlock, IF end THEN NoFile ELSE f)>>
           ended == [taken EXCEPT !.saved = @ \cup {f}]
           next == CL_NextDownload(ended)
           q(stays) == commands \o acknowledgement \o (IF stays THEN next.new ELSE <<>>)
<1>1. \/ (~end \/ Overflows(client, acknowledgement)) /\ Adding(taken, acknowledgement) /\ UNCHANGED toServer
      \/ /\ end
         /\ toServer' = IF HasRoom(toServer)
                        THEN Append(toServer, Packet(client, Len(commands) + 1)) ELSE toServer
         /\ \E stays \in BOOLEAN : c' = (IF stays THEN next.client ELSE Left(taken)) /\ commands' = q(stays)
  BY DEF TakeBlock
<1>2. taken = Taken(client, m) /\ acknowledgement = Answer(client, m) /\ ended = Ended(client, m)
  BY DEF Taken, Answer, Ended
<1>3. Overflows(client, acknowledgement) <=> Overflows(taken, acknowledgement)
  BY DEF Overflows, Client
<1>4. \A stays \in BOOLEAN :
        /\ stays => q(stays) = commands \o acknowledgement \o next.new
        /\ ~stays => q(stays) = commands \o acknowledgement \o <<>>
  OBVIOUS
<1> HIDE DEF taken, acknowledgement, next, q, end
<1>5. CASE (~end \/ Overflows(client, acknowledgement)) /\ Adding(taken, acknowledgement) /\ UNCHANGED toServer
  <2>1. CASE Overflows(taken, acknowledgement)
    BY <1>2, <1>5, <2>1 DEF Adding
  <2>2. CASE ~Overflows(taken, acknowledgement)
    BY <1>2, <1>3, <1>5, <2>2 DEF Adding, end
  <2> QED
    BY <2>1, <2>2
<1>6. ASSUME NEW stays \in BOOLEAN, end,
             toServer' = IF HasRoom(toServer)
                         THEN Append(toServer, Packet(client, Len(commands) + 1)) ELSE toServer,
             c' = (IF stays THEN next.client ELSE Left(taken)) /\ commands' = q(stays)
      PROVE  \/ c' = Left(taken) /\ commands' = commands \o acknowledgement \o <<>>
             \/ c' = next.client /\ commands' = commands \o acknowledgement \o next.new
  BY <1>4, <1>6
<1>7. CASE /\ end
           /\ toServer' = IF HasRoom(toServer)
                          THEN Append(toServer, Packet(client, Len(commands) + 1)) ELSE toServer
           /\ \E stays \in BOOLEAN : c' = (IF stays THEN next.client ELSE Left(taken)) /\ commands' = q(stays)
  <2>1. \/ c' = Left(taken) /\ commands' = commands \o acknowledgement \o <<>>
        \/ c' = next.client /\ commands' = commands \o acknowledgement \o next.new
    BY <1>6, <1>7
  <2> QED
    BY <1>2, <1>7, <2>1 DEF end, next
<1> QED
  BY <1>1, <1>5, <1>7

LEMMA ConcatOne ==
  ASSUME NEW S, NEW old \in Seq(S), NEW new \in Seq(S), Len(new) = 1
  PROVE  /\ old \o new \in Seq(S) /\ Len(old) \in Nat /\ Len(old \o new) = Len(old) + 1
         /\ \A i \in 1..Len(old) + 1 : (old \o new)[i] = IF i <= Len(old) THEN old[i] ELSE new[i - Len(old)]
<1>1. /\ old \o new \in Seq(S) /\ Len(old \o new) = Len(old) + Len(new)
      /\ \A i \in 1..Len(old) + Len(new) :
           (old \o new)[i] = IF i <= Len(old) THEN old[i] ELSE new[i - Len(old)]
  BY ConcatProperties, ZenonT(60)
<1>2. Len(old) \in Nat
  BY LenProperties
<1> QED
  BY <1>1, <1>2, ZenonT(60)

\* A block more is written.
LEMMA WrittenMore ==
  ASSUME NEW f \in File, NEW b \in Nat, NEW old,
         old = [i \in 1..b |-> [file |-> f, index |-> i - 1]]
  PROVE  old \o <<[file |-> f, index |-> b]>> = [i \in 1..b + 1 |-> [file |-> f, index |-> i - 1]]
<1> DEFINE x == [file |-> f, index |-> b]
           new == <<x>>
           r == old \o new
<1>1. x \in Block
  BY DEF Block
<1>2. old \in Seq(Block) /\ Len(old) = b
  <2>1. \A i \in 1..b : [file |-> f, index |-> i - 1] \in Block
    BY DEF Block
  <2>2. old \in [1..b -> Block]
    BY <2>1
  <2> QED
    BY <2>2, SeqDef, LenProperties
<1> HIDE DEF x
<1>3. new \in Seq(Block) /\ Len(new) = 1 /\ new[1] = x
  BY <1>1
<1> HIDE DEF new
<1>4. /\ r \in Seq(Block) /\ Len(r) = b + 1
      /\ \A i \in 1..Len(r) : r[i] = IF i <= Len(old) THEN old[i] ELSE new[i - Len(old)]
  <2>1. /\ r \in Seq(Block) /\ Len(old) \in Nat /\ Len(r) = Len(old) + 1
        /\ \A i \in 1..Len(old) + 1 : r[i] = IF i <= Len(old) THEN old[i] ELSE new[i - Len(old)]
    BY <1>2, <1>3, ConcatOne, Zenon
  <2> HIDE DEF r
  <2> QED
    BY <1>2, <1>3, <2>1
<1> HIDE DEF r
<1>5. ASSUME NEW i \in 1..b + 1 PROVE r[i] = [file |-> f, index |-> i - 1]
  <2>1. CASE i <= b
    BY <1>2, <1>4, <2>1
  <2>2. CASE ~(i <= b)
    <3>1. i = b + 1 /\ i - b = 1 /\ i - 1 = b
      BY <2>2
    <3>2. r[i] = x
      BY <1>2, <1>3, <1>4, <2>2, <3>1
    <3> QED
      BY <3>1, <3>2 DEF x
  <2> QED
    BY <2>1, <2>2
<1>6. DOMAIN r = 1..b + 1 /\ r = [i \in DOMAIN r |-> r[i]]
  BY <1>4, LenProperties
<1>7. r = [i \in 1..b + 1 |-> [file |-> f, index |-> i - 1]]
  BY <1>5, <1>6
<1> QED
  BY <1>7 DEF r, new, x

LEMMA TakenFacts ==
  ASSUME NEW client \in Client, NEW m
  PROVE  LET t == Taken(client, m)
         IN /\ t.state = client.state /\ t.serverId = client.serverId /\ t.messageNum = client.messageNum
            /\ t.reliableAcknowledge = client.reliableAcknowledge /\ t.downloadList = client.downloadList
            /\ t.downloadRestart = client.downloadRestart /\ t.downloadName = client.downloadName
            /\ t.downloadBlock = client.downloadBlock + 1 /\ t.saved = client.saved
            /\ t.mixed = client.mixed \cup ({m.data.file} \ {client.downloadName})
            /\ IsEmpty(m.data) => t.download = NoFile
            /\ ~IsEmpty(m.data) =>
                 /\ t.download = IF client.download = NoFile THEN client.downloadName ELSE client.download
                 /\ t.written = (IF client.download = NoFile THEN <<>> ELSE client.written) \o <<m.data>>
BY DEF Taken, Client

\* A block of the client's file that is not its last.
LEMMA TakenFits ==
  ASSUME NEW client, ClientOK(client), FileFits(client), ListFits(client), NEW m,
         client.downloadName \in File, ~IsEmpty(m.data),
         m.data = [file |-> client.downloadName, index |-> client.downloadBlock]
  PROVE  FileFits(Taken(client, m)) /\ ListFits(Taken(client, m))
<1> DEFINE t == Taken(client, m)
           f == client.downloadName
           b == client.downloadBlock
           old == IF client.download = NoFile THEN <<>> ELSE client.written
<1>1. /\ t.serverId = client.serverId /\ t.downloadList = client.downloadList
      /\ t.downloadRestart = client.downloadRestart /\ t.downloadName = f
      /\ t.downloadBlock = b + 1 /\ t.saved = client.saved
      /\ t.download = IF client.download = NoFile THEN f ELSE client.download
      /\ t.written = old \o <<m.data>>
  BY TakenFacts DEF ClientOK
<1>2. b \in Nat /\ f # NoFile
  BY Constants DEF ClientOK, Client
<1> HIDE DEF t
<1>3. ListFits(t)
  BY <1>1 DEF ListFits
<1>4. t.download = f /\ old = [i \in 1..b |-> [file |-> f, index |-> i - 1]]
  <2>1. CASE b = 0
    <3>1. client.download = NoFile
      BY <1>2, <2>1 DEF FileFits
    <3>2. [i \in 1..b |-> [file |-> f, index |-> i - 1]] = <<>>
      BY <2>1
    <3> QED
      BY <1>1, <3>1, <3>2
  <2>2. CASE b # 0
    <3>1. b > 0
      BY <1>2, <2>2
    <3> QED
      BY <1>1, <1>2, <3>1 DEF FileFits
  <2> QED
    BY <2>1, <2>2
<1>5. t.written = [i \in 1..b + 1 |-> [file |-> f, index |-> i - 1]]
  <2> HIDE DEF old
  <2> QED
    BY <1>1, <1>2, <1>4, WrittenMore
<1>6. FileFits(t)
  BY <1>1, <1>2, <1>4, <1>5 DEF FileFits
<1> QED
  BY <1>3, <1>6 DEF t

LEMMA LeftTaken ==
  ASSUME NEW client \in Client, NEW m
  PROVE  LET gone == Left(Taken(client, m))
         IN /\ ~Alive(gone) /\ gone.download = NoFile /\ gone.messageNum = client.messageNum
            /\ gone.reliableAcknowledge = client.reliableAcknowledge /\ client.saved \subseteq gone.saved
            /\ gone.serverId = client.serverId /\ gone.mixed = Taken(client, m).mixed
<1> DEFINE t == Taken(client, m)
           gone == Left(t)
<1>1. /\ gone.state = "CA_DISCONNECTED" /\ gone.download = NoFile /\ gone.messageNum = t.messageNum
      /\ gone.reliableAcknowledge = t.reliableAcknowledge /\ gone.saved = t.saved
      /\ gone.serverId = t.serverId /\ gone.mixed = t.mixed
  BY DEF Left, Taken, Client
<1> HIDE DEF gone
<1>2. /\ t.messageNum = client.messageNum /\ t.reliableAcknowledge = client.reliableAcknowledge
      /\ t.saved = client.saved /\ t.serverId = client.serverId
  BY TakenFacts
<1> HIDE DEF t
<1>3. ~Alive(gone)
  BY <1>1 DEF Alive
<1> QED
  BY <1>1, <1>2, <1>3 DEF gone, t

LEMMA TakenSound ==
  ASSUME TypeOK, NEW m, NEW client, NEW rest, Has(m, client, rest), Alive(client), m.kind = "download",
         client.downloadName # NoFile, m.block = client.downloadBlock, m.data.file = client.downloadName,
         ~IsEmpty(m.data), ClientOK(Taken(client, m))
  PROVE  Sound(Taken(client, m), commands \o Answer(client, m), rest, toServer)
<1> DEFINE f == client.downloadName
           b == client.downloadBlock
           q == commands
           L == Len(q)
           r == q \o Answer(client, m)
           t == Taken(client, m)
<1>1. /\ ClientOK(client) /\ rest \in Seq(MessageType) /\ Sound(client, q, rest, toServer)
      /\ toServer \in Seq(PacketType) /\ Proper(q)
      /\ \A i \in 1..Len(toServer) : toServer[i].commands <= Len(q)
  BY Parts DEF Has, PacketsOK
<1>2. Working(client, q)
  BY <1>1 DEF Sound, ClientFits
<1>3. /\ f \in File /\ b \in Nat /\ f \notin client.saved /\ m.data = [file |-> f, index |-> b]
      /\ \A i \in 1..Len(rest) :
           rest[i].kind # "gamestate" /\ (rest[i].kind = "download" => rest[i].data.file = f)
  BY OwnBlock
<1>4. /\ Longer(q, r) /\ L \in Nat /\ Len(r) = L + 1 /\ r[L + 1].what = "nextdl"
      /\ Asked(r, L + 1) = f /\ Acked(r, L + 1) = b + 1
      /\ CommandFits(r, L + 1) /\ CutFits(r, L + 1, t)
      /\ \A n \in L + 1..Len(r) : n = L + 1
      /\ ~Dropped(s) => PendingFits(s, L + 1, r)
  BY Acknowledged DEF Answer
<1>5. /\ t.state = client.state /\ t.serverId = client.serverId /\ t.messageNum = client.messageNum
      /\ t.reliableAcknowledge = client.reliableAcknowledge /\ t.downloadName = f
      /\ t.downloadBlock = b + 1 /\ t.saved = client.saved
  BY <1>1, TakenFacts DEF ClientOK
<1>6. FileFits(t) /\ ListFits(t)
  BY <1>1, <1>2, <1>3, TakenFits DEF Working
<1>7. ClientOK(t)
  OBVIOUS
<1>8. f # NoFile
  BY <1>3, Constants
<1> HIDE DEF t, r, L, f, b
<1>9. Working(t, r)
  BY <1>2, <1>3, <1>4, <1>5, <1>6, WorkingOn DEF L
<1>10. \A j \in L + 1..Len(r) :
         Asked(r, j) = f /\ Again(r, j, s.serverId) /\ r[j].what # "donedl" /\ client.downloadName # NoFile
  BY <1>4, <1>8 DEF Again, f
<1>11. Proceeds(client, q, t, r, s.serverId)
  BY <1>5, <1>10 DEF Proceeds, L, f
<1>12. Alive(t)
  BY <1>5 DEF Alive
<1>13. /\ \A n \in L + 1..Len(r) : CommandFits(r, n) /\ CutFits(r, n, t)
       /\ ~Dropped(s) => \A k \in L + 1..Len(r) : r[k].what = "nextdl" => PendingFits(s, k, r)
       /\ \A g \in t.saved \ client.saved : FALSE
       /\ t.downloadName = client.downloadName /\ client.downloadBlock <= t.downloadBlock
       /\ \A i \in 1..Len(rest) : rest[i].kind = "download" => rest[i].data.file = client.downloadName
       /\ \A i \in 1..Len(rest) : rest[i].kind # "gamestate"
  <2>1. b <= b + 1
    BY <1>3
  <2> QED
    BY <1>3, <1>4, <1>5, <2>1 DEF f, b
<1>14. Sound(t, r, rest, toServer)
  BY <1>1, <1>4, <1>7, <1>9, <1>11, <1>12, <1>13, StaysSound DEF L
<1> QED
  BY <1>14 DEF t, r

\* The client that goes on to its next file, and the command that it gives.
Completes(client, next, new) ==
  LET f == client.downloadName
      list == client.downloadList
      g == FirstOf(list, client.serverId)
  IN /\ next.serverId = client.serverId /\ next.messageNum = client.messageNum
     /\ next.reliableAcknowledge = client.reliableAcknowledge
     /\ next.saved = client.saved \cup {f} /\ next.download = NoFile
     /\ Alive(client) => Alive(next)
     /\ \/ /\ list = {} /\ next.downloadList = {} /\ ~next.downloadRestart
           /\ next.downloadName = NoFile /\ (new = <<>> \/ new = <<DoneDl(NoFile)>>)
        \/ /\ list # {} /\ g \in list /\ next.downloadName = g /\ next.downloadList = list \ {g}
           /\ next.downloadBlock = 0 /\ new = <<Download(g)>>

LEMMA EndedNext ==
  ASSUME NEW client, ClientOK(client), NEW m, IsEmpty(m.data)
  PROVE  LET next == CL_NextDownload(Ended(client, m))
         IN Completes(client, next.client, next.new) /\ next.client.mixed = Taken(client, m).mixed
<1> DEFINE e == Ended(client, m)
           t == Taken(client, m)
           f == client.downloadName
           list == client.downloadList
           next == CL_NextDownload(e)
<1>1. /\ t.state = client.state /\ t.serverId = client.serverId /\ t.messageNum = client.messageNum
      /\ t.reliableAcknowledge = client.reliableAcknowledge /\ t.downloadList = list
      /\ t.downloadRestart = client.downloadRestart /\ t.downloadName = f
      /\ t.saved = client.saved /\ t.download = NoFile
  BY TakenFacts DEF ClientOK
<1>2. DOMAIN e = DOMAIN client /\ DOMAIN t = DOMAIN client
  BY DEF Ended, Taken
<1>3. DOMAIN client = {"state", "serverId", "messageNum", "reliableAcknowledge", "downloadList",
                       "downloadRestart", "downloadName", "downloadBlock", "download", "written",
                       "saved", "mixed"}
  BY DEF ClientOK, Client
<1>4. e = [t EXCEPT !.saved = t.saved \cup {f}]
  BY DEF Ended
<1> HIDE DEF t
<1>5. /\ e.state = client.state /\ e.serverId = client.serverId /\ e.messageNum = client.messageNum
      /\ e.reliableAcknowledge = client.reliableAcknowledge /\ e.downloadList = list
      /\ e.downloadRestart = client.downloadRestart /\ e.downloadName = f
      /\ e.saved = client.saved \cup {f} /\ e.download = NoFile /\ e.mixed = t.mixed
  BY <1>1, <1>2, <1>3, <1>4
<1> HIDE DEF e
<1>6. CASE list = {}
  <2> DEFINE cleared == [e EXCEPT !.downloadName = NoFile]
  <2>1. /\ cleared.state = client.state /\ cleared.serverId = client.serverId
        /\ cleared.messageNum = client.messageNum /\ cleared.downloadList = {}
        /\ cleared.reliableAcknowledge = client.reliableAcknowledge
        /\ cleared.downloadRestart = client.downloadRestart /\ cleared.downloadName = NoFile
        /\ cleared.saved = client.saved \cup {f} /\ cleared.download = NoFile /\ cleared.mixed = t.mixed
        /\ DOMAIN cleared = DOMAIN client
    BY <1>2, <1>3, <1>5, <1>6
  <2>2. next = AfterDownloads(cleared)
    BY <1>5, <1>6 DEF CL_NextDownload
  <2> HIDE DEF cleared
  <2>3. CASE client.downloadRestart
    <3>1. next.client = [cleared EXCEPT !.downloadRestart = FALSE] /\ next.new = <<DoneDl(NoFile)>>
      BY <2>1, <2>2, <2>3 DEF AfterDownloads
    <3> DEFINE x == next.client
    <3>2. /\ x.state = client.state /\ x.serverId = client.serverId /\ x.messageNum = client.messageNum
          /\ x.reliableAcknowledge = client.reliableAcknowledge /\ x.downloadList = {} /\ ~x.downloadRestart
          /\ x.downloadName = NoFile /\ x.saved = client.saved \cup {f} /\ x.download = NoFile
          /\ x.mixed = t.mixed
      BY <1>3, <2>1, <3>1
    <3> HIDE DEF next
    <3> QED
      BY <1>6, <3>1, <3>2 DEF Completes, Alive, next, e, t
  <2>4. CASE ~client.downloadRestart
    <3>1. next.client = [cleared EXCEPT !.state = "CA_LOADING"] /\ next.new = <<>>
      BY <2>1, <2>2, <2>4 DEF AfterDownloads
    <3> DEFINE x == next.client
    <3>2. /\ x.state = "CA_LOADING" /\ x.serverId = client.serverId /\ x.messageNum = client.messageNum
          /\ x.reliableAcknowledge = client.reliableAcknowledge /\ x.downloadList = {} /\ ~x.downloadRestart
          /\ x.downloadName = NoFile /\ x.saved = client.saved \cup {f} /\ x.download = NoFile
          /\ x.mixed = t.mixed
      BY <1>3, <2>1, <2>4, <3>1
    <3> HIDE DEF next
    <3> QED
      BY <1>6, <3>1, <3>2 DEF Completes, Alive, next, e, t
  <2> QED
    BY <2>3, <2>4
<1>7. CASE list # {}
  <2> DEFINE g == FirstOf(list, client.serverId)
             x == next.client
  <2>1. client.serverId \in Levels /\ list \subseteq Needed(client.serverId)
    BY <1>7 DEF ClientOK, Client
  <2>2. g \in list
    BY <1>7, <2>1, FirstOfList
  <2>3. /\ next.client = [e EXCEPT !.downloadName = g, !.downloadList = @ \ {g}, !.downloadBlock = 0,
                                   !.downloadRestart = TRUE]
        /\ next.new = <<Download(g)>>
    BY <1>5, <1>7 DEF CL_NextDownload
  <2> HIDE DEF g
  <2>4. /\ x.state = client.state /\ x.serverId = client.serverId /\ x.messageNum = client.messageNum
        /\ x.reliableAcknowledge = client.reliableAcknowledge /\ x.downloadList = list \ {g}
        /\ x.downloadName = g /\ x.downloadBlock = 0
        /\ x.saved = client.saved \cup {f} /\ x.download = NoFile /\ x.mixed = t.mixed
    BY <1>2, <1>3, <1>5, <2>3
  <2> HIDE DEF next
  <2> QED
    BY <1>7, <2>2, <2>3, <2>4 DEF Completes, Alive, next, e, t, g
<1> QED
  BY <1>6, <1>7

\* The commands when a file is complete: r ends with the acknowledgement of its
\* empty block.
LEMMA CompletesFits ==
  ASSUME NEW q, NEW r, Longer(q, r), NEW client, ClientOK(client), Working(client, q),
         client.downloadName \in File,
         Len(r) = Len(q) + 1, r[Len(q) + 1].what = "nextdl", Asked(r, Len(q)) = client.downloadName,
         Asked(r, Len(q) + 1) = NoFile,
         NEW next, NEW new, Completes(client, next, new)
  PROVE  LET z == r \o new
         IN /\ Longer(r, z) /\ Working(next, z) /\ next.downloadName # client.downloadName
            /\ next.downloadBlock = 0 \/ next.downloadName = NoFile
            /\ \A n \in Len(r) + 1..Len(z) :
                 /\ CommandFits(z, n) /\ CutFits(z, n, next) /\ z[n].what # "nextdl"
                 /\ z[n].what = "donedl" => \A i \in n..Len(z) : Asked(z, i) = NoFile
<1> DEFINE f == client.downloadName
           list == client.downloadList
           l == client.serverId
           L == Len(q)
           e == L + 1
<1>1. /\ ListFits(client) /\ f \notin client.saved
      /\ \A k \in 1..L : Asked(q, k) \in client.saved => Completed(q, k)
  BY Constants DEF Working
<1>2. f # NoFile /\ NoFile \notin client.saved /\ NoFile \notin File /\ list \subseteq File
  BY Constants DEF ClientOK, Client
<1>3. /\ next.serverId = l /\ next.saved = client.saved \cup {f} /\ next.download = NoFile
  BY DEF Completes
<1>4. /\ l # 0 /\ list \subseteq Needed(l) /\ Needed(l) \subseteq client.saved \cup list \cup {f}
      /\ list \cap (client.saved \cup {f}) = {}
  BY <1>1, <1>2 DEF ListFits
<1>5. NoFile \notin Needed(l)
  <2>1. l \in Levels
    BY <1>4 DEF ClientOK, Client
  <2> QED
    BY <2>1, Constants DEF Needed
<1>6. /\ L \in Nat /\ Proper(r) /\ \A n \in 0..L : Asked(r, n) = Asked(q, n)
      /\ e \in 1..Len(r) /\ Len(r) = e /\ e \in Nat /\ e > 0 /\ L \in 0..e /\ e - 1 = L
  BY LongerSame DEF Longer
<1>7. \A k \in 1..L : Asked(r, k) \in client.saved => Completed(r, k)
  BY <1>1, CompletedGoesOn
<1>8. ASSUME NEW k \in 1..e, Asked(r, k) \in next.saved PROVE Completed(r, k)
  <2>1. k \in 1..L \/ k = e
    BY <1>6
  <2>2. CASE k = e
    BY <1>2, <1>3, <1>8, <2>2
  <2>3. CASE k \in 1..L /\ Asked(r, k) \in client.saved
    BY <1>7, <2>3
  <2>4. CASE k \in 1..L /\ Asked(r, k) = f
    <3>1. e \in k + 1..Len(r)
      BY <1>6, <2>4
    <3> QED
      BY <1>6, <2>4, <3>1 DEF Completed
  <2> QED
    BY <1>3, <1>8, <2>1, <2>2, <2>3, <2>4
<1>9. FileFits(next)
  <2>1. next.downloadBlock = 0 \/ next.downloadName = NoFile
    BY DEF Completes
  <2>2. ~(0 > 0)
    OBVIOUS
  <2> QED
    BY <1>3, <2>1, <2>2 DEF FileFits
<1>10. CASE list = {}
  <2>1. /\ next.downloadList = {} /\ ~next.downloadRestart /\ next.downloadName = NoFile
        /\ new = <<>> \/ new = <<DoneDl(NoFile)>>
    BY <1>10 DEF Completes
  <2>2. ListFits(next)
    BY <1>3, <1>4, <1>5, <1>10, <2>1 DEF ListFits
  <2>3. CASE new = <<>>
    <3>1. r \o new = r /\ Longer(r, r) /\ \A n \in Len(r) + 1..Len(r) : FALSE
      BY <1>6, <2>3, NoneMore
    <3>2. Working(next, r)
      BY <1>6, <1>8, <1>9, <2>1, <2>2 DEF Working
    <3> QED
      BY <1>2, <2>1, <3>1, <3>2
  <2>4. CASE new = <<DoneDl(NoFile)>>
    <3> DEFINE x == DoneDl(NoFile)
               z == r \o <<x>>
    <3>1. x \in Command /\ x.what = "donedl" /\ x.file = NoFile
      BY CommandTypes DEF DoneDl, AnyFile
    <3> HIDE DEF x
    <3>2. /\ Longer(r, z) /\ Len(r) \in Nat /\ Len(z) = Len(r) + 1 /\ z[Len(r) + 1] = x
          /\ Asked(z, Len(r) + 1) = NoFile /\ Asked(z, Len(r)) = Asked(r, Len(r))
          /\ (Len(r) + 1) - 1 = Len(r)
          /\ \A n \in Len(r) + 1..Len(z) : n = Len(r) + 1
      BY <1>6, <3>1, OneMore
    <3>3. z = r \o new
      BY <2>4 DEF x
    <3> HIDE DEF z
    <3>4. z[e] = r[e] /\ Asked(z, e) = NoFile
      BY <1>6, <3>2, LongerSame
    <3>5. \A k \in 1..Len(z) : Asked(z, k) \in next.saved => Completed(z, k)
      <4>1. \A k \in 1..Len(r) : Asked(z, k) \in next.saved => Completed(z, k)
        <5>1. \A k \in 1..Len(r) : Asked(r, k) \in next.saved => Completed(r, k)
          BY <1>6, <1>8
        <5> QED
          BY <3>2, <5>1, CompletedGoesOn
      <4>2. \A k \in 1..Len(z) : k \in 1..Len(r) \/ k = Len(r) + 1
        BY <3>2
      <4>3. NoFile \notin next.saved
        BY <1>2, <1>3
      <4> QED
        BY <3>2, <4>1, <4>2, <4>3
    <3>6. Working(next, z)
      BY <1>9, <2>1, <2>2, <3>2, <3>5 DEF Working
    <3>7. CommandFits(z, e + 1)
      <4>1. (e + 1) - 1 = e /\ e + 1 > 1 /\ Len(r) = e
        BY <1>6
      <4> QED
        BY <3>1, <3>2, <3>4, <4>1 DEF CommandFits
    <3>8. CutFits(z, e + 1, next) /\ z[e + 1].what # "nextdl"
      BY <1>6, <3>1, <3>2, <3>4 DEF CutFits
    <3>9. \A i \in e + 1..Len(z) : Asked(z, i) = NoFile
      BY <1>6, <3>2
    <3> QED
      BY <1>2, <1>6, <2>1, <3>2, <3>3, <3>6, <3>7, <3>8, <3>9
  <2> QED
    BY <2>1, <2>3, <2>4
<1>11. CASE list # {}
  <2> DEFINE g == FirstOf(list, l)
             x == Download(g)
             z == r \o <<x>>
  <2>1. /\ g \in list /\ next.downloadName = g /\ next.downloadList = list \ {g}
        /\ next.downloadBlock = 0 /\ new = <<x>>
    BY <1>11 DEF Completes
  <2>2. FirstOf((list \ {g}) \cup {g}, l) = g
    <3>1. (list \ {g}) \cup {g} = list
      BY <2>1
    <3> QED
      BY <3>1
  <2> HIDE DEF g
  <2>3. g \in File /\ g # NoFile /\ g # f /\ g \notin next.saved
    BY <1>2, <1>3, <1>4, <2>1
  <2>4. x \in Command /\ x.what = "download" /\ x.file = g /\ x.which = g
    BY <2>3, CommandTypes DEF Download, AnyFile
  <2> HIDE DEF x
  <2>5. /\ Longer(r, z) /\ Len(r) \in Nat /\ Len(z) = Len(r) + 1 /\ z[Len(r) + 1] = x
        /\ Asked(z, Len(r) + 1) = g /\ Acked(z, Len(r) + 1) = 0 /\ Asked(z, Len(r)) = Asked(r, Len(r))
        /\ (Len(r) + 1) - 1 = Len(r)
        /\ \A n \in Len(r) + 1..Len(z) : n = Len(r) + 1
    BY <1>6, <2>3, <2>4, OneMore
  <2>6. z = r \o new
    BY <2>1
  <2> HIDE DEF z
  <2>7. ListFits(next)
    BY <1>3, <1>4, <1>5, <2>1, <2>2, <2>3 DEF ListFits
  <2>8. \A k \in 1..Len(z) : Asked(z, k) \in next.saved => Completed(z, k)
    <3>1. \A k \in 1..Len(r) : Asked(z, k) \in next.saved => Completed(z, k)
      <4>1. \A k \in 1..Len(r) : Asked(r, k) \in next.saved => Completed(r, k)
        BY <1>6, <1>8
      <4> QED
        BY <2>5, <4>1, CompletedGoesOn
    <3>2. \A k \in 1..Len(z) : k \in 1..Len(r) \/ k = Len(r) + 1
      BY <2>5
    <3> QED
      BY <2>3, <2>5, <3>1, <3>2
  <2>9. Working(next, z)
    BY <1>9, <2>1, <2>3, <2>5, <2>7, <2>8 DEF Working
  <2>10. Asked(z, e) = NoFile /\ (e + 1) - 1 = e
    BY <1>6, <2>5
  <2>11. CommandFits(z, e + 1) /\ CutFits(z, e + 1, next) /\ z[e + 1].what # "nextdl" /\ z[e + 1].what # "donedl"
    BY <1>6, <2>3, <2>4, <2>5, <2>10 DEF CommandFits, CutFits
  <2> QED
    BY <1>6, <2>1, <2>3, <2>5, <2>6, <2>9, <2>11
<1> QED
  BY <1>10, <1>11

LEMMA EndedSound ==
  ASSUME TypeOK, NEW m, NEW client, NEW rest, Has(m, client, rest), Alive(client), m.kind = "download",
         client.downloadName # NoFile, m.block = client.downloadBlock, m.data.file = client.downloadName,
         IsEmpty(m.data), NEW next, NEW new, Completes(client, next, new), ClientOK(next)
  PROVE  LET z == commands \o Answer(client, m) \o new
             p == Packet(client, Len(commands) + 1)
         IN /\ Sound(next, z, rest, toServer)
            /\ Sound(next, z, rest, Append(toServer, p))
<1> DEFINE f == client.downloadName
           b == client.downloadBlock
           q == commands
           L == Len(q)
           r == q \o Answer(client, m)
           z == r \o new
           p == Packet(client, L + 1)
<1>1. /\ ClientOK(client) /\ rest \in Seq(MessageType) /\ Sound(client, q, rest, toServer)
      /\ toServer \in Seq(PacketType) /\ Proper(q) /\ s.lastClientCommand \in 0..L
      /\ \A i \in 1..Len(toServer) : toServer[i].commands <= Len(q)
  BY Parts DEF Has, PacketsOK
<1>2. Working(client, q)
  BY <1>1 DEF Sound, ClientFits
<1>3. /\ f \in File /\ b \in Nat /\ f \notin client.saved /\ b = Blocks[f]
      /\ ~Dropped(s) => (NoShort /\ b = Blocks[f] => Late(s))
      /\ \A i \in 1..Len(rest) :
           /\ rest[i].kind # "gamestate"
           /\ NoShort /\ b = Blocks[f] /\ rest[i].kind = "download" => rest[i].block > Blocks[f] - W
  <2>1. f \in File /\ b \in Nat /\ f \notin client.saved /\ b = Blocks[f]
    BY OwnBlock
  <2>2. ~Dropped(s) => (NoShort /\ b = Blocks[f] => Late(s))
    BY OwnBlock
  <2>3. \A i \in 1..Len(rest) :
           /\ rest[i].kind # "gamestate"
           /\ rest[i].kind = "download" => rest[i].data.file = f
           /\ NoShort /\ b = Blocks[f] /\ rest[i].kind = "download" => rest[i].block > Blocks[f] - W
    BY OwnBlock, Zenon
  <2> QED
    BY <2>1, <2>2, <2>3
<1>4. /\ Longer(q, r) /\ L \in Nat /\ Len(r) = L + 1 /\ r[L + 1].what = "nextdl"
      /\ Asked(r, L) = f /\ Asked(r, L + 1) = NoFile
      /\ CommandFits(r, L + 1) /\ CutFits(r, L + 1, next)
      /\ ~Dropped(s) => PendingFits(s, L + 1, r)
  BY Acknowledged DEF Answer
<1>5. /\ Longer(r, z) /\ Working(next, z) /\ next.downloadName # f
      /\ next.downloadBlock = 0 \/ next.downloadName = NoFile
      /\ \A n \in Len(r) + 1..Len(z) :
           /\ CommandFits(z, n) /\ CutFits(z, n, next) /\ z[n].what # "nextdl"
           /\ z[n].what = "donedl" => \A i \in n..Len(z) : Asked(z, i) = NoFile
  <2> HIDE DEF r
  <2> QED
    BY <1>1, <1>2, <1>3, <1>4, CompletesFits
<1>6. /\ next.serverId = client.serverId /\ next.messageNum = client.messageNum
      /\ next.reliableAcknowledge = client.reliableAcknowledge
      /\ next.saved = client.saved \cup {f} /\ Alive(next)
  BY DEF Completes
<1>7. f # NoFile
  BY <1>3, Constants
<1> HIDE DEF z, r
<1>8. /\ Len(z) \in Nat /\ L + 1 <= Len(z) /\ L + 1 \in 1..Len(r) /\ L + 1 \in 0..Len(r) /\ L \in 0..Len(r)
      /\ z[L + 1] = r[L + 1] /\ Asked(z, L) = f /\ Asked(z, L + 1) = NoFile
      /\ \A n \in L + 1..Len(z) : n = L + 1 \/ n \in Len(r) + 1..Len(z)
  <2>1. L + 1 \in 1..Len(r) /\ L + 1 \in 0..Len(r) /\ L \in 0..Len(r) /\ Len(z) \in Nat /\ L + 1 <= Len(z)
    BY <1>4, <1>5, LongerSame
  <2>2. z[L + 1] = r[L + 1] /\ Asked(z, L) = f /\ Asked(z, L + 1) = NoFile
    BY <1>4, <1>5, <2>1, LongerSame
  <2>3. \A n \in L + 1..Len(z) : n = L + 1 \/ n \in Len(r) + 1..Len(z)
    BY <1>4, <2>1
  <2> QED
    BY <2>1, <2>2, <2>3
<1>9. Longer(q, z)
  <2>1. \A n \in 1..L : n \in 1..Len(r) /\ r[n] = q[n]
    BY <1>4, LongerSame
  <2>2. \A n \in 1..L : z[n] = q[n]
    BY <1>5, <2>1, LongerSame
  <2>3. Len(q) <= Len(z)
    BY <1>4, <1>8
  <2> QED
    BY <1>4, <1>5, <2>2, <2>3 DEF Longer
<1>10. CommandFits(z, L + 1) /\ CutFits(z, L + 1, next)
  <2>1. CommandFits(z, L + 1)
    BY <1>4, <1>5, <1>8, LongerFits
  <2>2. CutFits(z, L + 1, next)
    BY <1>4, <1>8 DEF CutFits
  <2> QED
    BY <2>1, <2>2
<1>11. \A n \in L + 1..Len(z) : CommandFits(z, n) /\ CutFits(z, n, next)
  BY <1>5, <1>8, <1>10
<1>12. ASSUME ~Dropped(s), NEW k \in L + 1..Len(z), z[k].what = "nextdl" PROVE PendingFits(s, k, z)
  <2>1. k = L + 1
    BY <1>5, <1>8, <1>12
  <2>2. s.lastClientCommand \in 0..Len(r) /\ L + 1 \in s.lastClientCommand + 1..Len(r)
    BY <1>1, <1>4
  <2>3. PendingFits(s, L + 1, z)
    BY <1>4, <1>5, <1>12, <2>2, ServerLonger
  <2> QED
    BY <2>1, <2>3
<1>13. \A j \in L + 1..Len(z) : z[j].what = "donedl" => \A i \in j..Len(z) : Asked(z, i) = NoFile
  BY <1>4, <1>5, <1>8
<1>14. Proceeds(client, q, next, z, s.serverId)
  BY <1>6, <1>7, <1>13 DEF Proceeds, L
<1>15. /\ ~Dropped(s) => \A k \in L + 1..Len(z) : z[k].what = "nextdl" => PendingFits(s, k, z)
       /\ \A g \in next.saved \ client.saved :
            NoShort =>
              /\ ~Dropped(s) /\ s.downloadName = g => Late(s)
              /\ \A i \in 1..Len(rest) :
                   rest[i].kind = "download" /\ rest[i].data.file = g => rest[i].block > Blocks[g] - W
       /\ next.downloadName # client.downloadName
       /\ next.downloadBlock = 0 \/ next.downloadName = NoFile
       /\ \A i \in 1..Len(rest) : rest[i].kind # "gamestate"
  BY <1>3, <1>5, <1>6, <1>12
<1>16. Sound(next, z, rest, toServer)
  BY <1>1, <1>5, <1>6, <1>9, <1>11, <1>14, <1>15, StaysSound DEF L
<1>17. /\ p \in PacketType /\ p.serverId = next.serverId /\ p.messageAcknowledge = next.messageNum
       /\ p.commands = L + 1 /\ next.serverId \in Nat /\ next.messageNum \in Nat
  <2>1. /\ client.messageNum \in Nat /\ client.serverId \in Levels \cup {0} /\ client.serverId \in Nat
    BY <1>1, Constants DEF ClientOK, Client
  <2> QED
    BY <1>4, <1>6, <2>1 DEF Packet, PacketType
<1> HIDE DEF p
<1>18. PacketFits(p, s, next, z)
  <2>1. Since(z, p.commands, next, s.serverId)
    BY <1>8, <1>17 DEF Since
  <2>2. \A j \in p.commands + 1..Len(z) : j \in L + 1..Len(z)
    BY <1>8, <1>17
  <2>3. Calm(z, p.commands)
    BY <1>13, <2>2 DEF Calm
  <2>4. p.serverId <= next.serverId /\ p.messageAcknowledge <= next.messageNum
    BY <1>17
  <2> QED
    BY <1>17, <2>1, <2>3, <2>4 DEF PacketFits
<1>19. Sound(next, z, rest, Append(toServer, p))
  BY <1>1, <1>16, <1>17, <1>18, AddsPacket
<1> QED
  BY <1>16, <1>19 DEF z, r, p

\* The client takes the block; what it has got mixed up is another matter.
LEMMA BlockSound ==
  ASSUME TypeOK, NEW m, NEW client, NEW rest, Has(m, client, rest), Alive(client), m.kind = "download",
         client.downloadName # NoFile, m.block = client.downloadBlock, TakeBlock(client, m)
  PROVE  /\ c'.mixed = client.mixed \cup ({m.data.file} \ {client.downloadName})
         /\ m.data.file = client.downloadName => Sound(c', commands', rest, toServer')
         /\ m.data.file # client.downloadName => ~NoShort
<1> DEFINE t == Taken(client, m)
           ans == Answer(client, m)
           r == commands \o ans
           next == CL_NextDownload(Ended(client, m))
           p == Packet(client, Len(commands) + 1)
           L == Len(commands)
<1>1. /\ ClientOK(client) /\ client \in Client /\ m \in MessageType /\ Proper(commands)
      /\ rest \in Seq(MessageType) /\ Sound(client, commands, rest, toServer) /\ toServer \in Seq(PacketType)
  BY Parts DEF Has, ClientOK, PacketsOK
<1>2. m.data \in Block \cup {Unread}
  BY <1>1 DEF MessageType
<1>3. ClientOK(c')
  BY <1>1, <1>2, BlockTypes
<1>4. \/ c' = Left(t) /\ commands' = commands /\ toServer' = toServer
      \/ ~IsEmpty(m.data) /\ c' = t /\ commands' = r /\ toServer' = toServer
      \/ /\ IsEmpty(m.data)
         /\ toServer' = IF HasRoom(toServer) THEN Append(toServer, p) ELSE toServer
         /\ \/ c' = Left(t) /\ commands' = r \o <<>>
            \/ c' = next.client /\ commands' = r \o next.new
  BY <1>1, TakeCases
<1>5. /\ t.mixed = client.mixed \cup ({m.data.file} \ {client.downloadName})
      /\ Left(t).mixed = t.mixed
  BY <1>1, TakenFacts, LeftTaken
<1>6. IsEmpty(m.data) => Completes(client, next.client, next.new) /\ next.client.mixed = t.mixed
  BY <1>1, EndedNext
<1>7. c'.mixed = client.mixed \cup ({m.data.file} \ {client.downloadName})
  <2> HIDE DEF t, next, r, p
  <2> QED
    BY <1>4, <1>5, <1>6
<1>8. m.data.file # client.downloadName => ~NoShort
  BY OtherBlock
<1>9. ASSUME m.data.file = client.downloadName PROVE Sound(c', commands', rest, toServer')
  <2> DEFINE gone == Left(t)
  <2>1. /\ ~Alive(gone) /\ gone.download = NoFile /\ gone.messageNum = client.messageNum
        /\ gone.reliableAcknowledge = client.reliableAcknowledge /\ client.saved \subseteq gone.saved
        /\ gone.serverId = client.serverId
    BY <1>1, LeftTaken
  <2>2. /\ Longer(commands, r) /\ L \in Nat /\ Len(r) = L + 1
        /\ CommandFits(r, L + 1) /\ CutFits(r, L + 1, gone)
        /\ \A n \in L + 1..Len(r) : n = L + 1
        /\ ~Dropped(s) => PendingFits(s, L + 1, r)
    BY <1>9, Acknowledged DEF Answer
  <2>3. r \o <<>> = r
    <3>1. Proper(r)
      BY <2>2 DEF Longer
    <3> HIDE DEF r
    <3> QED
      BY <3>1, NoneMore
  <2>4. Sound(t, r, rest, toServer) \/ c' # t \/ IsEmpty(m.data)
    BY <1>3, <1>9, TakenSound
  <2>5. IsEmpty(m.data) /\ c' = next.client =>
          /\ Sound(next.client, r \o next.new, rest, toServer)
          /\ Sound(next.client, r \o next.new, rest, Append(toServer, p))
    <3>1. ASSUME IsEmpty(m.data), c' = next.client
          PROVE  /\ Sound(next.client, r \o next.new, rest, toServer)
                 /\ Sound(next.client, r \o next.new, rest, Append(toServer, p))
      <4>1. Completes(client, next.client, next.new) /\ ClientOK(next.client)
        BY <1>3, <1>6, <3>1
      <4> HIDE DEF next
      <4> QED
        BY <1>9, <3>1, <4>1, EndedSound
    <3> QED
      BY <3>1
  <2>6. p \in PacketType /\ p.serverId = client.serverId /\ p.messageAcknowledge = client.messageNum
        /\ client.serverId \in Nat /\ client.messageNum \in Nat
    <3>1. /\ client.messageNum \in Nat /\ client.serverId \in Levels \cup {0} /\ client.serverId \in Nat
      BY <1>1, Constants DEF Client
    <3> QED
      BY <2>2, <3>1 DEF Packet, PacketType
  <2> HIDE DEF gone, t, next, p, r, L, ans
  <2>7. Sound(gone, commands, rest, toServer)
    <3>1. Longer(commands, commands) /\ \A n \in Len(commands) + 1..Len(commands) : FALSE
      BY <1>1, NoneMore
    <3> QED
      BY <1>1, <2>1, <3>1, Quits
  <2>8. Sound(gone, r, rest, toServer)
    <3>1. /\ \A n \in Len(commands) + 1..Len(r) : CommandFits(r, n) /\ CutFits(r, n, gone)
          /\ ~Dropped(s) => \A k \in Len(commands) + 1..Len(r) : r[k].what = "nextdl" => PendingFits(s, k, r)
      BY <2>2 DEF L
    <3> QED
      BY <1>1, <2>1, <2>2, <3>1, Quits
  <2>9. Sound(gone, r, rest, Append(toServer, p))
    <3>1. p.serverId <= gone.serverId /\ p.messageAcknowledge <= gone.messageNum /\ p.serverId = gone.serverId
      BY <2>1, <2>6
    <3>2. PacketFits(p, s, gone, r)
      BY <2>1, <3>1 DEF PacketFits
    <3> QED
      BY <1>1, <2>6, <2>8, <3>1, <3>2, AddsPacket
  <2> QED
    BY <1>4, <2>3, <2>4, <2>5, <2>7, <2>8, <2>9 DEF gone
<1> QED
  BY <1>7, <1>8, <1>9

-----------------------------------------------------------------------------
(* ClientReceives. *)

LEMMA LeftMixed ==
  ASSUME NEW client \in Client
  PROVE  Left(client).mixed = client.mixed
BY DEF Left, Client

LEMMA GamestateMixed ==
  ASSUME NEW client, ClientOK(client), NEW m, m.serverId \in Levels, CL_ParseGamestate(client, m)
  PROVE  c'.mixed = client.mixed
<1> DEFINE missing == Needed(m.serverId) \ client.saved
           loaded == [client EXCEPT !.serverId = m.serverId, !.downloadList = missing]
           connected == [loaded EXCEPT !.state = "CA_CONNECTED"]
           after == IF missing = {} THEN AfterDownloads(loaded) ELSE CL_NextDownload(connected)
<1>1. missing \subseteq Needed(m.serverId) /\ missing \subseteq File /\ m.serverId # 0
  BY Constants DEF Needed
<1>2. Adding(after.client, after.new)
  BY Zenon DEF CL_ParseGamestate, missing, loaded, connected
<1> HIDE DEF missing
<1>3. ClientOK(loaded) /\ loaded.mixed = client.mixed
  BY <1>1 DEF ClientOK, Client
<1> HIDE DEF loaded
<1>4. ClientOK(connected) /\ connected.mixed = client.mixed
  BY <1>3 DEF ClientOK, Client
<1> HIDE DEF connected
<1>5. ClientOK(after.client) /\ after.client.mixed = client.mixed
  BY <1>3, <1>4, NextType
<1> HIDE DEF after
<1> QED
  BY <1>2, <1>5, LeftMixed DEF Adding, ClientOK

LEMMA GarbledMixed ==
  ASSUME NEW client \in Client, NEW new, Garbled(client, new)
  PROVE  c'.mixed = client.mixed
BY LeftMixed DEF Garbled, Adding

\* A message makes the client mix files up only as one more block that it takes.
LEMMA MixedGrows ==
  ASSUME TypeOK, ClientReceives
  PROVE  LET m == Head(toClient)
             client == Told(c, m)
         IN \/ c'.mixed = c.mixed
            \/ /\ m.kind = "download" /\ client.downloadName # NoFile /\ m.block = client.downloadBlock
               /\ TakeBlock(client, m) /\ c.mixed \subseteq c'.mixed
<1> DEFINE m == Head(toClient)
           client == Told(c, m)
<1>1. toClient \in Seq(MessageType) /\ toClient # <<>> /\ ClientOK(c)
  BY Parts DEF ClientReceives
<1>2. m \in MessageType
  BY <1>1, TailPart
<1>3. (CASE m.kind = "gamestate" -> CL_ParseGamestate(client, m)
        [] m.kind = "download" -> CL_ParseDownload(client, m)
        [] m.kind = "refusal" ->
             IF client.downloadName = NoFile THEN Garbled(client, <<StopDl>>)
             ELSE c' = Left(client) /\ UNCHANGED <<commands, toServer>>
        [] m.kind = "snapshot" -> c' = client /\ UNCHANGED <<commands, toServer>>)
  BY DEF ClientReceives, Told
<1> HIDE DEF m
<1>4. m.number \in Nat /\ m.commands \in Nat /\ m.kind \in {"gamestate", "download", "refusal", "snapshot"}
      /\ (m.kind = "gamestate" => m.serverId \in Levels)
  BY <1>2 DEF MessageType
<1>5. ClientOK(client) /\ client.mixed = c.mixed
  BY <1>1, <1>4 DEF Told, ClientOK, Client
<1> HIDE DEF client
<1>6. client \in Client
  BY <1>5 DEF ClientOK
<1>7. ASSUME m.kind = "gamestate" PROVE c'.mixed = c.mixed
  BY <1>3, <1>4, <1>5, <1>7, GamestateMixed
<1>8. ASSUME m.kind = "refusal" PROVE c'.mixed = c.mixed
  BY <1>3, <1>5, <1>6, <1>8, GarbledMixed, LeftMixed
<1>9. ASSUME m.kind = "snapshot" PROVE c'.mixed = c.mixed
  BY <1>3, <1>5, <1>9
<1>10. ASSUME m.kind = "download"
       PROVE  \/ c'.mixed = c.mixed
              \/ /\ client.downloadName # NoFile /\ m.block = client.downloadBlock
                 /\ TakeBlock(client, m) /\ c.mixed \subseteq c'.mixed
  <2>1. CL_ParseDownload(client, m)
    BY <1>3, <1>10
  <2>2. ASSUME Garbled(client, <<StopDl>>) \/ Garbled(client, <<>>) PROVE c'.mixed = c.mixed
    BY <1>5, <1>6, <2>2, GarbledMixed
  <2>3. ASSUME TakeBlock(client, m) PROVE c.mixed \subseteq c'.mixed
    <3> DEFINE t == Taken(client, m)
               next == CL_NextDownload(Ended(client, m))
    <3>1. t.mixed = client.mixed \cup ({m.data.file} \ {client.downloadName}) /\ Left(t).mixed = t.mixed
      BY <1>6, TakenFacts, LeftTaken
    <3>2. IsEmpty(m.data) => next.client.mixed = t.mixed
      BY <1>5, EndedNext
    <3>3. c' = Left(t) \/ c' = t \/ (IsEmpty(m.data) /\ c' = next.client)
      BY <1>6, <2>3, TakeCases
    <3> HIDE DEF t, next
    <3> QED
      BY <1>5, <3>1, <3>2, <3>3
  <2>4. \/ Garbled(client, <<StopDl>>) \/ Garbled(client, <<>>) \/ c' = client
        \/ client.downloadName # NoFile /\ m.block = client.downloadBlock /\ TakeBlock(client, m)
    BY <2>1 DEF CL_ParseDownload, IsExpected
  <2> QED
    BY <1>5, <2>2, <2>3, <2>4
<1> QED
  BY <1>4, <1>7, <1>8, <1>9, <1>10 DEF m, client

LEMMA ClientGood ==
  ASSUME TypeOK, Good, ClientReceives, c.mixed = {}
  PROVE  IF c'.mixed = {} THEN Good' ELSE ~NoShort
<1> DEFINE m == Head(toClient)
           client == Told(c, m)
           rest == Tail(toClient)
<1>1. /\ toClient # <<>> /\ toClient' = rest /\ s' = s /\ Alive(c)
  BY DEF ClientReceives, Alive
<1>2. (CASE m.kind = "gamestate" -> CL_ParseGamestate(client, m)
        [] m.kind = "download" -> CL_ParseDownload(client, m)
        [] m.kind = "refusal" ->
             IF client.downloadName = NoFile THEN Garbled(client, <<StopDl>>)
             ELSE c' = Left(client) /\ UNCHANGED <<commands, toServer>>
        [] m.kind = "snapshot" -> c' = client /\ UNCHANGED <<commands, toServer>>)
  BY DEF ClientReceives, Told
<1>3. Has(m, client, rest)
  BY <1>1, Arrived, Zenon DEF Has
<1> HIDE DEF m, client, rest
<1>4. /\ Alive(client) /\ client.mixed = {} /\ m.kind \in {"gamestate", "download", "refusal", "snapshot"}
      /\ Sound(client, commands, rest, toServer)
  <2>1. Alive(client) /\ client.mixed = {} /\ m \in MessageType
    BY <1>1, <1>3 DEF Has, SameFiles, Alive
  <2> QED
    BY <1>3, <2>1 DEF Has, MessageType
<1>5. Sound(c', commands', rest, toServer') => Good'
  BY <1>1 DEF Sound, Good
<1>6. ASSUME m.kind = "gamestate" PROVE Sound(c', commands', rest, toServer')
  BY <1>2, <1>3, <1>4, <1>6, GamestateSound
<1>7. ASSUME Garbled(client, <<StopDl>>) /\ client.downloadName = NoFile PROVE Sound(c', commands', rest, toServer')
  BY <1>3, <1>4, <1>7, GarbledSound
<1>8. ASSUME Garbled(client, <<>>) PROVE Sound(c', commands', rest, toServer')
  BY <1>3, <1>4, <1>8, GarbledSound
<1>9. ASSUME c' = client /\ UNCHANGED <<commands, toServer>> PROVE Sound(c', commands', rest, toServer')
  BY <1>4, <1>9
<1>10. ASSUME c' = Left(client) /\ UNCHANGED <<commands, toServer>> PROVE Sound(c', commands', rest, toServer')
  BY <1>3, <1>10, QuitsNow
<1>11. ASSUME m.kind = "download", client.downloadName # NoFile, m.block = client.downloadBlock, TakeBlock(client, m)
       PROVE  IF c'.mixed = {} THEN Sound(c', commands', rest, toServer') ELSE ~NoShort
  <2>1. /\ c'.mixed = client.mixed \cup ({m.data.file} \ {client.downloadName})
        /\ m.data.file = client.downloadName => Sound(c', commands', rest, toServer')
        /\ m.data.file # client.downloadName => ~NoShort
    BY <1>3, <1>4, <1>11, BlockSound
  <2>2. c'.mixed = {} <=> m.data.file = client.downloadName
    BY <1>4, <2>1
  <2> QED
    BY <2>1, <2>2
<1>12. \/ c'.mixed = {}
       \/ m.kind = "download" /\ client.downloadName # NoFile /\ m.block = client.downloadBlock
          /\ TakeBlock(client, m)
  BY MixedGrows DEF m, client
<1>13. \/ Sound(c', commands', rest, toServer')
       \/ m.kind = "download" /\ client.downloadName # NoFile /\ m.block = client.downloadBlock
          /\ TakeBlock(client, m)
  <2>1. ASSUME m.kind = "download"
        PROVE  \/ Sound(c', commands', rest, toServer')
               \/ client.downloadName # NoFile /\ m.block = client.downloadBlock /\ TakeBlock(client, m)
    <3>1. CL_ParseDownload(client, m)
      BY <1>2, <2>1
    <3> QED
      BY <1>7, <1>8, <1>9, <3>1 DEF CL_ParseDownload, IsExpected
  <2>2. ASSUME m.kind = "refusal" PROVE Sound(c', commands', rest, toServer')
    BY <1>2, <1>7, <1>10, <2>2
  <2>3. ASSUME m.kind = "snapshot" PROVE Sound(c', commands', rest, toServer')
    BY <1>2, <1>9, <2>3
  <2> QED
    BY <1>4, <1>6, <2>1, <2>2, <2>3
<1>14. c'.mixed = {} => Sound(c', commands', rest, toServer')
  BY <1>11, <1>13
<1> QED
  BY <1>5, <1>11, <1>12, <1>14

-----------------------------------------------------------------------------
(* The acknowledgements that wait to be acknowledged themselves. *)

Waiting(q, a) == {n \in a + 1..Len(q) : q[n].what = "nextdl"}

LEMMA WaitingFinite ==
  ASSUME NEW q, Len(q) \in Nat, NEW a \in Nat, NEW b \in Nat, a <= b
  PROVE  /\ Waiting(q, b) \subseteq Waiting(q, a) /\ IsFiniteSet(Waiting(q, a)) /\ IsFiniteSet(Waiting(q, b))
         /\ Cardinality(Waiting(q, a)) \in Nat /\ Cardinality(Waiting(q, b)) \in Nat
         /\ Cardinality(Waiting(q, b)) <= Cardinality(Waiting(q, a))
<1>1. IsFiniteSet(a + 1..Len(q))
  BY FS_Interval
<1>2. Waiting(q, a) \in SUBSET (a + 1..Len(q))
  BY DEF Waiting
<1>3. IsFiniteSet(Waiting(q, a))
  BY <1>1, <1>2, FS_Subset
<1>4. Waiting(q, b) \in SUBSET Waiting(q, a)
  BY DEF Waiting
<1>5. IsFiniteSet(Waiting(q, b)) /\ Cardinality(Waiting(q, b)) <= Cardinality(Waiting(q, a))
  BY <1>3, <1>4, FS_Subset
<1>6. Cardinality(Waiting(q, a)) \in Nat /\ Cardinality(Waiting(q, b)) \in Nat
  BY <1>3, <1>5, FS_CardinalityType
<1> QED
  BY <1>3, <1>4, <1>5, <1>6

LEMMA WaitingSame ==
  ASSUME NEW q, Proper(q), NEW a \in Nat,
         NEW x \in Command, x.what = "download" => x.which \in File, x.what # "nextdl"
  PROVE  Waiting(q \o <<x>>, a) = Waiting(q, a)
<1> DEFINE r == q \o <<x>>
<1>1. /\ Longer(q, r) /\ Len(q) \in Nat /\ Len(r) = Len(q) + 1 /\ r[Len(q) + 1] = x
  BY OneMore
<1> HIDE DEF r
<1>2. \A n \in 1..Len(q) : r[n] = q[n]
  BY <1>1, LongerSame
<1>3. ASSUME NEW n \in a + 1..Len(r), r[n].what = "nextdl" PROVE n \in Waiting(q, a)
  <2>1. n # Len(q) + 1
    BY <1>1, <1>3
  <2>2. n \in a + 1..Len(q) /\ n \in 1..Len(q)
    BY <1>1, <2>1
  <2> QED
    BY <1>2, <1>3, <2>2 DEF Waiting
<1>4. ASSUME NEW n \in a + 1..Len(q), q[n].what = "nextdl" PROVE n \in Waiting(r, a)
  <2>1. n \in a + 1..Len(r) /\ n \in 1..Len(q)
    BY <1>1
  <2> QED
    BY <1>2, <1>4, <2>1 DEF Waiting
<1>5. Waiting(r, a) = Waiting(q, a)
  BY <1>3, <1>4 DEF Waiting
<1> QED
  BY <1>5 DEF r

\* What is not the acknowledgement of a block does not wait.
Quiet(new) ==
  \/ new = <<>> \/ new = <<StopDl>>
  \/ \E f \in AnyFile : new = <<DoneDl(f)>>
  \/ \E f \in File : new = <<Download(f)>>

LEMMA WaitingNone ==
  ASSUME NEW q, Proper(q), NEW a \in Nat, NEW new, Quiet(new)
  PROVE  Waiting(q \o new, a) = Waiting(q, a)
<1>1. CASE new = <<>>
  <2>1. q \o <<>> = q
    BY NoneMore
  <2> QED
    BY <1>1, <2>1
<1>2. CASE new = <<StopDl>>
  <2> DEFINE x == StopDl
  <2>1. x \in Command /\ x.what = "stopdl"
    BY CommandTypes DEF StopDl
  <2> HIDE DEF x
  <2>2. Waiting(q \o <<x>>, a) = Waiting(q, a)
    BY <2>1, WaitingSame
  <2> QED
    BY <1>2, <2>2 DEF x
<1>3. ASSUME NEW f \in AnyFile, new = <<DoneDl(f)>> PROVE Waiting(q \o new, a) = Waiting(q, a)
  <2> DEFINE x == DoneDl(f)
  <2>1. x \in Command /\ x.what = "donedl"
    BY CommandTypes DEF DoneDl
  <2> HIDE DEF x
  <2>2. Waiting(q \o <<x>>, a) = Waiting(q, a)
    BY <2>1, WaitingSame
  <2> QED
    BY <1>3, <2>2 DEF x
<1>4. ASSUME NEW f \in File, new = <<Download(f)>> PROVE Waiting(q \o new, a) = Waiting(q, a)
  <2> DEFINE x == Download(f)
  <2>1. x \in Command /\ x.what = "download" /\ x.which \in File
    BY CommandTypes DEF Download
  <2> HIDE DEF x
  <2>2. Waiting(q \o <<x>>, a) = Waiting(q, a)
    BY <2>1, WaitingSame
  <2> QED
    BY <1>4, <2>2 DEF x
<1> QED
  BY <1>1, <1>2, <1>3, <1>4 DEF Quiet

LEMMA LeftNumbers ==
  ASSUME NEW client \in Client
  PROVE  Left(client).reliableAcknowledge = client.reliableAcknowledge
BY DEF Left, Client

LEMMA AddingWaits ==
  ASSUME TypeOK, NEW client \in Client, NEW a \in Nat, NEW new, Quiet(new),
         \/ c' = client /\ commands' = commands \o new
         \/ c' = Left(client) /\ commands' = commands
  PROVE  c'.reliableAcknowledge = client.reliableAcknowledge /\ Waiting(commands', a) = Waiting(commands, a)
<1>1. Proper(commands)
  BY Parts
<1>2. Waiting(commands \o new, a) = Waiting(commands, a)
  BY <1>1, WaitingNone
<1> QED
  BY <1>2, LeftNumbers

\* A message of the server adds to what waits only by one more block.
LEMMA ClientWaits ==
  ASSUME TypeOK, ClientReceives
  PROVE  LET m == Head(toClient)
             client == Told(c, m)
             a == m.commands
         IN /\ c'.reliableAcknowledge = a /\ a \in Nat
            /\ \/ Waiting(commands', a) = Waiting(commands, a)
               \/ /\ m.kind = "download" /\ client.downloadName # NoFile /\ m.block = client.downloadBlock
                  /\ TakeBlock(client, m)
                  /\ Waiting(commands', a) = Waiting(commands \o Answer(client, m), a)
<1> DEFINE m == Head(toClient)
           client == Told(c, m)
           a == m.commands
           Same == c'.reliableAcknowledge = a /\ Waiting(commands', a) = Waiting(commands, a)
<1>1. toClient \in Seq(MessageType) /\ toClient # <<>> /\ ClientOK(c) /\ Proper(commands)
  BY Parts DEF ClientReceives
<1>2. m \in MessageType
  BY <1>1, TailPart
<1>3. (CASE m.kind = "gamestate" -> CL_ParseGamestate(client, m)
        [] m.kind = "download" -> CL_ParseDownload(client, m)
        [] m.kind = "refusal" ->
             IF client.downloadName = NoFile THEN Garbled(client, <<StopDl>>)
             ELSE c' = Left(client) /\ UNCHANGED <<commands, toServer>>
        [] m.kind = "snapshot" -> c' = client /\ UNCHANGED <<commands, toServer>>)
  BY DEF ClientReceives, Told
<1> HIDE DEF m
<1>4. m.number \in Nat /\ a \in Nat /\ m.kind \in {"gamestate", "download", "refusal", "snapshot"}
      /\ (m.kind = "gamestate" => m.serverId \in Levels)
      /\ (m.kind = "download" => m.data \in Block \cup {Unread})
  BY <1>2 DEF MessageType
<1>5. ClientOK(client) /\ client.reliableAcknowledge = a
  BY <1>1, <1>4 DEF Told, ClientOK, Client
<1> HIDE DEF client, a
<1>6. client \in Client /\ client.downloadName \in AnyFile
  BY <1>5 DEF ClientOK, Client
<1>7. ASSUME NEW new, Garbled(client, new), Quiet(new) PROVE Same
  <2>1. \/ c' = client /\ commands' = commands \o new
        \/ c' = Left(client) /\ commands' = commands
    BY <1>7 DEF Garbled, Adding
  <2> QED
    BY <1>4, <1>5, <1>6, <1>7, <2>1, AddingWaits
<1>8. Quiet(<<>>) /\ Quiet(<<StopDl>>)
  BY DEF Quiet
<1>9. ASSUME m.kind = "gamestate" PROVE Same
  <2>1. CL_ParseGamestate(client, m)
    BY <1>3, <1>9
  <2>2. PICK next, new :
          /\ Entered(client, m, next, new)
          /\ \/ c' = Left(next) /\ commands' = commands
             \/ c' = next /\ commands' = commands \o new
    BY <1>4, <1>5, <1>9, <2>1, GamestateNext
  <2>3. next \in Client /\ next.reliableAcknowledge = a
    BY <1>5, <2>2 DEF Entered, ClientOK
  <2>4. Quiet(new)
    <3>1. Needed(m.serverId) \subseteq File
      BY <1>4, <1>9, Constants DEF Needed
    <3> QED
      BY <1>6, <2>2, <3>1 DEF Entered, Quiet
  <2> QED
    BY <1>4, <2>2, <2>3, <2>4, AddingWaits
<1>10. ASSUME c' = Left(client) /\ UNCHANGED <<commands, toServer>> PROVE Same
  BY <1>5, <1>6, <1>10, LeftNumbers
<1>11. ASSUME c' = client /\ UNCHANGED <<commands, toServer>> PROVE Same
  BY <1>5, <1>11
<1>12. ASSUME m.kind = "refusal" PROVE Same
  BY <1>3, <1>7, <1>8, <1>10, <1>12
<1>13. ASSUME m.kind = "snapshot" PROVE Same
  BY <1>3, <1>11, <1>13
<1>14. ASSUME m.kind = "download", client.downloadName # NoFile, m.block = client.downloadBlock, TakeBlock(client, m)
       PROVE  /\ c'.reliableAcknowledge = a
              /\ \/ Waiting(commands', a) = Waiting(commands, a)
                 \/ Waiting(commands', a) = Waiting(commands \o Answer(client, m), a)
  <2> DEFINE t == Taken(client, m)
             r == commands \o Answer(client, m)
             next == CL_NextDownload(Ended(client, m))
  <2>1. \/ c' = Left(t) /\ commands' = commands
        \/ c' = t /\ commands' = r
        \/ IsEmpty(m.data) /\ c' = Left(t) /\ commands' = r \o <<>>
        \/ IsEmpty(m.data) /\ c' = next.client /\ commands' = r \o next.new
    BY <1>6, <1>14, TakeCases
  <2>2. t.reliableAcknowledge = a /\ Left(t).reliableAcknowledge = a
    BY <1>5, <1>6, TakenFacts, LeftTaken
  <2>3. IsEmpty(m.data) => Completes(client, next.client, next.new)
    BY <1>5, EndedNext
  <2>4. IsEmpty(m.data) => next.client.reliableAcknowledge = a /\ Quiet(next.new)
    <3>1. client.downloadList \subseteq File /\ NoFile \in AnyFile
      BY <1>6 DEF Client, AnyFile
    <3> HIDE DEF next
    <3> QED
      BY <1>5, <2>3, <3>1 DEF Completes, Quiet
  <2>5. Proper(r)
    <3> DEFINE file == IF IsEmpty(m.data) THEN NoFile ELSE client.downloadName
               x == NextDl(client.downloadBlock, file)
    <3>1. file \in AnyFile /\ client.downloadBlock \in Nat
      BY <1>6 DEF Client, AnyFile
    <3> HIDE DEF file
    <3>2. x \in Command /\ x.what = "nextdl"
      BY <3>1, CommandTypes DEF NextDl
    <3> HIDE DEF x
    <3>3. Proper(commands \o <<x>>)
      BY <1>1, <3>2, OneMore DEF Longer
    <3> QED
      BY <3>3 DEF x, file, Answer
  <2> HIDE DEF t, r, next
  <2>6. Waiting(r \o <<>>, a) = Waiting(r, a) /\ (IsEmpty(m.data) => Waiting(r \o next.new, a) = Waiting(r, a))
    BY <1>4, <1>8, <2>4, <2>5, WaitingNone
  <2> QED
    BY <2>1, <2>2, <2>4, <2>6 DEF r
<1>15. ASSUME m.kind = "download"
       PROVE  Same \/ (client.downloadName # NoFile /\ m.block = client.downloadBlock /\ TakeBlock(client, m))
  <2>1. CL_ParseDownload(client, m)
    BY <1>3, <1>15
  <2> QED
    BY <1>7, <1>8, <1>11, <2>1 DEF CL_ParseDownload, IsExpected
<1>16. \/ Same
       \/ m.kind = "download" /\ client.downloadName # NoFile /\ m.block = client.downloadBlock /\ TakeBlock(client, m)
  BY <1>4, <1>9, <1>12, <1>13, <1>15
<1> QED
  BY <1>4, <1>14, <1>16 DEF m, client, a

\* From a block that was sent to the acknowledgement of one that the client takes
\* there are no more acknowledgements than the window has blocks.
LEMMA WaitingFew ==
  ASSUME TypeOK, NEW m, NEW client, NEW rest, Has(m, client, rest), Alive(client), m.kind = "download",
         client.downloadName # NoFile, m.block = client.downloadBlock, m.data.file = client.downloadName
  PROVE  Cardinality(Waiting(commands \o Answer(client, m), m.commands)) <= W
<1> DEFINE q == commands
           L == Len(q)
           a == m.commands
           b == client.downloadBlock
           r == q \o Answer(client, m)
           low == Acked(q, a)
           S == Waiting(r, a)
           T == low..low + W - 1
<1>1. /\ Proper(q) /\ Sound(client, q, rest, toServer)
  BY Parts DEF Has
<1>2. \A n \in 1..L : CommandFits(q, n)
  BY <1>1 DEF Sound, CommandsFit
<1>3. /\ b \in Nat /\ client.downloadName \in File /\ b = Acked(q, L) /\ a \in 0..L
      /\ Asked(q, a) = client.downloadName /\ Holds(q, a, s.serverId) /\ b < low + W
  BY OwnBlock
<1>4. /\ Longer(q, r) /\ L \in Nat /\ Len(r) = L + 1 /\ CommandFits(r, L + 1)
  BY Acknowledged DEF Answer
<1>5. W \in Nat /\ low \in Nat /\ Asked(q, a) # NoFile
  BY <1>1, <1>3, QueueTypes, Constants
<1> HIDE DEF r, q, L, a, b, low
<1>6. ASSUME NEW n \in S
      PROVE  /\ n \in a + 1..L + 1 /\ n - 1 \in a..L /\ r[n].which = Acked(q, n - 1)
             /\ r[n].which \in Nat /\ low <= r[n].which /\ r[n].which <= b
             /\ n <= L => q[n] = r[n] /\ Acked(q, n) = r[n].which + 1
  <2>1. n \in a + 1..L + 1 /\ r[n].what = "nextdl"
    BY <1>4, <1>6 DEF Waiting
  <2>2. n - 1 \in a..L /\ n - 1 \in 0..L /\ a \in a..L /\ L \in n - 1..L /\ n - 1 \in a..L /\ n # 0
        /\ a \in Nat /\ a <= L /\ (n <= L => n \in 1..L) /\ (n <= L \/ n = L + 1)
    BY <1>3, <1>4, <2>1
  <2>3. CommandFits(r, n)
    BY <1>2, <1>4, <2>2, LongerFits DEF L
  <2>4. r[n].which = Acked(r, n - 1)
    BY <2>1, <2>3 DEF CommandFits
  <2>5. r[n].which = Acked(q, n - 1)
    BY <1>4, <2>2, <2>4, LongerSame DEF L
  <2>6. low <= Acked(q, n - 1) /\ Acked(q, n - 1) <= b
    <3>1. Acked(q, a) <= Acked(q, n - 1)
      BY <1>1, <1>2, <1>3, <1>5, <2>2, AckedGrows DEF L
    <3>2. Acked(q, n - 1) <= Acked(q, L)
      BY <1>1, <1>2, <1>3, <1>5, <2>2, AckedGrows DEF L
    <3> QED
      BY <1>3, <3>1, <3>2 DEF low
  <2>7. Acked(q, n - 1) \in Nat
    BY <1>1, <2>2, QueueTypes DEF L
  <2>8. n <= L => q[n] = r[n]
    BY <1>4, <2>2, LongerSame DEF L
  <2>9. n <= L => Acked(q, n) = r[n].which + 1
    BY <2>1, <2>2, <2>8 DEF Acked
  <2> QED
    BY <2>1, <2>2, <2>5, <2>6, <2>7, <2>8, <2>9
<1>7. ASSUME NEW i \in S, NEW k \in S, i < k PROVE r[i].which < r[k].which
  <2>1. /\ i \in a + 1..L + 1 /\ k - 1 \in a..L /\ k \in a + 1..L + 1
        /\ r[k].which = Acked(q, k - 1) /\ r[i].which \in Nat /\ r[k].which \in Nat
        /\ i <= L => Acked(q, i) = r[i].which + 1
    BY <1>6
  <2>2. i <= L /\ i \in a..L /\ k - 1 \in i..L /\ a \in Nat /\ a <= L
    BY <1>3, <1>4, <1>7, <2>1
  <2>3. Acked(q, i) <= Acked(q, k - 1)
    BY <1>1, <1>2, <1>3, <1>5, <2>2, AckedGrows DEF L
  <2> QED
    BY <2>1, <2>2, <2>3
<1> DEFINE g == [n \in S |-> r[n].which]
<1>8. g \in [S -> T]
  <2>1. ASSUME NEW n \in S PROVE r[n].which \in T
    BY <1>3, <1>5, <1>6
  <2> QED
    BY <2>1
<1>9. ASSUME NEW i \in S, NEW k \in S, g[i] = g[k] PROVE i = k
  <2>1. r[i].which = r[k].which /\ r[i].which \in Nat /\ i \in a + 1..L + 1 /\ k \in a + 1..L + 1
    BY <1>6, <1>9
  <2>2. ~(r[i].which < r[k].which) /\ ~(r[k].which < r[i].which)
    BY <2>1
  <2>3. ~(i < k) /\ ~(k < i)
    BY <1>7, <2>2
  <2> QED
    BY <1>3, <1>4, <2>1, <2>3
<1> HIDE DEF g, S
<1>10. g \in Injection(S, T)
  <2>1. DOMAIN g = S
    BY <1>8
  <2>2. IsInjective(g)
    BY <1>9, <2>1 DEF IsInjective
  <2> QED
    BY <1>8, <2>2 DEF Injection
<1>11. IsFiniteSet(T) /\ Cardinality(T) <= W
  <2>1. low \in Int /\ low + W - 1 \in Int
    BY <1>5
  <2>2. IsFiniteSet(T) /\ Cardinality(T) = IF low > low + W - 1 THEN 0 ELSE (low + W - 1) - low + 1
    BY <2>1, FS_Interval
  <2> HIDE DEF T
  <2> QED
    BY <1>5, <2>2
<1>12. Cardinality(S) <= Cardinality(T) /\ IsFiniteSet(S)
  BY <1>10, <1>11, FS_Injection
<1>13. Cardinality(S) \in Nat /\ Cardinality(T) \in Nat
  BY <1>11, <1>12, FS_CardinalityType
<1>14. Cardinality(S) <= W
  <2> HIDE DEF T
  <2> QED
    BY <1>5, <1>11, <1>12, <1>13
<1> QED
  BY <1>14 DEF S, r, a, q


LEMMA RoomSays ==
  RoomForCommands <=> (c.mixed # {} \/ Cardinality(Waiting(commands, c.reliableAcknowledge)) <= W)
BY Zenon DEF RoomForCommands, Waiting, W

LEMMA RoomUnmoved ==
  ASSUME RoomForCommands, UNCHANGED <<c, commands>>
  PROVE  RoomForCommands'
BY DEF RoomForCommands

LEMMA ClientRoom ==
  ASSUME TypeOK, Good, RoomForCommands, ClientReceives, c.mixed = {}
  PROVE  RoomForCommands'
<1> DEFINE m == Head(toClient)
           client == Told(c, m)
           rest == Tail(toClient)
           a == m.commands
<1>1. toClient # <<>> /\ Alive(c)
  BY DEF ClientReceives, Alive
<1>2. Has(m, client, rest)
  BY <1>1, Arrived, Zenon DEF Has
<1>3. /\ c'.reliableAcknowledge = a /\ a \in Nat
      /\ \/ Waiting(commands', a) = Waiting(commands, a)
         \/ /\ m.kind = "download" /\ client.downloadName # NoFile /\ m.block = client.downloadBlock
            /\ TakeBlock(client, m)
            /\ Waiting(commands', a) = Waiting(commands \o Answer(client, m), a)
  BY ClientWaits
<1> HIDE DEF m, client, rest, a
<1>4. /\ c.reliableAcknowledge \in Nat /\ c.reliableAcknowledge <= a /\ Len(commands) \in Nat /\ W \in Nat
      /\ client.mixed = {} /\ Alive(client)
  <2>1. ClientOK(c) /\ Proper(commands)
    BY Parts
  <2>2. c.reliableAcknowledge \in Nat /\ Len(commands) \in Nat
    BY <2>1, QueueTypes DEF ClientOK, Client
  <2> QED
    BY <1>1, <1>2, <2>2, Constants DEF Has, MessageFits, SameFiles, Alive, a
<1>5. Cardinality(Waiting(commands, a)) <= W
  <2>1. Cardinality(Waiting(commands, c.reliableAcknowledge)) <= W
    BY RoomSays
  <2>2. /\ Cardinality(Waiting(commands, a)) <= Cardinality(Waiting(commands, c.reliableAcknowledge))
        /\ Cardinality(Waiting(commands, a)) \in Nat
        /\ Cardinality(Waiting(commands, c.reliableAcknowledge)) \in Nat
    BY <1>3, <1>4, WaitingFinite
  <2> QED
    BY <1>4, <2>1, <2>2
<1>6. c'.mixed # {} \/ Cardinality(Waiting(commands', a)) <= W
  <2>1. ASSUME m.kind = "download", client.downloadName # NoFile, m.block = client.downloadBlock,
               TakeBlock(client, m), Waiting(commands', a) = Waiting(commands \o Answer(client, m), a),
               c'.mixed = {}
        PROVE  Cardinality(Waiting(commands', a)) <= W
    <3>1. c'.mixed = client.mixed \cup ({m.data.file} \ {client.downloadName})
      BY <1>2, <1>4, <2>1, BlockSound
    <3>2. m.data.file = client.downloadName
      BY <2>1, <3>1
    <3> QED
      BY <1>2, <1>4, <2>1, <3>2, WaitingFew DEF a
  <2> QED
    BY <1>3, <1>5, <2>1
<1>7. RoomForCommands' <=> (c'.mixed # {} \/ Cardinality(Waiting(commands', c'.reliableAcknowledge)) <= W)
  BY Zenon DEF RoomForCommands, Waiting, W
<1> QED
  BY <1>3, <1>6, <1>7

\* What was mixed up stays so, and no short file means that nothing ever is.
LEMMA StillMixed ==
  ASSUME TypeOK, [Next]_vars, c.mixed # {}
  PROVE  c'.mixed # {}
<1>1. ASSUME ClientReceives PROVE c'.mixed # {}
  BY <1>1, MixedGrows
<1>2. ClientReceives \/ c' = c
  BY DEF Next, vars, Lose, ServerReceives, SV_SpawnServer, SV_SendClientSnapshot, RefuseDownload,
         SV_WriteDownloadToClient, CL_WritePacket
<1> QED
  BY <1>1, <1>2

LEMMA RoomNext ==
  ASSUME Inv, [Next]_vars
  PROVE  RoomForCommands'
<1>1. TypeOK /\ RoomForCommands /\ (c.mixed = {} => Good)
  BY DEF Inv
<1>2. ASSUME c.mixed # {} PROVE RoomForCommands'
  BY <1>1, <1>2, StillMixed DEF RoomForCommands
<1>3. ClientReceives \/ UNCHANGED <<c, commands>>
  BY DEF Next, vars, Lose, ServerReceives, SV_SpawnServer, SV_SendClientSnapshot, RefuseDownload,
         SV_WriteDownloadToClient, CL_WritePacket
<1> QED
  BY <1>1, <1>2, <1>3, ClientRoom, RoomUnmoved

LEMMA GoodUnmoved ==
  ASSUME Good, UNCHANGED vars
  PROVE  Good'
BY DEF vars, Good


LEMMA NoneWaits ==
  ASSUME NEW q, Len(q) = 0
  PROVE  Cardinality(Waiting(q, 0)) = 0
<1>1. Waiting(q, 0) = {}
  BY DEF Waiting
<1> QED
  BY <1>1, FS_EmptySet

LEMMA InitGood ==
  ASSUME Init, TypeOK
  PROVE  Good
<1> DEFINE m == [kind |-> "gamestate", number |-> 2, commands |-> 0, serverId |-> 1]
<1>1. /\ s.serverId = 1 /\ s.state = "CS_PRIMED" /\ s.gamestates = <<0>> /\ s.lastClientCommand = 0
      /\ s.downloadName = NoFile /\ s.download = NoFile
  BY DEF Init
<1>2. /\ c.state = "CA_CONNECTED" /\ c.serverId = 0 /\ c.messageNum = 0 /\ c.reliableAcknowledge = 0
      /\ c.downloadList = {} /\ c.downloadRestart = FALSE /\ c.downloadName = NoFile
      /\ c.downloadBlock = 0 /\ c.download = NoFile /\ c.saved = {}
  BY DEF Init
<1>3. commands = <<>> /\ toServer = <<>> /\ toClient = <<m>>
  BY DEF Init
<1>4. Len(commands) = 0 /\ Len(toServer) = 0 /\ Len(toClient) = 1 /\ Len(s.gamestates) = 1
  BY <1>1, <1>3
<1>5. Asked(commands, 0) = NoFile /\ Acked(commands, 0) = 0 /\ Idle(s, commands)
  BY <1>1 DEF Asked, Acked, Idle
<1>6. CommandsFit(commands, c)
  BY <1>4 DEF CommandsFit
<1>7. ClientFits(c, s, commands)
  <2>1. FileFits(c)
    BY <1>2 DEF FileFits
  <2>2. ListFits(c)
    BY <1>2 DEF ListFits
  <2>3. Working(c, commands)
    BY <1>2, <1>4, <1>5, <2>1, <2>2 DEF Working
  <2> QED
    BY <1>1, <1>2, <1>4, <2>3 DEF ClientFits
<1>8. ServerGood(s, c, commands)
  <2>1. ServerFits(s, commands)
    BY <1>1, <1>4, <1>5 DEF ServerFits, OpenFits
  <2>2. LateFits(s, c)
    BY <1>1, <1>2 DEF LateFits
  <2>3. KnownFits(s, c, commands)
    BY <1>1, <1>5 DEF KnownFits
  <2> QED
    BY <1>1, <2>1, <2>2, <2>3 DEF ServerGood, Dropped
<1>9. MessageFits(m, s, c, commands)
  <2>1. GamestateFits(m, s, c, commands)
    <3>1. m.number = 2 /\ m.commands = 0 /\ m.serverId = 1
      OBVIOUS
    <3> HIDE DEF m
    <3> QED
      BY <1>1, <1>2, <1>4, <1>5, <3>1 DEF GamestateFits
  <2>2. m.kind = "gamestate" /\ m.number = 2 /\ m.commands = 0
    OBVIOUS
  <2> HIDE DEF m
  <2> QED
    BY <1>1, <1>2, <1>4, <2>1, <2>2 DEF MessageFits
<1>10. MessagesFit(toClient, s, c, commands)
  <2>1. toClient[1] = m
    BY <1>3
  <2> HIDE DEF m
  <2> QED
    BY <1>4, <1>9, <2>1 DEF MessagesFit
<1>11. PacketsFit(toServer, s, c, commands)
  BY <1>4 DEF PacketsFit
<1> QED
  BY <1>6, <1>7, <1>8, <1>10, <1>11 DEF Good

LEMMA InvInit ==
  Init => Inv
<1> SUFFICES ASSUME Init PROVE Inv
  OBVIOUS
<1>1. TypeOK
  BY InitTypes
<1>2. Good
  BY <1>1, InitGood
<1>3. c.mixed = {} /\ c.reliableAcknowledge = 0 /\ Len(commands) = 0
  BY DEF Init
<1>4. RoomForCommands
  BY <1>3, NoneWaits, RoomSays, Constants
<1> QED
  BY <1>1, <1>2, <1>3, <1>4 DEF Inv

LEMMA InvNext ==
  Inv /\ [Next]_vars => Inv'
<1> SUFFICES ASSUME Inv, [Next]_vars PROVE Inv'
  OBVIOUS
<1>1. /\ TypeOK /\ RoomForCommands
      /\ IF c.mixed = {} THEN Good ELSE ~NoShort
  BY DEF Inv
<1>2. TypeOK' /\ RoomForCommands'
  BY <1>1, NextTypes, RoomNext
<1>3. NoShort' = NoShort
  BY DEF NoShort, W, File
<1>4. ASSUME c.mixed # {} PROVE c'.mixed # {} /\ ~NoShort
  BY <1>1, <1>4, StillMixed
<1>5. ASSUME c.mixed = {} PROVE IF c'.mixed = {} THEN Good' ELSE ~NoShort
  <2>1. CASE ClientReceives
    BY <1>1, <1>5, <2>1, ClientGood
  <2>2. CASE ~ClientReceives
    <3>1. c' = c
      BY <2>2 DEF Next, vars, Lose, ServerReceives, SV_SpawnServer, SV_SendClientSnapshot, RefuseDownload,
             SV_WriteDownloadToClient, CL_WritePacket
    <3>2. Good'
      BY <1>1, <1>5, <2>2, LoseGood, ReceivesGood, SpawnGood, SnapshotGood, RefuseGood, WriteGood,
         WritePacketGood, GoodUnmoved DEF Next
    <3> QED
      BY <1>5, <3>1, <3>2
  <2> QED
    BY <2>1, <2>2
<1>6. IF c'.mixed = {} THEN Good' ELSE ~NoShort
  BY <1>4, <1>5
<1> QED
  BY <1>2, <1>3, <1>6, Zenon DEF Inv


-----------------------------------------------------------------------------
(* What it is for. *)

\* The inductive invariant: what the commands, the messages and packets in flight,
\* the client and the server have to do with each other as long as the client has
\* not taken one file's block for another's.
THEOREM DownloadsInvariant == Spec => []Inv
BY InvInit, InvNext, PTL DEF Spec

LEMMA InvIntact ==
  Inv => Intact
<1> SUFFICES ASSUME Inv PROVE Intact
  OBVIOUS
<1>1. ASSUME c.mixed # {} PROVE \E f \in File : Blocks[f] < MAX_DOWNLOAD_WINDOW
  <2>1. ~NoShort
    BY <1>1 DEF Inv
  <2>2. PICK f \in File : ~(W <= Blocks[f])
    BY <2>1 DEF NoShort
  <2>3. Blocks[f] \in Nat /\ W \in Nat
    BY <2>2, Constants
  <2> QED
    BY <2>2, <2>3 DEF W
<1>2. ASSUME c.download # NoFile, c.mixed = {}
      PROVE  /\ c.download = c.downloadName
             /\ c.written = [i \in 1..c.downloadBlock |-> [file |-> c.download, index |-> i - 1]]
  <2>1. ClientFits(c, s, commands)
    BY <1>2 DEF Inv, Good
  <2>2. FileFits(c)
    BY <1>2, <2>1 DEF ClientFits, Working
  <2> QED
    BY <1>2, <2>2 DEF FileFits
<1> QED
  BY <1>1, <1>2 DEF Intact

\* What the client writes is the file that it asked for, block after block, for
\* every choice of paks and levels, window and number of losses; and it takes a
\* block of another file only if there is a file shorter than the window.
THEOREM DownloadsIntact == Spec => []Intact
BY DownloadsInvariant, InvIntact, PTL

LEMMA InvUnbroken ==
  Inv => Unbroken
<1> SUFFICES ASSUME Inv, Dropped(s), c.mixed = {} PROVE s.serverId > 2
  BY DEF Unbroken
<1>1. ServerGood(s, c, commands)
  BY DEF Inv, Good
<1> QED
  BY <1>1 DEF ServerGood

\* The server does not drop a client for an acknowledgement out of turn, however
\* many messages are lost, before its level has changed twice, unless the client
\* took another file's block.
THEOREM DownloadsUnbroken == Spec => []Unbroken
BY DownloadsInvariant, InvUnbroken, PTL

\* As many of the client's acknowledgements as the window has blocks, and no more,
\* wait to be acknowledged themselves.
THEOREM DownloadsRoomForCommands == Spec => []RoomForCommands
<1>1. Inv => RoomForCommands
  BY DEF Inv
<1> QED
  BY <1>1, DownloadsInvariant, PTL

=============================================================================
