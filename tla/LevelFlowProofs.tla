--------------------------- MODULE LevelFlowProofs ---------------------------
(***************************************************************************)
(* Proofs about LevelFlow: its types, that the maps of a rotation are      *)
(* played in turn, and that the queue of the players implements PlayList.  *)
(***************************************************************************)
EXTENDS LevelFlow, SequenceTheorems, WellFoundedInduction, TLAPS

-----------------------------------------------------------------------------
(* Nodes. *)

\* Remainders about zero.
LEMMA ModSame == ASSUME NEW L \in Nat, NEW n \in 0..(L - 1) PROVE n % L = n
  OBVIOUS

LEMMA ModBelow == ASSUME NEW L \in Nat \ {0}, NEW n \in (-L)..(-1) PROVE n % L = n + L
  OBVIOUS

LEMMA ModNext ==
  ASSUME NEW L \in Nat \ {0}, NEW i \in 1..L
  PROVE  (i % L) + 1 = IF i = L THEN 1 ELSE i + 1
<1>1. CASE i = L
  <2>1. L % L = 0
    OBVIOUS
  <2> QED
    BY <1>1, <2>1
<1>2. CASE i # L
  <2>1. i \in 0..(L - 1)
    BY <1>2
  <2>2. i % L = i
    BY <2>1, ModSame
  <2> QED
    BY <1>2, <2>2
<1> QED
  BY <1>1, <1>2

\* What the file of rotations is.
LEMMA FileFacts ==
  ASSUME rotations \in Files, NEW r \in Rotations
  PROVE  /\ rotations[r] \in Seq(Nodes)
         /\ Len(rotations[r]) \in Nat \ {0}
         /\ DOMAIN rotations[r] = 1..Len(rotations[r])
         /\ \A i \in DOMAIN rotations[r] :
              /\ rotations[r][i] \in Nodes
              /\ rotations[r][i].type = "NT_MAP" => rotations[r][i].name \in Maps
              /\ rotations[r][i].conditional => rotations[r][i].type \in Jumps
<1>1. rotations \in [Rotations -> Seq(Nodes)] /\ ParseMapRotationFile(rotations)
  BY FileAssumption
<1>2. rotations[r] \in Seq(Nodes)
  BY <1>1
<1>3. \A i \in DOMAIN rotations[r] :
        /\ rotations[r][i].type = "NT_MAP" => rotations[r][i].name \in Maps
        /\ rotations[r][i].conditional => rotations[r][i].type \in Jumps
  BY <1>1, Zenon DEF ParseMapRotationFile
<1>4. \E i \in DOMAIN rotations[r] : rotations[r][i].type = "NT_MAP"
  BY <1>1, Zenon DEF ParseMapRotationFile
<1>5. Len(rotations[r]) \in Nat /\ DOMAIN rotations[r] = 1..Len(rotations[r])
  BY <1>2
<1>6. Len(rotations[r]) # 0
  BY <1>4, <1>5
<1>7. \A i \in DOMAIN rotations[r] : rotations[r][i] \in Nodes
  BY <1>2, <1>5
<1> QED
  BY <1>2, <1>3, <1>5, <1>6, <1>7

LEMMA AfterType ==
  ASSUME rotations \in Files, NEW r \in Rotations, NEW i \in 1..Len(rotations[r])
  PROVE  /\ G_NodeIndexAfter(i, r) \in 1..Len(rotations[r])
         /\ G_NodeIndexAfter(i, r) = IF i = Len(rotations[r]) THEN 1 ELSE i + 1
<1> DEFINE L == Len(rotations[r])
<1>1. L \in Nat \ {0}
  BY FileFacts
<1>2. G_NodeIndexAfter(i, r) = (i % L) + 1 /\ i \in 1..L
  BY DEF G_NodeIndexAfter
<1> HIDE DEF L
<1>3. (i % L) + 1 = IF i = L THEN 1 ELSE i + 1
  BY <1>1, <1>2, ModNext
<1>4. (i % L) + 1 \in 1..L
  BY <1>1, <1>2, <1>3
<1> QED
  BY <1>2, <1>3, <1>4 DEF L

LEMMA PlacesType ==
  ASSUME rotations \in Files, NEW r \in Rotations, NEW i, NEW name, NEW place \in Places(r, i, name)
  PROVE  place \in 1..Len(rotations[r])
<1> DEFINE labels == {j \in DOMAIN rotations[r] :
                        rotations[r][j].type = "NT_LABEL" /\ rotations[r][j].name = name}
           maps == {j \in DOMAIN rotations[r] :
                      rotations[r][j].type = "NT_MAP" /\ rotations[r][j].name = name}
<1>1. DOMAIN rotations[r] = 1..Len(rotations[r])
  BY FileFacts
<1>2. (\E j \in labels : place = G_NodeIndexAfter(j, r)) \/ place \in maps
  BY Zenon DEF Places
<1>3. ASSUME NEW j \in labels PROVE G_NodeIndexAfter(j, r) \in 1..Len(rotations[r])
  BY <1>1, AfterType
<1> QED
  BY <1>1, <1>2, <1>3

-----------------------------------------------------------------------------
(* Types of the rotations. *)

LEMMA PushType ==
  ASSUME NEW r \in Rotations, stack \in Seq(Rotations)
  PROVE  G_PushRotationStack(r) \in Seq(Rotations) /\ Len(G_PushRotationStack(r)) <= StackSize
<1> DEFINE pushed == <<r>> \o stack
           n == IF Len(pushed) > StackSize THEN StackSize ELSE Len(pushed)
<1>1. pushed \in Seq(Rotations)
  OBVIOUS
<1>2. n \in 0..Len(pushed) /\ n <= StackSize
  BY <1>1, DepthAssumption
<1>3. SubSeq(pushed, 1, n) \in Seq(Rotations) /\ Len(SubSeq(pushed, 1, n)) = n
  <2> HIDE DEF pushed, n
  <2> QED
    BY <1>1, <1>2
<1> QED
  BY <1>2, <1>3 DEF G_PushRotationStack

\* A walk starts in a rotation, at its node.
LEMMA WalkType ==
  ASSUME rotations \in Files, NEW ns \in [Rotations -> Nat], NEW r \in Rotations,
         ns[r] \in 1..Len(rotations[r]), NEW depth \in 0..StopDepth
  PROVE  Walk(ns, r, depth) \in [walking : {TRUE}, rotation : {r},
                                 index : DOMAIN rotations[r], depth : 0..StopDepth]
<1>1. DOMAIN rotations[r] = 1..Len(rotations[r])
  BY FileFacts
<1> QED
  BY <1>1 DEF Walk

LEMMA WalkingType ==
  ASSUME RotationTypeOK, at.walking
  PROVE  /\ current \in Rotations
         /\ at \in [walking : {TRUE}, rotation : {current},
                    index : DOMAIN rotations[current], depth : 0..StopDepth]
         /\ at.rotation = current /\ at.rotation \in Rotations /\ rotations \in Files
         /\ at.index \in 1..Len(rotations[at.rotation])
         /\ at.index \in DOMAIN rotations[at.rotation]
         /\ at.depth \in 0..StopDepth
         /\ node \in Nodes
<1>1. at # Still
  BY DEF Still
<1>2. /\ current \in Rotations /\ rotations \in Files
      /\ at \in [walking : {TRUE}, rotation : {current},
                 index : DOMAIN rotations[current], depth : 0..StopDepth]
  BY <1>1, Zenon DEF RotationTypeOK
<1>3. DOMAIN rotations[current] = 1..Len(rotations[current])
  BY <1>2, FileFacts
<1>4. \A i \in DOMAIN rotations[current] : rotations[current][i] \in Nodes
  BY <1>2, FileFacts, Zenon
<1>5. at.rotation = current /\ at.index \in DOMAIN rotations[current] /\ at.depth \in 0..StopDepth
  BY <1>2
<1> QED
  BY <1>2, <1>3, <1>4, <1>5 DEF node

\* The depth a step leaves behind.
LEMMA DepthType ==
  ASSUME RotationTypeOK, at.walking, ~Loops, node.type # "NT_MAP"
  PROVE  at.depth + 1 \in 0..StopDepth
BY WalkingType, DepthAssumption DEF Loops

LEMMA LeftType ==
  ASSUME RotationTypeOK, at.walking
  PROVE  Left \in [Rotations -> Nat] /\ \A r \in Rotations : Left[r] \in 1..Len(rotations[r])
<1>1. G_NodeIndexAfter(at.index, at.rotation) \in 1..Len(rotations[at.rotation])
  BY WalkingType, AfterType
<1>2. Len(rotations[at.rotation]) \in Nat /\ at.rotation \in Rotations
  BY WalkingType, FileFacts
<1> DEFINE next == G_NodeIndexAfter(at.index, at.rotation)
<1>3. next \in Nat
  BY <1>1, <1>2
<1>4. nodes \in [Rotations -> Nat] /\ \A r \in Rotations : nodes[r] \in 1..Len(rotations[r])
  BY DEF RotationTypeOK
<1>5. Left = [nodes EXCEPT ![at.rotation] = next]
  BY DEF Left
<1> HIDE DEF next
<1> QED
  BY <1>1, <1>2, <1>3, <1>4, <1>5 DEF next


LEMMA IdleStill == ASSUME RotationTypeOK, Idle PROVE at = Still
BY DEF RotationTypeOK, Idle, Still

\* A step of a walk leaves every rotation within the file.
LEMMA StepType ==
  ASSUME RotationTypeOK, G_StepMapRotation
  PROVE  RotationTypeOK'
<1>1. /\ at.walking
      /\ rotations' = rotations
  BY DEF G_StepMapRotation, GiveUp, Skip, IssueMapChange, Return, JumpToRotation, JumpToPlace
<1>2. /\ current \in Rotations /\ rotations \in Files /\ at.rotation = current
      /\ at.index \in 1..Len(rotations[current]) /\ at.index \in DOMAIN rotations[current]
      /\ at.depth \in 0..StopDepth
      /\ at \in [walking : {TRUE}, rotation : {current},
                 index : DOMAIN rotations[current], depth : 0..StopDepth]
      /\ node \in Nodes
  BY <1>1, WalkingType
<1>3. /\ nodes \in [Rotations -> Nat] /\ \A r \in Rotations : nodes[r] \in 1..Len(rotations[r])
      /\ stack \in Seq(Rotations) /\ Len(stack) <= StackSize
      /\ issued \in Maps \cup {NoMap}
      /\ played \in [Rotations -> Nat] /\ \A r \in Rotations : played[r] \in 0..Len(rotations[r])
  BY DEF RotationTypeOK
<1>4. Left \in [Rotations -> Nat] /\ \A r \in Rotations : Left[r] \in 1..Len(rotations[r])
  BY <1>1, LeftType
<1>5. \A r \in Rotations : Len(rotations[r]) \in Nat \ {0}
  BY <1>2, FileFacts
<1>6. CASE GiveUp
  BY <1>2, <1>3, <1>6 DEF GiveUp, RotationTypeOK
<1>7. CASE Skip
  <2>1. at.depth + 1 \in 0..StopDepth
    <3>1. CASE Loops /\ at.depth + 1 <= StopDepth
      BY <1>2, <3>1, DepthAssumption
    <3>2. CASE ~Loops /\ node.type # "NT_MAP"
      BY <1>1, <3>2, DepthType
    <3>3. CASE ~Loops /\ node.conditional
      <4>1. node.type \in Jumps
        BY <1>2, <3>3, FileFacts, Zenon DEF node
      <4> QED
        BY <1>1, <3>3, <4>1, DepthType DEF Jumps
    <3> QED
      BY <1>7, <3>1, <3>2, <3>3, Zenon DEF Skip
  <2> DEFINE next == G_NodeIndexAfter(at.index, at.rotation)
  <2>2. next \in 1..Len(rotations[current])
    BY <1>2, AfterType
  <2>3. DOMAIN rotations[current] = 1..Len(rotations[current])
    BY <1>2, FileFacts
  <2>4. at' = [at EXCEPT !.index = next, !.depth = @ + 1]
    BY <1>7, Zenon DEF Skip, NextNode
  <2>5. UNCHANGED <<rotations, current, nodes, stack, issued, played>>
    BY <1>7, Zenon DEF Skip
  <2> HIDE DEF next
  <2>6. at' \in [walking : {TRUE}, rotation : {current},
                 index : DOMAIN rotations[current], depth : 0..StopDepth]
    BY <1>2, <2>1, <2>2, <2>3, <2>4
  <2> QED
    BY <1>2, <1>3, <2>5, <2>6 DEF RotationTypeOK
<1>8. CASE IssueMapChange
  <2>1. node.name \in Maps
    BY <1>2, <1>8, FileFacts DEF node, IssueMapChange
  <2>2. played' = [played EXCEPT ![current] = at.index]
    BY <1>2, <1>8, Zenon DEF IssueMapChange
  <2>3. played' \in [Rotations -> Nat] /\ \A r \in Rotations : played'[r] \in 0..Len(rotations[r])
    BY <1>2, <1>3, <1>5, <2>2
  <2> QED
    BY <1>2, <1>3, <1>4, <1>8, <2>1, <2>3 DEF IssueMapChange, RotationTypeOK
<1>9. CASE Return
  <2>1. node.type = "NT_RETURN" /\ ~Loops
    BY <1>9 DEF Return
  <2>2. at.depth + 1 \in 0..StopDepth
    BY <1>1, <2>1, DepthType
  <2>3. Head(stack) \in Rotations /\ Tail(stack) \in Seq(Rotations) /\ Len(Tail(stack)) <= StackSize
    BY <1>3, <1>9, DepthAssumption DEF Return
  <2>4. Walk(Left, Head(stack), at.depth + 1)
        \in [walking : {TRUE}, rotation : {Head(stack)},
             index : DOMAIN rotations[Head(stack)], depth : 0..StopDepth]
    BY <1>2, <1>4, <2>2, <2>3, WalkType
  <2> QED
    BY <1>2, <1>3, <1>4, <1>9, <2>3, <2>4 DEF Return, RotationTypeOK
<1>10. CASE JumpToRotation
  <2>1. node.type # "NT_MAP" /\ ~Loops /\ node.name \in Rotations
    BY <1>10 DEF JumpToRotation
  <2>2. at.depth + 1 \in 0..StopDepth
    BY <1>1, <2>1, DepthType
  <2>3. stack' \in Seq(Rotations) /\ Len(stack') <= StackSize
    BY <1>2, <1>3, <1>10, PushType DEF JumpToRotation
  <2>4. nodes' \in [Rotations -> Nat] /\ \A r \in Rotations : nodes'[r] \in 1..Len(rotations[r])
    BY <1>4, <1>5, <1>10, <2>1 DEF JumpToRotation
  <2>5. Walk(nodes', node.name, at.depth + 1)
        \in [walking : {TRUE}, rotation : {node.name},
             index : DOMAIN rotations[node.name], depth : 0..StopDepth]
    BY <1>2, <2>1, <2>2, <2>4, WalkType
  <2> QED
    BY <1>2, <1>3, <1>10, <2>1, <2>3, <2>4, <2>5 DEF JumpToRotation, RotationTypeOK
<1>11. CASE JumpToPlace
  <2>1. node.type # "NT_MAP" /\ ~Loops
    BY <1>11 DEF JumpToPlace
  <2>2. at.depth + 1 \in 0..StopDepth
    BY <1>1, <2>1, DepthType
  <2>3. PICK place \in Places(current, at.index, node.name) :
          nodes' = [nodes EXCEPT ![current] = place]
    BY <1>2, <1>11 DEF JumpToPlace
  <2>4. place \in 1..Len(rotations[current])
    BY <1>2, <2>3, PlacesType
  <2>5. nodes' \in [Rotations -> Nat] /\ \A r \in Rotations : nodes'[r] \in 1..Len(rotations[r])
    BY <1>2, <1>3, <1>5, <2>3, <2>4
  <2>6. Walk(nodes', current, at.depth + 1)
        \in [walking : {TRUE}, rotation : {current},
             index : DOMAIN rotations[current], depth : 0..StopDepth]
    BY <1>2, <2>2, <2>5, WalkType
  <2> QED
    BY <1>2, <1>3, <1>11, <2>5, <2>6 DEF JumpToPlace, RotationTypeOK
<1> QED
  BY <1>6, <1>7, <1>8, <1>9, <1>10, <1>11 DEF G_StepMapRotation

LEMMA AdvanceType ==
  ASSUME RotationTypeOK, G_MapRotationActive, G_AdvanceMapRotation
  PROVE  RotationTypeOK'
<1>1. /\ current \in Rotations /\ rotations \in Files /\ nodes \in [Rotations -> Nat]
      /\ nodes[current] \in 1..Len(rotations[current])
  BY DEF RotationTypeOK, G_MapRotationActive
<1>2. 0 \in 0..StopDepth
  BY DepthAssumption
<1>3. Walk(nodes, current, 0) \in [walking : {TRUE}, rotation : {current},
                                   index : DOMAIN rotations[current], depth : 0..StopDepth]
  BY <1>1, <1>2, WalkType
<1> QED
  BY <1>1, <1>3 DEF G_AdvanceMapRotation, RotationTypeOK

LEMMA RotationTypeNext ==
  ASSUME RotationTypeOK, [Next]_vars, issued' \in Maps \cup {NoMap}
  PROVE  RotationTypeOK'
<1>1. ASSUME Idle, UNCHANGED <<rotations, current, nodes, stack, at, played>>
      PROVE  RotationTypeOK'
  BY <1>1 DEF RotationTypeOK, Still
<1>2. CASE ExitLevel
  <2>1. CASE UNCHANGED <<rotations, current, nodes, stack, at, played>>
    BY <1>1, <1>2, <2>1 DEF ExitLevel
  <2>2. CASE ExitToRotation
    BY <2>2, AdvanceType DEF ExitToRotation
  <2> QED
    BY <1>2, <2>1, <2>2, Zenon
       DEF ExitLevel, ExitToNextMap, ExitToPlayMap, ExitToSameMap, Issue
<1>3. CASE Step
  BY <1>3, StepType DEF Step
<1>4. CASE NewLevel
  <2>1. at' = Still /\ UNCHANGED <<rotations, nodes, stack, played>>
    BY <1>4, IdleStill DEF NewLevel, G_InitMapRotations
  <2>2. current' \in Rotations \cup {NOT_ROTATING}
    BY <1>4 DEF NewLevel, G_InitMapRotations, RotationTypeOK
  <2> QED
    BY <2>1, <2>2 DEF RotationTypeOK
<1>5. CASE Svcmd
  <2>1. ASSUME NEW name, Svcmd_MapRotation_f(name)
        PROVE  RotationTypeOK'
    <3>1. at' = Still /\ current' \in Rotations \cup {NOT_ROTATING}
      BY <1>5, <2>1, IdleStill DEF Svcmd, Svcmd_MapRotation_f, RotationTypeOK
    <3>2. stack' = <<>> \/ (current \in Rotations /\ stack' = <<current>>)
      BY <2>1 DEF Svcmd_MapRotation_f, RotationTypeOK
    <3>3. stack' \in Seq(Rotations) /\ Len(stack') <= StackSize
      <4>1. CASE stack' = <<>>
        BY <4>1, DepthAssumption
      <4>2. CASE current \in Rotations /\ stack' = <<current>>
        BY <4>2, DepthAssumption
      <4> QED
        BY <3>2, <4>1, <4>2
    <3> QED
      BY <2>1, <3>1, <3>3 DEF Svcmd_MapRotation_f, RotationTypeOK
  <2>2. CASE G_StopMapRotation
    <3>1. at' = Still
      BY <1>5, <2>2, IdleStill DEF Svcmd, G_StopMapRotation
    <3> QED
      BY <2>2, <3>1 DEF G_StopMapRotation, RotationTypeOK
  <2> QED
    BY <1>5, <2>1, <2>2, AdvanceType DEF Svcmd
<1>6. CASE PlayersAct
  BY <1>1, <1>6 DEF PlayersAct, rotationVars
<1>7. CASE UNCHANGED vars
  BY <1>7 DEF vars, rotationVars, RotationTypeOK
<1> QED
  BY <1>2, <1>3, <1>4, <1>5, <1>6, <1>7 DEF Next

-----------------------------------------------------------------------------
(* Maps in turn. *)

\* How far a node is ahead of the map the rotation played last, and that there
\* is no map on the way to it.
Ahead(r, i) == (i - played[r] - 1) % Len(rotations[r])

NoMapBefore(r, j) ==
  \A i \in DOMAIN rotations[r] : Ahead(r, i) < Ahead(r, j) => rotations[r][i].type # "NT_MAP"

\* The node of the rotation, and the walk while it is in the rotation, have not
\* gone past a map since it played its last.
InTurn(r) ==
  Orderly(r) /\ played[r] # 0 =>
    /\ rotations[r][played[r]].type = "NT_MAP"
    /\ NoMapBefore(r, nodes[r])
    /\ at.walking /\ at.rotation = r => NoMapBefore(r, at.index)

LEMMA AheadFacts ==
  ASSUME NEW L \in Nat \ {0}, NEW p \in 1..L, NEW i \in 1..L
  PROVE  /\ (i - p - 1) % L = IF i > p THEN i - p - 1 ELSE i - p - 1 + L
         /\ ((IF i = L THEN 1 ELSE i + 1) - p - 1) % L = IF i = p THEN 0 ELSE ((i - p - 1) % L) + 1
<1>1. ASSUME NEW j \in 1..L
      PROVE  (j - p - 1) % L = IF j > p THEN j - p - 1 ELSE j - p - 1 + L
  <2>1. CASE j > p
    <3>1. j - p - 1 \in 0..(L - 1)
      BY <2>1
    <3> QED
      BY <2>1, <3>1, ModSame
  <2>2. CASE ~(j > p)
    <3>1. j - p - 1 \in (-L)..(-1)
      BY <2>2
    <3> QED
      BY <2>2, <3>1, ModBelow
  <2> QED
    BY <2>1, <2>2
<1> DEFINE next == IF i = L THEN 1 ELSE i + 1
<1>2. next \in 1..L
  OBVIOUS
<1>3. (next - p - 1) % L = IF next > p THEN next - p - 1 ELSE next - p - 1 + L
  BY <1>1, <1>2
<1>4. (i - p - 1) % L = IF i > p THEN i - p - 1 ELSE i - p - 1 + L
  BY <1>1
<1> QED
  BY <1>3, <1>4

\* Leaving a node that is no map goes past none.
LEMMA NoMapNext ==
  ASSUME RotationTypeOK, NEW r \in Rotations, played[r] # 0,
         rotations[r][played[r]].type = "NT_MAP",
         NEW j \in DOMAIN rotations[r], rotations[r][j].type # "NT_MAP", NoMapBefore(r, j)
  PROVE  NoMapBefore(r, G_NodeIndexAfter(j, r))
<1> DEFINE L == Len(rotations[r])
           p == played[r]
           next == IF j = L THEN 1 ELSE j + 1
<1>1. /\ rotations \in Files /\ L \in Nat \ {0} /\ p \in 1..L
      /\ DOMAIN rotations[r] = 1..L
  BY FileFacts DEF RotationTypeOK
<1>2. G_NodeIndexAfter(j, r) = next
  BY <1>1, AfterType
<1>3. j # p
  OBVIOUS
<1> HIDE DEF L, p
<1>4. (next - p - 1) % L = ((j - p - 1) % L) + 1
  BY <1>1, <1>3, AheadFacts
<1>5. \A i \in 1..L : (i - p - 1) % L = IF i > p THEN i - p - 1 ELSE i - p - 1 + L
  BY <1>1, AheadFacts
<1>6. \A i \in 1..L : (i - p - 1) % L < (j - p - 1) % L => rotations[r][i].type # "NT_MAP"
  BY <1>1 DEF NoMapBefore, Ahead, L, p
<1>7. \A i \in 1..L : (i - p - 1) % L < (next - p - 1) % L => rotations[r][i].type # "NT_MAP"
  <2> SUFFICES ASSUME NEW i \in 1..L, (i - p - 1) % L < (next - p - 1) % L
               PROVE  rotations[r][i].type # "NT_MAP"
    OBVIOUS
  <2>1. (i - p - 1) % L < (j - p - 1) % L \/ (i - p - 1) % L = (j - p - 1) % L
    BY <1>1, <1>4, <1>5
  <2>2. CASE (i - p - 1) % L < (j - p - 1) % L
    BY <1>6, <2>2
  <2>3. CASE (i - p - 1) % L = (j - p - 1) % L
    <3>1. /\ L \in Nat /\ p \in 1..L /\ i \in 1..L /\ j \in 1..L
          /\ (i - p - 1) % L = IF i > p THEN i - p - 1 ELSE i - p - 1 + L
          /\ (j - p - 1) % L = IF j > p THEN j - p - 1 ELSE j - p - 1 + L
      BY <1>1, <1>5
    <3> DEFINE a == (i - p - 1) % L
               b == (j - p - 1) % L
    <3>2. a = b
      BY <2>3
    <3> HIDE DEF a, b
    <3>3. i = j
      BY <3>1, <3>2 DEF a, b
    <3> QED
      BY <3>3
  <2> QED
    BY <2>1, <2>2, <2>3
<1> QED
  BY <1>1, <1>2, <1>7 DEF NoMapBefore, Ahead, L, p

\* A step that plays nothing of the rotation.
LEMMA TurnKept ==
  ASSUME NEW r \in Rotations, InTurn(r), rotations' = rotations, played'[r] = played[r],
         Orderly(r) /\ played[r] # 0 =>
           /\ NoMapBefore(r, nodes'[r])
           /\ at'.walking /\ at'.rotation = r => NoMapBefore(r, at'.index)
  PROVE  InTurn(r)'
<1>1. Orderly(r)' <=> Orderly(r)
  BY Zenon DEF Orderly
<1>2. \A j : (\A i \in DOMAIN rotations'[r] : (i - played'[r] - 1) % Len(rotations'[r])
                                             < (j - played'[r] - 1) % Len(rotations'[r])
                                             => rotations'[r][i].type # "NT_MAP")
             <=> NoMapBefore(r, j)
  BY Zenon DEF NoMapBefore, Ahead
<1>3. /\ NoMapBefore(r, nodes[r])' <=> NoMapBefore(r, nodes'[r])
      /\ NoMapBefore(r, at.index)' <=> NoMapBefore(r, at'.index)
  BY <1>2, Zenon DEF NoMapBefore, Ahead
<1> QED
  BY <1>1, <1>3, Zenon DEF InTurn

\* What a walk does to the node of a rotation it is in.
LEMMA TurnLeft ==
  ASSUME RotationTypeOK, at.walking, node.type # "NT_MAP", NEW r \in Rotations, InTurn(r),
         Orderly(r), played[r] # 0
  PROVE  /\ NoMapBefore(r, Left[r])
         /\ at.rotation = r => NoMapBefore(r, G_NodeIndexAfter(at.index, at.rotation))
<1>1. at.rotation \in Rotations /\ at.index \in DOMAIN rotations[at.rotation] /\ nodes \in [Rotations -> Nat]
  BY WalkingType DEF RotationTypeOK
<1>2. CASE at.rotation = r
  <2>1. NoMapBefore(r, at.index) /\ rotations[r][played[r]].type = "NT_MAP"
    BY <1>2 DEF InTurn
  <2>2. rotations[r][at.index].type # "NT_MAP"
    BY <1>2 DEF node
  <2>3. NoMapBefore(r, G_NodeIndexAfter(at.index, r))
    BY <1>1, <1>2, <2>1, <2>2, NoMapNext
  <2>4. Left[r] = G_NodeIndexAfter(at.index, r)
    BY <1>1, <1>2 DEF Left
  <2> QED
    BY <1>2, <2>3, <2>4
<1>3. CASE at.rotation # r
  <2>1. Left[r] = nodes[r]
    BY <1>1, <1>3 DEF Left
  <2> QED
    BY <1>3, <2>1 DEF InTurn
<1> QED
  BY <1>2, <1>3

LEMMA StepInTurn ==
  ASSUME RotationTypeOK, RotationTypeOK', G_StepMapRotation, NEW r \in Rotations, InTurn(r)
  PROVE  InTurn(r)'
<1>1. at.walking /\ rotations' = rotations
  BY DEF G_StepMapRotation, GiveUp, Skip, IssueMapChange, Return, JumpToRotation, JumpToPlace
<1>2. /\ current \in Rotations /\ rotations \in Files /\ at.rotation = current
      /\ at.index \in DOMAIN rotations[current]
      /\ nodes \in [Rotations -> Nat] /\ nodes' \in [Rotations -> Nat]
      /\ at \in [walking : {TRUE}, rotation : {current},
                 index : DOMAIN rotations[current], depth : 0..StopDepth]
      /\ \A q \in Rotations : Len(rotations[q]) \in Nat
  BY <1>1, WalkingType, FileFacts DEF RotationTypeOK
<1>3. ASSUME played' = played, node.type # "NT_MAP", Orderly(r) /\ played[r] # 0 => nodes'[r] = Left[r],
             at' = Walk(nodes', current', at.depth + 1)
      PROVE  InTurn(r)'
  <2>1. Orderly(r) /\ played[r] # 0 => NoMapBefore(r, nodes'[r])
    BY <1>1, <1>3, TurnLeft
  <2>2. at'.rotation = current' /\ at'.index = nodes'[current']
    BY <1>3 DEF Walk
  <2> QED
    BY <1>1, <1>3, <2>1, <2>2, TurnKept
<1>4. CASE GiveUp
  <2>1. at'.walking = FALSE /\ nodes' = nodes /\ played' = played
    BY <1>4 DEF GiveUp, Still
  <2> QED
    BY <1>1, <2>1, TurnKept DEF InTurn
<1>5. CASE Skip
  <2>1. node.type # "NT_MAP"
    <3>1. CASE node.conditional
      BY <1>2, <3>1, FileFacts, Zenon DEF node, Jumps
    <3> QED
      BY <1>5, <3>1, Zenon DEF Skip, Loops
  <2> DEFINE next == G_NodeIndexAfter(at.index, at.rotation)
  <2>2. at' = [at EXCEPT !.index = next, !.depth = @ + 1] /\ nodes' = nodes /\ played' = played
    BY <1>5, Zenon DEF Skip, NextNode
  <2> HIDE DEF next
  <2>3. at'.rotation = at.rotation /\ at'.index = next
    BY <1>2, <2>2
  <2>4. Orderly(r) /\ played[r] # 0 =>
          /\ NoMapBefore(r, nodes[r])
          /\ at.rotation = r => NoMapBefore(r, next)
    BY <1>1, <2>1, TurnLeft DEF InTurn, next
  <2> QED
    BY <1>1, <2>2, <2>3, <2>4, TurnKept
<1>6. CASE IssueMapChange
  <2>1. /\ played' = [played EXCEPT ![current] = at.index] /\ played \in [Rotations -> Nat]
        /\ nodes' = Left /\ at'.walking = FALSE /\ node.type = "NT_MAP"
    BY <1>2, <1>6 DEF IssueMapChange, RotationTypeOK, Still
  <2>2. CASE r = current
    <3>1. played'[r] = at.index /\ nodes'[r] = G_NodeIndexAfter(at.index, r)
      BY <1>2, <2>1, <2>2 DEF Left
    <3>2. rotations'[r][played'[r]].type = "NT_MAP"
      BY <1>1, <1>2, <2>1, <2>2, <3>1 DEF node
    <3>3. at.index # 0
      BY <1>2, FileFacts
    <3>4. \A i \in 1..Len(rotations[r]) : ~(Ahead(r, i)' < (Ahead(r, nodes[r]))')
      <4> SUFFICES ASSUME NEW i \in 1..Len(rotations[r])
                   PROVE  ~(Ahead(r, i)' < (Ahead(r, nodes[r]))')
        OBVIOUS
      <4> DEFINE L == Len(rotations[r])
                 p == at.index
                 next == IF p = L THEN 1 ELSE p + 1
      <4>1. L \in Nat \ {0} /\ p \in 1..L /\ i \in 1..L
        BY <1>2, <2>2, FileFacts
      <4>2. nodes'[r] = next
        BY <1>2, <3>1, <4>1, AfterType
      <4>3. Ahead(r, i)' = (i - p - 1) % L /\ (Ahead(r, nodes[r]))' = (next - p - 1) % L
        BY <1>1, <3>1, <4>2 DEF Ahead
      <4> HIDE DEF L, p
      <4>4. (next - p - 1) % L = 0 /\ (i - p - 1) % L \in Nat
        BY <4>1, AheadFacts
      <4>5. ~((i - p - 1) % L < (next - p - 1) % L)
        BY <4>4
      <4> QED
        BY <4>3, <4>5
    <3>5. (NoMapBefore(r, nodes[r]))'
      BY <1>1, <1>2, <3>4, FileFacts DEF NoMapBefore
    <3> QED
      BY <2>1, <3>2, <3>5 DEF InTurn
  <2>3. CASE r # current
    <3>1. played'[r] = played[r] /\ nodes'[r] = nodes[r]
      BY <1>2, <2>1, <2>3 DEF Left
    <3> QED
      BY <1>1, <2>1, <3>1, TurnKept DEF InTurn
  <2> QED
    BY <2>2, <2>3
<1>7. CASE Return
  BY <1>3, <1>7 DEF Return
<1>8. CASE JumpToRotation
  <2>1. /\ played' = played /\ node.type \in {"NT_GOTO", "NT_RESUME"} /\ node.name \in Rotations
        /\ nodes' = IF node.type = "NT_GOTO" THEN [Left EXCEPT ![node.name] = 1] ELSE Left
        /\ at' = Walk(nodes', current', at.depth + 1)
    BY <1>8 DEF JumpToRotation
  <2>2. Left \in [Rotations -> Nat]
    BY <1>1, LeftType
  <2>3. Orderly(r) => ~(node.type = "NT_GOTO" /\ node.name = r)
    BY <1>2, Zenon DEF Orderly, node
  <2>4. Orderly(r) => nodes'[r] = Left[r]
    BY <2>1, <2>2, <2>3
  <2> QED
    BY <1>3, <2>1, <2>4
<1>9. CASE JumpToPlace
  <2>1. node.type \in {"NT_GOTO", "NT_RESUME"} /\ node.name \notin Rotations
    BY <1>9 DEF JumpToPlace
  <2>2. Orderly(r) => at.rotation # r
    BY <1>2, <2>1 DEF Orderly, node
  <2>3. /\ played' = played /\ at'.rotation = at.rotation
        /\ \E place : nodes' = [nodes EXCEPT ![at.rotation] = place]
    BY <1>9 DEF JumpToPlace, Walk
  <2>4. Orderly(r) => nodes'[r] = nodes[r]
    BY <1>2, <2>2, <2>3
  <2> QED
    BY <1>1, <2>2, <2>3, <2>4, TurnKept DEF InTurn
<1> QED
  BY <1>4, <1>5, <1>6, <1>7, <1>8, <1>9 DEF G_StepMapRotation

\* No step goes past a map.
LEMMA NextInTurn ==
  ASSUME RotationTypeOK, RotationTypeOK', [Next]_vars, NEW r \in Rotations, InTurn(r)
  PROVE  InTurn(r)'
<1>1. ASSUME ~at'.walking, UNCHANGED <<rotations, nodes, played>>
      PROVE  InTurn(r)'
  BY <1>1, TurnKept DEF InTurn
<1>2. CASE G_AdvanceMapRotation
  <2>1. at'.rotation = current /\ at'.index = nodes[current] /\ UNCHANGED <<rotations, nodes, played>>
    BY <1>2 DEF G_AdvanceMapRotation, Walk
  <2> QED
    BY <2>1, TurnKept DEF InTurn
<1>3. CASE ExitLevel
  BY <1>1, <1>2, <1>3 DEF ExitLevel, ExitToNextMap, ExitToPlayMap, ExitToSameMap, ExitToRotation,
     Issue, Idle
<1>4. CASE Step
  BY <1>4, StepInTurn DEF Step
<1>5. CASE NewLevel
  BY <1>1, <1>5 DEF NewLevel, Idle
<1>6. CASE Svcmd
  BY <1>1, <1>2, <1>6 DEF Svcmd, Svcmd_MapRotation_f, G_StopMapRotation, Idle
<1>7. CASE PlayersAct
  BY <1>1, <1>7 DEF PlayersAct, rotationVars, Idle
<1>8. CASE UNCHANGED vars
  BY <1>8, TurnKept DEF vars, rotationVars, InTurn
<1> QED
  BY <1>3, <1>4, <1>5, <1>6, <1>7, <1>8 DEF Next

-----------------------------------------------------------------------------
(* The ring. *)

\* Between two levels the head advances at most once, so that nothing wraps.
Size(q) == q.tail - q.head + 1

Ring(q) ==
  /\ q \in [playMap : [Slots -> Entry \cup {Empty}], head : {0, 1}, tail : {-1} \cup Slots]
  /\ Size(q) \in 0..(M - 1)
  /\ \A s \in q.head..q.tail : q.playMap[s] \in Entry \ {Empty}

LEMMA MFacts == M \in Nat /\ M > 1 /\ Slots = 0..(M - 1) /\ 0 \in Slots /\ 1 \in Slots
BY QueueAssumption DEF M, Slots

LEMMA RemFacts ==
  /\ \A n \in 0..(M - 1) : Rem(n) = n
  /\ Rem(-1) = -1
<1>1. ASSUME NEW n \in 0..(M - 1) PROVE Rem(n) = n
  <2>1. n % M = n
    BY MFacts, ModSame
  <2> QED
    BY <2>1, MFacts DEF Rem
<1>2. 1 % M = 1
  BY MFacts, ModSame
<1>3. Rem(-1) = -(1 % M)
  BY DEF Rem
<1> QED
  BY <1>1, <1>2, <1>3

LEMMA RingFacts ==
  ASSUME NEW q, Ring(q)
  PROVE  /\ q.head \in {0, 1} /\ q.tail \in {-1} \cup Slots
         /\ q.playMap \in [Slots -> Entry \cup {Empty}]
         /\ Size(q) \in 0..(M - 1) /\ q.tail = q.head + Size(q) - 1
         /\ G_GetPlayMapQueueLength(q) = Size(q)
         /\ Indices(q) = 0..(Size(q) - 1)
         /\ \A i \in 0..(M - 2) : Slot(q, i) = q.head + i /\ Slot(q, i) \in Slots
         /\ \A i \in Indices(q) : Nth(q, i) = q.playMap[q.head + i] /\ Nth(q, i) \in Entry \ {Empty}
         /\ Queued(q) = [i \in 1..Size(q) |-> Nth(q, i - 1)]
         /\ Queued(q) \in Seq(Entry) /\ Len(Queued(q)) = Size(q)
<1>1. /\ q.head \in {0, 1} /\ q.tail \in {-1} \cup Slots
      /\ q.playMap \in [Slots -> Entry \cup {Empty}]
      /\ Size(q) \in 0..(M - 1)
  BY DEF Ring
<1>2. q.tail = q.head + Size(q) - 1 /\ q.head \in Int /\ q.tail \in Int /\ Size(q) \in Int
  BY <1>1, MFacts DEF Size
<1>3. G_GetPlayMapQueueLength(q) = Size(q)
  BY <1>1, RemFacts DEF Size, G_GetPlayMapQueueLength
<1>4. Indices(q) = 0..(Size(q) - 1)
  BY <1>3 DEF Indices
<1>5. ASSUME NEW i \in 0..(M - 2) PROVE Slot(q, i) = q.head + i /\ Slot(q, i) \in Slots
  <2>1. q.head + i \in 0..(M - 1)
    BY <1>1, MFacts
  <2> QED
    BY <2>1, RemFacts, MFacts DEF Slot, PLAYMAP_QUEUE_ADD
<1>6. ASSUME NEW i \in Indices(q)
      PROVE  Nth(q, i) = q.playMap[q.head + i] /\ Nth(q, i) \in Entry \ {Empty}
  <2>1. i \in 0..(M - 2) /\ q.head + i \in q.head..q.tail
    BY <1>1, <1>2, <1>4, MFacts
  <2>2. Slot(q, i) = q.head + i
    BY <1>5, <2>1
  <2>3. q.playMap[q.head + i] \in Entry \ {Empty}
    BY <2>1 DEF Ring
  <2> QED
    BY <2>2, <2>3 DEF Nth
<1>7. Queued(q) = [i \in 1..Size(q) |-> Nth(q, i - 1)]
  BY <1>3 DEF Queued
<1>8. \A i \in 1..Size(q) : Nth(q, i - 1) \in Entry
  <2>1. \A i \in 1..Size(q) : i - 1 \in Indices(q)
    BY <1>2, <1>4
  <2> QED
    BY <1>6, <2>1
<1>9. Queued(q) \in Seq(Entry) /\ Len(Queued(q)) = Size(q)
  BY <1>1, <1>7, <1>8
<1> QED
  BY <1>1, <1>2, <1>3, <1>4, <1>5, <1>6, <1>7, <1>9

\* Removing an entry closes the gap.
LEMMA RemoveFacts ==
  ASSUME NEW q, Ring(q), NEW index \in Indices(q)
  PROVE  LET r == G_RemoveFromPlayMapQueue(q, index)
         IN /\ Ring(r) /\ r.head = q.head /\ Size(r) = Size(q) - 1
            /\ \A i \in Indices(r) : Nth(r, i) = IF i < index THEN Nth(q, i) ELSE Nth(q, i + 1)
<1> DEFINE r == G_RemoveFromPlayMapQueue(q, index)
           last == G_GetPlayMapQueueLength(q) - 1
           moved == {Slot(q, i) : i \in index..(last - 1)}
           shifted == [s \in Slots |-> IF s \in moved THEN q.playMap[PLAYMAP_QUEUE_ADD(s, 1)]
                                       ELSE q.playMap[s]]
           playMap == IF index < last THEN [shifted EXCEPT ![q.tail] = Empty] ELSE q.playMap
           tail == PLAYMAP_QUEUE_ADD(q.tail, -1)
<1>1. /\ q.head \in {0, 1} /\ q.head \in Int /\ Size(q) \in Int /\ q.tail \in Slots /\ q.tail \in Int
      /\ q.playMap \in [Slots -> Entry \cup {Empty}] /\ index \in Int
      /\ Size(q) \in 1..(M - 1) /\ q.tail = q.head + Size(q) - 1 /\ last = Size(q) - 1
      /\ index \in 0..(Size(q) - 1)
  <2>1. index \in 0..(Size(q) - 1) /\ Size(q) \in 0..(M - 1) /\ q.head \in {0, 1}
        /\ q.tail = q.head + Size(q) - 1 /\ q.tail \in {-1} \cup Slots
    BY RingFacts
  <2>2. Size(q) \in 1..(M - 1) /\ q.tail \in 0..(M - 1)
    BY <2>1, MFacts
  <2> QED
    BY <2>1, <2>2, RingFacts, MFacts
<1>2. tail = q.tail - 1
  <2>1. q.tail - 1 \in 0..(M - 1) \/ q.tail - 1 = -1
    BY <1>1, MFacts
  <2> QED
    BY <1>1, <2>1, RemFacts DEF PLAYMAP_QUEUE_ADD
<1>3. \A s \in Slots : s \in moved <=> s \in (q.head + index)..(q.tail - 1)
  <2>1. \A i \in index..(last - 1) : i \in 0..(M - 2) /\ i \in Int
    BY <1>1, MFacts
  <2>2. \A i \in index..(last - 1) : Slot(q, i) = q.head + i
    BY <2>1, RingFacts
  <2> SUFFICES ASSUME NEW s \in Slots
               PROVE  s \in moved <=> s \in (q.head + index)..(q.tail - 1)
    OBVIOUS
  <2>3. ASSUME s \in moved PROVE s \in (q.head + index)..(q.tail - 1)
    BY <1>1, <2>1, <2>2, <2>3
  <2>4. ASSUME s \in (q.head + index)..(q.tail - 1) PROVE s \in moved
    <3>1. s - q.head \in index..(last - 1) /\ s = q.head + (s - q.head)
      BY <1>1, <2>4, MFacts
    <3> QED
      BY <2>2, <3>1
  <2> QED
    BY <2>3, <2>4
<1>4. \A s \in Slots : shifted[s] = IF s \in (q.head + index)..(q.tail - 1) THEN q.playMap[s + 1] ELSE q.playMap[s]
  <2> HIDE DEF moved
  <2>1. \A s \in (q.head + index)..(q.tail - 1) : s + 1 \in 0..(M - 1) /\ s \in Int
    BY <1>1, MFacts
  <2>2. \A s \in (q.head + index)..(q.tail - 1) : PLAYMAP_QUEUE_ADD(s, 1) = s + 1
    BY <2>1, RemFacts DEF PLAYMAP_QUEUE_ADD
  <2> QED
    BY <1>3, <2>2
<1>5. shifted \in [Slots -> Entry \cup {Empty}]
  <2> HIDE DEF moved
  <2>1. \A s \in Slots : shifted[s] \in Entry \cup {Empty}
    <3>1. \A s \in (q.head + index)..(q.tail - 1) : s + 1 \in Slots
      BY <1>1, MFacts
    <3> HIDE DEF shifted
    <3> QED
      BY <1>1, <1>4, <3>1
  <2> QED
    BY <2>1
<1>6. r = [q EXCEPT !.playMap = playMap, !.tail = tail]
  BY DEF G_RemoveFromPlayMapQueue
<1> HIDE DEF moved, shifted
<1>7. playMap \in [Slots -> Entry \cup {Empty}]
  BY <1>1, <1>5
<1>8. \A s \in q.head..(q.tail - 1) :
        playMap[s] = IF s < q.head + index THEN q.playMap[s] ELSE q.playMap[s + 1]
  <2> SUFFICES ASSUME NEW s \in q.head..(q.tail - 1)
               PROVE  playMap[s] = IF s < q.head + index THEN q.playMap[s] ELSE q.playMap[s + 1]
    OBVIOUS
  <2>1. s \in Slots /\ s \in Int /\ s # q.tail
    BY <1>1, MFacts
  <2>2. CASE index < last
    <3>1. playMap[s] = shifted[s]
      BY <1>5, <2>1, <2>2
    <3> QED
      BY <1>1, <1>4, <2>1, <3>1
  <2>3. CASE ~(index < last)
    BY <1>1, <2>1, <2>3
  <2> QED
    BY <2>2, <2>3
<1> HIDE DEF playMap, tail, r
<1>9. q \in [playMap : [Slots -> Entry \cup {Empty}], head : {0, 1}, tail : {-1} \cup Slots]
  BY DEF Ring
<1>10. /\ r \in [playMap : [Slots -> Entry \cup {Empty}], head : {0, 1}, tail : {-1} \cup Slots]
       /\ r.head = q.head /\ r.tail = q.tail - 1 /\ r.playMap = playMap
  <2>1. tail \in {-1} \cup Slots
    BY <1>1, <1>2, MFacts
  <2> QED
    BY <1>2, <1>6, <1>7, <1>9, <2>1
<1>11. Size(r) = Size(q) - 1 /\ Size(r) \in 0..(M - 1)
  <2>1. Size(r) = r.tail - r.head + 1
    BY DEF Size
  <2> QED
    BY <1>1, <1>10, <2>1, MFacts
<1>12. \A s \in q.head..q.tail : q.playMap[s] \in Entry \ {Empty}
  BY DEF Ring
<1>13. \A s \in r.head..r.tail : r.playMap[s] \in Entry \ {Empty}
  <2>1. \A s \in q.head..(q.tail - 1) : s \in q.head..q.tail /\ s + 1 \in q.head..q.tail
    BY <1>1
  <2> QED
    BY <1>8, <1>10, <1>12, <2>1
<1>14. Ring(r)
  BY <1>10, <1>11, <1>13 DEF Ring
<1>15. ASSUME NEW i \in Indices(r)
       PROVE  Nth(r, i) = IF i < index THEN Nth(q, i) ELSE Nth(q, i + 1)
  <2>1. i \in 0..(Size(q) - 2)
    BY <1>11, <1>14, RingFacts
  <2>2. Nth(r, i) = playMap[q.head + i]
    BY <1>10, <1>14, RingFacts
  <2>3. q.head + i \in q.head..(q.tail - 1) /\ (q.head + i < q.head + index <=> i < index)
        /\ i \in 0..(Size(q) - 1) /\ i + 1 \in 0..(Size(q) - 1) /\ q.head + i + 1 = q.head + (i + 1)
    BY <1>1, <2>1
  <2>4. Nth(q, i) = q.playMap[q.head + i] /\ Nth(q, i + 1) = q.playMap[q.head + (i + 1)]
    BY <2>3, RingFacts
  <2> QED
    BY <1>8, <2>2, <2>3, <2>4
<1> QED
  BY <1>10, <1>11, <1>14, <1>15 DEF r

\* The same of the list of what is queued.
LEMMA RemoveQueued ==
  ASSUME NEW q, Ring(q), NEW index \in Indices(q)
  PROVE  LET r == G_RemoveFromPlayMapQueue(q, index)
         IN /\ Ring(r) /\ r.head = q.head /\ Size(r) = Size(q) - 1
            /\ \A j \in 1..Size(r) :
                 Queued(r)[j] = IF j <= index THEN Queued(q)[j] ELSE Queued(q)[j + 1]
<1> DEFINE r == G_RemoveFromPlayMapQueue(q, index)
<1>1. /\ Ring(r) /\ r.head = q.head /\ Size(r) = Size(q) - 1
      /\ \A i \in Indices(r) : Nth(r, i) = IF i < index THEN Nth(q, i) ELSE Nth(q, i + 1)
  BY RemoveFacts
<1> HIDE DEF r
<1>2. /\ Indices(r) = 0..(Size(r) - 1) /\ Queued(r) = [i \in 1..Size(r) |-> Nth(r, i - 1)]
      /\ Indices(q) = 0..(Size(q) - 1) /\ Queued(q) = [i \in 1..Size(q) |-> Nth(q, i - 1)]
      /\ Size(q) \in Int /\ Size(r) \in Int /\ index \in Int
  BY <1>1, RingFacts
<1>3. ASSUME NEW j \in 1..Size(r)
      PROVE  Queued(r)[j] = IF j <= index THEN Queued(q)[j] ELSE Queued(q)[j + 1]
  <2>1. /\ j - 1 \in Indices(r) /\ j \in 1..Size(q) /\ j + 1 \in 1..Size(q)
        /\ (j - 1 < index <=> j <= index) /\ (j - 1) + 1 = (j + 1) - 1
    BY <1>1, <1>2
  <2>2. Queued(r)[j] = Nth(r, j - 1)
    BY <1>2
  <2>3. Nth(r, j - 1) = IF j - 1 < index THEN Nth(q, j - 1) ELSE Nth(q, (j - 1) + 1)
    BY <1>1, <2>1
  <2>4. Queued(q)[j] = Nth(q, j - 1) /\ Queued(q)[j + 1] = Nth(q, (j + 1) - 1)
    BY <1>2, <2>1
  <2> QED
    BY <2>1, <2>2, <2>3, <2>4
<1> QED
  BY <1>1, <1>3 DEF r

\* Nobody waits for two maps, and no map is waited for twice.
OneEach(s) ==
  \A i, j \in DOMAIN s : i # j => s[i].map # s[j].map /\ s[i].owner # s[j].owner

\* What an owner waits for is taken out, and nothing else.
LEMMA WithoutFacts ==
  ASSUME NEW q, Ring(q), OneEach(Queued(q)), NEW owner
  PROVE  LET r == WithoutOwner(q, owner)
         IN /\ Ring(r) /\ r.head = q.head /\ Size(r) <= Size(q)
            /\ \/ r = q /\ \A j \in 1..Size(q) : Queued(q)[j].owner # owner
               \/ \E k \in 1..Size(q) :
                    /\ Queued(q)[k].owner = owner
                    /\ Size(r) = Size(q) - 1
                    /\ \A j \in 1..Size(r) :
                         Queued(r)[j] = IF j < k THEN Queued(q)[j] ELSE Queued(q)[j + 1]
<1> DEFINE his == {i \in Indices(q) : Nth(q, i).owner = owner}
<1>1. /\ Indices(q) = 0..(Size(q) - 1) /\ Queued(q) = [i \in 1..Size(q) |-> Nth(q, i - 1)]
      /\ Size(q) \in Int
  BY RingFacts
<1>2. CASE his = {}
  <2>1. WithoutOwner(q, owner) = q
    BY <1>2 DEF WithoutOwner
  <2>2. \A j \in 1..Size(q) : Queued(q)[j].owner # owner
    <3> SUFFICES ASSUME NEW j \in 1..Size(q), Queued(q)[j].owner = owner PROVE FALSE
      OBVIOUS
    <3>1. j - 1 \in Indices(q) /\ Nth(q, j - 1).owner = owner
      BY <1>1
    <3> QED
      BY <1>2, <3>1
  <2> QED
    BY <1>1, <2>1, <2>2
<1>3. CASE his # {}
  <2>1. PICK i \in his : TRUE
    BY <1>3
  <2>2. ASSUME NEW j \in his PROVE j = i
    <3>1. /\ i \in Indices(q) /\ j \in Indices(q) /\ i \in Int /\ j \in Int
          /\ Nth(q, i).owner = owner /\ Nth(q, j).owner = owner
      BY <1>1, <2>1, <2>2
    <3>2. i + 1 \in 1..Size(q) /\ j + 1 \in 1..Size(q) /\ (i + 1) - 1 = i /\ (j + 1) - 1 = j
      BY <1>1, <3>1
    <3>3. Queued(q)[i + 1].owner = Queued(q)[j + 1].owner
      BY <1>1, <3>1, <3>2
    <3>4. i + 1 = j + 1
      BY <1>1, <3>2, <3>3 DEF OneEach
    <3> QED
      BY <3>1, <3>4
  <2>3. i \in Indices(q) /\ i \in Int /\ Nth(q, i).owner = owner
    BY <1>1, <2>1
  <2> DEFINE first == CHOOSE n \in his : \A j \in his : n <= j
  <2>4. first = i
    <3>1. \A j \in his : i <= j
      BY <2>2, <2>3
    <3>2. first \in his
      BY <2>1, <3>1
    <3> QED
      BY <2>2, <3>2
  <2>5. WithoutOwner(q, owner) = G_RemoveFromPlayMapQueue(q, first)
    BY <1>3 DEF WithoutOwner
  <2> HIDE DEF first, his
  <2> DEFINE r == G_RemoveFromPlayMapQueue(q, i)
  <2>6. /\ Ring(r) /\ r.head = q.head /\ Size(r) = Size(q) - 1
        /\ \A j \in 1..Size(r) :
             Queued(r)[j] = IF j <= i THEN Queued(q)[j] ELSE Queued(q)[j + 1]
    BY <2>3, RemoveQueued
  <2> HIDE DEF r
  <2>7. i + 1 \in 1..Size(q) /\ (i + 1) - 1 = i
    BY <1>1, <2>3
  <2>8. Queued(q)[i + 1].owner = owner
    BY <1>1, <2>3, <2>7
  <2>9. \A j \in 1..Size(r) :
          Queued(r)[j] = IF j < i + 1 THEN Queued(q)[j] ELSE Queued(q)[j + 1]
    BY <2>3, <2>6
  <2>10. WithoutOwner(q, owner) = r
    BY <2>4, <2>5 DEF r
  <2>11. \E k \in 1..Size(q) :
           /\ Queued(q)[k].owner = owner
           /\ Size(r) = Size(q) - 1
           /\ \A j \in 1..Size(r) :
                Queued(r)[j] = IF j < k THEN Queued(q)[j] ELSE Queued(q)[j + 1]
    BY <2>6, <2>7, <2>8, <2>9, Zenon
  <2>12. Size(r) <= Size(q)
    BY <1>1, <2>6
  <2> QED
    BY <2>6, <2>10, <2>11, <2>12, Zenon
<1> QED
  BY <1>2, <1>3

\* A map that is not refused goes to the end, behind what is left.
LEMMA EnqueueFacts ==
  ASSUME NEW q, Ring(q), OneEach(Queued(q)), NEW entry \in Entry, ~Refused(q, entry)
  PROVE  LET room == WithoutOwner(q, entry.owner)
             e == G_PlayMapEnqueue(q, entry)
         IN /\ Ring(e) /\ e.head = q.head /\ Size(e) = Size(room) + 1
            /\ Queued(e) = Append(Queued(room), entry)
<1> DEFINE room == WithoutOwner(q, entry.owner)
           end == PLAYMAP_QUEUE_ADD(room.tail, 1)
           e == [room EXCEPT !.tail = end, !.playMap[end] = entry]
<1>1. Ring(room) /\ room.head = q.head /\ Size(room) <= Size(q)
  BY WithoutFacts
<1>2. G_PlayMapEnqueue(q, entry) = e
  BY DEF G_PlayMapEnqueue
<1> HIDE DEF room
<1>3. /\ room.head \in {0, 1} /\ room.tail \in {-1} \cup Slots
      /\ room.playMap \in [Slots -> Entry \cup {Empty}]
      /\ Size(room) \in 0..(M - 1) /\ room.tail = room.head + Size(room) - 1
      /\ room \in [playMap : [Slots -> Entry \cup {Empty}], head : {0, 1}, tail : {-1} \cup Slots]
      /\ \A s \in room.head..room.tail : room.playMap[s] \in Entry \ {Empty}
  BY <1>1, RingFacts DEF Ring
<1>4. Size(room) \in 0..(M - 2) /\ entry # Empty
  <2>1. Size(q) < M - 1 /\ entry # Empty
    BY RingFacts, MFacts DEF Refused, Full
  <2>2. Size(q) \in Int
    BY RingFacts
  <2> QED
    BY <1>1, <1>3, <2>1, <2>2, MFacts
<1>5. room.tail + 1 \in 0..(M - 1) /\ room.tail \in Int
  BY <1>3, <1>4, MFacts
<1>6. end = room.tail + 1 /\ end \in Slots
  BY <1>5, RemFacts, MFacts DEF PLAYMAP_QUEUE_ADD
<1> HIDE DEF end
<1> DEFINE playMap == [room.playMap EXCEPT ![end] = entry]
<1>7. playMap \in [Slots -> Entry \cup {Empty}]
  BY <1>3, <1>6
<1>8. e = [room EXCEPT !.tail = end, !.playMap = playMap]
  BY <1>3
<1> HIDE DEF e
<1>9. /\ e \in [playMap : [Slots -> Entry \cup {Empty}], head : {0, 1}, tail : {-1} \cup Slots]
      /\ e.head = room.head /\ e.tail = end /\ e.playMap = playMap
  <2> HIDE DEF playMap
  <2> QED
    BY <1>3, <1>6, <1>7, <1>8
<1>10. Size(e) = Size(room) + 1 /\ Size(e) \in 0..(M - 1)
  <2>1. Size(e) = e.tail - e.head + 1
    BY DEF Size
  <2> QED
    BY <1>3, <1>4, <1>6, <1>9, <2>1, MFacts
<1>11. \A s \in room.head..room.tail : playMap[s] = room.playMap[s] /\ s # end
  <2>1. \A s \in room.head..room.tail : s \in Slots /\ s # end
    BY <1>3, <1>5, <1>6, MFacts
  <2> QED
    BY <1>3, <2>1
<1>12. playMap[end] = entry
  BY <1>3, <1>6
<1>13. Ring(e)
  <2>1. \A s \in e.head..e.tail : e.playMap[s] \in Entry \ {Empty}
    <3>1. \A s \in e.head..e.tail : s \in room.head..room.tail \/ s = end
      BY <1>3, <1>5, <1>6, <1>9
    <3> HIDE DEF playMap
    <3> QED
      BY <1>3, <1>4, <1>9, <1>11, <1>12, <3>1
  <2> QED
    BY <1>9, <1>10, <2>1 DEF Ring
<1> HIDE DEF playMap
<1>14. Queued(e) = Append(Queued(room), entry)
  <2>1. /\ Queued(e) = [i \in 1..Size(e) |-> Nth(e, i - 1)]
        /\ Queued(room) = [i \in 1..Size(room) |-> Nth(room, i - 1)]
        /\ Queued(room) \in Seq(Entry) /\ Len(Queued(room)) = Size(room)
        /\ Indices(e) = 0..(Size(e) - 1) /\ Indices(room) = 0..(Size(room) - 1)
        /\ Queued(e) \in Seq(Entry) /\ Len(Queued(e)) = Size(e)
    BY <1>1, <1>13, RingFacts
  <2>2. ASSUME NEW i \in 1..Size(room) PROVE Queued(e)[i] = Queued(room)[i]
    <3>1. i - 1 \in Indices(e) /\ i - 1 \in Indices(room) /\ room.head + (i - 1) \in room.head..room.tail
          /\ i \in 1..Size(e)
      BY <1>3, <1>10, <2>1
    <3>2. Nth(e, i - 1) = e.playMap[e.head + (i - 1)] /\ Nth(room, i - 1) = room.playMap[room.head + (i - 1)]
      BY <1>1, <1>13, <3>1, RingFacts
    <3>3. Nth(e, i - 1) = Nth(room, i - 1)
      BY <1>9, <1>11, <3>1, <3>2
    <3> QED
      BY <2>1, <3>1, <3>3
  <2>3. Queued(e)[Size(room) + 1] = entry
    <3>1. Size(room) \in Indices(e) /\ Size(room) + 1 \in 1..Size(e) /\ e.head + Size(room) = end
          /\ (Size(room) + 1) - 1 = Size(room)
      BY <1>3, <1>6, <1>9, <1>10, <2>1
    <3>2. Nth(e, Size(room)) = e.playMap[e.head + Size(room)]
      BY <1>13, <3>1, RingFacts
    <3> QED
      BY <1>9, <1>12, <2>1, <3>1, <3>2
  <2> DEFINE s == Queued(room)
             t == Queued(e)
  <2>4. /\ s \in Seq(Entry) /\ t \in Seq(Entry) /\ Len(t) = Len(s) + 1
        /\ \A i \in 1..Len(s) : t[i] = s[i]
        /\ t[Len(s) + 1] = entry
    BY <1>10, <2>1, <2>2, <2>3
  <2> HIDE DEF s, t
  <2>5. t = Append(s, entry)
    BY <2>4
  <2> QED
    BY <2>5 DEF s, t
<1> QED
  BY <1>1, <1>2, <1>9, <1>10, <1>13, <1>14 DEF room

-----------------------------------------------------------------------------
(* Loops over the entries, which are folds. *)

\* Induction, over a set.
LEMMA SetInduction ==
  ASSUME NEW T, 0 \in T, \A n \in Nat : n \in T => n + 1 \in T
  PROVE  \A n \in Nat : n \in T
<1> SUFFICES ASSUME Nat \ T # {} PROVE FALSE
  OBVIOUS
<1>1. PICK n \in Nat \ T : \A k \in Nat \ T : ~(<<k, n>> \in OpToRel(<, Nat))
  BY NatLessThanWellFounded, WFMin
<1>2. n \in Nat /\ n \notin T /\ n # 0 /\ n - 1 \in Nat
  OBVIOUS
<1>3. <<n - 1, n>> \in OpToRel(<, Nat)
  <2>1. n - 1 < n
    BY <1>2
  <2> QED
    BY <1>2, <2>1, Zenon DEF OpToRel
<1>4. n - 1 \in T
  BY <1>1, <1>2, <1>3, Zenon
<1>5. (n - 1) + 1 \in T
  BY <1>2, <1>4
<1> QED
  BY <1>2, <1>5

LEMMA MaxIsLast ==
  ASSUME NEW n \in Nat, NEW s \in SUBSET (1..(n + 1)), n + 1 \in s
  PROVE  Max(s) = n + 1
<1>1. \A x \in s : x \in Int /\ x <= n + 1
  OBVIOUS
<1>2. \A x \in s : (\A y \in s : x >= y) => x = n + 1
  BY <1>1
<1>3. \A y \in s : n + 1 >= y
  BY <1>1
<1> QED
  BY <1>2, <1>3 DEF Max

\* The loop of G_ValidatePlayMapQueue, one entry after the other.
Checked(c) ==
  IF Nth(c.q, c.i).owner \in there \cup {Console}
  THEN [c EXCEPT !.i = @ + 1]
  ELSE [c EXCEPT !.q = G_RemoveFromPlayMapQueue(@, c.i)]

LEMMA ValidateFold ==
  ASSUME NEW q, NEW n \in Nat, G_GetPlayMapQueueLength(q) = n
  PROVE  \E c : /\ c[0] = [q |-> q, i |-> 0]
                /\ \A k \in 1..n : c[k] = Checked(c[k - 1])
                /\ G_ValidatePlayMapQueue(q) = c[n].q
<1> DEFINE base == [q |-> q, i |-> 0]
           Fold(g, D) == g = [s \in SUBSET D |-> IF s = {} THEN base ELSE Checked(g[s \ {Max(s)}])]
           Exists(k) == \E g : Fold(g, 1..k)
           T == {k \in Nat : Exists(k)}
<1>1. 0 \in T
  <2> DEFINE g == [s \in SUBSET (1..0) |-> base]
  <2>1. \A s \in SUBSET (1..0) : s = {}
    OBVIOUS
  <2>2. Fold(g, 1..0)
    BY <2>1
  <2> QED
    BY <2>2
<1>2. ASSUME NEW k \in Nat, k \in T PROVE k + 1 \in T
  <2>1. PICK g : Fold(g, 1..k)
    BY <1>2
  <2> DEFINE h == [s \in SUBSET (1..(k + 1)) |->
                     IF k + 1 \in s THEN Checked(g[s \ {k + 1}]) ELSE g[s]]
  <2>2. \A s \in SUBSET (1..(k + 1)) : k + 1 \notin s => s \in SUBSET (1..k)
    OBVIOUS
  <2>3. \A s \in SUBSET (1..(k + 1)) : /\ s \ {k + 1} \in SUBSET (1..k)
                                      /\ s \ {k + 1} \in SUBSET (1..(k + 1))
    OBVIOUS
  <2>4. \A s \in SUBSET (1..k) : h[s] = g[s]
    OBVIOUS
  <2>5. ASSUME NEW s \in SUBSET (1..(k + 1))
        PROVE  h[s] = IF s = {} THEN base ELSE Checked(h[s \ {Max(s)}])
    <3>1. CASE k + 1 \in s
      <4>1. Max(s) = k + 1 /\ s # {}
        BY <3>1, MaxIsLast
      <4>2. h[s] = Checked(g[s \ {k + 1}]) /\ h[s \ {k + 1}] = g[s \ {k + 1}]
        BY <2>3, <2>4, <3>1
      <4> HIDE DEF h
      <4> QED
        BY <4>1, <4>2
    <3>2. CASE k + 1 \notin s
      <4>1. s \in SUBSET (1..k) /\ s \ {Max(s)} \in SUBSET (1..k)
        BY <2>2, <3>2
      <4>2. g[s] = IF s = {} THEN base ELSE Checked(g[s \ {Max(s)}])
        BY <2>1, <4>1
      <4>3. h[s] = g[s] /\ h[s \ {Max(s)}] = g[s \ {Max(s)}]
        BY <2>4, <4>1
      <4> HIDE DEF h
      <4> QED
        BY <4>2, <4>3
    <3> QED
      BY <3>1, <3>2
  <2>6. Fold(h, 1..(k + 1))
    <3>1. h = [s \in SUBSET (1..(k + 1)) |-> h[s]]
      OBVIOUS
    <3> HIDE DEF h
    <3> QED
      BY <2>5, <3>1
  <2> HIDE DEF h
  <2>7. Exists(k + 1)
    BY <2>6
  <2> HIDE DEF Exists
  <2> QED
    BY <2>7
<1>3. n \in T
  <2> HIDE DEF T
  <2> QED
    BY <1>1, <1>2, SetInduction
<1> DEFINE g == CHOOSE g : Fold(g, 1..n)
<1>4. Fold(g, 1..n)
  BY <1>3
<1>5. G_ValidatePlayMapQueue(q) = g[1..n].q
  BY DEF G_ValidatePlayMapQueue, FoldLeft, MapThenFoldSet, Checked
<1> HIDE DEF g
<1> DEFINE c == [k \in 0..n |-> g[1..k]]
<1>6. c[0] = base
  <2>1. 1..0 = {} /\ {} \in SUBSET (1..n)
    OBVIOUS
  <2> QED
    BY <1>4, <2>1
<1>7. ASSUME NEW k \in 1..n PROVE c[k] = Checked(c[k - 1])
  <2>1. 1..k \in SUBSET (1..n) /\ 1..k # {} /\ (1..k) \ {k} = 1..(k - 1) /\ k - 1 \in Nat
    OBVIOUS
  <2>2. Max(1..k) = k
    <3>1. 1..k \in SUBSET (1..((k - 1) + 1)) /\ (k - 1) + 1 \in 1..k /\ (k - 1) + 1 = k
      OBVIOUS
    <3> QED
      BY <2>1, <3>1, MaxIsLast
  <2>3. g[1..k] = Checked(g[1..(k - 1)])
    BY <1>4, <2>1, <2>2
  <2> QED
    BY <2>3
<1>8. c[n] = g[1..n]
  OBVIOUS
<1> HIDE DEF c
<1> QED
  BY <1>5, <1>6, <1>7, <1>8

\* The loop of G_ReloadPlayMapQueue.
LEMMA ReloadFold ==
  ASSUME NEW saved, NEW n \in Nat, DOMAIN saved = 1..n
  PROVE  \E c : /\ c[0] = G_InitPlayMapQueue
                /\ \A k \in 1..n : c[k] = G_PlayMapEnqueue(c[k - 1], saved[k])
                /\ G_ReloadPlayMapQueue(saved) = c[n]
<1> DEFINE base == G_InitPlayMapQueue
           Fold(g, D) == g = [s \in SUBSET D |-> IF s = {} THEN base
                                                ELSE G_PlayMapEnqueue(g[s \ {Max(s)}], saved[Max(s)])]
           Exists(k) == \E g : Fold(g, 1..k)
           T == {k \in Nat : Exists(k)}
<1>1. 0 \in T
  <2> DEFINE g == [s \in SUBSET (1..0) |-> base]
  <2>1. \A s \in SUBSET (1..0) : s = {}
    OBVIOUS
  <2>2. Fold(g, 1..0)
    BY <2>1
  <2> QED
    BY <2>2
<1>2. ASSUME NEW k \in Nat, k \in T PROVE k + 1 \in T
  <2>1. PICK g : Fold(g, 1..k)
    BY <1>2
  <2> DEFINE h == [s \in SUBSET (1..(k + 1)) |->
                     IF k + 1 \in s THEN G_PlayMapEnqueue(g[s \ {k + 1}], saved[k + 1]) ELSE g[s]]
  <2>2. \A s \in SUBSET (1..(k + 1)) : k + 1 \notin s => s \in SUBSET (1..k)
    OBVIOUS
  <2>3. \A s \in SUBSET (1..(k + 1)) : /\ s \ {k + 1} \in SUBSET (1..k)
                                      /\ s \ {k + 1} \in SUBSET (1..(k + 1))
    OBVIOUS
  <2>4. \A s \in SUBSET (1..k) : h[s] = g[s]
    OBVIOUS
  <2>5. ASSUME NEW s \in SUBSET (1..(k + 1))
        PROVE  h[s] = IF s = {} THEN base ELSE G_PlayMapEnqueue(h[s \ {Max(s)}], saved[Max(s)])
    <3>1. CASE k + 1 \in s
      <4>1. Max(s) = k + 1 /\ s # {}
        BY <3>1, MaxIsLast
      <4>2. h[s] = G_PlayMapEnqueue(g[s \ {k + 1}], saved[k + 1]) /\ h[s \ {k + 1}] = g[s \ {k + 1}]
        BY <2>3, <2>4, <3>1
      <4> HIDE DEF h
      <4> QED
        BY <4>1, <4>2
    <3>2. CASE k + 1 \notin s
      <4>1. s \in SUBSET (1..k) /\ s \ {Max(s)} \in SUBSET (1..k)
        BY <2>2, <3>2
      <4>2. g[s] = IF s = {} THEN base ELSE G_PlayMapEnqueue(g[s \ {Max(s)}], saved[Max(s)])
        BY <2>1, <4>1
      <4>3. h[s] = g[s] /\ h[s \ {Max(s)}] = g[s \ {Max(s)}]
        BY <2>4, <4>1
      <4> HIDE DEF h
      <4> QED
        BY <4>2, <4>3
    <3> QED
      BY <3>1, <3>2
  <2>6. Fold(h, 1..(k + 1))
    <3>1. h = [s \in SUBSET (1..(k + 1)) |-> h[s]]
      OBVIOUS
    <3> HIDE DEF h
    <3> QED
      BY <2>5, <3>1
  <2> HIDE DEF h
  <2>7. Exists(k + 1)
    BY <2>6
  <2> HIDE DEF Exists
  <2> QED
    BY <2>7
<1>3. n \in T
  <2> HIDE DEF T
  <2> QED
    BY <1>1, <1>2, SetInduction
<1> DEFINE g == CHOOSE g : Fold(g, 1..n)
<1>4. Fold(g, 1..n)
  BY <1>3
<1>5. G_ReloadPlayMapQueue(saved) = g[1..n]
  BY DEF G_ReloadPlayMapQueue, FoldLeft, MapThenFoldSet
<1> HIDE DEF g
<1> DEFINE c == [k \in 0..n |-> g[1..k]]
<1>6. c[0] = base
  <2>1. 1..0 = {} /\ {} \in SUBSET (1..n)
    OBVIOUS
  <2> QED
    BY <1>4, <2>1
<1>7. ASSUME NEW k \in 1..n PROVE c[k] = G_PlayMapEnqueue(c[k - 1], saved[k])
  <2>1. 1..k \in SUBSET (1..n) /\ 1..k # {} /\ (1..k) \ {k} = 1..(k - 1) /\ k - 1 \in Nat
    OBVIOUS
  <2>2. Max(1..k) = k
    <3>1. 1..k \in SUBSET (1..((k - 1) + 1)) /\ (k - 1) + 1 \in 1..k /\ (k - 1) + 1 = k
      OBVIOUS
    <3> QED
      BY <2>1, <3>1, MaxIsLast
  <2>3. g[1..k] = G_PlayMapEnqueue(g[1..(k - 1)], saved[k])
    BY <1>4, <2>1, <2>2
  <2> QED
    BY <2>3
<1>8. c[n] = g[1..n]
  OBVIOUS
<1> HIDE DEF c
<1> QED
  BY <1>5, <1>6, <1>7, <1>8

-----------------------------------------------------------------------------
(* What is left of the queue. *)

\* The list t is what is left of the list s, through from.
Through(from, t, s, kept) ==
  /\ from \in [1..Len(t) -> 1..Len(s)]
  /\ {from[i] : i \in 1..Len(t)} = kept
  /\ \A i \in 1..Len(t) : t[i] = s[from[i]]
  /\ \A i, j \in 1..Len(t) : i < j => from[i] < from[j]

\* The places of those who are not gone.
Here(s) == {i \in 1..Len(s) : s[i].owner \in there \cup {Console}}

\* After k entries of q: those before i have been looked at and are kept, and the
\* rest is still as it was.
Looked(q, r, i, f, k) ==
  /\ Ring(r) /\ r.head = q.head /\ i \in 0..k /\ Size(r) = Size(q) - k + i
  /\ f \in [1..Size(r) -> 1..Size(q)]
  /\ {f[j] : j \in 1..i} = {m \in 1..k : m \in Here(Queued(q))}
  /\ \A j \in 1..Size(r) : Queued(r)[j] = Queued(q)[f[j]]
  /\ \A a, b \in 1..Size(r) : a < b => f[a] < f[b]
  /\ \A j \in 1..Size(r) : j > i => f[j] = j + k - i

LEMMA ValidateStep ==
  ASSUME NEW q, Ring(q), NEW k \in Nat, k < Size(q), NEW r, NEW i, NEW f, Looked(q, r, i, f, k)
  PROVE  \E e, j, g : Checked([q |-> r, i |-> i]) = [q |-> e, i |-> j] /\ Looked(q, e, j, g, k + 1)
<1> DEFINE n == Size(q)
           m == Size(r)
           c == [q |-> r, i |-> i]
           Q == Queued(q)
           H == Here(Q)
<1>1. /\ n \in Nat /\ i \in Nat /\ m \in Nat /\ m = n - k + i /\ i <= k /\ i < m /\ i \in Int
      /\ i + 1 \in 1..m /\ k + 1 \in 1..n /\ (i + 1) - 1 = i
  <2>1. n \in Nat /\ m \in Nat /\ i \in 0..k /\ m = n - k + i
    BY RingFacts DEF Looked
  <2> QED
    BY <2>1
<1>2. /\ Len(Q) = n /\ i \in Indices(r)
      /\ Queued(r) = [j \in 1..m |-> Nth(r, j - 1)]
      /\ Ring(r)
  <2>1. Indices(r) = 0..(m - 1)
    BY RingFacts DEF Looked
  <2>2. i \in Indices(r)
    BY <1>1, <2>1
  <2> QED
    BY <2>2, RingFacts DEF Looked
<1>3. /\ f \in [1..m -> 1..n]
      /\ {f[j] : j \in 1..i} = {l \in 1..k : l \in H}
      /\ \A j \in 1..m : Queued(r)[j] = Q[f[j]]
      /\ \A a, b \in 1..m : a < b => f[a] < f[b]
      /\ \A j \in 1..m : j > i => f[j] = j + k - i
      /\ r.head = q.head
  BY Zenon DEF Looked
<1> HIDE DEF n, m
<1>4. f[i + 1] = k + 1
  <2>1. i + 1 > i
    BY <1>1
  <2>2. f[i + 1] = (i + 1) + k - i
    BY <1>1, <1>3, <2>1
  <2> QED
    BY <1>1, <2>2
<1>5. Nth(r, i) = Q[k + 1]
  <2>1. Queued(r)[i + 1] = Q[k + 1]
    BY <1>1, <1>3, <1>4
  <2> QED
    BY <1>1, <1>2, <2>1
<1>6. k + 1 \in H <=> Nth(r, i).owner \in there \cup {Console}
  BY <1>1, <1>2, <1>5 DEF Here
<1>7. c.q = r /\ c.i = i
  OBVIOUS
<1>8. 1..(k + 1) = (1..k) \cup {k + 1}
  OBVIOUS
<1> HIDE DEF H
<1>9. CASE k + 1 \in H
  <2>1. Checked(c) = [q |-> r, i |-> i + 1]
    BY <1>6, <1>7, <1>9 DEF Checked
  <2>2. {f[j] : j \in 1..(i + 1)} = {l \in 1..(k + 1) : l \in H}
    <3>1. 1..(i + 1) = (1..i) \cup {i + 1}
      BY <1>1
    <3>2. {f[j] : j \in 1..(i + 1)} = {f[j] : j \in 1..i} \cup {f[i + 1]}
      BY <3>1
    <3>3. {l \in 1..(k + 1) : l \in H} = {l \in 1..k : l \in H} \cup {k + 1}
      BY <1>8, <1>9
    <3> QED
      BY <1>3, <1>4, <3>2, <3>3
  <2>3. \A j \in 1..m : j > i + 1 => f[j] = j + (k + 1) - (i + 1)
    <3> SUFFICES ASSUME NEW j \in 1..m, j > i + 1 PROVE f[j] = j + (k + 1) - (i + 1)
      OBVIOUS
    <3>1. j > i /\ j + k - i = j + (k + 1) - (i + 1)
      BY <1>1
    <3> QED
      BY <1>3, <3>1
  <2>4. i + 1 \in 0..(k + 1) /\ m = n - (k + 1) + (i + 1)
    BY <1>1
  <2>5. Looked(q, r, i + 1, f, k + 1)
    BY <1>2, <1>3, <2>2, <2>3, <2>4, Zenon DEF Looked, m, n, H
  <2> QED
    BY <2>1, <2>5
<1>10. CASE k + 1 \notin H
  <2> DEFINE e == G_RemoveFromPlayMapQueue(r, i)
             l == Size(e)
             g == [j \in 1..l |-> IF j <= i THEN f[j] ELSE f[j + 1]]
  <2>1. Checked(c) = [q |-> e, i |-> i]
    BY <1>6, <1>7, <1>10 DEF Checked
  <2>2. /\ Ring(e) /\ e.head = r.head /\ l = m - 1
        /\ \A j \in 1..l : Queued(e)[j] = IF j <= i THEN Queued(r)[j] ELSE Queued(r)[j + 1]
    BY <1>2, RemoveQueued DEF m
  <2> HIDE DEF e, l
  <2>3. \A j \in 1..l : j \in 1..m /\ j + 1 \in 1..m /\ j \in Int
    BY <1>1, <2>2
  <2>4. \A j \in 1..l : g[j] = IF j <= i THEN f[j] ELSE f[j + 1]
    OBVIOUS
  <2>5. g \in [1..l -> 1..n]
    BY <1>3, <2>3
  <2> HIDE DEF g
  <2>6. \A j \in 1..l : Queued(e)[j] = Q[g[j]]
    BY <1>3, <2>2, <2>3, <2>4
  <2>7. \A a, b \in 1..l : a < b => g[a] < g[b]
    <3> SUFFICES ASSUME NEW a \in 1..l, NEW b \in 1..l, a < b PROVE g[a] < g[b]
      OBVIOUS
    <3>1. a \in Int /\ b \in Int
      BY <2>3
    <3>2. a < b + 1 /\ a + 1 < b + 1 /\ (b <= i => a <= i)
      BY <1>1, <3>1
    <3>3. f[a] < f[b] /\ f[a] < f[b + 1] /\ f[a + 1] < f[b + 1]
      BY <1>3, <2>3, <3>2
    <3> QED
      BY <2>4, <3>2, <3>3
  <2>8. \A j \in 1..l : j > i => g[j] = j + (k + 1) - i
    <3> SUFFICES ASSUME NEW j \in 1..l, j > i PROVE g[j] = j + (k + 1) - i
      OBVIOUS
    <3>1. ~(j <= i) /\ j + 1 > i /\ j + 1 \in 1..m /\ (j + 1) + k - i = j + (k + 1) - i
      BY <1>1, <2>3
    <3>2. f[j + 1] = (j + 1) + k - i
      BY <1>3, <3>1
    <3> QED
      BY <2>4, <3>1, <3>2
  <2>9. {g[j] : j \in 1..i} = {o \in 1..(k + 1) : o \in H}
    <3>1. \A j \in 1..i : j \in 1..l /\ j <= i
      BY <1>1, <2>2
    <3>2. \A j \in 1..i : g[j] = f[j]
      BY <2>4, <3>1
    <3>3. {g[j] : j \in 1..i} = {f[j] : j \in 1..i}
      BY <3>2
    <3>4. {o \in 1..(k + 1) : o \in H} = {o \in 1..k : o \in H}
      BY <1>8, <1>10
    <3> QED
      BY <1>3, <3>3, <3>4
  <2>10. i \in 0..(k + 1) /\ l = n - (k + 1) + i
    BY <1>1, <2>2
  <2>11. Looked(q, e, i, g, k + 1)
    BY <1>3, <2>2, <2>5, <2>6, <2>7, <2>8, <2>9, <2>10, Zenon DEF Looked, n, l, H
  <2> QED
    BY <2>1, <2>11
<1> QED
  BY <1>9, <1>10

\* G_ValidatePlayMapQueue leaves those who are there, in their order.
LEMMA ValidateFacts ==
  ASSUME NEW q, Ring(q)
  PROVE  LET v == G_ValidatePlayMapQueue(q)
         IN /\ Ring(v) /\ v.head = q.head
            /\ \E f : Through(f, Queued(v), Queued(q), Here(Queued(q)))
<1> DEFINE n == Size(q)
           v == G_ValidatePlayMapQueue(q)
<1>1. n \in Nat /\ G_GetPlayMapQueueLength(q) = n /\ Len(Queued(q)) = n
  BY RingFacts
<1>2. PICK c : /\ c[0] = [q |-> q, i |-> 0]
               /\ \A k \in 1..n : c[k] = Checked(c[k - 1])
               /\ v = c[n].q
  BY <1>1, ValidateFold
<1> DEFINE Good(k) == \E r, i, f : c[k] = [q |-> r, i |-> i] /\ Looked(q, r, i, f, k)
           T == {k \in Nat : k <= n => Good(k)}
<1> HIDE DEF n, v
<1>3. 0 \in T
  <2> DEFINE f == [j \in 1..n |-> j]
  <2>1. /\ {f[j] : j \in 1..0} = {m \in 1..0 : m \in Here(Queued(q))}
        /\ \A j \in 1..n : f[j] = j /\ j = j + 0 - 0
        /\ f \in [1..n -> 1..n]
        /\ 0 \in 0..0 /\ n = n - 0 + 0
        /\ \A a, b \in 1..n : a < b => f[a] < f[b]
    BY <1>1
  <2> HIDE DEF f
  <2>2. Looked(q, q, 0, f, 0)
    BY <1>1, <2>1 DEF Looked, n
  <2>3. Good(0)
    BY <1>2, <2>2
  <2> HIDE DEF Good
  <2> QED
    BY <2>3
<1>4. ASSUME NEW k \in Nat, k \in T PROVE k + 1 \in T
  <2> SUFFICES ASSUME k + 1 <= n PROVE Good(k + 1)
    OBVIOUS
  <2>1. k < n /\ k <= n /\ k + 1 \in 1..n /\ (k + 1) - 1 = k
    BY <1>1
  <2>2. PICK r, i, f : c[k] = [q |-> r, i |-> i] /\ Looked(q, r, i, f, k)
    BY <1>4, <2>1
  <2>3. c[k + 1] = Checked([q |-> r, i |-> i])
    <3>1. c[k + 1] = Checked(c[(k + 1) - 1])
      BY <1>2, <2>1, Zenon
    <3> QED
      BY <2>1, <2>2, <3>1
  <2>4. \E e, j, g : Checked([q |-> r, i |-> i]) = [q |-> e, i |-> j] /\ Looked(q, e, j, g, k + 1)
    BY <2>1, <2>2, ValidateStep DEF n
  <2> QED
    BY <2>3, <2>4
<1>5. Good(n)
  <2> HIDE DEF Good
  <2>1. \A k \in Nat : k \in T
    <3> HIDE DEF T
    <3> QED
      BY <1>3, <1>4, SetInduction
  <2> QED
    BY <1>1, <2>1
<1>6. PICK r, i, f : c[n] = [q |-> r, i |-> i] /\ Looked(q, r, i, f, n)
  BY <1>5, Zenon
<1>7. v = r
  BY <1>2, <1>6
<1>8. Ring(r) /\ r.head = q.head /\ i \in 0..n /\ Size(r) = n - n + i
  BY <1>6 DEF Looked, n
<1>9. Size(r) = i /\ Len(Queued(r)) = i
  BY <1>1, <1>8, RingFacts
<1>10. {m \in 1..n : m \in Here(Queued(q))} = Here(Queued(q))
  BY <1>1 DEF Here
<1>11. Through(f, Queued(r), Queued(q), Here(Queued(q)))
  BY <1>1, <1>6, <1>9, <1>10, Zenon DEF Through, Looked, n
<1> QED
  BY <1>7, <1>8, <1>11, Zenon DEF v

\* What is left has one map of each as well.
LEMMA OneEachLeft ==
  ASSUME NEW s, NEW t, NEW f, NEW kept, Through(f, t, s, kept),
         DOMAIN s = 1..Len(s), DOMAIN t = 1..Len(t), Len(t) \in Nat, Len(s) \in Nat, OneEach(s)
  PROVE  OneEach(t)
<1> SUFFICES ASSUME NEW i \in DOMAIN t, NEW j \in DOMAIN t, i # j
             PROVE  t[i].map # t[j].map /\ t[i].owner # t[j].owner
  BY DEF OneEach
<1>1. i \in 1..Len(t) /\ j \in 1..Len(t) /\ i \in Int /\ j \in Int /\ (i < j \/ j < i)
  OBVIOUS
<1>2. t[i] = s[f[i]] /\ t[j] = s[f[j]] /\ f[i] \in 1..Len(s) /\ f[j] \in 1..Len(s)
      /\ (i < j => f[i] < f[j]) /\ (j < i => f[j] < f[i])
  BY <1>1 DEF Through
<1>3. f[i] # f[j]
  BY <1>1, <1>2
<1> QED
  BY <1>2, <1>3 DEF OneEach

\* What is saved and reloaded is the same list, in a ring that starts over.
LEMMA ReloadFacts ==
  ASSUME NEW q, Ring(q), Ring(G_ValidatePlayMapQueue(q)), OneEach(Queued(G_ValidatePlayMapQueue(q)))
  PROVE  LET new == G_ReloadPlayMapQueue(G_SavePlayMapQueue(q))
         IN /\ Ring(new) /\ new.head = 0
            /\ Queued(new) = Queued(G_ValidatePlayMapQueue(q))
<1> DEFINE v == G_ValidatePlayMapQueue(q)
           n == Size(v)
           Q == Queued(v)
           saved == G_SavePlayMapQueue(q)
<1>1. /\ n \in Nat /\ n <= M - 1 /\ Q \in Seq(Entry) /\ Len(Q) = n
      /\ Indices(v) = 0..(n - 1)
      /\ Q = [i \in 1..n |-> Nth(v, i - 1)]
      /\ \A i \in Indices(v) : Nth(v, i) # Empty
  BY RingFacts, MFacts
<1>2. saved = [i \in 1..M |-> IF i - 1 \in Indices(v) THEN Nth(v, i - 1) ELSE Empty]
  BY Zenon DEF G_SavePlayMapQueue
<1>3. DOMAIN saved = 1..M /\ M \in Nat
  BY <1>2, MFacts
<1> HIDE DEF saved, v, n, Q
<1>4. \A i \in 1..M : saved[i] = IF i <= n THEN Q[i] ELSE Empty
  <2> SUFFICES ASSUME NEW i \in 1..M PROVE saved[i] = IF i <= n THEN Q[i] ELSE Empty
    OBVIOUS
  <2>1. i - 1 \in Indices(v) <=> i <= n
    BY <1>1
  <2>2. i <= n => Q[i] = Nth(v, i - 1)
    BY <1>1
  <2> QED
    BY <1>2, <2>1, <2>2
<1>5. \A i \in 1..n : Q[i] \in Entry /\ Q[i] # Empty
  <2> SUFFICES ASSUME NEW i \in 1..n PROVE Q[i] \in Entry /\ Q[i] # Empty
    OBVIOUS
  <2>1. i - 1 \in Indices(v) /\ Q[i] = Nth(v, i - 1)
    BY <1>1
  <2> QED
    BY <1>1, <2>1
<1>6. PICK c : /\ c[0] = G_InitPlayMapQueue
               /\ \A k \in 1..M : c[k] = G_PlayMapEnqueue(c[k - 1], saved[k])
               /\ G_ReloadPlayMapQueue(saved) = c[M]
  BY <1>3, ReloadFold
<1> DEFINE Good(k) == /\ Ring(c[k]) /\ c[k].head = 0
                      /\ Size(c[k]) = IF k <= n THEN k ELSE n
                      /\ \A j \in 1..Size(c[k]) : Queued(c[k])[j] = Q[j]
           T == {k \in Nat : k <= M => Good(k)}
<1>7. 0 \in T
  <2>1. /\ G_InitPlayMapQueue \in [playMap : [Slots -> Entry \cup {Empty}], head : {0, 1}, tail : {-1} \cup Slots]
        /\ G_InitPlayMapQueue.head = 0 /\ G_InitPlayMapQueue.tail = -1
    BY DEF G_InitPlayMapQueue
  <2>2. Size(G_InitPlayMapQueue) = 0
    BY <2>1 DEF Size
  <2>3. Ring(G_InitPlayMapQueue)
    BY <2>1, <2>2, MFacts DEF Ring
  <2>4. Good(0)
    BY <1>1, <1>6, <2>1, <2>2, <2>3
  <2> HIDE DEF Good
  <2> QED
    BY <2>4
<1>8. ASSUME NEW k \in Nat, k \in T PROVE k + 1 \in T
  <2> SUFFICES ASSUME k + 1 <= M PROVE Good(k + 1)
    OBVIOUS
  <2> DEFINE r == c[k]
             entry == saved[k + 1]
             e == c[k + 1]
  <2>1. k <= M /\ k + 1 \in 1..M /\ (k + 1) - 1 = k
    BY <1>3
  <2>2. Ring(r) /\ r.head = 0 /\ Size(r) = (IF k <= n THEN k ELSE n) /\ \A j \in 1..Size(r) : Queued(r)[j] = Q[j]
    BY <1>8, <2>1
  <2>3. e = G_PlayMapEnqueue(r, entry)
    <3>1. c[k + 1] = G_PlayMapEnqueue(c[(k + 1) - 1], saved[k + 1])
      BY <1>6, <2>1, Zenon
    <3> QED
      BY <2>1, <3>1
  <2>4. entry = IF k + 1 <= n THEN Q[k + 1] ELSE Empty
    BY <1>4, <2>1
  <2>5. /\ Len(Queued(r)) = Size(r) /\ Queued(r) \in Seq(Entry)
        /\ Indices(r) = 0..(Size(r) - 1) /\ G_GetPlayMapQueueLength(r) = Size(r)
        /\ Queued(r) = [i \in 1..Size(r) |-> Nth(r, i - 1)]
    BY <2>2, RingFacts
  <2> HIDE DEF r, entry, e
  <2>6. CASE k + 1 <= n
    <3>1. k <= n /\ Size(r) = k /\ k + 1 \in 1..n /\ entry = Q[k + 1] /\ entry \in Entry /\ entry # Empty
          /\ \A j \in 1..k : j \in 1..n /\ j # k + 1
      BY <1>1, <1>5, <2>2, <2>4, <2>6
    <3>2. \A j \in 1..k : Queued(r)[j].map # entry.map /\ Queued(r)[j].owner # entry.owner
      <4>1. OneEach(Q) /\ DOMAIN Q = 1..n
        BY <1>1 DEF Q, v
      <4> QED
        BY <2>2, <3>1, <4>1 DEF OneEach
    <3>3. OneEach(Queued(r))
      <4>1. OneEach(Q) /\ DOMAIN Q = 1..n /\ DOMAIN Queued(r) = 1..k
        BY <1>1, <2>5, <3>1 DEF Q, v
      <4> QED
        BY <2>2, <3>1, <4>1 DEF OneEach
    <3>4. ~Refused(r, entry)
      <4>1. ~Full(r)
        BY <1>1, <2>5, <3>1, MFacts DEF Full
      <4>2. ASSUME NEW i \in Indices(r) PROVE Nth(r, i).map # entry.map
        <5>1. i + 1 \in 1..k /\ (i + 1) - 1 = i /\ i + 1 \in 1..Size(r)
          BY <2>5, <3>1
        <5>2. Queued(r)[i + 1] = Nth(r, i)
          BY <2>5, <5>1
        <5> QED
          BY <3>2, <5>1, <5>2
      <4> QED
        BY <3>1, <4>1, <4>2 DEF Refused
    <3> DEFINE room == WithoutOwner(r, entry.owner)
    <3>5. /\ Ring(e) /\ e.head = r.head /\ Size(e) = Size(room) + 1
          /\ Queued(e) = Append(Queued(room), entry)
      BY <2>2, <2>3, <3>1, <3>3, <3>4, EnqueueFacts
    <3>6. room = r
      <4>1. ~ \E j \in 1..Size(r) : Queued(r)[j].owner = entry.owner
        BY <3>1, <3>2
      <4> QED
        BY <2>2, <3>3, <4>1, WithoutFacts
    <3> HIDE DEF room
    <3>7. \A j \in 1..(k + 1) : Queued(e)[j] = Q[j]
      <4>1. \A j \in 1..(k + 1) : Append(Queued(r), entry)[j] = IF j = k + 1 THEN entry ELSE Queued(r)[j]
        BY <2>5, <3>1
      <4>2. \A j \in 1..(k + 1) : j # k + 1 => j \in 1..k
        OBVIOUS
      <4> QED
        BY <2>2, <3>1, <3>5, <3>6, <4>1, <4>2
    <3> QED
      BY <2>2, <2>6, <3>1, <3>5, <3>6, <3>7 DEF e
  <2>7. CASE ~(k + 1 <= n)
    <3>1. entry = Empty
      BY <2>4, <2>7
    <3>2. e = r
      BY <2>3, <3>1 DEF G_PlayMapEnqueue, Refused
    <3>3. Size(r) = n
      BY <1>1, <2>2, <2>7
    <3> QED
      BY <2>2, <2>7, <3>2, <3>3 DEF e
  <2> QED
    BY <2>6, <2>7
<1>9. Good(M)
  <2> HIDE DEF Good
  <2>1. \A k \in Nat : k \in T
    <3> HIDE DEF T
    <3> QED
      BY <1>7, <1>8, SetInduction
  <2> QED
    BY <1>3, <2>1
<1> DEFINE new == c[M]
<1>10. Ring(new) /\ new.head = 0 /\ Size(new) = n /\ \A j \in 1..n : Queued(new)[j] = Q[j]
  <2>1. ~(M <= n) \/ M = n
    BY <1>1, <1>3
  <2>2. (IF M <= n THEN M ELSE n) = n
    BY <2>1
  <2> QED
    BY <1>9, <2>2
<1> HIDE DEF new
<1>11. Queued(new) \in Seq(Entry) /\ Len(Queued(new)) = n
  BY <1>10, RingFacts
<1>12. Queued(new) = Q
  BY <1>1, <1>10, <1>11, SeqEqual
<1> QED
  BY <1>6, <1>10, <1>12 DEF new, saved, Q, v

\* The first entry is taken out.
LEMMA PopFacts ==
  ASSUME NEW q, Ring(q), q.head = 0, Size(q) > 0
  PROVE  LET p == G_PopFromPlayMapQueue(q)
         IN Ring(p) /\ Queued(p) = Tail(Queued(q)) /\ Queued(q) = <<Nth(q, 0)>> \o Queued(p)
<1> DEFINE p == G_PopFromPlayMapQueue(q)
           playMap == [q.playMap EXCEPT ![0] = Empty]
<1>1. /\ Size(q) \in 0..(M - 1) /\ q.tail = Size(q) - 1 /\ q.playMap \in [Slots -> Entry \cup {Empty}]
      /\ q \in [playMap : [Slots -> Entry \cup {Empty}], head : {0, 1}, tail : {-1} \cup Slots]
      /\ \A s \in 0..q.tail : q.playMap[s] \in Entry \ {Empty}
      /\ Size(q) \in 1..(M - 1)
  <2>1. Size(q) \in 0..(M - 1) /\ q.tail = q.head + Size(q) - 1 /\ q.playMap \in [Slots -> Entry \cup {Empty}]
    BY RingFacts
  <2>2. Size(q) \in 1..(M - 1) /\ q.tail = Size(q) - 1
    BY <2>1
  <2> QED
    BY <2>1, <2>2 DEF Ring
<1>2. PLAYMAP_QUEUE_ADD(q.head, 1) = 1
  BY RemFacts, MFacts DEF PLAYMAP_QUEUE_ADD
<1>3. p = [q EXCEPT !.playMap = playMap, !.head = 1]
  BY <1>2 DEF G_PopFromPlayMapQueue
<1>4. playMap \in [Slots -> Entry \cup {Empty}] /\ \A s \in Slots : s # 0 => playMap[s] = q.playMap[s]
  BY <1>1
<1> HIDE DEF playMap, p
<1>5. /\ p \in [playMap : [Slots -> Entry \cup {Empty}], head : {0, 1}, tail : {-1} \cup Slots]
      /\ p.head = 1 /\ p.tail = q.tail /\ p.playMap = playMap
  BY <1>1, <1>3, <1>4
<1>6. Size(p) = Size(q) - 1 /\ Size(p) \in 0..(M - 1)
  <2>1. Size(p) = p.tail - p.head + 1
    BY DEF Size
  <2> QED
    BY <1>1, <1>5, <2>1, MFacts
<1>7. \A s \in 1..q.tail : s \in 0..q.tail /\ s \in Slots /\ s # 0
  BY <1>1, MFacts
<1>8. Ring(p)
  BY <1>1, <1>4, <1>5, <1>6, <1>7 DEF Ring
<1> DEFINE s == Queued(q)
           t == Queued(p)
<1>9. /\ s \in Seq(Entry) /\ t \in Seq(Entry) /\ Len(s) = Size(q) /\ Len(t) = Size(q) - 1
      /\ s = [i \in 1..Size(q) |-> Nth(q, i - 1)] /\ t = [i \in 1..Size(p) |-> Nth(p, i - 1)]
      /\ Indices(q) = 0..(Size(q) - 1) /\ Indices(p) = 0..(Size(p) - 1)
      /\ \A i \in Indices(q) : Nth(q, i) = q.playMap[q.head + i]
      /\ \A i \in Indices(p) : Nth(p, i) = p.playMap[p.head + i]
  BY <1>6, <1>8, RingFacts
<1>10. ASSUME NEW i \in 1..Size(p) PROVE t[i] = s[i + 1]
  <2>1. /\ i - 1 \in Indices(p) /\ i \in Indices(q) /\ i + 1 \in 1..Size(q) /\ (i + 1) - 1 = i
        /\ p.head + (i - 1) = i /\ q.head + i = i /\ i \in 1..q.tail
    BY <1>1, <1>5, <1>6, <1>9
  <2>2. t[i] = p.playMap[i] /\ s[i + 1] = q.playMap[i]
    BY <1>9, <2>1
  <2> QED
    BY <1>4, <1>5, <1>7, <2>1, <2>2
<1>11. s[1] = Nth(q, 0)
  <2>1. 1 \in 1..Size(q) /\ 1 - 1 = 0
    BY <1>1
  <2> QED
    BY <1>9, <2>1
<1>12. s # <<>> /\ Len(s) \in Nat /\ Len(s) = Size(p) + 1 /\ Len(t) = Size(p) /\ Size(p) \in Nat
  BY <1>1, <1>6, <1>9
<1> HIDE DEF s, t
<1>13. t = Tail(s)
  <2>1. Tail(s) \in Seq(Entry) /\ Len(Tail(s)) = Size(p) /\ \A i \in 1..Size(p) : Tail(s)[i] = s[i + 1]
    BY <1>9, <1>12
  <2> QED
    BY <1>9, <1>10, <1>12, <2>1, SeqEqual
<1>14. s = <<Nth(q, 0)>> \o t
  <2> DEFINE x == Nth(q, 0)
  <2>1. x \in Entry
    BY <1>1, <1>9, <1>11, <1>12
  <2> HIDE DEF x
  <2>2. <<x>> \o t \in Seq(Entry) /\ Len(<<x>> \o t) = Size(p) + 1
    BY <1>9, <1>12, <2>1
  <2>3. ASSUME NEW i \in 1..(Size(p) + 1) PROVE s[i] = (<<x>> \o t)[i]
    <3>1. CASE i = 1
      BY <1>9, <1>11, <1>12, <2>1, <3>1 DEF x
    <3>2. CASE i # 1
      <4>1. i - 1 \in 1..Size(p) /\ (i - 1) + 1 = i
        BY <1>12, <3>2
      <4>2. (<<x>> \o t)[i] = t[i - 1]
        BY <1>9, <1>12, <2>1, <4>1
      <4> QED
        BY <1>10, <4>1, <4>2
    <3> QED
      BY <3>1, <3>2
  <2> QED
    BY <1>9, <1>12, <2>2, <2>3, SeqEqual DEF x
<1> QED
  BY <1>8, <1>13, <1>14 DEF p, s, t

-----------------------------------------------------------------------------
(* The queue implements the list. *)

QueueInv ==
  /\ Ring(queue) /\ OneEach(Queued(queue))
  /\ ~restarted => queue.head = 0
  /\ there \subseteq Players

LEMMA ThroughIsLeft ==
  ASSUME Ring(queue), NEW t \in Seq(Entry), NEW f, NEW kept, Through(f, t, Queued(queue), kept)
  PROVE  PL!IsLeft(t, kept)
<1> DEFINE s == Queued(queue)
<1>1. s \in Seq(Entry) /\ DOMAIN s = 1..Len(s)
  BY RingFacts
<1>2. DOMAIN t = 1..Len(t)
  OBVIOUS
<1>3. /\ f \in [1..Len(t) -> 1..Len(s)]
      /\ {f[i] : i \in 1..Len(t)} = kept
      /\ \A i \in 1..Len(t) : t[i] = s[f[i]]
      /\ \A i, j \in 1..Len(t) : i < j => f[i] < f[j]
  BY Zenon DEF Through
<1>4. Entry = PL!Waits
  BY DEF Entry, Owners, PL!Waits
<1> HIDE DEF s
<1>5. f \in [DOMAIN t -> DOMAIN s]
  BY <1>1, <1>2, <1>3
<1>6. PL!Range(f) = kept
  <2>1. DOMAIN f = 1..Len(t)
    BY <1>3
  <2> QED
    BY <1>3, <2>1 DEF PL!Range
<1>7. t \in Seq(PL!Waits)
  BY <1>4
<1> QED
  BY <1>2, <1>3, <1>5, <1>6, <1>7, Zenon DEF PL!IsLeft, s

\* Looking at the queue forgets who is gone, and no one else.
LEMMA ValidIsLeft ==
  ASSUME QueueInv
  PROVE  LET v == G_ValidatePlayMapQueue(queue)
         IN /\ Ring(v) /\ v.head = queue.head /\ OneEach(Queued(v))
            /\ PL!IsLeft(Queued(v), PL!NotGone)
<1> DEFINE v == G_ValidatePlayMapQueue(queue)
<1>1. Ring(queue) /\ OneEach(Queued(queue))
  BY DEF QueueInv
<1>2. Ring(v) /\ v.head = queue.head
  BY <1>1, ValidateFacts
<1>3. PICK f : Through(f, Queued(v), Queued(queue), Here(Queued(queue)))
  BY <1>1, ValidateFacts
<1> HIDE DEF v
<1>4. /\ Queued(v) \in Seq(Entry) /\ Queued(queue) \in Seq(Entry)
      /\ DOMAIN Queued(v) = 1..Len(Queued(v)) /\ DOMAIN Queued(queue) = 1..Len(Queued(queue))
      /\ Len(Queued(v)) \in Nat /\ Len(Queued(queue)) \in Nat
  BY <1>1, <1>2, RingFacts
<1>5. OneEach(Queued(v))
  BY <1>1, <1>3, <1>4, OneEachLeft
<1>6. Here(Queued(queue)) = PL!NotGone
  BY <1>4 DEF Here, PL!NotGone
<1>7. PL!IsLeft(Queued(v), PL!NotGone)
  BY <1>1, <1>3, <1>4, <1>6, ThroughIsLeft
<1> QED
  BY <1>2, <1>5, <1>7 DEF v

\* G_admin_playmap asks for a map, or is refused.
LEMMA PlayMapAsks ==
  ASSUME QueueInv, NEW map \in Pool, NEW owner \in Owners, G_admin_playmap(map, owner), UNCHANGED restarted
  PROVE  QueueInv' /\ [PL!Next]_<<Queued(queue), there>>
<1> DEFINE entry == [map |-> map, owner |-> owner]
           room == WithoutOwner(queue, owner)
           s == Queued(queue)
           t == Queued(room)
<1>1. /\ Ring(queue) /\ OneEach(s) /\ there \subseteq Players /\ there' = there
      /\ queue' = G_PlayMapEnqueue(queue, entry) /\ restarted' = restarted
      /\ entry \in Entry /\ entry.owner = owner /\ entry.map = map
  BY DEF QueueInv, G_admin_playmap, Entry
<1>2. CASE Refused(queue, entry)
  <2>1. queue' = queue
    BY <1>1, <1>2 DEF G_PlayMapEnqueue
  <2>2. UNCHANGED <<Queued(queue), there>>
    BY <1>1, <2>1
  <2>3. Ring(queue)' /\ OneEach(Queued(queue))'
    BY <1>1, <2>1
  <2>4. (~restarted => queue.head = 0)'
    BY <1>1, <2>1 DEF QueueInv
  <2>5. QueueInv'
    BY <1>1, <2>3, <2>4 DEF QueueInv
  <2> QED
    BY <2>2, <2>5
<1>3. CASE ~Refused(queue, entry)
  <2>1. /\ Ring(queue') /\ queue'.head = queue.head
        /\ Queued(queue') = Append(t, entry)
    BY <1>1, <1>3, EnqueueFacts
  <2>2. /\ Ring(room) /\ Size(room) <= Size(queue)
        /\ \/ room = queue /\ \A j \in 1..Size(queue) : s[j].owner # owner
           \/ \E k \in 1..Size(queue) :
                /\ s[k].owner = owner
                /\ Size(room) = Size(queue) - 1
                /\ \A j \in 1..Size(room) : t[j] = IF j < k THEN s[j] ELSE s[j + 1]
    BY <1>1, WithoutFacts
  <2> HIDE DEF room
  <2>3. /\ s \in Seq(Entry) /\ Len(s) = Size(queue) /\ Size(queue) \in Nat
        /\ t \in Seq(Entry) /\ Len(t) = Size(room) /\ Size(room) \in Nat
        /\ DOMAIN s = 1..Len(s) /\ DOMAIN t = 1..Len(t)
    BY <1>1, <2>2, RingFacts
  <2>4. Len(s) < M - 1 /\ \A i \in DOMAIN s : s[i].map # map
    <3>1. Size(queue) < M - 1
      BY <1>1, <1>3, RingFacts, MFacts DEF Refused, Full
    <3>2. /\ Indices(queue) = 0..(Size(queue) - 1) /\ s = [i \in 1..Size(queue) |-> Nth(queue, i - 1)]
      BY <1>1, RingFacts
    <3>3. \A i \in Indices(queue) : Nth(queue, i).map # map
      BY <1>1, <1>3 DEF Refused
    <3>4. ASSUME NEW i \in 1..Size(queue) PROVE s[i].map # map
      <4>1. i - 1 \in Indices(queue) /\ s[i] = Nth(queue, i - 1)
        BY <2>3, <3>2
      <4> QED
        BY <3>3, <4>1
    <3> QED
      BY <2>3, <3>1, <3>4
  <2>5. \E f : Through(f, t, s, {i \in DOMAIN s : s[i].owner # owner})
    <3>1. CASE room = queue /\ \A j \in 1..Size(queue) : s[j].owner # owner
      <4> DEFINE f == [j \in 1..Len(s) |-> j]
      <4>1. /\ f \in [1..Len(s) -> 1..Len(s)] /\ {f[i] : i \in 1..Len(s)} = 1..Len(s)
            /\ \A i \in 1..Len(s) : f[i] = i
            /\ \A i, j \in 1..Len(s) : i < j => f[i] < f[j]
        OBVIOUS
      <4> HIDE DEF f
      <4>2. t = s /\ {i \in DOMAIN s : s[i].owner # owner} = 1..Len(s)
        BY <2>3, <3>1
      <4>3. Through(f, s, s, 1..Len(s))
        BY <4>1 DEF Through
      <4> QED
        BY <4>2, <4>3
    <3>2. ASSUME NEW k \in 1..Size(queue), s[k].owner = owner, Size(room) = Size(queue) - 1,
                 \A j \in 1..Size(room) : t[j] = IF j < k THEN s[j] ELSE s[j + 1]
          PROVE  \E f : Through(f, t, s, {i \in DOMAIN s : s[i].owner # owner})
      <4> DEFINE f == [j \in 1..Len(t) |-> IF j < k THEN j ELSE j + 1]
                 kept == {i \in DOMAIN s : s[i].owner # owner}
      <4>1. \A i \in DOMAIN s : i # k => s[i].owner # owner
        BY <1>1, <2>3, <3>2 DEF OneEach
      <4>2. kept = (1..Len(s)) \ {k}
        BY <2>3, <3>2, <4>1
      <4> HIDE DEF kept, s, t
      <4>3. Len(t) = Len(s) - 1 /\ Len(s) \in Nat /\ k \in 1..Len(s) /\ Len(t) \in Nat
        BY <2>3, <3>2
      <4>4. /\ \A j \in 1..Len(t) : f[j] = IF j < k THEN j ELSE j + 1
            /\ f \in [1..Len(t) -> 1..Len(s)]
        BY <4>3
      <4> HIDE DEF f
      <4>5. {f[i] : i \in 1..Len(t)} = (1..Len(s)) \ {k}
        <5>1. ASSUME NEW i \in 1..Len(t) PROVE f[i] \in (1..Len(s)) \ {k}
          BY <4>3, <4>4
        <5>2. ASSUME NEW n \in (1..Len(s)) \ {k} PROVE \E i \in 1..Len(t) : f[i] = n
          <6>1. CASE n < k
            <7>1. n \in 1..Len(t) /\ f[n] = n
              BY <4>3, <4>4, <6>1
            <7> QED
              BY <7>1
          <6>2. CASE ~(n < k)
            <7>1. n - 1 \in 1..Len(t) /\ ~(n - 1 < k) /\ (n - 1) + 1 = n
              BY <4>3, <6>2
            <7>2. f[n - 1] = n
              BY <4>4, <7>1
            <7> QED
              BY <7>1, <7>2
          <6> QED
            BY <6>1, <6>2
        <5> QED
          BY <5>1, <5>2
      <4>6. \A i \in 1..Len(t) : t[i] = s[f[i]]
        BY <2>3, <3>2, <4>4
      <4>7. \A i, j \in 1..Len(t) : i < j => f[i] < f[j]
        BY <4>3, <4>4
      <4>8. Through(f, t, s, kept)
        BY <4>2, <4>4, <4>5, <4>6, <4>7 DEF Through
      <4> QED
        BY <4>8 DEF kept
    <3> QED
      BY <2>2, <3>1, <3>2
  <2>6. PICK f : Through(f, t, s, {i \in DOMAIN s : s[i].owner # owner})
    BY <2>5
  <2>7. PL!IsLeft(t, {i \in DOMAIN s : s[i].owner # owner})
    BY <1>1, <2>3, <2>6, ThroughIsLeft
  <2>8. OneEach(t)
    BY <1>1, <2>3, <2>6, OneEachLeft
  <2>9. \A j \in 1..Len(t) : t[j].owner # owner /\ t[j].map # map
    <3> SUFFICES ASSUME NEW j \in 1..Len(t) PROVE t[j].owner # owner /\ t[j].map # map
      OBVIOUS
    <3>1. t[j] = s[f[j]] /\ f[j] \in {i \in DOMAIN s : s[i].owner # owner}
      BY <2>6 DEF Through
    <3> QED
      BY <2>4, <3>1
  <2> DEFINE u == Append(t, entry)
  <2>10. /\ u \in Seq(Entry) /\ Len(u) = Len(t) + 1 /\ u # <<>>
         /\ u[Len(u)] = entry /\ \A j \in 1..Len(t) : u[j] = t[j]
         /\ SubSeq(u, 1, Len(u) - 1) = t
         /\ DOMAIN u = 1..(Len(t) + 1)
    <3>1. t \in Seq(Entry) /\ entry \in Entry
      BY <1>1, <2>3
    <3> HIDE DEF t, entry
    <3>2. u \in Seq(Entry) /\ Len(u) = Len(t) + 1 /\ u[Len(t) + 1] = entry
          /\ \A j \in 1..Len(t) : u[j] = t[j]
      BY <3>1
    <3>3. SubSeq(u, 1, Len(t)) = t
      <4> DEFINE front == SubSeq(u, 1, Len(t))
      <4> HIDE DEF u
      <4>1. front \in Seq(Entry) /\ Len(front) = Len(t) /\ \A j \in 1..Len(t) : front[j] = u[j]
        BY <3>1, <3>2
      <4> HIDE DEF front
      <4>2. front = t
        BY <3>1, <3>2, <4>1, SeqEqual
      <4> QED
        BY <4>2 DEF front
    <3> HIDE DEF u
    <3>4. Len(u) - 1 = Len(t) /\ u # <<>> /\ DOMAIN u = 1..(Len(t) + 1)
      BY <3>1, <3>2
    <3> QED
      BY <3>2, <3>3, <3>4
  <2>11. OneEach(u)
    <3> SUFFICES ASSUME NEW i \in 1..(Len(t) + 1), NEW j \in 1..(Len(t) + 1), i # j
                 PROVE  u[i].map # u[j].map /\ u[i].owner # u[j].owner
      BY <2>10 DEF OneEach
    <3> HIDE DEF u, entry, s, t
    <3>1. CASE i \in 1..Len(t) /\ j \in 1..Len(t)
      <4>1. u[i] = t[i] /\ u[j] = t[j] /\ i \in DOMAIN t /\ j \in DOMAIN t
        BY <2>3, <2>10, <3>1
      <4> QED
        BY <2>8, <4>1 DEF OneEach
    <3>2. CASE i \notin 1..Len(t)
      <4>1. i = Len(t) + 1 /\ j \in 1..Len(t)
        BY <2>3, <3>2
      <4> QED
        BY <1>1, <2>9, <2>10, <4>1
    <3>3. CASE j \notin 1..Len(t)
      <4>1. j = Len(t) + 1 /\ i \in 1..Len(t)
        BY <2>3, <3>3
      <4> QED
        BY <1>1, <2>9, <2>10, <4>1
    <3> QED
      BY <3>1, <3>2, <3>3
  <2> HIDE DEF u
  <2>12. Queued(queue)' = u /\ Queued(queue') = u
    BY <2>1 DEF u
  <2>13. QueueInv'
    <3>1. Ring(queue)' /\ OneEach(Queued(queue))'
      BY <2>1, <2>11, <2>12
    <3> QED
      BY <1>1, <2>1, <3>1 DEF QueueInv
  <2>14. PL!Ask(map, owner)
    <3>1. PL!Front(u) = t /\ PL!Last(u) = entry
      BY <2>10 DEF PL!Front, PL!Last
    <3>2. Len(s) < MAX_PLAYMAP_QUEUE_ENTRIES - 1
      BY <2>4 DEF M
    <3> HIDE DEF entry, t
    <3> QED
      BY <1>1, <2>4, <2>7, <2>10, <2>12, <3>1, <3>2 DEF PL!Ask, entry
  <2> QED
    BY <2>13, <2>14 DEF PL!Next, Owners
<1> QED
  BY <1>2, <1>3

LEMMA QueueNext ==
  ASSUME QueueInv, restarted \in BOOLEAN, [Next]_vars
  PROVE  /\ QueueInv' /\ restarted' \in BOOLEAN
         /\ [PL!Next]_<<Queued(queue), there>>
<1> DEFINE v == G_ValidatePlayMapQueue(queue)
<1>1. /\ Ring(v) /\ v.head = queue.head /\ OneEach(Queued(v))
      /\ PL!IsLeft(Queued(v), PL!NotGone)
  BY ValidIsLeft
<1>2. Ring(queue) /\ OneEach(Queued(queue)) /\ (~restarted => queue.head = 0) /\ there \subseteq Players
  BY DEF QueueInv
<1>3. ASSUME queue' = queue, there' \subseteq Players, restarted' = restarted \/ restarted' = TRUE
      PROVE  QueueInv' /\ [PL!Next]_<<Queued(queue), there>>
  <2>1. Ring(queue)' /\ OneEach(Queued(queue))' /\ Queued(queue)' = Queued(queue)
    BY <1>2, <1>3
  <2>2. QueueInv'
    BY <1>2, <1>3, <2>1 DEF QueueInv
  <2>3. PL!ComeAndGo
    BY <1>3, <2>1 DEF PL!ComeAndGo
  <2> QED
    BY <2>2, <2>3 DEF PL!Next
<1>4. ASSUME ExitToPlayMap, ~restarted, restarted' = TRUE, there' = there
      PROVE  QueueInv' /\ PL!PlayFirst
  <2> DEFINE p == G_PopFromPlayMapQueue(v)
             first == Nth(v, 0)
  <2>1. Size(v) > 0 /\ v.head = 0 /\ Size(v) \in Nat /\ 0 \in Indices(v)
    <3>1. G_GetPlayMapQueueLength(v) = Size(v) /\ Indices(v) = 0..(Size(v) - 1) /\ Size(v) \in Nat
      BY <1>1, RingFacts
    <3>2. Size(v) > 0
      BY <1>4, <3>1 DEF ExitToPlayMap, G_PlayMapActive
    <3>3. 0 \in Indices(v)
      BY <3>1, <3>2
    <3> QED
      BY <1>1, <1>2, <1>4, <3>1, <3>2, <3>3
  <2>2. queue' = p /\ issued' = first.map
    BY <1>4 DEF ExitToPlayMap, Issue
  <2>3. Ring(p) /\ Queued(p) = Tail(Queued(v)) /\ Queued(v) = <<first>> \o Queued(p)
    BY <1>1, <2>1, PopFacts
  <2>4. first \in Entry
    BY <1>1, <2>1, RingFacts
  <2> HIDE DEF p, first, v
  <2>5. OneEach(Queued(p))
    <3> DEFINE s == Queued(v)
               t == Queued(p)
    <3>1. t = Tail(s) /\ OneEach(s) /\ s \in Seq(Entry) /\ t \in Seq(Entry) /\ s # <<>>
      <4>1. Len(s) = Size(v) /\ s \in Seq(Entry) /\ t \in Seq(Entry)
        BY <1>1, <2>3, RingFacts
      <4> QED
        BY <1>1, <2>1, <2>3, <4>1
    <3> HIDE DEF s, t
    <3>2. \A i \in DOMAIN t : i \in Int /\ i + 1 \in DOMAIN s /\ t[i] = s[i + 1]
      BY <3>1
    <3>3. OneEach(t)
      <4> SUFFICES ASSUME NEW i \in DOMAIN t, NEW j \in DOMAIN t, i # j
                   PROVE  t[i].map # t[j].map /\ t[i].owner # t[j].owner
        BY DEF OneEach
      <4>1. i + 1 # j + 1
        BY <3>2
      <4> QED
        BY <3>1, <3>2, <4>1 DEF OneEach
    <3> QED
      BY <3>3 DEF t
  <2>6. QueueInv'
    <3>1. Ring(queue)' /\ OneEach(Queued(queue))'
      BY <2>2, <2>3, <2>5
    <3> QED
      BY <1>2, <1>4, <3>1 DEF QueueInv
  <2>7. PL!PlayFirst
    <3>1. first \in PL!Waits
      BY <2>4 DEF Entry, Owners, PL!Waits
    <3>2. PL!IsLeft(<<first>> \o Queued(queue)', PL!NotGone)
      BY <1>1, <2>2, <2>3
    <3> QED
      BY <1>4, <2>2, <3>1, <3>2 DEF PL!PlayFirst
  <2> QED
    BY <2>6, <2>7
<1>5. ASSUME queue' = v, ~restarted, restarted' = TRUE, there' = there
      PROVE  QueueInv' /\ PL!ForgetTheGone
  <2>1. Ring(queue)' /\ OneEach(Queued(queue))' /\ Queued(queue)' = Queued(v)
    BY <1>1, <1>5
  <2>2. QueueInv'
    BY <1>2, <1>5, <2>1 DEF QueueInv
  <2>3. PL!ForgetTheGone
    BY <1>1, <1>5, <2>1 DEF PL!ForgetTheGone
  <2> QED
    BY <2>2, <2>3
<1>6. CASE ExitLevel
  <2>1. ~restarted /\ restarted' = TRUE /\ there' = there
    BY <1>6 DEF ExitLevel
  <2>2. CASE ExitToNextMap
    BY <1>2, <1>3, <2>1, <2>2 DEF ExitToNextMap
  <2>3. CASE ExitToPlayMap
    BY <1>4, <2>1, <2>3 DEF PL!Next
  <2>4. CASE ExitToRotation \/ ExitToSameMap
    <3>1. queue' = v \/ queue' = queue
      BY <2>4 DEF ExitToRotation, ExitToSameMap, NoPlayMap
    <3> QED
      BY <1>2, <1>3, <1>5, <2>1, <3>1 DEF PL!Next
  <2> QED
    BY <1>6, <2>1, <2>2, <2>3, <2>4 DEF ExitLevel
<1>7. CASE Step
  BY <1>2, <1>3, <1>7 DEF Step
<1>8. CASE NewLevel
  <2> DEFINE new == G_ReloadPlayMapQueue(G_SavePlayMapQueue(queue))
  <2>1. queue' = new /\ there' = there /\ restarted' = FALSE
    BY <1>8 DEF NewLevel, SaveAndReload
  <2>2. Ring(new) /\ new.head = 0 /\ Queued(new) = Queued(v)
    BY <1>1, <1>2, ReloadFacts
  <2> HIDE DEF new, v
  <2>3. Ring(queue)' /\ OneEach(Queued(queue))' /\ Queued(queue)' = Queued(v)
    BY <1>1, <2>1, <2>2
  <2>4. QueueInv'
    BY <1>2, <2>1, <2>2, <2>3 DEF QueueInv
  <2>5. PL!ForgetTheGone
    BY <1>1, <2>1, <2>3 DEF PL!ForgetTheGone
  <2> QED
    BY <2>1, <2>4, <2>5 DEF PL!Next
<1>9. CASE Svcmd
  BY <1>2, <1>3, <1>9 DEF Svcmd
<1>10. CASE PlayersAct
  <2>1. restarted' = restarted
    BY <1>10 DEF PlayersAct
  <2>2. CASE \E map \in Pool, owner \in Owners : G_admin_playmap(map, owner)
    BY <2>1, <2>2, PlayMapAsks
  <2>3. CASE \E p \in Players : ClientConnect(p) \/ ClientDisconnect(p)
    <3>1. queue' = queue /\ there' \subseteq Players
      BY <1>2, <2>3 DEF ClientConnect, ClientDisconnect
    <3> QED
      BY <1>3, <2>1, <3>1
  <2> QED
    BY <1>10, <2>1, <2>2, <2>3 DEF PlayersAct
<1>11. CASE UNCHANGED vars
  BY <1>2, <1>3, <1>11 DEF vars
<1>12. restarted' \in BOOLEAN
  BY DEF Next, ExitLevel, Step, NewLevel, Svcmd, PlayersAct, vars
<1> QED
  BY <1>6, <1>7, <1>8, <1>9, <1>10, <1>11, <1>12 DEF Next

\* The map command names a map that exists.
LEMMA IssuedNext ==
  ASSUME QueueInv, RotationTypeOK, [Next]_vars
  PROVE  issued' \in Maps \cup {NoMap}
<1>1. issued \in Maps \cup {NoMap}
  BY DEF RotationTypeOK
<1>2. CASE ExitToPlayMap
  <2> DEFINE v == G_ValidatePlayMapQueue(queue)
  <2>1. Ring(v)
    BY ValidIsLeft
  <2>2. G_GetPlayMapQueueLength(v) = Size(v) /\ Indices(v) = 0..(Size(v) - 1) /\ Size(v) \in 0..(M - 1)
    BY <2>1, RingFacts
  <2>3. issued' = Nth(v, 0).map /\ G_GetPlayMapQueueLength(v) > 0
    BY <1>2 DEF ExitToPlayMap, Issue, G_PlayMapActive
  <2> HIDE DEF v
  <2>4. 0 \in Indices(v)
    BY <2>2, <2>3, MFacts
  <2>5. Nth(v, 0) \in Entry
    BY <2>1, <2>4, RingFacts
  <2> QED
    BY <2>3, <2>5, PoolAssumption DEF Entry
<1>3. CASE ExitLevel
  BY <1>1, <1>2, <1>3
     DEF ExitLevel, ExitToNextMap, ExitToSameMap, ExitToRotation, Issue, G_AdvanceMapRotation
<1>4. CASE Step
  <2>1. CASE IssueMapChange
    <3>1. at.walking /\ node.type = "NT_MAP" /\ issued' = node.name
      BY <2>1 DEF IssueMapChange
    <3>2. at.rotation \in Rotations /\ at.index \in DOMAIN rotations[at.rotation] /\ rotations \in Files
      BY <3>1, WalkingType
    <3>3. node.name \in Maps
      BY <3>1, <3>2, FileFacts DEF node
    <3> QED
      BY <3>1, <3>3
  <2> QED
    BY <1>1, <1>4, <2>1
       DEF Step, G_StepMapRotation, GiveUp, Skip, Return, JumpToRotation, JumpToPlace
<1>5. CASE NewLevel
  BY <1>5 DEF NewLevel
<1>6. CASE Svcmd
  BY <1>1, <1>6 DEF Svcmd, Svcmd_MapRotation_f, G_StopMapRotation, G_AdvanceMapRotation
<1>7. CASE PlayersAct
  BY <1>1, <1>7 DEF PlayersAct, rotationVars
<1>8. CASE UNCHANGED vars
  BY <1>1, <1>8 DEF vars, rotationVars
<1> QED
  BY <1>3, <1>4, <1>5, <1>6, <1>7, <1>8 DEF Next

-----------------------------------------------------------------------------
(* The theorems. *)

\* The inductive invariant.
LevelInv ==
  /\ RotationTypeOK
  /\ QueueInv
  /\ restarted \in BOOLEAN
  /\ \A r \in Rotations : InTurn(r)

LEMMA InitLevel == Init => LevelInv /\ PL!Init
<1> SUFFICES ASSUME Init PROVE LevelInv /\ PL!Init
  OBVIOUS
<1>1. RotationTypeOK
  <2>1. rotations \in Files
    BY DEF Init, RotationInit
  <2>2. \A r \in Rotations : Len(rotations[r]) \in Nat \ {0}
    BY <2>1, FileFacts
  <2> QED
    BY <2>2, DepthAssumption DEF Init, RotationInit, RotationTypeOK
<1>2. queue = G_InitPlayMapQueue /\ there = {} /\ restarted = FALSE
  BY DEF Init, QueueInit
<1>3. /\ G_InitPlayMapQueue \in [playMap : [Slots -> Entry \cup {Empty}], head : {0, 1}, tail : {-1} \cup Slots]
      /\ G_InitPlayMapQueue.head = 0 /\ G_InitPlayMapQueue.tail = -1
  BY DEF G_InitPlayMapQueue
<1>4. Size(queue) = 0
  BY <1>2, <1>3 DEF Size
<1>5. Ring(queue)
  BY <1>2, <1>3, <1>4, MFacts DEF Ring
<1>6. Queued(queue) = <<>>
  <2>1. Len(Queued(queue)) = 0 /\ Queued(queue) \in Seq(Entry)
    BY <1>4, <1>5, RingFacts
  <2> QED
    BY <2>1
<1>7. OneEach(Queued(queue))
  BY <1>6 DEF OneEach
<1>8. QueueInv
  BY <1>2, <1>3, <1>5, <1>7 DEF QueueInv
<1>9. \A r \in Rotations : InTurn(r)
  BY DEF Init, RotationInit, InTurn
<1> QED
  BY <1>1, <1>2, <1>6, <1>8, <1>9 DEF LevelInv, PL!Init

LEMMA NextLevel == LevelInv /\ [Next]_vars => LevelInv'
<1> SUFFICES ASSUME LevelInv, [Next]_vars PROVE LevelInv'
  OBVIOUS
<1>1. RotationTypeOK /\ QueueInv /\ restarted \in BOOLEAN /\ \A r \in Rotations : InTurn(r)
  BY DEF LevelInv
<1>2. QueueInv' /\ restarted' \in BOOLEAN
  BY <1>1, QueueNext
<1>3. RotationTypeOK'
  BY <1>1, IssuedNext, RotationTypeNext
<1>4. \A r \in Rotations : InTurn(r)'
  BY <1>1, <1>3, NextInTurn
<1> QED
  BY <1>2, <1>3, <1>4 DEF LevelInv

\* Whatever the rotations jump and the players ask for, a rotation that is only
\* resumed met no map since its last, and the ring holds a list.
THEOREM LevelInvariant == Spec => []LevelInv
<1>1. Init => LevelInv
  BY InitLevel
<1> QED
  BY <1>1, NextLevel, PTL DEF Spec

\* The walk stays within the file and its limit of steps, the stack within the
\* string it is kept in, and the ends of the queue within the ring.
THEOREM LevelTypeCorrect == Spec => []TypeOK
<1>1. LevelInv => TypeOK
  <2> SUFFICES ASSUME LevelInv PROVE TypeOK
    OBVIOUS
  <2>1. RotationTypeOK /\ restarted \in BOOLEAN /\ Ring(queue) /\ there \subseteq Players
    BY DEF LevelInv, QueueInv
  <2>2. queue \in [playMap : [Slots -> Entry \cup {Empty}], head : {0, 1}, tail : {-1} \cup Slots]
    BY <2>1 DEF Ring
  <2>3. {0, 1} \subseteq Slots
    BY MFacts
  <2>4. QueueTypeOK
    BY <2>1, <2>2, <2>3 DEF QueueTypeOK
  <2> QED
    BY <2>1, <2>4 DEF TypeOK
<1> QED
  BY <1>1, LevelInvariant, PTL

\* The maps of an orderly rotation are played in turn: when one is played, every
\* map of the rotation between the last one it played and this one is this one
\* (G_SetCurrentNodeByIndex before every jump and every map).
THEOREM LevelPlayedInTurn == Spec => PlayedInTurn
<1>1. LevelInv => [\A r \in Rotations :
         Orderly(r) /\ issued' # issued /\ at.walking /\ at.rotation = r /\ played[r] # 0
         => LET ahead(i) == (i - played[r] - 1) % Len(rotations[r])
            IN \A i \in DOMAIN rotations[r] :
                 ahead(i) < ahead(at.index) => rotations[r][i].type # "NT_MAP"]_vars
  BY DEF LevelInv, InTurn, NoMapBefore, Ahead
<1> QED
  BY <1>1, LevelInvariant, PTL DEF PlayedInTurn

\* The ring in the game module, saved into the server and built anew by every
\* level, keeps the promise of the list: the maps the players asked for are
\* played in their order and none is lost but with its player.
THEOREM LevelKeepsPromise == Spec => KeepsPromise
<1>1. Init => PL!Init
  BY InitLevel
<1>2. LevelInv /\ [Next]_vars => [PL!Next]_<<Queued(queue), there>>
  BY QueueNext DEF LevelInv
<1> QED
  BY <1>1, <1>2, LevelInvariant, PTL DEF Spec, KeepsPromise, PL!Spec
=============================================================================
