----------------------------- MODULE MapRotation -----------------------------
(***************************************************************************)
(* The map rotations: lists of maps, labels and jumps that are walked from *)
(* where each was left until a map is found.  A jump into another rotation *)
(* puts the one it leaves on a stack, and return goes back to it.          *)
(*                                                                         *)
(* G_StepMapRotation and G_AdvanceMapRotation call each other, but nothing *)
(* is done after such a call returns, so a walk is a place that moves: at. *)
(* Nodes are counted from 1.  The file of rotations is given; it is one    *)
(* that G_ParseMapRotationFile accepts.                                    *)
(***************************************************************************)
EXTENDS Integers, Sequences, SequencesExt

CONSTANTS
  Rotations,      \* their names
  Files,          \* the files, each a list of nodes for every rotation
  Maps,           \* the maps that exist
  NOT_ROTATING,
  NoMap,
  WarnDepth,      \* steps of a walk until only maps are looked at: 32
  StopDepth,      \* steps of a walk until it is given up: 64
  StackSize       \* rotations that fit into g_mapRotationStack

VARIABLES
  rotations,      \* the file
  current,        \* g_currentMapRotation
  nodes,          \* g_mapRotationNodes, the current node of each rotation
  stack,          \* g_mapRotationStack
  at,             \* the walk
  issued,         \* the map command given and not yet executed
  played          \* history: the node each rotation played last, 0 for none

rotationVars == <<rotations, current, nodes, stack, at, issued, played>>

-----------------------------------------------------------------------------
(* Values. *)

\* A condition is kept with the node at the end of its chain, which it guards:
\* a jump, as G_ParseNode makes of whatever follows.
Jumps == {"NT_GOTO", "NT_RESUME", "NT_RETURN"}
NodeTypes == Jumps \cup {"NT_MAP", "NT_LABEL"}
Nodes == [type : NodeTypes, name : STRING, conditional : BOOLEAN]

\* What G_ParseMapRotationFile demands of a file.
ParseMapRotationFile(file) ==
  \A r \in Rotations :
    /\ \E i \in DOMAIN file[r] : file[r][i].type = "NT_MAP"
    /\ \A i \in DOMAIN file[r] :
         LET node == file[r][i]
         IN /\ node.type = "NT_MAP" => node.name \in Maps
            /\ node.conditional => node.type \in Jumps
            /\ node.type \in {"NT_GOTO", "NT_RESUME"} =>
                 \/ node.name \in Rotations
                 \/ \E j \in DOMAIN file[r] :
                      file[r][j].type \in {"NT_MAP", "NT_LABEL"} /\ file[r][j].name = node.name

ASSUME FileAssumption ==
  /\ NOT_ROTATING \notin Rotations /\ NoMap \notin Maps
  /\ \A file \in Files : file \in [Rotations -> Seq(Nodes)] /\ ParseMapRotationFile(file)
ASSUME DepthAssumption ==
  /\ WarnDepth \in Nat /\ StopDepth \in Nat /\ WarnDepth <= StopDepth
  /\ StackSize \in Nat \ {0}

Still == [walking |-> FALSE, rotation |-> NOT_ROTATING, index |-> 0, depth |-> 0]

RotationTypeOK ==
  /\ rotations \in Files
  /\ current \in Rotations \cup {NOT_ROTATING}
  /\ nodes \in [Rotations -> Nat] /\ \A r \in Rotations : nodes[r] \in 1..Len(rotations[r])
  /\ stack \in Seq(Rotations) /\ Len(stack) <= StackSize
  /\ \/ at = Still
     \/ /\ current \in Rotations
        /\ at \in [walking : {TRUE}, rotation : {current},
                   index : DOMAIN rotations[current], depth : 0..StopDepth]
  /\ issued \in Maps \cup {NoMap}
  /\ played \in [Rotations -> Nat] /\ \A r \in Rotations : played[r] \in 0..Len(rotations[r])

RotationInit ==
  /\ rotations \in Files
  /\ current \in Rotations \cup {NOT_ROTATING}
  /\ nodes = [r \in Rotations |-> 1]
  /\ stack = <<>>
  /\ at = Still
  /\ issued = NoMap
  /\ played = [r \in Rotations |-> 0]

-----------------------------------------------------------------------------
(* Where things are. *)

G_NodeIndexAfter(i, r) == (i % Len(rotations[r])) + 1

\* The rotation left goes on the stack; the oldest falls off the end of the
\* string.
G_PushRotationStack(r) ==
  LET pushed == <<r>> \o stack
  IN SubSeq(pushed, 1, IF Len(pushed) > StackSize THEN StackSize ELSE Len(pushed))

\* The first label of that name; if there is none, the next map.
Places(r, i, name) ==
  LET labels == {j \in DOMAIN rotations[r] :
                   rotations[r][j].type = "NT_LABEL" /\ rotations[r][j].name = name}
      maps == {j \in DOMAIN rotations[r] :
                 rotations[r][j].type = "NT_MAP" /\ rotations[r][j].name = name}
      ahead(j) == (j - i - 1) % Len(rotations[r])
  IN IF labels # {}
     THEN {G_NodeIndexAfter(j, r) : j \in {k \in labels : \A l \in labels : k <= l}}
     ELSE {j \in maps : \A l \in maps : ahead(j) <= ahead(l)}

\* G_AdvanceMapRotation: a walk goes on in the rotation r, where it was left.
Walk(ns, r, depth) == [walking |-> TRUE, rotation |-> r, index |-> ns[r], depth |-> depth]

-----------------------------------------------------------------------------
(* One step of a walk. *)

node == rotations[at.rotation][at.index]

\* Mutant: late in a walk, nothing is looked at.
Loops_Maps == at.depth + 1 > WarnDepth

\* The guard against infinite loops: late in a walk, only maps are looked at.
Loops == at.depth + 1 > WarnDepth /\ node.type # "NT_MAP"

GiveUp ==
  /\ at.walking
  /\ Loops /\ at.depth + 1 > StopDepth
  /\ at' = Still
  /\ UNCHANGED <<rotations, current, nodes, stack, issued, played>>

\* The node is left for the next one.
NextNode ==
  at' = [at EXCEPT !.index = G_NodeIndexAfter(@, at.rotation), !.depth = @ + 1]

Skip ==
  /\ at.walking
  /\ \/ Loops /\ at.depth + 1 <= StopDepth
     \/ ~Loops /\ node.type = "NT_LABEL"
     \/ ~Loops /\ node.conditional
     \/ ~Loops /\ node.type = "NT_RETURN" /\ stack = <<>>
  /\ NextNode
  /\ UNCHANGED <<rotations, current, nodes, stack, issued, played>>

\* Mutant: the rotation comes back to the node it left.
Left_Again == [nodes EXCEPT ![at.rotation] = at.index]

Left == [nodes EXCEPT ![at.rotation] = G_NodeIndexAfter(at.index, at.rotation)]

IssueMapChange ==
  /\ at.walking
  /\ ~Loops
  /\ node.type = "NT_MAP"
  /\ nodes' = Left
  /\ issued' = node.name
  /\ played' = [played EXCEPT ![at.rotation] = at.index]
  /\ at' = Still
  /\ UNCHANGED <<rotations, current, stack>>

Return ==
  /\ at.walking
  /\ ~Loops
  /\ node.type = "NT_RETURN"
  /\ stack # <<>>
  /\ stack' = Tail(stack)
  /\ nodes' = Left
  /\ current' = Head(stack)
  /\ at' = Walk(nodes', current', at.depth + 1)
  /\ UNCHANGED <<rotations, issued, played>>

\* G_GotoLabel, when the name is of a rotation: goto starts it over, resume
\* goes on in it.
JumpToRotation ==
  /\ at.walking
  /\ ~Loops
  /\ node.type \in {"NT_GOTO", "NT_RESUME"}
  /\ node.name \in Rotations
  /\ stack' = G_PushRotationStack(current)
  /\ nodes' = IF node.type = "NT_GOTO" THEN [Left EXCEPT ![node.name] = 1] ELSE Left
  /\ current' = node.name
  /\ at' = Walk(nodes', current', at.depth + 1)
  /\ UNCHANGED <<rotations, issued, played>>

\* When it is of a label or a map of the rotation.
JumpToPlace ==
  /\ at.walking
  /\ ~Loops
  /\ node.type \in {"NT_GOTO", "NT_RESUME"}
  /\ node.name \notin Rotations
  /\ \E place \in Places(at.rotation, at.index, node.name) :
       nodes' = [nodes EXCEPT ![at.rotation] = place]
  /\ at' = Walk(nodes', at.rotation, at.depth + 1)
  /\ UNCHANGED <<rotations, current, stack, issued, played>>

G_StepMapRotation ==
  GiveUp \/ Skip \/ IssueMapChange \/ Return \/ JumpToRotation \/ JumpToPlace

-----------------------------------------------------------------------------
(* From outside. *)

G_MapRotationActive == current # NOT_ROTATING

G_AdvanceMapRotation ==
  /\ at' = Walk(nodes, current, 0)
  /\ UNCHANGED <<rotations, current, nodes, stack, issued, played>>

\* The command mapRotation: what was current is all there is on the stack, or
\* nothing if there is no rotation of that name.
Svcmd_MapRotation_f(name) ==
  /\ \/ /\ name \in Rotations
        /\ current' = name
        /\ stack' = IF current = NOT_ROTATING THEN <<>> ELSE <<current>>
     \/ name \notin Rotations /\ stack' = <<>> /\ UNCHANGED current
  /\ UNCHANGED <<rotations, nodes, at, issued, played>>

\* G_InitMapRotations, the file being the same: where there is no rotation, the
\* operator may have named one (g_initialMapRotation).
G_InitMapRotations ==
  /\ current' \in IF G_MapRotationActive THEN {current} ELSE Rotations \cup {NOT_ROTATING}
  /\ UNCHANGED stack

G_StopMapRotation ==
  /\ current' = NOT_ROTATING
  /\ UNCHANGED <<rotations, nodes, stack, at, issued, played>>
=============================================================================
