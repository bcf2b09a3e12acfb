----------------------------- MODULE LevelFlow -----------------------------
(***************************************************************************)
(* How one level follows another: ExitLevel takes the next map from        *)
(* g_nextMap, from the queue of the players, or from the map rotation, and *)
(* the game does nothing more until the server executes the map command.   *)
(***************************************************************************)
EXTENDS MapRotation, PlayMapQueue

VARIABLE restarted   \* level.restarted

\* Only maps that exist get into the pool of playmap.
ASSUME PoolAssumption == Pool \subseteq Maps

vars == <<rotationVars, queue, there, restarted>>

TypeOK ==
  /\ RotationTypeOK
  /\ QueueTypeOK
  /\ restarted \in BOOLEAN

Init ==
  /\ RotationInit
  /\ QueueInit
  /\ restarted = FALSE

\* While a walk lasts nothing else happens: it is one call.
Idle == ~at.walking

\* A map that is there to be executed, given by someone else.
Issue(map) ==
  /\ issued' = map
  /\ UNCHANGED <<rotations, current, nodes, stack, at, played>>

\* The end of a level.  g_nextMap comes first, then the queue, then the
\* rotation; if there is none of them the level starts over.
ExitToNextMap ==
  /\ \E map \in Maps : Issue(map)
  /\ UNCHANGED queue

ExitToPlayMap ==
  LET valid == G_ValidatePlayMapQueue(queue)
  IN /\ G_PlayMapActive(valid)
     /\ queue' = G_PopFromPlayMapQueue(valid)
     /\ Issue(Nth(valid, 0).map)

\* Nothing is left of the queue, or the operator turned it off
\* (g_playMapEnable): then it is not even looked at.
NoPlayMap ==
  \/ queue' = G_ValidatePlayMapQueue(queue) /\ ~G_PlayMapActive(queue')
  \/ UNCHANGED queue

ExitToRotation ==
  /\ NoPlayMap
  /\ G_MapRotationActive
  /\ G_AdvanceMapRotation

ExitToSameMap ==
  /\ NoPlayMap
  /\ ~G_MapRotationActive
  /\ \E map \in Maps : Issue(map)

ExitLevel ==
  /\ Idle /\ ~restarted /\ issued = NoMap
  /\ ExitToNextMap \/ ExitToPlayMap \/ ExitToRotation \/ ExitToSameMap
  /\ restarted' = TRUE
  /\ UNCHANGED there

Step == G_StepMapRotation /\ UNCHANGED <<queue, there, restarted>>

\* The server executes the map command: the game module is unloaded, and loaded
\* again for the new level.
NewLevel ==
  /\ Idle
  /\ issued # NoMap
  /\ issued' = NoMap
  /\ restarted' = FALSE
  /\ SaveAndReload
  /\ G_InitMapRotations
  /\ UNCHANGED <<rotations, nodes, at, played>>

\* The operator's commands, one at a time.
Svcmd ==
  /\ Idle
  /\ issued = NoMap
  /\ \/ \E name \in Rotations \cup {NOT_ROTATING} : Svcmd_MapRotation_f(name)
     \/ G_StopMapRotation
     \/ G_MapRotationActive /\ G_AdvanceMapRotation
  /\ UNCHANGED <<queue, there, restarted>>

PlayersAct ==
  /\ Idle
  /\ \/ \E p \in Players : ClientConnect(p) \/ ClientDisconnect(p)
     \/ \E map \in Pool, owner \in Owners : G_admin_playmap(map, owner)
  /\ UNCHANGED <<rotationVars, restarted>>

Next == ExitLevel \/ Step \/ NewLevel \/ Svcmd \/ PlayersAct

\* A walk is one call, and the server executes the commands it is given (only
\* NewLevel does).
Fairness == WF_at(Step) /\ WF_issued(issued' = NoMap)

Spec == Init /\ [][Next]_vars
FairSpec == Spec /\ Fairness

-----------------------------------------------------------------------------
(* Properties. *)

\* Once a walk only looks at maps it has StopDepth - WarnDepth steps left; from
\* every node of the file that is enough to reach one.
MapsNear ==
  \A r \in Rotations : \A i \in DOMAIN rotations[r] :
    \E n \in 0..(StopDepth - WarnDepth) :
      rotations[r][((i - 1 + n) % Len(rotations[r])) + 1].type = "NT_MAP"

\* A level that ended is followed by another, however the rotations jump: every
\* walk ends, and with a map command (G_StepMapRotation's guards, ExitLevel,
\* which stops the game whether or not a map command was given).
AnotherLevel == restarted /\ MapsNear ~> ~restarted

\* The rotation is never started over, nor jumped about in: it is entered and
\* left by resume and return.
Orderly(r) ==
  /\ \A q \in Rotations : \A i \in DOMAIN rotations[q] :
       ~(rotations[q][i].type = "NT_GOTO" /\ rotations[q][i].name = r)
  /\ \A i \in DOMAIN rotations[r] :
       rotations[r][i].type \in {"NT_GOTO", "NT_RESUME"} => rotations[r][i].name \in Rotations

\* The maps of such a rotation are played in turn, whatever rotations were gone
\* to in between (g_mapRotationNodes, which is set before every jump).
PlayedInTurn ==
  [][\A r \in Rotations :
       Orderly(r) /\ issued' # issued /\ at.walking /\ at.rotation = r /\ played[r] # 0
       => LET ahead(i) == (i - played[r] - 1) % Len(rotations[r])
          IN \A i \in DOMAIN rotations[r] :
               ahead(i) < ahead(at.index) => rotations[r][i].type # "NT_MAP"]_vars

\* The maps the players asked for are played in the order they asked, whatever
\* levels go by in between, and none is lost but with its player.
PL == INSTANCE PlayList WITH
  Capacity <- MAX_PLAYMAP_QUEUE_ENTRIES - 1, list <- Queued(queue), next <- issued

KeepsPromise == PL!Spec
=============================================================================
