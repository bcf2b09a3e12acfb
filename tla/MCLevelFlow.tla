----------------------------- MODULE MCLevelFlow -----------------------------
(* Model-checking instances of LevelFlow: files of two rotations. *)
EXTENDS LevelFlow

Map(m) == [type |-> "NT_MAP", name |-> m, conditional |-> FALSE]
Label(l) == [type |-> "NT_LABEL", name |-> l, conditional |-> FALSE]
Jump(type, name) == [type |-> type, name |-> name, conditional |-> FALSE]
If(jump) == [jump EXCEPT !.conditional = TRUE]
Goto(name) == Jump("NT_GOTO", name)
Resume(name) == Jump("NT_RESUME", name)
Back == Jump("NT_RETURN", "")

File(a, b) == [r \in Rotations |-> IF r = "a" THEN a ELSE b]

\* Jumps about one rotation and into the other; jumps without end, with maps
\* near and too far.
SomeFiles ==
  { File(<<Label("#l"), Map("m1"), If(Goto("#l")), Resume("b")>>,
         <<Map("m1"), If(Back), Map("m2"), Resume("a")>>),
    File(<<Goto("b"), Map("m1")>>, <<Goto("a"), If(Goto("m2")), Map("m2")>>),
    File(<<Goto("b"), Map("m1")>>, <<Goto("a"), Label("#j"), Label("#k"), Label("#l"), Map("m2")>>) }
=============================================================================
