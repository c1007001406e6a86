------------------------------ MODULE FrameMap ------------------------------
(***************************************************************************)
(* What )frame promises (src/doc/htex/ug16.htex, section )frame): a frame  *)
(* is a session of its own, with its own variables and step number, and    *)
(* what is done in one frame has nothing to do with any other.             *)
(***************************************************************************)
EXTENDS Naturals

CONSTANT Name       \* names of frames

VARIABLES
    world,          \* for every open frame, its variables and step number
    current         \* the name of the current frame

abs == <<world, current>>

EmptyFrame == [bindings |-> <<>>, step |-> 1]

FrameInit ==
    /\ current \in Name
    /\ world = [f \in {current} |-> EmptyFrame]

Open == DOMAIN world

(* A line or a command of the user changes at most the current frame. *)
Work ==
    /\ DOMAIN world' = Open
    /\ \A f \in Open \ {current} : world'[f] = world[f]
    /\ UNCHANGED current

New(f) ==
    /\ f \notin Open
    /\ world' = [g \in Open \cup {f} |-> IF g = f THEN EmptyFrame ELSE world[g]]
    /\ current' = f

Enter(f) ==
    /\ f \in Open
    /\ current' = f
    /\ UNCHANGED world

(* Dropping another frame leaves the current one as it is. *)
Drop(f) ==
    /\ f \in Open
    /\ world' = [g \in Open \ {f} |-> world[g]]
    /\ current' \in Open \ {f}
    /\ f # current => current' = current

FrameNext == Work \/ \E f \in Name : New(f) \/ Enter(f) \/ Drop(f)

FrameSpec == FrameInit /\ [][FrameNext]_abs
=============================================================================
