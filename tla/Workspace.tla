----------------------------- MODULE Workspace -----------------------------
(***************************************************************************)
(* The workspace of the interpreter (src/interp/i-syscmd.boot and          *)
(* i-toplev.boot): the variables of the user, the ring of frames with      *)
(* )frame new, drop, next, last and import, )clear, and )undo with the     *)
(* record of changes it works from.                                        *)
(*                                                                         *)
(* Environments and changes are association lists whose pairs the code     *)
(* overwrites in place and shares, so pairs are cells of a heap here: an   *)
(* environment maps names to cells.  Of the properties of a name only      *)
(* 'value is kept.  Every line assigns a value never used before.          *)
(*                                                                         *)
(* Left out: the history file, types, macros, and )undo )redo.             *)
(*                                                                         *)
(* A definition D_Fault that stands before a definition D is a faulty      *)
(* variant of D: it is used only to show that a property would notice.     *)
(***************************************************************************)
EXTENDS Integers, FiniteSets, SequencesExt

CONSTANTS
    Var,            \* names of variables
    Name,           \* names of frames
    UndoArgs,       \* arguments given to )undo
    Careful,        \* the user issues )undo only where the record is sound (see below)
    MaxLines,       \* bound: lines that assign, the failing ones and imports included
    MaxFailed,      \* bound: lines that fail
    MaxCommands     \* bound: system commands

ASSUME WorkspaceAssumption == /\ "initial" \in Name
                              /\ IsFiniteSet(Var)
                              /\ UndoArgs \subseteq Int
                              /\ Careful \in BOOLEAN
                              /\ MaxLines \in Nat /\ MaxFailed \in Nat /\ MaxCommands \in Nat

VARIABLES
    heap,               \* the values in the pairs (prop . value)
    env,                \* $InteractiveFrame
    frameRecord,        \* $frameRecord, newest first
    previousBindings,   \* $previousBindings
    IOindex,            \* $IOindex
    ring,               \* $interpreterFrameRing, the current frame first
    headIsEnv,          \* the first frame of the ring holds the list env itself
    failed, commands,   \* bounds
    wrote,              \* history: <<frame, name, value>> assigned or imported
    past,               \* history: the frame before and after each of its steps
    intact,             \* history: see below
    undone              \* history: what the last )undo should give and gave

vars == <<heap, env, frameRecord, previousBindings, IOindex, ring, headIsEnv,
          failed, commands, wrote, past, intact, undone>>

(***************************************************************************)
(* A value is an object: COPY of the environment makes new objects, which  *)
(* EQ tells from the old ones.  Nil is also the value of a cleared name.   *)
(***************************************************************************)
Nil == [val |-> 0, copy |-> 0]

Nothing == <<>>     \* the function with no names
NoUndo == [want |-> Nothing, got |-> Nothing]

(* What the names of the environment e are bound to in the heap h. *)
Bindings(h, e) == [x \in DOMAIN e |-> h[e[x]]]

(* What the user sees: the names that have a value. *)
Visible(b) == [x \in {y \in DOMAIN b : b[y] # Nil} |-> b[x].val]

(* A workspace as the operations below pass it on. *)
Here == [heap |-> heap, env |-> env, record |-> frameRecord, previous |-> previousBindings]

Become(w) ==
    /\ heap' = w.heap
    /\ env' = w.env
    /\ frameRecord' = w.record
    /\ previousBindings' = w.previous

(* New pairs at the end of the heap, for the names in the domain of b. *)
NewPairs(h, b) ==
    LET names == SetToSeq(DOMAIN b)
    IN  [heap  |-> h \o [i \in DOMAIN names |-> b[names[i]]],
         cells |-> [x \in DOMAIN b |-> Len(h) + CHOOSE i \in DOMAIN names : names[i] = x]]

-----------------------------------------------------------------------------
(* diffAlist: the names whose pair has changed, with their old value. *)
DiffAlist(new, old) ==
    LET changed == {x \in DOMAIN new \cup DOMAIN old :
                       x \in DOMAIN new \cap DOMAIN old => new[x] # old[x]}
    IN  [x \in changed |-> IF x \in DOMAIN old THEN old[x] ELSE Nil]

(* The changes since the last call of recordFrame. *)
Delta(w) == DiffAlist(Bindings(w.heap, w.env), w.previous)

(***************************************************************************)
(* recordFrame: the changes made by system commands are recorded only if   *)
(* there are any.                                                          *)
(***************************************************************************)
RecordFrame(system, w) ==
    LET new == NewPairs(w.heap, Delta(w))
    IN  IF system /\ Delta(w) = Nothing THEN w
        ELSE [heap     |-> new.heap,
              env      |-> w.env,
              record   |-> <<[system |-> system, changes |-> new.cells]>> \o w.record,
              previous |-> Bindings(w.heap, w.env)]

(* putIntSymTab: overwrite the pair of a name, or add one. *)
Put(x, v, w) ==
    IF x \in DOMAIN w.env
    THEN [w EXCEPT !.heap[w.env[x]] = v]
    ELSE [w EXCEPT !.heap = Append(@, v),
                   !.env = [y \in DOMAIN @ \cup {x} |->
                               IF y = x THEN Len(w.heap) + 1 ELSE @[y]]]

Without(x, e) == [y \in DOMAIN e \ {x} |-> e[y]]

(***************************************************************************)
(* undoSingleStep: the pair of a name is overwritten; for a name that is   *)
(* not in the environment the recorded pair itself becomes its pair.       *)
(***************************************************************************)
UndoSingleStep(changes, w) ==
    LET known == DOMAIN changes \cap DOMAIN w.env
        NamesOf(c) == {x \in known : w.env[x] = c}
    IN  [w EXCEPT
            !.heap = [c \in DOMAIN @ |->
                         IF NamesOf(c) = {} THEN @[c]
                         ELSE @[changes[CHOOSE x \in NamesOf(c) : TRUE]]],
            !.env  = [x \in DOMAIN @ \cup DOMAIN changes |->
                         IF x \in DOMAIN @ THEN @[x] ELSE changes[x]]]

(* undoCount: how many steps an argument of )undo stands for. *)
UndoCount_OffByOne(n) == IF n >= 0 THEN IOindex - n ELSE -n
UndoCount(n) == IF n >= 0 THEN IOindex - n - 1 ELSE -n

(* COPY: every pair and every value of the environment is a new object. *)
CopyEnv(w) ==
    LET Copied(v) == IF v = Nil THEN Nil ELSE [v EXCEPT !.copy = commands + 1]
        new == NewPairs(w.heap, [x \in DOMAIN w.env |-> Copied(w.heap[w.env[x]])])
    IN  [w EXCEPT !.heap = new.heap, !.env = new.cells]

(* The changes of system commands before a line are skipped together with it. *)
SkipsSystem(record, k) == k < Len(record) /\ record[k + 1].system

(***************************************************************************)
(* undoSteps: walk down the record, m + 1 entries from the head; after     *)
(* each one an entry of system commands is taken along.  "at" is the last  *)
(* entry undone, "tail" is lastTailSeen, which stays where it was when an  *)
(* entry of system commands has been taken along.                          *)
(***************************************************************************)
Walk(m, start) ==
    LET record == start.record
        to == IF m < 0 THEN -1 ELSE m
        walk[i \in -1 .. to] ==
            IF i < 0 THEN [w |-> CopyEnv(start), at |-> 0, tail |-> 0]
            ELSE LET before == walk[i - 1]
                     k == before.at + 1
                     one == UndoSingleStep(record[k].changes, before.w)
                 IN  IF k > Len(record) THEN before
                     ELSE IF SkipsSystem(record, k)
                     THEN [w |-> UndoSingleStep(record[k + 1].changes, one),
                           at |-> k + 1, tail |-> before.tail]
                     ELSE [w |-> one, at |-> k, tail |-> k]
    IN  walk[to]

UndoSteps(m, when) ==
    LET start == RecordFrame(FALSE, Here)
        end == Walk(m, start)
        more == when = "before" /\ end.tail \in 1 .. Len(start.record) - 1
        final == IF more THEN UndoSingleStep(start.record[end.tail + 1].changes, end.w)
                 ELSE end.w
    IN  [final EXCEPT !.record = Tail(start.record)]

-----------------------------------------------------------------------------
Current == ring[1].name

(* updateCurrentInterpreterFrame: the globals are stored in the ring. *)
UpdateCurrent_NoIndex(r) == [r EXCEPT ![1] = [@ EXCEPT !.env = env']]
UpdateCurrent(r) == [r EXCEPT ![1] = [@ EXCEPT !.env = env', !.IOindex = IOindex']]

(* The list env has been changed in place, and nothing was stored. *)
ChangedInPlace == ring' = IF headIsEnv THEN [ring EXCEPT ![1] = [@ EXCEPT !.env = env']]
                          ELSE ring

(* updateFromCurrentInterpreterFrame *)
Load(r) ==
    /\ ring' = r
    /\ env' = r[1].env
    /\ IOindex' = r[1].IOindex
    /\ headIsEnv' = TRUE

Stored(r) == [r EXCEPT ![1] = [@ EXCEPT !.env = env, !.IOindex = IOindex]]

Init ==
    /\ heap = <<>>
    /\ env = Nothing
    /\ frameRecord = <<>>
    /\ previousBindings = Nothing
    /\ IOindex = 1
    /\ ring = <<[name |-> "initial", env |-> Nothing, IOindex |-> 1]>>
    /\ headIsEnv = TRUE
    /\ failed = 0
    /\ commands = 0
    /\ wrote = {}
    /\ past = <<>>
    /\ intact = TRUE
    /\ undone = NoUndo

(***************************************************************************)
(* The record is intact as long as the user stays in one frame after the   *)
(* last )clear all, no entry of system commands stands on another one, no  *)
(* )undo threw away changes that were not recorded yet, and none brought a *)
(* pair of the record itself into the environment.  The walk for )before   *)
(* goes wrong if it ends with an entry of system commands (EndsAtAStep).   *)
(***************************************************************************)
RecordsOnce == frameRecord = <<>> \/ ~Head(frameRecord).system \/ Delta(Here) = Nothing
FlushesNothing == Delta(Here) = Nothing
EndsAtAStep(m) == LET end == Walk(m, RecordFrame(FALSE, Here)) IN end.at = end.tail
SharesNothing(w) == \A e \in ToSet(w.record), x \in DOMAIN w.env :
                        x \in DOMAIN e.changes => e.changes[x] # w.env[x]
SwitchFrame == /\ past' = <<>>
               /\ intact' = FALSE
               /\ undone' = NoUndo
               /\ UNCHANGED wrote
SameFrame == undone' = NoUndo /\ UNCHANGED <<wrote, past, intact>>

NewValue == [val |-> Cardinality(wrote) + 1, copy |-> 0]
Wrote(x, v) == wrote' = wrote \cup {<<Current, x, v.val>>}

Lines == Cardinality(wrote)

(* processInteractive of an assignment: one step of the session. *)
Line(x) ==
    /\ Lines < MaxLines
    /\ LET start == RecordFrame(TRUE, Here)
           end == RecordFrame(FALSE, Put(x, NewValue, start))
       IN  /\ Become(end)
           /\ past' = Append(past, [before |-> Visible(Bindings(start.heap, start.env)),
                                    after  |-> Visible(Bindings(end.heap, end.env))])
    /\ IOindex' = IOindex + 1
    /\ ring' = UpdateCurrent(ring)
    /\ headIsEnv' = TRUE
    /\ Wrote(x, NewValue)
    /\ intact' = (intact /\ RecordsOnce)
    /\ undone' = NoUndo
    /\ UNCHANGED <<failed, commands>>

(* A line that stops with an error after an assignment. *)
FailedLine(x) ==
    /\ Lines < MaxLines
    /\ failed < MaxFailed
    /\ Become(Put(x, NewValue, RecordFrame(TRUE, Here)))
    /\ ChangedInPlace
    /\ failed' = failed + 1
    /\ Wrote(x, NewValue)
    /\ intact' = (intact /\ RecordsOnce)
    /\ undone' = NoUndo
    /\ UNCHANGED <<IOindex, headIsEnv, commands, past>>

-----------------------------------------------------------------------------
Command == commands < MaxCommands /\ commands' = commands + 1 /\ UNCHANGED failed

(* )clear value x and )clear properties x: the pair gets the value Nil, or *)
(* the name is taken out.                                                  *)
ClearParts(x, what) ==
    /\ Command
    /\ \/ x \notin DOMAIN env  /\ Become(Here)
       \/ x \in DOMAIN env /\ what = "value"      /\ Become(Put(x, Nil, Here))
       \/ x \in DOMAIN env /\ what = "properties" /\ Become([Here EXCEPT !.env = Without(x, @)])
    /\ UNCHANGED IOindex
    /\ ring' = UpdateCurrent(ring)
    /\ headIsEnv' = TRUE
    /\ SameFrame

IndexAfterClear == 1

ClearAll ==
    /\ Command
    /\ Become([heap |-> heap, env |-> Nothing, record |-> <<>>, previous |-> Nothing])
    /\ IOindex' = IndexAfterClear
    /\ ring' = UpdateCurrent(ring)
    /\ headIsEnv' = TRUE
    /\ past' = <<>>
    /\ intact' = TRUE
    /\ undone' = NoUndo
    /\ UNCHANGED wrote

(***************************************************************************)
(* What the manual promises of )undo n: the frame right after step n, or   *)
(* right before it; a negative n counts back from the last step.           *)
(***************************************************************************)
Promised(n, when) ==
    LET step == IF n > 0 THEN n ELSE Len(past) + n
    IN  IF when = "before" THEN past[step].before
        ELSE IF step = 0 THEN Nothing ELSE past[step].after

Designates(n, when) ==
    /\ Len(past) = IOindex - 1
    /\ IF n > 0 THEN n <= Len(past) ELSE n < 0 /\ -n <= Len(past) /\ when = "after"

Undo(n, when) ==
    /\ Command
    /\ UndoCount(n) < IOindex
    /\ Careful => intact /\ (when = "before" => EndsAtAStep(UndoCount(n)))
    /\ LET w == UndoSteps(UndoCount(n), when)
       IN  /\ Become(w)
           /\ intact' = (intact /\ FlushesNothing /\ SharesNothing(w))
           /\ undone' = IF Designates(n, when)
                        THEN [want |-> Promised(n, when), got |-> Visible(Bindings(w.heap, w.env))]
                        ELSE NoUndo
    /\ headIsEnv' = FALSE
    /\ UNCHANGED <<IOindex, ring, wrote, past>>

-----------------------------------------------------------------------------
Named(f) == {i \in DOMAIN ring : ring[i].name = f}

(* The commands that go to another frame take the record of )undo along. *)
GoTo(r) ==
    /\ Command
    /\ Load(r)
    /\ UNCHANGED <<heap, frameRecord, previousBindings>>
    /\ IF r[1].name = Current THEN SameFrame ELSE SwitchFrame

EmptyInterpreterFrame_Same(f) == [name |-> f, env |-> env, IOindex |-> 1]
EmptyInterpreterFrame(f) == [name |-> f, env |-> Nothing, IOindex |-> 1]

(* addNewInterpreterFrame *)
NewFrame(f) == Named(f) = {} /\ GoTo(<<EmptyInterpreterFrame(f)>> \o Stored(ring))

(* The name exists; the globals have been stored before that is known. *)
NewFrameRefused(f) == Named(f) # {} /\ GoTo(Stored(ring))

(* nextInterpreterFrame and previousInterpreterFrame turn the ring. *)
NextFrame == GoTo(Tail(Stored(ring)) \o <<Head(Stored(ring))>>)
LastFrame == GoTo(<<Last(Stored(ring))>> \o Front(Stored(ring)))

(* changeToNamedInterpreterFrame: the frame comes to the front. *)
ChangeToFrame(f) ==
    /\ Named(f) # {}
    /\ LET i == CHOOSE i \in Named(f) : TRUE
       IN  GoTo(<<Stored(ring)[i]>> \o RemoveAt(Stored(ring), i))

(* closeInterpreterFrame stores nothing before it loads the first frame. *)
DropFrame(f) ==
    /\ Len(ring) > 1
    /\ Named(f) # {}
    /\ Careful => headIsEnv
    /\ GoTo(RemoveAt(ring, CHOOSE i \in Named(f) : TRUE))

(* importFromFrame of one name, a whole new pair with the same value. *)
Import(f, x) ==
    /\ Command
    /\ \E i \in Named(f) \ {1} :
          /\ x \in DOMAIN ring[i].env
          /\ LET v == heap[ring[i].env[x]]
             IN  /\ Become(Put(x, v, [Here EXCEPT !.env = Without(x, @)]))
                 /\ Wrote(x, v)
    /\ ChangedInPlace
    /\ undone' = NoUndo
    /\ UNCHANGED <<IOindex, headIsEnv, past, intact>>

Next ==
    \/ \E x \in Var : Line(x) \/ FailedLine(x)
    \/ \E x \in Var, what \in {"value", "properties"} : ClearParts(x, what)
    \/ ClearAll
    \/ \E n \in UndoArgs, when \in {"before", "after"} : Undo(n, when)
    \/ NextFrame
    \/ LastFrame
    \/ \E f \in Name : NewFrame(f) \/ NewFrameRefused(f) \/ ChangeToFrame(f) \/ DropFrame(f)
    \/ \E f \in Name, x \in Var : Import(f, x)

Spec == Init /\ [][Next]_vars
-----------------------------------------------------------------------------
Cells == DOMAIN heap
Value == [val : Nat, copy : Nat]
IsEnv(e) == DOMAIN e \subseteq Var /\ \A x \in DOMAIN e : e[x] \in Cells

TypeOK ==
    /\ heap \in Seq(Value)
    /\ IsEnv(env)
    /\ \A e \in ToSet(frameRecord) : e.system \in BOOLEAN /\ IsEnv(e.changes)
    /\ DOMAIN previousBindings \subseteq Var
    /\ \A x \in DOMAIN previousBindings : previousBindings[x] \in Value
    /\ IOindex \in Nat \ {0}
    /\ ring # <<>>
    /\ \A f \in ToSet(ring) : f.name \in Name /\ IsEnv(f.env) /\ f.IOindex \in Nat \ {0}
    /\ {headIsEnv, intact} \subseteq BOOLEAN
    /\ failed \in 0 .. MaxFailed
    /\ commands \in 0 .. MaxCommands

(* The frame of the ring at position i as its user would see it. *)
FrameSeen(i) ==
    IF i = 1 THEN [bindings |-> Visible(Bindings(heap, env)), step |-> IOindex]
    ELSE [bindings |-> Visible(Bindings(heap, ring[i].env)), step |-> ring[i].IOindex]

(***************************************************************************)
(* "These commands return the state of the interactive environment to that *)
(* immediately after step n", and with )before to that right before it:    *)
(* )undo gives back what the frame held then, whatever lines, failing      *)
(* lines, )clear and earlier )undo commands came in between.               *)
(***************************************************************************)
UndoReturns == undone.want = undone.got

(***************************************************************************)
(* "You can have a variable named a in one frame and it will have nothing  *)
(* to do with anything that might be called a in any other frame": a frame *)
(* holds only values that were assigned in it or imported into it.         *)
(* (An )undo after a change of frame breaks this; Careful leaves it out.)  *)
(***************************************************************************)
OwnValues ==
    \A i \in DOMAIN ring :
        LET seen == FrameSeen(i).bindings
        IN  \A x \in DOMAIN seen : <<ring[i].name, x, seen[x]>> \in wrote

(***************************************************************************)
(* The ring of saved records, the globals and the pairs they share are an  *)
(* implementation of a map from names to independent frames.               *)
(***************************************************************************)
World == [f \in {ring[i].name : i \in DOMAIN ring} |->
             FrameSeen(CHOOSE i \in DOMAIN ring : ring[i].name = f)]

Abstract == INSTANCE FrameMap WITH world <- World, current <- Current

FramesIndependent == Abstract!FrameSpec
=============================================================================
