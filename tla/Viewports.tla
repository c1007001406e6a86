------------------------------ MODULE Viewports ------------------------------
(***************************************************************************)
(* The viewport manager (src/graph/viewman) between Lisp, which makes,     *)
(* changes and closes viewports (view2D.spad, view3D.spad), and the        *)
(* programs of the viewports (view2D, view3D), where the user picks a      *)
(* graph up in one window and drops it into another.                       *)
(*                                                                         *)
(* No message says what it is: a reader takes the next thing in the pipe   *)
(* for what it waits for.  inSync becomes FALSE when somebody took one     *)
(* thing for another, died of it or waits for what is never sent; what     *)
(* would follow is not modelled.  Points, colours, titles and the states   *)
(* of the buttons are left out, they do not change what is sent.           *)
(*                                                                         *)
(* Careful: what is known to break the protocol is left out.  The user     *)
(* does not touch a window while Lisp calls it; Lisp leaves out commands   *)
(* that the manager does not pass on, and does not change the graphs of a  *)
(* window where a pick or drop was begun; nobody closes the last window    *)
(* of a graph that was picked up or is on its way; programs start.         *)
(*                                                                         *)
(* A definition D_Fault before a definition D is a faulty variant of D,    *)
(* used only to show that a property would notice.                         *)
(***************************************************************************)
EXTENDS Integers, FiniteSets, SequencesExt

CONSTANTS
    Viewport2D,     \* process ids of the two-dimensional viewports, numbers
    Viewport3D,     \* process ids of the three-dimensional viewports
    Key,            \* keys of graphs, 1, 2, ...
    Shown,          \* viewports that are open at first
    maxGraphs,      \* slots for graphs in a viewport
    MayCrash,       \* programs of viewports may die at any time
    Careful,
    MaxCalls,       \* bound: calls of Lisp
    MaxClicks       \* bound: clicks of the user, and crashes

ASSUME ViewportsAssumption == /\ Viewport2D \cup Viewport3D \subseteq Nat \ {0}
                              /\ Viewport2D \cap Viewport3D = {} /\ IsFiniteSet(Viewport2D)
                              /\ Key \subseteq Nat \ {0}
                              /\ Shown \subseteq Viewport2D /\ (Shown # {} => 1 \in Key)
                              /\ maxGraphs \in Nat \ {0}
                              /\ {MayCrash, Careful} \subseteq BOOLEAN
                              /\ {MaxCalls, MaxClicks} \subseteq Nat

Viewport == Viewport2D \cup Viewport3D
Slot == 1..maxGraphs
SPAD == 0                       \* spadSock among what select watches
(* "scale" stands for every command whose arguments the manager passes on, "color" for *)
(* axesColor2D and unitsColor2D, "contour" for the style view3D does not know.         *)
Command == {"putGraph", "showing2D", "scale", "color", "contour", "closeAll"}
WithArguments == Command \ {"contour", "closeAll"}
Forwarded == WithArguments \ {"color"}

VARIABLES
    lisp,           \* [pc, vp, cmd, keys]: what Lisp waits for, viewport, command and graphs of its call
    known,          \* viewports whose key Lisp has
    sent,           \* keys of the graphs that Lisp has transmitted
    manager,        \* [pc, ready, slot, cmd, closing, graphKey]: the viewport manager
    viewports,      \* its list, newest first
    graphList,      \* for each key: is the graph in the list, and how often each viewport in its views
    picked,         \* currentGraph, 0 while picked = no
    child,          \* [pc, doit, currentGraph, slots] of each program; currentGraph while it drops
    toManager, toLisp, down, up,
    calls, clicks,  \* bounds
    inSync

links == <<toManager, toLisp, down, up>>
bounds == <<calls, clicks>>
vars == <<lisp, known, sent, manager, viewports, graphList, picked, child, links, bounds, inSync>>

Up == {"loop", "args", "drop"}              \* the program draws its window
Gone == {"zombie", "reaped"}
Unborn(V) == {c \in V : child[c].pc = "none"}
Empty == [i \in Slot |-> 0]
Holds(c, k) == \E i \in Slot : child[c].slots[i] = k

(* Lisp has made the viewports of Shown, each with the first graph in its first slot. *)
Init ==
    /\ lisp = [pc |-> "idle", vp |-> 0, cmd |-> "none", keys |-> {}]
    /\ known = Shown /\ sent = IF Shown = {} THEN {} ELSE {1}
    /\ manager = [pc |-> "select", ready |-> {}, slot |-> 0, cmd |-> "none",
                  closing |-> {}, graphKey |-> IF Shown = {} THEN 1 ELSE 2]
    /\ viewports \in SetToSeqs(Shown)
    /\ graphList = [k \in Key |-> IF k \in sent
                                  THEN [listed |-> "yes",
                                        views |-> [c \in Viewport |-> IF c \in Shown THEN 1 ELSE 0]]
                                  ELSE [listed |-> "no", views |-> [c \in Viewport |-> 0]]]
    /\ picked = 0
    /\ child = [c \in Viewport |->
                  IF c \in Shown
                  THEN [pc |-> "loop", doit |-> "none", currentGraph |-> 0, slots |-> [Empty EXCEPT ![1] = 1]]
                  ELSE [pc |-> "none", doit |-> "none", currentGraph |-> 0, slots |-> Empty]]
    /\ toManager = <<>> /\ toLisp = <<>>
    /\ down = [c \in Viewport |-> <<>>] /\ up = [c \in Viewport |-> <<>>]
    /\ calls = 0 /\ clicks = 0 /\ inSync = TRUE

(* Writing to a program that is gone only raises SIGPIPE, which brokenPipe ignores. *)
ToChild(c, items) ==
    down' = IF child[c].pc \in Gone \cup {"exiting"} THEN down ELSE [down EXCEPT ![c] = @ \o items]

ToLisp(item) == toLisp' = Append(toLisp, item)
Eof(c) == up[c] = <<>> /\ child[c].pc \in Gone

-----------------------------------------------------------------------------
(* The graphs of viewman. *)

(* sendGraphToView2D: there = 0 sends nothing; an unknown key ends viewman. *)
Sendable(k) == k = 0 \/ graphList[k].listed # "no"

WithView(gs, k, c) == IF k = 0 THEN gs ELSE [gs EXCEPT ![k].views[c] = @ + 1]

(***************************************************************************)
(* What rmViewMgr does with the nine keys of a closing viewport, one after *)
(* the other: each takes a view away, if one is left.  The graph is        *)
(* discarded with its last view, unless the end of the list of its views,  *)
(* which makeGraphFromSpadData leaves uninitialized, is not 0: then the    *)
(* list never looks empty and the graph stays for ever.                    *)
(***************************************************************************)
Count(keys, k) == Cardinality({i \in DOMAIN keys : keys[i] = k})

RemoveViews_Fault(c, keys, end) ==
    [k \in Key |-> IF Count(keys, k) = 0 \/ graphList[k].listed = "no" THEN graphList[k]
                   ELSE [graphList[k] EXCEPT !.views[c] = 0, !.listed = end]]

RemoveViews(c, keys, end) ==
    [k \in Key |->
        LET n == Count(keys, k)
            left == [graphList[k] EXCEPT !.views[c] = IF @ > n THEN @ - n ELSE 0]
        IN  IF n = 0 \/ graphList[k].listed = "no" THEN graphList[k]
            ELSE IF graphList[k].listed = "yes" /\ \A d \in Viewport : left.views[d] = 0
                 THEN [left EXCEPT !.listed = end] ELSE left]

-----------------------------------------------------------------------------
(* Lisp. *)

Idle == inSync /\ lisp.pc = "idle" /\ calls < MaxCalls
OthersOfLisp == <<manager, viewports, graphList, picked, child, down, up, clicks>>

(* A graph that cannot be discarded meanwhile. *)
Alive(k) == /\ graphList[k].listed # "no"
            /\ \/ \A c \in Viewport : graphList[k].views[c] = 0
               \/ \E c \in Viewport2D : child[c].pc \in Up /\ Holds(c, k)

Request(pc, c, cmd, keys, items) ==
    /\ lisp' = [pc |-> pc, vp |-> c, cmd |-> cmd, keys |-> keys]
    /\ toManager' = toManager \o items
    /\ calls' = calls + 1
    /\ UNCHANGED <<known, sent, toLisp, inSync, OthersOfLisp>>

(* sendGraphImage *)
SendGraph == Idle /\ manager.graphKey \in Key /\ Request("graph", 0, "none", {}, <<[t |-> "makeGraph"]>>)

(* makeViewport2D0, its graphs sent before; those discarded since are not sent again. *)
MakeViewport2D ==
    /\ Idle /\ Unborn(Viewport2D) # {}
    /\ \E slots \in [Slot -> sent \cup {0}] :
          LET keys == {slots[i] : i \in Slot} \ {0} IN
          /\ Careful => \A k \in keys : Alive(k)
          /\ Request("make", 0, "none", keys, <<[t |-> "make2D"], [t |-> "data", slots |-> slots]>>)

MakeViewport3D ==
    /\ Idle /\ Unborn(Viewport3D) # {}
    /\ Request("make", 0, "none", {}, <<[t |-> "make3D"], [t |-> "data", slots |-> Empty]>>)

(* message_U, update and close up to the question of checkViewport. *)
Ask(c, cmd, keys) == Request("asked", c, cmd, keys, <<[t |-> "call", cmd |-> cmd, vp |-> c]>>)

Message ==
    /\ Idle
    /\ \E c \in known :
          \/ Ask(c, "scale", {})
          \/ ~Careful /\ Ask(c, IF c \in Viewport2D THEN "color" ELSE "contour", {})
          \/ /\ c \in Viewport2D
             /\ Careful => child[c].doit \notin {"pick2D", "drop2D"}
             /\ Ask(c, "showing2D", {})

Update ==
    /\ Idle
    /\ \E c \in known \cap Viewport2D, k \in sent :
          /\ Careful => Alive(k) /\ child[c].doit \notin {"pick2D", "drop2D"}
          /\ Ask(c, "putGraph", {k})

(***************************************************************************)
(* A window may be closed if every graph it shows that was picked up, or   *)
(* that a call of Lisp names, is shown in another one that is not closed.  *)
(***************************************************************************)
Needed == {picked} \cup lisp.keys
          \cup UNION {{up[c][j].key : j \in {i \in DOMAIN up[c] : up[c][i].t = "pick2D"}} : c \in Viewport}

MayClose(c) ==
    Careful => \A k \in Needed \ {0} :
        Holds(c, k) => \E d \in Viewport2D \ {c} :
                          /\ child[d].pc \in Up /\ Holds(d, k)
                          /\ ~(lisp.pc # "idle" /\ lisp.vp = d /\ lisp.cmd = "closeAll")

Close == Idle /\ \E c \in known : MayClose(c) /\ Ask(c, "closeAll", {})

(* Lisp reads what viewman sends; next is where it waits then. *)
Get(pc, item, next) ==
    /\ inSync /\ lisp.pc = pc /\ toLisp # <<>>
    /\ lisp' = IF next = "idle" THEN [pc |-> "idle", vp |-> 0, cmd |-> "none", keys |-> {}]
               ELSE [lisp EXCEPT !.pc = next]
    /\ toLisp' = Tail(toLisp)
    /\ inSync' = (Head(toLisp).t = item)
    /\ UNCHANGED <<OthersOfLisp, calls>>

GetKey == /\ Get("graph", "key", "idle")
          /\ sent' = sent \cup {Head(toLisp).n}
          /\ UNCHANGED <<known, toManager>>

GetPID == /\ Get("make", "pid", "idle")
          /\ known' = known \cup {Head(toLisp).n}
          /\ UNCHANGED <<sent, toManager>>

(* checkViewport: a refused call sets the key to 0 and ends in an error. *)
GetRefusal ==
    /\ toLisp # <<>> /\ Head(toLisp).t = "refused"
    /\ Get("asked", "refused", "idle")
    /\ known' = known \ {lisp.vp}
    /\ UNCHANGED <<sent, toManager>>

(* Otherwise Lisp sends the arguments; closeAll has none. *)
GetGrant ==
    /\ toLisp # <<>> /\ Head(toLisp).t # "refused"
    /\ Get("asked", "granted", "acknowledge")
    /\ toManager' = IF lisp.cmd \notin WithArguments THEN toManager
                    ELSE Append(toManager, [t |-> "args", key |-> IF lisp.keys = {} THEN 0
                                                                      ELSE CHOOSE k \in lisp.keys : TRUE])
    /\ UNCHANGED <<known, sent>>

(* The end of message_U; close waits for the 100 as well. *)
(* The 100 is not waited for. *)
GetAcknowledge_Fault ==
    /\ Get("acknowledge", "done", "idle")
    /\ known' = IF lisp.cmd = "closeAll" THEN known \ {lisp.vp} ELSE known
    /\ UNCHANGED <<sent, toManager>>

(* The end of message_U; close waits for the 100 as well. *)
GetAcknowledge ==
    /\ Get("acknowledge", "done", IF lisp.cmd = "closeAll" THEN "closed" ELSE "idle")
    /\ known' = IF lisp.cmd = "closeAll" THEN known \ {lisp.vp} ELSE known
    /\ UNCHANGED <<sent, toManager>>

GetClosed == Get("closed", "closed", "idle") /\ UNCHANGED <<known, sent, toManager>>

LispStep == \/ SendGraph \/ MakeViewport2D \/ MakeViewport3D \/ Message \/ Update \/ Close
            \/ GetKey \/ GetPID \/ GetRefusal \/ GetGrant \/ GetAcknowledge \/ GetClosed

-----------------------------------------------------------------------------
(* The viewport manager. *)

OthersOfManager == <<lisp, known, sent, bounds>>
At(pc) == inSync /\ manager.pc = pc /\ UNCHANGED OthersOfManager
Readable == {c \in ToSet(viewports) : up[c] # <<>> \/ Eof(c)}
            \cup (IF toManager # <<>> THEN {SPAD} ELSE {})

Select ==
    /\ At("select") /\ Readable # {}
    /\ manager' = [manager EXCEPT !.pc = "serve", !.ready = Readable]
    /\ UNCHANGED <<viewports, graphList, picked, child, links, inSync>>

Loop == manager' = [manager EXCEPT !.pc = "select", !.ready = {}, !.slot = 0, !.cmd = "none"]

(* The viewport served: the first in the list that was readable, and one only. *)
Served(c) == \E i \in DOMAIN viewports :
    /\ viewports[i] = c /\ c \in manager.ready
    /\ \A j \in 1..(i - 1) : viewports[j] \notin manager.ready

Without(c) == RemoveAt(viewports, CHOOSE i \in DOMAIN viewports : viewports[i] = c)

Says(c, t) == up[c] # <<>> /\ Head(up[c]).t = t
Taken(c) == up' = [up EXCEPT ![c] = Tail(@)]

ReadPick(c) ==
    /\ At("serve") /\ Served(c) /\ Says(c, "pick2D")
    /\ picked' = Head(up[c]).key
    /\ Taken(c) /\ Loop
    /\ UNCHANGED <<viewports, graphList, child, toManager, toLisp, down, inSync>>

(* A drop when nothing was picked is not answered. *)
ReadDrop_Fault(c) ==
    /\ At("serve") /\ Served(c) /\ Says(c, "drop2D")
    /\ IF picked = 0 THEN UNCHANGED down ELSE ToChild(c, <<[t |-> "viewOkay", key |-> picked]>>)
    /\ graphList' = IF Sendable(picked) THEN WithView(graphList, picked, c) ELSE graphList
    /\ inSync' = Sendable(picked)
    /\ Taken(c) /\ Loop
    /\ UNCHANGED <<viewports, picked, child, toManager, toLisp>>

ReadDrop(c) ==
    /\ At("serve") /\ Served(c) /\ Says(c, "drop2D")
    /\ IF picked = 0 THEN ToChild(c, <<[t |-> "viewError"]>>)
                     ELSE ToChild(c, <<[t |-> "viewOkay", key |-> picked]>>)
    /\ graphList' = IF Sendable(picked) THEN WithView(graphList, picked, c) ELSE graphList
    /\ inSync' = Sendable(picked)
    /\ Taken(c) /\ Loop
    /\ UNCHANGED <<viewports, picked, child, toManager, toLisp>>

(* A viewport closed by Lisp stays in the list. *)
ReadClosing_Fault(c) ==
    /\ At("serve") /\ Served(c) /\ ~Says(c, "pick2D") /\ ~Says(c, "drop2D")
    /\ inSync' = (Eof(c) \/ Says(c, "viewportClosing"))
    /\ \E end \in {"no", "ever"} :
          graphList' = IF Says(c, "viewportClosing") THEN RemoveViews(c, Head(up[c]).keys, end) ELSE graphList
    /\ viewports' = IF c \in manager.closing THEN viewports ELSE Without(c)
    /\ up' = [up EXCEPT ![c] = <<>>]
    /\ manager' = [manager EXCEPT !.pc = "wait", !.ready = {}, !.slot = c]
    /\ UNCHANGED <<picked, child, toManager, toLisp, down>>

(* A program that died without a word closes its viewport too, but leaves its graphs. *)
ReadClosing(c) ==
    /\ At("serve") /\ Served(c) /\ ~Says(c, "pick2D") /\ ~Says(c, "drop2D")
    /\ inSync' = (Eof(c) \/ Says(c, "viewportClosing"))
    /\ \E end \in {"no", "ever"} :
          graphList' = IF Says(c, "viewportClosing") THEN RemoveViews(c, Head(up[c]).keys, end) ELSE graphList
    /\ viewports' = Without(c)
    /\ up' = [up EXCEPT ![c] = <<>>]
    /\ manager' = [manager EXCEPT !.pc = "wait", !.ready = {}, !.slot = c]
    /\ UNCHANGED <<picked, child, toManager, toLisp, down>>

(* closeChildViewport waits for some child to exit, not for this one. *)
WaitForChild ==
    /\ At("wait")
    /\ \E c \in Viewport : child[c].pc = "zombie" /\ child' = [child EXCEPT ![c].pc = "reaped"]
    /\ toLisp' = IF manager.slot \in manager.closing THEN Append(toLisp, [t |-> "closed"]) ELSE toLisp
    /\ Loop
    /\ UNCHANGED <<viewports, graphList, picked, toManager, down, up, inSync>>

(* Lisp is served when no viewport was readable. *)
SpadServed_Fault == SPAD \in manager.ready

SpadServed == manager.ready = {SPAD}
SpadSays(t) == toManager # <<>> /\ Head(toManager).t = t
FromSpad(t) == At("serve") /\ SpadServed /\ SpadSays(t) /\ toManager' = Tail(toManager)

(* The key is acknowledged after it was increased. *)

MakeGraph ==
    /\ FromSpad("makeGraph")
    /\ graphList' = [graphList EXCEPT ![manager.graphKey].listed = "yes"]
    /\ toLisp' = Append(toLisp, [t |-> "key", n |-> manager.graphKey])
    /\ manager' = [manager EXCEPT !.pc = "select", !.ready = {}, !.graphKey = @ + 1]
    /\ UNCHANGED <<viewports, picked, child, down, up, inSync>>

(* forkView2D and forkView3D, up to the first word of the program. *)
Fork(V) ==
    LET c == CHOOSE d \in Unborn(V) : \A e \in Unborn(V) : d <= e
    IN  /\ child' = [child EXCEPT ![c].pc = "boot"]
        /\ viewports' = <<c>> \o viewports
        /\ manager' = [manager EXCEPT !.pc = "fork", !.ready = {}, !.slot = c]
        /\ UNCHANGED <<graphList, picked, toLisp, down, up, inSync>>

ForkView2D == FromSpad("make2D") /\ Fork(Viewport2D)
ForkView3D == FromSpad("make3D") /\ Fork(Viewport3D)

(* funView2D and funView3D *)
Call ==
    /\ At("serve") /\ SpadServed /\ toManager # <<>>
    /\ Head(toManager).t \notin {"makeGraph", "make2D", "make3D"}
    /\ inSync' = SpadSays("call")
    /\ toManager' = Tail(toManager)
    /\ IF SpadSays("call") /\ Head(toManager).vp \in ToSet(viewports)
       THEN LET c == Head(toManager).vp
                cmd == Head(toManager).cmd
            IN  /\ toLisp' = Append(toLisp, [t |-> "granted"])
                /\ ToChild(c, <<[t |-> "cmd", cmd |-> cmd]>>)
                /\ manager' = [manager EXCEPT !.pc = IF cmd \in Forwarded THEN "args" ELSE "acknow",
                                              !.ready = {}, !.slot = c, !.cmd = cmd,
                                              !.closing = IF cmd = "closeAll" THEN @ \cup {c} ELSE @]
       ELSE toLisp' = Append(toLisp, [t |-> "refused"]) /\ Loop /\ UNCHANGED down
    /\ UNCHANGED <<viewports, graphList, picked, child, up>>

(***************************************************************************)
(* The rest of forkView2D, forkView3D and funView2D, funView3D: viewman    *)
(* waits for one party at a time and reads whatever that says next.        *)
(***************************************************************************)
FromSlot(pc) == At(pc) /\ (up[manager.slot] # <<>> \/ Eof(manager.slot))
SlotTaken == up' = [up EXCEPT ![manager.slot] = IF @ = <<>> THEN <<>> ELSE Tail(@)]

(* A program that fails to start leaves what Lisp sends for it unread. *)
ReadReady ==
    /\ FromSlot("fork")
    /\ IF Eof(manager.slot) THEN Loop ELSE manager' = [manager EXCEPT !.pc = "data"]
    /\ SlotTaken
    /\ UNCHANGED <<viewports, graphList, picked, child, toManager, toLisp, down, inSync>>

(* makeView2DFromSpadData, and what is sent of it to the program. *)
SendView(slots) ==
    /\ At("data") /\ SpadSays("data")
    /\ toManager' = Tail(toManager)
    /\ ToChild(manager.slot, <<[t |-> "data", slots |-> slots]>>)
    /\ manager' = [manager EXCEPT !.pc = "window"]
    /\ UNCHANGED <<viewports, picked, child, toLisp, up>>

MakeView2D ==
    /\ manager.slot \in Viewport2D /\ toManager # <<>>
    /\ LET slots == Head(toManager).slots
       IN  /\ SendView(slots)
           /\ inSync' = \A i \in Slot : Sendable(slots[i])
           /\ graphList' = IF inSync'
                           THEN [k \in Key |-> [graphList[k] EXCEPT !.views[manager.slot] = @ + Count(slots, k)]]
                           ELSE graphList

(* makeView3DFromSpadData *)
MakeView3D == manager.slot \in Viewport3D /\ SendView(Empty) /\ UNCHANGED <<graphList, inSync>>

ReadWindow ==
    /\ FromSlot("window")
    /\ inSync' = (Eof(manager.slot) \/ Says(manager.slot, "window"))
    /\ toLisp' = Append(toLisp, [t |-> "pid", n |-> manager.slot])
    /\ SlotTaken /\ Loop
    /\ UNCHANGED <<viewports, graphList, picked, child, toManager, down>>

ReadArguments ==
    /\ At("args") /\ toManager # <<>>
    /\ inSync' = (SpadSays("args") /\ Sendable(Head(toManager).key))
    /\ graphList' = IF inSync' THEN WithView(graphList, Head(toManager).key, manager.slot) ELSE graphList
    /\ ToChild(manager.slot, <<[t |-> "args", cmd |-> manager.cmd, key |-> Head(toManager).key]>>)
    /\ toManager' = Tail(toManager)
    /\ manager' = [manager EXCEPT !.pc = "acknow"]
    /\ UNCHANGED <<viewports, picked, child, toLisp, up>>

ReadAcknowledge ==
    /\ FromSlot("acknow")
    /\ inSync' = (Eof(manager.slot) \/ Says(manager.slot, "ack"))
    /\ toLisp' = Append(toLisp, [t |-> "done"])
    /\ SlotTaken /\ Loop
    /\ UNCHANGED <<viewports, graphList, picked, child, toManager, down>>

ManagerStep == \/ Select \/ WaitForChild \/ MakeGraph \/ ForkView2D \/ ForkView3D \/ Call
               \/ ReadReady \/ MakeView2D \/ MakeView3D \/ ReadWindow \/ ReadArguments \/ ReadAcknowledge
               \/ \E c \in Viewport : ReadPick(c) \/ ReadDrop(c) \/ ReadClosing(c)

-----------------------------------------------------------------------------
(* The programs of the viewports. *)

Bye(c) == <<[t |-> "viewportClosing", keys |-> IF c \in Viewport2D THEN child[c].slots ELSE <<>>]>>
OthersOfChild == <<lisp, known, sent, manager, viewports, graphList, picked, toManager, toLisp>>
Runs(c, pc) == inSync /\ child[c].pc = pc /\ UNCHANGED OthersOfChild
Say(c, items) == up' = [up EXCEPT ![c] = @ \o items]
Hear(c) == down' = [down EXCEPT ![c] = Tail(@)]
Hears(c, t) == down[c] # <<>> /\ Head(down[c]).t = t

(* main, before and after the data *)
Boot(c) ==
    /\ Runs(c, "boot")
    /\ child' = [child EXCEPT ![c].pc = "data"]
    /\ Say(c, <<[t |-> "ready"]>>)
    /\ UNCHANGED <<down, bounds, inSync>>

ReadViewData(c) ==
    /\ Runs(c, "data") /\ down[c] # <<>>
    /\ inSync' = Hears(c, "data")
    /\ child' = [child EXCEPT ![c].pc = "loop", ![c].slots = Head(down[c]).slots]
    /\ Say(c, <<[t |-> "window"]>>)
    /\ Hear(c)
    /\ UNCHANGED bounds


(* goodbye hands its graphs back to viewman; the connection to X ends after that. *)
ReadCommand(c) ==
    /\ Runs(c, "loop") /\ down[c] # <<>>
    /\ inSync' = Hears(c, "cmd")
    /\ CASE Head(down[c]).cmd = "closeAll" ->
              child' = [child EXCEPT ![c].pc = "exiting"] /\ Say(c, <<[t |-> "ack"]>> \o Bye(c))
         [] Head(down[c]).cmd = "contour" -> child' = [child EXCEPT ![c].pc = "deaf"] /\ UNCHANGED up
         [] OTHER -> child' = [child EXCEPT ![c].pc = "args"] /\ UNCHANGED up
    /\ Hear(c)
    /\ UNCHANGED bounds

(***************************************************************************)
(* clickedOnGraph and clickedOnGraphSelect of graph i, ch being the state  *)
(* of the program: a pick of an empty slot says nothing; a drop waits.     *)
(***************************************************************************)
Clicked(ch, i) == CASE ch.doit = "pick2D" -> [ch EXCEPT !.doit = "none"]
                    [] ch.doit = "drop2D" -> [ch EXCEPT !.doit = "none", !.currentGraph = i, !.pc = "drop"]
                    [] OTHER -> [ch EXCEPT !.doit = "none"]

ClickedSays(ch, i) == CASE ch.doit = "pick2D" /\ ch.slots[i] # 0 -> <<[t |-> "pick2D", key |-> ch.slots[i]]>>
                        [] ch.doit = "drop2D" -> <<[t |-> "drop2D"]>>
                        [] OTHER -> <<>>

(* putGraph and showing2D click on their graph before the answer is sent. *)
ReadCommandArguments(c) ==
    /\ Runs(c, "args") /\ down[c] # <<>>
    /\ inSync' = Hears(c, "args")
    /\ LET ch == [child[c] EXCEPT !.pc = "loop"]
           args == Head(down[c])
           ack == <<[t |-> "ack"]>>
       IN  IF args.cmd \in {"putGraph", "showing2D"}
           THEN \E i \in Slot :
                   LET put == IF args.cmd = "putGraph" THEN [ch EXCEPT !.slots[i] = args.key] ELSE ch
                   IN  /\ child' = [child EXCEPT ![c] = Clicked(put, i)]
                       /\ Say(c, ClickedSays(put, i) \o IF put.doit = "drop2D" THEN <<>> ELSE ack)
           ELSE child' = [child EXCEPT ![c] = ch] /\ Say(c, ack)
    /\ Hear(c)
    /\ UNCHANGED bounds

(* doDrop after viewman's answer; the graph it replaces stays with this viewport. *)
ReadGoAhead(c) ==
    /\ Runs(c, "drop") /\ down[c] # <<>>
    /\ inSync' = (Hears(c, "viewOkay") \/ Hears(c, "viewError"))
    /\ child' = [child EXCEPT ![c].pc = "loop",
                              ![c].currentGraph = 0,
                              ![c].slots[child[c].currentGraph] = IF Hears(c, "viewOkay") THEN Head(down[c]).key ELSE @]
    /\ Hear(c)
    /\ UNCHANGED <<up, bounds>>

(* exit; SIGCHLD interrupts a waiting select, and superSelect waits for some child. *)
Exit(c) ==
    /\ Runs(c, "exiting")
    /\ LET dead == [child EXCEPT ![c].pc = "zombie"]
       IN  IF manager.pc = "select" /\ Readable = {}
           THEN \E d \in Viewport : dead[d].pc = "zombie" /\ child' = [dead EXCEPT ![d].pc = "reaped"]
           ELSE child' = dead
    /\ UNCHANGED <<up, down, bounds, inSync>>

ProgramStep == \E c \in Viewport : \/ Boot(c) \/ ReadViewData(c) \/ ReadCommand(c)
                                   \/ ReadCommandArguments(c) \/ ReadGoAhead(c) \/ Exit(c)

-----------------------------------------------------------------------------
(* The user, and faults. *)

Untouched(c) == Careful => ~(lisp.pc # "idle" /\ lisp.vp = c)

Click(c) ==
    /\ child[c].pc \in {"loop", "deaf"} /\ Runs(c, child[c].pc)
    /\ Untouched(c)
    /\ clicks < MaxClicks /\ clicks' = clicks + 1
    /\ UNCHANGED <<down, calls, inSync>>

(* Pick and Drop wait for a click on a graph, whatever is clicked before that; *)
(* Query ends that and waits itself, but says nothing.                         *)
PressPickDropQuery(c) ==
    /\ c \in Viewport2D /\ Click(c)
    /\ \E doit \in {"pick2D", "drop2D", "none"} :
          child[c].doit # doit /\ child' = [child EXCEPT ![c].doit = doit]
    /\ UNCHANGED up

(* A graph button, a select button, or Clear, which clicks on all select buttons. *)
PressGraph(c) ==
    /\ child[c].doit # "none" /\ Click(c)
    /\ \E i \in Slot : child' = [child EXCEPT ![c] = Clicked(@, i)] /\ Say(c, ClickedSays(child[c], i))

(* Close pressed twice, or the window deleted by the window manager. *)
Quit(c) ==
    /\ Click(c) /\ MayClose(c)
    /\ child' = [child EXCEPT ![c].pc = "exiting"]
    /\ Say(c, Bye(c))

(* The X server or a signal ends the program without goodbye. *)
Crash(c) ==
    /\ inSync /\ MayCrash /\ child[c].pc \in Up \cup {"exiting"}
    /\ clicks < MaxClicks /\ clicks' = clicks + 1
    /\ child' = [child EXCEPT ![c].pc = "zombie"]
    /\ down' = [down EXCEPT ![c] = <<>>]
    /\ UNCHANGED <<calls, up, inSync, OthersOfChild>>

User(c) == PressPickDropQuery(c) \/ PressGraph(c) \/ Quit(c) \/ Crash(c)

Next == LispStep \/ ManagerStep \/ ProgramStep \/ (\E c \in Viewport : User(c))

(* Lisp, viewman and the programs do not stop all at once while one of them can go *)
(* on; the user need not do anything, and Lisp need not begin a call.              *)
Answers == GetKey \/ GetPID \/ GetRefusal \/ GetGrant \/ GetAcknowledge \/ GetClosed
Fairness == WF_vars(Answers \/ ManagerStep \/ ProgramStep)

Spec == Init /\ [][Next]_vars /\ Fairness

-----------------------------------------------------------------------------
(* Properties. *)

(* Every part of the state has its type (what travels is left to InSync). *)
TypeOK ==
    /\ lisp.pc \in {"idle", "graph", "make", "asked", "acknowledge", "closed"}
    /\ lisp.vp \in Viewport \cup {0} /\ lisp.cmd \in Command \cup {"none"} /\ lisp.keys \subseteq Key
    /\ known \subseteq Viewport /\ sent \subseteq Key /\ picked \in Key \cup {0}
    /\ manager.pc \in {"select", "serve", "wait", "fork", "data", "window", "args", "acknow"}
    /\ manager.ready \subseteq Viewport \cup {SPAD} /\ manager.slot \in Viewport \cup {0}
    /\ manager.closing \subseteq Viewport
    /\ ToSet(viewports) \subseteq Viewport
    /\ \A k \in Key : graphList[k].listed \in {"no", "yes", "ever"} /\ graphList[k].views \in [Viewport -> Nat]
    /\ \A c \in Viewport :
          /\ child[c].pc \in Up \cup Gone \cup {"none", "boot", "data", "deaf", "exiting"}
          /\ child[c].slots \in [Slot -> Key \cup {0}]
    /\ inSync \in BOOLEAN

(* Nobody takes a message for another, and viewman never ends for want of a graph *)
(* (viewman.c, fun2D.c, fun3D.c, process2d.c, view2D.spad).                      *)
InSync == inSync

(***************************************************************************)
(* cleanup.c:119 and 131, "if found (should always be true)": a graph that *)
(* a viewport will hand back is in the list, with at least as many views   *)
(* of that viewport as it has slots with the graph.                        *)
(***************************************************************************)
HeldGraphsKept ==
    \A c \in Viewport2D : child[c].pc \in Up =>
        \A k \in Key : Holds(c, k) =>
            /\ graphList[k].listed # "no"
            /\ graphList[k].views[c] >= Count(child[c].slots, k)

(* Between two calls nothing is left in the socket of Lisp: each call takes exactly its *)
(* own answers (message_U, makeViewport2D0, close).                                    *)
CallsComplete ==
    lisp.pc = "idle" => /\ toLisp = <<>> /\ toManager = <<>>
                        /\ manager.pc \in {"select", "serve", "wait"}

(* When close returns, viewman has forgotten the viewport (view2D.spad:911). *)
ClosedIsForgotten ==
    [][lisp.pc = "closed" /\ lisp'.pc = "idle" => lisp.vp \notin ToSet(viewports)]_vars

(* Every call of Lisp returns and every drop is answered (doDrop waits for viewman and does  *)
(* not draw meanwhile), whatever the user and the programs do: also if they die on the way.  *)
NobodyWaits ==
    /\ lisp.pc # "idle" ~> lisp.pc = "idle"
    /\ \A c \in Viewport2D : child[c].pc = "drop" ~> child[c].pc # "drop"

=============================================================================
