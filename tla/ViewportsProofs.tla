---------------------------- MODULE ViewportsProofs ----------------------------
(***************************************************************************)
(* Proofs about the viewport manager, for careful users (Careful) and with *)
(* programs that may die at any time.                                      *)
(*                                                                         *)
(* Lisp and the manager go through the phases of one call after the other  *)
(* (PhaseInv).  What travels between the manager and a program is one of a *)
(* few short sequences, which depend on the part the program plays in the  *)
(* present call (Role) and on what it does itself (Link).  A graph that    *)
(* was picked up or that a call names stays, because some viewport has     *)
(* more views of it than it will give back (Anchor).                       *)
(***************************************************************************)
EXTENDS Viewports, FiniteSetTheorems, WellFoundedInduction, TLAPS

Slots == [Slot -> Key \cup {0}]
Orders == {"putGraph", "showing2D", "scale", "closeAll"}
GraphRecords == [listed : {"no", "yes", "ever"}, views : [Viewport -> Nat]]
Programs == [pc : Up \cup Gone \cup {"none", "boot", "data", "exiting"},
             doit : {"none", "pick2D", "drop2D"}, currentGraph : Slot \cup {0}, slots : Slots]

LispStates == [pc : {"idle", "graph", "make", "asked", "acknowledge", "closed"}, vp : Viewport \cup {0},
               cmd : Orders \cup {"none"}, keys : SUBSET Key]
ManagerStates == [pc : {"select", "serve", "wait", "fork", "data", "window", "args", "acknow"},
                  ready : SUBSET (Viewport \cup {SPAD}), slot : Viewport \cup {0}, cmd : Orders \cup {"none"},
                  closing : SUBSET Viewport, graphKey : Nat]

(* What travels between the manager and the programs. *)
UpItems == [t : {"ready", "window", "ack", "drop2D"}]
           \cup [t : {"pick2D"}, key : Key]
           \cup [t : {"viewportClosing"}, keys : Slots \cup {<<>>}]
DownItems == [t : {"data"}, slots : Slots]
             \cup [t : {"cmd"}, cmd : Orders]
             \cup [t : {"args"}, cmd : Orders, key : Key \cup {0}]
             \cup [t : {"viewOkay"}, key : Key]
             \cup [t : {"viewError"}]

Types ==
  /\ lisp \in LispStates
  /\ known \subseteq Viewport /\ sent \subseteq Key /\ picked \in Key \cup {0}
  /\ manager \in ManagerStates
  /\ viewports \in Seq(Viewport)
  /\ \A i, j \in DOMAIN viewports : viewports[i] = viewports[j] => i = j
  /\ graphList \in [Key -> GraphRecords]
  /\ child \in [Viewport -> Programs]
  /\ up \in [Viewport -> Seq(UpItems)] /\ down \in [Viewport -> Seq(DownItems)]
  /\ inSync = TRUE

-----------------------------------------------------------------------------
(* The phases of a call. *)

Listed == {viewports[i] : i \in DOMAIN viewports}
Free == manager.pc \in {"select", "serve", "wait"}
InCall == lisp.pc \in {"asked", "acknowledge", "closed"}
Target(c) == InCall /\ lisp.vp = c
Closing(c) == Target(c) /\ lisp.cmd = "closeAll"
ArgKey == IF lisp.keys = {} THEN 0 ELSE CHOOSE k \in lisp.keys : TRUE

CallItem == [t |-> "call", cmd |-> lisp.cmd, vp |-> lisp.vp]
PassItem == [t |-> "args", key |-> ArgKey]
Data(s) == [t |-> "data", slots |-> s]
Granted == [t |-> "granted"]
Done == [t |-> "done"]
Closed == [t |-> "closed"]

(* The viewport that Lisp closes is in the list or waited for, or it is forgotten. *)
Waiting(c) == manager.pc = "wait" /\ manager.slot = c
Forgotten(c) == c \notin Listed /\ ~Waiting(c)
StillThere(c) == c \in manager.closing /\ (c \in Listed \/ Waiting(c))
ForArguments == manager.pc = "args" /\ manager.slot = lisp.vp /\ manager.cmd = lisp.cmd
ForAnswer == manager.pc = "acknow" /\ manager.slot = lisp.vp

GraphPhase ==
  \/ toManager = <<[t |-> "makeGraph"]>> /\ toLisp = <<>> /\ Free /\ manager.graphKey \in Key
  \/ toManager = <<>> /\ Free /\ \E k \in Key : toLisp = <<[t |-> "key", n |-> k]>>

MakePhase ==
  \/ /\ toLisp = <<>> /\ Free
     /\ \E s \in Slots : \/ toManager = <<[t |-> "make2D"], Data(s)>> /\ Unborn(Viewport2D) # {}
                         \/ toManager = <<[t |-> "make3D"], Data(s)>> /\ Unborn(Viewport3D) # {}
  \/ /\ toLisp = <<>> /\ manager.pc \in {"fork", "data"}
     /\ \E s \in Slots : toManager = <<Data(s)>>
  \/ toLisp = <<>> /\ toManager = <<>> /\ manager.pc = "window"
  \/ toManager = <<>> /\ Free /\ \E c \in Viewport : toLisp = <<[t |-> "pid", n |-> c]>>

(* Arguments are given for every command but closeAll. *)
OrderAsked ==
  \/ toManager = <<CallItem>> /\ toLisp = <<>> /\ Free
  \/ toManager = <<>> /\ toLisp = <<[t |-> "refused"]>> /\ Free /\ Forgotten(lisp.vp)
  \/ toManager = <<>> /\ toLisp = <<Granted>> /\ lisp.cmd # "closeAll" /\ ForArguments

OrderAcknowledged ==
  lisp.cmd # "closeAll" /\ \/ toManager = <<PassItem>> /\ toLisp = <<>> /\ ForArguments
                           \/ toManager = <<>> /\ toLisp = <<>> /\ ForAnswer
                           \/ toManager = <<>> /\ toLisp = <<Done>> /\ Free

ClosePhase ==
  /\ lisp.cmd = "closeAll" /\ toManager = <<>>
  /\ \/ /\ \/ lisp.pc = "asked" /\ toLisp = <<Granted>>
           \/ lisp.pc = "acknowledge" /\ toLisp = <<>>
        /\ ForAnswer /\ lisp.vp \in manager.closing
     \/ /\ \/ lisp.pc = "asked" /\ toLisp = <<Granted, Done>>
           \/ lisp.pc = "acknowledge" /\ toLisp = <<Done>>
           \/ lisp.pc = "closed" /\ toLisp = <<>>
        /\ Free /\ StillThere(lisp.vp)
     \/ /\ \/ lisp.pc = "asked" /\ toLisp = <<Granted, Done, Closed>>
           \/ lisp.pc = "acknowledge" /\ toLisp = <<Done, Closed>>
           \/ lisp.pc = "closed" /\ toLisp = <<Closed>>
        /\ Free /\ Forgotten(lisp.vp)

PhaseInv ==
  /\ lisp.pc = "idle" => toManager = <<>> /\ toLisp = <<>> /\ Free
  /\ lisp.pc = "graph" => GraphPhase /\ lisp.keys = {}
  /\ lisp.pc = "make" => MakePhase
  /\ lisp.pc = "asked" => OrderAsked \/ ClosePhase
  /\ lisp.pc = "acknowledge" => OrderAcknowledged \/ ClosePhase
  /\ lisp.pc = "closed" => ClosePhase
  /\ InCall => lisp.vp \in Viewport /\ lisp.cmd \in Orders /\ (lisp.keys = {} \/ \E k \in Key : lisp.keys = {k})

ManagerInv ==
  /\ \A c \in manager.closing : c \in Listed \/ Waiting(c) => Closing(c) /\ toManager = <<>>
  /\ manager.pc = "wait" => manager.slot \in Viewport \ Listed
  /\ manager.pc \in {"select", "serve"} => manager.slot = 0
  /\ manager.pc \in {"args", "acknow"} => manager.slot \in Listed
  /\ manager.pc \in {"fork", "data", "window"} => manager.slot \in Viewport
  /\ manager.pc = "serve" /\ SPAD \in manager.ready => toManager # <<>>
  /\ \A k \in Key : k >= manager.graphKey => graphList[k].listed = "no"

-----------------------------------------------------------------------------
(* What a program and the manager say to each other. *)

(* The part of viewport c in the present call. *)
Parts == {"free", "fork", "data", "window", "args", "acknow"}
Role(c) == IF manager.slot = c /\ manager.pc \in {"fork", "data", "window", "args", "acknow"}
           THEN manager.pc ELSE "free"

Among(u, t) == \E j \in DOMAIN u : u[j].t = t
ByeItem(c, ch) == [t |-> "viewportClosing", keys |-> IF c \in Viewport2D THEN ch.slots ELSE <<>>]

(* The words u of program c, whose state is ch, in part r. *)
Words(c, r, ch, u) ==
  /\ \A j \in DOMAIN u :
        /\ u[j].t = "ready" => j = 1 /\ r = "fork"
        /\ u[j].t = "window" => j = 1 /\ r = "window"
        /\ u[j].t = "ack" => j = 1 /\ r = "acknow"
        /\ u[j].t = "drop2D" => j = Len(u) /\ ch.pc \in Gone \cup {"drop"}
        /\ u[j].t = "viewportClosing" => u[j] = ByeItem(c, ch) /\ ch.pc \in Gone \cup {"exiting"}
  /\ r = "fork" => \/ ch.pc = "boot" /\ u = <<>>
                   \/ ch.pc = "data" /\ u = <<[t |-> "ready"]>>
  /\ r = "data" => ch.pc = "data" /\ u = <<>>
  /\ r = "window" => \/ ch.pc = "data" /\ u = <<>>
                     \/ ch.pc \notin {"none", "boot", "data"} /\ u # <<>> /\ u[1].t = "window"
  /\ r = "args" => u = <<>>
  /\ r = "acknow" => u = <<>> \/ u[1].t = "ack"
  /\ r \in {"free", "args", "acknow"} => ch.pc \notin {"boot", "data"}
  /\ ch.pc = "none" => r = "free" /\ u = <<>>
  /\ ch.pc = "args" => r \in {"args", "acknow"} /\ u = <<>>
  /\ ch.pc = "drop" => ch.doit = "none" /\ ch.currentGraph \in Slot

(* The part of a call that has not reached the program yet. *)
Cmd(o) == [t |-> "cmd", cmd |-> o]
Args(o, k) == [t |-> "args", cmd |-> o, key |-> k]
Pending(r, o, k, ch, u) ==
  IF r = "args" THEN IF ch.pc = "args" THEN <<>> ELSE <<Cmd(o)>>
  ELSE IF r = "acknow" /\ u = <<>>
       THEN IF ch.pc = "args" THEN <<Args(o, k)>>
            ELSE IF o = "closeAll" THEN <<Cmd(o)>> ELSE <<Cmd(o), Args(o, k)>>
  ELSE <<>>

Answer == [t : {"viewOkay"}, key : Key] \cup [t : {"viewError"}]

(* What is on its way to the program: the answer to its drop, and the call. *)
Heard(r, o, k, ch, u, d) ==
  /\ ch.pc \in {"none", "boot", "exiting"} \cup Gone => d = <<>>
  /\ ch.pc = "data" => IF r = "window" THEN \E s \in Slots : d = <<Data(s)>> ELSE d = <<>>
  /\ ch.pc \in {"loop", "args"} \/ (ch.pc = "drop" /\ Among(u, "drop2D")) => d = Pending(r, o, k, ch, u)
  /\ ch.pc = "drop" /\ ~Among(u, "drop2D") => \E a \in Answer : d = <<a>> \o Pending(r, o, k, ch, u)
  /\ ch.pc = "args" => o # "closeAll"

Link(c, r, o, k, ch, u, d) == Words(c, r, ch, u) /\ Heard(r, o, k, ch, u, d)

LinkOf(c) == Link(c, Role(c), lisp.cmd, ArgKey, child[c], up[c], down[c])

(* What the list, the snapshot of select and the call say of program c. *)
Placed(c) ==
  /\ child[c].pc = "exiting" /\ c \in Listed => Among(up[c], "viewportClosing")
  /\ child[c].pc = "none" => c \notin Listed /\ c \notin manager.closing
  /\ c \in Viewport3D => child[c].doit = "none"
  /\ Target(c) /\ lisp.cmd \in {"putGraph", "showing2D"} => child[c].doit = "none"
  /\ manager.pc = "serve" /\ c \in manager.ready => up[c] # <<>> \/ child[c].pc \in Gone
  /\ manager.pc = "serve" /\ SPAD \in manager.ready /\ c \in Listed \ manager.ready /\ Target(c) => up[c] = <<>>

LinksInv == \A c \in Viewport : LinkOf(c)
PlacesInv == \A c \in Viewport : Placed(c)

-----------------------------------------------------------------------------
(* The graphs. *)

Holding(ch, k) == Count(ch.slots, k)
Arriving(d, k) == IF \E j \in DOMAIN d : d[j].t = "viewOkay" /\ d[j].key = k THEN 1 ELSE 0
Putting(d, k) == IF \E j \in DOMAIN d : d[j].t = "args" /\ d[j].key = k THEN 1 ELSE 0
Coming(d, k) == Arriving(d, k) + Putting(d, k)

(* A program has as many views of a graph as it shows or is about to show. *)
Kept(ch, u, d, g, v, k) ==
  /\ ch.pc \in Up \/ Among(u, "viewportClosing") =>
        /\ v >= Holding(ch, k) + Coming(d, k)
        /\ Holding(ch, k) + Coming(d, k) > 0 => g # "no"
  /\ ch.pc = "data" => \A s \in Slots : d = <<Data(s)>> =>
        /\ v >= Count(s, k)
        /\ Count(s, k) > 0 => g # "no"

KeptIn(c, k) == Kept(child[c], up[c], down[c], graphList[k].listed, graphList[k].views[c], k)

(* It will have a view left of graph k when it has given back what it will. *)
Leaving(c, ch, u) == Among(u, "viewportClosing") \/ (Closing(c) /\ ch.pc \in Up)
Spare(leaving, ch, d, v, k) == v > Coming(d, k) + (IF leaving THEN Holding(ch, k) ELSE 0)
Anchor(c, k) == Spare(Leaving(c, child[c], up[c]), child[c], down[c], graphList[k].views[c], k)

Secure(k) == graphList[k].listed = "ever" \/ (graphList[k].listed = "yes" /\ \E c \in Viewport2D : Anchor(c, k))
Unseen(k) == graphList[k].listed = "yes" /\ \A c \in Viewport : graphList[k].views[c] = 0

(* A graph that was picked up, or that a program says was picked up. *)
Picks(u, k) == \E j \in DOMAIN u : u[j].t = "pick2D" /\ u[j].key = k
PickedUp(k) == k = picked \/ \E c \in Viewport : Picks(up[c], k)

(* The graphs of a call that the manager has not passed on yet. *)
Promised == IF lisp.pc = "asked" \/ toManager # <<>> THEN lisp.keys ELSE {}

KeptInv == \A c \in Viewport2D, k \in Key : KeptIn(c, k)
PickInv == \A k \in Key : PickedUp(k) => Secure(k)
PromiseInv ==
  /\ \A k \in Key : k \in Promised => Secure(k) \/ Unseen(k)
  /\ lisp.pc = "make" => \A j \in DOMAIN toManager : toManager[j].t = "data" =>
        \A i \in Slot : toManager[j].slots[i] \in lisp.keys \cup {0}

(* The invariant. *)
SyncInv == Types /\ PhaseInv /\ ManagerInv /\ LinksInv /\ PlacesInv /\ KeptInv /\ PickInv /\ PromiseInv

-----------------------------------------------------------------------------
(* Short sequences. *)
LEMMA TailElems ==
  ASSUME NEW S, NEW s \in Seq(S), s # <<>>
  PROVE  /\ Tail(s) \in Seq(S) /\ Len(s) \in Nat /\ Len(s) > 0
         /\ Len(Tail(s)) = Len(s) - 1
         /\ DOMAIN s = 1 .. Len(s) /\ DOMAIN Tail(s) = 1 .. Len(s) - 1
         /\ \A j \in DOMAIN Tail(s) : Tail(s)[j] = s[j + 1]
         /\ Head(s) = s[1] /\ s[1] \in S
OBVIOUS

LEMMA AppendElems ==
  ASSUME NEW S, NEW s \in Seq(S), NEW x \in S
  PROVE  /\ s \o <<x>> \in Seq(S) /\ Len(s) \in Nat
         /\ Len(s \o <<x>>) = Len(s) + 1
         /\ DOMAIN s = 1 .. Len(s) /\ DOMAIN (s \o <<x>>) = 1 .. Len(s) + 1
         /\ \A j \in 1 .. Len(s) : (s \o <<x>>)[j] = s[j]
         /\ (s \o <<x>>)[Len(s) + 1] = x
OBVIOUS

LEMMA SameElems ==
  ASSUME NEW S, NEW s \in Seq(S), NEW t \in Seq(S), Len(s) = Len(t), \A i \in 1 .. Len(s) : s[i] = t[i]
  PROVE  s = t
OBVIOUS

LEMMA ShortJoins ==
  ASSUME NEW a, NEW b, NEW c
  PROVE  /\ <<>> \o <<a>> = <<a>> /\ <<a>> \o <<>> = <<a>> /\ <<>> \o <<a, b>> = <<a, b>> /\ Append(<<>>, a) = <<a>>
         /\ <<a>> \o <<b>> = <<a, b>> /\ <<a, b>> \o <<c>> = <<a, b, c>> /\ <<a>> \o <<b, c>> = <<a, b, c>>
         /\ Append(<<a>>, b) = <<a, b>> /\ Append(<<a, b>>, c) = <<a, b, c>>
<1> DEFINE S == {a, b, c}
<1>0. <<>> \o <<a>> = <<a>> /\ <<a>> \o <<>> = <<a>> /\ <<>> \o <<a, b>> = <<a, b>> /\ Append(<<>>, a) = <<a>>
  OBVIOUS
<1>1. <<a>> \o <<b>> = <<a, b>>
  <2>1. <<a>> \in Seq(S) /\ <<b>> \in Seq(S) /\ <<a, b>> \in Seq(S) /\ a \in S /\ b \in S /\ c \in S
    OBVIOUS
  <2>2. <<a>> \o <<b>> \in Seq(S) /\ Len(<<a>> \o <<b>>) = 2
    BY <2>1
  <2>3. (<<a>> \o <<b>>)[1] = a /\ (<<a>> \o <<b>>)[2] = b
    BY <2>1
  <2>4. \A i \in 1 .. 2 : (<<a>> \o <<b>>)[i] = <<a, b>>[i]
    BY <2>3
  <2> QED
    BY <2>1, <2>2, <2>4, SameElems
<1>2. <<a, b>> \o <<c>> = <<a, b, c>>
  <2>1. <<a, b>> \in Seq(S) /\ <<c>> \in Seq(S) /\ <<a, b, c>> \in Seq(S) /\ a \in S /\ b \in S /\ c \in S
    OBVIOUS
  <2>2. <<a, b>> \o <<c>> \in Seq(S) /\ Len(<<a, b>> \o <<c>>) = 3
    BY <2>1
  <2>3. (<<a, b>> \o <<c>>)[1] = a /\ (<<a, b>> \o <<c>>)[2] = b /\ (<<a, b>> \o <<c>>)[3] = c
    BY <2>1
  <2>4. \A i \in 1 .. 3 : (<<a, b>> \o <<c>>)[i] = <<a, b, c>>[i]
    BY <2>3
  <2> QED
    BY <2>1, <2>2, <2>4, SameElems
<1>3. <<a>> \o <<b, c>> = <<a, b, c>>
  <2>1. <<a>> \in Seq(S) /\ <<b, c>> \in Seq(S) /\ <<a, b, c>> \in Seq(S) /\ a \in S /\ b \in S /\ c \in S
    OBVIOUS
  <2>2. <<a>> \o <<b, c>> \in Seq(S) /\ Len(<<a>> \o <<b, c>>) = 3
    BY <2>1
  <2>3. (<<a>> \o <<b, c>>)[1] = a /\ (<<a>> \o <<b, c>>)[2] = b /\ (<<a>> \o <<b, c>>)[3] = c
    BY <2>1
  <2>4. \A i \in 1 .. 3 : (<<a>> \o <<b, c>>)[i] = <<a, b, c>>[i]
    BY <2>3
  <2> QED
    BY <2>1, <2>2, <2>4, SameElems
<1>4. Append(<<a>>, b) = <<a, b>>
  <2>1. <<a>> \in Seq(S) /\ <<a, b>> \in Seq(S) /\ a \in S /\ b \in S /\ c \in S
    OBVIOUS
  <2>2. Append(<<a>>, b) \in Seq(S) /\ Len(Append(<<a>>, b)) = 2
    BY <2>1
  <2>3. (Append(<<a>>, b))[1] = a /\ (Append(<<a>>, b))[2] = b
    BY <2>1
  <2>4. \A i \in 1 .. 2 : (Append(<<a>>, b))[i] = <<a, b>>[i]
    BY <2>3
  <2> QED
    BY <2>1, <2>2, <2>4, SameElems
<1>5. Append(<<a, b>>, c) = <<a, b, c>>
  <2>1. <<a, b>> \in Seq(S) /\ <<a, b, c>> \in Seq(S) /\ a \in S /\ b \in S /\ c \in S
    OBVIOUS
  <2>2. Append(<<a, b>>, c) \in Seq(S) /\ Len(Append(<<a, b>>, c)) = 3
    BY <2>1
  <2>3. (Append(<<a, b>>, c))[1] = a /\ (Append(<<a, b>>, c))[2] = b /\ (Append(<<a, b>>, c))[3] = c
    BY <2>1
  <2>4. \A i \in 1 .. 3 : (Append(<<a, b>>, c))[i] = <<a, b, c>>[i]
    BY <2>3
  <2> QED
    BY <2>1, <2>2, <2>4, SameElems
<1> QED
  BY <1>0, <1>1, <1>2, <1>3, <1>4, <1>5

LEMMA ShortTails ==
  ASSUME NEW a, NEW b, NEW c
  PROVE  /\ Tail(<<a>>) = <<>> /\ Tail(<<a, b>>) = <<b>> /\ Tail(<<a, b, c>>) = <<b, c>>
         /\ Head(<<a>>) = a /\ Head(<<a, b>>) = a /\ Head(<<a, b, c>>) = a
         /\ <<a>> # <<>> /\ <<a, b>> # <<>> /\ <<a, b, c>> # <<>>
OBVIOUS

LEMMA ShortElems ==
  ASSUME NEW a, NEW b, NEW c
  PROVE  /\ DOMAIN <<a>> = {1} /\ DOMAIN <<a, b>> = {1, 2} /\ DOMAIN <<a, b, c>> = {1, 2, 3}
         /\ <<a>>[1] = a /\ <<a, b>>[1] = a /\ <<a, b>>[2] = b
         /\ <<a, b, c>>[1] = a /\ <<a, b, c>>[2] = b /\ <<a, b, c>>[3] = c
         /\ Len(<<a>>) = 1 /\ Len(<<a, b>>) = 2
OBVIOUS

LEMMA EmptyElems ==
  /\ DOMAIN <<>> = {} /\ Len(<<>>) = 0 /\ \A S : <<>> \in Seq(S)
OBVIOUS

LEMMA NoElems ==
  ASSUME NEW S, NEW s \in Seq(S), Len(s) = 0
  PROVE  s = <<>>
OBVIOUS

(* Every set of natural numbers has a least one. *)
LEMMA LeastNat ==
  ASSUME NEW T, T \subseteq Nat, T # {}
  PROVE  \E x \in T : \A y \in T : x <= y
<1>1. PICK x \in T : \A y \in T : ~ (<<y, x>> \in OpToRel(<, Nat))
  BY NatLessThanWellFounded, WFMin
<1>2. ASSUME NEW y \in T
      PROVE  x <= y
  <2>1. x \in Nat /\ y \in Nat
    OBVIOUS
  <2>2. ~ (y < x)
    BY <1>1, <2>1 DEF OpToRel
  <2> QED
    BY <2>1, <2>2
<1> QED
  BY <1>2

-----------------------------------------------------------------------------
(* Keys in slots. *)
LEMMA CountType ==
  ASSUME NEW s \in Slots, NEW k \in Key
  PROVE  Count(s, k) \in Nat
<1>1. DOMAIN s = 1 .. maxGraphs /\ IsFiniteSet(1 .. maxGraphs)
  BY ViewportsAssumption, FS_Interval DEF Slots, Slot
<1>2. IsFiniteSet({i \in DOMAIN s : s[i] = k})
  BY <1>1, FS_Subset
<1> QED
  BY <1>2, FS_CardinalityType DEF Count

LEMMA CountHeld ==
  ASSUME NEW s \in Slots, NEW k \in Key
  PROVE  Count(s, k) > 0 <=> \E i \in Slot : s[i] = k
<1>1. DOMAIN s = 1 .. maxGraphs /\ IsFiniteSet(1 .. maxGraphs) /\ Slot = 1 .. maxGraphs
  BY ViewportsAssumption, FS_Interval DEF Slots, Slot
<1> DEFINE T == {i \in DOMAIN s : s[i] = k}
<1>2. IsFiniteSet(T)
  BY <1>1, FS_Subset
<1>3. Cardinality(T) \in Nat /\ (Cardinality(T) = 0 <=> T = {})
  BY <1>2, FS_CardinalityType, FS_EmptySet
<1>4. T # {} <=> \E i \in Slot : s[i] = k
  BY <1>1
<1> QED
  BY <1>3, <1>4 DEF Count

(* One slot that changes adds at most the new key. *)
LEMMA CountPut ==
  ASSUME NEW s \in Slots, NEW i \in Slot, NEW x \in Key \cup {0}, NEW k \in Key
  PROVE  Count([s EXCEPT ![i] = x], k) <= Count(s, k) + (IF x = k THEN 1 ELSE 0)
<1>1. DOMAIN s = 1 .. maxGraphs /\ IsFiniteSet(1 .. maxGraphs) /\ i \in DOMAIN s
  BY ViewportsAssumption, FS_Interval DEF Slots, Slot
<1> DEFINE T == {j \in DOMAIN s : s[j] = k}
           U == {j \in DOMAIN s : [s EXCEPT ![i] = x][j] = k}
<1>2. IsFiniteSet(T) /\ IsFiniteSet(U)
  BY <1>1, FS_Subset
<1>3. Cardinality(T) \in Nat /\ Cardinality(U) \in Nat
  BY <1>2, FS_CardinalityType
<1>4. Count([s EXCEPT ![i] = x], k) = Cardinality(U) /\ Count(s, k) = Cardinality(T)
  BY DEF Count
<1>5. CASE x = k
  <2>1. U \in SUBSET (T \cup {i})
    BY <1>1
  <2>2. IsFiniteSet(T \cup {i}) /\ Cardinality(T \cup {i}) <= Cardinality(T) + 1
    BY <1>2, <1>3, FS_AddElement
  <2>3. Cardinality(U) <= Cardinality(T \cup {i})
    BY <2>1, <2>2, FS_Subset
  <2>4. Cardinality(T \cup {i}) \in Nat
    BY <2>2, FS_CardinalityType
  <2> HIDE DEF T, U
  <2> QED
    BY <1>3, <1>4, <1>5, <2>2, <2>3, <2>4
<1>6. CASE x # k
  <2>1. U \in SUBSET T
    BY <1>1, <1>6
  <2>2. Cardinality(U) <= Cardinality(T)
    BY <1>2, <2>1, FS_Subset
  <2> HIDE DEF T, U
  <2> QED
    BY <1>3, <1>4, <1>6, <2>2
<1> QED
  BY <1>5, <1>6

LEMMA CountNone ==
  ASSUME NEW k \in Key
  PROVE  Count(<<>>, k) = 0 /\ Count(Empty, k) = 0
<1>1. {i \in DOMAIN <<>> : <<>>[i] = k} = {}
  OBVIOUS
<1>2. {i \in DOMAIN Empty : Empty[i] = k} = {}
  BY ViewportsAssumption DEF Empty
<1> QED
  BY <1>1, <1>2, FS_EmptySet DEF Count

-----------------------------------------------------------------------------
(* What happens to a link when its program, its user or the manager speaks *)
(* or listens.  c is the program, r its part, o and k the command and the  *)
(* graph of the call, ch its state, u and d what is on the way.            *)

(* Outside of a call the link does not depend on the command. *)
LEMMA LinkOutside ==
  ASSUME NEW c, NEW r, r \notin {"args", "acknow"}, NEW o, NEW k, NEW o2, NEW k2,
         NEW ch, NEW u, NEW d, Link(c, r, o, k, ch, u, d)
  PROVE  Link(c, r, o2, k2, ch, u, d)
BY DEF Link, Words, Heard, Pending

LEMMA WordsTail ==
  ASSUME NEW c, NEW r, r \in {"free", "window", "acknow"}, NEW ch \in Programs,
         NEW u \in Seq(UpItems), u # <<>>, Words(c, r, ch, u), u[1].t # "drop2D"
  PROVE  /\ Words(c, "free", ch, Tail(u))
         /\ Among(Tail(u), "drop2D") <=> Among(u, "drop2D")
<1> DEFINE v == Tail(u)
<1>1. /\ v \in Seq(UpItems) /\ Len(u) \in Nat /\ Len(v) = Len(u) - 1
      /\ DOMAIN u = 1 .. Len(u) /\ DOMAIN v = 1 .. Len(u) - 1
      /\ \A j \in DOMAIN v : v[j] = u[j + 1]
  BY TailElems
<1> HIDE DEF v
<1>2. \A j \in DOMAIN v : j + 1 \in DOMAIN u /\ j + 1 # 1
  BY <1>1
<1>3. \A j \in DOMAIN v :
        /\ v[j].t \notin {"ready", "window", "ack"}
        /\ v[j].t = "drop2D" => j = Len(v) /\ ch.pc \in Gone \cup {"drop"}
        /\ v[j].t = "viewportClosing" => v[j] = ByeItem(c, ch) /\ ch.pc \in Gone \cup {"exiting"}
  BY <1>1, <1>2 DEF Words
<1>4. ch.pc \notin {"none", "boot", "data", "args"}
  BY DEF Words
<1>5. Words(c, "free", ch, v)
  BY <1>3, <1>4 DEF Words
<1>6. Among(v, "drop2D") => Among(u, "drop2D")
  BY <1>1, <1>2 DEF Among
<1>7. ASSUME Among(u, "drop2D")
      PROVE  Among(v, "drop2D")
  <2>1. PICK j \in DOMAIN u : u[j].t = "drop2D"
    BY <1>7 DEF Among
  <2>2. j # 1
    BY <2>1
  <2>3. j - 1 \in DOMAIN v /\ v[j - 1] = u[j]
    BY <1>1, <2>2
  <2> QED
    BY <2>1, <2>3 DEF Among
<1> QED
  BY <1>5, <1>6, <1>7 DEF v

(* The manager takes a word that is no drop. *)
LEMMA LinkTaken ==
  ASSUME NEW c, NEW r, r \in {"free", "window", "acknow"}, NEW o, NEW k, NEW o2, NEW k2,
         NEW ch \in Programs, NEW u \in Seq(UpItems), u # <<>>, NEW d,
         Link(c, r, o, k, ch, u, d), u[1].t # "drop2D"
  PROVE  Link(c, "free", o2, k2, ch, Tail(u), d)
<1>1. Words(c, "free", ch, Tail(u)) /\ (Among(Tail(u), "drop2D") <=> Among(u, "drop2D"))
  BY WordsTail DEF Link
<1>2. ch.pc # "args" /\ ch.pc # "data"
  BY DEF Link, Words
<1>3. Pending(r, o, k, ch, u) = <<>> /\ Pending("free", o2, k2, ch, Tail(u)) = <<>>
  BY DEF Pending
<1> QED
  BY <1>1, <1>2, <1>3 DEF Link, Heard

WithAnswer(ch, d, a) == IF ch.pc \in Gone THEN d ELSE d \o <<a>>
OnlyAnswer(ch, d, a, e) == ch.pc = "drop" => d = <<>> /\ e = <<a>>

(* It takes a drop, which is the last word, and answers if the program still lives. *)
LEMMA LinkAnswered ==
  ASSUME NEW c, NEW o, NEW k, NEW ch \in Programs, NEW u \in Seq(UpItems), u # <<>>,
         NEW d, Link(c, "free", o, k, ch, u, d), u[1].t = "drop2D",
         NEW a \in Answer, NEW e, e = WithAnswer(ch, d, a)
  PROVE  /\ Tail(u) = <<>> /\ ch.pc \in Gone \cup {"drop"}
         /\ Link(c, "free", o, k, ch, Tail(u), e)
         /\ OnlyAnswer(ch, d, a, e)
<1>1. 1 \in DOMAIN u /\ Len(u) \in Nat /\ Len(Tail(u)) = Len(u) - 1 /\ Tail(u) \in Seq(UpItems)
  BY TailElems
<1>2. Len(u) = 1 /\ ch.pc \in Gone \cup {"drop"}
  BY <1>1 DEF Link, Words
<1>3. Tail(u) = <<>>
  <2>1. Len(Tail(u)) = 0
    BY <1>1, <1>2
  <2> QED
    BY <1>1, <2>1, NoElems
<1>4. ~ Among(Tail(u), "drop2D") /\ Among(u, "drop2D")
  BY <1>1, <1>3, EmptyElems DEF Among
<1>5. Words(c, "free", ch, Tail(u))
  BY <1>2, <1>3, EmptyElems DEF Words, Link, Gone
<1>6. \A x : Pending("free", o, k, ch, x) = <<>>
  BY DEF Pending
<1>7. CASE ch.pc \in Gone
  BY <1>2, <1>3, <1>5, <1>7 DEF Link, Heard, Gone, WithAnswer, OnlyAnswer
<1>8. CASE ch.pc = "drop"
  <2>1. d = <<>>
    BY <1>4, <1>6, <1>8 DEF Link, Heard
  <2>2. e = <<a>> /\ <<a>> \o <<>> = <<a>>
    BY <1>8, <2>1, ShortJoins DEF Gone, WithAnswer
  <2> QED
    BY <1>2, <1>3, <1>4, <1>5, <1>6, <1>8, <2>1, <2>2 DEF Link, Heard, Gone, OnlyAnswer
<1> QED
  BY <1>2, <1>3, <1>7, <1>8

(* A program that is gone, or about to be, says no more. *)
LEMMA LinkGone ==
  ASSUME NEW c, NEW r \in {"free", "args", "acknow"}, NEW o, NEW k, NEW ch, ch.pc \in Gone \cup {"exiting"}
  PROVE  Link(c, r, o, k, ch, <<>>, <<>>)
BY EmptyElems DEF Link, Words, Heard, Gone

LEMMA WordsOfLoop ==
  ASSUME NEW c, NEW r, NEW ch, ch.pc = "loop", NEW u, Words(c, r, ch, u)
  PROVE  ~ Among(u, "drop2D") /\ ~ Among(u, "viewportClosing")
BY DEF Words, Among, Gone

(* The user clicks: nothing, a pick, a drop or the end is said. *)
Clicks(c, ch2, x) ==
  \/ x.t = "pick2D" /\ ch2.pc = "loop"
  \/ x.t = "drop2D" /\ ch2.pc = "drop" /\ ch2.doit = "none" /\ ch2.currentGraph \in Slot
  \/ x = ByeItem(c, ch2) /\ ch2.pc = "exiting"

LEMMA LinkClicked ==
  ASSUME NEW c, NEW r, r \in {"free", "window"}, NEW o, NEW k, NEW ch \in Programs, ch.pc = "loop",
         NEW u \in Seq(UpItems), NEW d, Link(c, r, o, k, ch, u, d),
         NEW ch2 \in Programs, NEW x \in UpItems, Clicks(c, ch2, x)
  PROVE  Link(c, r, o, k, ch2, u \o <<x>>, d) /\ d = <<>>
<1> DEFINE v == u \o <<x>>
<1>1. /\ Len(u) \in Nat /\ Len(v) = Len(u) + 1 /\ v \in Seq(UpItems)
      /\ DOMAIN u = 1 .. Len(u) /\ DOMAIN v = 1 .. Len(u) + 1
      /\ \A j \in 1 .. Len(u) : v[j] = u[j]
      /\ v[Len(u) + 1] = x
  BY AppendElems
<1> HIDE DEF v
<1>2. ~ Among(u, "drop2D") /\ ~ Among(u, "viewportClosing")
  BY WordsOfLoop DEF Link
<1>3. x.t \in {"pick2D", "drop2D", "viewportClosing"}
  BY DEF ByeItem, Clicks
<1>4. \A j \in DOMAIN v : (j \in DOMAIN u /\ v[j] = u[j]) \/ (j = Len(v) /\ v[j] = x)
  BY <1>1
<1>5. \A j \in DOMAIN u : u[j].t # "drop2D" /\ u[j].t # "viewportClosing"
  BY <1>2 DEF Among
<1>6. \A j \in DOMAIN v :
        /\ v[j].t = "ready" => j = 1 /\ r = "fork"
        /\ v[j].t = "window" => j = 1 /\ r = "window"
        /\ v[j].t = "ack" => j = 1 /\ r = "acknow"
        /\ v[j].t = "drop2D" => j = Len(v) /\ ch2.pc \in Gone \cup {"drop"}
        /\ v[j].t = "viewportClosing" => v[j] = ByeItem(c, ch2) /\ ch2.pc \in Gone \cup {"exiting"}
  BY <1>3, <1>4, <1>5 DEF Link, Words, ByeItem, Clicks
<1>7. r = "window" => v # <<>> /\ v[1].t = "window"
  <2>1. r = "window" => u # <<>> /\ u[1].t = "window"
    BY DEF Link, Words
  <2>2. u # <<>> => 1 \in 1 .. Len(u)
    BY <1>1
  <2>3. v # <<>>
    BY <1>1
  <2> QED
    BY <1>1, <2>1, <2>2, <2>3
<1>8. Words(c, r, ch2, v)
  BY <1>6, <1>7 DEF Words, Link, Clicks
<1>9. d = <<>>
  BY DEF Link, Heard, Pending
<1>10. ch2.pc = "drop" => Among(v, "drop2D")
  <2>1. Len(u) + 1 \in DOMAIN v
    BY <1>1
  <2> QED
    BY <1>1, <2>1 DEF Among, ByeItem, Clicks
<1>11. Heard(r, o, k, ch2, v, d)
  BY <1>9, <1>10 DEF Heard, Pending, Gone, Clicks
<1> QED
  BY <1>8, <1>9, <1>11 DEF Link, v

(* Pick, Drop and Query only change what the next click means. *)
LEMMA LinkPressed ==
  ASSUME NEW c, NEW r, NEW o, NEW k, NEW ch \in Programs, ch.pc = "loop",
         NEW u, NEW d, Link(c, r, o, k, ch, u, d), NEW ch2 \in Programs, ch2.pc = "loop"
  PROVE  Link(c, r, o, k, ch2, u, d)
<1>1. \A j \in DOMAIN u : u[j].t # "drop2D" /\ u[j].t # "viewportClosing"
  BY WordsOfLoop DEF Link, Among
<1>2. Words(c, r, ch2, u)
  BY <1>1 DEF Link, Words
<1> QED
  BY <1>2 DEF Link, Heard, Pending, Gone

(* A program that dies leaves what it said. *)
LEMMA LinkDied ==
  ASSUME NEW c, NEW r, NEW o, NEW k, NEW ch \in Programs, ch.pc \in Up \cup Gone \cup {"exiting"},
         NEW u, NEW d, Link(c, r, o, k, ch, u, d),
         NEW ch2 \in Programs, ch2.pc \in Gone, ch2.slots = ch.slots
  PROVE  Link(c, r, o, k, ch2, u, <<>>)
<1>1. ByeItem(c, ch2) = ByeItem(c, ch)
  BY DEF ByeItem
<1>2. Words(c, r, ch2, u)
  BY <1>1 DEF Link, Words, Up, Gone
<1> QED
  BY <1>2 DEF Link, Heard, Gone

(* The program starts, and gets the data of its window. *)
LEMMA LinkStarted ==
  ASSUME NEW c, NEW r \in Parts, NEW o, NEW k, NEW ch \in Programs, ch.pc = "boot",
         NEW u, NEW d, Link(c, r, o, k, ch, u, d), NEW ch2 \in Programs, ch2.pc = "data"
  PROVE  /\ r = "fork" /\ u = <<>> /\ d = <<>>
         /\ Link(c, r, o, k, ch2, <<[t |-> "ready"]>>, <<>>)
<1>1. r = "fork" /\ u = <<>> /\ d = <<>>
  BY DEF Link, Words, Heard, Parts
<1> DEFINE v == <<[t |-> "ready"]>>
<1>2. DOMAIN v = {1} /\ v[1].t = "ready"
  BY ShortElems
<1> HIDE DEF v
<1>3. Words(c, r, ch2, v)
  BY <1>1, <1>2 DEF Words, v
<1> QED
  BY <1>1, <1>3 DEF Link, Heard, Gone, v

LEMMA LinkOpened ==
  ASSUME NEW c, NEW r \in Parts, NEW o, NEW k, NEW ch \in Programs, ch.pc = "data",
         NEW u, NEW d, d # <<>>, Link(c, r, o, k, ch, u, d), NEW ch2 \in Programs, ch2.pc = "loop"
  PROVE  /\ r = "window" /\ u = <<>>
         /\ Link(c, r, o, k, ch2, <<[t |-> "window"]>>, <<>>)
<1>1. r = "window" /\ u = <<>> /\ \E s \in Slots : d = <<Data(s)>>
  BY DEF Link, Words, Heard, Parts
<1> DEFINE v == <<[t |-> "window"]>>
<1>2. DOMAIN v = {1} /\ v[1].t = "window" /\ v # <<>>
  BY ShortElems, ShortTails
<1> HIDE DEF v
<1>3. Words(c, r, ch2, v)
  BY <1>1, <1>2 DEF Words
<1> QED
  BY <1>1, <1>3 DEF Link, Heard, Gone, Pending, v

(* It reads a command, and its arguments. *)
LEMMA LinkCommand ==
  ASSUME NEW c, NEW r, NEW o, NEW k, NEW ch \in Programs, ch.pc = "loop",
         NEW u, NEW d, d # <<>>, Link(c, r, o, k, ch, u, d)
  PROVE  /\ r \in {"args", "acknow"} /\ u = <<>> /\ Head(d) = Cmd(o)
         /\ d = IF r = "args" \/ o = "closeAll" THEN <<Cmd(o)>> ELSE <<Cmd(o), Args(o, k)>>
<1>1. d = Pending(r, o, k, ch, u)
  BY DEF Link, Heard
<1>2. r \in {"args", "acknow"} /\ u = <<>>
  BY <1>1 DEF Pending, Link, Words
<1>3. d = IF r = "args" \/ o = "closeAll" THEN <<Cmd(o)>> ELSE <<Cmd(o), Args(o, k)>>
  BY <1>1, <1>2 DEF Pending
<1> QED
  BY <1>2, <1>3, ShortTails

LEMMA LinkClosing ==
  ASSUME NEW c, NEW o, NEW k, NEW ch \in Programs, ch.pc = "loop",
         NEW u, NEW d, d # <<>>, Link(c, "acknow", o, k, ch, u, d), o = "closeAll",
         NEW ch2 \in Programs, ch2.pc = "exiting", ch2.slots = ch.slots
  PROVE  Link(c, "acknow", o, k, ch2, <<[t |-> "ack"], ByeItem(c, ch2)>>, Tail(d)) /\ Tail(d) = <<>>
<1>1. d = <<Cmd(o)>>
  BY LinkCommand
<1>2. Tail(d) = <<>>
  BY <1>1, ShortTails
<1> DEFINE v == <<[t |-> "ack"], ByeItem(c, ch2)>>
<1>3. DOMAIN v = {1, 2} /\ v[1] = [t |-> "ack"] /\ v[2] = ByeItem(c, ch2) /\ v # <<>>
  BY ShortElems, ShortTails
<1> HIDE DEF v
<1>4. Words(c, "acknow", ch2, v)
  BY <1>3 DEF Words, ByeItem
<1> QED
  BY <1>2, <1>4 DEF Link, Heard, v, Gone

LEMMA LinkOrdered ==
  ASSUME NEW c, NEW r, NEW o, NEW k, NEW ch \in Programs, ch.pc = "loop",
         NEW u, NEW d, d # <<>>, Link(c, r, o, k, ch, u, d), o # "closeAll",
         NEW ch2 \in Programs, ch2.pc = "args"
  PROVE  Link(c, r, o, k, ch2, u, Tail(d))
<1>1. r \in {"args", "acknow"} /\ u = <<>> /\ d = IF r = "args" THEN <<Cmd(o)>> ELSE <<Cmd(o), Args(o, k)>>
  BY LinkCommand
<1>2. Tail(d) = IF r = "args" THEN <<>> ELSE <<Args(o, k)>>
  BY <1>1, ShortTails
<1>3. Words(c, r, ch2, u)
  BY <1>1, EmptyElems DEF Link, Words
<1> QED
  BY <1>1, <1>2, <1>3 DEF Link, Heard, Pending, Gone

LEMMA LinkAcknowledged ==
  ASSUME NEW c, NEW o, NEW k, NEW ch2 \in Programs, ch2.pc = "loop"
  PROVE  Link(c, "acknow", o, k, ch2, <<[t |-> "ack"]>>, <<>>)
<1> DEFINE v == <<[t |-> "ack"]>>
<1>3. DOMAIN v = {1} /\ v[1].t = "ack" /\ v # <<>>
  BY ShortElems, ShortTails
<1> HIDE DEF v
<1>4. Words(c, "acknow", ch2, v)
  BY <1>3 DEF Words
<1>5. Heard("acknow", o, k, ch2, v, <<>>)
  BY <1>3 DEF Heard, Pending, Gone
<1> QED
  BY <1>4, <1>5 DEF Link, v

(* What is on the way is an answer, if the program waits for one, and then the rest. *)
GoAhead(r, o, k, ch, u, d) == ~ Among(u, "drop2D") /\ Head(d) \in Answer /\ Tail(d) = Pending(r, o, k, ch, u)

LEMMA LinkGoAhead ==
  ASSUME NEW c, NEW r, NEW o, NEW k, NEW ch \in Programs, ch.pc = "drop",
         NEW u, NEW d, d # <<>>, Link(c, r, o, k, ch, u, d), NEW ch2 \in Programs, ch2.pc = "loop"
  PROVE  GoAhead(r, o, k, ch, u, d) /\ Link(c, r, o, k, ch2, u, Tail(d))
<1>1. ~ Among(u, "drop2D")
  <2> SUFFICES ASSUME Among(u, "drop2D") PROVE FALSE
    OBVIOUS
  <2>1. d = Pending(r, o, k, ch, u)
    BY DEF Link, Heard
  <2>2. u # <<>>
    BY EmptyElems DEF Among
  <2> QED
    BY <2>1, <2>2 DEF Pending, Link, Words
<1>2. PICK a \in Answer : d = <<a>> \o Pending(r, o, k, ch, u)
  BY <1>1 DEF Link, Heard
<1>3. \/ Pending(r, o, k, ch, u) = <<>>
      \/ \E x : Pending(r, o, k, ch, u) = <<x>>
      \/ \E x, y : Pending(r, o, k, ch, u) = <<x, y>>
  BY DEF Pending
<1>4. Head(d) = a /\ Tail(d) = Pending(r, o, k, ch, u)
  <2> DEFINE p == Pending(r, o, k, ch, u)
  <2> HIDE DEF p
  <2>1. d = <<a>> \o p /\ (p = <<>> \/ (\E x : p = <<x>>) \/ (\E x, y : p = <<x, y>>))
    BY <1>2, <1>3 DEF p
  <2>2. CASE p = <<>>
    BY <2>1, <2>2, ShortJoins, ShortTails DEF p
  <2>3. ASSUME NEW x, p = <<x>>
        PROVE  Head(d) = a /\ Tail(d) = p
    <3>1. d = <<a, x>>
      BY <2>1, <2>3, ShortJoins
    <3> QED
      BY <2>3, <3>1, ShortTails
  <2>4. ASSUME NEW x, NEW y, p = <<x, y>>
        PROVE  Head(d) = a /\ Tail(d) = p
    <3>1. d = <<a, x, y>>
      BY <2>1, <2>4, ShortJoins
    <3> QED
      BY <2>4, <3>1, ShortTails
  <2> QED
    BY <2>1, <2>2, <2>3, <2>4 DEF p
<1>5. Pending(r, o, k, ch2, u) = Pending(r, o, k, ch, u)
  BY DEF Pending
<1>6. \A j \in DOMAIN u : u[j].t # "drop2D" /\ u[j].t # "viewportClosing"
  BY <1>1 DEF Link, Words, Among, Gone
<1>7. Words(c, r, ch2, u)
  BY <1>6 DEF Link, Words
<1> QED
  BY <1>1, <1>2, <1>4, <1>5, <1>7 DEF GoAhead, Link, Heard, Gone

(* The manager starts a program and hands over its data. *)
LEMMA LinkForked ==
  ASSUME NEW c, NEW r, NEW o, NEW k, NEW ch, ch.pc = "none",
         NEW u, NEW d, Link(c, r, o, k, ch, u, d), NEW ch2, ch2.pc = "boot"
  PROVE  Link(c, "fork", o, k, ch2, u, d)
BY EmptyElems DEF Link, Words, Heard, Gone

LEMMA LinkReady ==
  ASSUME NEW c, NEW o, NEW k, NEW ch, NEW u, u # <<>>, NEW d, Link(c, "fork", o, k, ch, u, d)
  PROVE  ch.pc = "data" /\ Link(c, "data", o, k, ch, Tail(u), d)
<1>1. ch.pc = "data" /\ u = <<[t |-> "ready"]>>
  BY DEF Link, Words
<1>2. Tail(u) = <<>>
  BY <1>1, ShortTails
<1> QED
  BY <1>1, <1>2, EmptyElems DEF Link, Words, Heard, Gone

LEMMA LinkSent ==
  ASSUME NEW c, NEW o, NEW k, NEW ch, NEW u, NEW d, Link(c, "data", o, k, ch, u, d), NEW s \in Slots
  PROVE  ch.pc = "data" /\ d = <<>> /\ Link(c, "window", o, k, ch, u, d \o <<Data(s)>>) /\ d \o <<Data(s)>> = <<Data(s)>>
<1>1. ch.pc = "data" /\ u = <<>> /\ d = <<>>
  BY DEF Link, Words, Heard
<1> QED
  BY <1>1, ShortJoins, EmptyElems DEF Link, Words, Heard, Gone

(* The manager calls the program, and passes the arguments on. *)
LEMMA LinkCalled ==
  ASSUME NEW c, NEW o, NEW k, NEW ch, ch.pc \in Up \cup Gone, NEW d,
         Link(c, "free", o, k, ch, <<>>, d), NEW o2, NEW k2,
         NEW e, e = IF ch.pc \in Gone \cup {"exiting"} THEN d ELSE d \o <<Cmd(o2)>>
  PROVE  Link(c, IF o2 = "closeAll" THEN "acknow" ELSE "args", o2, k2, ch, <<>>, e)
<1> DEFINE r == IF o2 = "closeAll" THEN "acknow" ELSE "args"
<1>1. ~ Among(<<>>, "drop2D")
  BY EmptyElems DEF Among
<1>2. ch.pc \in {"loop", "drop"} \cup Gone
  BY DEF Link, Words, Up
<1>3. Words(c, r, ch, <<>>)
  BY <1>2, EmptyElems DEF Words, Link, Gone
<1>4. CASE ch.pc \in Gone
  BY <1>3, <1>4 DEF Link, Heard, Gone
<1>5. CASE ch.pc = "loop"
  <2>1. d = <<>> /\ e = <<Cmd(o2)>>
    BY <1>5, ShortJoins DEF Link, Heard, Pending, Gone
  <2> QED
    BY <1>3, <1>5, <2>1 DEF Link, Heard, Pending, Gone
<1>6. CASE ch.pc = "drop"
  <2>1. PICK a \in Answer : d = <<a>> \o <<>>
    BY <1>1, <1>6 DEF Link, Heard, Pending
  <2>2. e = <<a>> \o <<Cmd(o2)>>
    BY <1>6, <2>1, ShortJoins DEF Gone
  <2>3. Pending(r, o2, k2, ch, <<>>) = <<Cmd(o2)>>
    BY <1>6 DEF Pending
  <2> QED
    BY <1>1, <1>3, <1>6, <2>2, <2>3 DEF Link, Heard, Gone
<1> QED
  BY <1>2, <1>4, <1>5, <1>6

LEMMA LinkPassed ==
  ASSUME NEW c, NEW o, NEW k, o # "closeAll", NEW ch \in Programs, NEW u, NEW d,
         Link(c, "args", o, k, ch, u, d),
         NEW e, e = IF ch.pc \in Gone \cup {"exiting"} THEN d ELSE d \o <<Args(o, k)>>
  PROVE  Link(c, "acknow", o, k, ch, u, e)
<1>1. u = <<>> /\ ~ Among(<<>>, "drop2D")
  BY EmptyElems DEF Among, Link, Words
<1>2. ch.pc \in {"loop", "args", "drop", "exiting"} \cup Gone
  BY DEF Link, Words, Programs, Up, Gone
<1>3. Words(c, "acknow", ch, u)
  BY <1>1, EmptyElems DEF Words, Link
<1>4. CASE ch.pc \in Gone \cup {"exiting"}
  BY <1>3, <1>4 DEF Link, Heard, Gone
<1>5. CASE ch.pc \in {"loop", "args"}
  <2>1. d = IF ch.pc = "args" THEN <<>> ELSE <<Cmd(o)>>
    BY <1>5 DEF Link, Heard, Pending
  <2>2. e = IF ch.pc = "args" THEN <<Args(o, k)>> ELSE <<Cmd(o), Args(o, k)>>
    BY <1>5, <2>1, ShortJoins DEF Gone
  <2> QED
    BY <1>1, <1>3, <1>5, <2>2 DEF Link, Heard, Pending, Gone
<1>6. CASE ch.pc = "drop"
  <2>1. PICK a \in Answer : d = <<a>> \o <<Cmd(o)>>
    BY <1>1, <1>6 DEF Link, Heard, Pending
  <2>2. e = <<a>> \o <<Cmd(o), Args(o, k)>>
    BY <1>6, <2>1, ShortJoins DEF Gone
  <2>3. Pending("acknow", o, k, ch, <<>>) = <<Cmd(o), Args(o, k)>>
    BY <1>6 DEF Pending
  <2> QED
    BY <1>1, <1>3, <1>6, <2>2, <2>3 DEF Link, Heard, Gone
<1> QED
  BY <1>2, <1>4, <1>5, <1>6

-----------------------------------------------------------------------------
(* The parts of a call. *)
LEMMA Basics ==
  /\ SPAD \notin Viewport /\ 0 \notin Viewport /\ 0 \notin Key /\ Viewport \subseteq Nat /\ Key \subseteq Nat
  /\ Viewport2D \subseteq Viewport /\ Viewport3D \subseteq Viewport /\ Viewport2D \cap Viewport3D = {}
  /\ Empty \in Slots /\ Slot \subseteq Nat /\ 0 \notin Slot
BY ViewportsAssumption DEF SPAD, Viewport, Empty, Slots, Slot

LEMMA RoleTypes ==
  ASSUME NEW c
  PROVE  /\ Role(c) \in Parts
         /\ Free \/ manager.slot # c => Role(c) = "free"
         /\ Role(c) # "free" => Role(c) = manager.pc /\ manager.slot = c
BY DEF Role, Parts, Free

(* Only the program of the call plays a part in it. *)
LEMMA PhaseSays ==
  ASSUME Types, PhaseInv
  PROVE  /\ manager.pc \in {"fork", "data", "window"} => lisp.pc = "make" /\ ~InCall
         /\ manager.pc \in {"args", "acknow"} => InCall /\ manager.slot = lisp.vp
         /\ manager.pc = "args" => manager.cmd = lisp.cmd /\ lisp.cmd # "closeAll"
         /\ lisp.pc = "idle" => toManager = <<>> /\ toLisp = <<>> /\ Free
<1>1. lisp.pc \in {"idle", "graph", "make", "asked", "acknowledge", "closed"}
  BY DEF Types, LispStates
<1>2. CASE lisp.pc \in {"idle", "graph"}
  BY <1>2 DEF PhaseInv, GraphPhase, Free
<1>3. CASE lisp.pc = "make"
  BY <1>3 DEF PhaseInv, MakePhase, Free, InCall
<1>4. CASE lisp.pc = "asked"
  BY <1>4 DEF PhaseInv, OrderAsked, ClosePhase, ForArguments, ForAnswer, Free, InCall
<1>5. CASE lisp.pc = "acknowledge"
  BY <1>5 DEF PhaseInv, OrderAcknowledged, ClosePhase, ForArguments, ForAnswer, Free, InCall
<1>6. CASE lisp.pc = "closed"
  BY <1>6 DEF PhaseInv, ClosePhase, ForArguments, ForAnswer, Free, InCall
<1> QED
  BY <1>1, <1>2, <1>3, <1>4, <1>5, <1>6

LEMMA RoleSays ==
  ASSUME Types, PhaseInv, NEW c \in Viewport
  PROVE  /\ Role(c) \in {"fork", "data", "window"} => lisp.pc = "make" /\ ~InCall
         /\ Role(c) \in {"args", "acknow"} => Target(c)
         /\ Role(c) = "args" => manager.cmd = lisp.cmd /\ lisp.cmd # "closeAll"
BY PhaseSays, RoleTypes DEF Target

LEMMA ArgKeyType ==
  ASSUME Types
  PROVE  ArgKey \in Key \cup {0} /\ (lisp.keys # {} => ArgKey \in lisp.keys)
BY DEF Types, LispStates, ArgKey

(* The phase of the call depends on Lisp and the manager only. *)
LEMMA PhaseFrame ==
  ASSUME PhaseInv, UNCHANGED <<lisp, manager, viewports, toManager, toLisp>>,
         Unborn(Viewport2D)' = Unborn(Viewport2D), Unborn(Viewport3D)' = Unborn(Viewport3D)
  PROVE  PhaseInv'
<1>1. Free' = Free /\ Listed' = Listed /\ InCall' = InCall /\ ArgKey' = ArgKey
  BY DEF Free, Listed, InCall, ArgKey
<1>2. MakePhase' = MakePhase
  BY <1>1 DEF MakePhase
<1>3. GraphPhase' = GraphPhase
  BY <1>1 DEF GraphPhase
<1>4. Forgotten(lisp.vp)' = Forgotten(lisp.vp) /\ StillThere(lisp.vp)' = StillThere(lisp.vp)
  BY <1>1 DEF Forgotten, StillThere, Waiting
<1>5. ForArguments' = ForArguments /\ ForAnswer' = ForAnswer /\ CallItem' = CallItem /\ PassItem' = PassItem
  BY <1>1 DEF ForArguments, ForAnswer, CallItem, PassItem
<1>6. OrderAsked' = OrderAsked /\ OrderAcknowledged' = OrderAcknowledged
  BY <1>1, <1>4, <1>5 DEF OrderAsked, OrderAcknowledged
<1>7. ClosePhase' = ClosePhase
  BY <1>1, <1>4, <1>5 DEF ClosePhase
<1> QED
  BY <1>1, <1>2, <1>3, <1>6, <1>7 DEF PhaseInv

LEMMA ManagerFrame ==
  ASSUME ManagerInv, UNCHANGED <<lisp, manager, viewports, graphList, toManager>>
  PROVE  ManagerInv'
<1>1. Listed' = Listed /\ \A c : Closing(c)' = Closing(c) /\ Waiting(c)' = Waiting(c)
  BY DEF Listed, Closing, Waiting, Target, InCall
<1> QED
  BY <1>1 DEF ManagerInv

-----------------------------------------------------------------------------
(* The graphs when one program, or its views, change. *)

LEMMA ComingType ==
  ASSUME NEW d, NEW k
  PROVE  Coming(d, k) \in 0 .. 2 /\ Arriving(d, k) \in 0 .. 1 /\ Putting(d, k) \in 0 .. 1
BY DEF Coming, Arriving, Putting

LEMMA ComingNone ==
  ASSUME NEW k
  PROVE  /\ Coming(<<>>, k) = 0
         /\ \A x : x.t \notin {"viewOkay", "args"} => Coming(<<x>>, k) = 0
<1>1. Coming(<<>>, k) = 0
  BY EmptyElems DEF Coming, Arriving, Putting
<1>2. ASSUME NEW x, x.t \notin {"viewOkay", "args"}
      PROVE  Coming(<<x>>, k) = 0
  <2>1. \A j \in DOMAIN <<x>> : <<x>>[j].t \notin {"viewOkay", "args"}
    BY <1>2, ShortElems
  <2> QED
    BY <2>1 DEF Coming, Arriving, Putting
<1> QED
  BY <1>1, <1>2

(* What is read from the pipe is on its way no more. *)
LEMMA ComingTail ==
  ASSUME NEW d \in Seq(DownItems), d # <<>>, NEW k
  PROVE  /\ Coming(Tail(d), k) <= Coming(d, k)
         /\ Arriving(Tail(d), k) <= Arriving(d, k) /\ Putting(Tail(d), k) <= Putting(d, k)
<1> DEFINE v == Tail(d)
<1>1. \A j \in DOMAIN v : j + 1 \in DOMAIN d /\ v[j] = d[j + 1]
  BY TailElems
<1> HIDE DEF v
<1>2. Arriving(v, k) <= Arriving(d, k)
  BY <1>1 DEF Arriving
<1>3. Putting(v, k) <= Putting(d, k)
  BY <1>1 DEF Putting
<1> QED
  BY <1>2, <1>3, ComingType DEF Coming, v

(* What is written to it adds one at most, if it names the graph. *)
LEMMA ComingMore ==
  ASSUME NEW d \in Seq(DownItems), NEW x \in DownItems, NEW k
  PROVE  Coming(d \o <<x>>, k) <= Coming(d, k) + (IF x.t \in {"viewOkay", "args"} /\ x.key = k THEN 1 ELSE 0)
<1> DEFINE v == d \o <<x>>
<1>1. \A j \in DOMAIN v : (j \in DOMAIN d /\ v[j] = d[j]) \/ v[j] = x
  BY AppendElems
<1> HIDE DEF v
<1>2. Arriving(v, k) <= Arriving(d, k) + (IF x.t = "viewOkay" /\ x.key = k THEN 1 ELSE 0)
  BY <1>1 DEF Arriving
<1>3. Putting(v, k) <= Putting(d, k) + (IF x.t = "args" /\ x.key = k THEN 1 ELSE 0)
  BY <1>1 DEF Putting
<1> QED
  BY <1>2, <1>3, ComingType DEF Coming, v

LEMMA ViewsType ==
  ASSUME Types, NEW c \in Viewport, NEW k \in Key
  PROVE  /\ graphList[k].listed \in {"no", "yes", "ever"} /\ graphList[k].views[c] \in Nat
         /\ Holding(child[c], k) \in Nat /\ child[c] \in Programs /\ child[c].slots \in Slots
         /\ up[c] \in Seq(UpItems) /\ down[c] \in Seq(DownItems)
<1>1. graphList[k] \in GraphRecords
  BY DEF Types
<1>2. child[c] \in Programs
  BY DEF Types
<1>3. child[c].slots \in Slots
  BY <1>2 DEF Programs
<1> QED
  BY <1>1, <1>2, <1>3, CountType DEF GraphRecords, Types, Holding

(* A viewport that stays and shows graph k has a view of it to spare. *)
LEMMA HolderAnchors ==
  ASSUME Types, KeptInv, LinksInv, NEW c \in Viewport2D, NEW k \in Key, child[c].pc \in Up, ~Closing(c), Holds(c, k)
  PROVE  Anchor(c, k) /\ Secure(k)
<1>0. c \in Viewport
  BY Basics
<1>1. KeptIn(c, k) /\ LinkOf(c)
  BY <1>0 DEF KeptInv, LinksInv
<1>2. Holding(child[c], k) > 0
  BY <1>0, ViewsType, CountHeld DEF Holding, Holds
<1>3. /\ graphList[k].views[c] >= Holding(child[c], k) + Coming(down[c], k)
      /\ graphList[k].listed # "no"
  BY <1>0, <1>1, <1>2, ViewsType, ComingType DEF KeptIn, Kept
<1>4. ~ Leaving(c, child[c], up[c])
  BY <1>1 DEF Leaving, LinkOf, Link, Words, Among, Up, Gone
<1>5. Anchor(c, k)
  BY <1>0, <1>2, <1>3, <1>4, ViewsType, ComingType DEF Anchor, Spare
<1> QED
  BY <1>0, <1>3, <1>5, ViewsType DEF Secure

(* If only viewport c changes, and its views, it is enough to look at that one. *)
LEMMA GraphsFrame ==
  ASSUME KeptInv, lisp' = lisp, NEW c \in Viewport,
         \A e \in Viewport \ {c} : child'[e] = child[e] /\ up'[e] = up[e] /\ down'[e] = down[e],
         \A k \in Key : graphList'[k].listed = graphList[k].listed,
         \A k \in Key : \A e \in Viewport \ {c} : graphList'[k].views[e] = graphList[k].views[e],
         \A k \in Key : c \in Viewport2D => KeptIn(c, k)',
         \A k \in Key : c \in Viewport2D /\ Anchor(c, k) => Anchor(c, k)'
  PROVE  KeptInv' /\ \A k \in Key : Secure(k) => Secure(k)'
<1>1. ASSUME NEW e \in Viewport2D, e # c, NEW k \in Key
      PROVE  KeptIn(e, k)' = KeptIn(e, k) /\ Anchor(e, k)' = Anchor(e, k)
  <2>1. e \in Viewport \ {c}
    BY <1>1, Basics
  <2>2. Closing(e)' = Closing(e)
    BY DEF Closing, Target, InCall
  <2> QED
    BY <2>1, <2>2 DEF KeptIn, Anchor, Leaving
<1>2. KeptInv'
  BY <1>1 DEF KeptInv
<1>3. ASSUME NEW k \in Key, Secure(k)
      PROVE  Secure(k)'
  BY <1>1, <1>3 DEF Secure
<1> QED
  BY <1>2, <1>3
-----------------------------------------------------------------------------
(* Steps of one program, and of its user. *)

(* The call that the program takes part in knows no difference. *)
LEMMA OthersFrame ==
  ASSUME UNCHANGED <<lisp, manager, viewports, toManager>>
  PROVE  /\ ArgKey' = ArgKey /\ Listed' = Listed /\ Promised' = Promised
         /\ \A c : Role(c)' = Role(c) /\ Target(c)' = Target(c) /\ Closing(c)' = Closing(c)
BY DEF ArgKey, Listed, Promised, Role, Target, Closing, InCall

LEMMA UnseenFrame ==
  ASSUME UNCHANGED graphList
  PROVE  \A k : Unseen(k)' = Unseen(k)
BY DEF Unseen

(* Graphs that somebody asked for. *)
Wanted(k) == PickedUp(k) \/ k \in Promised

(* Program c is in state ch, with u and d on the way, and all else is as it was. *)
OneProgram(c, ch, u, d) ==
  /\ UNCHANGED OthersOfChild
  /\ child' = [child EXCEPT ![c] = ch] /\ up' = [up EXCEPT ![c] = u] /\ down' = [down EXCEPT ![c] = d]
  /\ inSync' = TRUE

LEMMA OneProgramKeepsInv ==
  ASSUME SyncInv, NEW c \in Viewport, NEW ch \in Programs, NEW u \in Seq(UpItems), NEW d \in Seq(DownItems),
         OneProgram(c, ch, u, d),
         child[c].pc # "none", ch.pc # "none",
         Link(c, Role(c), lisp.cmd, ArgKey, ch, u, d),
         ch.pc = "exiting" /\ c \in Listed => Among(u, "viewportClosing"),
         c \in Viewport3D => ch.doit = "none",
         Target(c) /\ lisp.cmd \in {"putGraph", "showing2D"} => ch.doit = "none",
         up[c] # <<>> \/ child[c].pc \in Gone => u # <<>> \/ ch.pc \in Gone,
         manager.pc = "serve" /\ Target(c) => u = up[c],
         \A k \in Key : c \in Viewport2D => Kept(ch, u, d, graphList[k].listed, graphList[k].views[c], k),
         \A k \in Key : Wanted(k) /\ Secure(k) => Secure(k)',
         \A k \in Key : Picks(u, k) => Picks(up[c], k) \/ Secure(k)'
  PROVE  SyncInv'
<1>1. /\ UNCHANGED <<lisp, known, sent, manager, viewports, graphList, picked, toManager, toLisp>>
      /\ child' = [child EXCEPT ![c] = ch] /\ up' = [up EXCEPT ![c] = u] /\ down' = [down EXCEPT ![c] = d]
      /\ inSync' = TRUE
  BY DEF OneProgram, OthersOfChild
<1>2. /\ Types /\ PhaseInv /\ ManagerInv /\ LinksInv /\ PlacesInv /\ KeptInv /\ PickInv /\ PromiseInv
      /\ child \in [Viewport -> Programs] /\ up \in [Viewport -> Seq(UpItems)]
      /\ down \in [Viewport -> Seq(DownItems)]
  BY DEF SyncInv, Types
<1>3. /\ child'[c] = ch /\ up'[c] = u /\ down'[c] = d
      /\ \A e \in Viewport \ {c} : child'[e] = child[e] /\ up'[e] = up[e] /\ down'[e] = down[e]
  BY <1>1, <1>2
<1>4. Types'
  <2>1. /\ child' \in [Viewport -> Programs] /\ up' \in [Viewport -> Seq(UpItems)]
        /\ down' \in [Viewport -> Seq(DownItems)]
    BY <1>1, <1>2
  <2> QED
    BY <1>1, <1>2, <2>1 DEF Types
<1>5. PhaseInv'
  <2>1. \A e \in Viewport : child'[e].pc = "none" <=> child[e].pc = "none"
    BY <1>3
  <2>2. Unborn(Viewport2D)' = Unborn(Viewport2D) /\ Unborn(Viewport3D)' = Unborn(Viewport3D)
    BY <2>1, Basics DEF Unborn
  <2> QED
    BY <1>1, <1>2, <2>2, PhaseFrame
<1>6. ManagerInv'
  BY <1>1, <1>2, ManagerFrame
<1>7. /\ ArgKey' = ArgKey /\ Listed' = Listed /\ Promised' = Promised
      /\ \A e : Role(e)' = Role(e) /\ Target(e)' = Target(e) /\ Closing(e)' = Closing(e)
  BY <1>1, OthersFrame
<1>8. LinksInv'
  <2>1. LinkOf(c)'
    BY <1>1, <1>3, <1>7 DEF LinkOf
  <2>2. ASSUME NEW e \in Viewport, e # c
        PROVE  LinkOf(e)'
    <3>1. LinkOf(e) /\ e \in Viewport \ {c}
      BY <1>2, <2>2 DEF LinksInv
    <3> QED
      BY <1>1, <1>3, <1>7, <3>1 DEF LinkOf
  <2> QED
    BY <2>1, <2>2 DEF LinksInv
<1>9. PlacesInv'
  <2>1. Placed(c)'
    <3>1. Placed(c)
      BY <1>2 DEF PlacesInv
    <3> QED
      BY <1>1, <1>3, <1>7, <3>1 DEF Placed
  <2>2. ASSUME NEW e \in Viewport, e # c
        PROVE  Placed(e)'
    <3>1. Placed(e) /\ e \in Viewport \ {c}
      BY <1>2, <2>2 DEF PlacesInv
    <3> QED
      BY <1>1, <1>3, <1>7, <3>1 DEF Placed
  <2> QED
    BY <2>1, <2>2 DEF PlacesInv
<1>10. KeptInv'
  <2> SUFFICES ASSUME NEW e \in Viewport2D, NEW k \in Key
               PROVE  KeptIn(e, k)'
    BY DEF KeptInv
  <2>1. CASE e = c
    BY <1>1, <1>3, <2>1 DEF KeptIn
  <2>2. CASE e # c
    <3>1. KeptIn(e, k) /\ e \in Viewport \ {c}
      BY <1>2, <2>2, Basics DEF KeptInv
    <3> QED
      BY <1>1, <1>3, <3>1 DEF KeptIn
  <2> QED
    BY <2>1, <2>2
<1>11. PickInv'
  <2> SUFFICES ASSUME NEW k \in Key, PickedUp(k)'
               PROVE  Secure(k)'
    BY DEF PickInv
  <2>1. CASE PickedUp(k)
    BY <1>2, <2>1 DEF PickInv, Wanted
  <2>2. CASE ~PickedUp(k)
    <3>1. PICK e \in Viewport : Picks(up'[e], k) /\ ~Picks(up[e], k)
      BY <1>1, <2>2 DEF PickedUp, Picks
    <3>2. e = c
      BY <1>3, <3>1
    <3> QED
      BY <1>3, <3>1, <3>2
  <2> QED
    BY <2>1, <2>2
<1>12. PromiseInv'
  <2>1. ASSUME NEW k \in Key, k \in Promised
        PROVE  Secure(k)' \/ Unseen(k)'
    <3>1. Wanted(k) /\ (Secure(k) \/ Unseen(k))
      BY <1>2, <2>1 DEF PromiseInv, Wanted
    <3> QED
      BY <1>1, <3>1, UnseenFrame
  <2> QED
    BY <1>1, <1>2, <1>7, <2>1 DEF PromiseInv
<1> QED
  BY <1>4, <1>5, <1>6, <1>8, <1>9, <1>10, <1>11, <1>12 DEF SyncInv

(* What the graphs ask of the step, if no word changes hands but maybe a drop. *)
LEMMA OneProgramGraphs ==
  ASSUME SyncInv, NEW c \in Viewport, NEW ch \in Programs, NEW u \in Seq(UpItems), NEW d \in Seq(DownItems),
         OneProgram(c, ch, u, d),
         \A k \in Key : c \in Viewport2D => Kept(ch, u, d, graphList[k].listed, graphList[k].views[c], k),
         \A k \in Key : c \in Viewport2D /\ Anchor(c, k) =>
             Spare(Leaving(c, ch, u), ch, d, graphList[k].views[c], k)
  PROVE  \A k \in Key : Secure(k) => Secure(k)'
<1>1. /\ UNCHANGED <<lisp, graphList>>
      /\ child' = [child EXCEPT ![c] = ch] /\ up' = [up EXCEPT ![c] = u] /\ down' = [down EXCEPT ![c] = d]
      /\ KeptInv
      /\ child \in [Viewport -> Programs] /\ up \in [Viewport -> Seq(UpItems)]
      /\ down \in [Viewport -> Seq(DownItems)]
  BY DEF OneProgram, OthersOfChild, SyncInv, Types
<1>2. /\ child'[c] = ch /\ up'[c] = u /\ down'[c] = d
      /\ \A e \in Viewport \ {c} : child'[e] = child[e] /\ up'[e] = up[e] /\ down'[e] = down[e]
  BY <1>1
<1>3. Closing(c)' = Closing(c)
  BY <1>1 DEF Closing, Target, InCall
<1>4. \A k \in Key : c \in Viewport2D => KeptIn(c, k)'
  BY <1>1, <1>2 DEF KeptIn
<1>5. \A k \in Key : c \in Viewport2D /\ Anchor(c, k) => Anchor(c, k)'
  BY <1>1, <1>2, <1>3 DEF Anchor, Leaving
<1> QED
  BY <1>1, <1>2, <1>4, <1>5, GraphsFrame
LEMMA ProgramFacts ==
  ASSUME SyncInv, NEW c \in Viewport
  PROVE  /\ child[c] \in Programs /\ up[c] \in Seq(UpItems) /\ down[c] \in Seq(DownItems)
         /\ child[c].pc \in Up \cup Gone \cup {"none", "boot", "data", "exiting"}
         /\ child[c].slots \in Slots
         /\ child \in [Viewport -> Programs] /\ up \in [Viewport -> Seq(UpItems)]
         /\ down \in [Viewport -> Seq(DownItems)] /\ inSync = TRUE
         /\ Role(c) \in Parts
         /\ Link(c, Role(c), lisp.cmd, ArgKey, child[c], up[c], down[c])
         /\ Placed(c)
         /\ \A k \in Key : c \in Viewport2D => KeptIn(c, k)
         /\ Types /\ PhaseInv
<1>1. child[c] \in Programs
  BY DEF SyncInv, Types
<1> QED
  BY <1>1, RoleTypes DEF SyncInv, Types, LinksInv, LinkOf, PlacesInv, KeptInv, Programs

(* What it had to spare it still has if no more is on its way and it does not begin to leave. *)
LEMMA AnchorStays ==
  ASSUME SyncInv, NEW c \in Viewport, NEW k \in Key, Anchor(c, k),
         NEW ch \in Programs, NEW u, NEW d, Coming(d, k) <= Coming(down[c], k),
         Leaving(c, ch, u) => Leaving(c, child[c], up[c]) /\ ch.slots = child[c].slots
  PROVE  Spare(Leaving(c, ch, u), ch, d, graphList[k].views[c], k)
<1>1. /\ graphList[k].views[c] \in Nat /\ Holding(child[c], k) \in Nat
      /\ Coming(d, k) \in Nat /\ Coming(down[c], k) \in Nat
  <2>1. graphList[k].views[c] \in Nat /\ Holding(child[c], k) \in Nat
    BY ViewsType, ProgramFacts
  <2> QED
    BY <2>1, ComingType
<1>2. CASE Leaving(c, ch, u)
  <2>1. Holding(ch, k) = Holding(child[c], k) /\ Leaving(c, child[c], up[c])
    BY <1>2 DEF Holding
  <2> QED
    BY <1>1, <1>2, <2>1 DEF Anchor, Spare
<1>3. CASE ~Leaving(c, ch, u)
  BY <1>1, <1>3 DEF Anchor, Spare
<1> QED
  BY <1>2, <1>3

(* The program starts. *)
LEMMA BootKeepsInv ==
  ASSUME SyncInv, NEW c \in Viewport, Boot(c)
  PROVE  SyncInv'
<1> DEFINE ch == [child[c] EXCEPT !.pc = "data"]
           u == <<[t |-> "ready"]>>
           d == <<>>
<1>1. /\ child[c].pc = "boot" /\ UNCHANGED OthersOfChild /\ inSync' = inSync
      /\ child' = [child EXCEPT ![c] = ch] /\ up' = [up EXCEPT ![c] = up[c] \o <<[t |-> "ready"]>>]
      /\ down' = down
  BY DEF Boot, Runs, Say
<1>2. ch \in Programs /\ ch.pc = "data" /\ ch.slots = child[c].slots /\ ch.doit = child[c].doit
  BY ProgramFacts DEF Programs
<1>3. /\ Role(c) = "fork" /\ up[c] = <<>> /\ down[c] = <<>>
      /\ Link(c, Role(c), lisp.cmd, ArgKey, ch, u, d)
  BY <1>1, <1>2, ProgramFacts, LinkStarted
<1>4. u = up[c] \o u /\ u \in Seq(UpItems) /\ d \in Seq(DownItems) /\ down = [down EXCEPT ![c] = d]
  <2>1. [t |-> "ready"] \in UpItems
    BY DEF UpItems
  <2>2. u \in Seq(UpItems)
    BY <2>1
  <2>3. down = [down EXCEPT ![c] = d]
    BY <1>3, ProgramFacts
  <2> QED
    BY <1>3, <2>2, <2>3, ShortJoins, EmptyElems
<1>5. OneProgram(c, ch, u, d)
  BY <1>1, <1>4, ProgramFacts DEF OneProgram
<1>6. DOMAIN u = {1} /\ u[1].t = "ready" /\ u # <<>>
  BY ShortElems, ShortTails
<1> HIDE DEF ch, u
<1>7. ~ Among(u, "viewportClosing") /\ \A k : ~ Picks(u, k)
  BY <1>6 DEF Among, Picks
<1>8. \A k \in Key : Kept(ch, u, d, graphList[k].listed, graphList[k].views[c], k)
  BY <1>2, <1>7, ShortTails DEF Kept, Up
<1>9. ASSUME NEW k \in Key, Anchor(c, k)
      PROVE  Spare(Leaving(c, ch, u), ch, d, graphList[k].views[c], k)
  <2>1. ~ Leaving(c, ch, u) /\ Coming(d, k) = 0 /\ Coming(down[c], k) = 0
    BY <1>2, <1>3, <1>7, ComingNone DEF Leaving, Up
  <2> QED
    BY <1>2, <1>9, <2>1, AnchorStays
<1>10. \A k \in Key : Secure(k) => Secure(k)'
  BY <1>2, <1>4, <1>5, <1>8, <1>9, OneProgramGraphs
<1>11. manager.pc # "serve"
  BY <1>3 DEF Role
<1>12. ~ Target(c)
  BY <1>3, RoleSays, ProgramFacts DEF Target
<1>13. c \in Viewport3D => ch.doit = "none"
  BY <1>2, ProgramFacts DEF Placed
<1> QED
  BY <1>1, <1>2, <1>3, <1>4, <1>5, <1>6, <1>7, <1>8, <1>10, <1>11, <1>12, <1>13, OneProgramKeepsInv

(* It gets its data and opens its window. *)
LEMMA ReadViewDataKeepsInv ==
  ASSUME SyncInv, NEW c \in Viewport, ReadViewData(c)
  PROVE  SyncInv'
<1> DEFINE ch == [child[c] EXCEPT !.pc = "loop", !.slots = Head(down[c]).slots]
           u == <<[t |-> "window"]>>
           d == <<>>
<1>1. /\ child[c].pc = "data" /\ down[c] # <<>> /\ UNCHANGED OthersOfChild
      /\ inSync' = (down[c] # <<>> /\ Head(down[c]).t = "data")
      /\ child' = [child EXCEPT ![c].pc = "loop", ![c].slots = Head(down[c]).slots]
      /\ up' = [up EXCEPT ![c] = up[c] \o <<[t |-> "window"]>>]
      /\ down' = [down EXCEPT ![c] = Tail(down[c])]
  BY DEF ReadViewData, Runs, Say, Hear, Hears
<1>2. PICK s \in Slots : down[c] = <<Data(s)>>
  BY <1>1, ProgramFacts DEF Link, Words, Heard, Parts
<1>3. Head(down[c]) = Data(s) /\ Tail(down[c]) = <<>>
  BY <1>2, ShortTails
<1>4. ch \in Programs /\ ch.pc = "loop" /\ ch.slots = s /\ ch.doit = child[c].doit
  <2>1. Head(down[c]).slots = s /\ s \in Slots
    BY <1>2, <1>3 DEF Data
  <2> QED
    BY <2>1, ProgramFacts DEF Programs, Up
<1>0. child' = [child EXCEPT ![c] = ch]
  BY <1>1, ProgramFacts
<1> HIDE DEF ch
<1>5. /\ Role(c) = "window" /\ up[c] = <<>>
      /\ Link(c, Role(c), lisp.cmd, ArgKey, ch, u, d)
  <2>1. /\ child[c] \in Programs /\ child[c].pc = "data" /\ down[c] # <<>> /\ Role(c) \in Parts
        /\ Link(c, Role(c), lisp.cmd, ArgKey, child[c], up[c], down[c])
    BY <1>1, ProgramFacts
  <2> QED
    BY <1>4, <2>1, LinkOpened
<1>6. u = up[c] \o u /\ u \in Seq(UpItems) /\ d \in Seq(DownItems)
  <2>1. [t |-> "window"] \in UpItems
    BY DEF UpItems
  <2>2. u \in Seq(UpItems)
    BY <2>1
  <2> QED
    BY <1>5, <2>2, ShortJoins, EmptyElems
<1>7. inSync' = TRUE
  <2>1. Head(down[c]).t = "data"
    BY <1>3 DEF Data
  <2> QED
    BY <1>1, <2>1
<1>8. OneProgram(c, ch, u, d)
  BY <1>0, <1>1, <1>3, <1>6, <1>7 DEF OneProgram
<1>9. DOMAIN u = {1} /\ u[1].t = "window" /\ u # <<>>
  BY ShortElems, ShortTails
<1> HIDE DEF u
<1>10. ~ Among(u, "viewportClosing") /\ \A k : ~ Picks(u, k)
  BY <1>9 DEF Among, Picks
<1>11. ~ Target(c) /\ ~ InCall /\ manager.pc # "serve"
  BY <1>5, RoleSays, ProgramFacts DEF Role, Target
<1>12. \A k : Coming(d, k) = 0 /\ Coming(down[c], k) = 0
  BY <1>2, ComingNone DEF Data
<1>13. ASSUME NEW k \in Key, c \in Viewport2D
       PROVE  Kept(ch, u, d, graphList[k].listed, graphList[k].views[c], k)
  <2>1. /\ graphList[k].views[c] >= Count(s, k)
        /\ Count(s, k) > 0 => graphList[k].listed # "no"
    BY <1>1, <1>2, <1>13, ProgramFacts DEF KeptIn, Kept
  <2> QED
    BY <1>4, <1>12, <2>1, CountType DEF Kept, Holding
<1>14. ASSUME NEW k \in Key, Anchor(c, k)
       PROVE  Spare(Leaving(c, ch, u), ch, d, graphList[k].views[c], k)
  <2>1. ~ Leaving(c, ch, u)
    BY <1>10, <1>11 DEF Leaving, Closing, Target
  <2> QED
    BY <1>4, <1>12, <1>14, <2>1, AnchorStays
<1>15. \A k \in Key : Secure(k) => Secure(k)'
  BY <1>4, <1>6, <1>8, <1>13, <1>14, OneProgramGraphs
<1>16. c \in Viewport3D => ch.doit = "none"
  BY <1>4, ProgramFacts DEF Placed
<1> QED
  BY <1>1, <1>4, <1>5, <1>6, <1>8, <1>9, <1>10, <1>11, <1>13, <1>15, <1>16, OneProgramKeepsInv

(* It is told to close, or to change. *)
LEMMA ReadCommandKeepsInv ==
  ASSUME SyncInv, NEW c \in Viewport, ReadCommand(c)
  PROVE  SyncInv'
<1>1. /\ child[c].pc = "loop" /\ down[c] # <<>> /\ UNCHANGED OthersOfChild
      /\ inSync' = (down[c] # <<>> /\ Head(down[c]).t = "cmd")
      /\ down' = [down EXCEPT ![c] = Tail(down[c])]
  BY DEF ReadCommand, Runs, Hear, Hears
<1>2. /\ Role(c) \in {"args", "acknow"} /\ up[c] = <<>> /\ Head(down[c]) = Cmd(lisp.cmd)
      /\ down[c] = IF Role(c) = "args" \/ lisp.cmd = "closeAll" THEN <<Cmd(lisp.cmd)>>
                   ELSE <<Cmd(lisp.cmd), Args(lisp.cmd, ArgKey)>>
  <2>1. /\ child[c] \in Programs /\ child[c].pc = "loop" /\ down[c] # <<>>
        /\ Link(c, Role(c), lisp.cmd, ArgKey, child[c], up[c], down[c])
    BY <1>1, ProgramFacts
  <2> QED
    BY <2>1, LinkCommand
<1>3. Target(c) /\ lisp.cmd \in Orders /\ (Role(c) = "args" => lisp.cmd # "closeAll") /\ manager.pc # "serve"
  BY <1>2, RoleSays, ProgramFacts DEF Target, PhaseInv, Role
<1>4. inSync' = TRUE /\ Head(down[c]).cmd = lisp.cmd
  <2>1. Head(down[c]).t = "cmd" /\ Head(down[c]).cmd = lisp.cmd
    BY <1>2 DEF Cmd
  <2> QED
    BY <1>1, <2>1
<1>5. /\ Tail(down[c]) \in Seq(DownItems)
      /\ \A k \in Key : Coming(Tail(down[c]), k) <= Coming(down[c], k)
  BY <1>1, ProgramFacts, TailElems, ComingTail
<1>6. ~ Among(up[c], "viewportClosing")
  BY <1>2, EmptyElems DEF Among
<1>7. CASE lisp.cmd = "closeAll"
  <2> DEFINE ch == [child[c] EXCEPT !.pc = "exiting"]
             d == Tail(down[c])
  <2>1. ch \in Programs /\ ch.pc = "exiting" /\ ch.slots = child[c].slots /\ ch.doit = child[c].doit
    BY ProgramFacts DEF Programs
  <2> DEFINE u == <<[t |-> "ack"], ByeItem(c, ch)>>
  <2>2. child' = [child EXCEPT ![c] = ch] /\ up' = [up EXCEPT ![c] = u]
    <3>1. Bye(c) = <<ByeItem(c, ch)>>
      BY <2>1 DEF Bye, ByeItem
    <3>2. <<[t |-> "ack"]>> \o <<ByeItem(c, ch)>> = u
      BY ShortJoins
    <3>3. u = up[c] \o u
      BY <1>2, ShortJoins
    <3> QED
      BY <1>4, <1>7, <3>1, <3>2, <3>3 DEF ReadCommand, Say
  <2>3. u \in Seq(UpItems)
    <3>1. [t |-> "ack"] \in UpItems /\ ByeItem(c, ch) \in UpItems
      BY <2>1, ProgramFacts DEF UpItems, ByeItem
    <3> HIDE DEF ch
    <3> QED
      BY <3>1
  <2>4. Link(c, Role(c), lisp.cmd, ArgKey, ch, u, d) /\ d = <<>>
    <3>1. /\ child[c] \in Programs /\ child[c].pc = "loop" /\ down[c] # <<>>
          /\ Link(c, "acknow", lisp.cmd, ArgKey, child[c], up[c], down[c]) /\ Role(c) = "acknow"
      BY <1>1, <1>2, <1>3, <1>7, ProgramFacts
    <3> HIDE DEF ch
    <3> QED
      BY <1>7, <2>1, <3>1, LinkClosing
  <2>5. OneProgram(c, ch, u, d)
    BY <1>1, <1>4, <2>2 DEF OneProgram
  <2>6. DOMAIN u = {1, 2} /\ u[1].t = "ack" /\ u[2].t = "viewportClosing" /\ u # <<>>
    BY ShortElems, ShortTails DEF ByeItem
  <2> HIDE DEF ch, u, d
  <2>7. Among(u, "viewportClosing") /\ \A k : ~ Picks(u, k)
    BY <2>6 DEF Among, Picks
  <2>8. \A k \in Key : Holding(ch, k) = Holding(child[c], k) /\ Coming(d, k) = 0
    BY <2>1, <2>4, ComingNone DEF Holding
  <2>9. ASSUME NEW k \in Key, c \in Viewport2D
        PROVE  Kept(ch, u, d, graphList[k].listed, graphList[k].views[c], k)
    <3>1. KeptIn(c, k) /\ Holding(child[c], k) \in Nat /\ graphList[k].views[c] \in Nat
      BY <2>9, ProgramFacts, ViewsType
    <3> QED
      BY <1>1, <2>1, <2>8, <3>1, ComingType DEF Kept, KeptIn, Up
  <2>10. ASSUME NEW k \in Key, Anchor(c, k)
         PROVE  Spare(Leaving(c, ch, u), ch, d, graphList[k].views[c], k)
    <3>1. Leaving(c, child[c], up[c])
      BY <1>1, <1>3, <1>7 DEF Leaving, Closing, Up
    <3> QED
      BY <2>1, <2>8, <2>10, <3>1, ComingType, AnchorStays
  <2>11. \A k \in Key : Secure(k) => Secure(k)'
    BY <2>1, <2>3, <2>4, <2>5, <2>9, <2>10, OneProgramGraphs, EmptyElems
  <2>12. c \in Viewport3D => ch.doit = "none"
    BY <2>1, ProgramFacts DEF Placed
  <2> QED
    BY <1>1, <1>3, <1>7, <2>1, <2>3, <2>4, <2>5, <2>6, <2>7, <2>9, <2>11, <2>12, EmptyElems, OneProgramKeepsInv
<1>8. CASE lisp.cmd # "closeAll"
  <2> DEFINE ch == [child[c] EXCEPT !.pc = "args"]
             d == Tail(down[c])
             u == up[c]
  <2>1. /\ ch \in Programs /\ ch.pc = "args" /\ ch.slots = child[c].slots /\ ch.doit = child[c].doit
        /\ u \in Seq(UpItems)
    BY ProgramFacts DEF Programs, Up
  <2>2. child' = [child EXCEPT ![c] = ch] /\ up' = [up EXCEPT ![c] = u]
    <3>1. lisp.cmd # "contour"
      BY <1>3 DEF Orders
    <3> QED
      BY <1>4, <1>8, <3>1, ProgramFacts DEF ReadCommand
  <2>3. Link(c, Role(c), lisp.cmd, ArgKey, ch, u, d)
    BY <1>1, <1>8, <2>1, ProgramFacts, LinkOrdered
  <2>4. OneProgram(c, ch, u, d)
    BY <1>1, <1>4, <2>2 DEF OneProgram
  <2> HIDE DEF ch
  <2>5. \A k \in Key : Holding(ch, k) = Holding(child[c], k)
    BY <2>1 DEF Holding
  <2>6. ASSUME NEW k \in Key, c \in Viewport2D
        PROVE  Kept(ch, u, d, graphList[k].listed, graphList[k].views[c], k)
    <3>1. KeptIn(c, k) /\ Holding(child[c], k) \in Nat /\ graphList[k].views[c] \in Nat
      BY <2>6, ProgramFacts, ViewsType
    <3>2. Coming(d, k) <= Coming(down[c], k)
      BY <1>5
    <3> QED
      BY <1>1, <2>1, <2>5, <3>1, <3>2, ComingType DEF Kept, KeptIn, Up
  <2>7. ASSUME NEW k \in Key, Anchor(c, k)
        PROVE  Spare(Leaving(c, ch, u), ch, d, graphList[k].views[c], k)
    <3>1. ~Leaving(c, ch, u)
      BY <1>6, <1>8 DEF Leaving, Closing
    <3>2. Coming(d, k) <= Coming(down[c], k)
      BY <1>5
    <3> QED
      BY <2>1, <2>7, <3>1, <3>2, AnchorStays
  <2>8. \A k \in Key : Secure(k) => Secure(k)'
    BY <1>5, <2>1, <2>4, <2>6, <2>7, OneProgramGraphs
  <2>9. /\ c \in Viewport3D => ch.doit = "none"
        /\ Target(c) /\ lisp.cmd \in {"putGraph", "showing2D"} => ch.doit = "none"
    BY <2>1, ProgramFacts DEF Placed
  <2>10. child[c].pc \notin Gone
    BY <1>1 DEF Gone
  <2> QED
    BY <1>1, <1>5, <2>1, <2>3, <2>4, <2>6, <2>8, <2>9, <2>10, OneProgramKeepsInv
<1> QED
  BY <1>7, <1>8
(* The same for a program that puts a graph that was on its way into a slot. *)
LEMMA AnchorMoves ==
  ASSUME SyncInv, NEW c \in Viewport, NEW k \in Key, Anchor(c, k),
         NEW ch \in Programs, NEW u, NEW d, Coming(d, k) <= Coming(down[c], k),
         Leaving(c, ch, u) => /\ Leaving(c, child[c], up[c])
                              /\ Holding(ch, k) + Coming(d, k) <= Holding(child[c], k) + Coming(down[c], k)
  PROVE  Spare(Leaving(c, ch, u), ch, d, graphList[k].views[c], k)
<1>1. /\ graphList[k].views[c] \in Nat /\ Holding(child[c], k) \in Nat /\ Holding(ch, k) \in Nat
      /\ Coming(d, k) \in Nat /\ Coming(down[c], k) \in Nat
  <2>1. graphList[k].views[c] \in Nat /\ Holding(child[c], k) \in Nat
    BY ViewsType, ProgramFacts
  <2>2. Holding(ch, k) \in Nat
    BY CountType DEF Holding, Programs
  <2> QED
    BY <2>1, <2>2, ComingType
<1>2. CASE Leaving(c, ch, u)
  BY <1>1, <1>2 DEF Anchor, Spare
<1>3. CASE ~Leaving(c, ch, u)
  BY <1>1, <1>3 DEF Anchor, Spare
<1> QED
  BY <1>2, <1>3

LEMMA PendingBrings ==
  ASSUME NEW r, NEW o, NEW k, NEW ch, NEW u, NEW k2
  PROVE  Arriving(Pending(r, o, k, ch, u), k2) = 0
<1>1. \A x, y : x.t # "viewOkay" /\ y.t # "viewOkay" =>
        Arriving(<<>>, k2) = 0 /\ Arriving(<<x>>, k2) = 0 /\ Arriving(<<x, y>>, k2) = 0
  <2>1. Arriving(<<>>, k2) = 0
    BY EmptyElems DEF Arriving
  <2>2. ASSUME NEW x, NEW y, x.t # "viewOkay", y.t # "viewOkay"
        PROVE  Arriving(<<x>>, k2) = 0 /\ Arriving(<<x, y>>, k2) = 0
    <3>1. \A j \in DOMAIN <<x>> : <<x>>[j].t # "viewOkay"
      BY <2>2, ShortElems
    <3>2. \A j \in DOMAIN <<x, y>> : <<x, y>>[j].t # "viewOkay"
      BY <2>2, ShortElems
    <3> QED
      BY <3>1, <3>2 DEF Arriving
  <2> QED
    BY <2>1, <2>2
<1>2. Cmd(o).t # "viewOkay" /\ Args(o, k).t # "viewOkay"
  BY DEF Cmd, Args
<1> QED
  BY <1>1, <1>2 DEF Pending

(* It changes a graph, or what is seen of it, and acknowledges. *)
LEMMA ReadCommandArgumentsKeepsInv ==
  ASSUME SyncInv, NEW c \in Viewport, ReadCommandArguments(c)
  PROVE  SyncInv'
<1> DEFINE u == <<[t |-> "ack"]>>
           d == <<>>
           x == Args(lisp.cmd, ArgKey)
<1>1. /\ child[c].pc = "args" /\ down[c] # <<>> /\ UNCHANGED OthersOfChild
      /\ inSync' = (down[c] # <<>> /\ Head(down[c]).t = "args")
      /\ down' = [down EXCEPT ![c] = Tail(down[c])]
  BY DEF ReadCommandArguments, Runs, Hear, Hears
<1>2. /\ Role(c) = "acknow" /\ up[c] = <<>> /\ down[c] = <<x>> /\ Head(down[c]) = x /\ Tail(down[c]) = <<>>
      /\ \A ch \in Programs : ch.pc = "loop" => Link(c, Role(c), lisp.cmd, ArgKey, ch, u, d)
  <2>1. /\ child[c] \in Programs /\ child[c].pc = "args" /\ down[c] # <<>>
        /\ Link(c, Role(c), lisp.cmd, ArgKey, child[c], up[c], down[c])
    BY <1>1, ProgramFacts
  <2>2. /\ Role(c) = "acknow" /\ up[c] = <<>> /\ down[c] = <<x>> /\ Head(down[c]) = x /\ Tail(down[c]) = <<>>
    <3>1. /\ up[c] = <<>> /\ Role(c) \in {"args", "acknow"}
          /\ down[c] = Pending(Role(c), lisp.cmd, ArgKey, child[c], up[c])
      BY <2>1 DEF Link, Words, Heard
    <3>2. Role(c) = "acknow" /\ down[c] = <<x>>
      BY <2>1, <3>1 DEF Pending
    <3> QED
      BY <3>1, <3>2, ShortTails
  <2> QED
    BY <2>2, LinkAcknowledged
<1>3. /\ Target(c) /\ manager.pc # "serve" /\ lisp.cmd \in Orders /\ lisp.cmd # "closeAll"
      /\ ArgKey \in Key \cup {0}
  <2>1. Target(c) /\ manager.pc # "serve"
    BY <1>2, RoleSays, ProgramFacts DEF Role
  <2>2. lisp.cmd \in Orders
    BY <2>1, ProgramFacts DEF Target, PhaseInv
  <2>3. lisp.cmd # "closeAll"
    BY <1>1, ProgramFacts DEF Link, Heard
  <2> QED
    BY <2>1, <2>2, <2>3, ArgKeyType, ProgramFacts
<1>4. x.t = "args" /\ x.cmd = lisp.cmd /\ x.key = ArgKey
  BY DEF Args
<1>5. inSync' = TRUE
  BY <1>1, <1>2, <1>4
<1>6. u \in Seq(UpItems) /\ up[c] \o u = u /\ up[c] \o (<<>> \o u) = u /\ d \in Seq(DownItems)
  <2>1. [t |-> "ack"] \in UpItems
    BY DEF UpItems
  <2>2. u \in Seq(UpItems)
    BY <2>1
  <2> QED
    BY <1>2, <2>2, ShortJoins, EmptyElems
<1>7. \E ch \in Programs : /\ child' = [child EXCEPT ![c] = ch] /\ up' = [up EXCEPT ![c] = u]
                           /\ ch.pc = "loop" /\ ch.doit = child[c].doit
                           /\ \/ ch.slots = child[c].slots
                              \/ \E i \in Slot : ch.slots = [child[c].slots EXCEPT ![i] = ArgKey]
  <2> DEFINE ch == [child[c] EXCEPT !.pc = "loop"]
  <2>1. ch \in Programs /\ ch.pc = "loop" /\ ch.slots = child[c].slots /\ ch.doit = child[c].doit
    BY ProgramFacts DEF Programs, Up
  <2> HIDE DEF u
  <2>2. CASE lisp.cmd \notin {"putGraph", "showing2D"}
    <3>1. child' = [child EXCEPT ![c] = ch] /\ Say(c, u)
      BY <1>2, <1>4, <2>2 DEF ReadCommandArguments, u
    <3>2. up' = [up EXCEPT ![c] = u]
      BY <1>6, <3>1 DEF Say
    <3> QED
      BY <2>1, <3>1, <3>2
  <2>3. CASE lisp.cmd \in {"putGraph", "showing2D"}
    <3> DEFINE put(i) == IF lisp.cmd = "putGraph" THEN [ch EXCEPT !.slots[i] = ArgKey] ELSE ch
    <3>1. PICK i \in Slot : /\ child' = [child EXCEPT ![c] = Clicked(put(i), i)]
                            /\ Say(c, ClickedSays(put(i), i) \o IF put(i).doit = "drop2D" THEN <<>> ELSE u)
      BY <1>2, <1>4, <2>3 DEF ReadCommandArguments, u
    <3>2. child[c].doit = "none"
      BY <1>3, <2>3, ProgramFacts DEF Placed
    <3>3. /\ put(i) \in Programs /\ put(i).pc = "loop" /\ put(i).doit = "none"
          /\ \/ put(i).slots = child[c].slots
             \/ put(i).slots = [child[c].slots EXCEPT ![i] = ArgKey]
      <4>1. CASE lisp.cmd # "putGraph"
        BY <2>1, <3>2, <4>1
      <4>2. CASE lisp.cmd = "putGraph"
        <5>1. [child[c].slots EXCEPT ![i] = ArgKey] \in Slots
          BY <1>3, ProgramFacts DEF Slots
        <5>2. put(i) = [ch EXCEPT !.slots = [child[c].slots EXCEPT ![i] = ArgKey]]
          BY <2>1, <4>2
        <5> HIDE DEF ch, put
        <5>3. [ch EXCEPT !.slots = [child[c].slots EXCEPT ![i] = ArgKey]] \in Programs
          BY <2>1, <5>1 DEF Programs
        <5> QED
          BY <2>1, <3>2, <5>1, <5>2, <5>3 DEF Programs
      <4> QED
        BY <4>1, <4>2
    <3> DEFINE ch2 == Clicked(put(i), i)
    <3> HIDE DEF put
    <3>4. ch2 = [put(i) EXCEPT !.doit = "none"] /\ ClickedSays(put(i), i) = <<>>
      BY <3>3 DEF Clicked, ClickedSays
    <3>5. /\ ch2 \in Programs /\ ch2.pc = "loop" /\ ch2.doit = "none" /\ ch2.slots = put(i).slots
      BY <3>3, <3>4 DEF Programs
    <3>6. up' = [up EXCEPT ![c] = u]
      BY <1>6, <3>1, <3>3, <3>4 DEF Say
    <3> QED
      BY <3>1, <3>2, <3>3, <3>5, <3>6
  <2> QED
    BY <2>2, <2>3
<1>8. PICK ch \in Programs : /\ child' = [child EXCEPT ![c] = ch] /\ up' = [up EXCEPT ![c] = u]
                             /\ ch.pc = "loop" /\ ch.doit = child[c].doit
                             /\ \/ ch.slots = child[c].slots
                                \/ \E i \in Slot : ch.slots = [child[c].slots EXCEPT ![i] = ArgKey]
  BY <1>7
<1>9. OneProgram(c, ch, u, d)
  BY <1>1, <1>2, <1>5, <1>8 DEF OneProgram
<1>10. DOMAIN u = {1} /\ u[1].t = "ack" /\ u # <<>>
  BY ShortElems, ShortTails
<1> HIDE DEF u, x
<1>11. ~ Among(u, "viewportClosing") /\ \A k : ~ Picks(u, k)
  BY <1>10 DEF Among, Picks
<1>12. ASSUME NEW k \in Key
       PROVE  Holding(ch, k) <= Holding(child[c], k) + Coming(down[c], k) /\ Coming(d, k) = 0 /\ Holding(ch, k) \in Nat
  <2>1. Coming(down[c], k) >= IF ArgKey = k THEN 1 ELSE 0
    <3>1. DOMAIN <<x>> = {1} /\ <<x>>[1] = x
      BY ShortElems
    <3> QED
      BY <1>2, <1>4, <3>1, ComingType DEF Coming, Putting
  <2>2. /\ child[c].slots \in Slots /\ Count(child[c].slots, k) \in Nat
        /\ \A i \in Slot : Count([child[c].slots EXCEPT ![i] = ArgKey], k)
                           <= Count(child[c].slots, k) + (IF ArgKey = k THEN 1 ELSE 0)
    BY <1>3, ProgramFacts, CountType, CountPut
  <2>3. Holding(ch, k) <= Holding(child[c], k) + Coming(down[c], k)
    <3>1. Coming(down[c], k) \in Nat /\ Holding(child[c], k) = Count(child[c].slots, k)
      BY ComingType DEF Holding
    <3>2. CASE ch.slots = child[c].slots
      BY <2>2, <3>1, <3>2 DEF Holding
    <3>3. ASSUME NEW i \in Slot, ch.slots = [child[c].slots EXCEPT ![i] = ArgKey]
          PROVE  Holding(ch, k) <= Holding(child[c], k) + Coming(down[c], k)
      <4>1. Holding(ch, k) = Count([child[c].slots EXCEPT ![i] = ArgKey], k)
        BY <3>3 DEF Holding
      <4>2. Holding(ch, k) <= Count(child[c].slots, k) + (IF ArgKey = k THEN 1 ELSE 0)
        BY <2>2, <4>1
      <4>3. Holding(ch, k) \in Nat
        BY CountType DEF Holding, Programs
      <4> QED
        BY <2>1, <2>2, <3>1, <4>2, <4>3
    <3> QED
      BY <1>8, <3>2, <3>3
  <2>4. Holding(ch, k) \in Nat
    BY CountType DEF Holding, Programs
  <2> QED
    BY <2>3, <2>4, ComingNone
<1>13. ASSUME NEW k \in Key, c \in Viewport2D
       PROVE  Kept(ch, u, d, graphList[k].listed, graphList[k].views[c], k)
  <2>1. KeptIn(c, k) /\ Holding(child[c], k) \in Nat /\ graphList[k].views[c] \in Nat
    BY <1>13, ProgramFacts, ViewsType
  <2> QED
    BY <1>1, <1>8, <1>12, <2>1, ComingType DEF Kept, KeptIn, Up
<1>14. ASSUME NEW k \in Key, Anchor(c, k)
       PROVE  Spare(Leaving(c, ch, u), ch, d, graphList[k].views[c], k)
  <2>1. ~ Leaving(c, ch, u)
    BY <1>3, <1>11 DEF Leaving, Closing
  <2>2. Coming(d, k) <= Coming(down[c], k)
    BY <1>12, ComingType
  <2> QED
    BY <1>14, <2>1, <2>2, AnchorMoves
<1>15. \A k \in Key : Secure(k) => Secure(k)'
  BY <1>6, <1>9, <1>13, <1>14, OneProgramGraphs
<1>16. /\ c \in Viewport3D => ch.doit = "none"
       /\ Target(c) /\ lisp.cmd \in {"putGraph", "showing2D"} => ch.doit = "none"
  BY <1>8, ProgramFacts DEF Placed
<1> QED
  BY <1>1, <1>2, <1>3, <1>6, <1>8, <1>9, <1>10, <1>11, <1>13, <1>15, <1>16, OneProgramKeepsInv
(* The answer to a drop: the graph that was picked up goes into the slot. *)
LEMMA ReadGoAheadKeepsInv ==
  ASSUME SyncInv, NEW c \in Viewport, ReadGoAhead(c)
  PROVE  SyncInv'
<1> DEFINE a == Head(down[c])
           u == up[c]
           d == Tail(down[c])
           i == child[c].currentGraph
           s == [child[c].slots EXCEPT ![i] = IF a.t = "viewOkay" THEN a.key ELSE @]
           ch == [child[c] EXCEPT !.pc = "loop", !.currentGraph = 0, !.slots = s]
<1>1. /\ child[c].pc = "drop" /\ down[c] # <<>> /\ UNCHANGED OthersOfChild
      /\ inSync' = ((down[c] # <<>> /\ a.t = "viewOkay") \/ (down[c] # <<>> /\ a.t = "viewError"))
      /\ child' = [child EXCEPT ![c].pc = "loop", ![c].currentGraph = 0,
                   ![c].slots[child[c].currentGraph] = IF down[c] # <<>> /\ a.t = "viewOkay" THEN a.key ELSE @]
      /\ down' = [down EXCEPT ![c] = Tail(down[c])] /\ up' = up
  BY DEF ReadGoAhead, Runs, Hear, Hears
<1>2. /\ child[c] \in Programs /\ Link(c, Role(c), lisp.cmd, ArgKey, child[c], up[c], down[c])
      /\ child[c].slots \in Slots /\ child \in [Viewport -> Programs]
      /\ up[c] \in Seq(UpItems) /\ up \in [Viewport -> Seq(UpItems)] /\ down[c] \in Seq(DownItems)
  BY ProgramFacts
<1>3. i \in Slot
  BY <1>1, <1>2 DEF Link, Words
<1>4. child' = [child EXCEPT ![c] = ch]
  BY <1>1, <1>2
<1>5. a \in Answer /\ d = Pending(Role(c), lisp.cmd, ArgKey, child[c], up[c])
  <2> DEFINE ch2 == [child[c] EXCEPT !.pc = "loop"]
  <2>1. ch2 \in Programs /\ ch2.pc = "loop"
    BY <1>2 DEF Programs, Up
  <2> HIDE DEF ch2
  <2>2. /\ child[c] \in Programs /\ child[c].pc = "drop" /\ down[c] # <<>>
        /\ Link(c, Role(c), lisp.cmd, ArgKey, child[c], up[c], down[c])
    BY <1>1, <1>2
  <2>3. GoAhead(Role(c), lisp.cmd, ArgKey, child[c], up[c], down[c])
    BY <2>1, <2>2, LinkGoAhead
  <2> QED
    BY <2>3 DEF GoAhead
<1> HIDE DEF a, i
<1>6. a.t \in {"viewOkay", "viewError"} /\ (a.t = "viewOkay" => a.key \in Key)
  BY <1>5 DEF Answer
<1>7. s \in Slots
  BY <1>2, <1>3, <1>6 DEF Slots
<1> HIDE DEF s
<1>8. ch \in Programs /\ ch.pc = "loop" /\ ch.slots = s /\ ch.doit = child[c].doit
  BY <1>2, <1>7 DEF Programs, Up
<1> HIDE DEF ch
<1>9. Link(c, Role(c), lisp.cmd, ArgKey, ch, u, d)
  BY <1>1, <1>2, <1>8, LinkGoAhead
<1>10. d \in Seq(DownItems) /\ u \in Seq(UpItems) /\ up = [up EXCEPT ![c] = u]
  BY <1>1, <1>2, TailElems
<1>11. inSync' = TRUE
  BY <1>1, <1>6
<1>12. OneProgram(c, ch, u, d)
  BY <1>1, <1>4, <1>10, <1>11 DEF OneProgram
<1>13. ASSUME NEW k \in Key
       PROVE  /\ Coming(d, k) <= Coming(down[c], k)
              /\ Holding(ch, k) + Coming(d, k) <= Holding(child[c], k) + Coming(down[c], k)
              /\ Holding(ch, k) \in Nat
  <2>1. Count(s, k) <= Count(child[c].slots, k) + (IF a.t = "viewOkay" /\ a.key = k THEN 1 ELSE 0)
    <3>1. CASE a.t = "viewOkay"
      BY <1>2, <1>3, <1>6, <3>1, CountPut DEF s
    <3>2. CASE a.t # "viewOkay"
      <4>1. s = child[c].slots
        BY <1>2, <3>2 DEF s, Slots
      <4> QED
        BY <1>2, <3>2, <4>1, CountType
    <3> QED
      BY <3>1, <3>2
  <2>2. /\ Arriving(d, k) = 0
        /\ Putting(d, k) <= Putting(down[c], k) /\ Coming(d, k) <= Coming(down[c], k)
    BY <1>1, <1>2, <1>5, PendingBrings, ComingTail
  <2>3. a.t = "viewOkay" /\ a.key = k => Arriving(down[c], k) = 1
    <3>1. 1 \in DOMAIN down[c] /\ down[c][1] = a
      BY <1>1, <1>2, TailElems DEF a
    <3> QED
      BY <3>1 DEF Arriving
  <2>4. Count(s, k) \in Nat /\ Count(child[c].slots, k) \in Nat
    BY <1>2, <1>7, CountType
  <2>5. /\ Coming(d, k) = Arriving(d, k) + Putting(d, k)
        /\ Coming(down[c], k) = Arriving(down[c], k) + Putting(down[c], k)
        /\ Holding(ch, k) = Count(s, k) /\ Holding(child[c], k) = Count(child[c].slots, k)
    BY <1>8 DEF Coming, Holding
  <2>6. /\ Arriving(d, k) \in 0 .. 1 /\ Putting(d, k) \in 0 .. 1
        /\ Arriving(down[c], k) \in 0 .. 1 /\ Putting(down[c], k) \in 0 .. 1
    BY ComingType
  <2> HIDE DEF d
  <2> QED
    BY <2>1, <2>2, <2>3, <2>4, <2>5, <2>6
<1>14. ASSUME NEW k \in Key, c \in Viewport2D
       PROVE  Kept(ch, u, d, graphList[k].listed, graphList[k].views[c], k)
  <2>1. KeptIn(c, k) /\ Holding(child[c], k) \in Nat /\ graphList[k].views[c] \in Nat
    BY <1>14, ProgramFacts, ViewsType
  <2> HIDE DEF d
  <2>2. Coming(d, k) \in Nat /\ Coming(down[c], k) \in Nat
    BY ComingType
  <2>3. child[c].pc \in Up /\ ch.pc # "data"
    BY <1>1, <1>8 DEF Up
  <2> QED
    BY <1>13, <2>1, <2>2, <2>3 DEF Kept, KeptIn
<1>15. ASSUME NEW k \in Key, Anchor(c, k)
       PROVE  Spare(Leaving(c, ch, u), ch, d, graphList[k].views[c], k)
  <2>1. Leaving(c, ch, u) => Leaving(c, child[c], up[c])
    BY <1>1 DEF Leaving, Up
  <2> QED
    BY <1>8, <1>13, <1>15, <2>1, AnchorMoves
<1>16. \A k \in Key : Secure(k) => Secure(k)'
  BY <1>8, <1>10, <1>12, <1>14, <1>15, OneProgramGraphs
<1>17. /\ c \in Viewport3D => ch.doit = "none"
       /\ Target(c) /\ lisp.cmd \in {"putGraph", "showing2D"} => ch.doit = "none"
  BY <1>8, ProgramFacts DEF Placed
<1>18. child[c].pc # "none" /\ child[c].pc \notin Gone
  BY <1>1 DEF Gone
<1> QED
  BY <1>8, <1>9, <1>10, <1>12, <1>14, <1>16, <1>17, <1>18, OneProgramKeepsInv

-----------------------------------------------------------------------------
(* Programs end, or are waited for. *)
Ended(ch, ch2) ==
  \/ ch2 = ch
  \/ /\ ch.pc \in Gone \cup {"exiting"} /\ ch2.pc \in Gone
     /\ ch2.slots = ch.slots /\ ch2.doit = ch.doit

LEMMA EndedKeeps ==
  ASSUME SyncInv, UNCHANGED <<lisp, graphList, picked, down, up, toManager>>,
         child' \in [Viewport -> Programs],
         \A e \in Viewport : Ended(child[e], child'[e]),
         \A e \in Viewport : Role(e)' = Role(e)
  PROVE  LinksInv' /\ KeptInv' /\ PickInv' /\ PromiseInv'
<1>1. ArgKey' = ArgKey /\ Promised' = Promised /\ \A e : Closing(e)' = Closing(e)
  BY DEF ArgKey, Promised, Closing, Target, InCall
<1>2. ASSUME NEW e \in Viewport
      PROVE  LinkOf(e)'
  <2>1. /\ Link(e, Role(e), lisp.cmd, ArgKey, child[e], up[e], down[e]) /\ child[e] \in Programs
        /\ child'[e] \in Programs
    BY ProgramFacts
  <2>2. CASE child'[e] = child[e]
    BY <1>1, <2>1, <2>2 DEF LinkOf
  <2>3. CASE /\ child[e].pc \in Gone \cup {"exiting"} /\ child'[e].pc \in Gone
             /\ child'[e].slots = child[e].slots
    <3>1. Link(e, Role(e), lisp.cmd, ArgKey, child'[e], up[e], <<>>)
      BY <2>1, <2>3, LinkDied
    <3>2. down[e] = <<>>
      BY <2>1, <2>3 DEF Link, Heard
    <3> QED
      BY <1>1, <3>1, <3>2 DEF LinkOf
  <2> QED
    BY <2>2, <2>3 DEF Ended
<1>3. ASSUME NEW e \in Viewport2D, NEW k \in Key
      PROVE  KeptIn(e, k)' /\ (Anchor(e, k) => Anchor(e, k)')
  <2>1. KeptIn(e, k) /\ e \in Viewport
    BY Basics, ProgramFacts
  <2>2. CASE child'[e] = child[e]
    BY <1>1, <2>1, <2>2 DEF KeptIn, Anchor, Leaving
  <2>3. CASE /\ child[e].pc \in Gone \cup {"exiting"} /\ child'[e].pc \in Gone
             /\ child'[e].slots = child[e].slots
    <3>1. Holding(child'[e], k) = Holding(child[e], k)
      BY <2>3 DEF Holding
    <3>2. child[e].pc \notin Up /\ child'[e].pc \notin Up \cup {"data"}
      BY <2>3 DEF Gone, Up
    <3> QED
      BY <1>1, <2>1, <3>1, <3>2 DEF KeptIn, Kept, Anchor, Leaving, Spare
  <2> QED
    BY <2>1, <2>2, <2>3 DEF Ended
<1>4. \A k \in Key : Secure(k) => Secure(k)'
  BY <1>3 DEF Secure
<1>5. PickInv'
  BY <1>4 DEF PickInv, PickedUp, SyncInv
<1>6. PromiseInv'
  <2>1. PromiseInv
    BY DEF SyncInv
  <2> QED
    BY <1>1, <1>4, <2>1 DEF PromiseInv, Unseen
<1> QED
  BY <1>2, <1>3, <1>5, <1>6 DEF LinksInv, KeptInv

LEMMA ExitKeepsInv ==
  ASSUME SyncInv, NEW c \in Viewport, Exit(c)
  PROVE  SyncInv'
<1>1. /\ child[c].pc = "exiting" /\ UNCHANGED <<lisp, known, sent, manager, viewports, graphList, picked, toManager, toLisp>>
      /\ UNCHANGED <<up, down, inSync>> /\ inSync
  BY DEF Exit, Runs, OthersOfChild
<1>2. /\ child \in [Viewport -> Programs]
      /\ [child EXCEPT ![c].pc = "zombie"] \in [Viewport -> Programs]
      /\ \A e \in Viewport : Ended(child[e], [child EXCEPT ![c].pc = "zombie"][e])
  <2>1. child \in [Viewport -> Programs]
    BY ProgramFacts
  <2>2. \A e \in Viewport : child[e] \in Programs /\ [child[e] EXCEPT !.pc = "zombie"] \in Programs
    BY <2>1 DEF Programs, Gone
  <2>3. \A e \in Viewport : [child EXCEPT ![c].pc = "zombie"][e] = IF e = c THEN [child[c] EXCEPT !.pc = "zombie"] ELSE child[e]
    BY <2>1
  <2>4. Ended(child[c], [child[c] EXCEPT !.pc = "zombie"])
    BY <1>1, <2>2 DEF Ended, Gone, Programs
  <2> QED
    BY <2>1, <2>2, <2>3, <2>4 DEF Ended
<1> DEFINE dead == [child EXCEPT ![c].pc = "zombie"]
<1>3. child' \in [Viewport -> Programs] /\ \A e \in Viewport : Ended(child[e], child'[e])
  <2>1. CASE child' = dead
    BY <1>2, <2>1
  <2>2. ASSUME NEW d \in Viewport, dead[d].pc = "zombie", child' = [dead EXCEPT ![d].pc = "reaped"]
        PROVE  child' \in [Viewport -> Programs] /\ \A e \in Viewport : Ended(child[e], child'[e])
    <3> HIDE DEF dead
    <3>1. dead \in [Viewport -> Programs] /\ \A e \in Viewport : Ended(child[e], dead[e])
      BY <1>2 DEF dead
    <3>2. \A e \in Viewport : dead[e] \in Programs /\ [dead[e] EXCEPT !.pc = "reaped"] \in Programs
      BY <3>1 DEF Programs, Gone
    <3>3. \A e \in Viewport : child'[e] = IF e = d THEN [dead[d] EXCEPT !.pc = "reaped"] ELSE dead[e]
      BY <2>2, <3>1
    <3>4. Ended(child[d], [dead[d] EXCEPT !.pc = "reaped"])
      BY <2>2, <3>1, <3>2 DEF Ended, Gone, Programs
    <3>5. child' \in [Viewport -> Programs]
      BY <2>2, <3>1, <3>2
    <3> QED
      BY <3>1, <3>3, <3>4, <3>5
  <2> QED
    BY <2>1, <2>2 DEF Exit
<1>4. /\ ArgKey' = ArgKey /\ Listed' = Listed /\ Promised' = Promised
      /\ \A e : Role(e)' = Role(e) /\ Target(e)' = Target(e) /\ Closing(e)' = Closing(e)
  BY <1>1, OthersFrame
<1>5. LinksInv' /\ KeptInv' /\ PickInv' /\ PromiseInv'
  BY <1>1, <1>3, <1>4, EndedKeeps
<1>6. Types'
  BY <1>1, <1>3 DEF SyncInv, Types
<1>7. PhaseInv'
  <2>1. \A e \in Viewport : child'[e].pc = "none" <=> child[e].pc = "none"
    BY <1>3 DEF Ended, Gone
  <2>2. Unborn(Viewport2D)' = Unborn(Viewport2D) /\ Unborn(Viewport3D)' = Unborn(Viewport3D)
    BY <2>1, Basics DEF Unborn
  <2> QED
    BY <1>1, <2>2, PhaseFrame DEF SyncInv
<1>8. ManagerInv'
  BY <1>1, ManagerFrame DEF SyncInv
<1>9. PlacesInv'
  <2> SUFFICES ASSUME NEW e \in Viewport
               PROVE  Placed(e)'
    BY DEF PlacesInv
  <2>1. Placed(e) /\ Ended(child[e], child'[e])
    BY <1>3, ProgramFacts
  <2> QED
    BY <1>1, <1>4, <2>1 DEF Placed, Ended, Gone
<1> QED
  BY <1>5, <1>6, <1>7, <1>8, <1>9 DEF SyncInv
-----------------------------------------------------------------------------
(* The user, who leaves a window alone while Lisp calls it. *)
LEMMA ClickFacts ==
  ASSUME Careful, SyncInv, NEW c \in Viewport, Click(c)
  PROVE  /\ child[c].pc = "loop" /\ ~Target(c) /\ Role(c) \in {"free", "window"}
         /\ UNCHANGED OthersOfChild /\ down' = down /\ inSync' = TRUE
         /\ ~Among(up[c], "viewportClosing") /\ ~Leaving(c, child[c], up[c])
<1>1. child[c].pc = "loop"
  BY ProgramFacts DEF Click, Up, Gone
<1>2. ~Target(c)
  BY DEF Click, Untouched, Target, InCall
<1>3. Role(c) \in {"free", "window"}
  <2>1. Role(c) \in {"free", "window", "args", "acknow"}
    BY <1>1, ProgramFacts DEF Parts, Link, Words
  <2> QED
    BY <1>2, <2>1, RoleSays, ProgramFacts
<1>4. ~Among(up[c], "viewportClosing")
  BY <1>1, ProgramFacts, WordsOfLoop DEF Link
<1> QED
  BY <1>1, <1>2, <1>3, <1>4, ProgramFacts DEF Click, Runs, Leaving, Closing

(* A program that changes neither its graphs nor what is on its way. *)
LEMMA SameGraphs ==
  ASSUME SyncInv, NEW c \in Viewport, NEW ch \in Programs, NEW u \in Seq(UpItems),
         OneProgram(c, ch, u, down[c]), child[c].pc \in Up, ch.pc \in Up, ch.slots = child[c].slots,
         ~Leaving(c, child[c], up[c]), ~Among(u, "viewportClosing")
  PROVE  /\ \A k \in Key : c \in Viewport2D => Kept(ch, u, down[c], graphList[k].listed, graphList[k].views[c], k)
         /\ \A k \in Key : Secure(k) => Secure(k)'
<1>1. ASSUME NEW k \in Key, c \in Viewport2D
      PROVE  Kept(ch, u, down[c], graphList[k].listed, graphList[k].views[c], k)
  <2>1. Holding(ch, k) = Holding(child[c], k)
    BY DEF Holding
  <2>2. KeptIn(c, k) /\ ch.pc # "data"
    BY <1>1, ProgramFacts DEF Up
  <2> QED
    BY <2>1, <2>2 DEF KeptIn, Kept
<1>2. ASSUME NEW k \in Key, Anchor(c, k)
      PROVE  Spare(Leaving(c, ch, u), ch, down[c], graphList[k].views[c], k)
  <2>1. ~Leaving(c, ch, u)
    BY DEF Leaving
  <2> QED
    BY <1>2, <2>1, AnchorStays, ComingType
<1> QED
  BY <1>1, <1>2, ProgramFacts, OneProgramGraphs

(* Pick, Drop and Query. *)
LEMMA PressPickDropQueryKeepsInv ==
  ASSUME Careful, SyncInv, NEW c \in Viewport, PressPickDropQuery(c)
  PROVE  SyncInv'
<1>1. PICK doit \in {"pick2D", "drop2D", "none"} : child' = [child EXCEPT ![c].doit = doit]
  BY DEF PressPickDropQuery
<1>2. c \in Viewport2D /\ Click(c) /\ up' = up
  BY DEF PressPickDropQuery
<1>3. /\ child[c].pc = "loop" /\ ~Target(c) /\ UNCHANGED OthersOfChild /\ down' = down /\ inSync' = TRUE
      /\ ~Among(up[c], "viewportClosing") /\ ~Leaving(c, child[c], up[c])
  BY <1>2, ClickFacts
<1> DEFINE ch == [child[c] EXCEPT !.doit = doit]
<1>4. /\ child[c] \in Programs /\ Link(c, Role(c), lisp.cmd, ArgKey, child[c], up[c], down[c])
      /\ up[c] \in Seq(UpItems) /\ down[c] \in Seq(DownItems) /\ up \in [Viewport -> Seq(UpItems)]
      /\ down \in [Viewport -> Seq(DownItems)] /\ child \in [Viewport -> Programs] /\ Placed(c)
  BY ProgramFacts
<1>5. ch \in Programs /\ ch.pc = "loop" /\ ch.slots = child[c].slots
  BY <1>1, <1>3, <1>4 DEF Programs
<1>6. child' = [child EXCEPT ![c] = ch] /\ up = [up EXCEPT ![c] = up[c]] /\ down = [down EXCEPT ![c] = down[c]]
  BY <1>1, <1>4
<1> HIDE DEF ch
<1>7. OneProgram(c, ch, up[c], down[c])
  BY <1>2, <1>3, <1>6 DEF OneProgram
<1>8. Link(c, Role(c), lisp.cmd, ArgKey, ch, up[c], down[c])
  BY <1>3, <1>4, <1>5, LinkPressed
<1>9. /\ \A k \in Key : c \in Viewport2D => Kept(ch, up[c], down[c], graphList[k].listed, graphList[k].views[c], k)
      /\ \A k \in Key : Secure(k) => Secure(k)'
  BY <1>3, <1>4, <1>5, <1>7, SameGraphs DEF Up
<1>10. c \notin Viewport3D /\ child[c].pc \notin Gone
  BY <1>2, <1>3, Basics DEF Gone
<1> QED
  BY <1>3, <1>4, <1>5, <1>7, <1>8, <1>9, <1>10, OneProgramKeepsInv

(* A graph is clicked on. *)
LEMMA PressGraphKeepsInv ==
  ASSUME Careful, SyncInv, NEW c \in Viewport, PressGraph(c)
  PROVE  SyncInv'
<1>1. PICK i \in Slot : child' = [child EXCEPT ![c] = Clicked(@, i)] /\ Say(c, ClickedSays(child[c], i))
  BY DEF PressGraph
<1>2. Click(c) /\ child[c].doit # "none"
  BY DEF PressGraph
<1>3. /\ child[c].pc = "loop" /\ ~Target(c) /\ Role(c) \in {"free", "window"}
      /\ UNCHANGED OthersOfChild /\ down' = down /\ inSync' = TRUE
      /\ ~Among(up[c], "viewportClosing") /\ ~Leaving(c, child[c], up[c])
  BY <1>2, ClickFacts
<1>4. /\ child[c] \in Programs /\ Link(c, Role(c), lisp.cmd, ArgKey, child[c], up[c], down[c])
      /\ up[c] \in Seq(UpItems) /\ down[c] \in Seq(DownItems) /\ up \in [Viewport -> Seq(UpItems)]
      /\ down \in [Viewport -> Seq(DownItems)] /\ child \in [Viewport -> Programs] /\ Placed(c)
      /\ child[c].slots \in Slots
  BY ProgramFacts
<1>5. c \in Viewport2D /\ c \notin Viewport3D
  BY <1>2, <1>4, Basics DEF Placed, Viewport
<1>6. down = [down EXCEPT ![c] = down[c]] /\ child[c].pc \notin Gone
  BY <1>3, <1>4 DEF Gone
<1> DEFINE ch == Clicked(child[c], i)
           x == ClickedSays(child[c], i)
<1>7. child' = [child EXCEPT ![c] = ch] /\ up' = [up EXCEPT ![c] = up[c] \o x]
  BY <1>1, <1>4 DEF Say
<1>8. /\ ch \in Programs /\ ch.slots = child[c].slots /\ ch.doit = "none"
      /\ IF child[c].doit = "drop2D" THEN ch.pc = "drop" /\ ch.currentGraph = i ELSE ch.pc = "loop"
  BY <1>3, <1>4 DEF Clicked, Programs, Up
<1> HIDE DEF ch, x
<1>9. CASE x = <<>>
  <2>1. child[c].doit # "drop2D"
    <3>1. <<[t |-> "drop2D"]>> # <<>>
      BY ShortTails
    <3> QED
      BY <1>9, <3>1 DEF ClickedSays, x
  <2>2. up[c] \o x = up[c]
    BY <1>4, <1>9
  <2>3. OneProgram(c, ch, up[c], down[c])
    BY <1>3, <1>6, <1>7, <2>2 DEF OneProgram
  <2>4. Link(c, Role(c), lisp.cmd, ArgKey, ch, up[c], down[c])
    BY <1>3, <1>4, <1>8, <2>1, LinkPressed
  <2>5. /\ \A k \in Key : c \in Viewport2D => Kept(ch, up[c], down[c], graphList[k].listed, graphList[k].views[c], k)
        /\ \A k \in Key : Secure(k) => Secure(k)'
    BY <1>3, <1>4, <1>8, <2>1, <2>3, SameGraphs DEF Up
  <2> QED
    BY <1>3, <1>4, <1>5, <1>6, <1>8, <2>1, <2>3, <2>4, <2>5, OneProgramKeepsInv
<1>10. ASSUME NEW y \in UpItems, x = <<y>>,
              \/ y.t = "pick2D" /\ ch.pc = "loop" /\ y.key = child[c].slots[i] /\ y.key \in Key
              \/ y.t = "drop2D" /\ ch.pc = "drop" /\ ch.currentGraph = i
       PROVE  SyncInv'
  <2> DEFINE u == up[c] \o <<y>>
  <2>1. Link(c, Role(c), lisp.cmd, ArgKey, ch, u, down[c])
    <3>1. Clicks(c, ch, y)
      BY <1>8, <1>10 DEF Clicks
    <3> QED
      BY <1>3, <1>4, <1>8, <3>1, LinkClicked
  <2>2. u \in Seq(UpItems) /\ u # <<>> /\ \A j \in DOMAIN u : (j \in DOMAIN up[c] /\ u[j] = up[c][j]) \/ u[j] = y
    <3>1. /\ u \in Seq(UpItems) /\ Len(up[c]) \in Nat
          /\ Len(u) = Len(up[c]) + 1 /\ DOMAIN up[c] = 1 .. Len(up[c]) /\ DOMAIN u = 1 .. Len(up[c]) + 1
          /\ \A j \in 1 .. Len(up[c]) : u[j] = up[c][j]
          /\ u[Len(up[c]) + 1] = y
      BY <1>4, AppendElems
    <3> HIDE DEF u
    <3> QED
      BY <3>1
  <2>3. OneProgram(c, ch, u, down[c])
    BY <1>3, <1>6, <1>7, <1>10 DEF OneProgram
  <2> HIDE DEF u
  <2>4. ~Among(u, "viewportClosing")
    BY <1>3, <1>10, <2>2 DEF Among
  <2>5. /\ \A k \in Key : c \in Viewport2D => Kept(ch, u, down[c], graphList[k].listed, graphList[k].views[c], k)
        /\ \A k \in Key : Secure(k) => Secure(k)'
    BY <1>3, <1>4, <1>8, <1>10, <2>2, <2>3, <2>4, SameGraphs DEF Up
  <2>6. ASSUME NEW k \in Key, Picks(u, k)
        PROVE  Picks(up[c], k) \/ Secure(k)'
    <3>1. CASE y.t = "pick2D" /\ y.key = k /\ y.key = child[c].slots[i]
      <4>1. Holds(c, k) /\ ~Closing(c)
        BY <1>3, <3>1 DEF Holds, Closing
      <4>2. Types /\ KeptInv /\ LinksInv
        BY DEF SyncInv
      <4>3. child[c].pc \in Up
        BY <1>3 DEF Up
      <4>4. Secure(k)
        BY <1>5, <4>1, <4>2, <4>3, HolderAnchors
      <4> QED
        BY <2>5, <4>4
    <3>2. CASE ~(y.t = "pick2D" /\ y.key = k)
      BY <2>2, <2>6, <3>2 DEF Picks
    <3> QED
      BY <1>10, <3>1, <3>2
  <2>7. ch.pc \notin {"none", "exiting"}
    BY <1>10
  <2>8. ~(manager.pc = "serve" /\ Target(c)) /\ ~Target(c)
    BY <1>3
  <2> QED
    BY <1>3, <1>4, <1>5, <1>6, <1>8, <2>1, <2>2, <2>3, <2>5, <2>6, <2>7, <2>8, OneProgramKeepsInv
<1>11. CASE child[c].doit = "drop2D"
  <2>1. x = <<[t |-> "drop2D"]>> /\ [t |-> "drop2D"] \in UpItems
    BY <1>11 DEF x, ClickedSays, UpItems
  <2>2. ch.pc = "drop" /\ ch.currentGraph = i
    BY <1>8, <1>11
  <2> QED
    BY <1>10, <2>1, <2>2
<1>12. CASE child[c].doit = "pick2D"
  <2>1. CASE child[c].slots[i] = 0
    <3>1. x = <<>>
      BY <1>12, <2>1 DEF x, ClickedSays
    <3> QED
      BY <1>9, <3>1
  <2>2. CASE child[c].slots[i] # 0
    <3> DEFINE y == [t |-> "pick2D", key |-> child[c].slots[i]]
    <3>1. child[c].slots[i] \in Key
      BY <1>4, <2>2 DEF Slots
    <3>2. x = <<y>> /\ y \in UpItems /\ y.t = "pick2D" /\ y.key = child[c].slots[i]
      BY <1>12, <2>2, <3>1 DEF x, ClickedSays, UpItems
    <3>3. ch.pc = "loop"
      BY <1>8, <1>12
    <3> HIDE DEF y
    <3> QED
      BY <1>10, <3>1, <3>2, <3>3
  <2> QED
    BY <2>1, <2>2
<1>13. child[c].doit \in {"pick2D", "drop2D"}
  BY <1>2, <1>4 DEF Programs
<1> QED
  BY <1>11, <1>12, <1>13
LEMMA NeededGraphs ==
  ASSUME Types, NEW k \in Key, Wanted(k)
  PROVE  k \in Needed \ {0}
<1>1. k # 0
  BY Basics
<1>2. k \in Promised => k \in lisp.keys
  BY DEF Promised
<1>3. ASSUME NEW e \in Viewport, Picks(up[e], k)
      PROVE  k \in Needed
  <2>1. PICK j \in DOMAIN up[e] : up[e][j].t = "pick2D" /\ up[e][j].key = k
    BY <1>3 DEF Picks
  <2>2. k \in {up[e][l].key : l \in {n \in DOMAIN up[e] : up[e][n].t = "pick2D"}}
    BY <2>1
  <2> QED
    BY <2>2 DEF Needed
<1> QED
  BY <1>1, <1>2, <1>3 DEF Wanted, PickedUp, Needed

(* The window is closed: what it shows of graphs that somebody wants, another one shows. *)
LEMMA QuitKeepsInv ==
  ASSUME Careful, SyncInv, NEW c \in Viewport, Quit(c)
  PROVE  SyncInv'
<1> DEFINE ch == [child[c] EXCEPT !.pc = "exiting"]
           x == ByeItem(c, ch)
           u == up[c] \o <<x>>
<1>1. Click(c) /\ MayClose(c) /\ child' = [child EXCEPT ![c].pc = "exiting"] /\ Say(c, Bye(c))
  BY DEF Quit
<1>2. /\ child[c].pc = "loop" /\ ~Target(c) /\ Role(c) \in {"free", "window"}
      /\ UNCHANGED OthersOfChild /\ down' = down /\ inSync' = TRUE
      /\ ~Among(up[c], "viewportClosing") /\ ~Leaving(c, child[c], up[c])
  BY <1>1, ClickFacts
<1>3. /\ child[c] \in Programs /\ Link(c, Role(c), lisp.cmd, ArgKey, child[c], up[c], down[c])
      /\ up[c] \in Seq(UpItems) /\ down[c] \in Seq(DownItems) /\ up \in [Viewport -> Seq(UpItems)]
      /\ down \in [Viewport -> Seq(DownItems)] /\ child \in [Viewport -> Programs] /\ Placed(c)
      /\ child[c].slots \in Slots /\ Types /\ KeptInv /\ LinksInv
  BY ProgramFacts DEF SyncInv
<1>4. ch \in Programs /\ ch.pc = "exiting" /\ ch.slots = child[c].slots /\ ch.doit = child[c].doit
  BY <1>3 DEF Programs
<1>5. Bye(c) = <<x>> /\ x \in UpItems /\ x.t = "viewportClosing"
  BY <1>3, <1>4 DEF Bye, ByeItem, UpItems
<1>6. child' = [child EXCEPT ![c] = ch] /\ up' = [up EXCEPT ![c] = u] /\ down = [down EXCEPT ![c] = down[c]]
  BY <1>1, <1>3, <1>5 DEF Say
<1>7. Link(c, Role(c), lisp.cmd, ArgKey, ch, u, down[c]) /\ down[c] = <<>>
  <2>1. x = ByeItem(c, ch)
    OBVIOUS
  <2> HIDE DEF ch, x
  <2>2. /\ child[c] \in Programs /\ child[c].pc = "loop" /\ Role(c) \in {"free", "window"}
        /\ up[c] \in Seq(UpItems) /\ Link(c, Role(c), lisp.cmd, ArgKey, child[c], up[c], down[c])
    BY <1>2, <1>3
  <2>3. ch \in Programs /\ x \in UpItems /\ Clicks(c, ch, x)
    BY <1>4, <1>5, <2>1 DEF Clicks
  <2>4. Link(c, Role(c), lisp.cmd, ArgKey, ch, u, down[c])
    BY <2>2, <2>3, LinkClicked
  <2> QED
    BY <1>4, <2>4 DEF Link, Heard
<1>8. OneProgram(c, ch, u, down[c])
  BY <1>2, <1>6 DEF OneProgram
<1> HIDE DEF ch, x
<1>9. u \in Seq(UpItems) /\ u # <<>> /\ Among(u, "viewportClosing") /\ \A k : Picks(u, k) => Picks(up[c], k)
  <2>1. /\ u \in Seq(UpItems) /\ Len(up[c]) \in Nat
        /\ Len(u) = Len(up[c]) + 1 /\ DOMAIN up[c] = 1 .. Len(up[c]) /\ DOMAIN u = 1 .. Len(up[c]) + 1
        /\ \A j \in 1 .. Len(up[c]) : u[j] = up[c][j]
        /\ u[Len(up[c]) + 1] = x
    BY <1>3, <1>5, AppendElems
  <2> HIDE DEF u
  <2>2. Len(up[c]) + 1 \in DOMAIN u
    BY <2>1
  <2>3. \A j \in DOMAIN u : (j \in DOMAIN up[c] /\ u[j] = up[c][j]) \/ u[j] = x
    BY <2>1
  <2>4. u # <<>>
    BY <2>2, EmptyElems
  <2> QED
    BY <1>5, <2>1, <2>2, <2>3, <2>4 DEF Among, Picks
<1> HIDE DEF u
<1>10. /\ child'[c] = ch /\ up'[c] = u /\ down'[c] = down[c] /\ graphList' = graphList /\ lisp' = lisp
       /\ \A e \in Viewport \ {c} : child'[e] = child[e] /\ up'[e] = up[e] /\ down'[e] = down[e]
  BY <1>2, <1>3, <1>6 DEF OthersOfChild
<1>11. \A e : Closing(e)' = Closing(e)
  BY <1>10 DEF Closing, Target, InCall
<1>12. \A k \in Key : Holding(ch, k) = Holding(child[c], k)
  BY <1>4 DEF Holding
<1>13. ASSUME NEW k \in Key, c \in Viewport2D
       PROVE  Kept(ch, u, down[c], graphList[k].listed, graphList[k].views[c], k)
  <2>1. KeptIn(c, k)
    BY <1>13, ProgramFacts
  <2> QED
    BY <1>2, <1>4, <1>12, <2>1 DEF KeptIn, Kept, Up
<1>14. ASSUME NEW k \in Key, Wanted(k), Secure(k)
       PROVE  Secure(k)'
  <2>1. CASE graphList[k].listed = "ever"
    BY <1>10, <2>1 DEF Secure
  <2>2. ASSUME graphList[k].listed = "yes", NEW e \in Viewport2D, e # c, Anchor(e, k)
        PROVE  Secure(k)'
    <3>1. e \in Viewport \ {c}
      BY <2>2, Basics
    <3>2. Anchor(e, k)'
      BY <1>10, <1>11, <2>2, <3>1 DEF Anchor, Leaving
    <3> QED
      BY <1>10, <2>2, <3>2 DEF Secure
  <2>3. ASSUME graphList[k].listed = "yes", c \in Viewport2D, Anchor(c, k)
        PROVE  Secure(k)'
    <3>1. CASE Holds(c, k)
      <4>1. PICK e \in Viewport2D \ {c} : /\ child[e].pc \in Up /\ Holds(e, k)
                                          /\ ~(lisp.pc # "idle" /\ lisp.vp = e /\ lisp.cmd = "closeAll")
        BY <1>1, <1>3, <1>14, <3>1, NeededGraphs DEF MayClose
      <4>2. ~Closing(e)
        BY <4>1 DEF Closing, Target, InCall
      <4>3. Anchor(e, k)
        BY <1>3, <4>1, <4>2, HolderAnchors
      <4> QED
        BY <2>2, <2>3, <4>1, <4>3
    <3>2. CASE ~Holds(c, k)
      <4>1. Holding(ch, k) = 0
        <5>1. Count(child[c].slots, k) \in Nat /\ ~(Count(child[c].slots, k) > 0)
          BY <1>3, <3>2, CountType, CountHeld DEF Holds
        <5> QED
          BY <1>12, <5>1 DEF Holding
      <4>2. graphList[k].views[c] > Coming(down[c], k) /\ graphList[k].views[c] \in Nat /\ Coming(down[c], k) \in Nat
        <5>1. graphList[k].views[c] \in Nat /\ Coming(down[c], k) \in Nat
          <6>1. graphList[k].views[c] \in Nat
            BY <1>3, ViewsType
          <6> QED
            BY <6>1, ComingType
        <5> QED
          BY <1>2, <2>3, <5>1 DEF Anchor, Spare
      <4>3. Anchor(c, k)'
        BY <1>10, <4>1, <4>2 DEF Anchor, Spare
      <4> QED
        BY <1>10, <2>3, <4>3 DEF Secure
    <3> QED
      BY <3>1, <3>2
  <2> QED
    BY <1>14, <2>1, <2>2, <2>3 DEF Secure
<1>15. /\ c \in Viewport3D => ch.doit = "none"
       /\ child[c].pc # "none" /\ child[c].pc \notin Gone /\ ch.pc # "none"
  BY <1>2, <1>3, <1>4 DEF Placed, Gone
<1> QED
  BY <1>2, <1>3, <1>4, <1>7, <1>8, <1>9, <1>13, <1>14, <1>15, OneProgramKeepsInv

(* The program dies. *)
LEMMA CrashKeepsInv ==
  ASSUME SyncInv, NEW c \in Viewport, Crash(c)
  PROVE  SyncInv'
<1> DEFINE ch == [child[c] EXCEPT !.pc = "zombie"]
<1>1. /\ child[c].pc \in Up \cup {"exiting"} /\ child' = [child EXCEPT ![c].pc = "zombie"]
      /\ down' = [down EXCEPT ![c] = <<>>] /\ up' = up /\ inSync' = inSync /\ UNCHANGED OthersOfChild
  BY DEF Crash
<1>2. /\ child[c] \in Programs /\ Link(c, Role(c), lisp.cmd, ArgKey, child[c], up[c], down[c])
      /\ up[c] \in Seq(UpItems) /\ up \in [Viewport -> Seq(UpItems)]
      /\ child \in [Viewport -> Programs] /\ Placed(c) /\ inSync = TRUE
  BY ProgramFacts
<1>3. ch \in Programs /\ ch.pc = "zombie" /\ ch.pc \in Gone /\ ch.slots = child[c].slots /\ ch.doit = child[c].doit
  BY <1>2 DEF Programs, Gone
<1>4. child' = [child EXCEPT ![c] = ch] /\ up = [up EXCEPT ![c] = up[c]]
  BY <1>1, <1>2
<1> HIDE DEF ch
<1>5. OneProgram(c, ch, up[c], <<>>) /\ <<>> \in Seq(DownItems)
  BY <1>1, <1>2, <1>4, EmptyElems DEF OneProgram
<1>6. Link(c, Role(c), lisp.cmd, ArgKey, ch, up[c], <<>>)
  BY <1>1, <1>2, <1>3, LinkDied
<1>7. \A k \in Key : Holding(ch, k) = Holding(child[c], k) /\ Coming(<<>>, k) = 0
  BY <1>3, ComingNone DEF Holding
<1>8. ch.pc \notin Up \cup {"data", "none", "exiting"}
  BY <1>3 DEF Up
<1>9. ASSUME NEW k \in Key, c \in Viewport2D
      PROVE  Kept(ch, up[c], <<>>, graphList[k].listed, graphList[k].views[c], k)
  <2>1. KeptIn(c, k) /\ Holding(child[c], k) \in Nat /\ graphList[k].views[c] \in Nat /\ Coming(down[c], k) \in Nat
    <3>1. KeptIn(c, k) /\ Holding(child[c], k) \in Nat /\ graphList[k].views[c] \in Nat
      BY <1>9, ProgramFacts, ViewsType
    <3> QED
      BY <3>1, ComingType
  <2> QED
    BY <1>7, <1>8, <2>1 DEF KeptIn, Kept
<1>10. ASSUME NEW k \in Key, Anchor(c, k)
       PROVE  Spare(Leaving(c, ch, up[c]), ch, <<>>, graphList[k].views[c], k)
  <2>1. Leaving(c, ch, up[c]) => Leaving(c, child[c], up[c])
    BY <1>8 DEF Leaving
  <2>2. Coming(<<>>, k) <= Coming(down[c], k)
    BY <1>7, ComingType
  <2> QED
    BY <1>3, <1>10, <2>1, <2>2, AnchorStays
<1>11. \A k \in Key : Secure(k) => Secure(k)'
  BY <1>2, <1>3, <1>5, <1>9, <1>10, OneProgramGraphs
<1>12. /\ c \in Viewport3D => ch.doit = "none"
       /\ Target(c) /\ lisp.cmd \in {"putGraph", "showing2D"} => ch.doit = "none"
       /\ child[c].pc # "none"
  BY <1>1, <1>2, <1>3 DEF Placed, Up
<1> QED
  BY <1>2, <1>3, <1>5, <1>6, <1>8, <1>9, <1>11, <1>12, OneProgramKeepsInv
-----------------------------------------------------------------------------
(* Steps of Lisp. *)
LEMMA LispKeepsInv ==
  ASSUME SyncInv, UNCHANGED OthersOfLisp, inSync' = TRUE,
         lisp' \in LispStates, known' \subseteq Viewport, sent' \subseteq Key,
         PhaseInv', PromiseInv',
         Free \/ (lisp'.cmd = lisp.cmd /\ lisp'.keys = lisp.keys),
         toManager # <<>> => toManager' # <<>>,
         \A c \in manager.closing : Closing(c) /\ (c \in Listed \/ Waiting(c)) => Closing(c)' /\ toManager' = <<>>,
         \A c \in Viewport : Target(c)' =>
            \/ Target(c) /\ lisp'.cmd = lisp.cmd
            \/ toManager = <<>> /\ (lisp'.cmd \in {"putGraph", "showing2D"} => child[c].doit = "none"),
         \A k \in Key : PickedUp(k) /\ Secure(k) => Secure(k)'
  PROVE  SyncInv'
<1>1. UNCHANGED <<manager, viewports, graphList, picked, child, down, up>>
  BY DEF OthersOfLisp
<1>2. Types /\ ManagerInv /\ LinksInv /\ PlacesInv /\ KeptInv /\ PickInv
  BY DEF SyncInv
<1>3. Listed' = Listed /\ \A c : Role(c)' = Role(c) /\ Waiting(c)' = Waiting(c)
  BY <1>1 DEF Listed, Role, Waiting
<1>4. Types'
  BY <1>1, <1>2 DEF Types
<1>5. ManagerInv'
  <2>1. ASSUME NEW c \in manager.closing, c \in Listed \/ Waiting(c)
        PROVE  Closing(c)' /\ toManager' = <<>>
    <3>1. Closing(c)
      BY <1>2, <2>1 DEF ManagerInv
    <3> QED
      BY <2>1, <3>1
  <2>2. manager'.pc = "serve" /\ SPAD \in manager'.ready => toManager' # <<>>
    BY <1>1, <1>2 DEF ManagerInv
  <2> QED
    BY <1>1, <1>2, <1>3, <2>1, <2>2 DEF ManagerInv
<1>6. LinksInv'
  <2> SUFFICES ASSUME NEW c \in Viewport
               PROVE  LinkOf(c)'
    BY DEF LinksInv
  <2>1. Link(c, Role(c), lisp.cmd, ArgKey, child[c], up[c], down[c])
    BY ProgramFacts
  <2>2. CASE lisp'.cmd = lisp.cmd /\ lisp'.keys = lisp.keys
    <3>1. ArgKey' = ArgKey
      BY <2>2 DEF ArgKey
    <3> QED
      BY <1>1, <1>3, <2>1, <2>2, <3>1 DEF LinkOf
  <2>3. CASE Free
    <3>1. Role(c) = "free"
      BY <2>3, RoleTypes
    <3>2. Link(c, "free", lisp'.cmd, ArgKey', child[c], up[c], down[c])
      BY <2>1, <3>1, LinkOutside
    <3> QED
      BY <1>1, <1>3, <3>1, <3>2 DEF LinkOf
  <2> QED
    BY <2>2, <2>3
<1>7. PlacesInv'
  <2> SUFFICES ASSUME NEW c \in Viewport
               PROVE  Placed(c)'
    BY DEF PlacesInv
  <2>1. Placed(c)
    BY <1>2 DEF PlacesInv
  <2>2. Target(c)' /\ lisp'.cmd \in {"putGraph", "showing2D"} => child[c].doit = "none"
    BY <2>1 DEF Placed
  <2>3. manager.pc = "serve" /\ SPAD \in manager.ready => toManager # <<>>
    BY <1>2 DEF ManagerInv
  <2> QED
    BY <1>1, <1>3, <2>1, <2>2, <2>3 DEF Placed
<1>8. KeptInv'
  BY <1>1, <1>2 DEF KeptInv, KeptIn
<1>9. PickInv'
  <2>1. \A k : PickedUp(k)' = PickedUp(k)
    BY <1>1 DEF PickedUp
  <2> QED
    BY <1>2, <2>1 DEF PickInv
<1> QED
  BY <1>4, <1>5, <1>6, <1>7, <1>8, <1>9 DEF SyncInv

(* As long as Lisp does not begin to close a viewport, the graphs are as secure as before. *)
LEMMA SecureStays ==
  ASSUME UNCHANGED <<graphList, child, down, up>>, \A c \in Viewport : Closing(c)' => Closing(c), Types
  PROVE  \A k \in Key : Secure(k) => Secure(k)'
<1>1. ASSUME NEW c \in Viewport2D, NEW k \in Key, Anchor(c, k)
      PROVE  Anchor(c, k)'
  <2>1. c \in Viewport
    BY Basics
  <2>2. Leaving(c, child[c], up[c])' => Leaving(c, child[c], up[c])
    BY <2>1 DEF Leaving
  <2>3. /\ graphList[k].views[c] \in Nat /\ Holding(child[c], k) \in Nat
    BY <2>1, ViewsType
  <2>4. Coming(down[c], k) \in Nat
    BY ComingType
  <2>5. CASE Leaving(c, child[c], up[c])'
    BY <1>1, <2>2, <2>3, <2>4, <2>5 DEF Anchor, Spare
  <2>6. CASE ~Leaving(c, child[c], up[c])'
    BY <1>1, <2>3, <2>4, <2>6 DEF Anchor, Spare
  <2> QED
    BY <2>5, <2>6
<1> QED
  BY <1>1 DEF Secure

(* Lisp reads an answer. *)
LEMMA LispGets ==
  ASSUME SyncInv, UNCHANGED OthersOfLisp, inSync' = TRUE, known' \subseteq Viewport, sent' \subseteq Key,
         NEW next \in {"idle", "acknowledge", "closed"},
         lisp' = IF next = "idle" THEN [pc |-> "idle", vp |-> 0, cmd |-> "none", keys |-> {}]
                 ELSE [lisp EXCEPT !.pc = next],
         next # "idle" => InCall,
         next = "idle" => Free,
         next = "acknowledge" => lisp.pc = "asked",
         next = "closed" => toManager' = toManager,
         toManager # <<>> => toManager' # <<>>,
         \A c \in manager.closing : Closing(c) /\ (c \in Listed \/ Waiting(c)) => next # "idle" /\ toManager' = <<>>,
         PhaseInv'
  PROVE  SyncInv'
<1>1. UNCHANGED <<manager, viewports, graphList, picked, child, down, up>>
  BY DEF OthersOfLisp
<1>2. Types /\ PromiseInv /\ lisp \in LispStates
  BY DEF SyncInv, Types
<1>3. /\ lisp' \in LispStates /\ lisp'.pc = next /\ lisp'.pc \notin {"asked", "make"}
      /\ next # "idle" => lisp'.vp = lisp.vp /\ lisp'.cmd = lisp.cmd /\ lisp'.keys = lisp.keys
      /\ next = "idle" => lisp'.keys = {}
  BY <1>2 DEF LispStates
<1>4. \A c : Target(c)' => next # "idle" /\ Target(c) /\ lisp'.cmd = lisp.cmd
  BY <1>3 DEF Target, InCall
<1>5. \A c : Closing(c)' => Closing(c)
  BY <1>4 DEF Closing
<1>6. \A k \in Key : Secure(k) => Secure(k)'
  BY <1>1, <1>2, <1>5, SecureStays
<1>7. PromiseInv'
  <2>1. \A k \in Key : k \in Promised' => k \in Promised
    BY <1>3 DEF Promised
  <2>2. \A k : Unseen(k)' = Unseen(k)
    BY <1>1, UnseenFrame
  <2> QED
    BY <1>2, <1>3, <1>6, <2>1, <2>2 DEF PromiseInv
<1>8. ASSUME NEW c \in manager.closing, Closing(c), c \in Listed \/ Waiting(c)
      PROVE  Closing(c)' /\ toManager' = <<>>
  <2>1. next # "idle" /\ toManager' = <<>>
    BY <1>8
  <2> QED
    BY <1>3, <1>8, <2>1 DEF Closing, Target, InCall
<1> QED
  BY <1>3, <1>4, <1>6, <1>7, <1>8, LispKeepsInv

LEMMA GetFacts ==
  ASSUME NEW pc, NEW item, NEW next, Get(pc, item, next)
  PROVE  /\ lisp.pc = pc /\ toLisp # <<>> /\ toLisp' = Tail(toLisp) /\ inSync' = (Head(toLisp).t = item)
         /\ lisp' = IF next = "idle" THEN [pc |-> "idle", vp |-> 0, cmd |-> "none", keys |-> {}]
                    ELSE [lisp EXCEPT !.pc = next]
         /\ UNCHANGED OthersOfLisp /\ UNCHANGED <<manager, viewports>>
         /\ Free' = Free /\ Listed' = Listed
BY DEF Get, OthersOfLisp, Free, Listed

LEMMA IdlePhase ==
  ASSUME lisp' = [pc |-> "idle", vp |-> 0, cmd |-> "none", keys |-> {}],
         toManager' = <<>>, toLisp' = <<>>, Free'
  PROVE  PhaseInv'
BY DEF PhaseInv, InCall

LEMMA GetKeyKeepsInv ==
  ASSUME SyncInv, GetKey
  PROVE  SyncInv'
<1>1. Get("graph", "key", "idle") /\ sent' = sent \cup {Head(toLisp).n} /\ known' = known /\ toManager' = toManager
  BY DEF GetKey
<1>2. /\ lisp.pc = "graph" /\ toLisp # <<>> /\ toLisp' = Tail(toLisp) /\ inSync' = (Head(toLisp).t = "key")
      /\ lisp' = [pc |-> "idle", vp |-> 0, cmd |-> "none", keys |-> {}]
      /\ UNCHANGED OthersOfLisp /\ Free' = Free
  BY <1>1, GetFacts
<1>3. PICK k \in Key : toLisp = <<[t |-> "key", n |-> k]>> /\ toManager = <<>> /\ Free
  BY <1>2 DEF SyncInv, PhaseInv, GraphPhase
<1>4. Head(toLisp) = [t |-> "key", n |-> k] /\ Tail(toLisp) = <<>>
  BY <1>3, ShortTails
<1>5. PhaseInv'
  BY <1>1, <1>2, <1>3, <1>4, IdlePhase
<1>6. inSync' = TRUE /\ sent' \subseteq Key /\ known' \subseteq Viewport
  <2>1. Head(toLisp).t = "key" /\ Head(toLisp).n = k
    BY <1>4
  <2>2. sent \subseteq Key /\ known \subseteq Viewport
    BY DEF SyncInv, Types
  <2>3. inSync' = TRUE
    BY <1>2, <2>1
  <2> QED
    BY <1>1, <2>1, <2>2, <2>3
<1>7. \A c : ~Closing(c)
  BY <1>2 DEF Closing, Target, InCall
<1> QED
  BY <1>1, <1>2, <1>3, <1>5, <1>6, <1>7, LispGets

LEMMA GetPIDKeepsInv ==
  ASSUME SyncInv, GetPID
  PROVE  SyncInv'
<1>1. Get("make", "pid", "idle") /\ known' = known \cup {Head(toLisp).n} /\ sent' = sent /\ toManager' = toManager
  BY DEF GetPID
<1>2. /\ lisp.pc = "make" /\ toLisp # <<>> /\ toLisp' = Tail(toLisp) /\ inSync' = (Head(toLisp).t = "pid")
      /\ lisp' = [pc |-> "idle", vp |-> 0, cmd |-> "none", keys |-> {}]
      /\ UNCHANGED OthersOfLisp /\ Free' = Free
  BY <1>1, GetFacts
<1>3. PICK c \in Viewport : toLisp = <<[t |-> "pid", n |-> c]>> /\ toManager = <<>> /\ Free
  BY <1>2 DEF SyncInv, PhaseInv, MakePhase
<1>4. Head(toLisp) = [t |-> "pid", n |-> c] /\ Tail(toLisp) = <<>>
  BY <1>3, ShortTails
<1>5. PhaseInv'
  BY <1>1, <1>2, <1>3, <1>4, IdlePhase
<1>6. inSync' = TRUE /\ sent' \subseteq Key /\ known' \subseteq Viewport
  <2>1. Head(toLisp).t = "pid" /\ Head(toLisp).n = c
    BY <1>4
  <2>2. sent \subseteq Key /\ known \subseteq Viewport
    BY DEF SyncInv, Types
  <2>3. inSync' = TRUE
    BY <1>2, <2>1
  <2> QED
    BY <1>1, <2>1, <2>2, <2>3
<1>7. \A e : ~Closing(e)
  BY <1>2 DEF Closing, Target, InCall
<1> QED
  BY <1>1, <1>2, <1>3, <1>5, <1>6, <1>7, LispGets

LEMMA GetRefusalKeepsInv ==
  ASSUME SyncInv, GetRefusal
  PROVE  SyncInv'
<1>1. /\ Get("asked", "refused", "idle") /\ known' = known \ {lisp.vp} /\ sent' = sent /\ toManager' = toManager
      /\ Head(toLisp).t = "refused"
  BY DEF GetRefusal
<1>2. /\ lisp.pc = "asked" /\ toLisp # <<>> /\ toLisp' = Tail(toLisp) /\ inSync' = (Head(toLisp).t = "refused")
      /\ lisp' = [pc |-> "idle", vp |-> 0, cmd |-> "none", keys |-> {}]
      /\ UNCHANGED OthersOfLisp /\ Free' = Free
  BY <1>1, GetFacts
<1>3. toLisp = <<[t |-> "refused"]>> /\ toManager = <<>> /\ Free /\ Forgotten(lisp.vp)
  <2>1. OrderAsked \/ ClosePhase
    BY <1>2 DEF SyncInv, PhaseInv
  <2>2. Granted.t # "refused"
    BY DEF Granted
  <2> QED
    BY <1>1, <1>2, <2>1, <2>2, ShortTails DEF OrderAsked, ClosePhase
<1>4. Tail(toLisp) = <<>>
  BY <1>3, ShortTails
<1>5. PhaseInv'
  BY <1>1, <1>2, <1>3, <1>4, IdlePhase
<1>6. inSync' = TRUE /\ sent' \subseteq Key /\ known' \subseteq Viewport
  BY <1>1, <1>2 DEF SyncInv, Types
<1>7. \A c : ~(Closing(c) /\ (c \in Listed \/ Waiting(c)))
  BY <1>3 DEF Closing, Target, Forgotten
<1> QED
  BY <1>1, <1>2, <1>3, <1>5, <1>6, <1>7, LispGets

LEMMA GetGrantKeepsInv ==
  ASSUME SyncInv, GetGrant
  PROVE  SyncInv'
<1> DEFINE order == [t |-> "args", key |-> ArgKey]
<1>1. /\ Get("asked", "granted", "acknowledge") /\ known' = known /\ sent' = sent /\ Head(toLisp).t # "refused"
      /\ toManager' = IF lisp.cmd \notin WithArguments THEN toManager ELSE Append(toManager, order)
  BY DEF GetGrant, ArgKey
<1>2. /\ lisp.pc = "asked" /\ toLisp # <<>> /\ toLisp' = Tail(toLisp) /\ inSync' = (Head(toLisp).t = "granted")
      /\ lisp' = [lisp EXCEPT !.pc = "acknowledge"]
      /\ UNCHANGED OthersOfLisp /\ UNCHANGED <<manager, viewports>> /\ Free' = Free /\ Listed' = Listed
  BY <1>1, GetFacts
<1>3. /\ PhaseInv /\ InCall /\ lisp.vp \in Viewport /\ lisp.cmd \in Orders
      /\ (lisp.keys = {} \/ \E k \in Key : lisp.keys = {k}) /\ lisp \in LispStates
      /\ sent \subseteq Key /\ known \subseteq Viewport
  BY <1>2 DEF SyncInv, PhaseInv, InCall, Types
<1>4. /\ lisp'.pc = "acknowledge" /\ lisp'.vp = lisp.vp /\ lisp'.cmd = lisp.cmd /\ lisp'.keys = lisp.keys
      /\ ArgKey' = ArgKey /\ PassItem' = PassItem /\ PassItem = order
  BY <1>2, <1>3 DEF LispStates, ArgKey, PassItem
<1>5. /\ ForAnswer' = ForAnswer /\ ForArguments' = ForArguments /\ StillThere(lisp.vp)' = StillThere(lisp.vp)
      /\ Forgotten(lisp.vp)' = Forgotten(lisp.vp)
  BY <1>2, <1>4 DEF ForAnswer, ForArguments, StillThere, Forgotten, Waiting
<1> HIDE DEF order
<1>6. CASE OrderAsked
  <2>1. toManager = <<>> /\ toLisp = <<Granted>> /\ lisp.cmd # "closeAll" /\ ForArguments
    BY <1>1, <1>2, <1>6, ShortTails DEF OrderAsked
  <2>2. lisp.cmd \in WithArguments
    BY <1>3, <2>1 DEF Orders, WithArguments, Command
  <2>3. toManager' = <<order>> /\ toLisp' = <<>>
    BY <1>1, <1>2, <2>1, <2>2, ShortJoins, ShortTails
  <2>4. OrderAcknowledged'
    BY <1>4, <1>5, <2>1, <2>3 DEF OrderAcknowledged
  <2>5. PhaseInv'
    BY <1>3, <1>4, <2>4 DEF PhaseInv, InCall
  <2>6. inSync' = TRUE
    <3>1. Head(toLisp).t = "granted"
      BY <2>1, ShortTails DEF Granted
    <3> QED
      BY <1>2, <3>1
  <2>7. \A c : ~Closing(c)
    BY <2>1 DEF Closing
  <2>8. toManager' # <<>>
    BY <2>3, ShortTails
  <2> QED
    BY <1>1, <1>2, <1>3, <2>5, <2>6, <2>7, <2>8, LispGets
<1>7. CASE ClosePhase
  <2>1. lisp.cmd = "closeAll" /\ toManager = <<>>
    BY <1>7 DEF ClosePhase
  <2>2. lisp.cmd \notin WithArguments
    BY <2>1 DEF WithArguments
  <2>3. toManager' = <<>>
    BY <1>1, <2>1, <2>2
  <2>4. Head(toLisp) = Granted /\ ClosePhase'
    <3>1. CASE toLisp = <<Granted>> /\ ForAnswer /\ lisp.vp \in manager.closing
      <4>1. Head(toLisp) = Granted /\ toLisp' = <<>>
        BY <1>2, <3>1, ShortTails
      <4> QED
        BY <1>2, <1>4, <1>5, <2>1, <2>3, <3>1, <4>1 DEF ClosePhase
    <3>2. CASE toLisp = <<Granted, Done>> /\ Free /\ StillThere(lisp.vp)
      <4>1. Head(toLisp) = Granted /\ toLisp' = <<Done>>
        BY <1>2, <3>2, ShortTails
      <4> QED
        BY <1>2, <1>4, <1>5, <2>1, <2>3, <3>2, <4>1 DEF ClosePhase
    <3>3. CASE toLisp = <<Granted, Done, Closed>> /\ Free /\ Forgotten(lisp.vp)
      <4>1. Head(toLisp) = Granted /\ toLisp' = <<Done, Closed>>
        BY <1>2, <3>3, ShortTails
      <4> QED
        BY <1>2, <1>4, <1>5, <2>1, <2>3, <3>3, <4>1 DEF ClosePhase
    <3> QED
      BY <1>2, <1>7, <3>1, <3>2, <3>3 DEF ClosePhase
  <2>5. PhaseInv'
    BY <1>3, <1>4, <2>4 DEF PhaseInv, InCall
  <2>6. inSync' = TRUE
    <3>1. Head(toLisp).t = "granted"
      BY <2>4 DEF Granted
    <3> QED
      BY <1>2, <3>1
  <2> QED
    BY <1>1, <1>2, <1>3, <2>1, <2>3, <2>5, <2>6, LispGets
<1> QED
  BY <1>2, <1>3, <1>6, <1>7 DEF PhaseInv

LEMMA GetAcknowledgeKeepsInv ==
  ASSUME SyncInv, GetAcknowledge
  PROVE  SyncInv'
<1> DEFINE next == IF lisp.cmd = "closeAll" THEN "closed" ELSE "idle"
<1>1. /\ Get("acknowledge", "done", next) /\ sent' = sent /\ toManager' = toManager
      /\ known' = IF lisp.cmd = "closeAll" THEN known \ {lisp.vp} ELSE known
  BY DEF GetAcknowledge
<1>2. /\ lisp.pc = "acknowledge" /\ toLisp # <<>> /\ toLisp' = Tail(toLisp) /\ inSync' = (Head(toLisp).t = "done")
      /\ lisp' = IF next = "idle" THEN [pc |-> "idle", vp |-> 0, cmd |-> "none", keys |-> {}]
                 ELSE [lisp EXCEPT !.pc = next]
      /\ UNCHANGED OthersOfLisp /\ UNCHANGED <<manager, viewports>> /\ Free' = Free /\ Listed' = Listed
  BY <1>1, GetFacts
<1>3. /\ PhaseInv /\ InCall /\ lisp.vp \in Viewport /\ lisp.cmd \in Orders
      /\ (lisp.keys = {} \/ \E k \in Key : lisp.keys = {k}) /\ lisp \in LispStates
      /\ sent' \subseteq Key /\ known' \subseteq Viewport
  BY <1>1, <1>2 DEF SyncInv, PhaseInv, InCall, Types
<1>4. CASE OrderAcknowledged
  <2>1. toManager = <<>> /\ toLisp = <<Done>> /\ lisp.cmd # "closeAll" /\ Free
    BY <1>2, <1>4 DEF OrderAcknowledged
  <2>2. toLisp' = <<>> /\ Head(toLisp) = Done
    BY <1>2, <2>1, ShortTails
  <2>3. PhaseInv'
    BY <1>1, <1>2, <2>1, <2>2, IdlePhase
  <2>4. inSync' = TRUE
    <3>1. Head(toLisp).t = "done"
      BY <2>2 DEF Done
    <3> QED
      BY <1>2, <3>1
  <2>5. \A c : ~Closing(c)
    BY <2>1 DEF Closing
  <2> QED
    BY <1>1, <1>2, <1>3, <2>1, <2>3, <2>4, <2>5, LispGets
<1>5. CASE ClosePhase
  <2>1. lisp.cmd = "closeAll" /\ toManager = <<>>
    BY <1>5 DEF ClosePhase
  <2>2. /\ lisp'.pc = "closed" /\ lisp'.vp = lisp.vp /\ lisp'.cmd = lisp.cmd /\ lisp'.keys = lisp.keys
        /\ lisp' = [lisp EXCEPT !.pc = "closed"]
    BY <1>2, <1>3, <2>1 DEF LispStates
  <2>3. /\ StillThere(lisp.vp)' = StillThere(lisp.vp) /\ Forgotten(lisp.vp)' = Forgotten(lisp.vp)
    BY <1>2, <2>2 DEF StillThere, Forgotten, Waiting
  <2>4. Head(toLisp) = Done /\ ClosePhase'
    <3>1. CASE toLisp = <<Done>> /\ Free /\ StillThere(lisp.vp)
      <4>1. Head(toLisp) = Done /\ toLisp' = <<>>
        BY <1>2, <3>1, ShortTails
      <4> QED
        BY <1>1, <1>2, <2>1, <2>2, <2>3, <3>1, <4>1 DEF ClosePhase
    <3>2. CASE toLisp = <<Done, Closed>> /\ Free /\ Forgotten(lisp.vp)
      <4>1. Head(toLisp) = Done /\ toLisp' = <<Closed>>
        BY <1>2, <3>2, ShortTails
      <4> QED
        BY <1>1, <1>2, <2>1, <2>2, <2>3, <3>2, <4>1 DEF ClosePhase
    <3> QED
      BY <1>2, <1>5, <3>1, <3>2 DEF ClosePhase
  <2>5. PhaseInv'
    BY <1>3, <2>2, <2>4 DEF PhaseInv, InCall
  <2>6. inSync' = TRUE
    <3>1. Head(toLisp).t = "done"
      BY <2>4 DEF Done
    <3> QED
      BY <1>2, <3>1
  <2> QED
    BY <1>1, <1>2, <1>3, <2>1, <2>2, <2>5, <2>6, LispGets
<1> QED
  BY <1>2, <1>3, <1>4, <1>5 DEF PhaseInv

(* Close returns when the manager has forgotten the viewport. *)
LEMMA GetClosedKeepsInv ==
  ASSUME SyncInv, GetClosed
  PROVE  SyncInv' /\ Forgotten(lisp.vp)
<1>1. Get("closed", "closed", "idle") /\ known' = known /\ sent' = sent /\ toManager' = toManager
  BY DEF GetClosed
<1>2. /\ lisp.pc = "closed" /\ toLisp # <<>> /\ toLisp' = Tail(toLisp) /\ inSync' = (Head(toLisp).t = "closed")
      /\ lisp' = [pc |-> "idle", vp |-> 0, cmd |-> "none", keys |-> {}]
      /\ UNCHANGED OthersOfLisp /\ Free' = Free
  BY <1>1, GetFacts
<1>3. toLisp = <<Closed>> /\ toManager = <<>> /\ Free /\ Forgotten(lisp.vp)
  BY <1>2 DEF SyncInv, PhaseInv, ClosePhase
<1>4. Tail(toLisp) = <<>> /\ Head(toLisp) = Closed
  BY <1>3, ShortTails
<1>5. PhaseInv'
  BY <1>1, <1>2, <1>3, <1>4, IdlePhase
<1>6. inSync' = TRUE
  <2>1. Head(toLisp).t = "closed"
    BY <1>4 DEF Closed
  <2> QED
    BY <1>2, <2>1
<1>7. \A c : ~(Closing(c) /\ (c \in Listed \/ Waiting(c)))
  BY <1>3 DEF Closing, Target, Forgotten
<1>8. known' \subseteq Viewport /\ sent' \subseteq Key
  BY <1>1 DEF SyncInv, Types
<1> QED
  BY <1>1, <1>2, <1>3, <1>5, <1>6, <1>7, <1>8, LispGets

(* Lisp begins a call. *)
LEMMA RequestFacts ==
  ASSUME SyncInv, Idle, NEW pc, NEW c, NEW cmd, NEW keys, NEW items, Request(pc, c, cmd, keys, items)
  PROVE  /\ lisp' = [pc |-> pc, vp |-> c, cmd |-> cmd, keys |-> keys]
         /\ toManager' = <<>> \o items /\ toLisp' = <<>>
         /\ known' = known /\ sent' = sent /\ inSync' = TRUE
         /\ UNCHANGED <<manager, viewports, graphList, picked, child, down, up>> /\ UNCHANGED OthersOfLisp
         /\ lisp.pc = "idle" /\ toManager = <<>> /\ Free /\ Free' = Free
         /\ \A e : ~Target(e) /\ ~Closing(e)
         /\ known \subseteq Viewport /\ sent \subseteq Key /\ manager.graphKey \in Nat
         /\ known' \subseteq Viewport /\ sent' \subseteq Key
<1>1. /\ lisp' = [pc |-> pc, vp |-> c, cmd |-> cmd, keys |-> keys]
      /\ toManager' = toManager \o items /\ UNCHANGED <<known, sent, toLisp, inSync, OthersOfLisp>>
  BY DEF Request
<1>2. UNCHANGED <<manager, viewports, graphList, picked, child, down, up>>
  BY <1>1 DEF OthersOfLisp
<1>3. lisp.pc = "idle" /\ toManager = <<>> /\ toLisp = <<>> /\ Free
  BY PhaseSays DEF Idle, SyncInv
<1>4. \A e : ~Target(e) /\ ~Closing(e)
  BY <1>3 DEF Target, Closing, InCall
<1>5. known \subseteq Viewport /\ sent \subseteq Key /\ manager.graphKey \in Nat /\ inSync = TRUE
  BY DEF SyncInv, Types, ManagerStates
<1>6. Free' = Free
  BY <1>2 DEF Free
<1> QED
  BY <1>1, <1>2, <1>3, <1>4, <1>5, <1>6

(* Graphs of a call that closes nothing are not discarded while it lasts. *)
LEMMA AlivePromises ==
  ASSUME SyncInv, UNCHANGED <<graphList, child, down, up>>, \A e \in Viewport : ~Closing(e) /\ ~Closing(e)'
  PROVE  /\ \A k \in Key : Secure(k) => Secure(k)'
         /\ \A k \in Key : Alive(k) => Secure(k)' \/ Unseen(k)'
<1>1. Types /\ KeptInv /\ LinksInv
  BY DEF SyncInv
<1>2. \A k \in Key : Secure(k) => Secure(k)'
  BY <1>1, SecureStays
<1>3. ASSUME NEW k \in Key, Alive(k)
      PROVE  Secure(k)' \/ Unseen(k)'
  <2>1. graphList[k] \in GraphRecords /\ graphList[k].listed \in {"yes", "ever"}
    BY <1>1, <1>3 DEF Types, Alive, GraphRecords
  <2>2. CASE \A c \in Viewport : graphList[k].views[c] = 0
    <3>1. graphList[k].listed = "ever" => Secure(k)'
      BY DEF Secure
    <3>2. graphList[k].listed = "yes" => Unseen(k)'
      BY <2>2 DEF Unseen
    <3> QED
      BY <2>1, <3>1, <3>2
  <2>3. ASSUME NEW c \in Viewport2D, child[c].pc \in Up, Holds(c, k)
        PROVE  Secure(k)' \/ Unseen(k)'
    <3>1. ~Closing(c)
      BY Basics
    <3>2. Secure(k)
      BY <1>1, <2>3, <3>1, HolderAnchors
    <3> QED
      BY <1>2, <3>2
  <2> QED
    BY <1>3, <2>2, <2>3 DEF Alive
<1> QED
  BY <1>2, <1>3

LEMMA SendGraphKeepsInv ==
  ASSUME SyncInv, SendGraph
  PROVE  SyncInv'
<1>1. Idle /\ manager.graphKey \in Key /\ Request("graph", 0, "none", {}, <<[t |-> "makeGraph"]>>)
  BY DEF SendGraph
<1>2. /\ lisp' = [pc |-> "graph", vp |-> 0, cmd |-> "none", keys |-> {}]
      /\ toManager' = <<>> \o <<[t |-> "makeGraph"]>> /\ toLisp' = <<>>
      /\ known' \subseteq Viewport /\ sent' \subseteq Key /\ inSync' = TRUE
      /\ UNCHANGED <<manager, viewports, graphList, picked, child, down, up>> /\ UNCHANGED OthersOfLisp
      /\ lisp.pc = "idle" /\ toManager = <<>> /\ Free /\ Free' = Free /\ \A e : ~Closing(e)
  BY <1>1, RequestFacts
<1>3. toManager' = <<[t |-> "makeGraph"]>> /\ toManager' # <<>>
  BY <1>2, ShortJoins, ShortTails
<1>4. PhaseInv'
  BY <1>1, <1>2, <1>3 DEF PhaseInv, GraphPhase, InCall
<1>5. lisp' \in LispStates /\ \A e : ~Target(e)' /\ ~Closing(e)'
  BY <1>2 DEF LispStates, Target, Closing, InCall
<1>6. PromiseInv'
  BY <1>2 DEF PromiseInv, Promised
<1>7. \A k \in Key : Secure(k) => Secure(k)'
  BY <1>2, <1>5, AlivePromises
<1> QED
  BY <1>2, <1>3, <1>4, <1>5, <1>6, <1>7, LispKeepsInv

LEMMA MakeKeepsInv ==
  ASSUME SyncInv, Idle, NEW V, NEW word, NEW s \in Slots, NEW keys \in SUBSET Key,
         \/ V = Viewport2D /\ word = [t |-> "make2D"]
         \/ V = Viewport3D /\ word = [t |-> "make3D"],
         Unborn(V) # {}, \A k \in keys : Alive(k), \A i \in Slot : s[i] \in keys \cup {0},
         Request("make", 0, "none", keys, <<word, Data(s)>>)
  PROVE  SyncInv'
<1>2. /\ lisp' = [pc |-> "make", vp |-> 0, cmd |-> "none", keys |-> keys]
      /\ toManager' = <<>> \o <<word, Data(s)>> /\ toLisp' = <<>>
      /\ known' \subseteq Viewport /\ sent' \subseteq Key /\ inSync' = TRUE
      /\ UNCHANGED <<manager, viewports, graphList, picked, child, down, up>> /\ UNCHANGED OthersOfLisp
      /\ lisp.pc = "idle" /\ toManager = <<>> /\ Free /\ Free' = Free /\ \A e : ~Closing(e)
  BY RequestFacts
<1>3. toManager' = <<word, Data(s)>> /\ toManager' # <<>>
  BY <1>2, ShortJoins, ShortTails
<1>4. Unborn(V)' # {}
  BY <1>2 DEF Unborn
<1>5. PhaseInv'
  <2>1. MakePhase'
    BY <1>2, <1>3, <1>4 DEF MakePhase
  <2> QED
    BY <1>2, <2>1 DEF PhaseInv, InCall
<1>6. lisp' \in LispStates /\ \A e : ~Target(e)' /\ ~Closing(e)'
  BY <1>2 DEF LispStates, Target, Closing, InCall
<1>7. /\ \A k \in Key : Secure(k) => Secure(k)'
      /\ \A k \in Key : Alive(k) => Secure(k)' \/ Unseen(k)'
  BY <1>2, <1>6, AlivePromises
<1>8. PromiseInv'
  <2>1. Promised' = keys
    BY <1>2, <1>3 DEF Promised
  <2>2. \A j \in DOMAIN <<word, Data(s)>> : <<word, Data(s)>>[j].t = "data" =>
          \A i \in Slot : <<word, Data(s)>>[j].slots[i] \in keys \cup {0}
    <3>1. DOMAIN <<word, Data(s)>> = {1, 2} /\ <<word, Data(s)>>[1] = word /\ <<word, Data(s)>>[2] = Data(s)
      BY ShortElems
    <3>2. word.t # "data" /\ Data(s).slots = s
      BY DEF Data
    <3> QED
      BY <3>1, <3>2
  <2> QED
    BY <1>2, <1>3, <1>7, <2>1, <2>2 DEF PromiseInv
<1> QED
  BY <1>2, <1>3, <1>5, <1>6, <1>7, <1>8, LispKeepsInv

LEMMA MakeViewportKeepsInv ==
  ASSUME Careful, SyncInv, MakeViewport2D \/ MakeViewport3D
  PROVE  SyncInv'
<1>1. CASE MakeViewport2D
  <2>1. PICK slots \in [Slot -> sent \cup {0}] :
          LET keys == {slots[i] : i \in Slot} \ {0} IN
          /\ \A k \in keys : Alive(k)
          /\ Request("make", 0, "none", keys, <<[t |-> "make2D"], [t |-> "data", slots |-> slots]>>)
    BY <1>1 DEF MakeViewport2D
  <2> DEFINE keys == {slots[i] : i \in Slot} \ {0}
  <2>2. sent \subseteq Key /\ Idle /\ Unborn(Viewport2D) # {}
    BY <1>1 DEF SyncInv, Types, MakeViewport2D
  <2>3. slots \in Slots /\ keys \in SUBSET Key /\ \A i \in Slot : slots[i] \in keys \cup {0}
    BY <2>2 DEF Slots
  <2> QED
    BY <2>1, <2>2, <2>3, MakeKeepsInv DEF Data
<1>2. CASE MakeViewport3D
  <2>1. Empty \in Slots /\ \A i \in Slot : Empty[i] \in {} \cup {0}
    BY Basics DEF Empty
  <2> QED
    BY <1>2, <2>1, MakeKeepsInv DEF Data, MakeViewport3D
<1> QED
  BY <1>1, <1>2

LEMMA AskKeepsInv ==
  ASSUME Careful, SyncInv, Idle, NEW c \in known, NEW cmd \in Orders, NEW keys \in SUBSET Key, Ask(c, cmd, keys),
         keys = {} \/ \E k \in Key : keys = {k},
         cmd \in {"putGraph", "showing2D"} => child[c].doit = "none",
         \A k \in keys : Alive(k),
         cmd = "closeAll" => MayClose(c) /\ keys = {}
  PROVE  SyncInv'
<1>1. /\ lisp' = [pc |-> "asked", vp |-> c, cmd |-> cmd, keys |-> keys]
      /\ toManager' = <<>> \o <<[t |-> "call", cmd |-> cmd, vp |-> c]>> /\ toLisp' = <<>>
      /\ known' \subseteq Viewport /\ sent' \subseteq Key /\ inSync' = TRUE
      /\ UNCHANGED <<manager, viewports, graphList, picked, child, down, up>> /\ UNCHANGED OthersOfLisp
      /\ lisp.pc = "idle" /\ toManager = <<>> /\ Free /\ Free' = Free /\ \A e : ~Closing(e) /\ ~Target(e)
      /\ known \subseteq Viewport
  BY RequestFacts DEF Ask
<1>2. toManager' = <<[t |-> "call", cmd |-> cmd, vp |-> c]>> /\ toManager' # <<>>
  BY <1>1, ShortJoins, ShortTails
<1>3. /\ lisp'.pc = "asked" /\ lisp'.vp = c /\ lisp'.cmd = cmd /\ lisp'.keys = keys /\ c \in Viewport
      /\ lisp' \in LispStates
  BY <1>1 DEF LispStates
<1>4. PhaseInv'
  <2>1. OrderAsked'
    BY <1>1, <1>2, <1>3 DEF OrderAsked, CallItem
  <2> QED
    BY <1>3, <2>1 DEF PhaseInv, InCall
<1>5. \A e : (Target(e)' <=> e = c) /\ (Closing(e)' <=> e = c /\ cmd = "closeAll")
  BY <1>3 DEF Target, Closing, InCall
<1>6. Types /\ KeptInv /\ LinksInv /\ PickInv /\ \A e \in manager.closing : ~(Closing(e) /\ (e \in Listed \/ Waiting(e)))
  BY <1>1 DEF SyncInv
<1>7. toManager' = <<[t |-> "call", cmd |-> cmd, vp |-> c]>> => \A j \in DOMAIN toManager' : toManager'[j].t # "data"
  BY ShortElems
<1>8. CASE cmd # "closeAll"
  <2>1. /\ \A k \in Key : Secure(k) => Secure(k)'
        /\ \A k \in Key : Alive(k) => Secure(k)' \/ Unseen(k)'
    BY <1>1, <1>5, <1>8, AlivePromises
  <2>2. PromiseInv'
    BY <1>3, <2>1 DEF PromiseInv, Promised
  <2> QED
    BY <1>1, <1>2, <1>3, <1>4, <1>5, <1>6, <2>1, <2>2, LispKeepsInv
<1>9. CASE cmd = "closeAll"
  <2>1. PromiseInv'
    BY <1>3, <1>9 DEF PromiseInv, Promised
  <2>2. ASSUME NEW k \in Key, PickedUp(k), Secure(k)
        PROVE  Secure(k)'
    <3>1. CASE graphList[k].listed = "ever"
      BY <1>1, <3>1 DEF Secure
    <3>2. ASSUME graphList[k].listed = "yes", NEW e \in Viewport2D, e # c, Anchor(e, k)
          PROVE  Secure(k)'
      <4>1. ~Closing(e)' /\ ~Closing(e)
        BY <1>1, <1>5, <3>2
      <4>2. Anchor(e, k)'
        BY <1>1, <3>2, <4>1 DEF Anchor, Leaving
      <4> QED
        BY <1>1, <3>2, <4>2 DEF Secure
    <3>3. ASSUME graphList[k].listed = "yes", c \in Viewport2D, Anchor(c, k)
          PROVE  Secure(k)'
      <4>1. CASE Holds(c, k)
        <5>1. PICK e \in Viewport2D \ {c} : child[e].pc \in Up /\ Holds(e, k)
          BY <1>6, <1>9, <2>2, <4>1, NeededGraphs DEF MayClose, Wanted
        <5>2. Anchor(e, k)
          BY <1>1, <1>6, <5>1, HolderAnchors
        <5> QED
          BY <3>2, <3>3, <5>1, <5>2
      <4>2. CASE ~Holds(c, k)
        <5>1. /\ graphList[k].views[c] \in Nat /\ child[c].slots \in Slots
          BY <1>3, <1>6, ViewsType
        <5>2. Count(child[c].slots, k) = 0
          <6>1. Count(child[c].slots, k) \in Nat /\ ~(Count(child[c].slots, k) > 0)
            BY <4>2, <5>1, CountType, CountHeld DEF Holds
          <6> QED
            BY <6>1
        <5>3. graphList[k].views[c] > Coming(down[c], k)
          BY <3>3, <5>1, <5>2, ComingType DEF Anchor, Spare, Holding
        <5>4. Anchor(c, k)'
          BY <1>1, <5>1, <5>2, <5>3, ComingType DEF Anchor, Spare, Holding
        <5> QED
          BY <1>1, <3>3, <5>4 DEF Secure
      <4> QED
        BY <4>1, <4>2
    <3> QED
      BY <2>2, <3>1, <3>2, <3>3 DEF Secure
  <2> QED
    BY <1>1, <1>2, <1>3, <1>4, <1>5, <1>6, <1>9, <2>1, <2>2, LispKeepsInv
<1> QED
  BY <1>8, <1>9

LEMMA CallKeepsInv ==
  ASSUME Careful, SyncInv, Message \/ Update \/ Close
  PROVE  SyncInv'
<1>0. known \subseteq Viewport /\ sent \subseteq Key /\ \A c \in known : child[c].doit \in {"none", "pick2D", "drop2D"}
  BY ProgramFacts DEF SyncInv, Types, Programs
<1>1. CASE Message
  <2>1. PICK c \in known : \/ Ask(c, "scale", {})
                           \/ child[c].doit \notin {"pick2D", "drop2D"} /\ Ask(c, "showing2D", {})
    BY <1>1 DEF Message
  <2>2. Idle
    BY <1>1 DEF Message
  <2>3. CASE Ask(c, "scale", {})
    BY <2>2, <2>3, AskKeepsInv DEF Orders
  <2>4. CASE child[c].doit \notin {"pick2D", "drop2D"} /\ Ask(c, "showing2D", {})
    BY <1>0, <2>2, <2>4, AskKeepsInv DEF Orders
  <2> QED
    BY <2>1, <2>3, <2>4
<1>2. CASE Update
  <2>1. PICK c \in known, k \in sent : Alive(k) /\ child[c].doit \notin {"pick2D", "drop2D"} /\ Ask(c, "putGraph", {k})
    BY <1>2 DEF Update
  <2>2. Idle /\ k \in Key /\ {k} \in SUBSET Key /\ child[c].doit = "none"
    BY <1>0, <1>2, <2>1 DEF Update
  <2> QED
    BY <2>1, <2>2, AskKeepsInv DEF Orders
<1>3. CASE Close
  <2>1. PICK c \in known : MayClose(c) /\ Ask(c, "closeAll", {})
    BY <1>3 DEF Close
  <2> QED
    BY <1>3, <2>1, AskKeepsInv DEF Close, Orders
<1> QED
  BY <1>1, <1>2, <1>3
-----------------------------------------------------------------------------
(* Steps of the manager. *)
LEMMA ManagerFacts ==
  ASSUME SyncInv
  PROVE  /\ Types /\ PhaseInv /\ ManagerInv /\ LinksInv /\ PlacesInv /\ KeptInv /\ PickInv /\ PromiseInv
         /\ lisp \in LispStates /\ manager \in ManagerStates /\ graphList \in [Key -> GraphRecords]
         /\ child \in [Viewport -> Programs] /\ up \in [Viewport -> Seq(UpItems)]
         /\ down \in [Viewport -> Seq(DownItems)] /\ picked \in Key \cup {0} /\ inSync = TRUE
         /\ viewports \in Seq(Viewport) /\ Listed \subseteq Viewport /\ ToSet(viewports) = Listed
         /\ known \subseteq Viewport /\ sent \subseteq Key
BY DEF SyncInv, Types, Listed, ToSet

LEMMA NoneClosing ==
  ASSUME ManagerInv, toManager # <<>>
  PROVE  \A e \in manager.closing : e \notin Listed /\ ~Waiting(e)
BY DEF ManagerInv

LEMMA AmongTail ==
  ASSUME NEW u \in Seq(UpItems), u # <<>>
  PROVE  /\ \A k : Picks(Tail(u), k) => Picks(u, k)
         /\ \A t : Among(Tail(u), t) => Among(u, t)
         /\ \A t : Among(u, t) /\ u[1].t # t => Among(Tail(u), t)
<1> DEFINE v == Tail(u)
<1>1. /\ Len(u) \in Nat /\ DOMAIN u = 1 .. Len(u) /\ DOMAIN v = 1 .. Len(u) - 1
      /\ \A j \in DOMAIN v : v[j] = u[j + 1]
  BY TailElems
<1> HIDE DEF v
<1>2. \A j \in DOMAIN v : j + 1 \in DOMAIN u
  BY <1>1
<1>3. \A j \in DOMAIN u : j # 1 => j - 1 \in DOMAIN v /\ v[j - 1] = u[j]
  BY <1>1
<1> QED
  BY <1>1, <1>2, <1>3 DEF Picks, Among, v

(* Between the calls, and while it serves the programs, the phase stays. *)
LEMMA PhaseFree ==
  ASSUME PhaseInv, Free, Free', UNCHANGED <<lisp, toManager, toLisp>>, manager'.graphKey = manager.graphKey,
         Unborn(Viewport2D)' = Unborn(Viewport2D), Unborn(Viewport3D)' = Unborn(Viewport3D),
         Forgotten(lisp.vp) => Forgotten(lisp.vp)', StillThere(lisp.vp) => StillThere(lisp.vp)'
  PROVE  PhaseInv'
<1>1. InCall' = InCall /\ CallItem' = CallItem
  BY DEF InCall, CallItem
<1>2. ~ForArguments /\ ~ForAnswer
  BY DEF Free, ForArguments, ForAnswer
<1>3. manager.pc \notin {"fork", "data", "window"}
  BY DEF Free
<1>4. OrderAsked => OrderAsked'
  BY <1>1, <1>2 DEF OrderAsked
<1>5. OrderAcknowledged => OrderAcknowledged'
  BY <1>1, <1>2 DEF OrderAcknowledged
<1>6. ClosePhase => ClosePhase'
  BY <1>1, <1>2 DEF ClosePhase
<1>7. MakePhase => MakePhase'
  BY <1>3 DEF MakePhase
<1>8. GraphPhase => GraphPhase'
  BY DEF GraphPhase
<1> QED
  BY <1>1, <1>4, <1>5, <1>6, <1>7, <1>8 DEF PhaseInv

(* The manager takes from the pipe of program c, or writes to it. *)
LEMMA ManagerKeepsInv ==
  ASSUME SyncInv, UNCHANGED <<lisp, known, sent, viewports, child>>, inSync' = TRUE, NEW c \in Viewport,
         up' \in [Viewport -> Seq(UpItems)], down' \in [Viewport -> Seq(DownItems)],
         picked' \in Key \cup {0}, manager' \in ManagerStates, graphList' \in [Key -> GraphRecords],
         \A e \in Viewport \ {c} : up'[e] = up[e] /\ down'[e] = down[e] /\ Role(e) = "free" /\ Role(e)' = "free",
         LinkOf(c)', PhaseInv', ManagerInv',
         manager'.pc # "serve", manager'.closing \subseteq manager.closing \cup Listed,
         Among(up[c], "viewportClosing") => Among(up'[c], "viewportClosing"),
         \A k : Picks(up'[c], k) => Picks(up[c], k),
         picked' # 0 => PickedUp(picked'),
         \A k \in Key : graphList'[k].listed = graphList[k].listed,
         \A k \in Key : \A e \in Viewport \ {c} : graphList'[k].views[e] = graphList[k].views[e],
         \A k \in Key : c \in Viewport2D => KeptIn(c, k)',
         \A k \in Key : c \in Viewport2D /\ Anchor(c, k) => Anchor(c, k)',
         (\A k \in Key : Secure(k) => Secure(k)') => PromiseInv'
  PROVE  SyncInv'
<1>1. Types /\ LinksInv /\ PlacesInv /\ KeptInv /\ PickInv
  BY DEF SyncInv
<1>2. Types'
  BY <1>1 DEF Types
<1>3. LinksInv'
  <2> SUFFICES ASSUME NEW e \in Viewport, e # c
               PROVE  LinkOf(e)'
    BY DEF LinksInv
  <2>1. LinkOf(e) /\ e \in Viewport \ {c} /\ ArgKey' = ArgKey
    BY <1>1 DEF LinksInv, ArgKey
  <2>2. Role(e)' = Role(e)
    BY <2>1
  <2> QED
    BY <2>1, <2>2 DEF LinkOf
<1>4. PlacesInv'
  <2> SUFFICES ASSUME NEW e \in Viewport
               PROVE  Placed(e)'
    BY DEF PlacesInv
  <2>1. Placed(e) /\ Listed' = Listed /\ Target(e)' = Target(e)
    BY <1>1 DEF PlacesInv, Listed, Target, InCall
  <2>2. Among(up[e], "viewportClosing") => Among(up'[e], "viewportClosing")
    BY DEF Among
  <2> QED
    BY <2>1, <2>2 DEF Placed
<1>5. KeptInv' /\ \A k \in Key : Secure(k) => Secure(k)'
  BY <1>1, GraphsFrame
<1>6. PickInv'
  <2> SUFFICES ASSUME NEW k \in Key, PickedUp(k)'
               PROVE  Secure(k)'
    BY DEF PickInv
  <2>1. ASSUME NEW e \in Viewport, Picks(up'[e], k)
        PROVE  Picks(up[e], k)
    <3>1. CASE e = c
      BY <2>1, <3>1
    <3>2. CASE e # c
      <4>1. up'[e] = up[e]
        BY <3>2
      <4> QED
        BY <2>1, <4>1
    <3> QED
      BY <3>1, <3>2
  <2>2. k # 0
    BY Basics
  <2>3. PickedUp(k)
    BY <2>1, <2>2 DEF PickedUp
  <2> QED
    BY <1>1, <1>5, <2>3 DEF PickInv
<1> QED
  BY <1>2, <1>3, <1>4, <1>5, <1>6 DEF SyncInv

(* The viewport that is served. *)
LEMMA ServedFacts ==
  ASSUME SyncInv, NEW c \in Viewport, At("serve"), Served(c)
  PROVE  /\ manager.pc = "serve" /\ Free /\ c \in Listed /\ c \in manager.ready
         /\ \A e : Role(e) = "free"
         /\ UNCHANGED <<lisp, known, sent>>
         /\ Link(c, "free", lisp.cmd, ArgKey, child[c], up[c], down[c])
         /\ child[c] \in Programs /\ up[c] \in Seq(UpItems) /\ down[c] \in Seq(DownItems)
         /\ manager.slot = 0
<1>1. manager.pc = "serve" /\ Free /\ UNCHANGED <<lisp, known, sent>>
  BY DEF At, Free, OthersOfManager
<1>2. c \in Listed /\ c \in manager.ready
  BY DEF Served, Listed
<1>3. \A e : Role(e) = "free"
  BY <1>1, RoleTypes
<1>4. manager.slot = 0
  BY <1>1 DEF SyncInv, ManagerInv
<1> QED
  BY <1>1, <1>2, <1>3, <1>4, ProgramFacts

LEMMA LoopFacts ==
  ASSUME SyncInv, Loop
  PROVE  /\ manager' \in ManagerStates /\ manager'.pc = "select" /\ manager'.slot = 0 /\ Free'
         /\ manager'.closing = manager.closing /\ manager'.graphKey = manager.graphKey
         /\ \A e : Role(e)' = "free" /\ ~Waiting(e)'
<1>1. manager \in ManagerStates
  BY DEF SyncInv, Types
<1>2. /\ manager' \in ManagerStates /\ manager'.pc = "select" /\ manager'.slot = 0
      /\ manager'.closing = manager.closing /\ manager'.graphKey = manager.graphKey
  BY <1>1 DEF Loop, ManagerStates
<1> QED
  BY <1>2 DEF Free, Role, Waiting

(* After a loop the manager is as before, if it was not waiting for a child. *)
LEMMA LoopManager ==
  ASSUME SyncInv, Loop, UNCHANGED <<lisp, viewports, toManager>>,
         \A k \in Key : graphList'[k].listed = graphList[k].listed
  PROVE  ManagerInv'
<1>1. /\ manager'.pc = "select" /\ manager'.slot = 0 /\ manager'.closing = manager.closing
      /\ manager'.graphKey = manager.graphKey /\ \A e : ~Waiting(e)'
  BY LoopFacts
<1>2. Listed' = Listed /\ \A e : Closing(e)' = Closing(e)
  BY DEF Listed, Closing, Target, InCall
<1> QED
  BY <1>1, <1>2 DEF ManagerInv, SyncInv

(* When the manager has served a program, the call of Lisp stands where it stood. *)
LEMMA ServedPhases ==
  ASSUME SyncInv, NEW c \in Viewport, At("serve"), Served(c), Loop,
         UNCHANGED <<viewports, child, toManager, toLisp>>,
         \A k \in Key : graphList'[k].listed = graphList[k].listed
  PROVE  PhaseInv' /\ ManagerInv'
<1>1. Free /\ UNCHANGED <<lisp, known, sent>> /\ manager.pc = "serve" /\ PhaseInv
  BY ServedFacts, ManagerFacts
<1>2. /\ Free' /\ manager'.closing = manager.closing /\ manager'.graphKey = manager.graphKey
      /\ \A e : ~Waiting(e)'
  BY LoopFacts
<1>3. Listed' = Listed /\ ~Waiting(lisp.vp)
  BY <1>1 DEF Listed, Waiting
<1>4. Unborn(Viewport2D)' = Unborn(Viewport2D) /\ Unborn(Viewport3D)' = Unborn(Viewport3D)
  BY DEF Unborn
<1>5. /\ Forgotten(lisp.vp) => Forgotten(lisp.vp)'
      /\ StillThere(lisp.vp) => StillThere(lisp.vp)'
  BY <1>1, <1>2, <1>3 DEF Forgotten, StillThere, Waiting
<1>6. PhaseInv'
  BY <1>1, <1>2, <1>4, <1>5, PhaseFree
<1>7. ManagerInv'
  BY <1>1, LoopManager
<1> QED
  BY <1>6, <1>7

LEMMA ReadPickKeepsInv ==
  ASSUME SyncInv, NEW c \in Viewport, ReadPick(c)
  PROVE  SyncInv'
<1>1. /\ At("serve") /\ Served(c) /\ up[c] # <<>> /\ Head(up[c]).t = "pick2D" /\ picked' = Head(up[c]).key
      /\ up' = [up EXCEPT ![c] = Tail(up[c])] /\ Loop
      /\ UNCHANGED <<viewports, graphList, child, toManager, toLisp, down>> /\ inSync' = inSync
  BY DEF ReadPick, Says, Taken
<1>2. /\ Free /\ (\A e : Role(e) = "free") /\ UNCHANGED <<lisp, known, sent>> /\ manager.pc = "serve"
      /\ Link(c, "free", lisp.cmd, ArgKey, child[c], up[c], down[c])
      /\ child[c] \in Programs /\ up[c] \in Seq(UpItems) /\ down[c] \in Seq(DownItems)
  BY <1>1, ServedFacts
<1>3. /\ PhaseInv /\ PromiseInv /\ graphList \in [Key -> GraphRecords] /\ up \in [Viewport -> Seq(UpItems)]
      /\ down \in [Viewport -> Seq(DownItems)] /\ inSync = TRUE
  BY ManagerFacts
<1>4. /\ manager' \in ManagerStates /\ manager'.pc = "select" /\ Free'
      /\ manager'.closing = manager.closing /\ manager'.graphKey = manager.graphKey
      /\ \A e : Role(e)' = "free" /\ ~Waiting(e)'
  BY <1>1, LoopFacts
<1>5. Head(up[c]) = up[c][1] /\ up[c][1] \in UpItems /\ 1 \in DOMAIN up[c] /\ Tail(up[c]) \in Seq(UpItems)
  BY <1>1, <1>2, TailElems
<1>6. picked' \in Key /\ PickedUp(picked')
  BY <1>1, <1>5 DEF UpItems, PickedUp, Picks
<1>7. Link(c, "free", lisp.cmd, ArgKey, child[c], Tail(up[c]), down[c])
  BY <1>1, <1>2, <1>5, LinkTaken
<1>8. /\ Among(up[c], "viewportClosing") <=> Among(Tail(up[c]), "viewportClosing")
      /\ \A k : Picks(Tail(up[c]), k) => Picks(up[c], k)
  BY <1>1, <1>2, <1>5, AmongTail
<1>9. /\ up' \in [Viewport -> Seq(UpItems)] /\ up'[c] = Tail(up[c])
      /\ \A e \in Viewport \ {c} : up'[e] = up[e] /\ down'[e] = down[e]
  BY <1>1, <1>3, <1>5
<1>10. LinkOf(c)'
  <2>1. ArgKey' = ArgKey
    BY <1>2 DEF ArgKey
  <2> QED
    BY <1>1, <1>2, <1>4, <1>7, <1>9, <2>1 DEF LinkOf
<1>11. PhaseInv' /\ ManagerInv'
  BY <1>1, ServedPhases
<1>13. Closing(c)' = Closing(c)
  BY <1>2 DEF Closing, Target, InCall
<1>14. ASSUME NEW k \in Key
       PROVE  /\ c \in Viewport2D => KeptIn(c, k)'
              /\ Anchor(c, k) => Anchor(c, k)'
  <2>1. c \in Viewport2D => KeptIn(c, k)
    BY ProgramFacts
  <2>2. Leaving(c, child[c], up[c])' = Leaving(c, child[c], up[c])
    BY <1>1, <1>8, <1>9, <1>13 DEF Leaving
  <2> QED
    BY <1>1, <1>8, <1>9, <2>1, <2>2 DEF KeptIn, Kept, Anchor
<1>15. ASSUME \A k \in Key : Secure(k) => Secure(k)'
       PROVE  PromiseInv'
  BY <1>1, <1>2, <1>3, <1>15 DEF PromiseInv, Promised, Unseen
<1> QED
  BY <1>1, <1>2, <1>3, <1>4, <1>6, <1>8, <1>9, <1>10, <1>11, <1>14, <1>15, ManagerKeepsInv

(* A view more of a graph. *)
LEMMA WithViewFacts ==
  ASSUME graphList \in [Key -> GraphRecords], NEW p \in Key \cup {0}, NEW c \in Viewport
  PROVE  /\ WithView(graphList, p, c) \in [Key -> GraphRecords]
         /\ \A k \in Key : WithView(graphList, p, c)[k].listed = graphList[k].listed
         /\ \A k \in Key : \A e \in Viewport \ {c} : WithView(graphList, p, c)[k].views[e] = graphList[k].views[e]
         /\ \A k \in Key : WithView(graphList, p, c)[k].views[c]
                           = graphList[k].views[c] + (IF k = p THEN 1 ELSE 0)
<1>0. \A k \in Key : /\ graphList[k] \in GraphRecords /\ graphList[k].views \in [Viewport -> Nat]
                     /\ graphList[k].views[c] \in Nat
  BY DEF GraphRecords
<1>1. CASE p = 0
  <2>1. WithView(graphList, p, c) = graphList /\ \A k \in Key : k # p
    BY <1>1, Basics DEF WithView
  <2> QED
    BY <1>0, <2>1
<1>2. CASE p \in Key
  <2> DEFINE gs == [graphList EXCEPT ![p].views[c] = @ + 1]
  <2>1. WithView(graphList, p, c) = gs
    BY <1>2, Basics DEF WithView
  <2>2. gs[p] = [graphList[p] EXCEPT !.views = [graphList[p].views EXCEPT ![c] = graphList[p].views[c] + 1]]
    BY <1>2
  <2>3. [graphList[p].views EXCEPT ![c] = graphList[p].views[c] + 1] \in [Viewport -> Nat]
    BY <1>0, <1>2
  <2>4. gs[p] \in GraphRecords
    BY <1>0, <1>2, <2>2, <2>3 DEF GraphRecords
  <2>5. \A k \in Key : k # p => gs[k] = graphList[k]
    OBVIOUS
  <2>6. gs \in [Key -> GraphRecords]
    BY <1>0, <2>4, <2>5
  <2>7. gs[p].listed = graphList[p].listed
    BY <1>0, <1>2, <2>2 DEF GraphRecords
  <2>8. gs[p].views = [graphList[p].views EXCEPT ![c] = graphList[p].views[c] + 1]
    BY <1>0, <1>2, <2>2 DEF GraphRecords
  <2>9. gs[p].views[c] = graphList[p].views[c] + 1 /\ \A e \in Viewport \ {c} : gs[p].views[e] = graphList[p].views[e]
    BY <1>0, <1>2, <2>8
  <2> HIDE DEF gs
  <2> QED
    BY <1>0, <2>1, <2>5, <2>6, <2>7, <2>9
<1> QED
  BY <1>1, <1>2

(* A picked graph is in the list, so that the drop is answered and recorded. *)
LEMMA PickedIsListed ==
  ASSUME SyncInv
  PROVE  /\ Sendable(picked) /\ (picked # 0 => Secure(picked) /\ picked \in Key)
         /\ \A k \in Key : Secure(k) => graphList[k].listed # "no"
<1>1. PickInv /\ picked \in Key \cup {0}
  BY ManagerFacts
<1>2. picked # 0 => Secure(picked) /\ picked \in Key
  BY <1>1 DEF PickInv, PickedUp
<1> QED
  BY <1>2, Basics DEF Sendable, Secure

LEMMA ReadDropKeepsInv ==
  ASSUME SyncInv, NEW c \in Viewport, ReadDrop(c)
  PROVE  SyncInv'
<1> DEFINE a == IF picked = 0 THEN [t |-> "viewError"] ELSE [t |-> "viewOkay", key |-> picked]
<1>1. /\ At("serve") /\ Served(c) /\ up[c] # <<>> /\ Head(up[c]).t = "drop2D"
      /\ ToChild(c, <<a>>) /\ inSync' = Sendable(picked)
      /\ graphList' = IF Sendable(picked) THEN WithView(graphList, picked, c) ELSE graphList
      /\ up' = [up EXCEPT ![c] = Tail(up[c])] /\ Loop
      /\ UNCHANGED <<viewports, picked, child, toManager, toLisp>>
  BY DEF ReadDrop, Says, Taken
<1>2. /\ Free /\ (\A e : Role(e) = "free") /\ UNCHANGED <<lisp, known, sent>> /\ manager.pc = "serve"
      /\ Link(c, "free", lisp.cmd, ArgKey, child[c], up[c], down[c])
      /\ child[c] \in Programs /\ up[c] \in Seq(UpItems) /\ down[c] \in Seq(DownItems)
  BY <1>1, ServedFacts
<1>3. /\ PhaseInv /\ PromiseInv /\ graphList \in [Key -> GraphRecords] /\ up \in [Viewport -> Seq(UpItems)]
      /\ down \in [Viewport -> Seq(DownItems)] /\ picked \in Key \cup {0} /\ manager \in ManagerStates
  BY ManagerFacts
<1>4. /\ manager' \in ManagerStates /\ manager'.pc = "select" /\ Free' /\ manager'.closing = manager.closing
      /\ \A e : Role(e)' = "free"
  BY <1>1, LoopFacts
<1>5. Head(up[c]) = up[c][1] /\ 1 \in DOMAIN up[c] /\ Tail(up[c]) \in Seq(UpItems)
  BY <1>1, <1>2, TailElems
<1>6. a \in Answer /\ a \in DownItems
  BY <1>3 DEF Answer, DownItems
<1>7. /\ Sendable(picked) /\ (picked # 0 => Secure(picked) /\ picked \in Key)
      /\ \A k \in Key : Secure(k) => graphList[k].listed # "no"
  BY PickedIsListed
<1>8. inSync' = TRUE /\ graphList' = WithView(graphList, picked, c)
  BY <1>1, <1>7
<1>9. /\ graphList' \in [Key -> GraphRecords]
      /\ \A k \in Key : graphList'[k].listed = graphList[k].listed
      /\ \A k \in Key : \A e \in Viewport \ {c} : graphList'[k].views[e] = graphList[k].views[e]
      /\ \A k \in Key : graphList'[k].views[c] = graphList[k].views[c] + (IF k = picked THEN 1 ELSE 0)
  <2> DEFINE gs == WithView(graphList, picked, c)
  <2>1. /\ gs \in [Key -> GraphRecords]
        /\ \A k \in Key : gs[k].listed = graphList[k].listed
        /\ \A k \in Key : \A e \in Viewport \ {c} : gs[k].views[e] = graphList[k].views[e]
        /\ \A k \in Key : gs[k].views[c] = graphList[k].views[c] + (IF k = picked THEN 1 ELSE 0)
    BY <1>3, WithViewFacts
  <2> HIDE DEF gs
  <2>2. graphList' = gs
    BY <1>8 DEF gs
  <2> QED
    BY <2>1, <2>2
<1>10. child[c].pc \in Gone \cup {"drop"} /\ (child[c].pc \in Gone => down[c] = <<>>)
  <2>1. child[c].pc \in Gone \cup {"drop"}
    BY <1>1, <1>2, <1>5 DEF Link, Words
  <2> QED
    BY <1>2, <2>1 DEF Link, Heard
<1>11. child[c].pc # "exiting" /\ (child[c].pc \in Gone => child[c].pc \notin Up \cup {"data"})
       /\ (child[c].pc \notin Gone => child[c].pc = "drop")
  BY <1>10 DEF Gone, Up
<1> DEFINE e == WithAnswer(child[c], down[c], a)
<1>12. down' = [down EXCEPT ![c] = e]
  <2>1. CASE child[c].pc \in Gone
    BY <1>1, <1>3, <2>1 DEF ToChild, WithAnswer
  <2>2. CASE child[c].pc \notin Gone
    BY <1>1, <1>3, <1>11, <2>2 DEF ToChild, WithAnswer
  <2> QED
    BY <2>1, <2>2
<1>13. e \in Seq(DownItems)
  <2>1. down[c] \o <<a>> \in Seq(DownItems)
    BY <1>2, <1>6, AppendElems
  <2> QED
    BY <1>2, <2>1 DEF WithAnswer
<1>14. e = WithAnswer(child[c], down[c], a)
  OBVIOUS
<1> HIDE DEF a, e
<1>15. /\ Tail(up[c]) = <<>> /\ Link(c, "free", lisp.cmd, ArgKey, child[c], <<>>, e)
       /\ child[c].pc = "drop" => down[c] = <<>> /\ e = <<a>>
  <2>1. up[c][1].t = "drop2D"
    BY <1>1, <1>5
  <2>2. Tail(up[c]) = <<>> /\ Link(c, "free", lisp.cmd, ArgKey, child[c], Tail(up[c]), e)
    BY <1>1, <1>2, <1>6, <1>14, <2>1, LinkAnswered
  <2>3. OnlyAnswer(child[c], down[c], a, e)
    BY <1>1, <1>2, <1>6, <1>14, <2>1, LinkAnswered
  <2> QED
    BY <2>2, <2>3 DEF OnlyAnswer
<1>16. /\ up' \in [Viewport -> Seq(UpItems)] /\ up'[c] = <<>>
       /\ down' \in [Viewport -> Seq(DownItems)] /\ down'[c] = e
       /\ \A f \in Viewport \ {c} : up'[f] = up[f] /\ down'[f] = down[f]
  <2>1. /\ up' \in [Viewport -> Seq(UpItems)] /\ up'[c] = <<>> /\ \A f \in Viewport \ {c} : up'[f] = up[f]
    BY <1>1, <1>3, <1>5, <1>15
  <2>2. /\ down' \in [Viewport -> Seq(DownItems)] /\ down'[c] = e /\ \A f \in Viewport \ {c} : down'[f] = down[f]
    BY <1>3, <1>12, <1>13
  <2> QED
    BY <2>1, <2>2
<1>17. LinkOf(c)'
  <2>1. ArgKey' = ArgKey
    BY <1>2 DEF ArgKey
  <2> QED
    BY <1>1, <1>2, <1>4, <1>15, <1>16, <2>1 DEF LinkOf
<1>18. PhaseInv' /\ ManagerInv'
  BY <1>1, <1>9, ServedPhases
<1>19. ~Among(up[c], "viewportClosing") /\ ~Among(<<>>, "viewportClosing") /\ \A k : ~Picks(<<>>, k)
  <2>1. up[c][1].t = "drop2D"
    BY <1>1, <1>5
  <2>2. Len(up[c]) = 1 /\ DOMAIN up[c] = {1}
    <3>1. /\ Len(up[c]) \in Nat /\ Len(Tail(up[c])) = Len(up[c]) - 1 /\ DOMAIN up[c] = 1 .. Len(up[c])
      BY <1>1, <1>2, TailElems
    <3>2. Len(Tail(up[c])) = 0
      BY <1>15, EmptyElems
    <3>3. Len(up[c]) = 1
      BY <3>1, <3>2
    <3> QED
      BY <3>1, <3>3
  <2> QED
    BY <2>1, <2>2, EmptyElems DEF Among, Picks
<1>20. Closing(c)' = Closing(c)
  BY <1>2 DEF Closing, Target, InCall
<1>21. ASSUME NEW k \in Key
       PROVE  /\ child[c].pc = "drop" => Coming(e, k) <= (IF k = picked THEN 1 ELSE 0)
              /\ child[c].pc = "drop" => Coming(down[c], k) = 0
              /\ Coming(e, k) \in Nat /\ Coming(down[c], k) \in Nat
  <2>1. Coming(e, k) \in Nat /\ Coming(down[c], k) \in Nat
    BY ComingType
  <2>2. ASSUME child[c].pc = "drop"
        PROVE  /\ Coming(e, k) <= (IF k = picked THEN 1 ELSE 0)
               /\ Coming(down[c], k) = 0
    <3>1. down[c] = <<>> /\ e = down[c] \o <<a>> /\ Coming(<<>>, k) = 0
      BY <1>10, <1>14, <1>15, <2>2, ComingNone DEF Gone, WithAnswer
    <3>2. Coming(e, k) <= Coming(down[c], k) + (IF a.t \in {"viewOkay", "args"} /\ a.key = k THEN 1 ELSE 0)
      BY <1>2, <1>6, <3>1, ComingMore
    <3>3. a.t \in {"viewOkay", "args"} /\ a.key = k => k = picked
      BY DEF a
    <3> QED
      BY <2>1, <3>1, <3>2, <3>3
  <2> QED
    BY <2>1, <2>2
<1>22. ASSUME NEW k \in Key
       PROVE  c \in Viewport2D => KeptIn(c, k)'
  <2>1. CASE child[c].pc \in Gone
    BY <1>1, <1>11, <1>16, <1>19, <2>1 DEF KeptIn, Kept
  <2>2. CASE child[c].pc = "drop" /\ c \in Viewport2D
    <3>1. KeptIn(c, k) /\ child[c].pc \in Up /\ child[c].pc # "data"
      BY <2>2, ManagerFacts DEF KeptInv, Up
    <3>2. graphList[k].views[c] \in Nat /\ Holding(child[c], k) \in Nat
      BY ManagerFacts, ViewsType
    <3>3. /\ graphList[k].views[c] >= Holding(child[c], k)
          /\ Holding(child[c], k) > 0 => graphList[k].listed # "no"
      BY <1>21, <2>2, <3>1, <3>2 DEF KeptIn, Kept
    <3>4. graphList'[k].views[c] >= Holding(child[c], k) + Coming(e, k)
      BY <1>9, <1>21, <2>2, <3>2, <3>3
    <3>5. Coming(e, k) > 0 => k = picked
      BY <1>21, <2>2
    <3>6. k = picked => graphList[k].listed # "no"
      BY <1>7, Basics
    <3>7. Holding(child[c], k) + Coming(e, k) > 0 => graphList'[k].listed # "no"
      BY <1>9, <1>21, <3>2, <3>3, <3>5, <3>6
    <3>8. child' = child
      BY <1>1
    <3> QED
      BY <1>16, <3>1, <3>4, <3>7, <3>8 DEF KeptIn, Kept
  <2> QED
    BY <1>10, <2>1, <2>2
<1>23. ASSUME NEW k \in Key, c \in Viewport2D, Anchor(c, k)
       PROVE  Anchor(c, k)'
  <2>1. Leaving(c, child[c], up[c])' = Leaving(c, child[c], up[c]) /\ child' = child
    BY <1>1, <1>16, <1>19, <1>20 DEF Leaving
  <2>2. graphList[k].views[c] \in Nat /\ Holding(child[c], k) \in Nat
    BY ManagerFacts, ViewsType
  <2> DEFINE X == IF Leaving(c, child[c], up[c]) THEN Holding(child[c], k) ELSE 0
  <2>3. X \in Nat
    BY <2>2
  <2>4. graphList[k].views[c] > Coming(down[c], k) + X
    BY <1>23 DEF Anchor, Spare
  <2>5. graphList'[k].views[c] > Coming(e, k) + X
    <3> HIDE DEF X
    <3>1. CASE child[c].pc \in Gone
      <4>1. e = down[c]
        BY <1>14, <3>1 DEF WithAnswer
      <4> QED
        BY <1>9, <1>21, <2>2, <2>3, <2>4, <4>1
    <3>2. CASE child[c].pc = "drop"
      BY <1>9, <1>21, <2>2, <2>3, <2>4, <3>2
    <3> QED
      BY <1>10, <3>1, <3>2
  <2> QED
    BY <1>16, <2>1, <2>5 DEF Anchor, Spare
<1>24. ASSUME \A k \in Key : Secure(k) => Secure(k)'
       PROVE  PromiseInv'
  <2>1. Promised' = Promised
    BY <1>1, <1>2 DEF Promised
  <2>2. ASSUME NEW k \in Key, k \in Promised
        PROVE  Secure(k)' \/ Unseen(k)'
    <3>1. Secure(k) \/ Unseen(k)
      BY <1>3, <2>2 DEF PromiseInv
    <3>2. k = picked => Secure(k)
      BY <1>7, Basics
    <3>3. CASE k # picked /\ Unseen(k)
      <4>1. graphList[k].views[c] = 0
        BY <3>3 DEF Unseen
      <4>2. \A f \in Viewport : graphList'[k].views[f] = 0
        BY <1>9, <3>3, <4>1 DEF Unseen
      <4> QED
        BY <1>9, <3>3, <4>2 DEF Unseen
    <3> QED
      BY <1>24, <3>1, <3>2, <3>3
  <2> QED
    BY <1>1, <1>2, <1>3, <2>1, <2>2 DEF PromiseInv
<1> QED
  <2>1. picked' \in Key \cup {0} /\ (picked' # 0 => PickedUp(picked'))
    BY <1>1, <1>3 DEF PickedUp
  <2>2. UNCHANGED <<lisp, known, sent, viewports, child>>
    BY <1>1, <1>2
  <2>3. /\ Among(up[c], "viewportClosing") => Among(up'[c], "viewportClosing")
        /\ \A k : Picks(up'[c], k) => Picks(up[c], k)
    BY <1>16, <1>19
  <2>4. \A f \in Viewport \ {c} : up'[f] = up[f] /\ down'[f] = down[f] /\ Role(f) = "free" /\ Role(f)' = "free"
    BY <1>2, <1>4, <1>16
  <2>5. manager'.pc # "serve" /\ manager'.closing \subseteq manager.closing \cup Listed
    BY <1>4
  <2> QED
    BY <1>4, <1>8, <1>9, <1>16, <1>17, <1>18, <1>22, <1>23, <1>24, <2>1, <2>2, <2>3, <2>4, <2>5, ManagerKeepsInv

(* The program that the manager waits for. *)
LEMMA SlotFacts ==
  ASSUME SyncInv, manager.pc \in {"fork", "data", "window", "args", "acknow"}, UNCHANGED OthersOfManager,
         NEW c, c = manager.slot
  PROVE  /\ c \in Viewport /\ Role(c) = manager.pc /\ ~Free
         /\ \A e \in Viewport \ {c} : Role(e) = "free"
         /\ \A e : ~Waiting(e)
         /\ UNCHANGED <<lisp, known, sent>> /\ ArgKey' = ArgKey
         /\ Link(c, manager.pc, lisp.cmd, ArgKey, child[c], up[c], down[c])
         /\ child[c] \in Programs /\ up[c] \in Seq(UpItems) /\ down[c] \in Seq(DownItems)
         /\ manager.pc \in {"args", "acknow"} => c \in Listed
<1>1. /\ ManagerInv /\ Listed \subseteq Viewport
  BY ManagerFacts
<1>2. c \in Viewport /\ (manager.pc \in {"args", "acknow"} => c \in Listed)
  BY <1>1 DEF ManagerInv
<1>3. Role(c) = manager.pc /\ \A e \in Viewport \ {c} : Role(e) = "free"
  BY DEF Role
<1>4. ~Free /\ \A e : ~Waiting(e)
  BY DEF Free, Waiting
<1>5. UNCHANGED <<lisp, known, sent>> /\ ArgKey' = ArgKey
  BY DEF OthersOfManager, ArgKey
<1> QED
  BY <1>2, <1>3, <1>4, <1>5, ProgramFacts

(* The manager takes what is no part of a pick, a drop or a goodbye. *)
LEMMA TakenKeepsInv ==
  ASSUME SyncInv, NEW c \in Viewport, NEW w \in Seq(UpItems),
         UNCHANGED <<lisp, known, sent, viewports, graphList, picked, child, toManager, down>>,
         up' = [up EXCEPT ![c] = w], inSync' = TRUE, manager' \in ManagerStates, manager'.pc # "serve",
         manager'.closing = manager.closing,
         Among(w, "viewportClosing") <=> Among(up[c], "viewportClosing"),
         \A k : Picks(w, k) => Picks(up[c], k),
         \A e \in Viewport \ {c} : Role(e) = "free" /\ Role(e)' = "free",
         Link(c, Role(c)', lisp.cmd, ArgKey, child[c], w, down[c]),
         PhaseInv', ManagerInv'
  PROVE  SyncInv'
<1>1. /\ PromiseInv /\ KeptInv /\ up \in [Viewport -> Seq(UpItems)] /\ down \in [Viewport -> Seq(DownItems)]
      /\ graphList \in [Key -> GraphRecords] /\ picked \in Key \cup {0}
  BY ManagerFacts
<1>2. /\ up' \in [Viewport -> Seq(UpItems)] /\ up'[c] = w /\ \A e \in Viewport \ {c} : up'[e] = up[e]
  BY <1>1
<1>3. ArgKey' = ArgKey /\ Closing(c)' = Closing(c)
  BY DEF ArgKey, Closing, Target, InCall
<1>4. LinkOf(c)'
  BY <1>2, <1>3 DEF LinkOf
<1>5. Leaving(c, child[c], up[c])' = Leaving(c, child[c], up[c])
  BY <1>2, <1>3 DEF Leaving
<1>6. ASSUME NEW k \in Key
      PROVE  /\ c \in Viewport2D => KeptIn(c, k)'
             /\ Anchor(c, k) => Anchor(c, k)'
  <2>1. c \in Viewport2D => KeptIn(c, k)
    BY <1>1 DEF KeptInv
  <2> QED
    BY <1>2, <1>5, <2>1 DEF KeptIn, Kept, Anchor
<1>7. ASSUME \A k \in Key : Secure(k) => Secure(k)'
      PROVE  PromiseInv'
  BY <1>1, <1>7 DEF PromiseInv, Promised, Unseen
<1>8. picked' # 0 => PickedUp(picked')
  BY DEF PickedUp
<1> QED
  BY <1>1, <1>2, <1>4, <1>6, <1>7, <1>8, ManagerKeepsInv

LEMMA ReadReadyKeepsInv ==
  ASSUME SyncInv, ReadReady
  PROVE  SyncInv'
<1> PICK c : c = manager.slot
  OBVIOUS
<1>1. /\ manager.pc = "fork" /\ UNCHANGED OthersOfManager /\ (up[c] # <<>> \/ Eof(c))
  BY DEF ReadReady, FromSlot, At
<1>2. /\ c \in Viewport /\ Role(c) = "fork" /\ \A e \in Viewport \ {c} : Role(e) = "free"
      /\ UNCHANGED <<lisp, known, sent>> /\ (\A e : ~Waiting(e))
      /\ Link(c, "fork", lisp.cmd, ArgKey, child[c], up[c], down[c])
      /\ child[c] \in Programs /\ up[c] \in Seq(UpItems) /\ down[c] \in Seq(DownItems)
  BY <1>1, SlotFacts
<1>3. /\ Types /\ PhaseInv /\ ManagerInv /\ manager \in ManagerStates /\ up \in [Viewport -> Seq(UpItems)]
  BY ManagerFacts
<1>4. up[c] = <<[t |-> "ready"]>> /\ ~Eof(c)
  BY <1>1, <1>2 DEF Link, Words, Eof, Gone
<1>5. /\ manager' = [manager EXCEPT !.pc = "data"] /\ up' = [up EXCEPT ![c] = Tail(up[c])]
      /\ UNCHANGED <<viewports, graphList, picked, child, toManager, toLisp, down, inSync>>
  BY <1>2, <1>3, <1>4 DEF ReadReady, SlotTaken
<1>6. /\ manager' \in ManagerStates /\ manager'.pc = "data" /\ manager'.slot = c
      /\ manager'.closing = manager.closing /\ manager'.graphKey = manager.graphKey
  BY <1>3, <1>5 DEF ManagerStates
<1>7. /\ Tail(up[c]) = <<>> /\ <<>> \in Seq(UpItems)
      /\ \A t : ~Among(<<>>, t) /\ ~Among(up[c], "viewportClosing") /\ \A k : ~Picks(<<>>, k)
  <2>1. Tail(up[c]) = <<>>
    BY <1>4, ShortTails
  <2>2. DOMAIN up[c] = {1} /\ up[c][1].t = "ready"
    BY <1>4, ShortElems
  <2> QED
    BY <2>1, <2>2, EmptyElems DEF Among, Picks
<1>8. Link(c, "data", lisp.cmd, ArgKey, child[c], Tail(up[c]), down[c])
  BY <1>2, <1>4, <1>7, LinkReady
<1>9. Role(c)' = "data" /\ \A e \in Viewport \ {c} : Role(e)' = "free"
  BY <1>6 DEF Role
<1>10. PhaseInv' /\ toManager # <<>>
  <2>1. lisp.pc = "make" /\ MakePhase
    BY <1>1, <1>3, PhaseSays DEF PhaseInv
  <2>2. toLisp = <<>> /\ \E s \in Slots : toManager = <<Data(s)>>
    BY <1>1, <2>1 DEF MakePhase, Free
  <2>3. MakePhase'
    BY <1>5, <1>6, <2>2 DEF MakePhase
  <2>4. toManager # <<>>
    BY <2>2
  <2> QED
    BY <1>2, <2>1, <2>3, <2>4 DEF PhaseInv, InCall
<1>11. ManagerInv'
  <2>1. \A e \in manager.closing : e \notin Listed
    BY <1>3, <1>10, NoneClosing
  <2>2. Listed' = Listed /\ \A e : ~Waiting(e)'
    BY <1>5, <1>6 DEF Listed, Waiting
  <2> QED
    BY <1>2, <1>3, <1>5, <1>6, <2>1, <2>2 DEF ManagerInv
<1>12. inSync' = TRUE
  BY <1>5, ManagerFacts
<1> QED
  BY <1>2, <1>5, <1>6, <1>7, <1>8, <1>9, <1>10, <1>11, <1>12, TakenKeepsInv

LEMMA ReadWindowKeepsInv ==
  ASSUME SyncInv, ReadWindow
  PROVE  SyncInv'
<1> PICK c : c = manager.slot
  OBVIOUS
<1>1. /\ manager.pc = "window" /\ UNCHANGED OthersOfManager /\ (up[c] # <<>> \/ Eof(c))
      /\ inSync' = (Eof(c) \/ Says(c, "window")) /\ toLisp' = Append(toLisp, [t |-> "pid", n |-> c])
      /\ Loop /\ UNCHANGED <<viewports, graphList, picked, child, toManager, down>>
  BY DEF ReadWindow, FromSlot, At
<1>2. /\ c \in Viewport /\ \A e \in Viewport \ {c} : Role(e) = "free"
      /\ UNCHANGED <<lisp, known, sent>>
      /\ Link(c, "window", lisp.cmd, ArgKey, child[c], up[c], down[c])
      /\ child[c] \in Programs /\ up[c] \in Seq(UpItems) /\ down[c] \in Seq(DownItems)
  BY <1>1, SlotFacts
<1>3. /\ Types /\ PhaseInv /\ up \in [Viewport -> Seq(UpItems)]
  BY ManagerFacts
<1>4. up[c] # <<>> /\ up[c][1].t = "window"
  BY <1>1, <1>2 DEF Link, Words, Eof, Gone
<1>5. up' = [up EXCEPT ![c] = Tail(up[c])]
  BY <1>2, <1>3, <1>4 DEF ReadWindow, SlotTaken
<1>6. Head(up[c]) = up[c][1] /\ Tail(up[c]) \in Seq(UpItems)
  BY <1>2, <1>4, TailElems
<1>7. inSync' = TRUE
  BY <1>1, <1>4, <1>6 DEF Says
<1>8. /\ manager' \in ManagerStates /\ manager'.pc = "select" /\ manager'.closing = manager.closing
      /\ Free' /\ \A e : Role(e)' = "free"
  BY <1>1, LoopFacts
<1>9. Link(c, "free", lisp.cmd, ArgKey, child[c], Tail(up[c]), down[c])
  BY <1>2, <1>4, LinkTaken
<1>10. /\ Among(Tail(up[c]), "viewportClosing") <=> Among(up[c], "viewportClosing")
       /\ \A k : Picks(Tail(up[c]), k) => Picks(up[c], k)
  BY <1>2, <1>4, AmongTail
<1>11. PhaseInv'
  <2>1. lisp.pc = "make" /\ MakePhase
    BY <1>1, <1>3, PhaseSays DEF PhaseInv
  <2>2. toLisp = <<>> /\ toManager = <<>>
    BY <1>1, <2>1 DEF MakePhase, Free
  <2>3. toLisp' = <<[t |-> "pid", n |-> c]>>
    BY <1>1, <2>2, ShortJoins
  <2>4. MakePhase'
    BY <1>1, <1>2, <1>8, <2>2, <2>3 DEF MakePhase
  <2> QED
    BY <1>2, <2>1, <2>4 DEF PhaseInv, InCall
<1>12. ManagerInv'
  BY <1>1, <1>2, LoopManager
<1> QED
  BY <1>1, <1>2, <1>5, <1>6, <1>7, <1>8, <1>9, <1>10, <1>11, <1>12, TakenKeepsInv

LEMMA ReadAcknowledgeKeepsInv ==
  ASSUME SyncInv, ReadAcknowledge
  PROVE  SyncInv'
<1> PICK c : c = manager.slot
  OBVIOUS
<1>1. /\ manager.pc = "acknow" /\ UNCHANGED OthersOfManager /\ (up[c] # <<>> \/ Eof(c))
      /\ inSync' = (Eof(c) \/ Says(c, "ack")) /\ toLisp' = Append(toLisp, Done)
      /\ Loop /\ UNCHANGED <<viewports, graphList, picked, child, toManager, down>>
  BY DEF ReadAcknowledge, FromSlot, At, Done
<1>2. /\ c \in Viewport /\ (\A e \in Viewport \ {c} : Role(e) = "free") /\ c \in Listed
      /\ UNCHANGED <<lisp, known, sent>>
      /\ Link(c, "acknow", lisp.cmd, ArgKey, child[c], up[c], down[c])
      /\ child[c] \in Programs /\ up[c] \in Seq(UpItems) /\ down[c] \in Seq(DownItems)
  BY <1>1, SlotFacts
<1>3. /\ Types /\ PhaseInv /\ up \in [Viewport -> Seq(UpItems)]
  BY ManagerFacts
<1> DEFINE w == IF up[c] = <<>> THEN <<>> ELSE Tail(up[c])
<1>4. up' = [up EXCEPT ![c] = w] /\ w \in Seq(UpItems)
  <2>1. up' = [up EXCEPT ![c] = w]
    BY <1>2, <1>3 DEF ReadAcknowledge, SlotTaken
  <2>2. w \in Seq(UpItems)
    BY <1>2, TailElems, EmptyElems
  <2> QED
    BY <2>1, <2>2
<1>5. up[c] # <<>> => up[c][1].t = "ack" /\ Head(up[c]) = up[c][1]
  <2>1. up[c] # <<>> => up[c][1].t = "ack"
    BY <1>2 DEF Link, Words
  <2>2. up[c] # <<>> => Head(up[c]) = up[c][1]
    BY <1>2, TailElems
  <2> QED
    BY <2>1, <2>2
<1>6. inSync' = TRUE
  BY <1>1, <1>5 DEF Says
<1>7. /\ manager' \in ManagerStates /\ manager'.pc = "select" /\ manager'.closing = manager.closing
      /\ Free' /\ \A e : Role(e)' = "free"
  BY <1>1, LoopFacts
<1>8. Link(c, "free", lisp.cmd, ArgKey, child[c], w, down[c])
  <2>1. CASE up[c] # <<>>
    BY <1>2, <1>5, <2>1, LinkTaken
  <2>2. CASE up[c] = <<>>
    <3>1. child[c].pc \in Gone /\ down[c] = <<>>
      BY <1>1, <1>2, <2>2 DEF Eof, Link, Heard
    <3>2. Link(c, "free", lisp.cmd, ArgKey, child[c], <<>>, <<>>)
      BY <3>1, LinkGone
    <3> QED
      BY <2>2, <3>1, <3>2
  <2> QED
    BY <2>1, <2>2
<1>9. /\ Among(w, "viewportClosing") <=> Among(up[c], "viewportClosing")
      /\ \A k : Picks(w, k) => Picks(up[c], k)
  <2>1. CASE up[c] # <<>>
    BY <1>2, <1>5, <2>1, AmongTail
  <2> QED
    BY <2>1
<1>10. PhaseInv'
  <2>1. InCall /\ c = lisp.vp /\ lisp.pc \in {"asked", "acknowledge", "closed"}
    BY <1>1, <1>3, PhaseSays DEF InCall
  <2>2. OrderAsked \/ OrderAcknowledged \/ ClosePhase
    BY <1>3, <2>1 DEF PhaseInv
  <2>3. ~Free /\ ~ForArguments
    BY <1>1 DEF Free, ForArguments
  <2>4. CASE OrderAsked
    BY <2>3, <2>4 DEF OrderAsked
  <2>5. CASE OrderAcknowledged
    <3>1. lisp.cmd # "closeAll" /\ toManager = <<>> /\ toLisp = <<>>
      BY <2>3, <2>5 DEF OrderAcknowledged
    <3>2. lisp.pc = "acknowledge"
      BY <1>3, <2>1, <2>3, <3>1 DEF PhaseInv, OrderAsked, ClosePhase
    <3>3. toLisp' = <<Done>>
      BY <1>1, <3>1, ShortJoins
    <3>4. OrderAcknowledged'
      BY <1>1, <1>2, <1>7, <3>1, <3>3 DEF OrderAcknowledged, Done
    <3> QED
      BY <1>2, <1>3, <3>2, <3>4 DEF PhaseInv, InCall
  <2>6. CASE ClosePhase
    <3>1. /\ lisp.cmd = "closeAll" /\ toManager = <<>> /\ lisp.vp \in manager.closing
          /\ \/ lisp.pc = "asked" /\ toLisp = <<Granted>>
             \/ lisp.pc = "acknowledge" /\ toLisp = <<>>
      BY <2>3, <2>6 DEF ClosePhase
    <3>2. StillThere(lisp.vp)'
      <4>1. Listed' = Listed
        BY <1>1 DEF Listed
      <4> QED
        BY <1>2, <1>7, <2>1, <3>1, <4>1 DEF StillThere
    <3>3. \/ lisp.pc = "asked" /\ toLisp' = <<Granted, Done>>
          \/ lisp.pc = "acknowledge" /\ toLisp' = <<Done>>
      BY <1>1, <3>1, ShortJoins
    <3>4. ClosePhase'
      BY <1>1, <1>2, <1>7, <3>1, <3>2, <3>3 DEF ClosePhase, Granted, Done
    <3> QED
      BY <1>2, <1>3, <3>3, <3>4 DEF PhaseInv, InCall
  <2> QED
    BY <2>2, <2>4, <2>5, <2>6
<1>11. ManagerInv'
  BY <1>1, <1>2, LoopManager
<1> HIDE DEF w
<1> QED
  BY <1>1, <1>2, <1>4, <1>6, <1>7, <1>8, <1>9, <1>10, <1>11, TakenKeepsInv

(* The new program is sent its graphs, each with a view for it. *)
LEMMA MakeViewKeepsInv ==
  ASSUME SyncInv, NEW c, c = manager.slot, NEW x \in Slots, At("data"), SendView(x), inSync' = TRUE,
         graphList' \in [Key -> GraphRecords],
         \A k \in Key : graphList'[k].listed = graphList[k].listed,
         \A k \in Key : \A e \in Viewport \ {c} : graphList'[k].views[e] = graphList[k].views[e],
         \A k \in Key : c \in Viewport2D => /\ graphList'[k].views[c] = graphList[k].views[c] + Count(x, k)
                                            /\ Count(x, k) > 0 => graphList[k].listed # "no"
  PROVE  SyncInv'
<1>1. /\ manager.pc = "data" /\ UNCHANGED OthersOfManager /\ toManager' = Tail(toManager)
      /\ ToChild(c, <<Data(x)>>) /\ manager' = [manager EXCEPT !.pc = "window"]
      /\ UNCHANGED <<viewports, picked, child, toLisp, up>>
  BY DEF At, SendView, Data
<1>2. /\ c \in Viewport /\ (\A e \in Viewport \ {c} : Role(e) = "free") /\ UNCHANGED <<lisp, known, sent>>
      /\ ArgKey' = ArgKey /\ Link(c, "data", lisp.cmd, ArgKey, child[c], up[c], down[c])
      /\ up[c] \in Seq(UpItems) /\ down[c] \in Seq(DownItems)
  BY <1>1, SlotFacts
<1>3. /\ Types /\ PhaseInv /\ ManagerInv /\ manager \in ManagerStates /\ down \in [Viewport -> Seq(DownItems)]
      /\ up \in [Viewport -> Seq(UpItems)] /\ picked \in Key \cup {0}
  BY ManagerFacts
<1>4. child[c].pc = "data" /\ down[c] = <<>> /\ up[c] = <<>>
  <2>1. child[c].pc = "data" /\ up[c] = <<>>
    BY <1>2 DEF Link, Words
  <2>2. down[c] = <<>>
    BY <1>2, <2>1 DEF Link, Heard
  <2> QED
    BY <2>1, <2>2
<1> DEFINE e == <<Data(x)>>
<1>5. down[c] \o e = e
  BY <1>4, ShortJoins
<1>6. down' = [down EXCEPT ![c] = e]
  <2>1. child[c].pc \notin Gone \cup {"exiting"}
    BY <1>4 DEF Gone
  <2> QED
    BY <1>1, <1>3, <1>5, <2>1 DEF ToChild
<1>7. e \in Seq(DownItems)
  <2>1. Data(x) \in DownItems
    BY DEF Data, DownItems
  <2> QED
    BY <2>1
<1>8. Link(c, "window", lisp.cmd, ArgKey, child[c], up[c], e)
  <2>1. Link(c, "window", lisp.cmd, ArgKey, child[c], up[c], down[c] \o <<Data(x)>>)
    BY <1>2, LinkSent
  <2> QED
    BY <1>5, <2>1
<1>9. /\ manager' \in ManagerStates /\ manager'.pc = "window" /\ manager'.slot = c
      /\ manager'.closing = manager.closing /\ manager'.graphKey = manager.graphKey
  BY <1>1, <1>3 DEF ManagerStates
<1>10. Role(c)' = "window" /\ \A f \in Viewport \ {c} : Role(f)' = "free"
  BY <1>9 DEF Role
<1>11. /\ down' \in [Viewport -> Seq(DownItems)] /\ down'[c] = e
       /\ \A f \in Viewport \ {c} : up'[f] = up[f] /\ down'[f] = down[f]
  <2> HIDE DEF e
  <2>1. down' \in [Viewport -> Seq(DownItems)] /\ down'[c] = e /\ \A f \in Viewport \ {c} : down'[f] = down[f]
    BY <1>2, <1>3, <1>6, <1>7
  <2> QED
    BY <1>1, <2>1
<1>12. LinkOf(c)'
  BY <1>1, <1>2, <1>8, <1>10, <1>11 DEF LinkOf
<1>13. PhaseInv' /\ toManager' = <<>> /\ toManager # <<>> /\ lisp.pc = "make"
  <2>1. lisp.pc = "make" /\ MakePhase
    BY <1>1, <1>3, PhaseSays DEF PhaseInv
  <2>2. PICK s \in Slots : toLisp = <<>> /\ toManager = <<Data(s)>>
    BY <1>1, <2>1 DEF MakePhase, Free
  <2>3. toManager' = <<>> /\ toManager # <<>>
    BY <1>1, <2>2, ShortTails
  <2>4. MakePhase'
    BY <1>1, <1>9, <2>2, <2>3 DEF MakePhase
  <2> QED
    BY <1>2, <2>1, <2>3, <2>4 DEF PhaseInv, InCall
<1>14. ManagerInv'
  <2>1. \A f \in manager.closing : f \notin Listed
    BY <1>3, <1>13, NoneClosing
  <2>2. Listed' = Listed /\ \A f : ~Waiting(f)'
    BY <1>1, <1>9 DEF Listed, Waiting
  <2> QED
    BY <1>2, <1>3, <1>9, <2>1, <2>2 DEF ManagerInv
<1>15. ASSUME NEW k \in Key
       PROVE  Coming(e, k) = 0 /\ Coming(down[c], k) = 0
  BY <1>4, ComingNone DEF Data
<1>16. ~Among(up[c], "viewportClosing") /\ child[c].pc \notin Up
  BY <1>4, EmptyElems DEF Among, Up
<1> HIDE DEF e
<1>17. ASSUME NEW k \in Key, c \in Viewport2D
       PROVE  KeptIn(c, k)' /\ (Anchor(c, k) => Anchor(c, k)')
  <2>1. graphList[k].views[c] \in Nat /\ Count(x, k) \in Nat
    BY <1>2, <1>3, ViewsType, CountType
  <2>2. ASSUME NEW s \in Slots, e = <<Data(s)>>
        PROVE  s = x
    BY <2>2 DEF e, Data
  <2>3. KeptIn(c, k)'
    BY <1>1, <1>11, <1>16, <1>17, <2>1, <2>2 DEF KeptIn, Kept
  <2>4. ~Leaving(c, child[c], up[c]) /\ ~Leaving(c, child[c], up[c])'
    BY <1>1, <1>16 DEF Leaving
  <2>5. ASSUME Anchor(c, k)
        PROVE  Anchor(c, k)'
    <3>1. graphList[k].views[c] > 0
      BY <1>15, <2>1, <2>4, <2>5 DEF Anchor, Spare
    <3>2. graphList'[k].views[c] > 0
      BY <1>17, <2>1, <3>1
    <3> QED
      BY <1>1, <1>11, <1>15, <2>4, <3>2 DEF Anchor, Spare
  <2> QED
    BY <2>3, <2>5
<1>18. PromiseInv'
  BY <1>2, <1>13 DEF PromiseInv, Promised
<1>19. /\ Among(up[c], "viewportClosing") => Among(up'[c], "viewportClosing")
       /\ \A k : Picks(up'[c], k) => Picks(up[c], k)
  BY <1>1
<1>20. picked' # 0 => PickedUp(picked')
  BY <1>1 DEF PickedUp
<1> QED
  BY <1>1, <1>2, <1>3, <1>9, <1>10, <1>11, <1>12, <1>13, <1>14, <1>17, <1>18, <1>19, <1>20, ManagerKeepsInv

LEMMA MakeView2DKeepsInv ==
  ASSUME SyncInv, MakeView2D
  PROVE  SyncInv'
<1> PICK c : c = manager.slot
  OBVIOUS
<1> PICK x : x = Head(toManager).slots
  OBVIOUS
<1>1. /\ c \in Viewport2D /\ toManager # <<>> /\ SendView(x) /\ At("data")
      /\ inSync' = \A i \in Slot : Sendable(x[i])
      /\ inSync' => graphList' = [k \in Key |-> [graphList[k] EXCEPT !.views[c] = @ + Count(x, k)]]
  BY DEF MakeView2D, SendView
<1>2. /\ Types /\ PhaseInv /\ PromiseInv /\ graphList \in [Key -> GraphRecords]
  BY ManagerFacts
<1>3. manager.pc = "data"
  BY <1>1 DEF At
<1>4. lisp.pc = "make" /\ MakePhase
  BY <1>2, <1>3, PhaseSays DEF PhaseInv
<1>5. PICK s \in Slots : toManager = <<Data(s)>>
  BY <1>3, <1>4 DEF MakePhase, Free
<1>6. x = s /\ x \in Slots
  BY <1>5, ShortTails DEF Data
<1>7. ASSUME NEW k \in Key, k \in lisp.keys
      PROVE  graphList[k].listed # "no"
  BY <1>1, <1>2, <1>7 DEF PromiseInv, Promised, Secure, Unseen
<1>8. \A i \in Slot : x[i] \in lisp.keys \cup {0} /\ x[i] \in Key \cup {0}
  <2>1. 1 \in DOMAIN toManager /\ toManager[1] = Data(s)
    BY <1>5, ShortElems
  <2>2. toManager[1].t = "data" /\ toManager[1].slots = s
    BY <2>1 DEF Data
  <2> QED
    BY <1>2, <1>4, <1>6, <2>1, <2>2 DEF PromiseInv, Slots
<1>9. inSync' = TRUE
  BY <1>1, <1>7, <1>8 DEF Sendable
<1>10. ASSUME NEW k \in Key
       PROVE  /\ graphList'[k] \in GraphRecords /\ graphList'[k].listed = graphList[k].listed
              /\ \A e \in Viewport \ {c} : graphList'[k].views[e] = graphList[k].views[e]
              /\ graphList'[k].views[c] = graphList[k].views[c] + Count(x, k)
              /\ Count(x, k) > 0 => graphList[k].listed # "no"
  <2>1. Count(x, k) \in Nat /\ (Count(x, k) > 0 => \E i \in Slot : x[i] = k)
    BY <1>6, CountType, CountHeld
  <2>2. Count(x, k) > 0 => graphList[k].listed # "no"
    BY <1>7, <1>8, <2>1, Basics
  <2>3. graphList'[k] = [graphList[k] EXCEPT !.views = [graphList[k].views EXCEPT ![c] = @ + Count(x, k)]]
    BY <1>1, <1>9
  <2>4. graphList[k] \in GraphRecords
    BY <1>2
  <2>5. graphList[k].views \in [Viewport -> Nat] /\ graphList[k].views[c] \in Nat
    BY <1>1, <2>4, Basics DEF GraphRecords
  <2>6. [graphList[k].views EXCEPT ![c] = @ + Count(x, k)] \in [Viewport -> Nat]
    <3>1. graphList[k].views[c] + Count(x, k) \in Nat
      BY <2>1, <2>5
    <3> QED
      BY <2>5, <3>1
  <2>7. /\ graphList'[k] \in GraphRecords /\ graphList'[k].listed = graphList[k].listed
        /\ graphList'[k].views = [graphList[k].views EXCEPT ![c] = @ + Count(x, k)]
    BY <2>3, <2>4, <2>6 DEF GraphRecords
  <2> QED
    BY <1>1, <2>2, <2>5, <2>7, Basics
<1>11. graphList' \in [Key -> GraphRecords]
  <2>1. graphList' = [k \in Key |-> graphList'[k]]
    BY <1>1, <1>9
  <2> QED
    BY <1>10, <2>1
<1> QED
  BY <1>1, <1>6, <1>9, <1>10, <1>11, MakeViewKeepsInv

LEMMA MakeView3DKeepsInv ==
  ASSUME SyncInv, MakeView3D
  PROVE  SyncInv'
<1> PICK c : c = manager.slot
  OBVIOUS
<1>1. c \in Viewport3D /\ SendView(Empty) /\ At("data") /\ UNCHANGED <<graphList, inSync>>
  BY DEF MakeView3D, SendView
<1>2. c \notin Viewport2D /\ Empty \in Slots
  BY <1>1, Basics
<1>3. graphList \in [Key -> GraphRecords] /\ inSync = TRUE
  BY ManagerFacts
<1> QED
  BY <1>1, <1>2, <1>3, MakeViewKeepsInv

LEMMA ReadArgumentsKeepsInv ==
  ASSUME SyncInv, ReadArguments
  PROVE  SyncInv'
<1> PICK c : c = manager.slot
  OBVIOUS
<1> DEFINE o == lisp.cmd
           p == ArgKey
<1>1. /\ manager.pc = "args" /\ UNCHANGED OthersOfManager /\ toManager # <<>> /\ toManager' = Tail(toManager)
      /\ inSync' = (SpadSays("args") /\ Sendable(Head(toManager).key))
      /\ inSync' => graphList' = WithView(graphList, Head(toManager).key, c)
      /\ ToChild(c, <<Args(manager.cmd, Head(toManager).key)>>)
      /\ manager' = [manager EXCEPT !.pc = "acknow"]
      /\ UNCHANGED <<viewports, picked, child, toLisp, up>>
  BY DEF ReadArguments, At, Args
<1>2. /\ c \in Viewport /\ (\A e \in Viewport \ {c} : Role(e) = "free") /\ UNCHANGED <<lisp, known, sent>>
      /\ ArgKey' = ArgKey /\ Link(c, "args", o, p, child[c], up[c], down[c]) /\ c \in Listed
      /\ child[c] \in Programs /\ up[c] \in Seq(UpItems) /\ down[c] \in Seq(DownItems)
  BY <1>1, SlotFacts
<1>3. /\ Types /\ PhaseInv /\ ManagerInv /\ PromiseInv /\ KeptInv /\ manager \in ManagerStates
      /\ graphList \in [Key -> GraphRecords] /\ picked \in Key \cup {0}
      /\ down \in [Viewport -> Seq(DownItems)] /\ up \in [Viewport -> Seq(UpItems)]
  BY ManagerFacts
<1>4. /\ InCall /\ c = lisp.vp /\ manager.cmd = o /\ o # "closeAll" /\ o \in Orders
  BY <1>1, <1>3, PhaseSays DEF PhaseInv
<1>5. lisp.pc = "acknowledge" /\ toManager = <<PassItem>> /\ toLisp = <<>>
  <2>1. ~Free /\ ~ForAnswer
    BY <1>1 DEF Free, ForAnswer
  <2>2. OrderAsked => toManager = <<>>
    BY <2>1 DEF OrderAsked
  <2>3. ~ClosePhase
    BY <1>4 DEF ClosePhase
  <2>4. OrderAcknowledged => toManager = <<PassItem>> /\ toLisp = <<>>
    BY <2>1 DEF OrderAcknowledged
  <2> QED
    BY <1>1, <1>3, <1>4, <2>2, <2>3, <2>4 DEF PhaseInv, InCall
<1>6. Head(toManager).t = "args" /\ Head(toManager).key = p /\ toManager' = <<>>
  BY <1>1, <1>5, ShortTails DEF PassItem
<1>7. p \in Key \cup {0} /\ (p # 0 => p \in Key /\ graphList[p].listed # "no")
  <2>1. p \in Key \cup {0} /\ (lisp.keys # {} => p \in lisp.keys) /\ (lisp.keys = {} => p = 0)
    BY <1>3, ArgKeyType DEF ArgKey
  <2>2. lisp.keys # {} => p \in Promised
    BY <1>1, <2>1 DEF Promised
  <2> QED
    BY <1>3, <2>1, <2>2 DEF PromiseInv, Secure, Unseen
<1>8. inSync' = TRUE /\ graphList' = WithView(graphList, p, c)
  BY <1>1, <1>6, <1>7 DEF SpadSays, Sendable
<1>9. /\ graphList' \in [Key -> GraphRecords]
      /\ \A k \in Key : graphList'[k].listed = graphList[k].listed
      /\ \A k \in Key : \A e \in Viewport \ {c} : graphList'[k].views[e] = graphList[k].views[e]
      /\ \A k \in Key : graphList'[k].views[c] = graphList[k].views[c] + (IF k = p THEN 1 ELSE 0)
  <2> HIDE DEF p
  <2> DEFINE gs == WithView(graphList, p, c)
  <2>1. /\ gs \in [Key -> GraphRecords]
        /\ \A k \in Key : gs[k].listed = graphList[k].listed
        /\ \A k \in Key : \A e \in Viewport \ {c} : gs[k].views[e] = graphList[k].views[e]
        /\ \A k \in Key : gs[k].views[c] = graphList[k].views[c] + (IF k = p THEN 1 ELSE 0)
    BY <1>2, <1>3, <1>7, WithViewFacts
  <2> HIDE DEF gs
  <2>2. graphList' = gs
    BY <1>8 DEF gs
  <2> QED
    BY <2>1, <2>2
<1> DEFINE e == IF child[c].pc \in Gone \cup {"exiting"} THEN down[c] ELSE down[c] \o <<Args(o, p)>>
<1>10. down' = [down EXCEPT ![c] = e]
  BY <1>1, <1>3, <1>4, <1>6 DEF ToChild
<1>11. Args(o, p) \in DownItems /\ e \in Seq(DownItems)
  <2>1. Args(o, p) \in DownItems
    BY <1>4, <1>7 DEF Args, DownItems
  <2>2. down[c] \o <<Args(o, p)>> \in Seq(DownItems)
    BY <1>2, <2>1, AppendElems
  <2> QED
    BY <1>2, <2>1, <2>2
<1>12. Link(c, "acknow", o, p, child[c], up[c], e)
  BY <1>2, <1>4, LinkPassed
<1>13. /\ manager' \in ManagerStates /\ manager'.pc = "acknow" /\ manager'.slot = c
       /\ manager'.closing = manager.closing /\ manager'.graphKey = manager.graphKey
  BY <1>1, <1>3 DEF ManagerStates
<1>14. Role(c)' = "acknow" /\ \A f \in Viewport \ {c} : Role(f)' = "free"
  BY <1>13 DEF Role
<1>15. ASSUME NEW k \in Key
       PROVE  /\ Coming(e, k) <= Coming(down[c], k) + (IF k = p THEN 1 ELSE 0)
              /\ Coming(e, k) \in Nat /\ Coming(down[c], k) \in Nat
  <2>1. Coming(e, k) \in Nat /\ Coming(down[c], k) \in Nat
    BY ComingType
  <2> DEFINE x == Args(o, p)
  <2>2. x \in DownItems /\ x.key = p
    BY <1>11 DEF Args
  <2> HIDE DEF x
  <2>3. Coming(down[c] \o <<x>>, k) <= Coming(down[c], k) + (IF x.t \in {"viewOkay", "args"} /\ x.key = k THEN 1 ELSE 0)
    BY <1>2, <2>2, ComingMore
  <2>4. Coming(down[c] \o <<x>>, k) \in Nat
    BY ComingType
  <2>5. Coming(down[c] \o <<x>>, k) <= Coming(down[c], k) + (IF k = p THEN 1 ELSE 0)
    BY <2>1, <2>2, <2>3, <2>4
  <2> QED
    BY <2>1, <2>5 DEF x
<1> HIDE DEF e, o, p
<1>16. /\ down' \in [Viewport -> Seq(DownItems)] /\ down'[c] = e
       /\ \A f \in Viewport \ {c} : up'[f] = up[f] /\ down'[f] = down[f]
  <2>1. down' \in [Viewport -> Seq(DownItems)] /\ down'[c] = e /\ \A f \in Viewport \ {c} : down'[f] = down[f]
    BY <1>2, <1>3, <1>10, <1>11
  <2> QED
    BY <1>1, <2>1
<1>17. LinkOf(c)'
  BY <1>1, <1>2, <1>12, <1>14, <1>16 DEF LinkOf, o, p
<1>18. PhaseInv'
  <2>1. OrderAcknowledged'
    BY <1>1, <1>2, <1>4, <1>5, <1>6, <1>13 DEF OrderAcknowledged, ForAnswer, o
  <2> QED
    BY <1>2, <1>3, <1>5, <2>1 DEF PhaseInv, InCall
<1>19. ManagerInv'
  <2>1. \A f \in manager.closing : f \notin Listed
    BY <1>1, <1>3, NoneClosing
  <2>2. Listed' = Listed /\ \A f : ~Waiting(f)'
    BY <1>1, <1>13 DEF Listed, Waiting
  <2> QED
    BY <1>2, <1>3, <1>9, <1>13, <2>1, <2>2 DEF ManagerInv
<1>20. up[c] = <<>> /\ ~Among(up[c], "viewportClosing") /\ child[c].pc # "data"
  <2>1. up[c] = <<>> /\ child[c].pc # "data"
    BY <1>2 DEF Link, Words
  <2> QED
    BY <2>1, EmptyElems DEF Among
<1>21. Closing(c)' = Closing(c)
  BY <1>2 DEF Closing, Target, InCall
<1>22. ASSUME NEW k \in Key, c \in Viewport2D
       PROVE  KeptIn(c, k)' /\ (Anchor(c, k) => Anchor(c, k)')
  <2>1. /\ graphList[k].views[c] \in Nat /\ Holding(child[c], k) \in Nat
    BY <1>2, <1>3, ViewsType
  <2>2. KeptIn(c, k)
    BY <1>3, <1>22 DEF KeptInv
  <2>3. KeptIn(c, k)'
    <3>1. ASSUME child[c].pc \in Up
          PROVE  /\ graphList'[k].views[c] >= Holding(child[c], k) + Coming(e, k)
                 /\ Holding(child[c], k) + Coming(e, k) > 0 => graphList'[k].listed # "no"
      <4>1. /\ graphList[k].views[c] >= Holding(child[c], k) + Coming(down[c], k)
            /\ Holding(child[c], k) + Coming(down[c], k) > 0 => graphList[k].listed # "no"
        BY <2>2, <3>1 DEF KeptIn, Kept
      <4>2. graphList'[k].views[c] >= Holding(child[c], k) + Coming(e, k)
        BY <1>9, <1>15, <2>1, <4>1
      <4>3. k = p => graphList[k].listed # "no"
        BY <1>7, Basics
      <4>4. Coming(e, k) > 0 => k = p \/ Coming(down[c], k) > 0
        BY <1>15
      <4>5. Holding(child[c], k) + Coming(e, k) > 0 => k = p \/ Holding(child[c], k) + Coming(down[c], k) > 0
        BY <1>15, <2>1, <4>4
      <4> QED
        BY <1>9, <4>1, <4>2, <4>3, <4>5
    <3> QED
      BY <1>1, <1>16, <1>20, <3>1 DEF KeptIn, Kept
  <2>4. ASSUME Anchor(c, k)
        PROVE  Anchor(c, k)'
    <3> DEFINE X == IF Leaving(c, child[c], up[c]) THEN Holding(child[c], k) ELSE 0
    <3>1. X \in Nat /\ graphList[k].views[c] > Coming(down[c], k) + X
      BY <2>1, <2>4 DEF Anchor, Spare
    <3>2. Leaving(c, child[c], up[c])' = Leaving(c, child[c], up[c])
      BY <1>1, <1>21 DEF Leaving
    <3>3. graphList'[k].views[c] > Coming(e, k) + X
      <4> HIDE DEF X
      <4> QED
        BY <1>9, <1>15, <2>1, <3>1
    <3> QED
      BY <1>1, <1>16, <3>2, <3>3 DEF Anchor, Spare
  <2> QED
    BY <2>3, <2>4
<1>23. PromiseInv'
  BY <1>2, <1>5, <1>6 DEF PromiseInv, Promised
<1>24. /\ Among(up[c], "viewportClosing") => Among(up'[c], "viewportClosing")
       /\ \A k : Picks(up'[c], k) => Picks(up[c], k)
  BY <1>1
<1>25. picked' # 0 => PickedUp(picked')
  BY <1>1 DEF PickedUp
<1> QED
  BY <1>1, <1>2, <1>3, <1>8, <1>9, <1>13, <1>14, <1>16, <1>17, <1>18, <1>19, <1>22, <1>23, <1>24, <1>25,
     ManagerKeepsInv

(* The question of Lisp: nothing else is on its way then. *)
LEMMA CallFacts ==
  ASSUME SyncInv, Call
  PROVE  /\ manager.pc = "serve" /\ Free /\ SPAD \in manager.ready /\ manager.ready = {SPAD}
         /\ UNCHANGED <<lisp, known, sent>>
         /\ lisp.pc = "asked" /\ InCall /\ toManager = <<CallItem>> /\ toLisp = <<>>
         /\ lisp.vp \in Viewport /\ lisp.cmd \in Orders /\ toManager' = <<>> /\ inSync' = TRUE
<1>1. /\ At("serve") /\ SpadServed /\ toManager # <<>> /\ inSync' = SpadSays("call") /\ toManager' = Tail(toManager)
      /\ Head(toManager).t \notin {"makeGraph", "make2D", "make3D"}
  BY DEF Call
<1>2. manager.pc = "serve" /\ Free /\ UNCHANGED <<lisp, known, sent>> /\ manager.ready = {SPAD}
  BY <1>1 DEF At, Free, OthersOfManager, SpadServed
<1>3. PhaseInv /\ lisp.pc \in {"idle", "graph", "make", "asked", "acknowledge", "closed"}
  BY ManagerFacts DEF LispStates
<1>4. ~ForArguments /\ ~ForAnswer
  BY <1>2 DEF ForArguments, ForAnswer
<1>5. lisp.pc # "graph"
  <2>1. ASSUME lisp.pc = "graph"
        PROVE  FALSE
    <3>1. toManager = <<[t |-> "makeGraph"]>>
      BY <1>1, <1>3, <2>1 DEF PhaseInv, GraphPhase
    <3> QED
      BY <1>1, <3>1, ShortTails
  <2> QED
    BY <2>1
<1>6. lisp.pc # "make"
  <2>1. ASSUME lisp.pc = "make"
        PROVE  FALSE
    <3>1. \E s \in Slots : toManager = <<[t |-> "make2D"], Data(s)>> \/ toManager = <<[t |-> "make3D"], Data(s)>>
      BY <1>1, <1>2, <1>3, <2>1 DEF PhaseInv, MakePhase
    <3> QED
      BY <1>1, <3>1, ShortTails
  <2> QED
    BY <2>1
<1>7. ~ClosePhase /\ ~OrderAcknowledged /\ lisp.pc # "idle"
  BY <1>1, <1>3, <1>4 DEF ClosePhase, OrderAcknowledged, PhaseInv
<1>8. lisp.pc = "asked" /\ OrderAsked /\ InCall
  BY <1>3, <1>5, <1>6, <1>7 DEF PhaseInv, InCall
<1>9. toManager = <<CallItem>> /\ toLisp = <<>>
  BY <1>1, <1>8 DEF OrderAsked
<1>10. lisp.vp \in Viewport /\ lisp.cmd \in Orders
  BY <1>3, <1>8 DEF PhaseInv
<1>11. Head(toManager).t = "call" /\ toManager' = <<>>
  BY <1>1, <1>9, ShortTails DEF CallItem
<1> QED
  BY <1>1, <1>2, <1>8, <1>9, <1>10, <1>11 DEF SpadSays

(* While Lisp waits for the answer, the viewport may be sent what is no graph. *)
LEMMA AskedKeepsInv ==
  ASSUME SyncInv, NEW c \in Viewport, NEW e \in Seq(DownItems), lisp.pc = "asked",
         UNCHANGED <<lisp, known, sent, viewports, graphList, picked, child, up>>,
         down' = [down EXCEPT ![c] = e], inSync' = TRUE,
         manager' \in ManagerStates, manager'.pc # "serve", manager'.closing \subseteq manager.closing \cup Listed,
         \A k \in Key : Coming(e, k) <= Coming(down[c], k), child[c].pc # "data",
         \A f \in Viewport \ {c} : Role(f) = "free" /\ Role(f)' = "free",
         Link(c, Role(c)', lisp.cmd, ArgKey, child[c], up[c], e),
         PhaseInv', ManagerInv'
  PROVE  SyncInv'
<1>1. /\ Types /\ PromiseInv /\ KeptInv /\ up \in [Viewport -> Seq(UpItems)] /\ down \in [Viewport -> Seq(DownItems)]
      /\ graphList \in [Key -> GraphRecords] /\ picked \in Key \cup {0}
  BY ManagerFacts
<1>2. /\ down' \in [Viewport -> Seq(DownItems)] /\ down'[c] = e /\ \A f \in Viewport \ {c} : down'[f] = down[f]
  BY <1>1
<1>3. ArgKey' = ArgKey /\ Closing(c)' = Closing(c)
  BY DEF ArgKey, Closing, Target, InCall
<1>4. LinkOf(c)'
  BY <1>2, <1>3 DEF LinkOf
<1>5. Leaving(c, child[c], up[c])' = Leaving(c, child[c], up[c])
  BY <1>3 DEF Leaving
<1>6. ASSUME NEW k \in Key, c \in Viewport2D
      PROVE  KeptIn(c, k)' /\ (Anchor(c, k) => Anchor(c, k)')
  <2>1. /\ graphList[k].views[c] \in Nat /\ Holding(child[c], k) \in Nat
    BY <1>1, ViewsType
  <2>2. Coming(e, k) \in Nat /\ Coming(down[c], k) \in Nat
    BY ComingType
  <2>3. KeptIn(c, k) /\ Coming(e, k) <= Coming(down[c], k)
    BY <1>1, <1>6 DEF KeptInv
  <2> DEFINE h == Holding(child[c], k)
             v == graphList[k].views[c]
             m == Coming(e, k)
             n == Coming(down[c], k)
  <2>4. v >= h + n => v >= h + m
    BY <2>1, <2>2, <2>3
  <2>5. h + m > 0 => h + n > 0
    BY <2>1, <2>2, <2>3
  <2>6. \A X \in Nat : v > n + X => v > m + X
    BY <2>1, <2>2, <2>3
  <2>7. KeptIn(c, k)'
    BY <1>2, <2>3, <2>4, <2>5 DEF KeptIn, Kept
  <2>8. ASSUME Anchor(c, k)
        PROVE  Anchor(c, k)'
    <3> DEFINE X == IF Leaving(c, child[c], up[c]) THEN h ELSE 0
    <3>1. X \in Nat /\ v > n + X
      BY <2>1, <2>8 DEF Anchor, Spare
    <3>2. v > m + X
      BY <2>6, <3>1
    <3> QED
      BY <1>2, <1>5, <3>2 DEF Anchor, Spare
  <2> QED
    BY <2>7, <2>8
<1>7. ASSUME \A k \in Key : Secure(k) => Secure(k)'
      PROVE  PromiseInv'
  BY <1>1, <1>7 DEF PromiseInv, Promised, Unseen
<1>8. picked' # 0 => PickedUp(picked')
  BY DEF PickedUp
<1> QED
  BY <1>1, <1>2, <1>4, <1>6, <1>7, <1>8, ManagerKeepsInv

LEMMA CallServedKeepsInv ==
  ASSUME SyncInv, Call
  PROVE  SyncInv'
<1> PICK c : c = lisp.vp
  OBVIOUS
<1> PICK o : o = lisp.cmd
  OBVIOUS
<1>1. /\ manager.pc = "serve" /\ Free /\ SPAD \in manager.ready /\ manager.ready = {SPAD}
      /\ UNCHANGED <<lisp, known, sent>> /\ lisp.pc = "asked" /\ InCall
      /\ toManager = <<CallItem>> /\ toLisp = <<>> /\ c \in Viewport /\ o \in Orders
      /\ toManager' = <<>> /\ inSync' = TRUE
  BY CallFacts
<1>2. /\ PhaseInv /\ ManagerInv /\ PlacesInv /\ manager \in ManagerStates /\ down \in [Viewport -> Seq(DownItems)]
      /\ ToSet(viewports) = Listed
  BY ManagerFacts
<1>3. Head(toManager).t = "call" /\ Head(toManager).vp = c /\ Head(toManager).cmd = o
  BY <1>1, ShortTails DEF CallItem
<1>4. /\ UNCHANGED <<viewports, graphList, picked, child, up>>
      /\ IF c \in Listed
         THEN /\ toLisp' = Append(toLisp, Granted) /\ ToChild(c, <<Cmd(o)>>)
              /\ manager' = [manager EXCEPT !.pc = IF o \in Forwarded THEN "args" ELSE "acknow",
                                            !.ready = {}, !.slot = c, !.cmd = o,
                                            !.closing = IF o = "closeAll" THEN @ \cup {c} ELSE @]
         ELSE toLisp' = Append(toLisp, [t |-> "refused"]) /\ Loop /\ UNCHANGED down
  BY <1>2, <1>3 DEF Call, SpadSays, Granted, Cmd
<1>5. /\ \A f : Role(f) = "free"
      /\ Link(c, "free", lisp.cmd, ArgKey, child[c], up[c], down[c])
      /\ up[c] \in Seq(UpItems) /\ down[c] \in Seq(DownItems) /\ child[c] \in Programs
  BY <1>1, RoleTypes, ProgramFacts
<1>6. \A f \in manager.closing : f \notin Listed
  BY <1>1, <1>2, NoneClosing
<1>7. Listed' = Listed /\ InCall' = InCall
  BY <1>1, <1>4 DEF Listed, InCall
<1>8. child[c].pc # "data"
  BY <1>5 DEF Link, Words
<1>9. CASE c \in Listed
  <2>1. up[c] = <<>> /\ child[c].pc \in Up \cup Gone
    <3>1. Placed(c) /\ Target(c) /\ c # SPAD
      BY <1>1, <1>2, Basics DEF PlacesInv, Target
    <3>2. up[c] = <<>> /\ child[c].pc # "none"
      BY <1>1, <1>9, <3>1 DEF Placed
    <3>3. child[c].pc # "exiting"
      BY <1>9, <3>1, <3>2, EmptyElems DEF Placed, Among
    <3>4. child[c].pc \notin {"boot", "data"}
      BY <1>5 DEF Link, Words
    <3> QED
      BY <1>5, <3>2, <3>3, <3>4 DEF Programs
  <2> DEFINE e == IF child[c].pc \in Gone \cup {"exiting"} THEN down[c] ELSE down[c] \o <<Cmd(o)>>
             r == IF o = "closeAll" THEN "acknow" ELSE "args"
  <2>2. down' = [down EXCEPT ![c] = e]
    BY <1>2, <1>4, <1>9 DEF ToChild
  <2>3. Cmd(o) \in DownItems /\ e \in Seq(DownItems)
    <3>1. Cmd(o) \in DownItems
      BY <1>1 DEF Cmd, DownItems
    <3>2. down[c] \o <<Cmd(o)>> \in Seq(DownItems)
      BY <1>5, <3>1, AppendElems
    <3> QED
      BY <1>5, <3>1, <3>2
  <2>4. o \in Forwarded <=> o # "closeAll"
    BY <1>1 DEF Orders, Forwarded, WithArguments, Command
  <2>5. /\ manager' \in ManagerStates /\ manager'.pc = r /\ manager'.slot = c /\ manager'.cmd = o
        /\ manager'.closing = IF o = "closeAll" THEN manager.closing \cup {c} ELSE manager.closing
        /\ manager'.graphKey = manager.graphKey
    <3> DEFINE cl == IF o = "closeAll" THEN manager.closing \cup {c} ELSE manager.closing
    <3>1. r = IF o \in Forwarded THEN "args" ELSE "acknow"
      BY <2>4
    <3>2. manager' = [manager EXCEPT !.pc = r, !.ready = {}, !.slot = c, !.cmd = o, !.closing = cl]
      BY <1>4, <1>9, <3>1
    <3>3. cl \in SUBSET Viewport /\ r \in {"args", "acknow"} /\ {} \in SUBSET (Viewport \cup {SPAD})
      BY <1>1, <1>2 DEF ManagerStates
    <3>4. c \in Viewport \cup {0} /\ o \in Orders \cup {"none"}
      BY <1>1
    <3> HIDE DEF cl, r
    <3>5. /\ manager' \in ManagerStates /\ manager'.pc = r /\ manager'.slot = c /\ manager'.cmd = o
          /\ manager'.closing = cl /\ manager'.graphKey = manager.graphKey
      BY <1>2, <3>2, <3>3, <3>4 DEF ManagerStates
    <3> QED
      BY <3>5 DEF cl
  <2>6. Link(c, r, o, ArgKey, child[c], <<>>, e)
    BY <1>5, <2>1, LinkCalled
  <2>7. \A k \in Key : Coming(e, k) <= Coming(down[c], k)
    <3> SUFFICES ASSUME NEW k \in Key
                 PROVE  Coming(e, k) <= Coming(down[c], k)
      OBVIOUS
    <3> DEFINE x == Cmd(o)
    <3>1. Coming(down[c], k) \in Nat /\ x \in DownItems /\ x.t \notin {"viewOkay", "args"}
      BY <2>3, ComingType DEF Cmd
    <3> HIDE DEF x
    <3>2. Coming(down[c] \o <<x>>, k) <= Coming(down[c], k) + (IF x.t \in {"viewOkay", "args"} /\ x.key = k THEN 1 ELSE 0)
      BY <1>5, <3>1, ComingMore
    <3>3. Coming(down[c] \o <<x>>, k) <= Coming(down[c], k)
      BY <3>1, <3>2
    <3> QED
      BY <3>1, <3>3 DEF x
  <2> HIDE DEF e
  <2>8. toLisp' = <<Granted>>
    BY <1>1, <1>4, <1>9, ShortJoins
  <2>9. PhaseInv'
    <3>1. CASE o = "closeAll"
      <4>1. ClosePhase'
        BY <1>1, <2>5, <2>8, <3>1 DEF ClosePhase, ForAnswer, Granted
      <4> QED
        BY <1>1, <1>2, <1>7, <4>1 DEF PhaseInv
    <3>2. CASE o # "closeAll"
      <4>1. OrderAsked'
        BY <1>1, <2>5, <2>8, <3>2 DEF OrderAsked, ForArguments, Granted
      <4> QED
        BY <1>1, <1>2, <1>7, <4>1 DEF PhaseInv
    <3> QED
      BY <3>1, <3>2
  <2>10. ManagerInv'
    <3>1. \A f : ~Waiting(f)'
      BY <2>5 DEF Waiting
    <3>2. o = "closeAll" => Closing(c)'
      BY <1>1, <1>7 DEF Closing, Target
    <3>3. \A f \in manager'.closing : f \in Listed' => Closing(f)'
      BY <1>6, <1>7, <2>5, <3>2
    <3> QED
      BY <1>1, <1>2, <1>4, <1>7, <1>9, <2>5, <3>1, <3>3 DEF ManagerInv
  <2>11. Role(c)' = r /\ \A f \in Viewport \ {c} : Role(f)' = "free"
    BY <2>5 DEF Role
  <2>12. manager'.pc # "serve" /\ manager'.closing \subseteq manager.closing \cup Listed
    BY <1>9, <2>5
  <2>13. Link(c, Role(c)', lisp.cmd, ArgKey, child[c], up[c], e)
    BY <2>1, <2>6, <2>11
  <2> QED
    BY <1>1, <1>4, <1>5, <1>8, <2>2, <2>3, <2>5, <2>7, <2>9, <2>10, <2>11, <2>12, <2>13, AskedKeepsInv
<1>10. CASE c \notin Listed
  <2>1. /\ toLisp' = <<[t |-> "refused"]>> /\ Loop /\ down' = down
    BY <1>1, <1>4, <1>10, ShortJoins
  <2>2. /\ manager' \in ManagerStates /\ manager'.pc = "select" /\ manager'.slot = 0 /\ Free'
        /\ manager'.closing = manager.closing /\ manager'.graphKey = manager.graphKey
        /\ \A f : Role(f)' = "free" /\ ~Waiting(f)'
    BY <2>1, LoopFacts
  <2>3. PhaseInv'
    <3>1. Forgotten(lisp.vp)'
      BY <1>1, <1>7, <1>10, <2>2 DEF Forgotten
    <3>2. OrderAsked'
      BY <1>1, <2>1, <2>2, <3>1 DEF OrderAsked
    <3> QED
      BY <1>1, <1>2, <1>7, <3>2 DEF PhaseInv
  <2>4. ManagerInv'
    BY <1>2, <1>4, <1>6, <1>7, <2>2 DEF ManagerInv
  <2>5. down' = [down EXCEPT ![c] = down[c]]
    BY <1>1, <1>2, <2>1
  <2>6. manager'.pc # "serve" /\ manager'.closing \subseteq manager.closing \cup Listed
    BY <2>2
  <2>7. \A k \in Key : Coming(down[c], k) <= Coming(down[c], k)
    <3> SUFFICES ASSUME NEW k \in Key
                 PROVE  Coming(down[c], k) <= Coming(down[c], k)
      OBVIOUS
    <3>1. Coming(down[c], k) \in Nat
      BY ComingType
    <3> QED
      BY <3>1
  <2> QED
    BY <1>1, <1>4, <1>5, <1>8, <2>2, <2>3, <2>4, <2>5, <2>6, <2>7, AskedKeepsInv
<1> QED
  BY <1>9, <1>10

LEMMA SelectKeepsInv ==
  ASSUME SyncInv, Select
  PROVE  SyncInv'
<1>1. /\ manager.pc = "select" /\ UNCHANGED <<lisp, known, sent>>
      /\ manager' = [manager EXCEPT !.pc = "serve", !.ready = Readable]
      /\ UNCHANGED <<viewports, graphList, picked, child, toManager, toLisp, down, up, inSync>>
  BY DEF Select, At, OthersOfManager, links
<1>2. /\ Types /\ PhaseInv /\ ManagerInv /\ PlacesInv /\ manager \in ManagerStates /\ ToSet(viewports) = Listed
      /\ Listed \subseteq Viewport
  BY ManagerFacts
<1>3. /\ Readable \subseteq Viewport \cup {SPAD} /\ (SPAD \in Readable => toManager # <<>>)
      /\ \A c \in Viewport : /\ c \in Readable => up[c] # <<>> \/ child[c].pc \in Gone
                             /\ c \in Listed \ Readable => up[c] = <<>>
  BY <1>2, Basics DEF Readable, Eof
<1>4. /\ manager' \in ManagerStates /\ manager'.pc = "serve" /\ manager'.ready = Readable
      /\ manager'.slot = manager.slot /\ manager'.closing = manager.closing /\ manager'.graphKey = manager.graphKey
  BY <1>1, <1>2, <1>3 DEF ManagerStates
<1>5. Free /\ Free' /\ \A e : ~Waiting(e) /\ ~Waiting(e)'
  BY <1>1, <1>4 DEF Free, Waiting
<1>6. \A e : Role(e) = "free" /\ Role(e)' = "free"
  BY <1>1, <1>4 DEF Role
<1>7. Listed' = Listed /\ \A e : Target(e)' = Target(e) /\ Closing(e)' = Closing(e)
  BY <1>1 DEF Listed, Closing, Target, InCall
<1>8. Types'
  BY <1>1, <1>2, <1>4 DEF Types
<1>9. PhaseInv'
  <2>1. Unborn(Viewport2D)' = Unborn(Viewport2D) /\ Unborn(Viewport3D)' = Unborn(Viewport3D)
    BY <1>1 DEF Unborn
  <2>2. /\ Forgotten(lisp.vp) => Forgotten(lisp.vp)'
        /\ StillThere(lisp.vp) => StillThere(lisp.vp)'
    BY <1>1, <1>4, <1>5, <1>7 DEF Forgotten, StillThere
  <2> QED
    BY <1>1, <1>2, <1>4, <1>5, <2>1, <2>2, PhaseFree
<1>10. ManagerInv'
  BY <1>1, <1>2, <1>3, <1>4, <1>5, <1>7 DEF ManagerInv
<1>11. PlacesInv'
  <2> SUFFICES ASSUME NEW e \in Viewport
               PROVE  Placed(e)'
    BY DEF PlacesInv
  <2>1. Placed(e)
    BY <1>2 DEF PlacesInv
  <2> QED
    BY <1>1, <1>3, <1>4, <1>7, <2>1 DEF Placed
<1>12. LinksInv' /\ KeptInv' /\ PickInv' /\ PromiseInv'
  <2>1. child' \in [Viewport -> Programs] /\ \A e \in Viewport : Ended(child[e], child'[e])
    BY <1>1, <1>2 DEF Types, Ended
  <2> QED
    BY <1>1, <1>6, <2>1, EndedKeeps
<1> QED
  BY <1>8, <1>9, <1>10, <1>11, <1>12 DEF SyncInv

(* What Lisp says first tells which call it makes. *)
LEMMA SpadFacts ==
  ASSUME SyncInv, NEW t, FromSpad(t), t \in {"makeGraph", "make2D", "make3D"}
  PROVE  /\ manager.pc = "serve" /\ Free /\ toManager # <<>> /\ UNCHANGED <<lisp, known, sent>> /\ toLisp = <<>>
         /\ t = "makeGraph" => /\ lisp.pc = "graph" /\ manager.graphKey \in Key /\ lisp.keys = {}
                               /\ toManager' = <<>>
         /\ t # "makeGraph" => lisp.pc = "make" /\ \E s \in Slots : toManager = <<[t |-> t], Data(s)>>
         /\ t = "make2D" => Unborn(Viewport2D) # {}
         /\ t = "make3D" => Unborn(Viewport3D) # {}
<1>1. /\ manager.pc = "serve" /\ Free /\ toManager # <<>> /\ UNCHANGED <<lisp, known, sent>>
      /\ Head(toManager).t = t /\ toManager' = Tail(toManager)
  BY DEF FromSpad, At, Free, OthersOfManager, SpadSays
<1>2. PhaseInv /\ lisp.pc \in {"idle", "graph", "make", "asked", "acknowledge", "closed"}
  BY ManagerFacts DEF LispStates
<1>3. ~InCall
  <2>1. ~ForArguments
    BY <1>1 DEF ForArguments
  <2>2. toManager # <<CallItem>>
    BY <1>1, ShortTails DEF CallItem
  <2>3. ~ClosePhase /\ ~OrderAcknowledged /\ ~OrderAsked
    BY <1>1, <2>1, <2>2 DEF ClosePhase, OrderAcknowledged, OrderAsked
  <2> QED
    BY <1>2, <2>3 DEF PhaseInv, InCall
<1>4. CASE lisp.pc = "graph"
  <2>1. /\ toManager = <<[t |-> "makeGraph"]>> /\ toLisp = <<>> /\ manager.graphKey \in Key /\ lisp.keys = {}
    BY <1>1, <1>2, <1>4 DEF PhaseInv, GraphPhase
  <2>2. t = "makeGraph" /\ toManager' = <<>>
    BY <1>1, <2>1, ShortTails
  <2> QED
    BY <1>1, <1>4, <2>1, <2>2
<1>5. CASE lisp.pc = "make"
  <2>1. toLisp = <<>>
    BY <1>1, <1>2, <1>5 DEF PhaseInv, MakePhase, Free
  <2>2. PICK s \in Slots : \/ toManager = <<[t |-> "make2D"], Data(s)>> /\ Unborn(Viewport2D) # {}
                           \/ toManager = <<[t |-> "make3D"], Data(s)>> /\ Unborn(Viewport3D) # {}
    BY <1>1, <1>2, <1>5 DEF PhaseInv, MakePhase, Free
  <2>3. \/ t = "make2D" /\ toManager = <<[t |-> "make2D"], Data(s)>> /\ Unborn(Viewport2D) # {}
        \/ t = "make3D" /\ toManager = <<[t |-> "make3D"], Data(s)>> /\ Unborn(Viewport3D) # {}
    BY <1>1, <2>2, ShortTails
  <2> QED
    BY <1>1, <1>5, <2>1, <2>3
<1>6. lisp.pc # "idle"
  BY <1>1, <1>2 DEF PhaseInv
<1> QED
  BY <1>2, <1>3, <1>4, <1>5, <1>6 DEF InCall

LEMMA MakeGraphKeepsInv ==
  ASSUME SyncInv, MakeGraph
  PROVE  SyncInv'
<1> PICK g : g = manager.graphKey
  OBVIOUS
<1>1. /\ FromSpad("makeGraph") /\ graphList' = [graphList EXCEPT ![g].listed = "yes"]
      /\ toLisp' = Append(toLisp, [t |-> "key", n |-> g])
      /\ manager' = [manager EXCEPT !.pc = "select", !.ready = {}, !.graphKey = @ + 1]
      /\ UNCHANGED <<viewports, picked, child, down, up, inSync>>
  BY DEF MakeGraph
<1>2. /\ manager.pc = "serve" /\ Free /\ toManager # <<>> /\ UNCHANGED <<lisp, known, sent>> /\ toLisp = <<>>
      /\ lisp.pc = "graph" /\ g \in Key /\ lisp.keys = {} /\ toManager' = <<>>
  BY <1>1, SpadFacts
<1>3. /\ Types /\ PhaseInv /\ ManagerInv /\ LinksInv /\ PlacesInv /\ KeptInv /\ PickInv
      /\ manager \in ManagerStates /\ graphList \in [Key -> GraphRecords]
  BY ManagerFacts
<1>4. graphList[g].listed = "no"
  <2>1. g >= manager.graphKey
    BY <1>2, Basics
  <2> QED
    BY <1>2, <1>3, <2>1 DEF ManagerInv
<1>5. /\ graphList' \in [Key -> GraphRecords] /\ \A k \in Key : graphList'[k].views = graphList[k].views
      /\ \A k \in Key \ {g} : graphList'[k].listed = graphList[k].listed
      /\ graphList'[g].listed = "yes"
  <2>1. \A k \in Key : graphList[k] \in GraphRecords
    BY <1>3
  <2>2. graphList' = [graphList EXCEPT ![g] = [graphList[g] EXCEPT !.listed = "yes"]]
    BY <1>1
  <2>3. /\ graphList'[g] = [graphList[g] EXCEPT !.listed = "yes"] /\ \A k \in Key \ {g} : graphList'[k] = graphList[k]
    BY <1>2, <1>3, <2>2
  <2>4. [graphList[g] EXCEPT !.listed = "yes"] \in GraphRecords
    BY <1>2, <2>1 DEF GraphRecords
  <2>5. graphList' \in [Key -> GraphRecords]
    BY <1>3, <2>2, <2>4
  <2>6. graphList'[g].listed = "yes" /\ graphList'[g].views = graphList[g].views
    BY <1>2, <2>1, <2>3 DEF GraphRecords
  <2> QED
    BY <2>3, <2>5, <2>6
<1>6. /\ manager' \in ManagerStates /\ manager'.pc = "select" /\ manager'.slot = manager.slot
      /\ manager'.closing = manager.closing /\ manager'.graphKey = g + 1
  <2>1. manager.graphKey + 1 \in Nat
    BY <1>3 DEF ManagerStates
  <2> QED
    BY <1>1, <1>3, <2>1 DEF ManagerStates
<1>7. Free' /\ (\A e : ~Waiting(e)') /\ \A e : Role(e) = "free" /\ Role(e)' = "free"
  BY <1>2, <1>6 DEF Free, Waiting, Role
<1>8. Listed' = Listed /\ ArgKey' = ArgKey /\ \A e : ~Target(e) /\ ~Target(e)' /\ ~Closing(e) /\ ~Closing(e)'
  BY <1>1, <1>2 DEF Listed, ArgKey, Closing, Target, InCall
<1>9. Types'
  BY <1>1, <1>2, <1>3, <1>5, <1>6 DEF Types
<1>10. PhaseInv'
  <2>1. toLisp' = <<[t |-> "key", n |-> g]>>
    BY <1>1, <1>2, ShortJoins
  <2>2. GraphPhase'
    BY <1>2, <1>7, <2>1 DEF GraphPhase
  <2> QED
    BY <1>2, <2>2 DEF PhaseInv, InCall
<1>11. ManagerInv'
  <2>1. \A f \in manager.closing : f \notin Listed
    BY <1>2, <1>3, NoneClosing
  <2>2. \A k \in Key : k >= g + 1 => k # g /\ k >= g
    BY <1>2, Basics
  <2> QED
    BY <1>2, <1>3, <1>5, <1>6, <1>7, <1>8, <2>1, <2>2 DEF ManagerInv
<1>12. LinksInv'
  BY <1>1, <1>2, <1>3, <1>7, <1>8 DEF LinksInv, LinkOf
<1>13. PlacesInv'
  BY <1>1, <1>3, <1>6, <1>8 DEF PlacesInv, Placed
<1>14. KeptInv'
  <2> SUFFICES ASSUME NEW c \in Viewport2D, NEW k \in Key
               PROVE  KeptIn(c, k)'
    BY DEF KeptInv
  <2>1. KeptIn(c, k) /\ graphList'[k].views[c] = graphList[k].views[c]
    BY <1>3, <1>5 DEF KeptInv
  <2>2. graphList[k].listed # "no" => graphList'[k].listed # "no"
    BY <1>4, <1>5
  <2> QED
    BY <1>1, <2>1, <2>2 DEF KeptIn, Kept
<1>15. PickInv'
  <2> SUFFICES ASSUME NEW k \in Key, PickedUp(k)'
               PROVE  Secure(k)'
    BY DEF PickInv
  <2>1. PickedUp(k)
    BY <1>1 DEF PickedUp
  <2>2. Secure(k)
    BY <1>3, <2>1 DEF PickInv
  <2>3. k # g
    BY <1>4, <2>2 DEF Secure
  <2>4. \A c \in Viewport2D : Anchor(c, k) => Anchor(c, k)'
    BY <1>1, <1>5, <1>8 DEF Anchor, Leaving
  <2> QED
    BY <1>5, <2>2, <2>3, <2>4 DEF Secure
<1>16. PromiseInv'
  BY <1>2 DEF PromiseInv, Promised
<1> QED
  BY <1>9, <1>10, <1>11, <1>12, <1>13, <1>14, <1>15, <1>16 DEF SyncInv

(* The new viewport is the first of the list. *)
LEMMA ListGrows ==
  ASSUME NEW vs \in Seq(Viewport), NEW c \in Viewport, \A i \in DOMAIN vs : vs[i] # c,
         \A i, j \in DOMAIN vs : vs[i] = vs[j] => i = j
  PROVE  /\ <<c>> \o vs \in Seq(Viewport)
         /\ \A i, j \in DOMAIN (<<c>> \o vs) : (<<c>> \o vs)[i] = (<<c>> \o vs)[j] => i = j
         /\ {(<<c>> \o vs)[i] : i \in DOMAIN (<<c>> \o vs)} = {vs[i] : i \in DOMAIN vs} \cup {c}
<1> DEFINE n == Len(vs)
           ws == <<c>> \o vs
<1>1. n \in Nat /\ DOMAIN vs = 1 .. n
  OBVIOUS
<1>2. /\ ws \in Seq(Viewport) /\ DOMAIN ws = 1 .. n + 1 /\ ws[1] = c
      /\ \A i \in 2 .. n + 1 : ws[i] = vs[i - 1]
  OBVIOUS
<1> HIDE DEF ws
<1>3. \A i \in DOMAIN ws : i = 1 \/ (i \in 2 .. n + 1 /\ i - 1 \in DOMAIN vs)
  BY <1>1, <1>2
<1>4. ASSUME NEW i \in DOMAIN ws, NEW j \in DOMAIN ws, ws[i] = ws[j]
      PROVE  i = j
  BY <1>1, <1>2, <1>3, <1>4
<1>5. {ws[i] : i \in DOMAIN ws} = {vs[i] : i \in DOMAIN vs} \cup {c}
  <2>1. \A i \in DOMAIN ws : ws[i] = c \/ \E j \in DOMAIN vs : ws[i] = vs[j]
    BY <1>1, <1>2, <1>3
  <2>2. \A j \in DOMAIN vs : j + 1 \in DOMAIN ws /\ ws[j + 1] = vs[j]
    BY <1>1, <1>2
  <2>3. 1 \in DOMAIN ws
    BY <1>1, <1>2
  <2> QED
    BY <1>2, <2>1, <2>2, <2>3
<1> QED
  BY <1>2, <1>4, <1>5 DEF ws

(* The program of the viewport that was unborn longest is started. *)
LEMMA ForkKeepsInv ==
  ASSUME SyncInv, NEW V, NEW t, FromSpad(t), Fork(V),
         \/ V = Viewport2D /\ t = "make2D"
         \/ V = Viewport3D /\ t = "make3D"
  PROVE  SyncInv'
<1> PICK c : c = CHOOSE d \in Unborn(V) : \A e \in Unborn(V) : d <= e
  OBVIOUS
<1>1. /\ child' = [child EXCEPT ![c].pc = "boot"] /\ viewports' = <<c>> \o viewports
      /\ manager' = [manager EXCEPT !.pc = "fork", !.ready = {}, !.slot = c]
      /\ UNCHANGED <<graphList, picked, toLisp, down, up, inSync>> /\ toManager' = Tail(toManager)
  BY DEF Fork, FromSpad
<1>2. /\ manager.pc = "serve" /\ toManager # <<>> /\ UNCHANGED <<lisp, known, sent>> /\ toLisp = <<>>
      /\ lisp.pc = "make" /\ Unborn(V) # {} /\ \E s \in Slots : toManager = <<[t |-> t], Data(s)>>
  BY SpadFacts
<1>3. PICK s \in Slots : toManager = <<[t |-> t], Data(s)>>
  BY <1>2
<1>4. /\ Types /\ PhaseInv /\ ManagerInv /\ LinksInv /\ PlacesInv /\ KeptInv /\ PickInv /\ PromiseInv
      /\ manager \in ManagerStates /\ child \in [Viewport -> Programs] /\ viewports \in Seq(Viewport)
      /\ Listed \subseteq Viewport
  BY ManagerFacts
<1>5. c \in Viewport /\ child[c].pc = "none"
  <2>1. Unborn(V) \subseteq V /\ V \subseteq Viewport /\ V \subseteq Nat
    BY Basics DEF Unborn
  <2>2. \E d \in Unborn(V) : \A e \in Unborn(V) : d <= e
    BY <1>2, <2>1, LeastNat
  <2>3. c \in Unborn(V)
    BY <2>2
  <2> QED
    BY <2>1, <2>3 DEF Unborn
<1>6. c \notin Listed /\ c \notin manager.closing
  BY <1>4, <1>5 DEF PlacesInv, Placed
<1>7. /\ viewports' \in Seq(Viewport)
      /\ \A i, j \in DOMAIN viewports' : viewports'[i] = viewports'[j] => i = j
      /\ Listed' = Listed \cup {c}
  <2>1. /\ \A i \in DOMAIN viewports : viewports[i] # c
        /\ \A i, j \in DOMAIN viewports : viewports[i] = viewports[j] => i = j
    BY <1>4, <1>6 DEF Types, Listed
  <2> DEFINE ws == <<c>> \o viewports
  <2>2. /\ ws \in Seq(Viewport) /\ (\A i, j \in DOMAIN ws : ws[i] = ws[j] => i = j)
        /\ {ws[i] : i \in DOMAIN ws} = {viewports[i] : i \in DOMAIN viewports} \cup {c}
    BY <1>4, <1>5, <2>1, ListGrows
  <2> HIDE DEF ws
  <2>3. viewports' = ws
    BY <1>1 DEF ws
  <2> QED
    BY <2>2, <2>3 DEF Listed
<1>8. /\ manager' \in ManagerStates /\ manager'.pc = "fork" /\ manager'.slot = c
      /\ manager'.closing = manager.closing /\ manager'.graphKey = manager.graphKey
  BY <1>1, <1>4, <1>5 DEF ManagerStates
<1>9. /\ child' \in [Viewport -> Programs] /\ child'[c].pc = "boot" /\ child'[c].doit = child[c].doit
      /\ \A e \in Viewport \ {c} : child'[e] = child[e]
  <2>1. child[c] \in Programs
    BY <1>4, <1>5
  <2>2. child' = [child EXCEPT ![c] = [child[c] EXCEPT !.pc = "boot"]]
    BY <1>1
  <2>3. [child[c] EXCEPT !.pc = "boot"] \in Programs
    BY <2>1 DEF Programs
  <2>4. child'[c] = [child[c] EXCEPT !.pc = "boot"] /\ \A e \in Viewport \ {c} : child'[e] = child[e]
    BY <1>4, <1>5, <2>2
  <2>5. child' \in [Viewport -> Programs]
    BY <1>4, <2>2, <2>3
  <2>6. child'[c].pc = "boot" /\ child'[c].doit = child[c].doit
    BY <2>1, <2>4 DEF Programs
  <2> QED
    BY <2>4, <2>5, <2>6
<1>10. /\ toManager' = <<Data(s)>> /\ toManager' # <<>>
  BY <1>1, <1>3, ShortTails
<1>11. /\ (\A e : ~Waiting(e)') /\ (\A e : Role(e) = "free") /\ Role(c)' = "fork"
       /\ \A e \in Viewport \ {c} : Role(e)' = "free"
  BY <1>2, <1>8 DEF Waiting, Role
<1>12. ArgKey' = ArgKey /\ \A e : ~Target(e) /\ ~Target(e)' /\ ~Closing(e) /\ ~Closing(e)'
  BY <1>2 DEF ArgKey, Closing, Target, InCall
<1>13. Link(c, "free", lisp.cmd, ArgKey, child[c], up[c], down[c]) /\ up[c] = <<>>
  <2>1. LinkOf(c)
    BY <1>4, <1>5 DEF LinksInv
  <2>2. Link(c, "free", lisp.cmd, ArgKey, child[c], up[c], down[c])
    BY <1>11, <2>1 DEF LinkOf
  <2> QED
    BY <1>5, <2>2 DEF Link, Words
<1>14. Types'
  BY <1>1, <1>2, <1>4, <1>7, <1>8, <1>9 DEF Types
<1>15. PhaseInv'
  <2>1. MakePhase'
    BY <1>1, <1>2, <1>8, <1>10 DEF MakePhase
  <2> QED
    BY <1>2, <2>1 DEF PhaseInv, InCall
<1>16. ManagerInv'
  <2>1. \A e \in manager.closing : e \notin Listed'
    BY <1>2, <1>4, <1>6, <1>7, NoneClosing
  <2> QED
    BY <1>1, <1>4, <1>5, <1>8, <1>11, <2>1 DEF ManagerInv
<1>17. LinksInv'
  <2> SUFFICES ASSUME NEW e \in Viewport
               PROVE  LinkOf(e)'
    BY DEF LinksInv
  <2>1. CASE e = c
    <3>1. Link(c, "fork", lisp.cmd, ArgKey, child'[c], up[c], down[c])
      BY <1>5, <1>9, <1>13, LinkForked
    <3> QED
      BY <1>1, <1>2, <1>11, <1>12, <2>1, <3>1 DEF LinkOf
  <2>2. CASE e # c
    <3>1. LinkOf(e) /\ child'[e] = child[e]
      BY <1>4, <1>9, <2>2 DEF LinksInv
    <3> QED
      BY <1>1, <1>2, <1>11, <1>12, <2>2, <3>1 DEF LinkOf
  <2> QED
    BY <2>1, <2>2
<1>18. PlacesInv'
  <2> SUFFICES ASSUME NEW e \in Viewport
               PROVE  Placed(e)'
    BY DEF PlacesInv
  <2>1. Placed(e)
    BY <1>4 DEF PlacesInv
  <2>2. CASE e = c
    BY <1>8, <1>9, <1>12, <2>1, <2>2 DEF Placed
  <2>3. CASE e # c
    <3>1. child'[e] = child[e] /\ (e \in Listed' <=> e \in Listed)
      BY <1>7, <1>9, <2>3
    <3> QED
      BY <1>1, <1>8, <1>12, <2>1, <3>1 DEF Placed
  <2> QED
    BY <2>2, <2>3
<1>19. ~Among(up[c], "viewportClosing") /\ child[c].pc \notin Up /\ child'[c].pc \notin Up \cup {"data"}
  BY <1>5, <1>9, <1>13, EmptyElems DEF Among, Up
<1>20. KeptInv' /\ \A k \in Key : Secure(k) => Secure(k)'
  <2>1. ASSUME NEW k \in Key, c \in Viewport2D
        PROVE  KeptIn(c, k)'
    BY <1>1, <1>19 DEF KeptIn, Kept
  <2>2. ASSUME NEW k \in Key, c \in Viewport2D, Anchor(c, k)
        PROVE  Anchor(c, k)'
    <3>1. ~Leaving(c, child[c], up[c]) /\ ~Leaving(c, child[c], up[c])'
      BY <1>1, <1>19 DEF Leaving
    <3> QED
      BY <1>1, <2>2, <3>1 DEF Anchor, Spare
  <2>3. \A e \in Viewport \ {c} : child'[e] = child[e] /\ up'[e] = up[e] /\ down'[e] = down[e]
    BY <1>1, <1>9
  <2>4. /\ \A k \in Key : graphList'[k].listed = graphList[k].listed
        /\ \A k \in Key : \A e \in Viewport \ {c} : graphList'[k].views[e] = graphList[k].views[e]
    BY <1>1
  <2> QED
    BY <1>2, <1>4, <1>5, <2>1, <2>2, <2>3, <2>4, GraphsFrame
<1>21. PickInv'
  BY <1>1, <1>4, <1>20 DEF PickInv, PickedUp
<1>22. PromiseInv'
  <2>1. Promised = lisp.keys /\ Promised' = lisp.keys
    BY <1>2, <1>10 DEF Promised
  <2>2. \A k \in Key : k \in Promised' => Secure(k)' \/ Unseen(k)'
    BY <1>1, <1>4, <1>20, <2>1 DEF PromiseInv, Unseen
  <2>3. \A i \in Slot : s[i] \in lisp.keys \cup {0}
    <3>1. 2 \in DOMAIN toManager /\ toManager[2] = Data(s)
      BY <1>3, ShortElems
    <3>2. toManager[2].t = "data" /\ toManager[2].slots = s
      BY <3>1 DEF Data
    <3> QED
      BY <1>2, <1>4, <3>1, <3>2 DEF PromiseInv
  <2>4. \A j \in DOMAIN toManager' : toManager'[j].slots = s
    BY <1>10, ShortElems DEF Data
  <2> QED
    BY <1>2, <2>2, <2>3, <2>4 DEF PromiseInv
<1> QED
  BY <1>14, <1>15, <1>16, <1>17, <1>18, <1>20, <1>21, <1>22 DEF SyncInv

LEMMA ForkViewKeepsInv ==
  ASSUME SyncInv, ForkView2D \/ ForkView3D
  PROVE  SyncInv'
<1>1. CASE ForkView2D
  BY <1>1, ForkKeepsInv DEF ForkView2D
<1>2. CASE ForkView3D
  BY <1>2, ForkKeepsInv DEF ForkView3D
<1> QED
  BY <1>1, <1>2

LEMMA WaitForChildKeepsInv ==
  ASSUME SyncInv, WaitForChild
  PROVE  SyncInv'
<1> PICK w : w = manager.slot
  OBVIOUS
<1>1. /\ manager.pc = "wait" /\ UNCHANGED <<lisp, known, sent>> /\ Loop
      /\ toLisp' = IF w \in manager.closing THEN Append(toLisp, Closed) ELSE toLisp
      /\ UNCHANGED <<viewports, graphList, picked, toManager, down, up, inSync>>
  BY DEF WaitForChild, At, OthersOfManager, Closed
<1>2. PICK c \in Viewport : child[c].pc = "zombie" /\ child' = [child EXCEPT ![c].pc = "reaped"]
  BY DEF WaitForChild
<1>3. /\ Types /\ PhaseInv /\ ManagerInv /\ PlacesInv /\ child \in [Viewport -> Programs]
  BY ManagerFacts
<1>4. /\ manager' \in ManagerStates /\ manager'.pc = "select" /\ manager'.slot = 0 /\ Free'
      /\ manager'.closing = manager.closing /\ manager'.graphKey = manager.graphKey
      /\ \A e : Role(e)' = "free" /\ ~Waiting(e)'
  BY <1>1, LoopFacts
<1>5. /\ child' \in [Viewport -> Programs] /\ \A e \in Viewport : Ended(child[e], child'[e])
  <2>1. child[c] \in Programs
    BY <1>2, <1>3
  <2>2. child' = [child EXCEPT ![c] = [child[c] EXCEPT !.pc = "reaped"]]
    BY <1>2
  <2>3. [child[c] EXCEPT !.pc = "reaped"] \in Programs
    BY <2>1 DEF Programs, Gone
  <2>4. Ended(child[c], [child[c] EXCEPT !.pc = "reaped"])
    BY <1>2, <2>1 DEF Ended, Programs, Gone
  <2> QED
    BY <1>3, <2>2, <2>3, <2>4 DEF Ended
<1>6. Free /\ \A e : Role(e) = "free"
  BY <1>1 DEF Free, Role
<1>7. LinksInv' /\ KeptInv' /\ PickInv' /\ PromiseInv'
  <2>1. \A e \in Viewport : Role(e)' = Role(e)
    BY <1>4, <1>6
  <2> QED
    BY <1>1, <1>5, <2>1, EndedKeeps
<1>8. Types'
  BY <1>1, <1>3, <1>4, <1>5 DEF Types
<1>9. /\ Listed' = Listed /\ InCall' = InCall /\ \A e : Target(e)' = Target(e) /\ Closing(e)' = Closing(e)
  BY <1>1 DEF Listed, Closing, Target, InCall
<1>10. ManagerInv'
  BY <1>1, LoopManager
<1>11. PlacesInv'
  <2> SUFFICES ASSUME NEW e \in Viewport
               PROVE  Placed(e)'
    BY DEF PlacesInv
  <2>1. Placed(e) /\ Ended(child[e], child'[e])
    BY <1>3, <1>5 DEF PlacesInv
  <2>2. /\ child'[e].doit = child[e].doit /\ (child'[e].pc = "exiting" => child[e].pc = "exiting")
        /\ (child'[e].pc = "none" => child[e].pc = "none")
    BY <2>1 DEF Ended, Gone
  <2> QED
    BY <1>1, <1>4, <1>9, <2>1, <2>2 DEF Placed
<1>12. ~ForArguments /\ ~ForAnswer
  BY <1>1 DEF ForArguments, ForAnswer
<1>13. ASSUME Forgotten(lisp.vp)
       PROVE  Forgotten(lisp.vp)'
  BY <1>4, <1>9, <1>1, <1>13 DEF Forgotten
<1>14. CASE w \in manager.closing
  <2>1. w \notin Listed /\ Waiting(w) /\ Closing(w)
    BY <1>1, <1>3, <1>14 DEF ManagerInv, Waiting
  <2>2. /\ InCall /\ lisp.vp = w /\ lisp.cmd = "closeAll" /\ toManager = <<>>
    BY <1>3, <1>14, <2>1 DEF Closing, Target, ManagerInv
  <2>3. ~Forgotten(lisp.vp)
    BY <2>1, <2>2 DEF Forgotten
  <2>4. ~OrderAcknowledged /\ ~(OrderAsked /\ toLisp # <<[t |-> "refused"]>>) /\ ~OrderAsked
    BY <1>12, <2>2, <2>3 DEF OrderAsked, OrderAcknowledged
  <2>5. ClosePhase
    BY <1>3, <2>2, <2>4 DEF PhaseInv, InCall
  <2>6. \/ lisp.pc = "asked" /\ toLisp = <<Granted, Done>>
        \/ lisp.pc = "acknowledge" /\ toLisp = <<Done>>
        \/ lisp.pc = "closed" /\ toLisp = <<>>
    BY <1>12, <2>3, <2>5 DEF ClosePhase
  <2>7. \/ lisp.pc = "asked" /\ toLisp' = <<Granted, Done, Closed>>
        \/ lisp.pc = "acknowledge" /\ toLisp' = <<Done, Closed>>
        \/ lisp.pc = "closed" /\ toLisp' = <<Closed>>
    <3>1. toLisp' = Append(toLisp, Closed)
      BY <1>1, <1>14
    <3>2. /\ Append(<<Granted, Done>>, Closed) = <<Granted, Done, Closed>>
          /\ Append(<<Done>>, Closed) = <<Done, Closed>> /\ Append(<<>>, Closed) = <<Closed>>
      BY ShortJoins
    <3> QED
      BY <2>6, <3>1, <3>2
  <2>8. Forgotten(lisp.vp)'
    BY <1>1, <1>4, <1>9, <2>1, <2>2 DEF Forgotten
  <2>9. ClosePhase'
    BY <1>1, <1>4, <2>2, <2>7, <2>8 DEF ClosePhase, Granted, Done, Closed
  <2>10. PhaseInv'
    BY <1>1, <1>3, <1>9, <2>2, <2>7, <2>9 DEF PhaseInv, InCall
  <2> QED
    BY <1>7, <1>8, <1>10, <1>11, <2>10 DEF SyncInv
<1>15. CASE w \notin manager.closing
  <2>1. Unborn(Viewport2D)' = Unborn(Viewport2D) /\ Unborn(Viewport3D)' = Unborn(Viewport3D)
    <3>1. \A e \in Viewport : child'[e].pc = "none" <=> child[e].pc = "none"
      BY <1>5 DEF Ended, Gone
    <3> QED
      BY <3>1, Basics DEF Unborn
  <2>2. StillThere(lisp.vp) => StillThere(lisp.vp)'
    BY <1>4, <1>9, <1>1, <1>15 DEF StillThere, Waiting
  <2>3. PhaseInv'
    BY <1>1, <1>3, <1>4, <1>6, <1>13, <1>15, <2>1, <2>2, PhaseFree
  <2> QED
    BY <1>7, <1>8, <1>10, <1>11, <2>3 DEF SyncInv
<1> QED
  BY <1>14, <1>15

(* A viewport that is closed is taken from the list. *)
LEMMA ListShrinks ==
  ASSUME NEW vs \in Seq(Viewport), NEW n \in DOMAIN vs, \A i, j \in DOMAIN vs : vs[i] = vs[j] => i = j
  PROVE  /\ RemoveAt(vs, n) \in Seq(Viewport)
         /\ \A i, j \in DOMAIN RemoveAt(vs, n) : RemoveAt(vs, n)[i] = RemoveAt(vs, n)[j] => i = j
         /\ {RemoveAt(vs, n)[i] : i \in DOMAIN RemoveAt(vs, n)} = {vs[i] : i \in DOMAIN vs} \ {vs[n]}
<1> DEFINE m == Len(vs)
           a == SubSeq(vs, 1, n - 1)
           b == SubSeq(vs, n + 1, m)
           ws == RemoveAt(vs, n)
<1>1. m \in Nat /\ DOMAIN vs = 1 .. m /\ n \in 1 .. m /\ \A i \in 1 .. m : vs[i] \in Viewport
  OBVIOUS
<1>2. /\ a \in Seq(Viewport) /\ Len(a) = n - 1 /\ \A i \in 1 .. n - 1 : a[i] = vs[i]
  BY <1>1
<1>3. /\ b \in Seq(Viewport) /\ Len(b) = m - n /\ \A i \in 1 .. m - n : b[i] = vs[n + i]
  BY <1>1
<1>4. ws = a \o b
  BY DEF RemoveAt
<1> HIDE DEF a, b, ws
<1>5. /\ ws \in Seq(Viewport) /\ DOMAIN ws = 1 .. m - 1
      /\ \A i \in 1 .. n - 1 : ws[i] = a[i]
      /\ \A i \in n .. m - 1 : ws[i] = b[i - (n - 1)]
  <2>1. /\ ws \in Seq(Viewport) /\ Len(ws) = Len(a) + Len(b) /\ DOMAIN ws = 1 .. Len(ws)
        /\ \A i \in 1 .. Len(a) + Len(b) : ws[i] = IF i <= Len(a) THEN a[i] ELSE b[i - Len(a)]
    <3>1. a \in Seq(Viewport) /\ b \in Seq(Viewport)
      BY <1>2, <1>3
    <3>2. /\ a \o b \in Seq(Viewport) /\ Len(a \o b) = Len(a) + Len(b) /\ DOMAIN (a \o b) = 1 .. Len(a \o b)
          /\ \A i \in 1 .. Len(a) + Len(b) : (a \o b)[i] = IF i <= Len(a) THEN a[i] ELSE b[i - Len(a)]
      BY <3>1
    <3> QED
      BY <1>4, <3>2
  <2>2. Len(a) + Len(b) = m - 1
    BY <1>1, <1>2, <1>3
  <2>3. ASSUME NEW i \in 1 .. n - 1
        PROVE  i \in 1 .. Len(a) + Len(b) /\ i <= Len(a)
    BY <1>1, <1>2, <2>2
  <2>4. ASSUME NEW i \in n .. m - 1
        PROVE  i \in 1 .. Len(a) + Len(b) /\ ~(i <= Len(a))
    BY <1>1, <1>2, <2>2
  <2> QED
    BY <1>2, <2>1, <2>2, <2>3, <2>4
<1>6. /\ \A i \in DOMAIN ws : i < n => ws[i] = vs[i] /\ i \in DOMAIN vs /\ i # n
      /\ \A i \in DOMAIN ws : i >= n => ws[i] = vs[i + 1] /\ i + 1 \in DOMAIN vs /\ i + 1 # n
  <2>1. ASSUME NEW i \in DOMAIN ws, i < n
        PROVE  ws[i] = vs[i] /\ i \in DOMAIN vs /\ i # n
    BY <1>1, <1>2, <1>5, <2>1
  <2>2. ASSUME NEW i \in DOMAIN ws, i >= n
        PROVE  ws[i] = vs[i + 1] /\ i + 1 \in DOMAIN vs /\ i + 1 # n
    <3>1. i - (n - 1) \in 1 .. m - n /\ i \in n .. m - 1 /\ n + (i - (n - 1)) = i + 1
      BY <1>1, <1>5, <2>2
    <3>2. b[i - (n - 1)] = vs[i + 1]
      BY <1>3, <3>1
    <3> QED
      BY <1>1, <1>5, <2>2, <3>1, <3>2
  <2> QED
    BY <2>1, <2>2
<1>7. DOMAIN ws \subseteq Int /\ n \in Int
  BY <1>1, <1>5
<1>8. ASSUME NEW i \in DOMAIN ws, NEW j \in DOMAIN ws, ws[i] = ws[j]
      PROVE  i = j
  <2>1. PICK p \in DOMAIN vs : ws[i] = vs[p] /\ p = IF i < n THEN i ELSE i + 1
    BY <1>6, <1>7
  <2>2. PICK q \in DOMAIN vs : ws[j] = vs[q] /\ q = IF j < n THEN j ELSE j + 1
    BY <1>6, <1>7
  <2>3. p = q
    BY <1>8, <2>1, <2>2
  <2> QED
    BY <1>7, <2>1, <2>2, <2>3
<1>9. {ws[i] : i \in DOMAIN ws} = {vs[i] : i \in DOMAIN vs} \ {vs[n]}
  <2>1. ASSUME NEW i \in DOMAIN ws
        PROVE  \E j \in DOMAIN vs : ws[i] = vs[j] /\ ws[i] # vs[n]
    <3>1. PICK p \in DOMAIN vs : ws[i] = vs[p] /\ p # n
      BY <1>6, <1>7
    <3> QED
      BY <3>1
  <2>2. ASSUME NEW j \in DOMAIN vs, vs[j] # vs[n]
        PROVE  \E i \in DOMAIN ws : ws[i] = vs[j]
    <3>1. j # n /\ j \in 1 .. m
      BY <1>1, <2>2
    <3>2. CASE j < n
      <4>1. j \in DOMAIN ws
        BY <1>1, <1>5, <3>1, <3>2
      <4> QED
        BY <1>6, <3>2, <4>1
    <3>3. CASE j > n
      <4>1. j - 1 \in DOMAIN ws /\ j - 1 >= n /\ (j - 1) + 1 = j
        BY <1>1, <1>5, <3>1, <3>3
      <4>2. ws[j - 1] = vs[(j - 1) + 1]
        BY <1>6, <4>1
      <4> QED
        BY <4>1, <4>2
    <3> QED
      BY <1>1, <3>1, <3>2, <3>3
  <2> QED
    BY <2>1, <2>2
<1> QED
  BY <1>5, <1>8, <1>9 DEF ws

(* A graph loses as many views as the closing viewport hands back, and is discarded with the last. *)
LEMMA RemovedFacts ==
  ASSUME Types, NEW c \in Viewport, NEW keys \in Slots \cup {<<>>}, NEW end \in {"no", "ever"}, NEW k \in Key,
         NEW g, g = RemoveViews(c, keys, end)[k]
  PROVE  /\ g \in GraphRecords /\ \A e \in Viewport \ {c} : g.views[e] = graphList[k].views[e]
         /\ Count(keys, k) \in Nat
         /\ Count(keys, k) = 0 \/ graphList[k].listed = "no" => g = graphList[k]
         /\ graphList[k].views[c] > Count(keys, k) =>
              g.views[c] > 0 /\ (graphList[k].listed # "no" => g.views[c] = graphList[k].views[c] - Count(keys, k))
         /\ graphList[k].listed = "ever" => g.listed = "ever"
         /\ graphList[k].listed = "yes" /\ (\E e \in Viewport : g.views[e] # 0) => g.listed = "yes"
<1> DEFINE n == Count(keys, k)
           r == graphList[k]
           v == IF r.views[c] > n THEN r.views[c] - n ELSE 0
           left == [r EXCEPT !.views[c] = v]
<1>1. r \in GraphRecords /\ r.views \in [Viewport -> Nat] /\ r.views[c] \in Nat
      /\ r.listed \in {"no", "yes", "ever"}
  <2>1. r \in GraphRecords
    BY DEF Types
  <2> QED
    BY <2>1 DEF GraphRecords
<1>2. n \in Nat
  BY CountType, CountNone
<1>3. g = IF n = 0 \/ r.listed = "no" THEN r
          ELSE IF r.listed = "yes" /\ \A d \in Viewport : left.views[d] = 0
               THEN [left EXCEPT !.listed = end] ELSE left
  BY DEF RemoveViews
<1> HIDE DEF n, r
<1>4. v \in Nat /\ (r.views[c] > n => v = r.views[c] - n /\ v > 0)
  BY <1>1, <1>2
<1> HIDE DEF v
<1>5. left = [r EXCEPT !.views = [r.views EXCEPT ![c] = v]]
  OBVIOUS
<1>6. [r.views EXCEPT ![c] = v] \in [Viewport -> Nat]
  BY <1>1, <1>4
<1>7. /\ left \in GraphRecords /\ left.listed = r.listed /\ left.views = [r.views EXCEPT ![c] = v]
  BY <1>1, <1>5, <1>6 DEF GraphRecords
<1> HIDE DEF left
<1>8. left.views[c] = v /\ \A e \in Viewport \ {c} : left.views[e] = r.views[e]
  BY <1>1, <1>7
<1>9. CASE n = 0 \/ r.listed = "no"
  <2>1. g = r
    BY <1>3, <1>9
  <2> QED
    BY <1>1, <1>2, <1>9, <2>1 DEF n, r
<1>10. CASE ~(n = 0 \/ r.listed = "no") /\ r.listed = "yes" /\ \A d \in Viewport : left.views[d] = 0
  <2>1. g = [left EXCEPT !.listed = end]
    BY <1>3, <1>10
  <2>2. g \in GraphRecords /\ g.views = left.views
    BY <1>7, <2>1 DEF GraphRecords
  <2>3. ~(r.views[c] > n)
    BY <1>4, <1>8, <1>10
  <2> QED
    BY <1>2, <1>8, <1>10, <2>2, <2>3 DEF n, r
<1>11. CASE ~(n = 0 \/ r.listed = "no") /\ ~(r.listed = "yes" /\ \A d \in Viewport : left.views[d] = 0)
  <2>1. g = left
    BY <1>3, <1>11
  <2> QED
    BY <1>1, <1>2, <1>4, <1>7, <1>8, <1>11, <2>1 DEF n, r
<1> QED
  BY <1>9, <1>10, <1>11

(* A program that says goodbye, or is gone without a word. *)
LEMMA ClosingFacts ==
  ASSUME SyncInv, NEW c \in Viewport, ReadClosing(c)
  PROVE  /\ inSync' = TRUE /\ child[c].pc \in Gone \cup {"exiting"} /\ down[c] = <<>>
         /\ \/ /\ up[c] # <<>> /\ Among(up[c], "viewportClosing")
               /\ \E end \in {"no", "ever"} : graphList' = RemoveViews(c, ByeItem(c, child[c]).keys, end)
            \/ up[c] = <<>> /\ graphList' = graphList
<1>1. /\ At("serve") /\ Served(c) /\ ~Says(c, "pick2D") /\ ~Says(c, "drop2D")
      /\ inSync' = (Eof(c) \/ Says(c, "viewportClosing"))
      /\ \E end \in {"no", "ever"} :
            graphList' = IF Says(c, "viewportClosing") THEN RemoveViews(c, Head(up[c]).keys, end) ELSE graphList
  BY DEF ReadClosing
<1>2. /\ manager.pc = "serve" /\ c \in manager.ready /\ up[c] \in Seq(UpItems) /\ child[c] \in Programs
      /\ Link(c, "free", lisp.cmd, ArgKey, child[c], up[c], down[c])
  BY <1>1, ServedFacts
<1>3. Placed(c)
  BY ManagerFacts DEF PlacesInv
<1>4. CASE up[c] # <<>>
  <2>1. Head(up[c]) = up[c][1] /\ up[c][1] \in UpItems /\ 1 \in DOMAIN up[c]
    BY <1>2, <1>4, TailElems
  <2>2. up[c][1].t \in {"ready", "window", "ack", "drop2D", "pick2D", "viewportClosing"}
    BY <2>1 DEF UpItems
  <2>3. up[c][1].t \notin {"ready", "window", "ack"}
    BY <1>2, <2>1 DEF Link, Words
  <2>4. up[c][1].t = "viewportClosing"
    BY <1>1, <1>4, <2>1, <2>2, <2>3 DEF Says
  <2>5. up[c][1] = ByeItem(c, child[c]) /\ child[c].pc \in Gone \cup {"exiting"}
    BY <1>2, <2>1, <2>4 DEF Link, Words
  <2>6. Says(c, "viewportClosing") /\ Among(up[c], "viewportClosing")
    BY <1>4, <2>1, <2>4 DEF Says, Among
  <2>7. down[c] = <<>>
    BY <1>2, <2>5 DEF Link, Heard
  <2> QED
    BY <1>1, <1>4, <2>1, <2>5, <2>6, <2>7
<1>5. CASE up[c] = <<>>
  <2>1. child[c].pc \in Gone
    BY <1>2, <1>3, <1>5 DEF Placed
  <2>2. Eof(c) /\ ~Says(c, "viewportClosing")
    BY <1>5, <2>1 DEF Eof, Says
  <2>3. down[c] = <<>>
    BY <1>2, <2>1 DEF Link, Heard
  <2> QED
    BY <1>1, <1>5, <2>1, <2>2, <2>3
<1> QED
  BY <1>4, <1>5

(* What the other viewports hold is left to them, and so are the graphs that were picked up or promised. *)
LEMMA ClosingKeepsGraphs ==
  ASSUME SyncInv, NEW c \in Viewport, ReadClosing(c), UNCHANGED <<lisp, child, down>>,
         up' = [up EXCEPT ![c] = <<>>]
  PROVE  /\ graphList' \in [Key -> GraphRecords]
         /\ \A k \in Key : graphList[k].listed = "no" => graphList'[k].listed = "no"
         /\ \A e \in Viewport2D, k \in Key : KeptIn(e, k)'
         /\ \A k \in Key : Secure(k) => Secure(k)'
         /\ \A k \in Key : Unseen(k) => Unseen(k)'
<1>1. /\ child[c].pc \in Gone \cup {"exiting"} /\ down[c] = <<>>
      /\ \/ /\ up[c] # <<>> /\ Among(up[c], "viewportClosing")
            /\ \E end \in {"no", "ever"} : graphList' = RemoveViews(c, ByeItem(c, child[c]).keys, end)
         \/ up[c] = <<>> /\ graphList' = graphList
  BY ClosingFacts
<1>2. /\ Types /\ KeptInv /\ graphList \in [Key -> GraphRecords] /\ up \in [Viewport -> Seq(UpItems)]
      /\ child[c] \in Programs
  BY ManagerFacts
<1>3. up'[c] = <<>> /\ \A e \in Viewport \ {c} : up'[e] = up[e]
  BY <1>2
<1>4. ~Among(up'[c], "viewportClosing") /\ child[c].pc \notin Up \cup {"data"}
  BY <1>1, <1>3, EmptyElems DEF Among, Up, Gone
<1>5. \A e : Closing(e)' = Closing(e)
  BY DEF Closing, Target, InCall
<1>6. ASSUME NEW e \in Viewport, e # c
      PROVE  Leaving(e, child[e], up[e])' = Leaving(e, child[e], up[e])
  BY <1>3, <1>5, <1>6 DEF Leaving
<1>7. ~Leaving(c, child[c], up[c])'
  BY <1>4 DEF Leaving
<1>8. \A k \in Key : Coming(down[c], k) = 0
  BY <1>1, ComingNone
<1>9. CASE graphList' = graphList /\ up[c] = <<>>
  <2>1. up' = up
    BY <1>2, <1>9
  <2>2. \A e \in Viewport2D, k \in Key : KeptIn(e, k)' /\ (Anchor(e, k) => Anchor(e, k)')
    BY <1>2, <1>5, <1>9, <2>1 DEF KeptInv, KeptIn, Anchor, Leaving
  <2> QED
    BY <1>2, <1>9, <2>2 DEF Secure, Unseen
<1>10. CASE up[c] # <<>> /\ Among(up[c], "viewportClosing")
             /\ \E end \in {"no", "ever"} : graphList' = RemoveViews(c, ByeItem(c, child[c]).keys, end)
  <2> DEFINE keys == ByeItem(c, child[c]).keys
  <2>1. PICK end \in {"no", "ever"} : graphList' = RemoveViews(c, keys, end)
    BY <1>10
  <2>2. /\ keys \in Slots \cup {<<>>}
        /\ c \in Viewport2D => \A k : Count(keys, k) = Holding(child[c], k)
        /\ c \notin Viewport2D => keys = <<>>
    BY <1>2 DEF ByeItem, Programs, Holding
  <2> HIDE DEF keys
  <2>3. ASSUME NEW k \in Key
        PROVE  /\ graphList'[k] \in GraphRecords
               /\ \A e \in Viewport \ {c} : graphList'[k].views[e] = graphList[k].views[e]
               /\ Count(keys, k) \in Nat
               /\ Count(keys, k) = 0 \/ graphList[k].listed = "no" => graphList'[k] = graphList[k]
               /\ graphList[k].views[c] > Count(keys, k) =>
                    /\ graphList'[k].views[c] > 0
                    /\ graphList[k].listed # "no" => graphList'[k].views[c] = graphList[k].views[c] - Count(keys, k)
               /\ graphList[k].listed = "ever" => graphList'[k].listed = "ever"
               /\ graphList[k].listed = "yes" /\ (\E e \in Viewport : graphList'[k].views[e] # 0) =>
                    graphList'[k].listed = "yes"
    <3>1. graphList'[k] = RemoveViews(c, keys, end)[k]
      BY <2>1
    <3> QED
      BY <1>2, <2>2, <3>1, RemovedFacts
  <2>4. graphList' \in [Key -> GraphRecords]
    <3>1. graphList' = [k \in Key |-> graphList'[k]]
      BY <2>1 DEF RemoveViews
    <3> QED
      BY <2>3, <3>1
  <2>5. ASSUME NEW e \in Viewport2D, NEW k \in Key
        PROVE  KeptIn(e, k)'
    <3>1. KeptIn(e, k) /\ e \in Viewport
      BY <1>2, Basics DEF KeptInv
    <3>2. CASE e = c
      BY <1>4, <3>2 DEF KeptIn, Kept
    <3>3. CASE e # c
      <4>1. graphList'[k].views[e] = graphList[k].views[e] /\ up'[e] = up[e]
        BY <1>3, <2>3, <3>1, <3>3
      <4>2. graphList[k].views[e] \in Nat /\ graphList[k].listed \in {"no", "yes", "ever"}
        BY <1>2, <3>1, ViewsType
      <4>3. graphList[k].listed # "no" /\ graphList[k].views[e] > 0 => graphList'[k].listed # "no"
        BY <2>3, <3>1, <4>1, <4>2
      <4>4. /\ Holding(child[e], k) \in Nat /\ Coming(down[e], k) \in Nat
            /\ \A s \in Slots : Count(s, k) \in Nat
        <5>1. Holding(child[e], k) \in Nat
          BY <1>2, <3>1, ViewsType
        <5>2. Coming(down[e], k) \in Nat
          BY ComingType
        <5>3. \A s \in Slots : Count(s, k) \in Nat
          BY CountType
        <5> QED
          BY <5>1, <5>2, <5>3
      <4> QED
        BY <3>1, <4>1, <4>2, <4>3, <4>4 DEF KeptIn, Kept
    <3> QED
      BY <3>2, <3>3
  <2>6. ASSUME NEW e \in Viewport2D, NEW k \in Key, Anchor(e, k), graphList[k].listed = "yes"
        PROVE  Anchor(e, k)' /\ graphList'[k].listed = "yes"
    <3>1. /\ e \in Viewport /\ graphList[k].views[e] \in Nat /\ Holding(child[e], k) \in Nat
          /\ Coming(down[e], k) \in Nat
      <4>1. e \in Viewport /\ graphList[k].views[e] \in Nat /\ Holding(child[e], k) \in Nat
        BY <1>2, Basics, ViewsType
      <4>2. Coming(down[e], k) \in Nat
        BY ComingType
      <4> QED
        BY <4>1, <4>2
    <3>2. CASE e # c
      <4>1. graphList'[k].views[e] = graphList[k].views[e] /\ graphList[k].views[e] > 0
        BY <2>3, <2>6, <3>1, <3>2 DEF Anchor, Spare
      <4>2. graphList'[k].listed = "yes"
        BY <2>3, <2>6, <3>1, <4>1
      <4>3. Anchor(e, k)'
        BY <1>6, <2>6, <3>1, <3>2, <4>1 DEF Anchor, Spare
      <4> QED
        BY <4>2, <4>3
    <3>3. CASE e = c
      <4>1. Leaving(c, child[c], up[c])
        BY <1>10 DEF Leaving
      <4>2. graphList[k].views[c] > Count(keys, k)
        BY <1>8, <2>2, <2>6, <3>1, <3>3, <4>1 DEF Anchor, Spare
      <4>3. graphList'[k].views[c] > 0
        BY <2>3, <4>2
      <4>4. graphList'[k].views[c] # 0
        BY <4>3
      <4>5. graphList'[k].listed = "yes"
        BY <2>3, <2>6, <4>4
      <4>6. Anchor(c, k)'
        BY <1>7, <1>8, <4>3 DEF Anchor, Spare
      <4> QED
        BY <3>3, <4>5, <4>6
    <3> QED
      BY <3>2, <3>3
  <2>7. ASSUME NEW k \in Key, Secure(k)
        PROVE  Secure(k)'
    BY <2>3, <2>6, <2>7 DEF Secure
  <2>8. ASSUME NEW k \in Key, Unseen(k)
        PROVE  Unseen(k)'
    <3>1. graphList[k].listed = "yes" /\ \A e \in Viewport : graphList[k].views[e] = 0
      BY <2>8 DEF Unseen
    <3>2. Count(keys, k) = 0
      <4>1. CASE c \in Viewport2D
        <5>1. KeptIn(c, k)
          BY <1>2, <4>1 DEF KeptInv
        <5>2. graphList[k].views[c] >= Holding(child[c], k) + Coming(down[c], k)
          BY <1>10, <5>1 DEF KeptIn, Kept
        <5>3. Holding(child[c], k) \in Nat /\ Coming(down[c], k) = 0
          BY <1>2, <1>8, ViewsType
        <5> QED
          BY <2>2, <3>1, <4>1, <5>2, <5>3
      <4>2. CASE c \notin Viewport2D
        BY <2>2, <4>2, CountNone
      <4> QED
        BY <4>1, <4>2
    <3>3. graphList'[k] = graphList[k]
      BY <2>3, <3>2
    <3> QED
      BY <3>1, <3>3 DEF Unseen
  <2> QED
    BY <2>3, <2>4, <2>5, <2>7, <2>8
<1> QED
  BY <1>1, <1>9, <1>10

LEMMA ReadClosingKeepsInv ==
  ASSUME SyncInv, NEW c \in Viewport, ReadClosing(c)
  PROVE  SyncInv'
<1>1. /\ At("serve") /\ Served(c) /\ viewports' = Without(c) /\ up' = [up EXCEPT ![c] = <<>>]
      /\ manager' = [manager EXCEPT !.pc = "wait", !.ready = {}, !.slot = c]
      /\ UNCHANGED <<picked, child, toManager, toLisp, down>>
  BY DEF ReadClosing
<1>2. /\ manager.pc = "serve" /\ Free /\ c \in Listed /\ (\A e : Role(e) = "free")
      /\ UNCHANGED <<lisp, known, sent>>
  BY <1>1, ServedFacts
<1>3. /\ Types /\ PhaseInv /\ ManagerInv /\ LinksInv /\ PlacesInv /\ PickInv /\ PromiseInv
      /\ manager \in ManagerStates /\ up \in [Viewport -> Seq(UpItems)] /\ viewports \in Seq(Viewport)
      /\ Listed \subseteq Viewport
  BY ManagerFacts
<1>4. inSync' = TRUE /\ child[c].pc \in Gone \cup {"exiting"} /\ down[c] = <<>>
  BY ClosingFacts
<1>5. /\ graphList' \in [Key -> GraphRecords]
      /\ \A k \in Key : graphList[k].listed = "no" => graphList'[k].listed = "no"
      /\ \A e \in Viewport2D, k \in Key : KeptIn(e, k)'
      /\ \A k \in Key : Secure(k) => Secure(k)'
      /\ \A k \in Key : Unseen(k) => Unseen(k)'
  BY <1>1, <1>2, ClosingKeepsGraphs
<1>6. /\ viewports' \in Seq(Viewport)
      /\ \A i, j \in DOMAIN viewports' : viewports'[i] = viewports'[j] => i = j
      /\ Listed' = Listed \ {c}
  <2>1. PICK n : n = CHOOSE i \in DOMAIN viewports : viewports[i] = c
    OBVIOUS
  <2>2. n \in DOMAIN viewports /\ viewports[n] = c
    BY <1>2, <2>1 DEF Listed
  <2> DEFINE ws == RemoveAt(viewports, n)
  <2>3. /\ ws \in Seq(Viewport) /\ (\A i, j \in DOMAIN ws : ws[i] = ws[j] => i = j)
        /\ {ws[i] : i \in DOMAIN ws} = {viewports[i] : i \in DOMAIN viewports} \ {viewports[n]}
    <3>1. \A i, j \in DOMAIN viewports : viewports[i] = viewports[j] => i = j
      BY <1>3 DEF Types
    <3> QED
      BY <1>3, <2>2, <3>1, ListShrinks
  <2> HIDE DEF ws
  <2>4. viewports' = ws
    BY <1>1, <2>1 DEF Without, ws
  <2> QED
    BY <2>2, <2>3, <2>4 DEF Listed
<1>7. /\ manager' \in ManagerStates /\ manager'.pc = "wait" /\ manager'.slot = c
      /\ manager'.closing = manager.closing /\ manager'.graphKey = manager.graphKey
  BY <1>1, <1>3 DEF ManagerStates
<1>8. /\ Free' /\ (\A e : Role(e)' = "free") /\ (\A e : ~Waiting(e)) /\ (\A e : Waiting(e)' <=> e = c)
  BY <1>2, <1>7 DEF Free, Role, Waiting
<1>9. ArgKey' = ArgKey /\ Promised' = Promised /\ \A e : Target(e)' = Target(e) /\ Closing(e)' = Closing(e)
  BY <1>1, <1>2 DEF ArgKey, Promised, Closing, Target, InCall
<1>10. /\ up' \in [Viewport -> Seq(UpItems)] /\ up'[c] = <<>> /\ \A e \in Viewport \ {c} : up'[e] = up[e]
  BY <1>1, <1>3, EmptyElems
<1>11. Types'
  BY <1>1, <1>2, <1>3, <1>4, <1>5, <1>6, <1>7, <1>10 DEF Types
<1>12. PhaseInv'
  <2>1. Unborn(Viewport2D)' = Unborn(Viewport2D) /\ Unborn(Viewport3D)' = Unborn(Viewport3D)
    BY <1>1 DEF Unborn
  <2>2. Forgotten(lisp.vp) => Forgotten(lisp.vp)'
    BY <1>2, <1>6, <1>8 DEF Forgotten
  <2>3. StillThere(lisp.vp) => StillThere(lisp.vp)'
    BY <1>2, <1>6, <1>7, <1>8 DEF StillThere
  <2> QED
    BY <1>1, <1>2, <1>3, <1>7, <1>8, <2>1, <2>2, <2>3, PhaseFree
<1>13. ManagerInv'
  <2>1. \A e : e \in Listed' \/ Waiting(e)' => e \in Listed
    BY <1>2, <1>6, <1>8
  <2> QED
    BY <1>1, <1>3, <1>5, <1>6, <1>7, <1>9, <2>1 DEF ManagerInv
<1>14. LinksInv'
  <2> SUFFICES ASSUME NEW e \in Viewport
               PROVE  LinkOf(e)'
    BY DEF LinksInv
  <2>1. CASE e = c
    <3>1. Link(c, "free", lisp.cmd, ArgKey, child[c], <<>>, <<>>)
      BY <1>4, LinkGone
    <3> QED
      BY <1>1, <1>2, <1>4, <1>8, <1>9, <1>10, <2>1, <3>1 DEF LinkOf
  <2>2. CASE e # c
    <3>1. LinkOf(e) /\ up'[e] = up[e]
      BY <1>3, <1>10, <2>2 DEF LinksInv
    <3> QED
      BY <1>1, <1>2, <1>8, <1>9, <3>1 DEF LinkOf
  <2> QED
    BY <2>1, <2>2
<1>15. PlacesInv'
  <2> SUFFICES ASSUME NEW e \in Viewport
               PROVE  Placed(e)'
    BY DEF PlacesInv
  <2>1. Placed(e)
    BY <1>3 DEF PlacesInv
  <2>2. e \in Listed' => e # c /\ e \in Listed /\ up'[e] = up[e]
    BY <1>6, <1>10
  <2> QED
    BY <1>1, <1>2, <1>7, <1>9, <2>1, <2>2 DEF Placed
<1>16. PickInv'
  <2> SUFFICES ASSUME NEW k \in Key, PickedUp(k)'
               PROVE  Secure(k)'
    BY DEF PickInv
  <2>1. ~Picks(<<>>, k)
    BY EmptyElems DEF Picks
  <2>2. ASSUME NEW e \in Viewport, Picks(up'[e], k)
        PROVE  Picks(up[e], k)
    <3>1. e # c
      BY <1>10, <2>1, <2>2
    <3> QED
      BY <1>10, <2>2, <3>1
  <2>3. PickedUp(k)
    BY <1>1, <2>2 DEF PickedUp
  <2> QED
    BY <1>3, <1>5, <2>3 DEF PickInv
<1>17. PromiseInv'
  BY <1>1, <1>2, <1>3, <1>5, <1>9 DEF PromiseInv
<1>18. KeptInv'
  BY <1>5 DEF KeptInv
<1> QED
  BY <1>11, <1>12, <1>13, <1>14, <1>15, <1>16, <1>17, <1>18 DEF SyncInv

-----------------------------------------------------------------------------
(* The start. *)

LEMMA FirstViewports ==
  ASSUME Init
  PROVE  /\ viewports \in Seq(Viewport) /\ Listed \subseteq Shown
         /\ \A i, j \in DOMAIN viewports : viewports[i] = viewports[j] => i = j
<1>1. Shown \subseteq Viewport2D /\ IsFiniteSet(Viewport2D) /\ Viewport2D \subseteq Viewport
  BY ViewportsAssumption, Basics
<1>2. Cardinality(Shown) \in Nat
  BY <1>1, FS_Subset, FS_CardinalityType
<1> DEFINE D == 1 .. Cardinality(Shown)
<1>3. viewports \in [D -> Shown] /\ \A i, j \in D : i # j => viewports[i] # viewports[j]
  BY DEF Init, SetToSeqs
<1>4. DOMAIN viewports = D
  BY <1>3
<1>5. viewports \in Seq(Shown)
  BY <1>2, <1>3
<1>6. viewports \in Seq(Viewport)
  BY <1>1, <1>5
<1> HIDE DEF D
<1> QED
  BY <1>3, <1>4, <1>6 DEF Listed

(* A viewport that is open at first shows the first graph once. *)
LEMMA FirstGraphs ==
  ASSUME Init
  PROVE  /\ graphList \in [Key -> GraphRecords] /\ child \in [Viewport -> Programs]
         /\ \A k \in Key : k >= manager.graphKey => graphList[k].listed = "no"
         /\ \A c \in Viewport : child[c].pc = IF c \in Shown THEN "loop" ELSE "none"
         /\ \A c \in Viewport : child[c].doit = "none"
         /\ \A c \in Viewport, k \in Key : c \in Shown /\ k = 1 =>
               graphList[k].listed = "yes" /\ graphList[k].views[c] = 1 /\ Holding(child[c], k) <= 1
         /\ \A c \in Viewport, k \in Key : c \in Shown /\ k # 1 => Holding(child[c], k) = 0
<1>1. /\ Shown \subseteq Viewport2D /\ (Shown # {} => 1 \in Key) /\ 1 \in Slot /\ Key \subseteq Nat
  BY ViewportsAssumption, Basics DEF Slot
<1>2. /\ graphList = [k \in Key |-> IF k \in sent
                                    THEN [listed |-> "yes",
                                          views |-> [c \in Viewport |-> IF c \in Shown THEN 1 ELSE 0]]
                                    ELSE [listed |-> "no", views |-> [c \in Viewport |-> 0]]]
      /\ child = [c \in Viewport |->
                    IF c \in Shown
                    THEN [pc |-> "loop", doit |-> "none", currentGraph |-> 0, slots |-> [Empty EXCEPT ![1] = 1]]
                    ELSE [pc |-> "none", doit |-> "none", currentGraph |-> 0, slots |-> Empty]]
      /\ sent = (IF Shown = {} THEN {} ELSE {1})
      /\ manager.graphKey = (IF Shown = {} THEN 1 ELSE 2)
  BY DEF Init
<1>3. graphList \in [Key -> GraphRecords]
  <2>1. \A k \in Key : graphList[k] \in GraphRecords
    BY <1>2 DEF GraphRecords
  <2> QED
    BY <1>2, <2>1
<1>4. \A k \in Key : k >= manager.graphKey => graphList[k].listed = "no"
  <2>1. \A k \in Key : k >= manager.graphKey => k \notin sent
    BY <1>1, <1>2
  <2> QED
    BY <1>2, <2>1
<1>5. child \in [Viewport -> Programs]
  <2>1. ASSUME NEW c \in Viewport
        PROVE  child[c] \in Programs
    <3>1. c \in Shown => [Empty EXCEPT ![1] = 1] \in Slots
      BY <1>1, Basics DEF Slots
    <3>2. Empty \in Slots /\ "loop" \in Up
      BY Basics DEF Up
    <3> QED
      BY <1>2, <3>1, <3>2 DEF Programs
  <2> QED
    BY <1>2, <2>1
<1>6. \A c \in Viewport : child[c].pc = (IF c \in Shown THEN "loop" ELSE "none") /\ child[c].doit = "none"
  BY <1>2
<1>7. ASSUME NEW c \in Viewport, NEW k \in Key, c \in Shown
      PROVE  /\ k = 1 => graphList[k].listed = "yes" /\ graphList[k].views[c] = 1 /\ Holding(child[c], k) <= 1
             /\ k # 1 => Holding(child[c], k) = 0
  <2>1. k = 1 => graphList[k].listed = "yes" /\ graphList[k].views[c] = 1
    BY <1>2, <1>7
  <2> DEFINE s == [Empty EXCEPT ![1] = 1]
  <2>2. child[c].slots = s
    BY <1>2, <1>7
  <2>3. Count(s, k) <= Count(Empty, k) + (IF 1 = k THEN 1 ELSE 0)
    BY <1>1, <1>7, Basics, CountPut
  <2>4. Count(Empty, k) = 0
    BY CountNone
  <2>5. s \in Slots
    BY <1>1, <1>7, Basics DEF Slots
  <2>6. Count(s, k) \in Nat
    BY <2>5, CountType
  <2> HIDE DEF s
  <2>7. Count(s, k) <= (IF 1 = k THEN 1 ELSE 0)
    BY <2>3, <2>4
  <2> QED
    BY <2>1, <2>2, <2>6, <2>7 DEF Holding
<1> QED
  BY <1>3, <1>4, <1>5, <1>6, <1>7

LEMMA InitSyncInv ==
  ASSUME Init
  PROVE  SyncInv
<1>1. /\ lisp = [pc |-> "idle", vp |-> 0, cmd |-> "none", keys |-> {}]
      /\ known = Shown /\ sent = (IF Shown = {} THEN {} ELSE {1})
      /\ manager = [pc |-> "select", ready |-> {}, slot |-> 0, cmd |-> "none",
                    closing |-> {}, graphKey |-> IF Shown = {} THEN 1 ELSE 2]
      /\ picked = 0 /\ toManager = <<>> /\ toLisp = <<>> /\ inSync = TRUE
      /\ down = [c \in Viewport |-> <<>>] /\ up = [c \in Viewport |-> <<>>]
  BY DEF Init
<1>2. /\ viewports \in Seq(Viewport) /\ Listed \subseteq Shown
      /\ \A i, j \in DOMAIN viewports : viewports[i] = viewports[j] => i = j
  BY FirstViewports
<1>3. /\ graphList \in [Key -> GraphRecords] /\ child \in [Viewport -> Programs]
      /\ \A k \in Key : k >= manager.graphKey => graphList[k].listed = "no"
      /\ \A c \in Viewport : child[c].pc = IF c \in Shown THEN "loop" ELSE "none"
      /\ \A c \in Viewport : child[c].doit = "none"
      /\ \A c \in Viewport, k \in Key : c \in Shown /\ k = 1 =>
            graphList[k].listed = "yes" /\ graphList[k].views[c] = 1 /\ Holding(child[c], k) <= 1
      /\ \A c \in Viewport, k \in Key : c \in Shown /\ k # 1 => Holding(child[c], k) = 0
  BY FirstGraphs
<1>4. Shown \subseteq Viewport2D /\ (Shown # {} => 1 \in Key) /\ Shown \subseteq Viewport
  BY ViewportsAssumption, Basics
<1>5. Types
  <2>1. lisp \in LispStates
    BY <1>1 DEF LispStates
  <2>2. manager \in ManagerStates
    BY <1>1 DEF ManagerStates
  <2>3. sent \subseteq Key /\ known \subseteq Viewport /\ picked \in Key \cup {0}
    BY <1>1, <1>4
  <2>4. up \in [Viewport -> Seq(UpItems)] /\ down \in [Viewport -> Seq(DownItems)]
    BY <1>1, EmptyElems
  <2> QED
    BY <1>1, <1>2, <1>3, <2>1, <2>2, <2>3, <2>4 DEF Types
<1>6. /\ manager.pc = "select" /\ manager.slot = 0 /\ manager.closing = {} /\ lisp.pc = "idle" /\ lisp.keys = {}
      /\ (\A c : Role(c) = "free") /\ (\A c : ~Waiting(c) /\ ~Target(c) /\ ~Closing(c)) /\ Free /\ ~InCall
  BY <1>1 DEF Role, Waiting, Target, Closing, Free, InCall
<1>7. PhaseInv
  BY <1>1, <1>6 DEF PhaseInv
<1>8. ManagerInv
  BY <1>3, <1>6 DEF ManagerInv
<1>9. \A c \in Viewport : up[c] = <<>> /\ down[c] = <<>>
  BY <1>1
<1>10. LinksInv
  <2> SUFFICES ASSUME NEW c \in Viewport
               PROVE  LinkOf(c)
    BY DEF LinksInv
  <2>1. \A r, o, k, ch, u : r = "free" => Pending(r, o, k, ch, u) = <<>>
    BY DEF Pending
  <2>2. \A o, k, ch : ch.pc \in {"loop", "none"} => Words(c, "free", ch, <<>>)
    BY EmptyElems DEF Words
  <2>3. \A o, k, ch : ch.pc \in {"loop", "none"} => Heard("free", o, k, ch, <<>>, <<>>)
    BY <2>1 DEF Heard, Gone
  <2>4. child[c].pc \in {"loop", "none"}
    BY <1>3
  <2> QED
    BY <1>6, <1>9, <2>2, <2>3, <2>4 DEF LinkOf, Link
<1>11. PlacesInv
  <2> SUFFICES ASSUME NEW c \in Viewport
               PROVE  Placed(c)
    BY DEF PlacesInv
  <2>1. child[c].pc = "none" => c \notin Listed
    BY <1>2, <1>3
  <2>2. child[c].pc # "exiting"
    BY <1>3
  <2> QED
    BY <1>3, <1>6, <2>1, <2>2 DEF Placed
<1>12. KeptInv
  <2> SUFFICES ASSUME NEW c \in Viewport2D, NEW k \in Key
               PROVE  KeptIn(c, k)
    BY DEF KeptInv
  <2>1. c \in Viewport /\ up[c] = <<>> /\ down[c] = <<>> /\ Coming(<<>>, k) = 0
    BY <1>9, Basics, ComingNone
  <2>2. ~Among(<<>>, "viewportClosing") /\ child[c].pc # "data" /\ (child[c].pc \in Up => c \in Shown)
    BY <1>3, <2>1, EmptyElems DEF Among, Up
  <2>3. graphList[k].views[c] \in Nat /\ Holding(child[c], k) \in Nat
    BY <1>5, <2>1, ViewsType
  <2>4. c \in Shown => /\ graphList[k].views[c] >= Holding(child[c], k)
                       /\ Holding(child[c], k) > 0 => graphList[k].listed # "no"
    BY <1>3, <2>1, <2>3
  <2> QED
    BY <2>1, <2>2, <2>3, <2>4 DEF KeptIn, Kept
<1>13. PickInv
  <2>1. \A k \in Key : k # picked
    BY <1>1, Basics
  <2>2. \A k : ~Picks(<<>>, k)
    BY EmptyElems DEF Picks
  <2> QED
    BY <1>9, <2>1, <2>2 DEF PickInv, PickedUp
<1>14. PromiseInv
  BY <1>6 DEF PromiseInv, Promised
<1> QED
  BY <1>5, <1>7, <1>8, <1>10, <1>11, <1>12, <1>13, <1>14 DEF SyncInv

-----------------------------------------------------------------------------
(* All steps. *)

LEMMA LispStepKeepsInv ==
  ASSUME Careful, SyncInv, LispStep
  PROVE  SyncInv'
<1>1. CASE SendGraph
  BY <1>1, SendGraphKeepsInv
<1>2. CASE MakeViewport2D \/ MakeViewport3D
  BY <1>2, MakeViewportKeepsInv
<1>3. CASE Message \/ Update \/ Close
  BY <1>3, CallKeepsInv
<1>4. CASE GetKey
  BY <1>4, GetKeyKeepsInv
<1>5. CASE GetPID
  BY <1>5, GetPIDKeepsInv
<1>6. CASE GetRefusal
  BY <1>6, GetRefusalKeepsInv
<1>7. CASE GetGrant
  BY <1>7, GetGrantKeepsInv
<1>8. CASE GetAcknowledge
  BY <1>8, GetAcknowledgeKeepsInv
<1>9. CASE GetClosed
  BY <1>9, GetClosedKeepsInv
<1> QED
  BY <1>1, <1>2, <1>3, <1>4, <1>5, <1>6, <1>7, <1>8, <1>9 DEF LispStep

LEMMA ManagerStepKeepsInv ==
  ASSUME SyncInv, ManagerStep
  PROVE  SyncInv'
<1>1. CASE Select
  BY <1>1, SelectKeepsInv
<1>2. CASE WaitForChild
  BY <1>2, WaitForChildKeepsInv
<1>3. CASE MakeGraph
  BY <1>3, MakeGraphKeepsInv
<1>4. CASE ForkView2D \/ ForkView3D
  BY <1>4, ForkViewKeepsInv
<1>5. CASE Call
  BY <1>5, CallServedKeepsInv
<1>6. CASE ReadReady
  BY <1>6, ReadReadyKeepsInv
<1>7. CASE MakeView2D
  BY <1>7, MakeView2DKeepsInv
<1>8. CASE MakeView3D
  BY <1>8, MakeView3DKeepsInv
<1>9. CASE ReadWindow
  BY <1>9, ReadWindowKeepsInv
<1>10. CASE ReadArguments
  BY <1>10, ReadArgumentsKeepsInv
<1>11. CASE ReadAcknowledge
  BY <1>11, ReadAcknowledgeKeepsInv
<1>12. ASSUME NEW c \in Viewport, ReadPick(c) \/ ReadDrop(c) \/ ReadClosing(c)
       PROVE  SyncInv'
  BY <1>12, ReadPickKeepsInv, ReadDropKeepsInv, ReadClosingKeepsInv
<1> QED
  BY <1>1, <1>2, <1>3, <1>4, <1>5, <1>6, <1>7, <1>8, <1>9, <1>10, <1>11, <1>12 DEF ManagerStep

LEMMA ProgramStepKeepsInv ==
  ASSUME SyncInv, ProgramStep
  PROVE  SyncInv'
<1> PICK c \in Viewport : \/ Boot(c) \/ ReadViewData(c) \/ ReadCommand(c)
                          \/ ReadCommandArguments(c) \/ ReadGoAhead(c) \/ Exit(c)
  BY DEF ProgramStep
<1>1. CASE Boot(c)
  BY <1>1, BootKeepsInv
<1>2. CASE ReadViewData(c)
  BY <1>2, ReadViewDataKeepsInv
<1>3. CASE ReadCommand(c)
  BY <1>3, ReadCommandKeepsInv
<1>4. CASE ReadCommandArguments(c)
  BY <1>4, ReadCommandArgumentsKeepsInv
<1>5. CASE ReadGoAhead(c)
  BY <1>5, ReadGoAheadKeepsInv
<1>6. CASE Exit(c)
  BY <1>6, ExitKeepsInv
<1> QED
  BY <1>1, <1>2, <1>3, <1>4, <1>5, <1>6

LEMMA UserKeepsInv ==
  ASSUME Careful, SyncInv, NEW c \in Viewport, User(c)
  PROVE  SyncInv'
<1>1. CASE PressPickDropQuery(c)
  BY <1>1, PressPickDropQueryKeepsInv
<1>2. CASE PressGraph(c)
  BY <1>2, PressGraphKeepsInv
<1>3. CASE Quit(c)
  BY <1>3, QuitKeepsInv
<1>4. CASE Crash(c)
  BY <1>4, CrashKeepsInv
<1> QED
  BY <1>1, <1>2, <1>3, <1>4 DEF User

LEMMA NextKeepsInv ==
  ASSUME Careful, SyncInv, [Next]_vars
  PROVE  SyncInv'
<1>1. CASE LispStep
  BY <1>1, LispStepKeepsInv
<1>2. CASE ManagerStep
  BY <1>2, ManagerStepKeepsInv
<1>3. CASE ProgramStep
  BY <1>3, ProgramStepKeepsInv
<1>4. CASE \E c \in Viewport : User(c)
  BY <1>4, UserKeepsInv
<1>5. CASE UNCHANGED vars
  <2>1. UNCHANGED <<lisp, known, sent, manager, viewports, graphList, picked, child, toManager, toLisp, down, up, inSync>>
    BY <1>5 DEF vars, links
  <2>2. Types' /\ PickInv' /\ PhaseInv'
    <3>1. Unborn(Viewport2D)' = Unborn(Viewport2D) /\ Unborn(Viewport3D)' = Unborn(Viewport3D)
      BY <2>1 DEF Unborn
    <3>2. PhaseInv'
      BY <2>1, <3>1, PhaseFrame DEF SyncInv
    <3>3. Types'
      BY <2>1 DEF SyncInv, Types
    <3>4. \A k : Secure(k)' <=> Secure(k)
      BY <2>1 DEF Secure, Anchor, Leaving, Closing, Target, InCall
    <3>5. PickInv'
      BY <2>1, <3>4 DEF SyncInv, PickInv, PickedUp
    <3> QED
      BY <3>2, <3>3, <3>5
  <2>3. ManagerInv' /\ PlacesInv'
    <3>1. Listed' = Listed /\ \A e : Target(e)' = Target(e)
      BY <2>1, OthersFrame
    <3>2. ManagerInv'
      BY <2>1, ManagerFrame DEF SyncInv
    <3>3. PlacesInv'
      BY <2>1, <3>1 DEF SyncInv, PlacesInv, Placed
    <3> QED
      BY <3>2, <3>3
  <2>4. LinksInv' /\ KeptInv' /\ PromiseInv'
    <3>1. child' \in [Viewport -> Programs] /\ \A e \in Viewport : Ended(child[e], child'[e]) /\ Role(e)' = Role(e)
      BY <2>1 DEF SyncInv, Types, Ended, Role
    <3> QED
      BY <2>1, <3>1, EndedKeeps
  <2> QED
    BY <2>2, <2>3, <2>4 DEF SyncInv
<1> QED
  BY <1>1, <1>2, <1>3, <1>4, <1>5 DEF Next

(* SyncInv holds of all behaviours with careful users. *)
LEMMA SyncInvariant == Careful => (Spec => []SyncInv)
<1> SUFFICES ASSUME Careful
             PROVE  Spec => []SyncInv
  OBVIOUS
<1>1. Init => SyncInv
  BY InitSyncInv
<1>2. SyncInv /\ [Next]_vars => SyncInv'
  BY NextKeepsInv
<1> QED
  BY <1>1, <1>2, PTL DEF Spec

-----------------------------------------------------------------------------
(* The theorems. *)

(* Every part of the viewport manager and of the programs has its type (TypeOK). *)
THEOREM ViewportsTypeCorrect == Careful => (Spec => []TypeOK)
<1>1. SyncInv => TypeOK
  <2> SUFFICES ASSUME SyncInv
               PROVE  TypeOK
    OBVIOUS
  <2>1. /\ lisp \in LispStates /\ manager \in ManagerStates /\ graphList \in [Key -> GraphRecords]
        /\ child \in [Viewport -> Programs] /\ picked \in Key \cup {0} /\ inSync = TRUE
        /\ ToSet(viewports) \subseteq Viewport /\ known \subseteq Viewport /\ sent \subseteq Key
    BY ManagerFacts
  <2>2. /\ lisp.pc \in {"idle", "graph", "make", "asked", "acknowledge", "closed"}
        /\ lisp.vp \in Viewport \cup {0} /\ lisp.cmd \in Command \cup {"none"} /\ lisp.keys \subseteq Key
    BY <2>1 DEF LispStates, Orders, Command
  <2>3. /\ manager.pc \in {"select", "serve", "wait", "fork", "data", "window", "args", "acknow"}
        /\ manager.ready \subseteq Viewport \cup {SPAD} /\ manager.slot \in Viewport \cup {0}
        /\ manager.closing \subseteq Viewport
    BY <2>1 DEF ManagerStates
  <2>4. \A k \in Key : graphList[k].listed \in {"no", "yes", "ever"} /\ graphList[k].views \in [Viewport -> Nat]
    BY <2>1 DEF GraphRecords
  <2>5. \A c \in Viewport : /\ child[c].pc \in Up \cup Gone \cup {"none", "boot", "data", "deaf", "exiting"}
                            /\ child[c].slots \in [Slot -> Key \cup {0}]
    BY <2>1 DEF Programs, Slots
  <2> QED
    BY <2>1, <2>2, <2>3, <2>4, <2>5 DEF TypeOK
<1> QED
  BY <1>1, SyncInvariant, PTL

(***************************************************************************)
(* Nobody takes a message for another, though no message says what it is,  *)
(* and the manager is never sent a key it does not know: however the       *)
(* clicks, the calls of Lisp and the deaths of programs are interleaved.   *)
(***************************************************************************)
THEOREM ManagerInSync == Careful => (Spec => []InSync)
<1>1. SyncInv => InSync
  BY DEF SyncInv, Types, InSync
<1> QED
  BY <1>1, SyncInvariant, PTL

(***************************************************************************)
(* rmViewMgr finds every graph that a viewport hands back (cleanup.c:119   *)
(* and 131): a graph on a window is in the list, with at least as many     *)
(* views of that window as it shows (HeldGraphsKept).                      *)
(***************************************************************************)
THEOREM HeldGraphsStay == Careful => (Spec => []HeldGraphsKept)
<1>1. SyncInv => HeldGraphsKept
  <2> SUFFICES ASSUME SyncInv, NEW c \in Viewport2D, child[c].pc \in Up, NEW k \in Key, Holds(c, k)
               PROVE  graphList[k].listed # "no" /\ graphList[k].views[c] >= Count(child[c].slots, k)
    BY DEF HeldGraphsKept
  <2>1. Types /\ KeptIn(c, k) /\ c \in Viewport
    BY ManagerFacts, Basics DEF KeptInv
  <2>2. /\ graphList[k].views[c] \in Nat /\ Holding(child[c], k) \in Nat /\ child[c].slots \in Slots
    BY <2>1, ViewsType
  <2>3. Coming(down[c], k) \in Nat
    BY ComingType
  <2>4. Holding(child[c], k) > 0
    BY <2>2, CountHeld DEF Holds, Holding
  <2>5. /\ graphList[k].views[c] >= Holding(child[c], k) + Coming(down[c], k)
        /\ Holding(child[c], k) + Coming(down[c], k) > 0 => graphList[k].listed # "no"
    BY <2>1 DEF KeptIn, Kept
  <2> QED
    BY <2>2, <2>3, <2>4, <2>5 DEF Holding
<1> QED
  BY <1>1, SyncInvariant, PTL

(***************************************************************************)
(* Every call of Lisp takes exactly the answers that were meant for it:    *)
(* nothing is left in its socket when the next call begins (CallsComplete).*)
(***************************************************************************)
THEOREM CallsAreComplete == Careful => (Spec => []CallsComplete)
<1>1. SyncInv => CallsComplete
  BY DEF SyncInv, PhaseInv, CallsComplete, Free
<1> QED
  BY <1>1, SyncInvariant, PTL

(***************************************************************************)
(* When close returns, the manager has taken the viewport from its list,   *)
(* also if the program of the viewport died on the way, or if the user had *)
(* closed the window already (ClosedIsForgotten).                          *)
(***************************************************************************)
THEOREM ClosedViewportsGo == Careful => (Spec => ClosedIsForgotten)
<1> SUFFICES ASSUME Careful
             PROVE  Spec => ClosedIsForgotten
  OBVIOUS
<1>1. SyncInv /\ [Next]_vars => [lisp.pc = "closed" /\ lisp'.pc = "idle" => lisp.vp \notin ToSet(viewports)]_vars
  <2> SUFFICES ASSUME SyncInv, Next, lisp.pc = "closed", lisp'.pc = "idle"
               PROVE  lisp.vp \notin ToSet(viewports)
    OBVIOUS
  <2>1. lisp' # lisp
    OBVIOUS
  <2>2. ~ManagerStep
    BY <2>1 DEF ManagerStep, OthersOfManager, At, Select, WaitForChild, FromSpad, MakeGraph, ForkView2D, ForkView3D,
                Call, FromSlot, ReadReady, SendView, MakeView2D, MakeView3D, ReadWindow, ReadArguments,
                ReadAcknowledge, ReadPick, ReadDrop, ReadClosing
  <2>3. ~ProgramStep
    BY <2>1 DEF ProgramStep, OthersOfChild, Runs, Boot, ReadViewData, ReadCommand, ReadCommandArguments, ReadGoAhead, Exit
  <2>4. ~ \E c \in Viewport : User(c)
    BY <2>1 DEF User, OthersOfChild, Runs, Click, PressPickDropQuery, PressGraph, Quit, Crash
  <2>5. ~SendGraph /\ ~MakeViewport2D /\ ~MakeViewport3D /\ ~Message /\ ~Update /\ ~Close
    BY DEF Idle, SendGraph, MakeViewport2D, MakeViewport3D, Message, Update, Close
  <2>6. ~GetKey /\ ~GetPID /\ ~GetRefusal /\ ~GetGrant /\ ~GetAcknowledge
    BY DEF Get, GetKey, GetPID, GetRefusal, GetGrant, GetAcknowledge
  <2>7. GetClosed
    BY <2>2, <2>3, <2>4, <2>5, <2>6 DEF Next, LispStep
  <2>8. Forgotten(lisp.vp) /\ ToSet(viewports) = Listed
    BY <2>7, GetClosedKeepsInv, ManagerFacts
  <2> QED
    BY <2>8 DEF Forgotten
<1>2. Spec => []SyncInv
  BY SyncInvariant
<1> QED
  BY <1>1, <1>2, PTL DEF Spec, ClosedIsForgotten
================================================================================
