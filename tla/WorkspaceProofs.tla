--------------------------- MODULE WorkspaceProofs ---------------------------
(***************************************************************************)
(* Proofs about Workspace, for any number of variables, frames, lines and  *)
(* commands, as long as the user is careful (the constant Careful): its    *)
(* type, that frames hold only values of their own, that the ring, the     *)
(* globals and the pairs they share implement FrameMap, and that )undo     *)
(* gives back what the frame held.                                         *)
(*                                                                         *)
(* The invariant is WorkInv.  A frame has a name of its own and a pair of  *)
(* its own for every variable, so that overwriting a pair in place changes *)
(* one variable of one frame.  The hard part is )undo, which puts pairs of *)
(* the record into the environment: as long as the record is intact its    *)
(* pairs hold values of the current frame and no other frame reaches them  *)
(* (RecordSound), and the walk down the record keeps that for each entry   *)
(* it undoes (WalkSound, by taking the least entry where it would fail).   *)
(* What )undo gives back needs more, that the record tells the past step   *)
(* by step (UndoInv), and comes after the theorems that do not need it.    *)
(*                                                                         *)
(* First come lemmas about pairs, then about the operations on a workspace *)
(* in the order of Workspace, then one lemma for each action of Next, and  *)
(* the theorems; then the same for UndoInv.                                *)
(***************************************************************************)
EXTENDS Workspace, FiniteSetTheorems, WellFoundedInduction, TLAPS

(* What a name may be bound to: a pair of the heap h. *)
PairsOf(h) == UNION {[D -> DOMAIN h] : D \in SUBSET Var}

SomeBindings == UNION {[D -> Value] : D \in SUBSET Var}

SameName(e, d) == \A x \in DOMAIN e, y \in DOMAIN d : e[x] = d[y] => x = y
NoShare(e, d) == \A x \in DOMAIN e, y \in DOMAIN d : e[x] # d[y]

(* The value v of x comes from a line or an import in the frame f. *)
OwnedIn(f, x, v, written) == v = Nil \/ <<f, x, v.val>> \in written

(* A frame has a pair of its own for every name, and values of its own. *)
FrameSound(f, e, h, written) ==
    /\ e \in PairsOf(h)
    /\ SameName(e, e)
    /\ \A x \in DOMAIN e : OwnedIn(f, x, h[e[x]], written)

(* The frame f is the current one, and the others share nothing with it. *)
WorkspaceSound(w, f, others, written) ==
    /\ w = [heap |-> w.heap, env |-> w.env, record |-> w.record, previous |-> w.previous]
    /\ w.heap \in Seq(Value)
    /\ FrameSound(f, w.env, w.heap, written)
    /\ \A g \in others : FrameSound(g.name, g.env, w.heap, written) /\ NoShare(g.env, w.env)
    /\ w.previous \in SomeBindings
    /\ w.record \in Seq([system : BOOLEAN, changes : PairsOf(w.heap)])

(* The record of )undo is about the names and values of the current frame. *)
ChangesSound(c, w, f, others, written) ==
    /\ \A x \in DOMAIN c : OwnedIn(f, x, w.heap[c[x]], written)
    /\ SameName(c, w.env)
    /\ \A g \in others : NoShare(g.env, c)

RecordSound(w, f, others, written) ==
    /\ \A i \in DOMAIN w.record : ChangesSound(w.record[i].changes, w, f, others, written)
    /\ \A i, j \in DOMAIN w.record : SameName(w.record[i].changes, w.record[j].changes)
    /\ \A x \in DOMAIN w.previous : OwnedIn(f, x, w.previous[x], written)

(* The heap only grows from h to k, and what the other frames see stays. *)
KeepsOthers(h, k, others) ==
    /\ DOMAIN h \subseteq DOMAIN k
    /\ \A g \in others : \A x \in DOMAIN g.env : k[g.env[x]] = h[g.env[x]]

(* The frames of the ring, the current one as the globals have it. *)
Frames == Stored(ring)
FrameRecords(h) == [name : Name, env : PairsOf(h), IOindex : Nat \ {0}]
Rest == {ring[i] : i \in 2 .. Len(ring)}

NamesOnce(r) == \A i, j \in DOMAIN r : r[i].name = r[j].name => i = j

(***************************************************************************)
(* The invariant: the frames have names and pairs of their own, and as     *)
(* long as the record of )undo is intact it is about the current frame.    *)
(***************************************************************************)
WorkInv ==
    /\ ring \in Seq(FrameRecords(heap)) /\ Len(ring) > 0
    /\ IOindex \in Nat \ {0}
    /\ headIsEnv \in BOOLEAN /\ intact \in BOOLEAN
    /\ failed \in 0 .. MaxFailed /\ commands \in 0 .. MaxCommands
    /\ IsFiniteSet(wrote)
    /\ NamesOnce(ring)
    /\ WorkspaceSound(Here, Current, Rest, wrote)
    /\ \A g, k \in Rest : g # k => NoShare(g.env, k.env)
    /\ intact => RecordSound(Here, Current, Rest, wrote)
    /\ headIsEnv => ring[1].env = env
    /\ ring[1].IOindex = IOindex

-----------------------------------------------------------------------------
LEMMA EnvElim ==
  ASSUME NEW h, NEW e \in PairsOf(h)
  PROVE  /\ e = [x \in DOMAIN e |-> e[x]]
         /\ DOMAIN e \subseteq Var
         /\ \A x \in DOMAIN e : e[x] \in DOMAIN h
BY DEF PairsOf

LEMMA EnvIntro ==
  ASSUME NEW h, NEW e, e = [x \in DOMAIN e |-> e[x]], DOMAIN e \subseteq Var,
         \A x \in DOMAIN e : e[x] \in DOMAIN h
  PROVE  e \in PairsOf(h)
<1>1. e \in [DOMAIN e -> DOMAIN h]
  OBVIOUS
<1> QED
  BY <1>1 DEF PairsOf

(* SetToSeq lists every element of a finite set once. *)
LEMMA SetToSeqLists ==
  ASSUME NEW S, IsFiniteSet(S)
  PROVE  /\ SetToSeq(S) \in Seq(S)
         /\ \A i \in DOMAIN SetToSeq(S), j \in DOMAIN SetToSeq(S) : SetToSeq(S)[i] = SetToSeq(S)[j] => i = j
         /\ \A x \in S : \E i \in DOMAIN SetToSeq(S) : SetToSeq(S)[i] = x
<1> DEFINE n == Cardinality(S)
<1>1. n \in Nat /\ ExistsBijection(1 .. n, S)
  BY FS_CardinalityType
<1>2. PICK f \in Bijection(1 .. n, S) : TRUE
  BY <1>1 DEF ExistsBijection
<1>3. f \in [1 .. n -> S] /\ IsInjective(f)
  BY <1>2 DEF Bijection, Injection, IsInjective
<1>4. SetToSeq(S) \in [1 .. n -> S] /\ IsInjective(SetToSeq(S))
  BY <1>3 DEF SetToSeq
<1>5. SetToSeq(S) \in Seq(S)
  BY <1>1, <1>4
<1>6. SetToSeq(S) \in Injection(1 .. n, S)
  BY <1>4 DEF Injection, IsInjective
<1>7. Cardinality(1 .. n) = Cardinality(S)
  BY <1>1, FS_Interval
<1>8. SetToSeq(S) \in Surjection(1 .. n, S)
  BY <1>6, <1>7, FS_Injection
<1> QED
  BY <1>4, <1>5, <1>8 DEF IsInjective, Surjection

(***************************************************************************)
(* New pairs for the bindings b: the old pairs stay, every name gets one   *)
(* of its own that was not in the heap.                                    *)
(***************************************************************************)
LEMMA NewPairsAreNew ==
  ASSUME NEW h \in Seq(Value), NEW b, b = [x \in DOMAIN b |-> b[x]], IsFiniteSet(DOMAIN b),
         \A x \in DOMAIN b : b[x] \in Value
  PROVE  /\ NewPairs(h, b).heap \in Seq(Value)
         /\ Len(NewPairs(h, b).heap) >= Len(h)
         /\ \A c \in DOMAIN h : NewPairs(h, b).heap[c] = h[c]
         /\ NewPairs(h, b).cells = [x \in DOMAIN b |-> NewPairs(h, b).cells[x]]
         /\ \A x \in DOMAIN b : /\ NewPairs(h, b).cells[x] \in DOMAIN NewPairs(h, b).heap
                                /\ NewPairs(h, b).cells[x] \notin DOMAIN h
                                /\ NewPairs(h, b).heap[NewPairs(h, b).cells[x]] = b[x]
         /\ \A x \in DOMAIN b, y \in DOMAIN b :
               NewPairs(h, b).cells[x] = NewPairs(h, b).cells[y] => x = y
<1> DEFINE names == SetToSeq(DOMAIN b)
           new == [i \in DOMAIN names |-> b[names[i]]]
           at(x) == CHOOSE i \in DOMAIN names : names[i] = x
<1>1. /\ names \in Seq(DOMAIN b)
      /\ \A x \in DOMAIN b : \E i \in DOMAIN names : names[i] = x
  BY SetToSeqLists
<1>2. \A x \in DOMAIN b : at(x) \in DOMAIN names /\ names[at(x)] = x
  BY <1>1
<1> HIDE DEF at
<1>3. DOMAIN names = 1 .. Len(names) /\ Len(names) \in Nat
  BY <1>1
<1>4. new \in Seq(Value) /\ Len(new) = Len(names)
  <2>1. \A i \in DOMAIN names : names[i] \in DOMAIN b
    BY <1>1
  <2> HIDE DEF names
  <2>2. new \in [1 .. Len(names) -> Value]
    BY <2>1, <1>3
  <2> QED
    BY <2>2, <1>3
<1>5. NewPairs(h, b).heap = h \o new /\ NewPairs(h, b).cells = [x \in DOMAIN b |-> Len(h) + at(x)]
  BY DEF NewPairs, at
<1> HIDE DEF names, new
<1>6. /\ h \o new \in Seq(Value)
      /\ Len(h \o new) = Len(h) + Len(new)
      /\ \A c \in 1 .. Len(h) : (h \o new)[c] = h[c]
      /\ \A i \in 1 .. Len(new) : (h \o new)[Len(h) + i] = new[i]
  BY <1>4
<1>7. DOMAIN h = 1 .. Len(h) /\ Len(h) \in Nat /\ DOMAIN (h \o new) = 1 .. Len(h \o new)
  BY <1>6
<1>8. \A x \in DOMAIN b : new[at(x)] = b[x]
  BY <1>2 DEF new
<1>9. ASSUME NEW x \in DOMAIN b
      PROVE  /\ Len(h) + at(x) \in 1 .. Len(h \o new)
             /\ Len(h) + at(x) \notin 1 .. Len(h)
             /\ (h \o new)[Len(h) + at(x)] = b[x]
  BY <1>2, <1>3, <1>4, <1>6, <1>7, <1>8
<1>10. ASSUME NEW x \in DOMAIN b, NEW y \in DOMAIN b, Len(h) + at(x) = Len(h) + at(y)
       PROVE  x = y
  BY <1>2, <1>3, <1>7, <1>10
<1> QED
  BY <1>4, <1>5, <1>6, <1>7, <1>9, <1>10, <1>3

LEMMA BindingsElim ==
  ASSUME NEW b \in SomeBindings
  PROVE  /\ b = [x \in DOMAIN b |-> b[x]]
         /\ DOMAIN b \subseteq Var
         /\ IsFiniteSet(DOMAIN b)
         /\ \A x \in DOMAIN b : b[x] \in Value
<1>1. DOMAIN b \subseteq Var
  BY DEF SomeBindings
<1>2. IsFiniteSet(DOMAIN b)
  BY <1>1, FS_Subset, WorkspaceAssumption
<1> QED
  BY <1>1, <1>2 DEF SomeBindings

LEMMA BindingsIntro ==
  ASSUME NEW b, b = [x \in DOMAIN b |-> b[x]], DOMAIN b \subseteq Var,
         \A x \in DOMAIN b : b[x] \in Value
  PROVE  b \in SomeBindings
<1>1. b \in [DOMAIN b -> Value]
  OBVIOUS
<1> QED
  BY <1>1 DEF SomeBindings

LEMMA NilIsValue == Nil \in Value
BY DEF Nil, Value

(* A larger heap holds the pairs of the smaller one. *)
LEMMA PairsGrow ==
  ASSUME NEW h, NEW k, DOMAIN h \subseteq DOMAIN k, NEW e \in PairsOf(h)
  PROVE  e \in PairsOf(k)
BY DEF PairsOf

LEMMA ElemsOfSeq ==
  ASSUME NEW S, NEW s \in Seq(S)
  PROVE  /\ DOMAIN s = 1 .. Len(s)
         /\ Len(s) \in Nat
         /\ \A i \in 1 .. Len(s) : s[i] \in S
OBVIOUS

LEMMA SeqOfElems ==
  ASSUME NEW S, NEW T, NEW s \in Seq(S), \A i \in 1 .. Len(s) : s[i] \in T
  PROVE  s \in Seq(T)
OBVIOUS

LEMMA RecordGrows ==
  ASSUME NEW h, NEW k, DOMAIN h \subseteq DOMAIN k,
         NEW r \in Seq([system : BOOLEAN, changes : PairsOf(h)])
  PROVE  r \in Seq([system : BOOLEAN, changes : PairsOf(k)])
<1>1. ASSUME NEW i \in 1 .. Len(r)
      PROVE  r[i] \in [system : BOOLEAN, changes : PairsOf(k)]
  <2>1. r[i] \in [system : BOOLEAN, changes : PairsOf(h)]
    BY ElemsOfSeq
  <2>2. r[i].changes \in PairsOf(k)
    BY <2>1, PairsGrow
  <2> QED
    BY <2>1, <2>2
<1> QED
  BY <1>1, SeqOfElems

(* What the environment binds its names to. *)
LEMMA BindingsOfEnv ==
  ASSUME NEW h \in Seq(Value), NEW e \in PairsOf(h)
  PROVE  /\ Bindings(h, e) \in SomeBindings
         /\ DOMAIN Bindings(h, e) = DOMAIN e
         /\ \A x \in DOMAIN e : Bindings(h, e)[x] = h[e[x]]
<1> DEFINE b == Bindings(h, e)
<1>1. \A x \in DOMAIN e : h[e[x]] \in Value
  BY EnvElim
<1>2. b = [x \in DOMAIN b |-> b[x]] /\ DOMAIN b = DOMAIN e /\ \A x \in DOMAIN e : b[x] = h[e[x]]
  BY DEF Bindings
<1>3. DOMAIN e \subseteq Var
  BY EnvElim
<1> HIDE DEF b
<1>4. b \in SomeBindings
  BY <1>1, <1>2, <1>3, BindingsIntro
<1> QED
  BY <1>2, <1>4 DEF b

(* The changes are values of the old bindings. *)
LEMMA DiffIsOld ==
  ASSUME NEW new \in SomeBindings, NEW old \in SomeBindings
  PROVE  /\ DiffAlist(new, old) \in SomeBindings
         /\ \A x \in DOMAIN DiffAlist(new, old) :
               \/ DiffAlist(new, old)[x] = Nil
               \/ x \in DOMAIN old /\ DiffAlist(new, old)[x] = old[x]
<1> DEFINE changed == {x \in DOMAIN new \cup DOMAIN old :
                       x \in DOMAIN new \cap DOMAIN old => new[x] # old[x]}
           F(x) == IF x \in DOMAIN old THEN old[x] ELSE Nil
<1>1. changed \subseteq Var
  BY BindingsElim
<1>2. \A x \in changed : F(x) \in Value
  BY BindingsElim, NilIsValue
<1>3. DiffAlist(new, old) = [x \in changed |-> F(x)]
  BY DEF DiffAlist
<1> DEFINE d == DiffAlist(new, old)
<1>4. d = [x \in DOMAIN d |-> d[x]] /\ DOMAIN d = changed /\ \A x \in changed : d[x] = F(x)
  BY <1>3
<1> HIDE DEF d, changed
<1>5. d \in SomeBindings
  <2> HIDE DEF F
  <2> QED
    BY <1>1, <1>2, <1>4, BindingsIntro
<1> QED
  BY <1>4, <1>5 DEF d

LEMMA ConsElems ==
  ASSUME NEW S, NEW e \in S, NEW s \in Seq(S)
  PROVE  /\ <<e>> \o s \in Seq(S)
         /\ DOMAIN (<<e>> \o s) = 1 .. Len(s) + 1
         /\ (<<e>> \o s)[1] = e
         /\ \A i \in 2 .. Len(s) + 1 : i - 1 \in DOMAIN s /\ (<<e>> \o s)[i] = s[i - 1]
OBVIOUS

(* A frame stays sound in a larger heap that binds its names to values of its own. *)
LEMMA FrameStays ==
  ASSUME NEW f, NEW e, NEW h, NEW k, NEW written, FrameSound(f, e, h, written),
         DOMAIN h \subseteq DOMAIN k,
         \A x \in DOMAIN e : OwnedIn(f, x, k[e[x]], written)
  PROVE  FrameSound(f, e, k, written)
BY PairsGrow DEF FrameSound

LEMMA WrittenGrows ==
  ASSUME NEW w, NEW f, NEW others, NEW old, NEW new, old \subseteq new
  PROVE  /\ WorkspaceSound(w, f, others, old) => WorkspaceSound(w, f, others, new)
         /\ RecordSound(w, f, others, old) => RecordSound(w, f, others, new)
BY DEF WorkspaceSound, RecordSound, FrameSound, ChangesSound, OwnedIn

(* The changes that are recorded are old values of the current frame. *)
LEMMA DeltaSound ==
  ASSUME NEW w, NEW f, NEW others, NEW written, WorkspaceSound(w, f, others, written)
  PROVE  /\ Delta(w) \in SomeBindings
         /\ Bindings(w.heap, w.env) \in SomeBindings
         /\ \A x \in DOMAIN Bindings(w.heap, w.env) : OwnedIn(f, x, Bindings(w.heap, w.env)[x], written)
         /\ RecordSound(w, f, others, written)
               => \A x \in DOMAIN Delta(w) : OwnedIn(f, x, Delta(w)[x], written)
<1>1. w.heap \in Seq(Value) /\ w.env \in PairsOf(w.heap) /\ w.previous \in SomeBindings
  BY DEF WorkspaceSound, FrameSound
<1>2. /\ Bindings(w.heap, w.env) \in SomeBindings
      /\ DOMAIN Bindings(w.heap, w.env) = DOMAIN w.env
      /\ \A x \in DOMAIN w.env : Bindings(w.heap, w.env)[x] = w.heap[w.env[x]]
  BY <1>1, BindingsOfEnv
<1>3. \A x \in DOMAIN w.env : OwnedIn(f, x, w.heap[w.env[x]], written)
  BY DEF WorkspaceSound, FrameSound
<1>4. Delta(w) \in SomeBindings
  BY <1>1, <1>2, DiffIsOld DEF Delta
<1>5. ASSUME RecordSound(w, f, others, written), NEW x \in DOMAIN Delta(w)
      PROVE  OwnedIn(f, x, Delta(w)[x], written)
  <2>1. Delta(w)[x] = Nil \/ (x \in DOMAIN w.previous /\ Delta(w)[x] = w.previous[x])
    BY <1>1, <1>2, DiffIsOld DEF Delta
  <2>2. CASE Delta(w)[x] = Nil
    BY <2>2 DEF OwnedIn
  <2>3. CASE x \in DOMAIN w.previous /\ Delta(w)[x] = w.previous[x]
    BY <2>3, <1>5 DEF RecordSound
  <2> QED
    BY <2>1, <2>2, <2>3
<1> QED
  BY <1>2, <1>3, <1>4, <1>5

-----------------------------------------------------------------------------
(* recordFrame: a new entry of new pairs; the environment stays. *)
LEMMA RecordFrameSound ==
  ASSUME NEW w, NEW f, NEW others, NEW written, NEW system \in BOOLEAN,
         WorkspaceSound(w, f, others, written)
  PROVE  LET r == RecordFrame(system, w)
         IN  /\ WorkspaceSound(r, f, others, written)
             /\ r.env = w.env
             /\ DOMAIN w.heap \subseteq DOMAIN r.heap
             /\ \A c \in DOMAIN w.heap : r.heap[c] = w.heap[c]
             /\ RecordSound(w, f, others, written) => RecordSound(r, f, others, written)
<1> DEFINE n == NewPairs(w.heap, Delta(w))
           entry == [system |-> system, changes |-> n.cells]
           r == RecordFrame(system, w)
           Entries(h) == [system : BOOLEAN, changes : PairsOf(h)]
<1>1. CASE r = w
  BY <1>1
<1>2. CASE r = [heap |-> n.heap, env |-> w.env, record |-> <<entry>> \o w.record,
                previous |-> Bindings(w.heap, w.env)]
  <2>1. /\ w.heap \in Seq(Value) /\ w.env \in PairsOf(w.heap)
        /\ w.record \in Seq(Entries(w.heap))
        /\ FrameSound(f, w.env, w.heap, written)
        /\ \A g \in others : FrameSound(g.name, g.env, w.heap, written) /\ NoShare(g.env, w.env)
    BY DEF WorkspaceSound, FrameSound
  <2>2. /\ n.heap \in Seq(Value)
        /\ Len(n.heap) >= Len(w.heap)
        /\ \A c \in DOMAIN w.heap : n.heap[c] = w.heap[c]
        /\ n.cells = [x \in DOMAIN Delta(w) |-> n.cells[x]]
        /\ \A x \in DOMAIN Delta(w) : /\ n.cells[x] \in DOMAIN n.heap
                                      /\ n.cells[x] \notin DOMAIN w.heap
                                      /\ n.heap[n.cells[x]] = Delta(w)[x]
        /\ \A x \in DOMAIN Delta(w), y \in DOMAIN Delta(w) : n.cells[x] = n.cells[y] => x = y
    BY <2>1, DeltaSound, BindingsElim, NewPairsAreNew
  <2>3. /\ DOMAIN Delta(w) \subseteq Var
        /\ Bindings(w.heap, w.env) \in SomeBindings
        /\ \A x \in DOMAIN Bindings(w.heap, w.env) : OwnedIn(f, x, Bindings(w.heap, w.env)[x], written)
        /\ RecordSound(w, f, others, written)
               => \A x \in DOMAIN Delta(w) : OwnedIn(f, x, Delta(w)[x], written)
    BY DeltaSound, BindingsElim
  <2>4. DOMAIN w.heap \subseteq DOMAIN n.heap
    BY <2>1, <2>2
  <2>5. DOMAIN n.cells = DOMAIN Delta(w)
    BY <2>2
  <2>6. n.cells \in PairsOf(n.heap)
    <3> HIDE DEF n
    <3> QED
      BY <2>2, <2>3, <2>5, EnvIntro
  <2> HIDE DEF n, r
  <2>7. entry \in Entries(n.heap)
    BY <2>6
  <2>8. w.record \in Seq(Entries(n.heap))
    BY <2>1, <2>4, RecordGrows
  <2> HIDE DEF entry, Entries
  <2>9. /\ <<entry>> \o w.record \in Seq(Entries(n.heap))
        /\ DOMAIN (<<entry>> \o w.record) = 1 .. Len(w.record) + 1
        /\ (<<entry>> \o w.record)[1] = entry
        /\ \A i \in 2 .. Len(w.record) + 1 :
              i - 1 \in DOMAIN w.record /\ (<<entry>> \o w.record)[i] = w.record[i - 1]
    BY <2>7, <2>8, ConsElems
  <2>10. WorkspaceSound(r, f, others, written)
    <3>1. ASSUME NEW g, NEW e, FrameSound(g, e, w.heap, written)
          PROVE  FrameSound(g, e, n.heap, written)
      <4>1. \A x \in DOMAIN e : n.heap[e[x]] = w.heap[e[x]]
        BY <2>2, <3>1, EnvElim DEF FrameSound
      <4> QED
        BY <3>1, <4>1, <2>4, FrameStays DEF FrameSound
    <3>2. r = [heap |-> r.heap, env |-> r.env, record |-> r.record, previous |-> r.previous]
      BY <1>2
    <3>3. r.record \in Seq(Entries(r.heap))
      BY <1>2, <2>9
    <3> QED
      BY <1>2, <2>1, <2>2, <2>3, <3>1, <3>2, <3>3 DEF WorkspaceSound, Entries
  <2>11. ASSUME RecordSound(w, f, others, written)
         PROVE  RecordSound(r, f, others, written)
    <3>1. entry.changes = n.cells
      BY DEF entry
    <3>2. ASSUME NEW i \in DOMAIN w.record
          PROVE  /\ w.record[i].changes \in PairsOf(w.heap)
                 /\ SameName(n.cells, w.record[i].changes)
                 /\ SameName(w.record[i].changes, n.cells)
                 /\ ChangesSound(w.record[i].changes, r, f, others, written)
      <4> DEFINE c == w.record[i].changes
      <4>1. c \in PairsOf(w.heap)
        <5>1. w.record[i] \in Entries(w.heap)
          BY <2>1, <3>2, ElemsOfSeq
        <5> QED
          BY <5>1 DEF Entries
      <4>2. \A x \in DOMAIN c : c[x] \in DOMAIN w.heap
        BY <4>1, EnvElim
      <4>3. ChangesSound(c, w, f, others, written)
        BY <2>11, <3>2 DEF RecordSound
      <4> HIDE DEF c
      <4>4. ChangesSound(c, r, f, others, written)
        BY <4>3, <4>2, <1>2, <2>2 DEF ChangesSound
      <4>5. SameName(n.cells, c) /\ SameName(c, n.cells)
        BY <4>2, <2>2, <2>5 DEF SameName
      <4> QED
        BY <4>1, <4>4, <4>5 DEF c
    <3>3. ChangesSound(n.cells, r, f, others, written) /\ SameName(n.cells, n.cells)
      <4>1. \A x \in DOMAIN n.cells : OwnedIn(f, x, r.heap[n.cells[x]], written)
        BY <1>2, <2>2, <2>3, <2>5, <2>11
      <4>2. \A x \in DOMAIN w.env : w.env[x] \in DOMAIN w.heap
        BY <2>1, EnvElim
      <4>3. ASSUME NEW g \in others
            PROVE  NoShare(g.env, n.cells)
        <5>1. \A x \in DOMAIN g.env : g.env[x] \in DOMAIN w.heap
          BY <2>1, EnvElim DEF FrameSound
        <5> QED
          BY <5>1, <2>2, <2>5 DEF NoShare
      <4>4. SameName(n.cells, w.env) /\ SameName(n.cells, n.cells)
        BY <4>2, <2>2, <2>5 DEF SameName
      <4> QED
        BY <4>1, <4>3, <4>4, <1>2 DEF ChangesSound
    <3>4. r.record = <<entry>> \o w.record /\ r.previous = Bindings(w.heap, w.env)
      BY <1>2
    <3>5. \A i \in DOMAIN r.record :
             r.record[i].changes = n.cells \/ \E k \in DOMAIN w.record : r.record[i] = w.record[k]
      <4>1. \A i \in 1 .. Len(w.record) + 1 : i = 1 \/ i \in 2 .. Len(w.record) + 1
        BY <2>1, ElemsOfSeq
      <4> QED
        BY <4>1, <2>9, <3>1, <3>4
    <3>6. \A i \in DOMAIN r.record : ChangesSound(r.record[i].changes, r, f, others, written)
      BY <3>2, <3>3, <3>5
    <3>7. \A i, j \in DOMAIN w.record : SameName(w.record[i].changes, w.record[j].changes)
      BY <2>11 DEF RecordSound
    <3>8. ASSUME NEW i \in DOMAIN r.record, NEW j \in DOMAIN r.record
          PROVE  SameName(r.record[i].changes, r.record[j].changes)
      <4>1. CASE r.record[i].changes = n.cells
        BY <4>1, <3>5, <3>2, <3>3
      <4>2. CASE \E k \in DOMAIN w.record : r.record[i] = w.record[k]
        BY <4>2, <3>5, <3>2, <3>7
      <4> QED
        BY <4>1, <4>2, <3>5
    <3> QED
      BY <3>4, <3>6, <3>8, <2>3 DEF RecordSound
  <2> QED
    BY <1>2, <2>2, <2>4, <2>10, <2>11 DEF r
<1>3. r = w \/ r = [heap |-> n.heap, env |-> w.env, record |-> <<entry>> \o w.record,
                previous |-> Bindings(w.heap, w.env)]
  BY DEF RecordFrame
<1> QED
  BY <1>1, <1>2, <1>3

-----------------------------------------------------------------------------
(* The pairs of the record are pairs of the heap. *)
LEMMA RecordPairs ==
  ASSUME NEW w, NEW f, NEW others, NEW written, WorkspaceSound(w, f, others, written),
         NEW i \in DOMAIN w.record
  PROVE  /\ w.record[i].system \in BOOLEAN
         /\ w.record[i].changes \in PairsOf(w.heap)
<1>1. w.record \in Seq([system : BOOLEAN, changes : PairsOf(w.heap)])
  BY DEF WorkspaceSound
<1>2. w.record[i] \in [system : BOOLEAN, changes : PairsOf(w.heap)]
  BY <1>1, ElemsOfSeq
<1> QED
  BY <1>2

(***************************************************************************)
(* A step that gives values of the current frame to its own names, and     *)
(* pairs no other name or frame has, keeps the workspace sound.            *)
(***************************************************************************)
LEMMA StepSound ==
  ASSUME NEW w, NEW f, NEW others, NEW written, WorkspaceSound(w, f, others, written),
         NEW r, r = [heap |-> r.heap, env |-> r.env, record |-> w.record, previous |-> w.previous],
         r.heap \in Seq(Value), DOMAIN w.heap \subseteq DOMAIN r.heap,
         FrameSound(f, r.env, r.heap, written),
         KeepsOthers(w.heap, r.heap, others),
         \A g \in others : NoShare(g.env, r.env)
  PROVE  /\ WorkspaceSound(r, f, others, written)
         /\ RecordSound(w, f, others, written)
               /\ (\A i \in DOMAIN w.record : LET c == w.record[i].changes
                                              IN  /\ SameName(c, r.env)
                                                  /\ \A x \in DOMAIN c : OwnedIn(f, x, r.heap[c[x]], written))
            => RecordSound(r, f, others, written)
<1>1. ASSUME NEW g \in others
      PROVE  FrameSound(g.name, g.env, r.heap, written)
  <2>1. FrameSound(g.name, g.env, w.heap, written)
    BY DEF WorkspaceSound
  <2>2. \A x \in DOMAIN g.env : OwnedIn(g.name, x, r.heap[g.env[x]], written)
    BY <2>1 DEF KeepsOthers, FrameSound
  <2> QED
    BY <2>1, <2>2, FrameStays
<1>2. r.record = w.record /\ r.previous = w.previous
  OBVIOUS
<1>3. r.record \in Seq([system : BOOLEAN, changes : PairsOf(r.heap)])
  <2>1. w.record \in Seq([system : BOOLEAN, changes : PairsOf(w.heap)])
    BY DEF WorkspaceSound
  <2> QED
    BY <2>1, <1>2, RecordGrows
<1>4. w.previous \in SomeBindings
  BY DEF WorkspaceSound
<1>5. r = [heap |-> r.heap, env |-> r.env, record |-> r.record, previous |-> r.previous]
  BY <1>2
<1>6. WorkspaceSound(r, f, others, written)
  BY <1>1, <1>2, <1>3, <1>4, <1>5 DEF WorkspaceSound
<1>7. ASSUME RecordSound(w, f, others, written),
             \A i \in DOMAIN w.record : LET c == w.record[i].changes
                                        IN  /\ SameName(c, r.env)
                                            /\ \A x \in DOMAIN c : OwnedIn(f, x, r.heap[c[x]], written)
      PROVE  RecordSound(r, f, others, written)
  BY <1>2, <1>7 DEF RecordSound, ChangesSound
<1> QED
  BY <1>6, <1>7

(* putIntSymTab with a value of the frame's own. *)
LEMMA PutSound ==
  ASSUME NEW w, NEW f, NEW others, NEW written, WorkspaceSound(w, f, others, written),
         NEW x \in Var, NEW v \in Value, OwnedIn(f, x, v, written)
  PROVE  LET r == Put(x, v, w)
         IN  /\ WorkspaceSound(r, f, others, written)
             /\ KeepsOthers(w.heap, r.heap, others)
             /\ RecordSound(w, f, others, written) => RecordSound(r, f, others, written)
<1> DEFINE r == Put(x, v, w)
<1>1. /\ w = [heap |-> w.heap, env |-> w.env, record |-> w.record, previous |-> w.previous]
      /\ w.heap \in Seq(Value) /\ w.env \in PairsOf(w.heap)
      /\ FrameSound(f, w.env, w.heap, written)
      /\ \A g \in others : FrameSound(g.name, g.env, w.heap, written) /\ NoShare(g.env, w.env)
  BY DEF WorkspaceSound, FrameSound
<1>2. /\ DOMAIN w.env \subseteq Var
      /\ \A y \in DOMAIN w.env : w.env[y] \in DOMAIN w.heap /\ OwnedIn(f, y, w.heap[w.env[y]], written)
      /\ SameName(w.env, w.env)
      /\ w.env = [y \in DOMAIN w.env |-> w.env[y]]
  BY <1>1, EnvElim DEF FrameSound
<1>3. \A g \in others : \A y \in DOMAIN g.env : g.env[y] \in DOMAIN w.heap
  BY <1>1, EnvElim DEF FrameSound
<1>4. CASE x \in DOMAIN w.env
  <2> DEFINE c == w.env[x]
  <2>1. r = [heap |-> [w.heap EXCEPT ![c] = v], env |-> w.env, record |-> w.record, previous |-> w.previous]
    BY <1>1, <1>4 DEF Put
  <2>2. c \in DOMAIN w.heap /\ \A y \in DOMAIN w.env : w.env[y] = c => y = x
    BY <1>2, <1>4 DEF SameName
  <2> HIDE DEF c, r
  <2>3. /\ r.heap \in Seq(Value) /\ DOMAIN r.heap = DOMAIN w.heap
        /\ r.heap[c] = v
        /\ \A d \in DOMAIN w.heap : d # c => r.heap[d] = w.heap[d]
    BY <1>1, <2>1, <2>2
  <2>4. r.env = w.env
    BY <2>1
  <2>5. \A y \in DOMAIN w.env : OwnedIn(f, y, r.heap[w.env[y]], written)
    BY <1>2, <2>2, <2>3 DEF OwnedIn
  <2>6. FrameSound(f, r.env, r.heap, written)
    BY <1>1, <2>3, <2>4, <2>5, FrameStays
  <2>7. KeepsOthers(w.heap, r.heap, others)
    <3>1. \A g \in others : \A y \in DOMAIN g.env : g.env[y] # c
      BY <1>1, <1>4 DEF NoShare, c
    <3> QED
      BY <3>1, <1>3, <2>3 DEF KeepsOthers
  <2>8. \A g \in others : NoShare(g.env, r.env)
    BY <1>1, <2>4
  <2>9. ASSUME RecordSound(w, f, others, written), NEW i \in DOMAIN w.record
        PROVE  /\ SameName(w.record[i].changes, r.env)
               /\ \A y \in DOMAIN w.record[i].changes : OwnedIn(f, y, r.heap[w.record[i].changes[y]], written)
    <3> DEFINE d == w.record[i].changes
    <3>1. d \in PairsOf(w.heap)
      BY RecordPairs
    <3>2. SameName(d, w.env) /\ \A y \in DOMAIN d : OwnedIn(f, y, w.heap[d[y]], written)
      BY <2>9 DEF RecordSound, ChangesSound
    <3> HIDE DEF d
    <3>3. \A y \in DOMAIN d : d[y] \in DOMAIN w.heap
      BY <3>1, EnvElim
    <3>4. \A y \in DOMAIN d : d[y] = c => y = x
      BY <3>2, <1>4 DEF SameName, c
    <3>5. \A y \in DOMAIN d : OwnedIn(f, y, r.heap[d[y]], written)
      BY <3>2, <3>3, <3>4, <2>3 DEF OwnedIn
    <3> QED
      BY <3>2, <3>5, <2>4 DEF d
  <2>10. r = [heap |-> r.heap, env |-> r.env, record |-> w.record, previous |-> w.previous]
    BY <2>1
  <2>11. DOMAIN w.heap \subseteq DOMAIN r.heap
    BY <2>3
  <2>12. WorkspaceSound(r, f, others, written)
    BY <2>3, <2>6, <2>7, <2>8, <2>10, <2>11, StepSound
  <2>13. RecordSound(w, f, others, written) => RecordSound(r, f, others, written)
    BY <2>3, <2>6, <2>7, <2>8, <2>9, <2>10, <2>11, StepSound
  <2> QED
    BY <2>7, <2>12, <2>13 DEF r
<1>5. CASE x \notin DOMAIN w.env
  <2> DEFINE c == Len(w.heap) + 1
             e == [y \in DOMAIN w.env \cup {x} |-> IF y = x THEN c ELSE w.env[y]]
  <2>1. r = [heap |-> Append(w.heap, v), env |-> e, record |-> w.record, previous |-> w.previous]
    BY <1>1, <1>5 DEF Put
  <2> HIDE DEF r
  <2>2. /\ Append(w.heap, v) \in Seq(Value)
        /\ Len(Append(w.heap, v)) = c
        /\ Append(w.heap, v)[c] = v
        /\ \A d \in 1 .. Len(w.heap) : Append(w.heap, v)[d] = w.heap[d]
    BY <1>1
  <2>3. DOMAIN w.heap = 1 .. Len(w.heap) /\ Len(w.heap) \in Nat
    BY <1>1, ElemsOfSeq
  <2>4. /\ r.heap \in Seq(Value)
        /\ DOMAIN w.heap \subseteq DOMAIN r.heap
        /\ c \in DOMAIN r.heap /\ c \notin DOMAIN w.heap
        /\ r.heap[c] = v
        /\ \A d \in DOMAIN w.heap : r.heap[d] = w.heap[d]
    BY <2>1, <2>2, <2>3
  <2> HIDE DEF c
  <2>5. /\ r.env = e /\ DOMAIN e = DOMAIN w.env \cup {x}
        /\ e[x] = c /\ \A y \in DOMAIN w.env : e[y] = w.env[y]
        /\ e = [y \in DOMAIN e |-> e[y]]
    BY <2>1, <1>5
  <2> HIDE DEF e
  <2>6. \A y \in DOMAIN e : \/ y = x /\ e[y] = c
                            \/ y \in DOMAIN w.env /\ e[y] = w.env[y] /\ e[y] \in DOMAIN w.heap
    BY <2>5, <1>2
  <2>7. e \in PairsOf(r.heap)
    <3>1. \A y \in DOMAIN e : e[y] \in DOMAIN r.heap
      BY <2>4, <2>6
    <3>2. DOMAIN e \subseteq Var
      BY <1>2, <2>5
    <3> QED
      BY <3>1, <3>2, <2>5, EnvIntro
  <2>8. SameName(e, e)
    BY <2>4, <2>6, <1>2 DEF SameName
  <2>9. \A y \in DOMAIN e : OwnedIn(f, y, r.heap[e[y]], written)
    BY <2>4, <2>6, <1>2
  <2>10. FrameSound(f, r.env, r.heap, written)
    BY <2>5, <2>7, <2>8, <2>9 DEF FrameSound
  <2>11. KeepsOthers(w.heap, r.heap, others)
    BY <2>4, <1>3 DEF KeepsOthers
  <2>12. \A g \in others : NoShare(g.env, r.env)
    BY <2>4, <2>5, <2>6, <1>1, <1>3 DEF NoShare
  <2>13. ASSUME RecordSound(w, f, others, written), NEW i \in DOMAIN w.record
         PROVE  /\ SameName(w.record[i].changes, r.env)
                /\ \A y \in DOMAIN w.record[i].changes : OwnedIn(f, y, r.heap[w.record[i].changes[y]], written)
    <3> DEFINE d == w.record[i].changes
    <3>1. d \in PairsOf(w.heap)
      BY RecordPairs
    <3>2. SameName(d, w.env) /\ \A y \in DOMAIN d : OwnedIn(f, y, w.heap[d[y]], written)
      BY <2>13 DEF RecordSound, ChangesSound
    <3> HIDE DEF d
    <3>3. \A y \in DOMAIN d : d[y] \in DOMAIN w.heap
      BY <3>1, EnvElim
    <3>4. SameName(d, e)
      BY <3>2, <3>3, <2>4, <2>6 DEF SameName
    <3> QED
      BY <3>2, <3>3, <3>4, <2>4, <2>5 DEF d
  <2>14. r = [heap |-> r.heap, env |-> r.env, record |-> w.record, previous |-> w.previous]
    BY <2>1
  <2>15. WorkspaceSound(r, f, others, written)
    BY <2>4, <2>10, <2>11, <2>12, <2>14, StepSound
  <2>16. RecordSound(w, f, others, written) => RecordSound(r, f, others, written)
    BY <2>4, <2>10, <2>11, <2>12, <2>13, <2>14, StepSound
  <2> QED
    BY <2>11, <2>15, <2>16 DEF r
<1> QED
  BY <1>4, <1>5

(* A name is taken out of the environment, or all of them are. *)
LEMMA WithoutSound ==
  ASSUME NEW w, NEW f, NEW others, NEW written, WorkspaceSound(w, f, others, written),
         NEW x
  PROVE  LET r == [w EXCEPT !.env = Without(x, @)]
         IN  /\ WorkspaceSound(r, f, others, written)
             /\ r.heap = w.heap
             /\ RecordSound(w, f, others, written) => RecordSound(r, f, others, written)
<1> DEFINE e == Without(x, w.env)
           r == [w EXCEPT !.env = Without(x, @)]
<1>1. /\ w = [heap |-> w.heap, env |-> w.env, record |-> w.record, previous |-> w.previous]
      /\ w.heap \in Seq(Value) /\ w.env \in PairsOf(w.heap)
      /\ FrameSound(f, w.env, w.heap, written)
      /\ \A g \in others : FrameSound(g.name, g.env, w.heap, written) /\ NoShare(g.env, w.env)
  BY DEF WorkspaceSound, FrameSound
<1>2. r = [heap |-> w.heap, env |-> e, record |-> w.record, previous |-> w.previous]
  BY <1>1
<1>3. /\ e = [y \in DOMAIN e |-> e[y]]
      /\ \A y \in DOMAIN e : y \in DOMAIN w.env /\ e[y] = w.env[y]
  BY DEF Without
<1> HIDE DEF e, r
<1>4. e \in PairsOf(w.heap)
  <2>1. DOMAIN e \subseteq Var /\ \A y \in DOMAIN e : e[y] \in DOMAIN w.heap
    BY <1>1, <1>3, EnvElim
  <2> QED
    BY <2>1, <1>3, EnvIntro
<1>5. FrameSound(f, e, w.heap, written)
  BY <1>1, <1>3, <1>4 DEF FrameSound, SameName
<1>6. \A g \in others : NoShare(g.env, e)
  BY <1>1, <1>3 DEF NoShare
<1>7. ASSUME RecordSound(w, f, others, written), NEW i \in DOMAIN w.record
      PROVE  /\ SameName(w.record[i].changes, r.env)
             /\ \A y \in DOMAIN w.record[i].changes : OwnedIn(f, y, r.heap[w.record[i].changes[y]], written)
  BY <1>2, <1>3, <1>7 DEF RecordSound, ChangesSound, SameName
<1>8. r = [heap |-> r.heap, env |-> r.env, record |-> w.record, previous |-> w.previous] 
  BY <1>2
<1>9. /\ r.heap \in Seq(Value) /\ DOMAIN w.heap \subseteq DOMAIN r.heap
      /\ FrameSound(f, r.env, r.heap, written)
      /\ KeepsOthers(w.heap, r.heap, others)
      /\ \A g \in others : NoShare(g.env, r.env)
  BY <1>1, <1>2, <1>5, <1>6 DEF KeepsOthers
<1>10. WorkspaceSound(r, f, others, written)
  BY <1>8, <1>9, StepSound
<1>11. RecordSound(w, f, others, written) => RecordSound(r, f, others, written)
  BY <1>7, <1>8, <1>9, StepSound
<1>12. r.heap = w.heap
  BY <1>2
<1> QED
  BY <1>10, <1>11, <1>12 DEF r

-----------------------------------------------------------------------------
(***************************************************************************)
(* undoSingleStep keeps the workspace and its record sound: a pair of the  *)
(* record that is also one of the environment belongs to the same name.    *)
(***************************************************************************)
LEMMA UndoSingleStepSound ==
  ASSUME NEW w, NEW f, NEW others, NEW written,
         WorkspaceSound(w, f, others, written), RecordSound(w, f, others, written),
         NEW k \in DOMAIN w.record
  PROVE  LET r == UndoSingleStep(w.record[k].changes, w)
         IN  /\ WorkspaceSound(r, f, others, written)
             /\ RecordSound(r, f, others, written)
             /\ KeepsOthers(w.heap, r.heap, others)
             /\ DOMAIN r.heap = DOMAIN w.heap
             /\ r.record = w.record
<1> DEFINE c == w.record[k].changes
           r == UndoSingleStep(c, w)
           known == DOMAIN c \cap DOMAIN w.env
           NamesOf(d) == {x \in known : w.env[x] = d}
           NameOf(d) == CHOOSE x \in NamesOf(d) : TRUE
           newHeap == [d \in DOMAIN w.heap |->
                          IF NamesOf(d) = {} THEN w.heap[d] ELSE w.heap[c[NameOf(d)]]]
           newEnv == [x \in DOMAIN w.env \cup DOMAIN c |-> IF x \in DOMAIN w.env THEN w.env[x] ELSE c[x]]
<1>1. /\ w = [heap |-> w.heap, env |-> w.env, record |-> w.record, previous |-> w.previous]
      /\ w.heap \in Seq(Value) /\ w.env \in PairsOf(w.heap)
      /\ \A g \in others : FrameSound(g.name, g.env, w.heap, written) /\ NoShare(g.env, w.env)
      /\ SameName(w.env, w.env)
      /\ \A x \in DOMAIN w.env : OwnedIn(f, x, w.heap[w.env[x]], written)
  BY DEF WorkspaceSound, FrameSound
<1>2. /\ DOMAIN w.env \subseteq Var
      /\ \A y \in DOMAIN w.env : w.env[y] \in DOMAIN w.heap
  BY <1>1, EnvElim
<1>3. \A g \in others : \A y \in DOMAIN g.env : g.env[y] \in DOMAIN w.heap
  BY <1>1, EnvElim DEF FrameSound
<1>4. /\ c \in PairsOf(w.heap)
      /\ \A x \in DOMAIN c : OwnedIn(f, x, w.heap[c[x]], written)
      /\ SameName(c, w.env)
      /\ \A g \in others : NoShare(g.env, c)
      /\ \A i \in DOMAIN w.record : SameName(w.record[i].changes, c)
  BY RecordPairs DEF RecordSound, ChangesSound
<1>5. DOMAIN c \subseteq Var /\ \A x \in DOMAIN c : c[x] \in DOMAIN w.heap
  BY <1>4, EnvElim
<1>6. SameName(c, c)
  BY <1>4
<1>7. r = [heap |-> newHeap, env |-> newEnv, record |-> w.record, previous |-> w.previous]
  <2> HIDE DEF c
  <2>1. r = [w EXCEPT !.heap = newHeap, !.env = newEnv]
    BY DEF UndoSingleStep
  <2> HIDE DEF r, newHeap, newEnv
  <2> QED
    BY <1>1, <2>1
<1> HIDE DEF c, r
<1>8. /\ DOMAIN r.heap = DOMAIN w.heap
      /\ r.heap = [d \in DOMAIN w.heap |-> r.heap[d]]
      /\ \A y \in known : r.heap[w.env[y]] = w.heap[c[y]]
      /\ \A d \in DOMAIN w.heap : (\A y \in known : w.env[y] # d) => r.heap[d] = w.heap[d]
  <2>1. \A y \in known : NamesOf(w.env[y]) = {y}
    BY <1>1 DEF SameName
  <2>2. \A d \in DOMAIN w.heap : (\A y \in known : w.env[y] # d) => NamesOf(d) = {}
    OBVIOUS
  <2>3. \A y \in known : w.env[y] \in DOMAIN w.heap
    BY <1>2
  <2>4. \A d \in DOMAIN w.heap : r.heap[d] = IF NamesOf(d) = {} THEN w.heap[d]
                                             ELSE w.heap[c[NameOf(d)]]
    BY <1>7
  <2>5. DOMAIN r.heap = DOMAIN w.heap /\ r.heap = [d \in DOMAIN w.heap |-> r.heap[d]]
    BY <1>7
  <2>6. \A y \in known : NameOf(w.env[y]) = y
    BY <2>1
  <2> HIDE DEF NamesOf, NameOf, known
  <2>7. ASSUME NEW y \in known
        PROVE  r.heap[w.env[y]] = w.heap[c[y]]
    <3>1. NamesOf(w.env[y]) # {}
      BY <2>1
    <3> QED
      BY <3>1, <2>3, <2>4, <2>6
  <2> QED
    BY <2>2, <2>4, <2>5, <2>7
<1>9. /\ DOMAIN r.env = DOMAIN w.env \cup DOMAIN c
      /\ r.env = [x \in DOMAIN r.env |-> r.env[x]]
      /\ \A x \in DOMAIN w.env : r.env[x] = w.env[x]
      /\ \A x \in DOMAIN c : x \notin DOMAIN w.env => r.env[x] = c[x]
  BY <1>7
<1>10. r.record = w.record /\ r.previous = w.previous
  BY <1>7
<1>11. r = [heap |-> r.heap, env |-> r.env, record |-> w.record, previous |-> w.previous]
  BY <1>7
<1> HIDE DEF NamesOf, NameOf, newHeap, newEnv
<1>12. r.heap \in Seq(Value)
  <2>1. DOMAIN w.heap = 1 .. Len(w.heap) /\ Len(w.heap) \in Nat
        /\ \A d \in DOMAIN w.heap : w.heap[d] \in Value
    BY <1>1, ElemsOfSeq
  <2>2. \A d \in DOMAIN w.heap : (\A y \in known : w.env[y] # d) \/ \E y \in known : w.env[y] = d
    OBVIOUS
  <2>3. \A y \in known : c[y] \in DOMAIN w.heap
    BY <1>5
  <2>4. \A d \in DOMAIN w.heap : r.heap[d] \in Value
    <3>1. ASSUME NEW d \in DOMAIN w.heap
          PROVE  r.heap[d] \in Value
      <4>1. CASE \A y \in known : w.env[y] # d
        BY <4>1, <1>8, <2>1
      <4>2. CASE \E y \in known : w.env[y] = d
        BY <4>2, <1>8, <2>1, <2>3
      <4> QED
        BY <4>1, <4>2
    <3> QED
      BY <3>1
  <2>5. r.heap \in [1 .. Len(w.heap) -> Value]
    BY <1>8, <2>1, <2>4
  <2> QED
    BY <2>1, <2>5
<1>13. KeepsOthers(w.heap, r.heap, others)
  <2>1. ASSUME NEW g \in others, NEW y \in DOMAIN g.env
        PROVE  r.heap[g.env[y]] = w.heap[g.env[y]]
    <3>1. g.env[y] \in DOMAIN w.heap
      BY <1>3
    <3>2. \A z \in known : w.env[z] # g.env[y]
      BY <1>1 DEF NoShare
    <3> QED
      BY <3>1, <3>2, <1>8
  <2> QED
    BY <1>8, <2>1 DEF KeepsOthers
(* What the new heap binds a pair that belongs to the name x to. *)
<1>14. ASSUME NEW x, NEW d \in DOMAIN w.heap, OwnedIn(f, x, w.heap[d], written),
              \A y \in known : w.env[y] = d => y = x
       PROVE  OwnedIn(f, x, r.heap[d], written)
  <2>1. CASE \A y \in known : w.env[y] # d
    BY <2>1, <1>8, <1>14
  <2>2. CASE \E y \in known : w.env[y] = d
    <3>1. x \in known /\ w.env[x] = d
      BY <2>2, <1>14
    <3>2. r.heap[d] = w.heap[c[x]]
      BY <3>1, <1>8
    <3> QED
      BY <3>1, <3>2, <1>4
  <2> QED
    BY <2>1, <2>2
<1>15. \A x \in DOMAIN r.env : \/ x \in DOMAIN w.env /\ r.env[x] = w.env[x]
                               \/ x \in DOMAIN c /\ r.env[x] = c[x]
  BY <1>9
<1>16. FrameSound(f, r.env, r.heap, written)
  <2>1. r.env \in PairsOf(r.heap)
    <3>1. \A x \in DOMAIN r.env : r.env[x] \in DOMAIN r.heap
      BY <1>2, <1>5, <1>8, <1>15
    <3>2. DOMAIN r.env \subseteq Var
      BY <1>2, <1>5, <1>9
    <3> QED
      BY <3>1, <3>2, <1>9, EnvIntro
  <2>2. SameName(r.env, r.env)
    BY <1>15, <1>1, <1>4, <1>6 DEF SameName
  <2>3. ASSUME NEW x \in DOMAIN r.env
        PROVE  OwnedIn(f, x, r.heap[r.env[x]], written)
    <3>1. CASE x \in DOMAIN w.env /\ r.env[x] = w.env[x]
      <4>1. \A y \in known : w.env[y] = w.env[x] => y = x
        BY <3>1, <1>1 DEF SameName
      <4> QED
        BY <3>1, <4>1, <1>1, <1>2, <1>14
    <3>2. CASE x \in DOMAIN c /\ r.env[x] = c[x]
      <4>1. \A y \in known : w.env[y] = c[x] => y = x
        BY <3>2, <1>4 DEF SameName
      <4> QED
        BY <3>2, <4>1, <1>4, <1>5, <1>14
    <3> QED
      BY <3>1, <3>2, <1>15
  <2> QED
    BY <2>1, <2>2, <2>3 DEF FrameSound
<1>17. \A g \in others : NoShare(g.env, r.env)
  BY <1>15, <1>1, <1>4 DEF NoShare
<1>18. ASSUME NEW i \in DOMAIN w.record
       PROVE  /\ SameName(w.record[i].changes, r.env)
              /\ \A x \in DOMAIN w.record[i].changes : OwnedIn(f, x, r.heap[w.record[i].changes[x]], written)
  <2> DEFINE b == w.record[i].changes
  <2>1. b \in PairsOf(w.heap)
    BY RecordPairs
  <2>2. SameName(b, w.env) /\ \A x \in DOMAIN b : OwnedIn(f, x, w.heap[b[x]], written)
    BY DEF RecordSound, ChangesSound
  <2>3. SameName(b, c)
    BY <1>4
  <2> HIDE DEF b
  <2>4. \A x \in DOMAIN b : b[x] \in DOMAIN w.heap
    BY <2>1, EnvElim
  <2>5. SameName(b, r.env)
    BY <2>2, <2>3, <1>15 DEF SameName
  <2>6. ASSUME NEW x \in DOMAIN b
        PROVE  OwnedIn(f, x, r.heap[b[x]], written)
    <3>1. \A y \in known : w.env[y] = b[x] => y = x
      BY <2>2 DEF SameName
    <3> QED
      BY <3>1, <2>2, <2>4, <1>14
  <2> QED
    BY <2>5, <2>6 DEF b
<1>19. DOMAIN w.heap \subseteq DOMAIN r.heap
  BY <1>8
<1>20. WorkspaceSound(r, f, others, written)
  BY <1>11, <1>12, <1>13, <1>16, <1>17, <1>19, StepSound
<1>21. RecordSound(r, f, others, written)
  BY <1>11, <1>12, <1>13, <1>16, <1>17, <1>18, <1>19, StepSound
<1> QED
  BY <1>8, <1>10, <1>13, <1>20, <1>21 DEF r, c

(* COPY of the environment: new pairs with the same values. *)
LEMMA CopyEnvSound ==
  ASSUME NEW w, NEW f, NEW others, NEW written, commands \in Nat,
         WorkspaceSound(w, f, others, written), RecordSound(w, f, others, written)
  PROVE  /\ WorkspaceSound(CopyEnv(w), f, others, written)
         /\ RecordSound(CopyEnv(w), f, others, written)
         /\ KeepsOthers(w.heap, CopyEnv(w).heap, others)
         /\ DOMAIN w.heap \subseteq DOMAIN CopyEnv(w).heap
         /\ CopyEnv(w).record = w.record
<1> DEFINE Copied(v) == IF v = Nil THEN Nil ELSE [v EXCEPT !.copy = commands + 1]
           b == [x \in DOMAIN w.env |-> Copied(w.heap[w.env[x]])]
           n == NewPairs(w.heap, b)
           r == CopyEnv(w)
<1>1. /\ w = [heap |-> w.heap, env |-> w.env, record |-> w.record, previous |-> w.previous]
      /\ w.heap \in Seq(Value) /\ w.env \in PairsOf(w.heap)
      /\ \A g \in others : FrameSound(g.name, g.env, w.heap, written) /\ NoShare(g.env, w.env)
      /\ \A x \in DOMAIN w.env : OwnedIn(f, x, w.heap[w.env[x]], written)
  BY DEF WorkspaceSound, FrameSound
<1>2. /\ DOMAIN w.env \subseteq Var
      /\ \A y \in DOMAIN w.env : w.env[y] \in DOMAIN w.heap /\ w.heap[w.env[y]] \in Value
  BY <1>1, EnvElim, ElemsOfSeq
<1>3. \A g \in others : \A y \in DOMAIN g.env : g.env[y] \in DOMAIN w.heap
  BY <1>1, EnvElim DEF FrameSound
<1>4. r = [heap |-> n.heap, env |-> n.cells, record |-> w.record, previous |-> w.previous]
  <2>1. r = [w EXCEPT !.heap = n.heap, !.env = n.cells]
    BY DEF CopyEnv
  <2> HIDE DEF r, n
  <2> QED
    BY <1>1, <2>1
<1>5. ASSUME NEW v \in Value
      PROVE  /\ Copied(v) \in Value
             /\ \A x : OwnedIn(f, x, v, written) => OwnedIn(f, x, Copied(v), written)
  <2>1. v = [val |-> v.val, copy |-> v.copy] /\ v.val \in Nat /\ commands + 1 \in Nat
    BY DEF Value
  <2>2. CASE v = Nil
    BY <2>2
  <2>3. CASE v # Nil
    <3>1. Copied(v) = [val |-> v.val, copy |-> commands + 1]
      BY <2>1, <2>3
    <3>2. Copied(v) \in Value /\ Copied(v).val = v.val
      BY <3>1, <2>1 DEF Value
    <3> QED
      BY <3>2, <2>3 DEF OwnedIn
  <2> QED
    BY <2>2, <2>3
<1> HIDE DEF Copied
<1>6. /\ DOMAIN b = DOMAIN w.env /\ b = [x \in DOMAIN b |-> b[x]]
      /\ \A x \in DOMAIN b : b[x] \in Value /\ OwnedIn(f, x, b[x], written)
      /\ IsFiniteSet(DOMAIN b)
  BY <1>1, <1>2, <1>5, FS_Subset, WorkspaceAssumption
<1> HIDE DEF b
<1>7. /\ n.heap \in Seq(Value)
      /\ Len(n.heap) >= Len(w.heap)
      /\ \A c \in DOMAIN w.heap : n.heap[c] = w.heap[c]
      /\ n.cells = [x \in DOMAIN b |-> n.cells[x]]
      /\ \A x \in DOMAIN b : /\ n.cells[x] \in DOMAIN n.heap
                             /\ n.cells[x] \notin DOMAIN w.heap
                             /\ n.heap[n.cells[x]] = b[x]
      /\ \A x \in DOMAIN b, y \in DOMAIN b : n.cells[x] = n.cells[y] => x = y
  BY <1>1, <1>6, NewPairsAreNew
<1> HIDE DEF n, r
<1>8. DOMAIN n.cells = DOMAIN b
  BY <1>7
<1>9. DOMAIN w.heap \subseteq DOMAIN n.heap
  BY <1>1, <1>7
<1>10. r.heap = n.heap /\ r.env = n.cells /\ r.record = w.record
  BY <1>4
<1>11. FrameSound(f, r.env, r.heap, written)
  <2>1. n.cells \in PairsOf(n.heap)
    BY <1>2, <1>6, <1>7, <1>8, EnvIntro
  <2>2. SameName(n.cells, n.cells)
    BY <1>7, <1>8 DEF SameName
  <2>3. \A x \in DOMAIN n.cells : OwnedIn(f, x, n.heap[n.cells[x]], written)
    BY <1>6, <1>7, <1>8
  <2> QED
    BY <2>1, <2>2, <2>3, <1>10 DEF FrameSound
<1>12. KeepsOthers(w.heap, r.heap, others)
  BY <1>3, <1>7, <1>10 DEF KeepsOthers
<1>13. \A g \in others : NoShare(g.env, r.env)
  BY <1>3, <1>7, <1>8, <1>10 DEF NoShare
<1>14. ASSUME NEW i \in DOMAIN w.record
       PROVE  /\ SameName(w.record[i].changes, r.env)
              /\ \A x \in DOMAIN w.record[i].changes : OwnedIn(f, x, r.heap[w.record[i].changes[x]], written)
  <2> DEFINE d == w.record[i].changes
  <2>1. d \in PairsOf(w.heap)
    BY RecordPairs
  <2>2. \A x \in DOMAIN d : OwnedIn(f, x, w.heap[d[x]], written)
    BY DEF RecordSound, ChangesSound
  <2> HIDE DEF d
  <2>3. \A x \in DOMAIN d : d[x] \in DOMAIN w.heap
    BY <2>1, EnvElim
  <2>4. SameName(d, r.env)
    BY <2>3, <1>7, <1>8, <1>10 DEF SameName
  <2> QED
    BY <2>2, <2>3, <2>4, <1>7, <1>10 DEF d
<1>15. r = [heap |-> r.heap, env |-> r.env, record |-> w.record, previous |-> w.previous]
  BY <1>4
<1>16. r.heap \in Seq(Value) /\ DOMAIN w.heap \subseteq DOMAIN r.heap
  BY <1>7, <1>9, <1>10
<1>17. WorkspaceSound(r, f, others, written)
  BY <1>11, <1>12, <1>13, <1>15, <1>16, StepSound
<1>18. RecordSound(r, f, others, written)
  BY <1>11, <1>12, <1>13, <1>14, <1>15, <1>16, StepSound
<1> QED
  BY <1>10, <1>12, <1>16, <1>17, <1>18 DEF r

-----------------------------------------------------------------------------
(* The walk of undoSteps: its first stop, and the one after the stop s. *)
FirstStop(start) == [w |-> CopyEnv(start), at |-> 0, tail |-> 0]

NextStop(start, s) ==
    LET k == s.at + 1
        one == UndoSingleStep(start.record[k].changes, s.w)
    IN  IF k > Len(start.record) THEN s
        ELSE IF SkipsSystem(start.record, k)
        THEN [w |-> UndoSingleStep(start.record[k + 1].changes, one), at |-> k + 1, tail |-> s.tail]
        ELSE [w |-> one, at |-> k, tail |-> k]

IsWalk(walk, n, start) ==
    walk = [i \in -1 .. n |-> IF i < 0 THEN FirstStop(start) ELSE NextStop(start, walk[i - 1])]

StopSound(s, start, f, others, written) ==
    /\ s = [w |-> s.w, at |-> s.at, tail |-> s.tail]
    /\ s.at \in Nat /\ s.tail \in Nat
    /\ WorkspaceSound(s.w, f, others, written)
    /\ RecordSound(s.w, f, others, written)
    /\ s.w.record = start.record
    /\ KeepsOthers(start.heap, s.w.heap, others)

(* Every set of natural numbers has a least one. *)
LEMMA LeastNat ==
  ASSUME NEW T, T \subseteq Nat, T # {}
  PROVE  \E x \in T : \A y \in T : x <= y
<1>1. PICK x \in T : \A y \in T : ~ (<<y, x>> \in OpToRel(<, Nat))
  BY NatLessThanWellFounded, WFMin
<1>2. ASSUME NEW y \in T
      PROVE  x <= y
  <2>1. x \in Nat /\ y \in Nat
    OBVIOUS
  <2>2. ~ (y < x)
    BY <1>1, <2>1 DEF OpToRel
  <2> QED
    BY <2>1, <2>2
<1> QED
  BY <1>2

LEMMA WalkUnfolds ==
  ASSUME NEW start, NEW m \in Int
  PROVE  LET to == IF m < 0 THEN -1 ELSE m
         IN  Walk(m, start) = (CHOOSE walk : IsWalk(walk, to, start))[to]
BY DEF Walk, IsWalk, FirstStop, NextStop

(* There is a walk of every length: the least length without one cannot be. *)
LEMMA WalkExists ==
  ASSUME NEW start, NEW m \in Nat
  PROVE  \E walk : IsWalk(walk, m - 1, start)
<1> DEFINE T == {n \in Nat : ~ \E walk : IsWalk(walk, n - 1, start)}
<1>1. SUFFICES ASSUME T # {} PROVE FALSE
  OBVIOUS
<1>2. PICK n \in T : \A k \in T : n <= k
  BY <1>1, LeastNat
<1>3. CASE n = 0
  <2>1. IsWalk([i \in -1 .. -1 |-> FirstStop(start)], -1, start)
    BY DEF IsWalk
  <2> QED
    BY <1>3, <2>1
<1>4. CASE n > 0
  <2>1. n - 1 \in Nat /\ ~ (n <= n - 1) /\ n \in Nat
    BY <1>4
  <2>2. n - 1 \notin T
    BY <1>2, <2>1
  <2>3. PICK walk : IsWalk(walk, n - 2, start)
    BY <2>1, <2>2
  <2> DEFINE longer == [i \in -1 .. n - 1 |-> IF i = n - 1 THEN NextStop(start, walk[n - 2]) ELSE walk[i]]
  <2>4. ASSUME NEW i \in -1 .. n - 1
        PROVE  longer[i] = IF i < 0 THEN FirstStop(start) ELSE NextStop(start, longer[i - 1])
    <3>1. \A j \in -1 .. n - 2 :
             walk[j] = IF j < 0 THEN FirstStop(start) ELSE NextStop(start, walk[j - 1])
      BY <2>3 DEF IsWalk
    <3>2. \A j \in -1 .. n - 2 : longer[j] = walk[j]
      BY <2>1
    <3>3. longer[n - 1] = NextStop(start, walk[n - 2])
      BY <2>1
    <3> HIDE DEF longer
    <3>4. CASE i = n - 1
      <4>1. n - 2 \in -1 .. n - 2 /\ ~ (i < 0) /\ i - 1 = n - 2
        BY <2>1, <1>4, <3>4
      <4>2. longer[i - 1] = walk[n - 2]
        BY <4>1, <3>2
      <4> QED
        BY <4>1, <4>2, <3>3, <3>4
    <3>5. CASE i # n - 1
      <4>1. i \in -1 .. n - 2
        BY <2>1, <3>5
      <4>2. CASE i < 0
        BY <4>1, <4>2, <3>1, <3>2
      <4>3. CASE ~ (i < 0)
        <5>1. i - 1 \in -1 .. n - 2
          BY <4>1, <4>3, <2>1
        <5>2. longer[i - 1] = walk[i - 1] /\ longer[i] = walk[i]
          BY <4>1, <5>1, <3>2
        <5> QED
          BY <5>2, <4>1, <4>3, <3>1
      <4> QED
        BY <4>2, <4>3
    <3> QED
      BY <3>4, <3>5
  <2>5. longer = [i \in -1 .. n - 1 |-> longer[i]]
    OBVIOUS
  <2> HIDE DEF longer
  <2>6. IsWalk(longer, n - 1, start)
    BY <2>4, <2>5 DEF IsWalk
  <2> QED
    BY <2>6
<1> QED
  BY <1>2, <1>3, <1>4

LEMMA KeepsOthersTwice ==
  ASSUME NEW h, NEW i, NEW j, NEW others, KeepsOthers(h, i, others), KeepsOthers(i, j, others)
  PROVE  KeepsOthers(h, j, others)
BY DEF KeepsOthers

LEMMA NextStopSound ==
  ASSUME NEW start, NEW s, NEW f, NEW others, NEW written,
         StopSound(s, start, f, others, written)
  PROVE  StopSound(NextStop(start, s), start, f, others, written)
<1> DEFINE k == s.at + 1
           one == UndoSingleStep(start.record[k].changes, s.w)
           two == UndoSingleStep(start.record[k + 1].changes, one)
           t == NextStop(start, s)
<1>1. /\ s.at \in Nat /\ s.tail \in Nat
      /\ WorkspaceSound(s.w, f, others, written)
      /\ RecordSound(s.w, f, others, written)
      /\ s.w.record = start.record
      /\ KeepsOthers(start.heap, s.w.heap, others)
  BY DEF StopSound
<1>2. DOMAIN start.record = 1 .. Len(start.record) /\ Len(start.record) \in Nat
  BY <1>1, ElemsOfSeq DEF WorkspaceSound
<1>3. CASE k > Len(start.record)
  BY <1>3 DEF NextStop
<1>4. CASE k <= Len(start.record)
  <2>1. k \in DOMAIN start.record
    BY <1>1, <1>2, <1>4
  <2>2. /\ WorkspaceSound(one, f, others, written)
        /\ RecordSound(one, f, others, written)
        /\ KeepsOthers(s.w.heap, one.heap, others)
        /\ one.record = start.record
    BY <1>1, <2>1, UndoSingleStepSound
  <2>3. KeepsOthers(start.heap, one.heap, others)
    BY <1>1, <2>2, KeepsOthersTwice
  <2>4. ~ (k > Len(start.record)) /\ k \in Nat
    BY <1>1, <1>2, <1>4
  <2>5. CASE SkipsSystem(start.record, k)
    <3>1. t = [w |-> two, at |-> k + 1, tail |-> s.tail]
      BY <2>4, <2>5 DEF NextStop
    <3>2. k + 1 \in DOMAIN start.record
      BY <1>1, <1>2, <2>5 DEF SkipsSystem
    <3> HIDE DEF one, k, t
    <3>3. /\ WorkspaceSound(two, f, others, written)
          /\ RecordSound(two, f, others, written)
          /\ KeepsOthers(one.heap, two.heap, others)
          /\ two.record = start.record
      BY <2>2, <3>2, UndoSingleStepSound
    <3>4. KeepsOthers(start.heap, two.heap, others)
      BY <2>3, <3>3, KeepsOthersTwice
    <3> HIDE DEF two
    <3>5. StopSound(t, start, f, others, written)
      BY <1>1, <2>4, <3>1, <3>3, <3>4 DEF StopSound
    <3> QED
      BY <3>5 DEF t
  <2>6. CASE ~ SkipsSystem(start.record, k)
    <3>1. t = [w |-> one, at |-> k, tail |-> k]
      BY <2>4, <2>6 DEF NextStop
    <3> HIDE DEF one, k, t
    <3>2. StopSound(t, start, f, others, written)
      BY <2>2, <2>3, <2>4, <3>1 DEF StopSound
    <3> QED
      BY <3>2 DEF t
  <2> QED
    BY <2>5, <2>6
<1> QED
  BY <1>1, <1>2, <1>3, <1>4

(* Wherever the walk of )undo stops, the workspace is sound. *)
LEMMA WalkSound ==
  ASSUME NEW start, NEW f, NEW others, NEW written, NEW m \in Int, commands \in Nat,
         WorkspaceSound(start, f, others, written), RecordSound(start, f, others, written)
  PROVE  StopSound(Walk(m, start), start, f, others, written)
<1> DEFINE to == IF m < 0 THEN -1 ELSE m
           walk == CHOOSE w : IsWalk(w, to, start)
           T == {n \in Nat : n <= to + 1 /\ ~ StopSound(walk[n - 1], start, f, others, written)}
<1>1. to \in Int /\ to >= -1
  OBVIOUS
<1>2. \E w : IsWalk(w, to, start)
  <2>1. to + 1 \in Nat /\ (to + 1) - 1 = to
    BY <1>1
  <2> QED
    BY <2>1, WalkExists
<1>3. IsWalk(walk, to, start)
  BY <1>2
<1>4. Walk(m, start) = walk[to]
  BY WalkUnfolds
<1> HIDE DEF to, walk
<1>5. \A i \in -1 .. to : walk[i] = IF i < 0 THEN FirstStop(start) ELSE NextStop(start, walk[i - 1])
  BY <1>3 DEF IsWalk
<1>6. T = {}
  <2>1. SUFFICES ASSUME T # {} PROVE FALSE
    OBVIOUS
  <2>2. PICK n \in T : \A k \in T : n <= k
    BY <2>1, LeastNat
  <2>3. n \in Nat /\ n <= to + 1 /\ ~ StopSound(walk[n - 1], start, f, others, written)
    BY <2>2
  <2>4. CASE n = 0
    <3>1. walk[-1] = FirstStop(start)
      BY <1>1, <1>5
    <3>2. StopSound(FirstStop(start), start, f, others, written)
      BY CopyEnvSound DEF FirstStop, StopSound
    <3> QED
      BY <2>3, <2>4, <3>1, <3>2
  <2>5. CASE n > 0
    <3>1. n - 1 \in Nat /\ n - 1 <= to + 1 /\ ~ (n <= n - 1)
      BY <2>3, <2>5, <1>1
    <3>2. StopSound(walk[(n - 1) - 1], start, f, others, written)
      BY <2>2, <3>1
    <3>3. n - 1 \in -1 .. to /\ ~ (n - 1 < 0)
      BY <2>3, <2>5, <1>1
    <3>4. walk[n - 1] = NextStop(start, walk[(n - 1) - 1])
      BY <1>5, <3>3
    <3> QED
      BY <2>3, <3>2, <3>4, NextStopSound
  <2> QED
    BY <2>3, <2>4, <2>5
<1>7. to + 1 \in Nat /\ (to + 1) - 1 = to
  BY <1>1
<1> QED
  BY <1>4, <1>6, <1>7

LEMMA RecordFrameRecords ==
  ASSUME NEW w
  PROVE  \E e : RecordFrame(FALSE, w).record = <<e>> \o w.record
BY DEF RecordFrame

LEMMA TailOfSeq ==
  ASSUME NEW S, NEW s \in Seq(S), Len(s) > 0
  PROVE  /\ Tail(s) \in Seq(S)
         /\ Len(Tail(s)) = Len(s) - 1
         /\ \A i \in 1 .. Len(s) - 1 : Tail(s)[i] = s[i + 1]
OBVIOUS

(* )undo keeps the workspace and its record sound. *)
LEMMA UndoStepsSound ==
  ASSUME NEW f, NEW others, NEW written, NEW m \in Int, NEW when, commands \in Nat,
         WorkspaceSound(Here, f, others, written), RecordSound(Here, f, others, written)
  PROVE  LET r == UndoSteps(m, when)
         IN  /\ WorkspaceSound(r, f, others, written)
             /\ RecordSound(r, f, others, written)
             /\ KeepsOthers(heap, r.heap, others)
<1> DEFINE start == RecordFrame(FALSE, Here)
           end == Walk(m, start)
           more == when = "before" /\ end.tail \in 1 .. Len(start.record) - 1
           final == IF more THEN UndoSingleStep(start.record[end.tail + 1].changes, end.w) ELSE end.w
           r == UndoSteps(m, when)
<1>1. Here.heap = heap
  BY DEF Here
<1>2. /\ WorkspaceSound(start, f, others, written)
      /\ RecordSound(start, f, others, written)
      /\ DOMAIN Here.heap \subseteq DOMAIN start.heap
      /\ \A c \in DOMAIN Here.heap : start.heap[c] = Here.heap[c]
  BY RecordFrameSound
<1>3. KeepsOthers(heap, start.heap, others)
  <2>1. \A g \in others : \A x \in DOMAIN g.env : g.env[x] \in DOMAIN Here.heap
    BY EnvElim DEF WorkspaceSound, FrameSound
  <2> QED
    BY <1>1, <1>2, <2>1 DEF KeepsOthers
<1>4. r = [final EXCEPT !.record = Tail(start.record)]
  BY DEF UndoSteps
<1>5. PICK e : start.record = <<e>> \o Here.record
  BY RecordFrameRecords
<1> HIDE DEF start
<1>6. StopSound(end, start, f, others, written)
  BY <1>2, WalkSound
<1> HIDE DEF end
<1>7. /\ WorkspaceSound(end.w, f, others, written)
      /\ RecordSound(end.w, f, others, written)
      /\ end.w.record = start.record
      /\ KeepsOthers(start.heap, end.w.heap, others)
  BY <1>6 DEF StopSound
<1>8. /\ WorkspaceSound(final, f, others, written)
      /\ RecordSound(final, f, others, written)
      /\ final.record = start.record
      /\ KeepsOthers(start.heap, final.heap, others)
  <2>1. CASE ~ more
    BY <1>7, <2>1
  <2>2. CASE more
    <3>1. DOMAIN start.record = 1 .. Len(start.record) /\ Len(start.record) \in Nat
      BY <1>2, ElemsOfSeq DEF WorkspaceSound
    <3>2. end.tail + 1 \in DOMAIN end.w.record
      BY <1>7, <2>2, <3>1
    <3> DEFINE one == UndoSingleStep(end.w.record[end.tail + 1].changes, end.w)
    <3>3. /\ WorkspaceSound(one, f, others, written)
          /\ RecordSound(one, f, others, written)
          /\ KeepsOthers(end.w.heap, one.heap, others)
          /\ one.record = end.w.record
      BY <1>7, <3>2, UndoSingleStepSound
    <3>4. KeepsOthers(start.heap, one.heap, others)
      BY <1>7, <3>3, KeepsOthersTwice
    <3>5. final = one
      BY <1>7, <2>2
    <3> HIDE DEF one, final
    <3> QED
      BY <1>7, <3>3, <3>4, <3>5
  <2> QED
    BY <2>1, <2>2
<1> HIDE DEF final, r
<1> DEFINE Entries == [system : BOOLEAN, changes : PairsOf(final.heap)]
<1>9. final.record \in Seq(Entries)
  BY <1>8 DEF WorkspaceSound
<1>10. final = [heap |-> final.heap, env |-> final.env, record |-> final.record, previous |-> final.previous]
  BY <1>8 DEF WorkspaceSound
<1>11. r = [heap |-> final.heap, env |-> final.env, record |-> Tail(final.record), previous |-> final.previous]
  BY <1>4, <1>8, <1>10
<1> HIDE DEF Entries
<1>12. /\ Tail(final.record) \in Seq(Entries)
       /\ \A i \in DOMAIN Tail(final.record) : \E j \in DOMAIN final.record :
             Tail(final.record)[i] = final.record[j]
  <2>1. final.record = <<e>> \o Here.record
    BY <1>5, <1>8
  <2>2. Here.record \in Seq([system : BOOLEAN, changes : PairsOf(Here.heap)])
    BY DEF WorkspaceSound
  <2>3. Len(<<e>> \o Here.record) > 0
    BY <2>2
  <2>4. /\ Tail(final.record) \in Seq(Entries)
        /\ Len(Tail(final.record)) = Len(final.record) - 1
        /\ \A i \in 1 .. Len(final.record) - 1 : Tail(final.record)[i] = final.record[i + 1]
    BY <1>9, <2>1, <2>3, TailOfSeq
  <2>5. DOMAIN final.record = 1 .. Len(final.record) /\ Len(final.record) \in Nat
    BY <1>9, ElemsOfSeq
  <2>6. \A i \in DOMAIN Tail(final.record) :
           i + 1 \in DOMAIN final.record /\ Tail(final.record)[i] = final.record[i + 1]
    BY <2>4, <2>5, ElemsOfSeq
  <2> QED
    BY <2>4, <2>6
<1>13. WorkspaceSound(r, f, others, written)
  <2>1. r.record \in Seq([system : BOOLEAN, changes : PairsOf(r.heap)])
    BY <1>11, <1>12 DEF Entries
  <2>2. r = [heap |-> r.heap, env |-> r.env, record |-> r.record, previous |-> r.previous]
    BY <1>11
  <2> QED
    BY <1>8, <1>11, <2>1, <2>2 DEF WorkspaceSound
<1>14. RecordSound(r, f, others, written)
  <2>1. \A i \in DOMAIN r.record : \E j \in DOMAIN final.record : r.record[i] = final.record[j]
    BY <1>11, <1>12
  <2>2. /\ \A i \in DOMAIN final.record : ChangesSound(final.record[i].changes, final, f, others, written)
        /\ \A i, j \in DOMAIN final.record : SameName(final.record[i].changes, final.record[j].changes)
        /\ \A x \in DOMAIN final.previous : OwnedIn(f, x, final.previous[x], written)
    BY <1>8 DEF RecordSound
  <2>3. \A c : ChangesSound(c, final, f, others, written) => ChangesSound(c, r, f, others, written)
    BY <1>11 DEF ChangesSound
  <2>4. \A i \in DOMAIN r.record : ChangesSound(r.record[i].changes, r, f, others, written)
    BY <2>1, <2>2, <2>3
  <2>5. ASSUME NEW i \in DOMAIN r.record, NEW j \in DOMAIN r.record
        PROVE  SameName(r.record[i].changes, r.record[j].changes)
    <3>1. PICK k \in DOMAIN final.record : r.record[i] = final.record[k]
      BY <2>1
    <3>2. PICK l \in DOMAIN final.record : r.record[j] = final.record[l]
      BY <2>1
    <3> QED
      BY <3>1, <3>2, <2>2
  <2>6. r.previous = final.previous
    BY <1>11
  <2> QED
    BY <2>2, <2>4, <2>5, <2>6 DEF RecordSound
<1>15. KeepsOthers(heap, r.heap, others)
  BY <1>3, <1>8, <1>11, KeepsOthersTwice
<1> QED
  BY <1>13, <1>14, <1>15 DEF r

-----------------------------------------------------------------------------
(* The frames of the ring at an index. *)
LEMMA RingElems ==
  ASSUME WorkInv
  PROVE  /\ DOMAIN ring = 1 .. Len(ring) /\ Len(ring) \in Nat /\ 1 \in DOMAIN ring
         /\ \A i \in DOMAIN ring : ring[i] \in FrameRecords(heap)
         /\ \A i \in DOMAIN ring : i = 1 \/ (i \in 2 .. Len(ring) /\ ring[i] \in Rest)
         /\ \A i \in 2 .. Len(ring) : i \in DOMAIN ring /\ i # 1
<1>1. ring \in Seq(FrameRecords(heap)) /\ Len(ring) > 0
  BY DEF WorkInv
<1>2. /\ DOMAIN ring = 1 .. Len(ring) /\ Len(ring) \in Nat
      /\ \A i \in 1 .. Len(ring) : ring[i] \in FrameRecords(heap)
  BY <1>1, ElemsOfSeq
<1>3. \A i \in 2 .. Len(ring) : ring[i] \in Rest
  BY DEF Rest
<1>4. \A i \in DOMAIN ring : i = 1 \/ i \in 2 .. Len(ring)
  BY <1>2
<1> QED
  BY <1>1, <1>2, <1>3, <1>4

LEMMA FrameRecordElim ==
  ASSUME NEW h, NEW g \in FrameRecords(h)
  PROVE  /\ g = [name |-> g.name, env |-> g.env, IOindex |-> g.IOindex]
         /\ g.name \in Name /\ g.env \in PairsOf(h) /\ g.IOindex \in Nat \ {0}
BY DEF FrameRecords

LEMMA FrameRecordIntro ==
  ASSUME NEW h, NEW f \in Name, NEW e \in PairsOf(h), NEW n \in Nat \ {0}
  PROVE  [name |-> f, env |-> e, IOindex |-> n] \in FrameRecords(h)
BY DEF FrameRecords

LEMMA FrameRecordGrows ==
  ASSUME NEW h, NEW k, DOMAIN h \subseteq DOMAIN k, NEW g \in FrameRecords(h)
  PROVE  g \in FrameRecords(k)
<1>1. g.env \in PairsOf(k)
  BY FrameRecordElim, PairsGrow
<1> QED
  BY <1>1, FrameRecordElim, FrameRecordIntro

(* The parts of the workspace. *)
LEMMA HereParts ==
  ASSUME WorkInv
  PROVE  /\ heap \in Seq(Value)
         /\ FrameSound(Current, env, heap, wrote)
         /\ env \in PairsOf(heap)
         /\ \A g \in Rest : FrameSound(g.name, g.env, heap, wrote) /\ NoShare(g.env, env)
         /\ previousBindings \in SomeBindings
         /\ frameRecord \in Seq([system : BOOLEAN, changes : PairsOf(heap)])
<1>1. WorkspaceSound(Here, Current, Rest, wrote)
  BY DEF WorkInv
<1>2. Here.heap = heap /\ Here.env = env /\ Here.record = frameRecord /\ Here.previous = previousBindings
  BY DEF Here
<1> QED
  BY <1>1, <1>2 DEF WorkspaceSound, FrameSound

(* Where the world holds the frame at position i. *)
LEMMA WorldAt ==
  NamesOnce(ring) => \A i \in DOMAIN ring :
                        ring[i].name \in DOMAIN World /\ World[ring[i].name] = FrameSeen(i)
<1> SUFFICES ASSUME NamesOnce(ring), NEW i \in DOMAIN ring
             PROVE  ring[i].name \in DOMAIN World /\ World[ring[i].name] = FrameSeen(i)
  OBVIOUS
<1> DEFINE at(f) == CHOOSE j \in DOMAIN ring : ring[j].name = f
<1>1. at(ring[i].name) \in DOMAIN ring /\ ring[at(ring[i].name)].name = ring[i].name
  OBVIOUS
<1>2. at(ring[i].name) = i
  BY <1>1 DEF NamesOnce
<1>3. World = [f \in {ring[j].name : j \in DOMAIN ring} |-> FrameSeen(at(f))]
  BY DEF World
<1> HIDE DEF at
<1>4. ring[i].name \in {ring[j].name : j \in DOMAIN ring}
  OBVIOUS
<1> QED
  BY <1>2, <1>3, <1>4

LEMMA WorldAtNext ==
  NamesOnce(ring)' => \A i \in DOMAIN ring' :
                         ring'[i].name \in DOMAIN World' /\ World'[ring'[i].name] = FrameSeen(i)'
<1>1. (NamesOnce(ring) => \A i \in DOMAIN ring :
                        ring[i].name \in DOMAIN World /\ World[ring[i].name] = FrameSeen(i))'
  BY WorldAt, PTL
<1> QED
  BY <1>1

LEMMA WorldDomain == DOMAIN World = {ring[j].name : j \in DOMAIN ring}
BY DEF World

LEMMA SameWorld ==
  ASSUME NEW v, NEW w, NEW S, NEW T, v = [x \in S |-> v[x]], w = [x \in T |-> w[x]], S = T,
         \A x \in S : v[x] = w[x]
  PROVE  v = w
OBVIOUS

(***************************************************************************)
(* A step of the current frame: its record in the ring may be replaced,    *)
(* and nothing the other frames see changes.                               *)
(***************************************************************************)
LEMMA StepOfCurrent ==
  ASSUME WorkInv, NEW x, ring' = [ring EXCEPT ![1] = x],
         x = [name |-> Current, env |-> x.env, IOindex |-> x.IOindex],
         x.env \in PairsOf(heap'), x.IOindex \in Nat \ {0},
         DOMAIN heap \subseteq DOMAIN heap',
         KeepsOthers(heap, heap', Rest),
         WorkspaceSound(Here', Current, Rest, wrote'),
         intact' => RecordSound(Here', Current, Rest, wrote'),
         intact' \in BOOLEAN, headIsEnv' \in BOOLEAN, IsFiniteSet(wrote'),
         failed' \in 0 .. MaxFailed, commands' \in 0 .. MaxCommands,
         IOindex' = x.IOindex, headIsEnv' => x.env = env'
  PROVE  WorkInv' /\ Abstract!Work
<1>1. /\ DOMAIN ring = 1 .. Len(ring) /\ Len(ring) \in Nat /\ 1 \in DOMAIN ring
      /\ \A i \in DOMAIN ring : ring[i] \in FrameRecords(heap)
      /\ \A i \in DOMAIN ring : i = 1 \/ (i \in 2 .. Len(ring) /\ ring[i] \in Rest)
      /\ \A i \in 2 .. Len(ring) : i \in DOMAIN ring /\ i # 1
  BY RingElems
<1>2. ring \in Seq(FrameRecords(heap))
  BY DEF WorkInv
<1>3. Current \in Name
  BY <1>1, FrameRecordElim DEF Current
<1>4. x \in FrameRecords(heap')
  BY <1>3, FrameRecordIntro
<1>5. \A i \in DOMAIN ring : ring[i] \in FrameRecords(heap')
  BY <1>1, FrameRecordGrows
<1>6. ring \in Seq(FrameRecords(heap'))
  BY <1>1, <1>2, <1>5, SeqOfElems
<1>7. /\ ring' \in Seq(FrameRecords(heap')) /\ Len(ring') = Len(ring)
      /\ DOMAIN ring' = DOMAIN ring
      /\ ring'[1] = x
      /\ \A i \in 2 .. Len(ring) : ring'[i] = ring[i]
  BY <1>1, <1>4, <1>6
<1>8. Rest' = Rest
  BY <1>7 DEF Rest
<1>9. Current' = Current
  BY <1>7 DEF Current
<1>10. NamesOnce(ring) /\ NamesOnce(ring')
  <2>1. NamesOnce(ring)
    BY DEF WorkInv
  <2>2. \A i \in DOMAIN ring : ring'[i].name = ring[i].name
    BY <1>1, <1>7 DEF Current
  <2> QED
    BY <2>1, <2>2, <1>7 DEF NamesOnce
<1>11. ring'[1].IOindex = IOindex' /\ (headIsEnv' => ring'[1].env = env')
  BY <1>7
<1>12. WorkInv'
  <2>1. \A g, k \in Rest : g # k => NoShare(g.env, k.env)
    BY DEF WorkInv
  <2>2. Len(ring') > 0 /\ IOindex' \in Nat \ {0}
    BY <1>1, <1>7
  <2> QED
    BY <2>1, <2>2, <1>7, <1>8, <1>9, <1>10, <1>11 DEF WorkInv
<1>13. DOMAIN World' = DOMAIN World
  <2>1. DOMAIN World' = {ring'[j].name : j \in DOMAIN ring'}
    BY DEF World
  <2>2. \A i \in DOMAIN ring : ring'[i].name = ring[i].name
    BY <1>1, <1>7 DEF Current
  <2> QED
    BY <2>1, <2>2, <1>7, WorldDomain
<1>14. \A f \in DOMAIN World \ {Current} : World'[f] = World[f]
  <2>1. SUFFICES ASSUME NEW f \in DOMAIN World, f # Current
                 PROVE  World'[f] = World[f]
    OBVIOUS
  <2>2. PICK i \in DOMAIN ring : f = ring[i].name
    BY WorldDomain
  <2>3. i \in 2 .. Len(ring) /\ ring[i] \in Rest /\ i # 1
    BY <2>1, <2>2, <1>1 DEF Current
  <2>4. World[f] = FrameSeen(i)
    BY <2>2, <1>10, WorldAt
  <2>5. World'[f] = FrameSeen(i)'
    <3>1. NamesOnce(ring)' /\ i \in DOMAIN ring'
      BY <1>7, <1>10
    <3>2. ring'[i].name \in DOMAIN World' /\ World'[ring'[i].name] = FrameSeen(i)'
      BY <3>1, WorldAtNext
    <3> QED
      BY <3>2, <2>2, <2>3, <1>7
  <2>6. Bindings(heap', ring[i].env) = Bindings(heap, ring[i].env)
    BY <2>3 DEF KeepsOthers, Bindings
  <2>7. FrameSeen(i)' = FrameSeen(i)
    BY <2>3, <2>6, <1>7 DEF FrameSeen
  <2> QED
    BY <2>4, <2>5, <2>7
<1> QED
  BY <1>9, <1>12, <1>13, <1>14 DEF Abstract!Work, Abstract!Open

-----------------------------------------------------------------------------
LEMMA FrameRecordUpdate ==
  ASSUME NEW h, NEW g \in FrameRecords(h), NEW e, NEW n
  PROVE  [g EXCEPT !.env = e, !.IOindex = n] = [name |-> g.name, env |-> e, IOindex |-> n]
<1>1. PICK a, b, c : g = [name |-> a, env |-> b, IOindex |-> c]
  BY DEF FrameRecords
<1> DEFINE k == [g EXCEPT !.env = e]
<1>2. k = [name |-> a, env |-> e, IOindex |-> c]
  BY <1>1
<1>3. [g EXCEPT !.env = e, !.IOindex = n] = [k EXCEPT !.IOindex = n]
  BY Zenon
<1> HIDE DEF k
<1>4. [k EXCEPT !.IOindex = n] = [name |-> a, env |-> e, IOindex |-> n]
  BY <1>2
<1>5. g.name = a
  BY <1>1
<1> QED
  BY <1>3, <1>4, <1>5

(* A frame record as its user would see it. *)
Seen(h, g) == [bindings |-> Visible(Bindings(h, g.env)), step |-> g.IOindex]

LEMMA NothingSeen ==
  ASSUME NEW h
  PROVE  /\ Nothing \in PairsOf(h)
         /\ DOMAIN Nothing = {}
         /\ Visible(Bindings(h, Nothing)) = <<>>
<1>1. DOMAIN Nothing = {} /\ Nothing = [x \in {} |-> x]
  BY DEF Nothing
<1>2. Nothing \in PairsOf(h)
  BY <1>1, EnvIntro
<1>3. DOMAIN Bindings(h, Nothing) = {}
  BY <1>1 DEF Bindings
<1>4. DOMAIN Visible(Bindings(h, Nothing)) = {}
  BY <1>3 DEF Visible
<1>5. Visible(Bindings(h, Nothing)) = [x \in {} |-> x]
  BY <1>3 DEF Visible
<1> QED
  BY <1>1, <1>2, <1>5 DEF Nothing

LEMMA NoShareSym ==
  ASSUME NEW e, NEW d, NoShare(e, d)
  PROVE  NoShare(d, e)
BY DEF NoShare

(* The frames with the current one as the globals have it. *)
LEMMA StoredFrames ==
  ASSUME WorkInv
  PROVE  /\ Frames \in Seq(FrameRecords(heap))
         /\ Len(Frames) = Len(ring) /\ DOMAIN Frames = DOMAIN ring
         /\ Frames[1] = [name |-> Current, env |-> env, IOindex |-> IOindex]
         /\ \A i \in 2 .. Len(ring) : Frames[i] = ring[i]
         /\ \A i \in DOMAIN ring : Frames[i].name = ring[i].name
         /\ NamesOnce(Frames)
<1>1. /\ DOMAIN ring = 1 .. Len(ring) /\ Len(ring) \in Nat /\ 1 \in DOMAIN ring
      /\ \A i \in DOMAIN ring : ring[i] \in FrameRecords(heap)
      /\ \A i \in DOMAIN ring : i = 1 \/ (i \in 2 .. Len(ring) /\ ring[i] \in Rest)
      /\ \A i \in 2 .. Len(ring) : i \in DOMAIN ring /\ i # 1
  BY RingElems
<1>2. ring \in Seq(FrameRecords(heap)) /\ NamesOnce(ring) /\ IOindex \in Nat \ {0}
  BY DEF WorkInv
<1> DEFINE x == [name |-> Current, env |-> env, IOindex |-> IOindex]
<1>3. [ring[1] EXCEPT !.env = env, !.IOindex = IOindex] = x
  <2>1. ring[1] \in FrameRecords(heap)
    BY <1>1
  <2> QED
    BY <2>1, FrameRecordUpdate DEF Current
<1>4. Frames = [ring EXCEPT ![1] = x]
  BY <1>3 DEF Frames, Stored
<1>5. x \in FrameRecords(heap)
  <2>1. Current \in Name
    BY <1>1, FrameRecordElim DEF Current
  <2> QED
    BY <2>1, <1>2, HereParts, FrameRecordIntro
<1> HIDE DEF x
<1>6. /\ Frames \in Seq(FrameRecords(heap)) /\ Len(Frames) = Len(ring)
      /\ DOMAIN Frames = DOMAIN ring
      /\ Frames[1] = x
      /\ \A i \in 2 .. Len(ring) : Frames[i] = ring[i]
  BY <1>1, <1>2, <1>4, <1>5
<1>7. \A i \in DOMAIN ring : Frames[i].name = ring[i].name
  BY <1>1, <1>6 DEF x, Current
<1>8. NamesOnce(Frames)
  BY <1>2, <1>6, <1>7 DEF NamesOnce
<1> QED
  BY <1>6, <1>7, <1>8 DEF x

LEMMA FramesSound ==
  ASSUME WorkInv
  PROVE  /\ \A i \in DOMAIN Frames : FrameSound(Frames[i].name, Frames[i].env, heap, wrote)
         /\ \A i, j \in DOMAIN Frames : i # j => NoShare(Frames[i].env, Frames[j].env)
<1>1. /\ DOMAIN ring = 1 .. Len(ring) /\ Len(ring) \in Nat
      /\ \A i \in DOMAIN ring : i = 1 \/ (i \in 2 .. Len(ring) /\ ring[i] \in Rest)
  BY RingElems
<1>2. /\ DOMAIN Frames = DOMAIN ring
      /\ Frames[1].name = Current /\ Frames[1].env = env
      /\ \A i \in 2 .. Len(ring) : Frames[i] = ring[i]
  BY StoredFrames
<1>3. /\ FrameSound(Current, env, heap, wrote)
      /\ \A g \in Rest : FrameSound(g.name, g.env, heap, wrote) /\ NoShare(g.env, env)
  BY HereParts
<1>4. /\ \A g, k \in Rest : g # k => NoShare(g.env, k.env)
      /\ NamesOnce(ring)
  BY DEF WorkInv
<1>5. \A i \in DOMAIN Frames : FrameSound(Frames[i].name, Frames[i].env, heap, wrote)
  BY <1>1, <1>2, <1>3
<1>6. ASSUME NEW i \in DOMAIN Frames, NEW j \in DOMAIN Frames, i # j
      PROVE  NoShare(Frames[i].env, Frames[j].env)
  <2>1. CASE i = 1
    <3>1. Frames[j] \in Rest
      BY <1>1, <1>2, <1>6, <2>1
    <3> QED
      BY <3>1, <2>1, <1>2, <1>3, NoShareSym
  <2>2. CASE j = 1
    <3>1. Frames[i] \in Rest
      BY <1>1, <1>2, <1>6, <2>2
    <3> QED
      BY <3>1, <2>2, <1>2, <1>3
  <2>3. CASE i # 1 /\ j # 1
    <3>1. Frames[i] = ring[i] /\ Frames[j] = ring[j] /\ ring[i] \in Rest /\ ring[j] \in Rest
      BY <1>1, <1>2, <2>3
    <3>2. ring[i] # ring[j]
      BY <1>2, <1>4, <1>6 DEF NamesOnce
    <3> QED
      BY <3>1, <3>2, <1>4
  <2> QED
    BY <2>1, <2>2, <2>3
<1> QED
  BY <1>5, <1>6

LEMMA WorldOfFrames ==
  WorkInv =>
         /\ World = [f \in DOMAIN World |-> World[f]]
         /\ DOMAIN World = {Frames[i].name : i \in DOMAIN Frames}
         /\ \A i \in DOMAIN Frames : World[Frames[i].name] = Seen(heap, Frames[i])
<1> HAVE WorkInv
<1>1. /\ DOMAIN Frames = DOMAIN ring
      /\ Frames[1] = [name |-> Current, env |-> env, IOindex |-> IOindex]
      /\ \A i \in 2 .. Len(ring) : Frames[i] = ring[i]
      /\ \A i \in DOMAIN ring : Frames[i].name = ring[i].name
  BY StoredFrames
<1>2. NamesOnce(ring)
  BY DEF WorkInv
<1>3. \A i \in DOMAIN ring : i = 1 \/ (i \in 2 .. Len(ring) /\ i # 1)
  BY RingElems
<1>4. \A i \in DOMAIN ring : FrameSeen(i) = Seen(heap, Frames[i])
  BY <1>1, <1>3 DEF FrameSeen, Seen
<1>5. \A i \in DOMAIN ring : World[ring[i].name] = FrameSeen(i)
  BY <1>2, WorldAt
<1>6. World = [f \in DOMAIN World |-> World[f]]
  BY DEF World
<1> QED
  BY <1>1, <1>4, <1>5, <1>6, WorldDomain

LEMMA WorldOfFramesNext ==
  WorkInv' =>
     (/\ World = [f \in DOMAIN World |-> World[f]]
      /\ DOMAIN World = {Frames[i].name : i \in DOMAIN Frames}
      /\ \A i \in DOMAIN Frames : World[Frames[i].name] = Seen(heap, Frames[i]))'
BY WorldOfFrames, PTL

(***************************************************************************)
(* Going to the first frame of r, whose frames are those of the ring or    *)
(* empty ones: the frames stay apart, and the record of )undo is still     *)
(* about the current frame if it counts as intact.                         *)
(***************************************************************************)
LEMMA StepToFrame ==
  ASSUME WorkInv, NEW r \in Seq(FrameRecords(heap)), Len(r) > 0, NamesOnce(r),
         \A i \in DOMAIN r : r[i].env = Nothing \/ \E j \in DOMAIN Frames : r[i] = Frames[j],
         GoTo(r)
  PROVE  /\ WorkInv'
         /\ Current' = r[1].name /\ r[1].name \in Name
         /\ World' = [f \in DOMAIN World' |-> World'[f]]
         /\ DOMAIN World' = {r[i].name : i \in DOMAIN r}
         /\ \A i \in DOMAIN r : World'[r[i].name] = Seen(heap, r[i])
<1>1. /\ ring' = r /\ env' = r[1].env /\ IOindex' = r[1].IOindex /\ headIsEnv' = TRUE
      /\ heap' = heap /\ frameRecord' = frameRecord /\ previousBindings' = previousBindings
      /\ wrote' = wrote
      /\ failed' = failed /\ commands < MaxCommands /\ commands' = commands + 1
  BY DEF GoTo, Load, Command, SameFrame, SwitchFrame
<1>2. /\ intact' = intact \/ intact' = FALSE
      /\ intact' => intact /\ r[1].name = Current
  <2>1. CASE r[1].name = Current
    <3>1. SameFrame
      BY <2>1 DEF GoTo
    <3>2. UNCHANGED <<wrote, past, intact>>
      BY <3>1 DEF SameFrame
    <3> QED
      BY <3>2, <2>1
  <2>2. CASE r[1].name # Current
    <3>1. SwitchFrame
      BY <2>2 DEF GoTo
    <3> QED
      BY <3>1 DEF SwitchFrame
  <2> QED
    BY <2>1, <2>2
<1>3. /\ DOMAIN r = 1 .. Len(r) /\ Len(r) \in Nat /\ 1 \in DOMAIN r
      /\ \A i \in DOMAIN r : r[i] \in FrameRecords(heap)
  BY ElemsOfSeq
<1>4. \A i \in DOMAIN r : i = 1 \/ i \in 2 .. Len(r)
  BY <1>3
<1>5. Current' = r[1].name
  BY <1>1 DEF Current
<1>6. Rest' = {r[i] : i \in 2 .. Len(r)}
  BY <1>1 DEF Rest
<1>7. /\ \A i \in DOMAIN Frames : FrameSound(Frames[i].name, Frames[i].env, heap, wrote)
      /\ \A i, j \in DOMAIN Frames : i # j => NoShare(Frames[i].env, Frames[j].env)
      /\ NamesOnce(Frames)
  BY FramesSound, StoredFrames
<1>8. \A i \in DOMAIN r : FrameSound(r[i].name, r[i].env, heap, wrote)
  <2>1. \A f : FrameSound(f, Nothing, heap, wrote)
    BY NothingSeen DEF FrameSound, SameName
  <2> QED
    BY <2>1, <1>7
<1>9. ASSUME NEW i \in DOMAIN r, NEW j \in DOMAIN r, i # j
      PROVE  NoShare(r[i].env, r[j].env)
  <2>1. CASE r[i].env = Nothing \/ r[j].env = Nothing
    BY <2>1, NothingSeen DEF NoShare
  <2>2. CASE r[i].env # Nothing /\ r[j].env # Nothing
    <3>1. PICK k \in DOMAIN Frames : r[i] = Frames[k]
      BY <2>2
    <3>2. PICK l \in DOMAIN Frames : r[j] = Frames[l]
      BY <2>2
    <3>3. k # l
      BY <3>1, <3>2, <1>9 DEF NamesOnce
    <3> QED
      BY <3>1, <3>2, <3>3, <1>7
  <2> QED
    BY <2>1, <2>2
<1>10. Here' = [heap |-> heap, env |-> r[1].env, record |-> frameRecord, previous |-> previousBindings]
  BY <1>1 DEF Here
<1>11. WorkspaceSound(Here', r[1].name, Rest', wrote)
  <2>1. \A g \in Rest' : FrameSound(g.name, g.env, heap, wrote) /\ NoShare(g.env, r[1].env)
    <3>1. \A i \in 2 .. Len(r) : i \in DOMAIN r /\ i # 1
      BY <1>3
    <3> QED
      BY <3>1, <1>3, <1>6, <1>8, <1>9
  <2>2. /\ Here'.heap = heap /\ Here'.env = r[1].env
        /\ Here'.record = frameRecord /\ Here'.previous = previousBindings
    BY <1>10
  <2>3. Here' = [heap |-> Here'.heap, env |-> Here'.env, record |-> Here'.record, previous |-> Here'.previous]
    BY <1>10
  <2> QED
    BY <2>1, <2>2, <2>3, <1>3, <1>8, HereParts DEF WorkspaceSound
<1>12. ASSUME intact'
       PROVE  RecordSound(Here', r[1].name, Rest', wrote)
  <2>1. intact /\ r[1].name = Current
    BY <1>2, <1>12
  <2>2. RecordSound(Here, Current, Rest, wrote)
    BY <2>1 DEF WorkInv
  <2>3. /\ Here.heap = heap /\ Here.env = env /\ Here.record = frameRecord /\ Here.previous = previousBindings
        /\ Here'.heap = heap /\ Here'.env = r[1].env
        /\ Here'.record = frameRecord /\ Here'.previous = previousBindings
    BY <1>10 DEF Here
  <2>4. r[1].env = Nothing \/ r[1].env = env
    <3>1. CASE r[1].env = Nothing
      BY <3>1
    <3>2. CASE \E j \in DOMAIN Frames : r[1] = Frames[j]
      <4>1. PICK j \in DOMAIN Frames : r[1] = Frames[j]
        BY <3>2
      <4>2. Frames[1] = [name |-> Current, env |-> env, IOindex |-> IOindex] /\ 1 \in DOMAIN Frames
        BY StoredFrames, RingElems
      <4>3. j = 1
        BY <4>1, <4>2, <2>1, <1>7 DEF NamesOnce
      <4> QED
        BY <4>1, <4>2, <4>3
    <3> QED
      BY <3>1, <3>2, <1>3
  <2>5. ASSUME NEW g \in Rest'
        PROVE  g.env = Nothing \/ g \in Rest
    <3>1. PICK i \in 2 .. Len(r) : g = r[i]
      BY <1>6
    <3>2. i \in DOMAIN r /\ i # 1
      BY <1>3
    <3>3. r[i].name # Current
      BY <3>2, <1>3, <2>1 DEF NamesOnce
    <3>4. ASSUME NEW j \in DOMAIN Frames, r[i] = Frames[j]
          PROVE  r[i] \in Rest
      <4>1. Frames[1].name = Current /\ DOMAIN Frames = DOMAIN ring
            /\ \A k \in 2 .. Len(ring) : Frames[k] = ring[k]
        BY StoredFrames
      <4>2. j = 1 \/ (j \in 2 .. Len(ring) /\ ring[j] \in Rest)
        BY <4>1, RingElems
      <4> QED
        BY <4>1, <4>2, <3>3, <3>4
    <3> QED
      BY <3>1, <3>2, <3>4
  <2>6. ASSUME NEW c, ChangesSound(c, Here, Current, Rest, wrote)
        PROVE  ChangesSound(c, Here', r[1].name, Rest', wrote)
    <3>1. \A x \in DOMAIN c : OwnedIn(r[1].name, x, Here'.heap[c[x]], wrote)
      BY <2>1, <2>3, <2>6 DEF ChangesSound
    <3>2. SameName(c, Here'.env)
      <4>1. SameName(c, env) /\ SameName(c, Nothing)
        BY <2>3, <2>6, NothingSeen DEF ChangesSound, SameName
      <4> QED
        BY <4>1, <2>3, <2>4
    <3>3. \A g \in Rest' : NoShare(g.env, c)
      <4>1. NoShare(Nothing, c)
        BY NothingSeen DEF NoShare
      <4> QED
        BY <4>1, <2>5, <2>6 DEF ChangesSound
    <3> QED
      BY <3>1, <3>2, <3>3 DEF ChangesSound
  <2> QED
    BY <2>1, <2>2, <2>3, <2>6 DEF RecordSound
<1>13. \A g, k \in Rest' : g # k => NoShare(g.env, k.env)
  <2>1. \A i \in 2 .. Len(r) : i \in DOMAIN r
    BY <1>3
  <2> QED
    BY <2>1, <1>6, <1>9
<1>14. r[1].name \in Name /\ r[1].IOindex \in Nat \ {0}
  BY <1>3, FrameRecordElim
<1>15. WorkInv'
  <2>1. /\ ring' \in Seq(FrameRecords(heap')) /\ Len(ring') > 0
        /\ IOindex' \in Nat \ {0} /\ ring'[1].IOindex = IOindex' /\ ring'[1].env = env'
        /\ NamesOnce(ring')
    BY <1>1, <1>14
  <2>2. failed' \in 0 .. MaxFailed /\ IsFiniteSet(wrote') /\ headIsEnv' \in BOOLEAN
    BY <1>1 DEF WorkInv
  <2>3. commands' \in 0 .. MaxCommands
    BY <1>1, WorkspaceAssumption DEF WorkInv
  <2>4. intact' \in BOOLEAN
    BY <1>2 DEF WorkInv
  <2> QED
    BY <2>1, <2>2, <2>3, <2>4, <1>1, <1>5, <1>11, <1>12, <1>13 DEF WorkInv
<1>16. Frames' = r
  <2>1. Frames' = [r EXCEPT ![1] = [r[1] EXCEPT !.env = r[1].env, !.IOindex = r[1].IOindex]]
    BY <1>1 DEF Frames, Stored
  <2>2. [r[1] EXCEPT !.env = r[1].env, !.IOindex = r[1].IOindex] = r[1]
    <3>1. r[1] \in FrameRecords(heap)
      BY <1>3
    <3>2. /\ [r[1] EXCEPT !.env = r[1].env, !.IOindex = r[1].IOindex]
                 = [name |-> r[1].name, env |-> r[1].env, IOindex |-> r[1].IOindex]
          /\ r[1] = [name |-> r[1].name, env |-> r[1].env, IOindex |-> r[1].IOindex]
      BY <3>1, FrameRecordUpdate, FrameRecordElim, Zenon
    <3> QED
      BY <3>2, Zenon
  <2> QED
    BY <2>1, <2>2, <1>3
<1>17. (/\ World = [f \in DOMAIN World |-> World[f]]
        /\ DOMAIN World = {Frames[i].name : i \in DOMAIN Frames}
        /\ \A i \in DOMAIN Frames : World[Frames[i].name] = Seen(heap, Frames[i]))'
  BY <1>15, WorldOfFramesNext
<1> QED
  BY <1>1, <1>5, <1>14, <1>15, <1>16, <1>17

-----------------------------------------------------------------------------
LEMMA RecordFrameKeeps ==
  ASSUME NEW w, NEW f, NEW others, NEW written, NEW system \in BOOLEAN,
         WorkspaceSound(w, f, others, written)
  PROVE  KeepsOthers(w.heap, RecordFrame(system, w).heap, others)
<1>1. /\ DOMAIN w.heap \subseteq DOMAIN RecordFrame(system, w).heap
      /\ \A c \in DOMAIN w.heap : RecordFrame(system, w).heap[c] = w.heap[c]
  BY RecordFrameSound
<1>2. \A g \in others : \A x \in DOMAIN g.env : g.env[x] \in DOMAIN w.heap
  BY EnvElim DEF WorkspaceSound, FrameSound
<1> QED
  BY <1>1, <1>2 DEF KeepsOthers

(* A workspace w becomes the one of the globals. *)
LEMMA BecomeHere ==
  ASSUME NEW w, NEW f, NEW others, NEW written, WorkspaceSound(w, f, others, written), Become(w)
  PROVE  Here' = w /\ heap' = w.heap /\ env' = w.env
<1>1. w = [heap |-> w.heap, env |-> w.env, record |-> w.record, previous |-> w.previous]
  BY DEF WorkspaceSound
<1>2. Here' = [heap |-> w.heap, env |-> w.env, record |-> w.record, previous |-> w.previous]
  BY DEF Here, Become
<1> QED
  BY <1>1, <1>2 DEF Become

(* The value of a line. *)
LEMMA NewValueOwned ==
  ASSUME WorkInv, NEW x \in Var
  PROVE  LET written == wrote \cup {<<Current, x, NewValue.val>>}
         IN  /\ NewValue \in Value
             /\ IsFiniteSet(written) /\ wrote \subseteq written
             /\ OwnedIn(Current, x, NewValue, written)
<1>1. IsFiniteSet(wrote) /\ Cardinality(wrote) \in Nat
  BY FS_CardinalityType DEF WorkInv
<1>2. NewValue \in Value
  BY <1>1 DEF NewValue, Value
<1>3. IsFiniteSet(wrote \cup {<<Current, x, NewValue.val>>})
  BY <1>1, FS_AddElement
<1> QED
  BY <1>2, <1>3 DEF OwnedIn

(* The workspace is sound, also with more values written. *)
LEMMA HereSound ==
  ASSUME WorkInv, NEW written, wrote \subseteq written
  PROVE  /\ WorkspaceSound(Here, Current, Rest, written)
         /\ intact => RecordSound(Here, Current, Rest, written)
         /\ Here.heap = heap /\ Here.env = env
         /\ commands \in Nat
<1>1. /\ WorkspaceSound(Here, Current, Rest, wrote)
      /\ intact => RecordSound(Here, Current, Rest, wrote)
      /\ commands \in 0 .. MaxCommands
  BY DEF WorkInv
<1> QED
  BY <1>1, WrittenGrows, WorkspaceAssumption DEF Here

LEMMA PairsOfNext ==
  ASSUME NEW w, NEW f, NEW others, NEW written, WorkspaceSound(w, f, others, written), Become(w)
  PROVE  env' \in PairsOf(heap')
<1>1. w.env \in PairsOf(w.heap)
  BY DEF WorkspaceSound, FrameSound
<1> QED
  BY <1>1, BecomeHere

(* The record of the current frame in the ring, as it is stored. *)
LEMMA CurrentStored ==
  ASSUME WorkInv
  PROVE  /\ ring[1] \in FrameRecords(heap)
         /\ Current \in Name /\ ring[1].name = Current /\ ring[1].IOindex = IOindex
         /\ ring[1] = [name |-> Current, env |-> ring[1].env, IOindex |-> IOindex]
         /\ ring[1].env \in PairsOf(heap)
         /\ IOindex \in Nat \ {0} /\ IOindex + 1 \in Nat \ {0}
         /\ ring = [ring EXCEPT ![1] = ring[1]]
         /\ UpdateCurrent(ring) = [ring EXCEPT ![1] = [name |-> Current, env |-> env', IOindex |-> IOindex']]
         /\ \A e : [ring[1] EXCEPT !.env = e] = [name |-> Current, env |-> e, IOindex |-> IOindex]
<1>1. ring \in Seq(FrameRecords(heap)) /\ Len(ring) > 0 /\ ring[1].IOindex = IOindex /\ IOindex \in Nat \ {0}
  BY DEF WorkInv
<1>2. ring[1] \in FrameRecords(heap)
  BY RingElems
<1>3. ring[1].name = Current
  BY DEF Current
<1>4. ring = [ring EXCEPT ![1] = ring[1]]
  BY <1>1
<1>5. UpdateCurrent(ring) = [ring EXCEPT ![1] = [name |-> Current, env |-> env', IOindex |-> IOindex']]
  <2>1. [ring[1] EXCEPT !.env = env', !.IOindex = IOindex'] = [name |-> Current, env |-> env', IOindex |-> IOindex']
    BY <1>2, <1>3, FrameRecordUpdate
  <2> QED
    BY <2>1 DEF UpdateCurrent
<1>6. ASSUME NEW e
      PROVE  [ring[1] EXCEPT !.env = e] = [name |-> Current, env |-> e, IOindex |-> IOindex]
  <2>1. PICK a, b, c : ring[1] = [name |-> a, env |-> b, IOindex |-> c]
    BY <1>2 DEF FrameRecords
  <2>2. a = Current /\ c = IOindex
    BY <1>1, <1>3, <2>1
  <2> QED
    BY <2>1, <2>2
<1>7. /\ ring[1] = [name |-> ring[1].name, env |-> ring[1].env, IOindex |-> ring[1].IOindex]
      /\ ring[1].name \in Name /\ ring[1].env \in PairsOf(heap)
  BY <1>2, FrameRecordElim
<1> QED
  BY <1>1, <1>2, <1>3, <1>4, <1>5, <1>6, <1>7

(* How an action of the current frame leaves the ring. *)
LEMMA RingUpdated ==
  ASSUME WorkInv, env' \in PairsOf(heap'), ring' = UpdateCurrent(ring),
         IOindex' \in Nat \ {0}
  PROVE  \E x : /\ ring' = [ring EXCEPT ![1] = x]
                /\ x = [name |-> Current, env |-> x.env, IOindex |-> x.IOindex]
                /\ x.env \in PairsOf(heap') /\ x.IOindex \in Nat \ {0}
                /\ IOindex' = x.IOindex /\ x.env = env'
<1> DEFINE x == [name |-> Current, env |-> env', IOindex |-> IOindex']
<1>1. x.env = env' /\ x.IOindex = IOindex'
  OBVIOUS
<1>2. ring' = [ring EXCEPT ![1] = x]
  BY CurrentStored
<1>3. x = [name |-> Current, env |-> x.env, IOindex |-> x.IOindex]
  BY <1>1
<1> HIDE DEF x
<1> QED
  BY <1>1, <1>2, <1>3

LEMMA RingInPlace ==
  ASSUME WorkInv, env' \in PairsOf(heap'), DOMAIN heap \subseteq DOMAIN heap',
         ChangedInPlace, UNCHANGED <<IOindex, headIsEnv>>
  PROVE  \E x : /\ ring' = [ring EXCEPT ![1] = x]
                /\ x = [name |-> Current, env |-> x.env, IOindex |-> x.IOindex]
                /\ x.env \in PairsOf(heap') /\ x.IOindex \in Nat \ {0}
                /\ IOindex' = x.IOindex /\ (headIsEnv' => x.env = env')
<1>1. CASE headIsEnv
  <2> DEFINE x == [name |-> Current, env |-> env', IOindex |-> IOindex]
  <2>1. x.env = env' /\ x.IOindex = IOindex
    OBVIOUS
  <2>2. ring' = [ring EXCEPT ![1] = x]
    <3>1. [ring[1] EXCEPT !.env = env'] = x
      BY CurrentStored
    <3>2. ring' = [ring EXCEPT ![1] = [ring[1] EXCEPT !.env = env']]
      BY <1>1 DEF ChangedInPlace
    <3> QED
      BY <3>1, <3>2
  <2>3. x = [name |-> Current, env |-> x.env, IOindex |-> x.IOindex]
    BY <2>1
  <2>4. IOindex \in Nat \ {0}
    BY CurrentStored
  <2> HIDE DEF x
  <2> QED
    BY <2>1, <2>2, <2>3, <2>4
<1>2. CASE ~ headIsEnv
  <2>1. ring' = ring /\ ~ headIsEnv'
    BY <1>2 DEF ChangedInPlace
  <2>2. ring[1].env \in PairsOf(heap')
    BY CurrentStored, PairsGrow
  <2>3. /\ ring = [ring EXCEPT ![1] = ring[1]] /\ ring[1].IOindex = IOindex /\ IOindex \in Nat \ {0}
        /\ ring[1] = [name |-> Current, env |-> ring[1].env, IOindex |-> IOindex]
    BY CurrentStored
  <2> WITNESS ring[1]
  <2> QED
    BY <2>1, <2>2, <2>3
<1> QED
  BY <1>1, <1>2

-----------------------------------------------------------------------------
LEMMA LineKeeps ==
  ASSUME WorkInv, NEW x \in Var, Line(x)
  PROVE  WorkInv' /\ Abstract!Work
<1> DEFINE start == RecordFrame(TRUE, Here)
           put == Put(x, NewValue, start)
           end == RecordFrame(FALSE, put)
           written == wrote \cup {<<Current, x, NewValue.val>>}
<1>1. /\ Become(end) /\ IOindex' = IOindex + 1 /\ ring' = UpdateCurrent(ring) /\ headIsEnv' = TRUE
      /\ wrote' = written /\ intact' = (intact /\ RecordsOnce)
      /\ failed' = failed /\ commands' = commands
  BY DEF Line, Wrote
<1>2. /\ NewValue \in Value /\ IsFiniteSet(written) /\ wrote \subseteq written
      /\ OwnedIn(Current, x, NewValue, written)
  BY NewValueOwned
<1> HIDE DEF written
<1>3. /\ WorkspaceSound(Here, Current, Rest, written)
      /\ intact => RecordSound(Here, Current, Rest, written)
      /\ Here.heap = heap
  BY <1>2, HereSound
<1>4. /\ WorkspaceSound(start, Current, Rest, written)
      /\ intact => RecordSound(start, Current, Rest, written)
      /\ KeepsOthers(heap, start.heap, Rest)
  BY <1>3, RecordFrameSound, RecordFrameKeeps
<1> HIDE DEF start
<1>5. /\ WorkspaceSound(put, Current, Rest, written)
      /\ intact => RecordSound(put, Current, Rest, written)
      /\ KeepsOthers(start.heap, put.heap, Rest)
  BY <1>2, <1>4, PutSound
<1> HIDE DEF put
<1>6. /\ WorkspaceSound(end, Current, Rest, written)
      /\ intact => RecordSound(end, Current, Rest, written)
      /\ KeepsOthers(put.heap, end.heap, Rest)
  BY <1>5, RecordFrameSound, RecordFrameKeeps
<1> HIDE DEF end
<1>7. KeepsOthers(heap, end.heap, Rest)
  BY <1>4, <1>5, <1>6, KeepsOthersTwice
<1>8. Here' = end /\ heap' = end.heap /\ env' \in PairsOf(heap')
  BY <1>1, <1>6, BecomeHere, PairsOfNext
<1>9. IOindex' \in Nat \ {0}
  BY <1>1, CurrentStored
<1>10. PICK y : /\ ring' = [ring EXCEPT ![1] = y]
                /\ y = [name |-> Current, env |-> y.env, IOindex |-> y.IOindex]
                /\ y.env \in PairsOf(heap') /\ y.IOindex \in Nat \ {0}
                /\ IOindex' = y.IOindex /\ y.env = env'
  BY <1>1, <1>8, <1>9, RingUpdated
<1>11. /\ DOMAIN heap \subseteq DOMAIN heap' /\ KeepsOthers(heap, heap', Rest)
       /\ WorkspaceSound(Here', Current, Rest, wrote')
       /\ intact' => RecordSound(Here', Current, Rest, wrote')
       /\ IsFiniteSet(wrote')
  BY <1>1, <1>2, <1>6, <1>7, <1>8 DEF KeepsOthers
<1>12. /\ intact' \in BOOLEAN /\ headIsEnv' \in BOOLEAN
       /\ failed' \in 0 .. MaxFailed /\ commands' \in 0 .. MaxCommands
  BY <1>1 DEF WorkInv
<1> QED
  BY <1>10, <1>11, <1>12, StepOfCurrent

LEMMA FailedLineKeeps ==
  ASSUME WorkInv, NEW x \in Var, FailedLine(x)
  PROVE  WorkInv' /\ Abstract!Work
<1> DEFINE start == RecordFrame(TRUE, Here)
           put == Put(x, NewValue, start)
           written == wrote \cup {<<Current, x, NewValue.val>>}
<1>1. /\ Become(put) /\ ChangedInPlace /\ failed < MaxFailed /\ failed' = failed + 1
      /\ wrote' = written /\ intact' = (intact /\ RecordsOnce)
      /\ IOindex' = IOindex /\ headIsEnv' = headIsEnv /\ commands' = commands
  BY DEF FailedLine, Wrote
<1>2. /\ NewValue \in Value /\ IsFiniteSet(written) /\ wrote \subseteq written
      /\ OwnedIn(Current, x, NewValue, written)
  BY NewValueOwned
<1> HIDE DEF written
<1>3. /\ WorkspaceSound(Here, Current, Rest, written)
      /\ intact => RecordSound(Here, Current, Rest, written)
      /\ Here.heap = heap
  BY <1>2, HereSound
<1>4. /\ WorkspaceSound(start, Current, Rest, written)
      /\ intact => RecordSound(start, Current, Rest, written)
      /\ KeepsOthers(heap, start.heap, Rest)
  BY <1>3, RecordFrameSound, RecordFrameKeeps
<1> HIDE DEF start
<1>5. /\ WorkspaceSound(put, Current, Rest, written)
      /\ intact => RecordSound(put, Current, Rest, written)
      /\ KeepsOthers(start.heap, put.heap, Rest)
  BY <1>2, <1>4, PutSound
<1> HIDE DEF put
<1>6. KeepsOthers(heap, put.heap, Rest)
  BY <1>4, <1>5, KeepsOthersTwice
<1>7. Here' = put /\ heap' = put.heap /\ env' \in PairsOf(heap')
  BY <1>1, <1>5, BecomeHere, PairsOfNext
<1>8. /\ DOMAIN heap \subseteq DOMAIN heap' /\ KeepsOthers(heap, heap', Rest)
      /\ WorkspaceSound(Here', Current, Rest, wrote')
      /\ intact' => RecordSound(Here', Current, Rest, wrote')
      /\ IsFiniteSet(wrote')
  BY <1>1, <1>2, <1>5, <1>6, <1>7 DEF KeepsOthers
<1>9. PICK y : /\ ring' = [ring EXCEPT ![1] = y]
               /\ y = [name |-> Current, env |-> y.env, IOindex |-> y.IOindex]
               /\ y.env \in PairsOf(heap') /\ y.IOindex \in Nat \ {0}
               /\ IOindex' = y.IOindex /\ (headIsEnv' => y.env = env')
  BY <1>1, <1>7, <1>8, RingInPlace
<1>10. /\ intact' \in BOOLEAN /\ headIsEnv' \in BOOLEAN /\ commands' \in 0 .. MaxCommands
  BY <1>1 DEF WorkInv
<1>11. failed' \in 0 .. MaxFailed
  BY <1>1, WorkspaceAssumption DEF WorkInv
<1> QED
  BY <1>8, <1>9, <1>10, <1>11, StepOfCurrent

(* A system command counts. *)
LEMMA CommandCounts ==
  ASSUME WorkInv, Command
  PROVE  failed' \in 0 .. MaxFailed /\ commands' \in 0 .. MaxCommands
BY WorkspaceAssumption DEF WorkInv, Command

LEMMA ClearPartsKeeps ==
  ASSUME WorkInv, NEW x \in Var, NEW what, ClearParts(x, what)
  PROVE  WorkInv' /\ Abstract!Work
<1>1. /\ Command /\ IOindex' = IOindex /\ ring' = UpdateCurrent(ring) /\ headIsEnv' = TRUE
      /\ SameFrame
  BY DEF ClearParts
<1>2. UNCHANGED <<wrote, past, intact>>
  BY <1>1 DEF SameFrame
<1>3. /\ WorkspaceSound(Here, Current, Rest, wrote)
      /\ intact => RecordSound(Here, Current, Rest, wrote)
      /\ Here.heap = heap /\ Here.env = env
  BY HereSound
<1>4. \E w : /\ Become(w)
             /\ WorkspaceSound(w, Current, Rest, wrote)
             /\ intact => RecordSound(w, Current, Rest, wrote)
             /\ KeepsOthers(heap, w.heap, Rest)
  <2>1. CASE Become(Here)
    <3>1. KeepsOthers(heap, Here.heap, Rest)
      BY <1>3 DEF KeepsOthers
    <3> QED
      BY <2>1, <3>1, <1>3
  <2>2. CASE Become(Put(x, Nil, Here))
    <3>1. OwnedIn(Current, x, Nil, wrote) /\ Nil \in Value
      BY NilIsValue DEF OwnedIn
    <3> QED
      BY <2>2, <3>1, <1>3, PutSound
  <2>3. CASE Become([Here EXCEPT !.env = Without(x, @)])
    <3> DEFINE w == [Here EXCEPT !.env = Without(x, @)]
    <3>1. /\ WorkspaceSound(w, Current, Rest, wrote) /\ w.heap = Here.heap
          /\ intact => RecordSound(w, Current, Rest, wrote)
      BY <1>3, WithoutSound
    <3> HIDE DEF w
    <3>2. KeepsOthers(heap, w.heap, Rest)
      BY <1>3, <3>1 DEF KeepsOthers
    <3>3. Become(w)
      BY <2>3 DEF w
    <3> QED
      BY <3>1, <3>2, <3>3
  <2> QED
    BY <2>1, <2>2, <2>3 DEF ClearParts
<1>5. PICK w : /\ Become(w)
               /\ WorkspaceSound(w, Current, Rest, wrote)
               /\ intact => RecordSound(w, Current, Rest, wrote)
               /\ KeepsOthers(heap, w.heap, Rest)
  BY <1>4
<1>6. Here' = w /\ heap' = w.heap /\ env' \in PairsOf(heap')
  BY <1>5, BecomeHere, PairsOfNext
<1>7. IOindex' \in Nat \ {0}
  BY <1>1, CurrentStored
<1>8. PICK y : /\ ring' = [ring EXCEPT ![1] = y]
               /\ y = [name |-> Current, env |-> y.env, IOindex |-> y.IOindex]
               /\ y.env \in PairsOf(heap') /\ y.IOindex \in Nat \ {0}
               /\ IOindex' = y.IOindex /\ y.env = env'
  BY <1>1, <1>6, <1>7, RingUpdated
<1>9. /\ DOMAIN heap \subseteq DOMAIN heap' /\ KeepsOthers(heap, heap', Rest)
      /\ WorkspaceSound(Here', Current, Rest, wrote')
      /\ intact' => RecordSound(Here', Current, Rest, wrote')
  BY <1>2, <1>5, <1>6 DEF KeepsOthers
<1>10. intact' \in BOOLEAN /\ headIsEnv' \in BOOLEAN /\ IsFiniteSet(wrote')
  BY <1>1, <1>2 DEF WorkInv
<1>11. failed' \in 0 .. MaxFailed /\ commands' \in 0 .. MaxCommands
  BY <1>1, CommandCounts
<1> QED
  BY <1>8, <1>9, <1>10, <1>11, StepOfCurrent

LEMMA ClearAllKeeps ==
  ASSUME WorkInv, ClearAll
  PROVE  WorkInv' /\ Abstract!Work
<1> DEFINE w == [heap |-> heap, env |-> Nothing, record |-> <<>>, previous |-> Nothing]
<1>1. /\ Command /\ Become(w) /\ IOindex' = 1 /\ ring' = UpdateCurrent(ring) /\ headIsEnv' = TRUE
      /\ intact' = TRUE /\ wrote' = wrote
  BY DEF ClearAll, IndexAfterClear
<1>2. w.heap = heap /\ w.env = Nothing /\ w.record = <<>> /\ w.previous = Nothing
  OBVIOUS
<1>3. w = [heap |-> w.heap, env |-> w.env, record |-> w.record, previous |-> w.previous]
  OBVIOUS
<1> HIDE DEF w
<1>4. /\ heap \in Seq(Value)
      /\ \A g \in Rest : FrameSound(g.name, g.env, heap, wrote)
  BY HereParts
<1>5. Nothing \in PairsOf(heap) /\ DOMAIN Nothing = {}
  BY NothingSeen
<1>6. Nothing \in SomeBindings
  <2>1. Nothing = [x \in DOMAIN Nothing |-> Nothing[x]]
    BY <1>5, EnvElim
  <2> QED
    BY <1>5, <2>1, BindingsIntro
<1>7. <<>> \in Seq([system : BOOLEAN, changes : PairsOf(heap)])
  OBVIOUS
<1>8. FrameSound(Current, Nothing, heap, wrote)
  BY <1>5 DEF FrameSound, SameName
<1>9. \A g \in Rest : NoShare(g.env, Nothing)
  BY <1>5 DEF NoShare
<1>10. WorkspaceSound(w, Current, Rest, wrote)
  BY <1>2, <1>3, <1>4, <1>6, <1>7, <1>8, <1>9 DEF WorkspaceSound
<1>11. RecordSound(w, Current, Rest, wrote)
  <2>1. DOMAIN w.record = {}
    BY <1>2
  <2> QED
    BY <2>1, <1>2, <1>5 DEF RecordSound
<1>12. Here' = w /\ heap' = w.heap /\ env' \in PairsOf(heap')
  BY <1>1, <1>10, BecomeHere, PairsOfNext
<1>13. PICK y : /\ ring' = [ring EXCEPT ![1] = y]
                /\ y = [name |-> Current, env |-> y.env, IOindex |-> y.IOindex]
                /\ y.env \in PairsOf(heap') /\ y.IOindex \in Nat \ {0}
                /\ IOindex' = y.IOindex /\ y.env = env'
  <2>1. IOindex' \in Nat \ {0}
    BY <1>1
  <2> QED
    BY <1>1, <1>12, <2>1, RingUpdated
<1>14. /\ DOMAIN heap \subseteq DOMAIN heap' /\ KeepsOthers(heap, heap', Rest)
       /\ WorkspaceSound(Here', Current, Rest, wrote')
       /\ intact' => RecordSound(Here', Current, Rest, wrote')
  BY <1>1, <1>2, <1>10, <1>11, <1>12 DEF KeepsOthers
<1>15. intact' \in BOOLEAN /\ headIsEnv' \in BOOLEAN /\ IsFiniteSet(wrote')
  BY <1>1 DEF WorkInv
<1>16. failed' \in 0 .. MaxFailed /\ commands' \in 0 .. MaxCommands
  BY <1>1, CommandCounts
<1> QED
  BY <1>13, <1>14, <1>15, <1>16, StepOfCurrent

LEMMA UndoKeeps ==
  ASSUME WorkInv, Careful, NEW n \in UndoArgs, NEW when, Undo(n, when)
  PROVE  WorkInv' /\ Abstract!Work
<1> DEFINE w == UndoSteps(UndoCount(n), when)
<1>1. /\ Command /\ intact /\ Become(w) /\ headIsEnv' = FALSE
      /\ intact' = (intact /\ FlushesNothing /\ SharesNothing(w))
  BY DEF Undo
<1>2. UNCHANGED <<IOindex, ring, wrote, past>>
  BY DEF Undo
<1>3. UndoCount(n) \in Int
  BY WorkspaceAssumption DEF WorkInv, UndoCount
<1>4. /\ WorkspaceSound(Here, Current, Rest, wrote)
      /\ RecordSound(Here, Current, Rest, wrote)
      /\ commands \in Nat
  BY <1>1, HereSound
<1>5. /\ WorkspaceSound(w, Current, Rest, wrote)
      /\ RecordSound(w, Current, Rest, wrote)
      /\ KeepsOthers(heap, w.heap, Rest)
  BY <1>3, <1>4, UndoStepsSound
<1> HIDE DEF w
<1>6. Here' = w /\ heap' = w.heap /\ env' \in PairsOf(heap')
  BY <1>1, <1>5, BecomeHere, PairsOfNext
<1>7. /\ DOMAIN heap \subseteq DOMAIN heap' /\ KeepsOthers(heap, heap', Rest)
      /\ WorkspaceSound(Here', Current, Rest, wrote')
      /\ intact' => RecordSound(Here', Current, Rest, wrote')
  BY <1>2, <1>5, <1>6 DEF KeepsOthers
<1>8. PICK y : /\ ring' = [ring EXCEPT ![1] = y]
               /\ y = [name |-> Current, env |-> y.env, IOindex |-> y.IOindex]
               /\ y.env \in PairsOf(heap') /\ y.IOindex \in Nat \ {0}
               /\ IOindex' = y.IOindex /\ (headIsEnv' => y.env = env')
  <2>1. ring' = ring /\ IOindex' = IOindex /\ ~ headIsEnv'
    BY <1>1, <1>2
  <2>2. ring[1].env \in PairsOf(heap')
    BY <1>7, CurrentStored, PairsGrow
  <2>3. /\ ring = [ring EXCEPT ![1] = ring[1]] /\ ring[1].IOindex = IOindex /\ IOindex \in Nat \ {0}
        /\ ring[1] = [name |-> Current, env |-> ring[1].env, IOindex |-> IOindex]
    BY CurrentStored
  <2> QED
    BY <2>1, <2>2, <2>3
<1>9. intact' \in BOOLEAN /\ headIsEnv' \in BOOLEAN /\ IsFiniteSet(wrote')
  BY <1>1, <1>2 DEF WorkInv
<1>10. failed' \in 0 .. MaxFailed /\ commands' \in 0 .. MaxCommands
  BY <1>1, CommandCounts
<1> QED
  BY <1>7, <1>8, <1>9, <1>10, StepOfCurrent

LEMMA ImportKeeps ==
  ASSUME WorkInv, NEW f \in Name, NEW x \in Var, Import(f, x)
  PROVE  WorkInv' /\ Abstract!Work
<1> DEFINE out == [Here EXCEPT !.env = Without(x, @)]
<1>1. /\ Command /\ ChangedInPlace
      /\ IOindex' = IOindex /\ headIsEnv' = headIsEnv /\ intact' = intact
  BY DEF Import
<1>2. PICK i \in Named(f) \ {1} : /\ x \in DOMAIN ring[i].env
                                  /\ Become(Put(x, heap[ring[i].env[x]], out))
                                  /\ Wrote(x, heap[ring[i].env[x]])
  BY DEF Import
<1> DEFINE v == heap[ring[i].env[x]]
           written == wrote \cup {<<Current, x, v.val>>}
           put == Put(x, v, out)
<1>3. v \in Value
  <2>1. ring[i].env \in PairsOf(heap)
    BY RingElems, FrameRecordElim DEF Named
  <2> QED
    BY <1>2, <2>1, EnvElim, HereParts, ElemsOfSeq
<1>4. wrote' = written /\ Become(put)
  BY <1>2 DEF Wrote
<1>5. IsFiniteSet(written) /\ wrote \subseteq written /\ OwnedIn(Current, x, v, written)
  <2>1. IsFiniteSet(wrote)
    BY DEF WorkInv
  <2> QED
    BY <2>1, FS_AddElement DEF OwnedIn
<1> HIDE DEF v, written
<1>6. /\ WorkspaceSound(Here, Current, Rest, written)
      /\ intact => RecordSound(Here, Current, Rest, written)
      /\ Here.heap = heap
  BY <1>5, HereSound
<1>7. /\ WorkspaceSound(out, Current, Rest, written) /\ out.heap = heap
      /\ intact => RecordSound(out, Current, Rest, written)
  BY <1>6, WithoutSound
<1> HIDE DEF out
<1>8. /\ WorkspaceSound(put, Current, Rest, written)
      /\ intact => RecordSound(put, Current, Rest, written)
      /\ KeepsOthers(heap, put.heap, Rest)
  BY <1>3, <1>5, <1>7, PutSound
<1> HIDE DEF put
<1>9. Here' = put /\ heap' = put.heap /\ env' \in PairsOf(heap')
  BY <1>4, <1>8, BecomeHere, PairsOfNext
<1>10. /\ DOMAIN heap \subseteq DOMAIN heap' /\ KeepsOthers(heap, heap', Rest)
       /\ WorkspaceSound(Here', Current, Rest, wrote')
       /\ intact' => RecordSound(Here', Current, Rest, wrote')
       /\ IsFiniteSet(wrote')
  BY <1>1, <1>4, <1>5, <1>8, <1>9 DEF KeepsOthers
<1>11. PICK y : /\ ring' = [ring EXCEPT ![1] = y]
                /\ y = [name |-> Current, env |-> y.env, IOindex |-> y.IOindex]
                /\ y.env \in PairsOf(heap') /\ y.IOindex \in Nat \ {0}
                /\ IOindex' = y.IOindex /\ (headIsEnv' => y.env = env')
  BY <1>1, <1>9, <1>10, RingInPlace
<1>12. /\ intact' \in BOOLEAN /\ headIsEnv' \in BOOLEAN
  BY <1>1 DEF WorkInv
<1>13. failed' \in 0 .. MaxFailed /\ commands' \in 0 .. MaxCommands
  BY <1>1, CommandCounts
<1> QED
  BY <1>10, <1>11, <1>12, <1>13, StepOfCurrent

-----------------------------------------------------------------------------
LEMMA ConcatElems ==
  ASSUME NEW S, NEW a \in Seq(S), NEW b \in Seq(S)
  PROVE  /\ a \o b \in Seq(S) /\ Len(a \o b) = Len(a) + Len(b)
         /\ \A j \in 1 .. Len(a) : (a \o b)[j] = a[j]
         /\ \A j \in 1 .. Len(b) : (a \o b)[Len(a) + j] = b[j]
OBVIOUS

(* A sequence s without its element at position i. *)
LEMMA RemoveAtElems ==
  ASSUME NEW S, NEW s \in Seq(S), NEW i \in DOMAIN s
  PROVE  /\ RemoveAt(s, i) \in Seq(S)
         /\ Len(RemoveAt(s, i)) = Len(s) - 1
         /\ \A j \in 1 .. Len(s) - 1 : RemoveAt(s, i)[j] = IF j < i THEN s[j] ELSE s[j + 1]
<1> DEFINE a == SubSeq(s, 1, i - 1)
           b == SubSeq(s, i + 1, Len(s))
<1>1. DOMAIN s = 1 .. Len(s) /\ Len(s) \in Nat /\ i \in 1 .. Len(s)
  OBVIOUS
<1>2. a \in Seq(S) /\ Len(a) = i - 1 /\ \A j \in 1 .. i - 1 : a[j] = s[j]
  BY <1>1
<1>3. b \in Seq(S) /\ Len(b) = Len(s) - i /\ \A j \in 1 .. Len(s) - i : b[j] = s[j + i]
  BY <1>1
<1>4. RemoveAt(s, i) = a \o b
  BY DEF RemoveAt
<1> HIDE DEF a, b
<1>5. /\ a \o b \in Seq(S) /\ Len(a \o b) = Len(a) + Len(b)
      /\ \A j \in 1 .. Len(a) : (a \o b)[j] = a[j]
      /\ \A j \in 1 .. Len(b) : (a \o b)[Len(a) + j] = b[j]
  <2>1. a \in Seq(S) /\ b \in Seq(S)
    BY <1>2, <1>3
  <2> QED
    BY <2>1, ConcatElems
<1>6. ASSUME NEW j \in 1 .. Len(s) - 1
      PROVE  (a \o b)[j] = IF j < i THEN s[j] ELSE s[j + 1]
  <2>1. CASE j < i
    BY <2>1, <1>1, <1>2, <1>5
  <2>2. CASE ~ (j < i)
    <3> DEFINE k == j - (i - 1)
    <3>1. k \in 1 .. Len(b) /\ j = Len(a) + k /\ k + i = j + 1
      BY <2>2, <1>1, <1>2, <1>3
    <3> HIDE DEF k
    <3>2. (a \o b)[j] = b[k]
      BY <3>1, <1>5
    <3>3. b[k] = s[k + i]
      BY <3>1, <1>3
    <3> QED
      BY <2>2, <3>1, <3>2, <3>3
  <2> QED
    BY <2>1, <2>2
<1>7. Len(a \o b) = Len(s) - 1
  BY <1>1, <1>2, <1>3, <1>5
<1> QED
  BY <1>4, <1>5, <1>6, <1>7, Zenon

(***************************************************************************)
(* t has the elements of s, each at most once: none is lost but the one at *)
(* position "without" (0 if none is).                                      *)
(***************************************************************************)
Rearranged(t, s, without) ==
    \E p \in [DOMAIN t -> DOMAIN s] :
        /\ \A j, k \in DOMAIN t : p[j] = p[k] => j = k
        /\ \A j \in DOMAIN t : t[j] = s[p[j]] /\ p[j] # without
        /\ \A i \in DOMAIN s : i # without => \E j \in DOMAIN t : p[j] = i

LEMMA RotateRearranges ==
  ASSUME NEW S, NEW s \in Seq(S), Len(s) > 0
  PROVE  LET t == Tail(s) \o <<Head(s)>>
         IN  t \in Seq(S) /\ Len(t) > 0 /\ Rearranged(t, s, 0)
<1> DEFINE n == Len(s)
           t == Tail(s) \o <<Head(s)>>
           p == [j \in 1 .. n |-> IF j = n THEN 1 ELSE j + 1]
<1>1. n \in Nat /\ n > 0 /\ DOMAIN s = 1 .. n /\ Head(s) = s[1] /\ s[1] \in S
  OBVIOUS
<1>2. Tail(s) \in Seq(S) /\ Len(Tail(s)) = n - 1 /\ \A j \in 1 .. n - 1 : Tail(s)[j] = s[j + 1]
  BY TailOfSeq
<1>3. /\ t \in Seq(S) /\ Len(t) = n /\ DOMAIN t = 1 .. n
      /\ t[n] = s[1] /\ \A j \in 1 .. n - 1 : t[j] = s[j + 1]
  <2> DEFINE a == Tail(s)
             e == Head(s)
  <2>1. a \in Seq(S) /\ e \in S /\ e = s[1] /\ Len(a) = n - 1
    BY <1>1, <1>2
  <2> HIDE DEF a, e
  <2>2. /\ a \o <<e>> \in Seq(S) /\ Len(a \o <<e>>) = Len(a) + 1
        /\ (a \o <<e>>)[Len(a) + 1] = e
        /\ \A j \in 1 .. Len(a) : (a \o <<e>>)[j] = a[j]
    BY <2>1
  <2>3. DOMAIN (a \o <<e>>) = 1 .. n /\ Len(a) + 1 = n
    BY <2>1, <2>2, <1>1
  <2> QED
    BY <2>1, <2>2, <2>3, <1>2 DEF a, e
<1> HIDE DEF t, n
<1>4. p \in [DOMAIN t -> DOMAIN s]
  BY <1>1, <1>3
<1>5. \A j, k \in DOMAIN t : p[j] = p[k] => j = k
  BY <1>1, <1>3
<1>6. \A j \in DOMAIN t : t[j] = s[p[j]] /\ p[j] # 0
  <2>1. \A j \in 1 .. n : j = n \/ j \in 1 .. n - 1
    BY <1>1
  <2> QED
    BY <1>1, <1>3, <2>1
<1>7. \A i \in DOMAIN s : \E j \in DOMAIN t : p[j] = i
  <2>1. ASSUME NEW i \in 1 .. n
        PROVE  \E j \in 1 .. n : p[j] = i
    <3>1. CASE i = 1
      BY <3>1, <1>1
    <3>2. CASE i # 1
      <4>1. i - 1 \in 1 .. n /\ p[i - 1] = i
        BY <3>2, <1>1
      <4> QED
        BY <4>1
    <3> QED
      BY <3>1, <3>2
  <2> QED
    BY <2>1, <1>1, <1>3
<1> HIDE DEF p
<1>8. Len(t) > 0
  BY <1>1, <1>3
<1>9. Rearranged(t, s, 0)
  BY <1>4, <1>5, <1>6, <1>7 DEF Rearranged
<1> QED
  BY <1>3, <1>8, <1>9 DEF t

LEMMA LastFirstRearranges ==
  ASSUME NEW S, NEW s \in Seq(S), Len(s) > 0
  PROVE  LET t == <<Last(s)>> \o Front(s)
         IN  t \in Seq(S) /\ Len(t) > 0 /\ Rearranged(t, s, 0)
<1> DEFINE n == Len(s)
           t == <<Last(s)>> \o Front(s)
           p == [j \in 1 .. n |-> IF j = 1 THEN n ELSE j - 1]
<1>1. n \in Nat /\ n > 0 /\ DOMAIN s = 1 .. n /\ Last(s) = s[n] /\ s[n] \in S
  BY DEF Last
<1>2. Front(s) \in Seq(S) /\ Len(Front(s)) = n - 1 /\ \A j \in 1 .. n - 1 : Front(s)[j] = s[j]
  BY <1>1 DEF Front
<1>3. /\ t \in Seq(S) /\ DOMAIN t = 1 .. n /\ Len(t) = n
      /\ t[1] = s[n] /\ \A j \in 2 .. n : t[j] = s[j - 1]
  <2> DEFINE e == Last(s)
             f == Front(s)
  <2>0. e \in S /\ f \in Seq(S)
    BY <1>1, <1>2
  <2>1. /\ t \in Seq(S) /\ DOMAIN t = 1 .. Len(Front(s)) + 1
        /\ t[1] = Last(s)
        /\ \A j \in 2 .. Len(Front(s)) + 1 : j - 1 \in DOMAIN Front(s) /\ t[j] = Front(s)[j - 1]
    <3> HIDE DEF e, f
    <3>1. /\ <<e>> \o f \in Seq(S) /\ DOMAIN (<<e>> \o f) = 1 .. Len(f) + 1
          /\ (<<e>> \o f)[1] = e
          /\ \A j \in 2 .. Len(f) + 1 : j - 1 \in DOMAIN f /\ (<<e>> \o f)[j] = f[j - 1]
      BY <2>0, ConsElems
    <3> QED
      BY <3>1 DEF e, f
  <2>2. Len(Front(s)) + 1 = n /\ DOMAIN Front(s) = 1 .. n - 1
    BY <1>1, <1>2
  <2>3. \A j \in 2 .. n : t[j] = s[j - 1]
    BY <1>2, <2>1, <2>2
  <2> HIDE DEF t
  <2>4. Len(t) = n
    BY <2>1, <2>2, <1>1
  <2> QED
    BY <1>1, <2>1, <2>2, <2>3, <2>4
<1> HIDE DEF t, n
<1>4. p \in [DOMAIN t -> DOMAIN s]
  BY <1>1, <1>3
<1>5. \A j, k \in DOMAIN t : p[j] = p[k] => j = k
  BY <1>1, <1>3
<1>6. \A j \in DOMAIN t : t[j] = s[p[j]] /\ p[j] # 0
  <2>1. \A j \in 1 .. n : j = 1 \/ j \in 2 .. n
    BY <1>1
  <2> QED
    BY <1>1, <1>3, <2>1
<1>7. \A i \in DOMAIN s : \E j \in DOMAIN t : p[j] = i
  <2>1. ASSUME NEW i \in 1 .. n
        PROVE  \E j \in 1 .. n : p[j] = i
    <3>1. CASE i = n
      BY <3>1, <1>1
    <3>2. CASE i # n
      <4>1. i + 1 \in 1 .. n /\ p[i + 1] = i
        BY <3>2, <1>1
      <4> QED
        BY <4>1
    <3> QED
      BY <3>1, <3>2
  <2> QED
    BY <2>1, <1>1, <1>3
<1> HIDE DEF p
<1>8. Len(t) > 0
  BY <1>1, <1>3
<1>9. Rearranged(t, s, 0)
  BY <1>4, <1>5, <1>6, <1>7 DEF Rearranged
<1> QED
  BY <1>3, <1>8, <1>9 DEF t

LEMMA RemovedRearranges ==
  ASSUME NEW S, NEW s \in Seq(S), NEW i \in DOMAIN s
  PROVE  RemoveAt(s, i) \in Seq(S) /\ Rearranged(RemoveAt(s, i), s, i)
<1> DEFINE n == Len(s)
           t == RemoveAt(s, i)
           p == [j \in 1 .. n - 1 |-> IF j < i THEN j ELSE j + 1]
<1>1. n \in Nat /\ DOMAIN s = 1 .. n /\ i \in 1 .. n /\ i \in Nat
  OBVIOUS
<1>2. /\ t \in Seq(S) /\ Len(t) = n - 1
      /\ \A j \in 1 .. n - 1 : t[j] = IF j < i THEN s[j] ELSE s[j + 1]
  BY RemoveAtElems
<1> HIDE DEF t, n
<1>3. DOMAIN t = 1 .. n - 1
  BY <1>2, ElemsOfSeq
<1>4. p \in [DOMAIN t -> DOMAIN s]
  BY <1>1, <1>3
<1>5. \A j, k \in DOMAIN t : p[j] = p[k] => j = k
  BY <1>1, <1>3
<1>6. \A j \in DOMAIN t : t[j] = s[p[j]] /\ p[j] # i
  BY <1>1, <1>2, <1>3
<1>7. ASSUME NEW k \in DOMAIN s, k # i
      PROVE  \E j \in DOMAIN t : p[j] = k
  <2>1. CASE k < i
    <3>1. k \in 1 .. n - 1 /\ p[k] = k
      BY <2>1, <1>1
    <3> QED
      BY <3>1, <1>3
  <2>2. CASE ~ (k < i)
    <3>1. k - 1 \in 1 .. n - 1 /\ p[k - 1] = k
      BY <2>2, <1>1, <1>7
    <3> QED
      BY <3>1, <1>3
  <2> QED
    BY <2>1, <2>2
<1> HIDE DEF p
<1>8. Rearranged(t, s, i)
  BY <1>4, <1>5, <1>6, <1>7 DEF Rearranged
<1> QED
  BY <1>2, <1>8 DEF t

LEMMA FrontedRearranges ==
  ASSUME NEW S, NEW s \in Seq(S), NEW i \in DOMAIN s
  PROVE  LET t == <<s[i]>> \o RemoveAt(s, i)
         IN  t \in Seq(S) /\ Len(t) > 0 /\ t[1] = s[i] /\ Rearranged(t, s, 0)
<1> DEFINE n == Len(s)
           r == RemoveAt(s, i)
           t == <<s[i]>> \o r
           p == [j \in 1 .. n |-> IF j = 1 THEN i ELSE IF j - 1 < i THEN j - 1 ELSE j]
<1>1. n \in Nat /\ DOMAIN s = 1 .. n /\ i \in 1 .. n /\ i \in Nat /\ s[i] \in S
  OBVIOUS
<1>2. /\ r \in Seq(S) /\ Len(r) = n - 1
      /\ \A j \in 1 .. n - 1 : r[j] = IF j < i THEN s[j] ELSE s[j + 1]
  BY RemoveAtElems
<1> HIDE DEF r, n
<1>3. /\ t \in Seq(S) /\ DOMAIN t = 1 .. Len(r) + 1
      /\ t[1] = s[i]
      /\ \A j \in 2 .. Len(r) + 1 : t[j] = r[j - 1]
  BY <1>1, <1>2, ConsElems
<1> HIDE DEF t
<1>4. DOMAIN t = 1 .. n /\ Len(r) + 1 = n
  BY <1>1, <1>2, <1>3
<1>5. \A j \in 2 .. n : t[j] = IF j - 1 < i THEN s[j - 1] ELSE s[j]
  <2>1. \A j \in 2 .. n : j - 1 \in 1 .. n - 1 /\ (j - 1) + 1 = j
    BY <1>1
  <2> QED
    BY <1>2, <1>3, <1>4, <2>1
<1>6. p \in [DOMAIN t -> DOMAIN s]
  BY <1>1, <1>4
<1>7. \A j, k \in DOMAIN t : p[j] = p[k] => j = k
  BY <1>1, <1>4
<1>8. \A j \in DOMAIN t : t[j] = s[p[j]] /\ p[j] # 0
  <2>1. \A j \in 1 .. n : j = 1 \/ j \in 2 .. n
    BY <1>1
  <2> QED
    BY <1>1, <1>3, <1>4, <1>5, <2>1
<1>9. ASSUME NEW k \in DOMAIN s
      PROVE  \E j \in DOMAIN t : p[j] = k
  <2>1. CASE k = i
    <3>1. 1 \in 1 .. n /\ p[1] = k
      BY <2>1, <1>1
    <3> QED
      BY <3>1, <1>4
  <2>2. CASE k < i
    <3>1. k + 1 \in 1 .. n /\ p[k + 1] = k
      BY <2>2, <1>1
    <3> QED
      BY <3>1, <1>4
  <2>3. CASE k > i
    <3>1. k \in 1 .. n /\ p[k] = k
      BY <2>3, <1>1
    <3> QED
      BY <3>1, <1>4
  <2>4. k = i \/ k < i \/ k > i
    BY <1>1
  <2> QED
    BY <2>1, <2>2, <2>3, <2>4
<1> HIDE DEF p
<1>10. Len(t) > 0
  BY <1>1, <1>3, <1>4
<1>11. Rearranged(t, s, 0)
  BY <1>6, <1>7, <1>8, <1>9 DEF Rearranged
<1> QED
  BY <1>3, <1>10, <1>11 DEF t, r

-----------------------------------------------------------------------------
LEMMA RearrangedNames ==
  ASSUME WorkInv, NEW r, NEW i, Rearranged(r, Frames, i)
  PROVE  /\ NamesOnce(r)
         /\ \A j \in DOMAIN r : \E k \in DOMAIN Frames : k # i /\ r[j] = Frames[k]
         /\ \A k \in DOMAIN Frames : k # i => \E j \in DOMAIN r : r[j] = Frames[k]
<1>1. NamesOnce(Frames)
  BY StoredFrames
<1>2. PICK p \in [DOMAIN r -> DOMAIN Frames] :
         /\ \A j, k \in DOMAIN r : p[j] = p[k] => j = k
         /\ \A j \in DOMAIN r : r[j] = Frames[p[j]] /\ p[j] # i
         /\ \A l \in DOMAIN Frames : l # i => \E j \in DOMAIN r : p[j] = l
  BY DEF Rearranged
<1>3. ASSUME NEW j \in DOMAIN r, NEW k \in DOMAIN r, r[j].name = r[k].name
      PROVE  j = k
  <2>1. p[j] \in DOMAIN Frames /\ p[k] \in DOMAIN Frames
    BY <1>2
  <2>2. Frames[p[j]].name = Frames[p[k]].name
    BY <1>2, <1>3
  <2>3. p[j] = p[k]
    BY <2>1, <2>2, <1>1 DEF NamesOnce
  <2> QED
    BY <2>3, <1>2
<1>4. NamesOnce(r)
  BY <1>3 DEF NamesOnce
<1>5. \A j \in DOMAIN r : \E k \in DOMAIN Frames : k # i /\ r[j] = Frames[k]
  BY <1>2
<1>6. \A k \in DOMAIN Frames : k # i => \E j \in DOMAIN r : r[j] = Frames[k]
  BY <1>2
<1> QED
  BY <1>4, <1>5, <1>6

(* Turning the ring is entering another frame: the world stays. *)
LEMMA RearrangedEnters ==
  ASSUME WorkInv, NEW r \in Seq(FrameRecords(heap)), Len(r) > 0, Rearranged(r, Frames, 0), GoTo(r)
  PROVE  WorkInv' /\ \E f \in Name : Abstract!Enter(f)
<1>1. DOMAIN Frames = 1 .. Len(Frames)
  BY StoredFrames, ElemsOfSeq
<1>2. /\ NamesOnce(r)
      /\ \A j \in DOMAIN r : \E k \in DOMAIN Frames : r[j] = Frames[k]
      /\ \A k \in DOMAIN Frames : k # 0 => \E j \in DOMAIN r : r[j] = Frames[k]
  BY RearrangedNames
<1>3. \A k \in DOMAIN Frames : \E j \in DOMAIN r : r[j] = Frames[k]
  <2>1. \A k \in DOMAIN Frames : k # 0
    BY <1>1
  <2> QED
    BY <1>2, <2>1
<1>4. /\ WorkInv'
      /\ Current' = r[1].name /\ r[1].name \in Name
      /\ World' = [f \in DOMAIN World' |-> World'[f]]
      /\ DOMAIN World' = {r[i].name : i \in DOMAIN r}
      /\ \A i \in DOMAIN r : World'[r[i].name] = Seen(heap, r[i])
  BY <1>2, StepToFrame
<1>5. /\ World = [f \in DOMAIN World |-> World[f]]
      /\ DOMAIN World = {Frames[i].name : i \in DOMAIN Frames}
      /\ \A i \in DOMAIN Frames : World[Frames[i].name] = Seen(heap, Frames[i])
  BY WorldOfFrames
<1>6. DOMAIN World' = DOMAIN World
  BY <1>2, <1>3, <1>4, <1>5
<1>7. ASSUME NEW f \in DOMAIN World
      PROVE  World'[f] = World[f]
  <2>1. PICK j \in DOMAIN r : f = r[j].name
    BY <1>4, <1>6
  <2>2. PICK k \in DOMAIN Frames : r[j] = Frames[k]
    BY <1>2
  <2> QED
    BY <2>1, <2>2, <1>4, <1>5
<1>8. World' = World
  BY <1>4, <1>5, <1>6, <1>7, SameWorld
<1>9. r[1].name \in DOMAIN World
  <2>1. 1 \in DOMAIN r
    BY ElemsOfSeq
  <2> QED
    BY <2>1, <1>4, <1>6
<1>10. Abstract!Enter(r[1].name)
  BY <1>4, <1>8, <1>9 DEF Abstract!Enter, Abstract!Open
<1> QED
  BY <1>4, <1>10

LEMMA TurnKeeps ==
  ASSUME WorkInv, NextFrame \/ LastFrame
  PROVE  WorkInv' /\ \E f \in Name : Abstract!Enter(f)
<1>1. Frames \in Seq(FrameRecords(heap)) /\ Len(Frames) > 0
  BY StoredFrames, RingElems
<1>2. CASE NextFrame
  <2> DEFINE r == Tail(Frames) \o <<Head(Frames)>>
  <2>1. GoTo(r)
    BY <1>2 DEF NextFrame, Frames
  <2>2. r \in Seq(FrameRecords(heap)) /\ Len(r) > 0 /\ Rearranged(r, Frames, 0)
    BY <1>1, RotateRearranges
  <2> HIDE DEF r
  <2> QED
    BY <2>1, <2>2, RearrangedEnters
<1>3. CASE LastFrame
  <2> DEFINE r == <<Last(Frames)>> \o Front(Frames)
  <2>1. GoTo(r)
    BY <1>3 DEF LastFrame, Frames
  <2>2. r \in Seq(FrameRecords(heap)) /\ Len(r) > 0 /\ Rearranged(r, Frames, 0)
    BY <1>1, LastFirstRearranges
  <2> HIDE DEF r
  <2> QED
    BY <2>1, <2>2, RearrangedEnters
<1> QED
  BY <1>2, <1>3

LEMMA ChangeToKeeps ==
  ASSUME WorkInv, NEW f \in Name, ChangeToFrame(f)
  PROVE  WorkInv' /\ \E g \in Name : Abstract!Enter(g)
<1> DEFINE i == CHOOSE k \in Named(f) : TRUE
           r == <<Frames[i]>> \o RemoveAt(Frames, i)
<1>1. Named(f) # {} /\ GoTo(r)
  BY DEF ChangeToFrame, Frames
<1>2. i \in DOMAIN Frames
  BY <1>1, StoredFrames DEF Named
<1> HIDE DEF i
<1>3. Frames \in Seq(FrameRecords(heap))
  BY StoredFrames
<1>4. r \in Seq(FrameRecords(heap)) /\ Len(r) > 0 /\ Rearranged(r, Frames, 0)
  BY <1>2, <1>3, FrontedRearranges
<1> HIDE DEF r
<1> QED
  BY <1>1, <1>4, RearrangedEnters

LEMMA RefusedKeeps ==
  ASSUME WorkInv, NEW f \in Name, NewFrameRefused(f)
  PROVE  WorkInv' /\ \E g \in Name : Abstract!Enter(g)
<1>1. GoTo(Frames)
  BY DEF NewFrameRefused, Frames
<1>2. Frames \in Seq(FrameRecords(heap)) /\ Len(Frames) > 0 /\ DOMAIN Frames = 1 .. Len(ring)
  BY StoredFrames, RingElems
<1>3. Rearranged(Frames, Frames, 0)
  <2> DEFINE p == [j \in DOMAIN Frames |-> j]
  <2>1. p \in [DOMAIN Frames -> DOMAIN Frames]
    OBVIOUS
  <2>2. \A j \in DOMAIN Frames : p[j] = j /\ p[j] # 0
    BY <1>2
  <2> HIDE DEF p
  <2> QED
    BY <2>1, <2>2 DEF Rearranged
<1> QED
  BY <1>1, <1>2, <1>3, RearrangedEnters

LEMMA NewFrameKeeps ==
  ASSUME WorkInv, NEW f \in Name, NewFrame(f)
  PROVE  WorkInv' /\ Abstract!New(f)
<1> DEFINE new == EmptyInterpreterFrame(f)
           r == <<new>> \o Frames
<1>1. Named(f) = {} /\ GoTo(r)
  BY DEF NewFrame, Frames
<1>2. new = [name |-> f, env |-> Nothing, IOindex |-> 1] /\ new.name = f /\ new.env = Nothing
  BY DEF EmptyInterpreterFrame
<1>3. new \in FrameRecords(heap)
  BY <1>2, NothingSeen, FrameRecordIntro
<1>4. Seen(heap, new) = Abstract!EmptyFrame
  BY <1>2, NothingSeen DEF Seen, Abstract!EmptyFrame
<1> HIDE DEF new
<1>5. Frames \in Seq(FrameRecords(heap)) /\ DOMAIN Frames = DOMAIN ring /\ NamesOnce(Frames)
      /\ \A k \in DOMAIN ring : Frames[k].name = ring[k].name
  BY StoredFrames
<1>6. /\ r \in Seq(FrameRecords(heap))
      /\ DOMAIN r = 1 .. Len(Frames) + 1
      /\ r[1] = new
      /\ \A k \in 2 .. Len(Frames) + 1 : k - 1 \in DOMAIN Frames /\ r[k] = Frames[k - 1]
  BY <1>3, <1>5, ConsElems
<1> HIDE DEF r
<1>7. Len(Frames) \in Nat /\ DOMAIN Frames = 1 .. Len(Frames)
  BY <1>5, ElemsOfSeq
<1>8. \A k \in DOMAIN r : k = 1 \/ k \in 2 .. Len(Frames) + 1
  BY <1>6, <1>7
<1>9. \A k \in DOMAIN Frames : Frames[k].name # f
  BY <1>1, <1>5 DEF Named
<1>10. \A k \in DOMAIN Frames : k + 1 \in DOMAIN r /\ r[k + 1] = Frames[k]
  <2>1. \A k \in 1 .. Len(Frames) : k + 1 \in 2 .. Len(Frames) + 1 /\ (k + 1) - 1 = k /\ k + 1 \in 1 .. Len(Frames) + 1
    BY <1>7
  <2> QED
    BY <2>1, <1>6, <1>7
<1>11. NamesOnce(r)
  <2>1. ASSUME NEW j \in DOMAIN r, NEW k \in DOMAIN r, r[j].name = r[k].name
        PROVE  j = k
    <3>1. CASE j = 1
      BY <3>1, <2>1, <1>2, <1>6, <1>8, <1>9
    <3>2. CASE k = 1
      BY <3>2, <2>1, <1>2, <1>6, <1>8, <1>9
    <3>3. CASE j # 1 /\ k # 1
      <4>1. /\ j - 1 \in DOMAIN Frames /\ r[j] = Frames[j - 1]
            /\ k - 1 \in DOMAIN Frames /\ r[k] = Frames[k - 1]
        BY <3>3, <1>6, <1>8
      <4>2. j - 1 = k - 1
        BY <4>1, <2>1, <1>5 DEF NamesOnce
      <4> QED
        BY <4>2, <1>6, <1>7
    <3> QED
      BY <3>1, <3>2, <3>3
  <2> QED
    BY <2>1 DEF NamesOnce
<1>12. \A k \in DOMAIN r : r[k].env = Nothing \/ \E j \in DOMAIN Frames : r[k] = Frames[j]
  BY <1>2, <1>6, <1>8
<1>13. Len(r) > 0 /\ 1 \in DOMAIN r
  BY <1>6, <1>7, ElemsOfSeq
<1>14. /\ WorkInv'
       /\ Current' = r[1].name
       /\ World' = [g \in DOMAIN World' |-> World'[g]]
       /\ DOMAIN World' = {r[k].name : k \in DOMAIN r}
       /\ \A k \in DOMAIN r : World'[r[k].name] = Seen(heap, r[k])
  BY <1>1, <1>6, <1>11, <1>12, <1>13, StepToFrame
<1>15. /\ DOMAIN World = {Frames[k].name : k \in DOMAIN Frames}
       /\ \A k \in DOMAIN Frames : World[Frames[k].name] = Seen(heap, Frames[k])
  BY WorldOfFrames
<1>16. f \notin DOMAIN World
  BY <1>9, <1>15
<1>17. DOMAIN World' = DOMAIN World \cup {f}
  <2>1. \A k \in DOMAIN r : r[k].name = f \/ r[k].name \in DOMAIN World
    BY <1>2, <1>6, <1>8, <1>15
  <2>2. \A g \in DOMAIN World : \E k \in DOMAIN r : r[k].name = g
    BY <1>10, <1>15
  <2>3. r[1].name = f
    BY <1>2, <1>6
  <2> QED
    BY <2>1, <2>2, <2>3, <1>13, <1>14
<1>18. World'[f] = Abstract!EmptyFrame
  BY <1>2, <1>4, <1>6, <1>13, <1>14
<1>19. ASSUME NEW g \in DOMAIN World
       PROVE  World'[g] = World[g]
  <2>1. PICK k \in DOMAIN Frames : g = Frames[k].name
    BY <1>15
  <2> QED
    BY <2>1, <1>10, <1>14, <1>15
<1>20. World' = [g \in DOMAIN World \cup {f} |-> IF g = f THEN Abstract!EmptyFrame ELSE World[g]]
  BY <1>14, <1>17, <1>18, <1>19
<1>21. Current' = f
  BY <1>2, <1>6, <1>14
<1> QED
  BY <1>14, <1>16, <1>20, <1>21 DEF Abstract!New, Abstract!Open

LEMMA DropFrameKeeps ==
  ASSUME WorkInv, Careful, NEW f \in Name, DropFrame(f)
  PROVE  WorkInv' /\ Abstract!Drop(f)
<1> DEFINE i == CHOOSE k \in Named(f) : TRUE
           r == RemoveAt(ring, i)
<1>1. Len(ring) > 1 /\ Named(f) # {} /\ headIsEnv /\ GoTo(r)
  BY DEF DropFrame
<1>2. i \in DOMAIN ring /\ ring[i].name = f
  BY <1>1 DEF Named
<1> HIDE DEF i
<1>3. Frames = ring
  <2>1. ring[1].env = env
    BY <1>1 DEF WorkInv
  <2>2. [ring[1] EXCEPT !.env = env, !.IOindex = IOindex] = ring[1]
    <3>1. /\ ring[1] \in FrameRecords(heap) /\ ring[1].name = Current
          /\ ring[1] = [name |-> Current, env |-> ring[1].env, IOindex |-> IOindex]
      BY CurrentStored
    <3>2. ring[1] \in FrameRecords(heap)
      BY <3>1
    <3>3. [ring[1] EXCEPT !.env = env, !.IOindex = IOindex]
             = [name |-> ring[1].name, env |-> env, IOindex |-> IOindex]
      BY <3>2, FrameRecordUpdate
    <3> QED
      BY <3>1, <3>3, <2>1
  <2>3. ring = [ring EXCEPT ![1] = ring[1]]
    BY CurrentStored
  <2> QED
    BY <2>2, <2>3 DEF Frames, Stored
<1>4. ring \in Seq(FrameRecords(heap)) /\ NamesOnce(ring)
  BY DEF WorkInv
<1>5. r \in Seq(FrameRecords(heap)) /\ Rearranged(r, Frames, i)
  BY <1>2, <1>3, <1>4, RemovedRearranges
<1>6. /\ Len(r) = Len(ring) - 1
      /\ \A j \in 1 .. Len(ring) - 1 : r[j] = IF j < i THEN ring[j] ELSE ring[j + 1]
  BY <1>2, <1>4, RemoveAtElems
<1> HIDE DEF r
<1>7. DOMAIN ring = 1 .. Len(ring) /\ Len(ring) \in Nat
  BY RingElems
<1>8. Len(r) > 0 /\ 1 \in DOMAIN r
  BY <1>1, <1>5, <1>6, <1>7, ElemsOfSeq
<1>9. /\ NamesOnce(r)
      /\ \A j \in DOMAIN r : \E k \in DOMAIN ring : k # i /\ r[j] = ring[k]
      /\ \A k \in DOMAIN ring : k # i => \E j \in DOMAIN r : r[j] = ring[k]
  BY <1>3, <1>5, RearrangedNames
<1>10. /\ WorkInv'
       /\ Current' = r[1].name
       /\ World' = [g \in DOMAIN World' |-> World'[g]]
       /\ DOMAIN World' = {r[k].name : k \in DOMAIN r}
       /\ \A k \in DOMAIN r : World'[r[k].name] = Seen(heap, r[k])
  BY <1>1, <1>3, <1>5, <1>8, <1>9, StepToFrame
<1>11. /\ DOMAIN World = {ring[k].name : k \in DOMAIN ring}
       /\ \A k \in DOMAIN ring : World[ring[k].name] = Seen(heap, ring[k])
  BY <1>3, WorldOfFrames
<1>12. f \in DOMAIN World
  BY <1>2, <1>11
<1>13. \A k \in DOMAIN ring : k # i => ring[k].name # f
  BY <1>2, <1>4 DEF NamesOnce
<1>14. DOMAIN World' = DOMAIN World \ {f}
  <2>1. \A j \in DOMAIN r : r[j].name \in DOMAIN World /\ r[j].name # f
    BY <1>9, <1>11, <1>13
  <2>2. ASSUME NEW g \in DOMAIN World, g # f
        PROVE  \E j \in DOMAIN r : r[j].name = g
    <3>1. PICK k \in DOMAIN ring : g = ring[k].name
      BY <1>11
    <3> QED
      BY <3>1, <2>2, <1>2, <1>9
  <2> QED
    BY <2>1, <2>2, <1>10
<1>15. ASSUME NEW g \in DOMAIN World \ {f}
       PROVE  World'[g] = World[g]
  <2>1. PICK j \in DOMAIN r : g = r[j].name
    BY <1>10, <1>14
  <2> QED
    BY <2>1, <1>9, <1>10, <1>11
<1>16. World' = [g \in DOMAIN World \ {f} |-> World[g]]
  BY <1>10, <1>14, <1>15
<1>17. Current' \in DOMAIN World \ {f}
  BY <1>8, <1>10, <1>14
<1>18. ASSUME f # Current
       PROVE  Current' = Current
  <2>1. i # 1
    BY <1>2, <1>18 DEF Current
  <2>2. 1 < i /\ 1 \in 1 .. Len(ring) - 1
    BY <2>1, <1>1, <1>2, <1>7
  <2>3. r[1] = ring[1]
    BY <2>2, <1>6
  <2> QED
    BY <2>3, <1>10 DEF Current
<1> QED
  BY <1>10, <1>12, <1>16, <1>17, <1>18 DEF Abstract!Drop, Abstract!Open

-----------------------------------------------------------------------------
LEMMA WorkInit == Init => WorkInv /\ Abstract!FrameInit
<1> SUFFICES ASSUME Init
             PROVE  WorkInv /\ Abstract!FrameInit
  OBVIOUS
<1> DEFINE g == [name |-> "initial", env |-> Nothing, IOindex |-> 1]
<1>1. /\ heap = <<>> /\ env = Nothing /\ frameRecord = <<>> /\ previousBindings = Nothing
      /\ IOindex = 1 /\ ring = <<g>> /\ headIsEnv = TRUE /\ failed = 0 /\ commands = 0
      /\ wrote = {} /\ intact = TRUE
  BY DEF Init
<1>2. g.name = "initial" /\ g.env = Nothing /\ g.IOindex = 1 /\ "initial" \in Name
  BY WorkspaceAssumption
<1>3. g \in FrameRecords(heap)
  BY <1>2, NothingSeen, FrameRecordIntro
<1> HIDE DEF g
<1>4. ring \in Seq(FrameRecords(heap)) /\ Len(ring) = 1 /\ ring[1] = g /\ DOMAIN ring = {1}
  BY <1>1, <1>3
<1>5. Current = "initial"
  BY <1>2, <1>4 DEF Current
<1>6. Rest = {}
  BY <1>4 DEF Rest
<1>7. Here = [heap |-> heap, env |-> Nothing, record |-> <<>>, previous |-> Nothing]
  BY <1>1 DEF Here
<1>8. /\ Here.heap = heap /\ Here.env = Nothing /\ Here.record = <<>> /\ Here.previous = Nothing
      /\ Here = [heap |-> Here.heap, env |-> Here.env, record |-> Here.record, previous |-> Here.previous]
  BY <1>7
<1>9. Nothing \in PairsOf(heap) /\ DOMAIN Nothing = {}
  BY NothingSeen
<1>10. Nothing \in SomeBindings
  <2>1. Nothing = [x \in DOMAIN Nothing |-> Nothing[x]]
    BY <1>9, EnvElim
  <2> QED
    BY <1>9, <2>1, BindingsIntro
<1>11. /\ <<>> \in Seq([system : BOOLEAN, changes : PairsOf(heap)])
       /\ heap \in Seq(Value)
  BY <1>1
<1>12. FrameSound(Current, Nothing, heap, wrote)
  BY <1>9 DEF FrameSound, SameName
<1>13. WorkspaceSound(Here, Current, Rest, wrote)
  BY <1>6, <1>8, <1>10, <1>11, <1>12 DEF WorkspaceSound
<1>14. RecordSound(Here, Current, Rest, wrote)
  <2>1. DOMAIN Here.record = {}
    BY <1>8
  <2> QED
    BY <2>1, <1>8, <1>9 DEF RecordSound
<1>15. NamesOnce(ring)
  BY <1>4 DEF NamesOnce
<1>16. IsFiniteSet(wrote)
  BY <1>1, FS_EmptySet
<1>17. failed \in 0 .. MaxFailed /\ commands \in 0 .. MaxCommands
  BY <1>1, WorkspaceAssumption
<1>18. WorkInv
  BY <1>1, <1>2, <1>4, <1>6, <1>13, <1>14, <1>15, <1>16, <1>17 DEF WorkInv
<1>19. FrameSeen(1) = Abstract!EmptyFrame
  BY <1>1, NothingSeen DEF FrameSeen, Abstract!EmptyFrame
<1>20. World = [f \in {Current} |-> Abstract!EmptyFrame]
  <2>1. ring[1].name = Current /\ 1 \in DOMAIN ring
    BY <1>4 DEF Current
  <2>2. World[Current] = FrameSeen(1)
    BY <2>1, <1>15, WorldAt
  <2>3. DOMAIN World = {Current} /\ World = [f \in DOMAIN World |-> World[f]]
    BY <2>1, <1>4, WorldDomain DEF World
  <2> QED
    BY <2>2, <2>3, <1>19
<1>21. Abstract!FrameInit
  BY <1>2, <1>5, <1>20 DEF Abstract!FrameInit
<1> QED
  BY <1>18, <1>21

LEMMA WorkNext ==
  ASSUME WorkInv, Careful, Next
  PROVE  WorkInv' /\ Abstract!FrameNext
<1>1. ASSUME NEW x \in Var, Line(x) \/ FailedLine(x)
      PROVE  WorkInv' /\ Abstract!Work
  BY <1>1, LineKeeps, FailedLineKeeps
<1>2. ASSUME NEW x \in Var, NEW what, ClearParts(x, what)
      PROVE  WorkInv' /\ Abstract!Work
  BY <1>2, ClearPartsKeeps
<1>3. ASSUME ClearAll
      PROVE  WorkInv' /\ Abstract!Work
  BY <1>3, ClearAllKeeps
<1>4. ASSUME NEW n \in UndoArgs, NEW when, Undo(n, when)
      PROVE  WorkInv' /\ Abstract!Work
  BY <1>4, UndoKeeps
<1>5. ASSUME NEW f \in Name, NEW x \in Var, Import(f, x)
      PROVE  WorkInv' /\ Abstract!Work
  BY <1>5, ImportKeeps
<1>6. ASSUME NextFrame \/ LastFrame
      PROVE  WorkInv' /\ \E f \in Name : Abstract!Enter(f)
  BY <1>6, TurnKeeps
<1>7. ASSUME NEW f \in Name, ChangeToFrame(f) \/ NewFrameRefused(f)
      PROVE  WorkInv' /\ \E g \in Name : Abstract!Enter(g)
  BY <1>7, ChangeToKeeps, RefusedKeeps
<1>8. ASSUME NEW f \in Name, NewFrame(f)
      PROVE  WorkInv' /\ Abstract!New(f)
  BY <1>8, NewFrameKeeps
<1>9. ASSUME NEW f \in Name, DropFrame(f)
      PROVE  WorkInv' /\ Abstract!Drop(f)
  BY <1>9, DropFrameKeeps
<1>10. WorkInv' /\ (Abstract!Work \/ \E f \in Name : Abstract!New(f) \/ Abstract!Enter(f) \/ Abstract!Drop(f))
  BY <1>1, <1>2, <1>3, <1>4, <1>5, <1>6, <1>7, <1>8, <1>9 DEF Next
<1> QED
  BY <1>10 DEF Abstract!FrameNext

(* A step that changes no variable is a stutter of the frames too. *)
LEMMA WorkStutter ==
  ASSUME WorkInv, UNCHANGED vars
  PROVE  WorkInv' /\ UNCHANGED Abstract!abs
<1>1. /\ heap' = heap /\ env' = env /\ frameRecord' = frameRecord
      /\ previousBindings' = previousBindings /\ IOindex' = IOindex /\ ring' = ring
      /\ headIsEnv' = headIsEnv /\ failed' = failed /\ commands' = commands
      /\ wrote' = wrote /\ intact' = intact
  BY DEF vars
<1>2. Here' = Here /\ Current' = Current /\ Rest' = Rest
  BY <1>1 DEF Here, Current, Rest
<1>3. WorkInv'
  BY <1>1, <1>2 DEF WorkInv
<1>4. World' = World
  <2>1. \A i : FrameSeen(i)' = FrameSeen(i)
    BY <1>1 DEF FrameSeen
  <2> QED
    BY <2>1, <1>1 DEF World
<1> QED
  BY <1>2, <1>3, <1>4 DEF Abstract!abs

LEMMA WorkInvariant == Careful => (Spec => []WorkInv)
<1> SUFFICES ASSUME Careful
             PROVE  Spec => []WorkInv
  OBVIOUS
<1>1. Init => WorkInv
  BY WorkInit
<1>2. WorkInv /\ [Next]_vars => WorkInv'
  BY WorkNext, WorkStutter
<1> QED
  BY <1>1, <1>2, PTL DEF Spec

-----------------------------------------------------------------------------
(* What the invariant says of an environment, as TypeOK and OwnValues put it. *)
LEMMA PairsAreEnv ==
  ASSUME NEW e \in PairsOf(heap)
  PROVE  IsEnv(e)
BY EnvElim DEF IsEnv, Cells

LEMMA InvGivesType == WorkInv => TypeOK
<1> SUFFICES ASSUME WorkInv
             PROVE  TypeOK
  OBVIOUS
<1>1. /\ heap \in Seq(Value) /\ env \in PairsOf(heap)
      /\ previousBindings \in SomeBindings
      /\ frameRecord \in Seq([system : BOOLEAN, changes : PairsOf(heap)])
  BY HereParts
<1>2. IsEnv(env)
  BY <1>1, PairsAreEnv
<1>3. \A e \in ToSet(frameRecord) : e.system \in BOOLEAN /\ IsEnv(e.changes)
  <2> SUFFICES ASSUME NEW e \in ToSet(frameRecord)
               PROVE  e.system \in BOOLEAN /\ IsEnv(e.changes)
    OBVIOUS
  <2>1. PICK i \in DOMAIN frameRecord : e = frameRecord[i]
    BY DEF ToSet
  <2>2. e \in [system : BOOLEAN, changes : PairsOf(heap)]
    BY <1>1, <2>1, ElemsOfSeq
  <2>3. e.system \in BOOLEAN /\ e.changes \in PairsOf(heap)
    BY <2>2
  <2> QED
    BY <2>3, PairsAreEnv
<1>4. DOMAIN previousBindings \subseteq Var /\ \A x \in DOMAIN previousBindings : previousBindings[x] \in Value
  BY <1>1, BindingsElim
<1>5. \A f \in ToSet(ring) : f.name \in Name /\ IsEnv(f.env) /\ f.IOindex \in Nat \ {0}
  <2> SUFFICES ASSUME NEW f \in ToSet(ring)
               PROVE  f.name \in Name /\ IsEnv(f.env) /\ f.IOindex \in Nat \ {0}
    OBVIOUS
  <2>1. PICK i \in DOMAIN ring : f = ring[i]
    BY DEF ToSet
  <2>2. f \in FrameRecords(heap)
    BY <2>1, RingElems
  <2> QED
    BY <2>2, FrameRecordElim, PairsAreEnv
<1>6. ring # <<>>
  BY DEF WorkInv
<1>7. /\ IOindex \in Nat \ {0} /\ headIsEnv \in BOOLEAN /\ intact \in BOOLEAN
      /\ failed \in 0 .. MaxFailed /\ commands \in 0 .. MaxCommands
  BY DEF WorkInv
<1> QED
  BY <1>1, <1>2, <1>3, <1>4, <1>5, <1>6, <1>7 DEF TypeOK

LEMMA InvGivesOwnValues == WorkInv => OwnValues
<1> SUFFICES ASSUME WorkInv, NEW i \in DOMAIN ring,
                    NEW x \in DOMAIN FrameSeen(i).bindings
             PROVE  <<ring[i].name, x, FrameSeen(i).bindings[x]>> \in wrote
  BY DEF OwnValues
<1>1. FrameSeen(i).bindings = Visible(Bindings(heap, IF i = 1 THEN env ELSE ring[i].env))
  BY DEF FrameSeen
<1> DEFINE e == IF i = 1 THEN env ELSE ring[i].env
<1>2. FrameSound(ring[i].name, e, heap, wrote)
  <2>1. i = 1 \/ ring[i] \in Rest
    BY RingElems
  <2> QED
    BY <2>1, HereParts DEF Current
<1> HIDE DEF e
<1>3. FrameSeen(i).bindings = Visible(Bindings(heap, e))
  BY <1>1 DEF e
<1> DEFINE b == Bindings(heap, e)
<1>4. DOMAIN b = DOMAIN e /\ \A y \in DOMAIN e : b[y] = heap[e[y]]
  BY DEF Bindings
<1> HIDE DEF b
<1>5. x \in DOMAIN b /\ b[x] # Nil /\ FrameSeen(i).bindings[x] = b[x].val
  BY <1>3 DEF Visible, b
<1>6. OwnedIn(ring[i].name, x, b[x], wrote)
  BY <1>2, <1>4, <1>5 DEF FrameSound
<1> QED
  BY <1>5, <1>6 DEF OwnedIn

(***************************************************************************)
(* Type correctness: every environment, the record of )undo and every      *)
(* frame of the ring hold pairs of the heap only (i-syscmd.boot), however  *)
(* pairs are added, shared, overwritten in place, copied and taken out.    *)
(***************************************************************************)
THEOREM WorkspaceTypeCorrect == Careful => (Spec => []TypeOK)
<1> SUFFICES ASSUME Careful
             PROVE  Spec => []TypeOK
  OBVIOUS
<1>1. Spec => []WorkInv
  BY WorkInvariant
<1> QED
  BY <1>1, InvGivesType, PTL

(***************************************************************************)
(* A frame holds only values that were assigned in it or imported into it, *)
(* for any number of frames, names, lines and commands: pairs are          *)
(* overwritten in place, but never a pair that another frame can reach.    *)
(* Careful users only: the )undo after a change of frame, which does bring *)
(* values of one frame into another, is left out (intact in Undo).         *)
(***************************************************************************)
THEOREM ValuesAreOwn == Careful => (Spec => []OwnValues)
<1> SUFFICES ASSUME Careful
             PROVE  Spec => []OwnValues
  OBVIOUS
<1>1. Spec => []WorkInv
  BY WorkInvariant
<1> QED
  BY <1>1, InvGivesOwnValues, PTL

(***************************************************************************)
(* The ring of saved records, the globals and the heap they share          *)
(* implement a map from names to independent frames (FrameMap): every      *)
(* step is a step of it or leaves it as it is.                             *)
(***************************************************************************)
THEOREM FramesAreIndependent == Careful => (Spec => FramesIndependent)
<1> SUFFICES ASSUME Careful
             PROVE  Spec => FramesIndependent
  OBVIOUS
<1>1. Init => Abstract!FrameInit
  BY WorkInit
<1>2. WorkInv /\ [Next]_vars => [Abstract!FrameNext]_(Abstract!abs)
  BY WorkNext, WorkStutter
<1>3. Spec => []WorkInv
  BY WorkInvariant
<1> QED
  BY <1>1, <1>2, <1>3, PTL DEF Spec, FramesIndependent, Abstract!FrameSpec

-----------------------------------------------------------------------------
(***************************************************************************)
(* )undo gives back what the frame held.  The record is described by the   *)
(* function pos that says where in it the entry of each step of the frame  *)
(* stands (Laid); between two of them there may be one entry of system     *)
(* commands.  Every entry leads from what was seen after it to what was    *)
(* seen before it (Tells), so that the record tells the past.              *)
(***************************************************************************)
SomeSeen == UNION {[D -> Nat] : D \in SUBSET Var}

(* The value a name has for the user, in a set that is empty if it has none. *)
ValueOf(v) == IF v = Nil THEN {} ELSE {v.val}
ValueAt(b, x) == IF x \in DOMAIN b THEN {b[x]} ELSE {}

SeenIn(w) == Visible(Bindings(w.heap, w.env))

Alike(b, a) == \A x \in Var : ValueAt(b, x) = ValueAt(a, x)

(* Undoing the changes c in what is seen as b gives a. *)
Leads(c, h, b, a) ==
    \A x \in Var : ValueAt(a, x) = IF x \in DOMAIN c THEN ValueOf(h[c[x]]) ELSE ValueAt(b, x)

(* What was seen before and after step j of the past p. *)
BeforeOf(p, w, j) == IF j = Len(p) + 1 THEN Visible(w.previous) ELSE p[j].before
AfterOf(p, j) == IF j = 0 THEN Nothing ELSE p[j].after

Laid(pos, record, n) ==
    /\ pos \in [0 .. n + 1 -> Nat]
    /\ pos[0] = Len(record) + 1 /\ pos[n + 1] = 0
    /\ \A j \in 0 .. n : pos[j] \in 1 .. Len(record) + 1
    /\ \A j \in 1 .. n : pos[j] \in DOMAIN record /\ ~record[pos[j]].system
    /\ \A j \in 0 .. n : \/ pos[j] = pos[j + 1] + 1
                         \/ /\ pos[j] = pos[j + 1] + 2
                            /\ pos[j + 1] + 1 \in DOMAIN record /\ record[pos[j + 1] + 1].system

Tells(pos, w, p) ==
    /\ \A j \in 1 .. Len(p) : Leads(w.record[pos[j]].changes, w.heap, p[j].after, p[j].before)
    /\ \A j \in 0 .. Len(p) :
          /\ pos[j] = pos[j + 1] + 1 => Alike(BeforeOf(p, w, j + 1), AfterOf(p, j))
          /\ pos[j] = pos[j + 1] + 2 => Leads(w.record[pos[j + 1] + 1].changes, w.heap,
                                              BeforeOf(p, w, j + 1), AfterOf(p, j))

(* No pair is in two entries of the record, or in one and in the environment. *)
Apart(w) ==
    /\ \A i, j \in DOMAIN w.record : i # j => NoShare(w.record[i].changes, w.record[j].changes)
    /\ \A i \in DOMAIN w.record : NoShare(w.record[i].changes, w.env)

UndoSound(w, p) ==
    /\ p \in Seq([before : SomeSeen, after : SomeSeen])
    /\ Apart(w)
    /\ \E pos : Laid(pos, w.record, Len(p)) /\ Tells(pos, w, p)

UndoInv == UndoReturns /\ (intact => UndoSound(Here, past))

-----------------------------------------------------------------------------
LEMMA SeenElim ==
  ASSUME NEW b \in SomeSeen
  PROVE  b = [x \in DOMAIN b |-> b[x]] /\ DOMAIN b \subseteq Var
BY DEF SomeSeen

LEMMA AlikeIsEqual ==
  ASSUME NEW a \in SomeSeen, NEW b \in SomeSeen, Alike(a, b)
  PROVE  a = b
<1>1. ASSUME NEW x \in Var
      PROVE  (x \in DOMAIN a <=> x \in DOMAIN b) /\ (x \in DOMAIN a => a[x] = b[x])
  BY DEF Alike, ValueAt
<1>2. /\ a = [x \in DOMAIN a |-> a[x]] /\ DOMAIN a \subseteq Var
      /\ b = [x \in DOMAIN b |-> b[x]] /\ DOMAIN b \subseteq Var
  BY SeenElim
<1>3. DOMAIN a = DOMAIN b
  BY <1>1, <1>2
<1> QED
  BY <1>1, <1>2, <1>3

LEMMA NothingIsSeen == Nothing \in SomeSeen
<1>1. Nothing = [x \in {} |-> 0]
  BY DEF Nothing
<1>2. [x \in {} |-> 0] \in [{} -> Nat] /\ {} \in SUBSET Var
  OBVIOUS
<1> QED
  BY <1>1, <1>2 DEF SomeSeen

(* What the user sees of bindings, name by name. *)
LEMMA VisibleAt ==
  ASSUME NEW b \in SomeBindings
  PROVE  /\ Visible(b) \in SomeSeen
         /\ \A x \in Var : ValueAt(Visible(b), x) = IF x \in DOMAIN b THEN ValueOf(b[x]) ELSE {}
<1> DEFINE D == {y \in DOMAIN b : b[y] # Nil}
<1>1. DOMAIN b \subseteq Var /\ \A x \in DOMAIN b : b[x] \in Value
  BY BindingsElim
<1>2. \A x \in D : b[x].val \in Nat
  BY <1>1 DEF Value
<1>3. Visible(b) = [x \in D |-> b[x].val]
  BY DEF Visible
<1>4. Visible(b) \in [D -> Nat] /\ D \in SUBSET Var
  BY <1>1, <1>2, <1>3
<1>5. Visible(b) \in SomeSeen
  <2> HIDE DEF D
  <2> QED
    BY <1>4 DEF SomeSeen
<1>6. ASSUME NEW x \in Var
      PROVE  ValueAt(Visible(b), x) = IF x \in DOMAIN b THEN ValueOf(b[x]) ELSE {}
  BY <1>3 DEF ValueAt, ValueOf
<1> QED
  BY <1>5, <1>6

LEMMA SeenAt ==
  ASSUME NEW w, w.heap \in Seq(Value), w.env \in PairsOf(w.heap)
  PROVE  /\ SeenIn(w) \in SomeSeen
         /\ \A x \in Var : ValueAt(SeenIn(w), x) = IF x \in DOMAIN w.env THEN ValueOf(w.heap[w.env[x]]) ELSE {}
<1>1. /\ Bindings(w.heap, w.env) \in SomeBindings
      /\ DOMAIN Bindings(w.heap, w.env) = DOMAIN w.env
      /\ \A x \in DOMAIN w.env : Bindings(w.heap, w.env)[x] = w.heap[w.env[x]]
  BY BindingsOfEnv
<1> QED
  BY <1>1, VisibleAt DEF SeenIn

(* The changes lead from the new bindings to the old ones. *)
LEMMA DiffLeads ==
  ASSUME NEW new \in SomeBindings, NEW old \in SomeBindings, NEW x \in Var
  PROVE  LET d == DiffAlist(new, old)
         IN  ValueAt(Visible(old), x) = IF x \in DOMAIN d THEN ValueOf(d[x]) ELSE ValueAt(Visible(new), x)
<1> DEFINE changed == {y \in DOMAIN new \cup DOMAIN old :
                       y \in DOMAIN new \cap DOMAIN old => new[y] # old[y]}
           d == DiffAlist(new, old)
<1>1. d = [y \in changed |-> IF y \in DOMAIN old THEN old[y] ELSE Nil]
  BY DEF DiffAlist
<1>2. /\ x \in DOMAIN d => d[x] = IF x \in DOMAIN old THEN old[x] ELSE Nil
      /\ x \in DOMAIN d <=> x \in changed
  BY <1>1
<1>7. \/ x \in DOMAIN d
      \/ x \notin DOMAIN old /\ x \notin DOMAIN new
      \/ x \in DOMAIN old /\ x \in DOMAIN new /\ old[x] = new[x]
  BY <1>2
<1> HIDE DEF d, changed
<1>3. ValueOf(Nil) = {}
  BY DEF ValueOf
<1>4. /\ ValueAt(Visible(old), x) = IF x \in DOMAIN old THEN ValueOf(old[x]) ELSE {}
      /\ ValueAt(Visible(new), x) = IF x \in DOMAIN new THEN ValueOf(new[x]) ELSE {}
  BY VisibleAt
<1>8. ValueAt(Visible(old), x) = IF x \in DOMAIN d THEN ValueOf(d[x]) ELSE ValueAt(Visible(new), x)
  <2>5. CASE x \in DOMAIN d
    <3>1. CASE x \in DOMAIN old
      <4>1. d[x] = old[x]
        BY <1>2, <2>5, <3>1
      <4> QED
        BY <4>1, <1>4, <2>5, <3>1
    <3>2. CASE x \notin DOMAIN old
      <4>1. d[x] = Nil
        BY <1>2, <2>5, <3>2
      <4> QED
        BY <4>1, <1>3, <1>4, <2>5, <3>2
    <3> QED
      BY <3>1, <3>2
  <2>6. CASE x \notin DOMAIN d
    <3>1. \/ x \notin DOMAIN old /\ x \notin DOMAIN new
          \/ x \in DOMAIN old /\ x \in DOMAIN new /\ old[x] = new[x]
      BY <1>7, <2>6
    <3> QED
      BY <3>1, <1>4, <2>6
  <2> QED
    BY <2>5, <2>6
<1> QED
  BY <1>8 DEF d

(* Without changes the bindings are the old ones. *)
LEMMA NoDiff ==
  ASSUME NEW new \in SomeBindings, NEW old \in SomeBindings, DiffAlist(new, old) = Nothing
  PROVE  new = old
<1>1. DOMAIN Nothing = {}
  BY NothingSeen
<1>2. \A y \in DOMAIN new \cup DOMAIN old :
         y \in DOMAIN new /\ y \in DOMAIN old /\ new[y] = old[y]
  BY <1>1 DEF DiffAlist
<1>3. new = [x \in DOMAIN new |-> new[x]] /\ old = [x \in DOMAIN old |-> old[x]]
  BY BindingsElim
<1>4. DOMAIN new = DOMAIN old
  BY <1>2
<1> QED
  BY <1>2, <1>3, <1>4

-----------------------------------------------------------------------------
LEMMA SoundParts ==
  ASSUME NEW w, NEW f, NEW others, NEW written, WorkspaceSound(w, f, others, written)
  PROVE  /\ w = [heap |-> w.heap, env |-> w.env, record |-> w.record, previous |-> w.previous]
         /\ w.heap \in Seq(Value) /\ w.env \in PairsOf(w.heap)
         /\ DOMAIN w.env \subseteq Var /\ \A x \in DOMAIN w.env : w.env[x] \in DOMAIN w.heap
         /\ SameName(w.env, w.env)
         /\ w.previous \in SomeBindings
         /\ SeenIn(w) \in SomeSeen
         /\ DOMAIN w.record = 1 .. Len(w.record) /\ Len(w.record) \in Nat
         /\ w.record \in Seq([system : BOOLEAN, changes : PairsOf(w.heap)])
         /\ \A i \in DOMAIN w.record : \A x \in DOMAIN w.record[i].changes :
               w.record[i].changes[x] \in DOMAIN w.heap
<1>1. /\ w = [heap |-> w.heap, env |-> w.env, record |-> w.record, previous |-> w.previous]
      /\ w.heap \in Seq(Value) /\ w.env \in PairsOf(w.heap)
      /\ SameName(w.env, w.env) /\ w.previous \in SomeBindings
      /\ w.record \in Seq([system : BOOLEAN, changes : PairsOf(w.heap)])
  BY DEF WorkspaceSound, FrameSound
<1>2. \A i \in DOMAIN w.record : \A x \in DOMAIN w.record[i].changes :
         w.record[i].changes[x] \in DOMAIN w.heap
  BY RecordPairs, EnvElim
<1> QED
  BY <1>1, <1>2, EnvElim, SeenAt, ElemsOfSeq

(* recordFrame, when it adds an entry: it leads back to the previous bindings. *)
LEMMA RecordFrameForm ==
  ASSUME NEW w, NEW f, NEW others, NEW written, NEW system \in BOOLEAN,
         WorkspaceSound(w, f, others, written), ~(system /\ Delta(w) = Nothing)
  PROVE  LET r == RecordFrame(system, w)
         IN  \E c : /\ r.record = <<[system |-> system, changes |-> c]>> \o w.record
                    /\ r.env = w.env /\ r.previous = Bindings(w.heap, w.env)
                    /\ DOMAIN w.heap \subseteq DOMAIN r.heap
                    /\ \A d \in DOMAIN w.heap : r.heap[d] = w.heap[d]
                    /\ \A x \in DOMAIN c : c[x] \notin DOMAIN w.heap
                    /\ Leads(c, r.heap, SeenIn(w), Visible(w.previous))
                    /\ SeenIn(r) = SeenIn(w)
<1> DEFINE n == NewPairs(w.heap, Delta(w))
           r == RecordFrame(system, w)
           c == n.cells
<1>1. r = [heap |-> n.heap, env |-> w.env, record |-> <<[system |-> system, changes |-> c]>> \o w.record,
           previous |-> Bindings(w.heap, w.env)]
  BY DEF RecordFrame
<1>2. w.heap \in Seq(Value) /\ w.env \in PairsOf(w.heap) /\ w.previous \in SomeBindings
  BY SoundParts
<1>3. /\ n.heap \in Seq(Value)
      /\ Len(n.heap) >= Len(w.heap)
      /\ \A d \in DOMAIN w.heap : n.heap[d] = w.heap[d]
      /\ n.cells = [x \in DOMAIN Delta(w) |-> n.cells[x]]
      /\ \A x \in DOMAIN Delta(w) : /\ n.cells[x] \in DOMAIN n.heap
                                    /\ n.cells[x] \notin DOMAIN w.heap
                                    /\ n.heap[n.cells[x]] = Delta(w)[x]
  BY <1>2, DeltaSound, BindingsElim, NewPairsAreNew
<1>4. Bindings(w.heap, w.env) \in SomeBindings
  BY DeltaSound
<1> HIDE DEF n, r
<1>5. DOMAIN w.heap \subseteq DOMAIN n.heap
  BY <1>2, <1>3
<1>6. DOMAIN c = DOMAIN Delta(w)
  BY <1>3
<1>7. ASSUME NEW x \in Var
      PROVE  ValueAt(Visible(w.previous), x) = IF x \in DOMAIN c THEN ValueOf(n.heap[c[x]]) ELSE ValueAt(SeenIn(w), x)
  <2>1. ValueAt(Visible(w.previous), x)
           = IF x \in DOMAIN Delta(w) THEN ValueOf(Delta(w)[x]) ELSE ValueAt(SeenIn(w), x)
    BY <1>2, <1>4, DiffLeads DEF Delta, SeenIn
  <2> QED
    BY <2>1, <1>3, <1>6
<1>8. Leads(c, r.heap, SeenIn(w), Visible(w.previous))
  BY <1>1, <1>7 DEF Leads
<1>9. SeenIn(r) = SeenIn(w)
  <2>1. \A x \in DOMAIN w.env : w.env[x] \in DOMAIN w.heap
    BY SoundParts
  <2>2. Bindings(r.heap, r.env) = Bindings(w.heap, w.env)
    BY <2>1, <1>1, <1>3 DEF Bindings
  <2> QED
    BY <2>2 DEF SeenIn
<1>10. r.env = w.env /\ r.previous = Bindings(w.heap, w.env) /\ r.heap = n.heap
       /\ r.record = <<[system |-> system, changes |-> c]>> \o w.record
  BY <1>1
<1>11. \A x \in DOMAIN c : c[x] \notin DOMAIN w.heap
  BY <1>3, <1>6
<1> QED
  BY <1>3, <1>5, <1>8, <1>9, <1>10, <1>11 DEF r

(* putIntSymTab overwrites a pair of the environment or adds a new one. *)
LEMMA PutForm ==
  ASSUME NEW w, NEW f, NEW others, NEW written, WorkspaceSound(w, f, others, written),
         NEW x \in Var, NEW v
  PROVE  LET r == Put(x, v, w)
         IN  /\ r.record = w.record /\ r.previous = w.previous
             /\ \A d \in DOMAIN w.heap : (\A y \in DOMAIN w.env : w.env[y] # d) => r.heap[d] = w.heap[d]
             /\ \A y \in DOMAIN r.env : \/ y \in DOMAIN w.env /\ r.env[y] = w.env[y]
                                        \/ r.env[y] \notin DOMAIN w.heap
<1> DEFINE r == Put(x, v, w)
<1>1. /\ w = [heap |-> w.heap, env |-> w.env, record |-> w.record, previous |-> w.previous]
      /\ w.heap \in Seq(Value) /\ \A y \in DOMAIN w.env : w.env[y] \in DOMAIN w.heap
  BY SoundParts
<1>2. CASE x \in DOMAIN w.env
  <2> DEFINE c == w.env[x]
  <2>1. r = [heap |-> [w.heap EXCEPT ![c] = v], env |-> w.env, record |-> w.record, previous |-> w.previous]
    BY <1>1, <1>2 DEF Put
  <2> HIDE DEF c, r
  <2>2. \A d \in DOMAIN w.heap : d # c => r.heap[d] = w.heap[d]
    BY <2>1
  <2>3. r.env = w.env /\ r.record = w.record /\ r.previous = w.previous
    BY <2>1
  <2>4. \A d \in DOMAIN w.heap : (\A y \in DOMAIN w.env : w.env[y] # d) => r.heap[d] = w.heap[d]
    BY <2>2, <1>2 DEF c
  <2> QED
    BY <2>3, <2>4 DEF r
<1>3. CASE x \notin DOMAIN w.env
  <2> DEFINE c == Len(w.heap) + 1
             e == [y \in DOMAIN w.env \cup {x} |-> IF y = x THEN c ELSE w.env[y]]
  <2>1. r = [heap |-> Append(w.heap, v), env |-> e, record |-> w.record, previous |-> w.previous]
    BY <1>1, <1>3 DEF Put
  <2>2. DOMAIN w.heap = 1 .. Len(w.heap) /\ Len(w.heap) \in Nat
    BY <1>1, ElemsOfSeq
  <2>3. \A d \in DOMAIN w.heap : Append(w.heap, v)[d] = w.heap[d]
    BY <2>2
  <2>4. c \notin DOMAIN w.heap
    BY <2>2
  <2> HIDE DEF c, r
  <2>5. \A y \in DOMAIN e : (y \in DOMAIN w.env /\ e[y] = w.env[y]) \/ e[y] = c
    OBVIOUS
  <2> HIDE DEF e
  <2>6. r.heap = Append(w.heap, v) /\ r.env = e /\ r.record = w.record /\ r.previous = w.previous
    BY <2>1
  <2>7. \A y \in DOMAIN r.env : (y \in DOMAIN w.env /\ r.env[y] = w.env[y]) \/ r.env[y] \notin DOMAIN w.heap
    BY <2>4, <2>5, <2>6
  <2>8. \A d \in DOMAIN w.heap : r.heap[d] = w.heap[d]
    BY <2>3, <2>6
  <2> QED
    BY <2>6, <2>7, <2>8 DEF r
<1> QED
  BY <1>2, <1>3

(***************************************************************************)
(* undoSingleStep: the names of the changes have the values of the changes *)
(* afterwards, and no pair but those of the environment is overwritten.    *)
(***************************************************************************)
LEMMA UndoSingleStepForm ==
  ASSUME NEW w, NEW f, NEW others, NEW written,
         WorkspaceSound(w, f, others, written), RecordSound(w, f, others, written),
         NEW k \in DOMAIN w.record
  PROVE  LET c == w.record[k].changes
             r == UndoSingleStep(c, w)
         IN  /\ \A x \in Var : ValueAt(SeenIn(r), x)
                   = IF x \in DOMAIN c THEN ValueOf(w.heap[c[x]]) ELSE ValueAt(SeenIn(w), x)
             /\ \A d \in DOMAIN w.heap : \/ r.heap[d] = w.heap[d]
                                         \/ \E x \in DOMAIN w.env : w.env[x] = d
             /\ \A x \in DOMAIN w.env : x \in DOMAIN r.env /\ r.env[x] = w.env[x]
             /\ \A x \in DOMAIN r.env : \/ x \in DOMAIN w.env /\ r.env[x] = w.env[x]
                                        \/ x \in DOMAIN c /\ r.env[x] = c[x]
             /\ r.previous = w.previous
<1> DEFINE c == w.record[k].changes
           r == UndoSingleStep(c, w)
           known == DOMAIN c \cap DOMAIN w.env
           NamesOf(d) == {x \in known : w.env[x] = d}
           NameOf(d) == CHOOSE x \in NamesOf(d) : TRUE
           newHeap == [d \in DOMAIN w.heap |->
                          IF NamesOf(d) = {} THEN w.heap[d] ELSE w.heap[c[NameOf(d)]]]
           newEnv == [x \in DOMAIN w.env \cup DOMAIN c |-> IF x \in DOMAIN w.env THEN w.env[x] ELSE c[x]]
<1>1. /\ w = [heap |-> w.heap, env |-> w.env, record |-> w.record, previous |-> w.previous]
      /\ w.heap \in Seq(Value) /\ w.env \in PairsOf(w.heap)
      /\ DOMAIN w.env \subseteq Var /\ \A y \in DOMAIN w.env : w.env[y] \in DOMAIN w.heap
      /\ SameName(w.env, w.env)
      /\ \A x \in DOMAIN c : c[x] \in DOMAIN w.heap
  BY SoundParts
<1>2. SameName(c, w.env) /\ c \in PairsOf(w.heap)
  BY RecordPairs DEF RecordSound, ChangesSound
<1>3. r = [heap |-> newHeap, env |-> newEnv, record |-> w.record, previous |-> w.previous]
  <2> HIDE DEF c
  <2>1. r = [w EXCEPT !.heap = newHeap, !.env = newEnv]
    BY DEF UndoSingleStep
  <2> HIDE DEF r, newHeap, newEnv
  <2> QED
    BY <1>1, <2>1
<1>4. /\ WorkspaceSound(r, f, others, written)
      /\ DOMAIN r.heap = DOMAIN w.heap
  BY UndoSingleStepSound
<1>5. r.heap \in Seq(Value) /\ r.env \in PairsOf(r.heap)
  BY <1>4, SoundParts
<1> HIDE DEF c, r
<1>6. /\ \A y \in known : r.heap[w.env[y]] = w.heap[c[y]]
      /\ \A d \in DOMAIN w.heap : (\A y \in known : w.env[y] # d) => r.heap[d] = w.heap[d]
  <2>1. \A y \in known : NamesOf(w.env[y]) = {y}
    BY <1>1 DEF SameName
  <2>2. \A d \in DOMAIN w.heap : (\A y \in known : w.env[y] # d) => NamesOf(d) = {}
    OBVIOUS
  <2>3. \A y \in known : w.env[y] \in DOMAIN w.heap
    BY <1>1
  <2>4. \A d \in DOMAIN w.heap : r.heap[d] = IF NamesOf(d) = {} THEN w.heap[d]
                                             ELSE w.heap[c[NameOf(d)]]
    BY <1>3
  <2>5. \A y \in known : NameOf(w.env[y]) = y
    BY <2>1
  <2> HIDE DEF NamesOf, NameOf, known
  <2>6. ASSUME NEW y \in known
        PROVE  r.heap[w.env[y]] = w.heap[c[y]]
    <3>1. NamesOf(w.env[y]) # {}
      BY <2>1
    <3> QED
      BY <3>1, <2>3, <2>4, <2>5
  <2> QED
    BY <2>2, <2>4, <2>6
<1>7. /\ DOMAIN r.env = DOMAIN w.env \cup DOMAIN c
      /\ \A x \in DOMAIN w.env : r.env[x] = w.env[x]
      /\ \A x \in DOMAIN c : x \notin DOMAIN w.env => r.env[x] = c[x]
      /\ r.previous = w.previous
  BY <1>3
<1> HIDE DEF NamesOf, NameOf, newHeap, newEnv
<1>8. ASSUME NEW x \in Var
      PROVE  ValueAt(SeenIn(r), x) = IF x \in DOMAIN c THEN ValueOf(w.heap[c[x]]) ELSE ValueAt(SeenIn(w), x)
  <2>1. /\ ValueAt(SeenIn(r), x) = IF x \in DOMAIN r.env THEN ValueOf(r.heap[r.env[x]]) ELSE {}
        /\ ValueAt(SeenIn(w), x) = IF x \in DOMAIN w.env THEN ValueOf(w.heap[w.env[x]]) ELSE {}
    BY <1>1, <1>5, SeenAt
  <2>2. CASE x \in known
    <3>1. r.heap[r.env[x]] = w.heap[c[x]] /\ x \in DOMAIN r.env /\ x \in DOMAIN c
      BY <2>2, <1>6, <1>7
    <3> QED
      BY <3>1, <2>1
  <2>3. CASE x \in DOMAIN c /\ x \notin DOMAIN w.env
    <3>1. \A y \in known : w.env[y] # c[x]
      BY <2>3, <1>2 DEF SameName
    <3>2. r.heap[c[x]] = w.heap[c[x]] /\ r.env[x] = c[x] /\ x \in DOMAIN r.env
      BY <3>1, <2>3, <1>1, <1>6, <1>7
    <3> QED
      BY <3>2, <2>1, <2>3
  <2>4. CASE x \in DOMAIN w.env /\ x \notin DOMAIN c
    <3>1. \A y \in known : w.env[y] # w.env[x]
      BY <2>4, <1>1 DEF SameName
    <3>2. r.heap[w.env[x]] = w.heap[w.env[x]] /\ r.env[x] = w.env[x] /\ x \in DOMAIN r.env
      BY <3>1, <2>4, <1>1, <1>6, <1>7
    <3> QED
      BY <3>2, <2>1, <2>4
  <2>5. CASE x \notin DOMAIN w.env /\ x \notin DOMAIN c
    BY <2>5, <2>1, <1>7
  <2> QED
    BY <2>2, <2>3, <2>4, <2>5
<1>9. \A d \in DOMAIN w.heap : r.heap[d] = w.heap[d] \/ \E x \in DOMAIN w.env : w.env[x] = d
  BY <1>6
<1> QED
  BY <1>7, <1>8, <1>9 DEF r, c

(* COPY of the environment shows the same, in pairs of its own. *)
LEMMA CopyEnvForm ==
  ASSUME NEW w, NEW f, NEW others, NEW written, commands \in Nat,
         WorkspaceSound(w, f, others, written), RecordSound(w, f, others, written)
  PROVE  LET r == CopyEnv(w)
         IN  /\ \A d \in DOMAIN w.heap : r.heap[d] = w.heap[d]
             /\ \A x \in DOMAIN r.env : r.env[x] \notin DOMAIN w.heap
             /\ r.previous = w.previous
             /\ Alike(SeenIn(r), SeenIn(w))
<1> DEFINE Copied(v) == IF v = Nil THEN Nil ELSE [v EXCEPT !.copy = commands + 1]
           b == [x \in DOMAIN w.env |-> Copied(w.heap[w.env[x]])]
           n == NewPairs(w.heap, b)
           r == CopyEnv(w)
<1>1. /\ w = [heap |-> w.heap, env |-> w.env, record |-> w.record, previous |-> w.previous]
      /\ w.heap \in Seq(Value) /\ w.env \in PairsOf(w.heap)
      /\ DOMAIN w.env \subseteq Var
  BY SoundParts
<1>2. \A y \in DOMAIN w.env : w.env[y] \in DOMAIN w.heap /\ w.heap[w.env[y]] \in Value
  BY <1>1, EnvElim, ElemsOfSeq
<1>3. r = [heap |-> n.heap, env |-> n.cells, record |-> w.record, previous |-> w.previous]
  <2>1. r = [w EXCEPT !.heap = n.heap, !.env = n.cells]
    BY DEF CopyEnv
  <2> HIDE DEF r, n
  <2> QED
    BY <1>1, <2>1
<1>4. WorkspaceSound(r, f, others, written)
  BY CopyEnvSound
<1>5. r.heap \in Seq(Value) /\ r.env \in PairsOf(r.heap)
  BY <1>4, SoundParts
<1>6. ASSUME NEW v \in Value
      PROVE  Copied(v) \in Value /\ ValueOf(Copied(v)) = ValueOf(v)
  <2>1. v = [val |-> v.val, copy |-> v.copy] /\ v.val \in Nat /\ commands + 1 \in Nat /\ commands + 1 # 0
    BY DEF Value
  <2>2. CASE v = Nil
    BY <2>2
  <2>3. CASE v # Nil
    <3>1. Copied(v) = [val |-> v.val, copy |-> commands + 1]
      BY <2>1, <2>3
    <3>2. Copied(v) \in Value /\ Copied(v).val = v.val /\ Copied(v).copy = commands + 1
      BY <3>1, <2>1 DEF Value
    <3>3. Copied(v) # Nil
      BY <3>2, <2>1 DEF Nil
    <3> HIDE DEF Copied
    <3> QED
      BY <3>2, <3>3, <2>3 DEF ValueOf
  <2> QED
    BY <2>2, <2>3
<1> HIDE DEF Copied
<1>7. /\ DOMAIN b = DOMAIN w.env /\ b = [x \in DOMAIN b |-> b[x]]
      /\ \A x \in DOMAIN b : b[x] \in Value /\ ValueOf(b[x]) = ValueOf(w.heap[w.env[x]])
      /\ IsFiniteSet(DOMAIN b)
  BY <1>1, <1>2, <1>6, FS_Subset, WorkspaceAssumption
<1> HIDE DEF b
<1>8. /\ \A d \in DOMAIN w.heap : n.heap[d] = w.heap[d]
      /\ n.cells = [x \in DOMAIN b |-> n.cells[x]]
      /\ \A x \in DOMAIN b : /\ n.cells[x] \notin DOMAIN w.heap
                             /\ n.heap[n.cells[x]] = b[x]
  BY <1>1, <1>7, NewPairsAreNew
<1> HIDE DEF n, r
<1>9. r.heap = n.heap /\ r.env = n.cells /\ r.previous = w.previous /\ DOMAIN n.cells = DOMAIN w.env
  BY <1>3, <1>7, <1>8
<1>10. ASSUME NEW x \in Var
       PROVE  ValueAt(SeenIn(r), x) = ValueAt(SeenIn(w), x)
  <2>1. /\ ValueAt(SeenIn(r), x) = IF x \in DOMAIN r.env THEN ValueOf(r.heap[r.env[x]]) ELSE {}
        /\ ValueAt(SeenIn(w), x) = IF x \in DOMAIN w.env THEN ValueOf(w.heap[w.env[x]]) ELSE {}
    BY <1>1, <1>5, SeenAt
  <2> QED
    BY <2>1, <1>7, <1>8, <1>9
<1> QED
  BY <1>7, <1>8, <1>9, <1>10 DEF r, Alike

-----------------------------------------------------------------------------
(* The record goes on telling the past where its pairs keep their values. *)
LEMMA UndoSoundKept ==
  ASSUME NEW w, NEW r, NEW p, UndoSound(w, p), r.record = w.record, r.previous = w.previous,
         \A i \in DOMAIN w.record : \A x \in DOMAIN w.record[i].changes :
             r.heap[w.record[i].changes[x]] = w.heap[w.record[i].changes[x]],
         \A i \in DOMAIN w.record : NoShare(w.record[i].changes, r.env)
  PROVE  UndoSound(r, p)
<1>1. PICK pos : Laid(pos, w.record, Len(p)) /\ Tells(pos, w, p)
  BY DEF UndoSound
<1>2. ASSUME NEW i \in DOMAIN w.record, NEW b, NEW a, Leads(w.record[i].changes, w.heap, b, a)
      PROVE  Leads(r.record[i].changes, r.heap, b, a)
  BY <1>2 DEF Leads
<1>3. \A j : BeforeOf(p, r, j) = BeforeOf(p, w, j)
  BY DEF BeforeOf
<1>4. Len(p) \in Nat
  BY DEF UndoSound
<1>5. ASSUME NEW j \in 0 .. Len(p), pos[j] = pos[j + 1] + 2
      PROVE  pos[j + 1] + 1 \in DOMAIN w.record
  <2>1. pos[j + 1] \in Nat /\ pos[j] # pos[j + 1] + 1
    BY <1>1, <1>4, <1>5 DEF Laid
  <2> QED
    BY <2>1, <1>1, <1>5 DEF Laid
<1>6. Tells(pos, r, p)
  <2>1. \A j \in 1 .. Len(p) : Leads(r.record[pos[j]].changes, r.heap, p[j].after, p[j].before)
    BY <1>1, <1>2 DEF Laid, Tells
  <2>2. ASSUME NEW j \in 0 .. Len(p)
        PROVE  /\ pos[j] = pos[j + 1] + 1 => Alike(BeforeOf(p, r, j + 1), AfterOf(p, j))
               /\ pos[j] = pos[j + 1] + 2 => Leads(r.record[pos[j + 1] + 1].changes, r.heap,
                                                   BeforeOf(p, r, j + 1), AfterOf(p, j))
    BY <1>1, <1>2, <1>3, <1>5 DEF Tells
  <2> QED
    BY <2>1, <2>2 DEF Tells
<1>7. Apart(r)
  BY DEF UndoSound, Apart
<1> QED
  BY <1>1, <1>6, <1>7 DEF UndoSound

(* One entry is added: those below it move one place. *)
LEMMA ConsShifts ==
  ASSUME NEW S, NEW s \in Seq(S), NEW e
  PROVE  LET t == <<e>> \o s
         IN  /\ Len(t) = Len(s) + 1 /\ DOMAIN t = 1 .. Len(t) /\ t[1] = e
             /\ \A i \in DOMAIN s : i + 1 \in DOMAIN t /\ t[i + 1] = s[i]
             /\ \A i \in DOMAIN t : i = 1 \/ (i - 1 \in DOMAIN s /\ t[i] = s[i - 1])
OBVIOUS

(* The entries of s at the places pos stand in t at the places q. *)
Shifted(q, t, pos, s, n) ==
    /\ q[0] = Len(t) + 1
    /\ \A j \in 0 .. n : q[j] \in 1 .. Len(t) + 1
    /\ \A j \in 1 .. n : q[j] \in DOMAIN t /\ t[q[j]] = s[pos[j]] /\ ~t[q[j]].system
    /\ \A j \in 0 .. n :
          q[j + 1] = pos[j + 1] + 1 =>
             \/ pos[j] = pos[j + 1] + 1 /\ q[j] = q[j + 1] + 1
             \/ /\ pos[j] = pos[j + 1] + 2 /\ q[j] = q[j + 1] + 2
                /\ q[j + 1] + 1 \in DOMAIN t /\ t[q[j + 1] + 1] = s[pos[j + 1] + 1]
                /\ t[q[j + 1] + 1].system
                /\ pos[j + 1] + 1 \in DOMAIN s

LEMMA LaidShifts ==
  ASSUME NEW S, NEW s \in Seq(S), NEW e, NEW t, t = <<e>> \o s,
         NEW n \in Nat, NEW pos, Laid(pos, s, n),
         NEW q, \A j \in 0 .. n : q[j] = pos[j] + 1
  PROVE  Shifted(q, t, pos, s, n)
<1>1. /\ Len(t) = Len(s) + 1 /\ DOMAIN t = 1 .. Len(t)
      /\ \A i \in DOMAIN s : i + 1 \in DOMAIN t /\ t[i + 1] = s[i]
      /\ Len(s) \in Nat
  BY ConsShifts
<1>2. \A j \in 0 .. n : pos[j] \in Nat /\ pos[j] \in 1 .. Len(s) + 1 /\ j + 1 \in 0 .. n + 1
  BY DEF Laid
<1>3. \A j \in 0 .. n + 1 : pos[j] \in Nat
  BY DEF Laid
<1>4. q[0] = Len(t) + 1
  <2>1. 0 \in 0 .. n /\ pos[0] = Len(s) + 1
    BY DEF Laid
  <2> QED
    BY <2>1, <1>1
<1>5. ASSUME NEW j \in 0 .. n
      PROVE  q[j] \in 1 .. Len(t) + 1
  <2>1. pos[j] \in 1 .. Len(s) + 1 /\ q[j] = pos[j] + 1 /\ Len(t) = Len(s) + 1 /\ Len(s) \in Nat
    BY <1>1, <1>2
  <2> QED
    BY <2>1
<1>6. ASSUME NEW j \in 1 .. n
      PROVE  q[j] \in DOMAIN t /\ t[q[j]] = s[pos[j]] /\ ~t[q[j]].system
  <2>1. j \in 0 .. n /\ pos[j] \in DOMAIN s /\ ~s[pos[j]].system
    BY DEF Laid
  <2>2. q[j] = pos[j] + 1
    BY <2>1
  <2> QED
    BY <2>1, <2>2, <1>1
<1>7. ASSUME NEW j \in 0 .. n, q[j + 1] = pos[j + 1] + 1
      PROVE  \/ pos[j] = pos[j + 1] + 1 /\ q[j] = q[j + 1] + 1
             \/ /\ pos[j] = pos[j + 1] + 2 /\ q[j] = q[j + 1] + 2
                /\ q[j + 1] + 1 \in DOMAIN t /\ t[q[j + 1] + 1] = s[pos[j + 1] + 1]
                /\ t[q[j + 1] + 1].system
                /\ pos[j + 1] + 1 \in DOMAIN s
  <2>1. pos[j + 1] \in Nat /\ q[j] = pos[j] + 1
    BY <1>2, <1>3
  <2>2. CASE pos[j] = pos[j + 1] + 1
    BY <2>1, <2>2, <1>7
  <2>3. CASE pos[j] = pos[j + 1] + 2 /\ pos[j + 1] + 1 \in DOMAIN s /\ s[pos[j + 1] + 1].system
    <3> DEFINE i == pos[j + 1] + 1
    <3>1. i \in DOMAIN s /\ i + 1 \in DOMAIN t /\ t[i + 1] = s[i] /\ q[j + 1] = i
      BY <2>3, <1>1, <1>7
    <3> QED
      BY <2>1, <2>3, <3>1, <1>7
  <2> QED
    BY <2>2, <2>3 DEF Laid
<1> QED
  BY <1>4, <1>5, <1>6, <1>7 DEF Shifted

(* The pairs of a new entry are new. *)
LEMMA ApartGrows ==
  ASSUME NEW w, NEW f, NEW others, NEW written, WorkspaceSound(w, f, others, written), Apart(w),
         NEW r, NEW e, r.record = <<e>> \o w.record, r.env = w.env,
         \A x \in DOMAIN e.changes : e.changes[x] \notin DOMAIN w.heap
  PROVE  Apart(r)
<1>1. /\ \A i \in DOMAIN w.record : \A x \in DOMAIN w.record[i].changes :
            w.record[i].changes[x] \in DOMAIN w.heap
      /\ \A x \in DOMAIN w.env : w.env[x] \in DOMAIN w.heap
      /\ w.record \in Seq([system : BOOLEAN, changes : PairsOf(w.heap)])
  BY SoundParts
<1>2. /\ r.record[1] = e
      /\ DOMAIN r.record = 1 .. Len(r.record)
      /\ \A i \in DOMAIN r.record : i = 1 \/ (i - 1 \in DOMAIN w.record /\ r.record[i] = w.record[i - 1])
  BY <1>1, ConsShifts
<1>3. ASSUME NEW i \in DOMAIN w.record
      PROVE  NoShare(e.changes, w.record[i].changes) /\ NoShare(w.record[i].changes, e.changes)
  BY <1>1 DEF NoShare
<1>4. NoShare(e.changes, w.env)
  BY <1>1 DEF NoShare
<1>5. ASSUME NEW i \in DOMAIN r.record, NEW j \in DOMAIN r.record, i # j
      PROVE  NoShare(r.record[i].changes, r.record[j].changes)
  <2>1. CASE i = 1
    BY <2>1, <1>2, <1>3, <1>5
  <2>2. CASE j = 1
    BY <2>2, <1>2, <1>3, <1>5
  <2>3. CASE i # 1 /\ j # 1
    <3>1. i - 1 # j - 1
      BY <1>2, <1>5
    <3> QED
      BY <2>3, <3>1, <1>2 DEF Apart
  <2> QED
    BY <2>1, <2>2, <2>3
<1>6. \A i \in DOMAIN r.record : NoShare(r.record[i].changes, r.env)
  BY <1>2, <1>4 DEF Apart
<1> QED
  BY <1>5, <1>6 DEF Apart

LEMMA LeadsOn ==
  ASSUME NEW c, NEW h, NEW a, NEW b, NEW d
  PROVE  /\ Leads(c, h, a, b) /\ Alike(b, d) => Leads(c, h, a, d)
         /\ Leads(c, h, a, b) /\ Alike(d, a) => Leads(c, h, d, b)
         /\ Alike(a, b) => Alike(b, a)
         /\ Alike(a, b) /\ Alike(b, d) => Alike(a, d)
         /\ Alike(a, a)
BY DEF Leads, Alike

(***************************************************************************)
(* recordFrame before a line: an entry of system commands, unless nothing  *)
(* has changed, and not on top of another one.                             *)
(***************************************************************************)
LEMMA RecordSystemTells ==
  ASSUME NEW w, NEW f, NEW others, NEW written, WorkspaceSound(w, f, others, written),
         NEW p, UndoSound(w, p),
         w.record = <<>> \/ ~Head(w.record).system \/ Delta(w) = Nothing
  PROVE  LET r == RecordFrame(TRUE, w)
         IN  UndoSound(r, p) /\ Alike(Visible(r.previous), SeenIn(r))
<1> DEFINE r == RecordFrame(TRUE, w)
           n == Len(p)
<1>1. /\ w.heap \in Seq(Value) /\ w.env \in PairsOf(w.heap)
      /\ w.previous \in SomeBindings /\ Bindings(w.heap, w.env) \in SomeBindings
      /\ w.record \in Seq([system : BOOLEAN, changes : PairsOf(w.heap)])
      /\ \A i \in DOMAIN w.record : \A x \in DOMAIN w.record[i].changes :
            w.record[i].changes[x] \in DOMAIN w.heap
  BY SoundParts, DeltaSound
<1>2. CASE Delta(w) = Nothing
  <2>1. r = w
    BY <1>2 DEF RecordFrame
  <2>2. Bindings(w.heap, w.env) = w.previous
    BY <1>1, <1>2, NoDiff DEF Delta
  <2> QED
    BY <2>1, <2>2 DEF Alike, SeenIn
<1>3. CASE Delta(w) # Nothing
  <2> DEFINE e(c) == [system |-> TRUE, changes |-> c]
  <2>1. PICK c : /\ r.record = <<e(c)>> \o w.record
                 /\ r.env = w.env /\ r.previous = Bindings(w.heap, w.env)
                 /\ \A d \in DOMAIN w.heap : r.heap[d] = w.heap[d]
                 /\ \A x \in DOMAIN c : c[x] \notin DOMAIN w.heap
                 /\ Leads(c, r.heap, SeenIn(w), Visible(w.previous))
                 /\ SeenIn(r) = SeenIn(w)
    BY <1>3, RecordFrameForm
  <2> HIDE DEF r
  <2>2. e(c).changes = c /\ e(c).system = TRUE
    OBVIOUS
  <2> HIDE DEF e
  <2>3. Apart(r)
    BY <2>1, <2>2, ApartGrows DEF UndoSound
  <2>4. PICK pos : Laid(pos, w.record, n) /\ Tells(pos, w, p)
    BY DEF UndoSound
  <2>5. n \in Nat
    BY DEF UndoSound
  <2> HIDE DEF n
  <2> DEFINE q == [j \in 0 .. n + 1 |-> IF j = n + 1 THEN 0 ELSE pos[j] + 1]
  <2>6. /\ pos \in [0 .. n + 1 -> Nat] /\ pos[n + 1] = 0
        /\ \A j \in 0 .. n : j \in 0 .. n + 1 /\ j # n + 1
    BY <2>4, <2>5 DEF Laid
  <2>7. /\ q \in [0 .. n + 1 -> Nat] /\ q[n + 1] = 0
        /\ \A j \in 0 .. n : q[j] = pos[j] + 1
    BY <2>5, <2>6
  <2> HIDE DEF q
  <2>8. /\ Len(r.record) = Len(w.record) + 1 /\ DOMAIN r.record = 1 .. Len(r.record)
        /\ r.record[1] = e(c) /\ Len(w.record) \in Nat
    BY <1>1, <2>1, ConsShifts
  <2>9. /\ q[0] = Len(r.record) + 1
        /\ \A j \in 0 .. n : q[j] \in 1 .. Len(r.record) + 1
        /\ \A j \in 1 .. n : q[j] \in DOMAIN r.record /\ r.record[q[j]] = w.record[pos[j]] /\ ~r.record[q[j]].system
        /\ \A j \in 0 .. n :
              q[j + 1] = pos[j + 1] + 1 =>
                 \/ pos[j] = pos[j + 1] + 1 /\ q[j] = q[j + 1] + 1
                 \/ /\ pos[j] = pos[j + 1] + 2 /\ q[j] = q[j + 1] + 2
                    /\ q[j + 1] + 1 \in DOMAIN r.record /\ r.record[q[j + 1] + 1] = w.record[pos[j + 1] + 1]
                    /\ r.record[q[j + 1] + 1].system
                    /\ pos[j + 1] + 1 \in DOMAIN w.record
    <3>1. Shifted(q, r.record, pos, w.record, n)
      BY <1>1, <2>1, <2>4, <2>5, <2>7, LaidShifts
    <3> QED
      BY <3>1 DEF Shifted
  <2>10. pos[n] = 1 /\ q[n] = 2
    <3>1. n \in 0 .. n /\ pos[n + 1] + 1 = 1
      BY <2>5, <2>6
    <3>2. pos[n] = 1 \/ (1 \in DOMAIN w.record /\ w.record[1].system)
      BY <2>4, <3>1, <2>6 DEF Laid
    <3>3. ~(1 \in DOMAIN w.record /\ w.record[1].system)
      <4>1. 1 \in DOMAIN w.record => w.record # <<>> /\ Head(w.record) = w.record[1]
        BY <1>1
      <4> QED
        BY <4>1, <1>3
    <3> QED
      BY <3>1, <3>2, <3>3, <2>7
  <2>11. \A j \in 0 .. n : j = n \/ (q[j + 1] = pos[j + 1] + 1 /\ j + 1 \in 1 .. n)
    BY <2>5, <2>7
  <2>12. Laid(q, r.record, n)
    <3>1. ASSUME NEW j \in 0 .. n
          PROVE  \/ q[j] = q[j + 1] + 1
                 \/ /\ q[j] = q[j + 1] + 2
                    /\ q[j + 1] + 1 \in DOMAIN r.record /\ r.record[q[j + 1] + 1].system
      <4>1. CASE j = n
        <5>1. q[j] = q[j + 1] + 2 /\ q[j + 1] + 1 = 1
          BY <4>1, <2>7, <2>10
        <5>2. 1 \in DOMAIN r.record /\ r.record[1].system
          BY <2>2, <2>8
        <5> QED
          BY <5>1, <5>2
      <4>2. CASE j # n
        BY <4>2, <2>9, <2>11
      <4> QED
        BY <4>1, <4>2
    <3> QED
      BY <3>1, <2>7, <2>9 DEF Laid
  <2>13. ASSUME NEW i \in DOMAIN w.record, NEW a, NEW b, Leads(w.record[i].changes, w.heap, b, a)
         PROVE  Leads(w.record[i].changes, r.heap, b, a)
    BY <2>13, <2>1, <1>1 DEF Leads
  <2>14. Tells(q, r, p)
    <3>1. ASSUME NEW j \in 1 .. n
          PROVE  Leads(r.record[q[j]].changes, r.heap, p[j].after, p[j].before)
      <4>1. Leads(w.record[pos[j]].changes, w.heap, p[j].after, p[j].before) /\ pos[j] \in DOMAIN w.record
        BY <2>4 DEF Tells, Laid, n
      <4> QED
        BY <4>1, <2>9, <2>13
    <3>2. ASSUME NEW j \in 0 .. n
          PROVE  /\ q[j] = q[j + 1] + 1 => Alike(BeforeOf(p, r, j + 1), AfterOf(p, j))
                 /\ q[j] = q[j + 1] + 2 => Leads(r.record[q[j + 1] + 1].changes, r.heap,
                                                 BeforeOf(p, r, j + 1), AfterOf(p, j))
      <4>1. /\ pos[j] = pos[j + 1] + 1 => Alike(BeforeOf(p, w, j + 1), AfterOf(p, j))
            /\ pos[j] = pos[j + 1] + 2 => Leads(w.record[pos[j + 1] + 1].changes, w.heap,
                                                BeforeOf(p, w, j + 1), AfterOf(p, j))
        BY <2>4 DEF Tells, n
      <4>2. CASE j = n
        <5>1. q[j + 1] = 0 /\ q[j] = 2 /\ pos[j] = pos[j + 1] + 1
          BY <4>2, <2>6, <2>7, <2>10
        <5>2. BeforeOf(p, w, j + 1) = Visible(w.previous) /\ BeforeOf(p, r, j + 1) = Visible(r.previous)
          BY <4>2 DEF BeforeOf, n
        <5>3. Visible(r.previous) = SeenIn(w)
          BY <2>1 DEF SeenIn
        <5>4. Leads(c, r.heap, Visible(r.previous), AfterOf(p, j))
          BY <4>1, <5>1, <5>2, <5>3, <2>1, LeadsOn
        <5>5. r.record[q[j + 1] + 1].changes = c
          BY <5>1, <2>2, <2>8
        <5> QED
          BY <5>1, <5>2, <5>4, <5>5
      <4>3. CASE j # n
        <5>1. q[j + 1] = pos[j + 1] + 1 /\ j + 1 # n + 1
          BY <4>3, <2>5, <2>11
        <5>2. BeforeOf(p, w, j + 1) = BeforeOf(p, r, j + 1)
          BY <5>1 DEF BeforeOf, n
        <5>3. q[j] \in Nat /\ q[j + 1] \in Nat
          BY <2>5, <2>7
        <5>4. CASE pos[j] = pos[j + 1] + 1 /\ q[j] = q[j + 1] + 1
          BY <5>2, <5>3, <5>4, <4>1
        <5>5. CASE /\ pos[j] = pos[j + 1] + 2 /\ q[j] = q[j + 1] + 2
                   /\ r.record[q[j + 1] + 1] = w.record[pos[j + 1] + 1]
                   /\ pos[j + 1] + 1 \in DOMAIN w.record
          <6>1. Leads(w.record[pos[j + 1] + 1].changes, w.heap, BeforeOf(p, r, j + 1), AfterOf(p, j))
            BY <5>2, <5>5, <4>1
          <6>2. Leads(r.record[q[j + 1] + 1].changes, r.heap, BeforeOf(p, r, j + 1), AfterOf(p, j))
            BY <6>1, <5>5, <2>13
          <6> QED
            BY <6>2, <5>3, <5>5
        <5> QED
          BY <5>1, <5>4, <5>5, <2>9
      <4> QED
        BY <4>2, <4>3
    <3> QED
      BY <3>1, <3>2 DEF Tells, n
  <2>15. UndoSound(r, p)
    BY <2>3, <2>12, <2>14 DEF UndoSound, n
  <2>16. Alike(Visible(r.previous), SeenIn(r))
    BY <2>1 DEF SeenIn, Alike
  <2> QED
    BY <2>15, <2>16 DEF r
<1> QED
  BY <1>2, <1>3

(* recordFrame after a line: the entry of a step. *)
LEMMA RecordStepTells ==
  ASSUME NEW w, NEW f, NEW others, NEW written, WorkspaceSound(w, f, others, written),
         NEW p, UndoSound(w, p),
         NEW b \in SomeSeen, Alike(b, Visible(w.previous))
  PROVE  LET r == RecordFrame(FALSE, w)
         IN  UndoSound(r, Append(p, [before |-> b, after |-> SeenIn(w)]))
<1> DEFINE r == RecordFrame(FALSE, w)
           n == Len(p)
           step == [before |-> b, after |-> SeenIn(w)]
           pp == Append(p, step)
           e(c) == [system |-> FALSE, changes |-> c]
<1>1. /\ w.heap \in Seq(Value) /\ w.env \in PairsOf(w.heap)
      /\ w.record \in Seq([system : BOOLEAN, changes : PairsOf(w.heap)])
      /\ \A i \in DOMAIN w.record : \A x \in DOMAIN w.record[i].changes :
            w.record[i].changes[x] \in DOMAIN w.heap
      /\ SeenIn(w) \in SomeSeen
  BY SoundParts
<1>2. PICK c : /\ r.record = <<e(c)>> \o w.record
               /\ r.env = w.env /\ r.previous = Bindings(w.heap, w.env)
               /\ \A d \in DOMAIN w.heap : r.heap[d] = w.heap[d]
               /\ \A x \in DOMAIN c : c[x] \notin DOMAIN w.heap
               /\ Leads(c, r.heap, SeenIn(w), Visible(w.previous))
  BY RecordFrameForm
<1> HIDE DEF r
<1>3. e(c).changes = c /\ e(c).system = FALSE
  OBVIOUS
<1> HIDE DEF e
<1>4. Apart(r)
  BY <1>2, <1>3, ApartGrows DEF UndoSound
<1>5. PICK pos : Laid(pos, w.record, n) /\ Tells(pos, w, p)
  BY DEF UndoSound
<1>6. /\ n \in Nat /\ p \in Seq([before : SomeSeen, after : SomeSeen])
      /\ step \in [before : SomeSeen, after : SomeSeen]
      /\ step.before = b /\ step.after = SeenIn(w)
  BY <1>1 DEF UndoSound
<1> HIDE DEF step
<1>7. /\ pp \in Seq([before : SomeSeen, after : SomeSeen])
      /\ Len(pp) = n + 1 /\ pp[n + 1] = step
      /\ \A j \in 1 .. n : pp[j] = p[j]
  BY <1>6
<1> HIDE DEF n, pp
<1> DEFINE q == [j \in 0 .. n + 2 |-> IF j = n + 2 THEN 0 ELSE pos[j] + 1]
<1>8. /\ pos \in [0 .. n + 1 -> Nat] /\ pos[n + 1] = 0
      /\ \A j \in 0 .. n + 1 : j \in 0 .. n + 2 /\ j # n + 2
  BY <1>5, <1>6 DEF Laid
<1>9. /\ q \in [0 .. n + 2 -> Nat] /\ q[n + 2] = 0 /\ q[n + 1] = 1
      /\ \A j \in 0 .. n + 1 : q[j] = pos[j] + 1
      /\ \A j \in 0 .. n : j \in 0 .. n + 1 /\ j + 1 \in 0 .. n + 1
  BY <1>6, <1>8
<1> HIDE DEF q
<1>10. /\ Len(r.record) = Len(w.record) + 1 /\ DOMAIN r.record = 1 .. Len(r.record)
       /\ r.record[1] = e(c) /\ Len(w.record) \in Nat
  BY <1>1, <1>2, ConsShifts
<1>11. Shifted(q, r.record, pos, w.record, n)
  <2>1. \A j \in 0 .. n : q[j] = pos[j] + 1
    BY <1>9
  <2> QED
    BY <2>1, <1>1, <1>2, <1>5, <1>6, LaidShifts
<1>12. \A j \in 0 .. n + 1 : j = n + 1 \/ j \in 0 .. n
  BY <1>6
<1>13. \A j \in 1 .. n + 1 : j = n + 1 \/ j \in 1 .. n
  BY <1>6
<1>14. q[n + 1] \in DOMAIN r.record /\ r.record[q[n + 1]] = e(c)
  BY <1>9, <1>10
<1>15. Laid(q, r.record, n + 1)
  <2>1. \A j \in 0 .. n : q[j + 1] = pos[j + 1] + 1
    BY <1>9
  <2>2. q[n + 1] = q[(n + 1) + 1] + 1 /\ q[(n + 1) + 1] = 0 /\ q \in [0 .. (n + 1) + 1 -> Nat]
    BY <1>6, <1>9
  <2>3. ASSUME NEW j \in 0 .. n + 1
        PROVE  \/ q[j] = q[j + 1] + 1
               \/ /\ q[j] = q[j + 1] + 2
                  /\ q[j + 1] + 1 \in DOMAIN r.record /\ r.record[q[j + 1] + 1].system
    BY <2>1, <2>2, <1>11, <1>12 DEF Shifted
  <2>4. \A j \in 1 .. n + 1 : q[j] \in DOMAIN r.record /\ ~r.record[q[j]].system
    BY <1>3, <1>11, <1>13, <1>14 DEF Shifted
  <2>5. q[n + 1] \in 1 .. Len(r.record) + 1
    BY <1>9, <1>10
  <2>6. \A j \in 0 .. n + 1 : q[j] \in 1 .. Len(r.record) + 1
    BY <2>5, <1>11, <1>12 DEF Shifted
  <2>7. q[0] = Len(r.record) + 1
    BY <1>11 DEF Shifted
  <2> QED
    BY <2>2, <2>3, <2>4, <2>6, <2>7 DEF Laid
<1>16. ASSUME NEW i \in DOMAIN w.record, NEW aa, NEW bb, Leads(w.record[i].changes, w.heap, bb, aa)
       PROVE  Leads(w.record[i].changes, r.heap, bb, aa)
  BY <1>16, <1>1, <1>2 DEF Leads
<1>17. ASSUME NEW j \in 1 .. n + 1
       PROVE  Leads(r.record[q[j]].changes, r.heap, pp[j].after, pp[j].before)
  <2>1. CASE j \in 1 .. n
    <3>1. Leads(w.record[pos[j]].changes, w.heap, p[j].after, p[j].before) /\ pos[j] \in DOMAIN w.record
      BY <2>1, <1>5 DEF Tells, Laid, n
    <3>2. r.record[q[j]] = w.record[pos[j]] /\ pp[j] = p[j]
      BY <2>1, <1>7, <1>11 DEF Shifted
    <3> QED
      BY <3>1, <3>2, <1>16
  <2>2. CASE j = n + 1
    <3>1. r.record[q[j]].changes = c /\ pp[j].after = SeenIn(w) /\ pp[j].before = b
      BY <2>2, <1>3, <1>6, <1>7, <1>14
    <3> QED
      BY <3>1, <1>2, LeadsOn
  <2> QED
    BY <2>1, <2>2, <1>13
<1>18. ASSUME NEW j \in 0 .. n
       PROVE  /\ q[j] = q[j + 1] + 1 => Alike(BeforeOf(pp, r, j + 1), AfterOf(pp, j))
              /\ q[j] = q[j + 1] + 2 => Leads(r.record[q[j + 1] + 1].changes, r.heap,
                                              BeforeOf(pp, r, j + 1), AfterOf(pp, j))
  <2>1. /\ pos[j] = pos[j + 1] + 1 => Alike(BeforeOf(p, w, j + 1), AfterOf(p, j))
        /\ pos[j] = pos[j + 1] + 2 => Leads(w.record[pos[j + 1] + 1].changes, w.heap,
                                            BeforeOf(p, w, j + 1), AfterOf(p, j))
    BY <1>5 DEF Tells, n
  <2>2. AfterOf(pp, j) = AfterOf(p, j)
    BY <1>6, <1>7 DEF AfterOf
  <2>3. Alike(BeforeOf(pp, r, j + 1), BeforeOf(p, w, j + 1))
    <3>1. BeforeOf(pp, r, j + 1) = pp[j + 1].before
      BY <1>6, <1>7 DEF BeforeOf
    <3>2. CASE j = n
      <4>1. BeforeOf(p, w, j + 1) = Visible(w.previous) /\ pp[j + 1].before = b
        BY <3>2, <1>6, <1>7 DEF BeforeOf, n
      <4> QED
        BY <3>1, <4>1
    <3>3. CASE j # n
      <4>1. j + 1 \in 1 .. n /\ j + 1 # n + 1
        BY <3>3, <1>6
      <4>2. BeforeOf(p, w, j + 1) = p[j + 1].before /\ pp[j + 1] = p[j + 1]
        BY <4>1, <1>7 DEF BeforeOf, n
      <4> QED
        BY <3>1, <4>2, LeadsOn
    <3> QED
      BY <3>2, <3>3
  <2>4. q[j] \in Nat /\ q[j + 1] \in Nat /\ q[j + 1] = pos[j + 1] + 1
    BY <1>6, <1>9
  <2>5. CASE pos[j] = pos[j + 1] + 1 /\ q[j] = q[j + 1] + 1
    <3>1. Alike(BeforeOf(pp, r, j + 1), AfterOf(pp, j))
      BY <2>1, <2>2, <2>3, <2>5, LeadsOn
    <3>2. q[j] # q[j + 1] + 2
      BY <2>4, <2>5
    <3> QED
      BY <3>1, <3>2
  <2>6. CASE /\ pos[j] = pos[j + 1] + 2 /\ q[j] = q[j + 1] + 2
             /\ r.record[q[j + 1] + 1] = w.record[pos[j + 1] + 1]
             /\ pos[j + 1] + 1 \in DOMAIN w.record
    <3>1. Leads(w.record[pos[j + 1] + 1].changes, w.heap, BeforeOf(pp, r, j + 1), AfterOf(pp, j))
      BY <2>1, <2>2, <2>3, <2>6, LeadsOn
    <3>2. Leads(r.record[q[j + 1] + 1].changes, r.heap, BeforeOf(pp, r, j + 1), AfterOf(pp, j))
      BY <3>1, <2>6, <1>16
    <3>3. q[j] # q[j + 1] + 1
      BY <2>4, <2>6
    <3> QED
      BY <3>2, <3>3
  <2> QED
    BY <2>4, <2>5, <2>6, <1>11 DEF Shifted
<1>19. /\ q[n + 1] = q[(n + 1) + 1] + 1 => Alike(BeforeOf(pp, r, (n + 1) + 1), AfterOf(pp, n + 1))
       /\ q[n + 1] # q[(n + 1) + 1] + 2
  <2>1. BeforeOf(pp, r, (n + 1) + 1) = SeenIn(w)
    BY <1>2, <1>7 DEF BeforeOf, SeenIn
  <2>2. AfterOf(pp, n + 1) = SeenIn(w)
    BY <1>6, <1>7 DEF AfterOf
  <2>3. q[n + 1] # q[(n + 1) + 1] + 2
    BY <1>6, <1>9
  <2> QED
    BY <2>1, <2>2, <2>3, LeadsOn
<1>20. Tells(q, r, pp)
  <2>1. ASSUME NEW j \in 0 .. n + 1
        PROVE  /\ q[j] = q[j + 1] + 1 => Alike(BeforeOf(pp, r, j + 1), AfterOf(pp, j))
               /\ q[j] = q[j + 1] + 2 => Leads(r.record[q[j + 1] + 1].changes, r.heap,
                                               BeforeOf(pp, r, j + 1), AfterOf(pp, j))
    BY <1>12, <1>18, <1>19
  <2> QED
    BY <2>1, <1>7, <1>17 DEF Tells
<1>21. UndoSound(r, pp)
  BY <1>4, <1>7, <1>15, <1>20 DEF UndoSound
<1> QED
  BY <1>21 DEF r, pp, step

-----------------------------------------------------------------------------
(* What holds for 0 and goes on up to n holds up to n. *)
LEMMA UpTo ==
  ASSUME NEW T, NEW n \in Nat, 0 \in T, \A i \in 0 .. n - 1 : i \in T => i + 1 \in T
  PROVE  \A i \in 0 .. n : i \in T
<1> DEFINE R == {i \in Nat : i <= n /\ i \notin T}
<1>1. SUFFICES ASSUME R # {} PROVE FALSE
  OBVIOUS
<1>2. PICK i \in R : \A k \in R : i <= k
  BY <1>1, LeastNat
<1>3. i \in Nat /\ i <= n /\ i \notin T /\ i # 0
  BY <1>2
<1>4. i - 1 \in 0 .. n - 1 /\ i - 1 \in Nat /\ i - 1 <= n /\ ~ (i <= i - 1) /\ (i - 1) + 1 = i
  BY <1>3
<1>5. i - 1 \in T
  BY <1>2, <1>4
<1> QED
  BY <1>3, <1>4, <1>5

LEMMA WalkGoes ==
  ASSUME NEW start, NEW m \in Int
  PROVE  LET to == IF m < 0 THEN -1 ELSE m
         IN  \E walk : /\ walk[-1] = FirstStop(start)
                       /\ \A i \in 0 .. to : walk[i] = NextStop(start, walk[i - 1])
                       /\ Walk(m, start) = walk[to]
<1> DEFINE to == IF m < 0 THEN -1 ELSE m
           walk == CHOOSE w : IsWalk(w, to, start)
<1>1. to \in Int /\ to >= -1
  OBVIOUS
<1>2. to + 1 \in Nat /\ (to + 1) - 1 = to
  BY <1>1
<1>3. \E w : IsWalk(w, to, start)
  BY <1>2, WalkExists
<1>4. IsWalk(walk, to, start)
  BY <1>3
<1>5. Walk(m, start) = walk[to]
  BY WalkUnfolds
<1> HIDE DEF walk, to
<1>6. \A i \in -1 .. to : walk[i] = IF i < 0 THEN FirstStop(start) ELSE NextStop(start, walk[i - 1])
  BY <1>4 DEF IsWalk
<1>7. -1 \in -1 .. to /\ \A i \in 0 .. to : i \in -1 .. to /\ ~ (i < 0)
  BY <1>1
<1>8. walk[-1] = FirstStop(start) /\ \A i \in 0 .. to : walk[i] = NextStop(start, walk[i - 1])
  BY <1>6, <1>7
<1> QED
  BY <1>5, <1>8 DEF to

(***************************************************************************)
(* A pair of the heap of start is overwritten only when it is one of the   *)
(* environment.                                                            *)
(***************************************************************************)
KeepsPairs(w, start) ==
    /\ w.previous = start.previous
    /\ w.record = start.record
    /\ DOMAIN start.heap \subseteq DOMAIN w.heap
    /\ \A d \in DOMAIN start.heap : \/ w.heap[d] = start.heap[d]
                                    \/ \E x \in DOMAIN w.env : w.env[x] = d

(* The entries of the record after place l are as they were in start. *)
Untouched(w, l, start) ==
    \A i \in DOMAIN start.record :
        i > l => LET c == start.record[i].changes
                 IN  /\ NoShare(c, w.env)
                     /\ \A x \in DOMAIN c : w.heap[c[x]] = start.heap[c[x]]

LEMMA KeepsThroughStep ==
  ASSUME NEW w, NEW f, NEW others, NEW written, NEW start,
         WorkspaceSound(w, f, others, written), RecordSound(w, f, others, written),
         KeepsPairs(w, start), NEW k \in DOMAIN w.record
  PROVE  KeepsPairs(UndoSingleStep(w.record[k].changes, w), start)
<1> DEFINE r == UndoSingleStep(w.record[k].changes, w)
<1>1. /\ \A d \in DOMAIN w.heap : r.heap[d] = w.heap[d] \/ \E x \in DOMAIN w.env : w.env[x] = d
      /\ \A x \in DOMAIN w.env : x \in DOMAIN r.env /\ r.env[x] = w.env[x]
      /\ r.previous = w.previous
  BY UndoSingleStepForm
<1>2. DOMAIN r.heap = DOMAIN w.heap /\ r.record = w.record
  BY UndoSingleStepSound
<1> HIDE DEF r
<1>3. KeepsPairs(r, start)
  BY <1>1, <1>2 DEF KeepsPairs
<1> QED
  BY <1>3 DEF r

(* undoSingleStep with the entry after place l goes back to what it tells. *)
LEMMA UntouchedThroughStep ==
  ASSUME NEW w, NEW f, NEW others, NEW written, NEW start,
         WorkspaceSound(start, f, others, written), Apart(start),
         WorkspaceSound(w, f, others, written), RecordSound(w, f, others, written),
         KeepsPairs(w, start),
         NEW l \in Nat, l + 1 \in DOMAIN start.record, Untouched(w, l, start),
         NEW b, NEW a, Leads(start.record[l + 1].changes, start.heap, b, a), Alike(SeenIn(w), b)
  PROVE  LET r == UndoSingleStep(start.record[l + 1].changes, w)
         IN  Untouched(r, l + 1, start) /\ Alike(SeenIn(r), a)
<1> DEFINE c == start.record[l + 1].changes
           r == UndoSingleStep(c, w)
<1>1. w.record = start.record /\ DOMAIN start.heap \subseteq DOMAIN w.heap
  BY DEF KeepsPairs
<1>2. /\ \A x \in Var : ValueAt(SeenIn(r), x)
            = IF x \in DOMAIN c THEN ValueOf(w.heap[c[x]]) ELSE ValueAt(SeenIn(w), x)
      /\ \A d \in DOMAIN w.heap : r.heap[d] = w.heap[d] \/ \E x \in DOMAIN w.env : w.env[x] = d
      /\ \A x \in DOMAIN r.env : \/ x \in DOMAIN w.env /\ r.env[x] = w.env[x]
                                 \/ x \in DOMAIN c /\ r.env[x] = c[x]
  BY <1>1, UndoSingleStepForm
<1>3. /\ DOMAIN start.record = 1 .. Len(start.record) /\ Len(start.record) \in Nat
      /\ \A i \in DOMAIN start.record : \A x \in DOMAIN start.record[i].changes :
            start.record[i].changes[x] \in DOMAIN start.heap
  BY SoundParts
<1>4. \A x \in DOMAIN c : w.heap[c[x]] = start.heap[c[x]]
  BY DEF Untouched
<1> HIDE DEF r
<1>5. Alike(SeenIn(r), a)
  BY <1>2, <1>4 DEF Alike, Leads
<1>6. ASSUME NEW i \in DOMAIN start.record, i > l + 1
      PROVE  /\ NoShare(start.record[i].changes, r.env)
             /\ \A x \in DOMAIN start.record[i].changes :
                   r.heap[start.record[i].changes[x]] = start.heap[start.record[i].changes[x]]
  <2>1. i > l /\ i # l + 1
    BY <1>3, <1>6
  <2>2. /\ NoShare(start.record[i].changes, w.env)
        /\ \A x \in DOMAIN start.record[i].changes :
              w.heap[start.record[i].changes[x]] = start.heap[start.record[i].changes[x]]
    BY <2>1 DEF Untouched
  <2>3. NoShare(start.record[i].changes, c)
    BY <2>1 DEF Apart
  <2>4. NoShare(start.record[i].changes, r.env)
    BY <1>2, <2>2, <2>3 DEF NoShare
  <2>5. ASSUME NEW x \in DOMAIN start.record[i].changes
        PROVE  r.heap[start.record[i].changes[x]] = start.heap[start.record[i].changes[x]]
    <3>1. start.record[i].changes[x] \in DOMAIN w.heap
      BY <1>1, <1>3
    <3>2. ~ \E y \in DOMAIN w.env : w.env[y] = start.record[i].changes[x]
      BY <2>2 DEF NoShare
    <3> QED
      BY <3>1, <3>2, <1>2, <2>2
  <2> QED
    BY <2>4, <2>5
<1>7. Untouched(r, l + 1, start)
  BY <1>6 DEF Untouched
<1> QED
  BY <1>5, <1>7 DEF r

LEMMA NextStopKeeps ==
  ASSUME NEW start, NEW s, NEW f, NEW others, NEW written,
         StopSound(s, start, f, others, written), KeepsPairs(s.w, start)
  PROVE  KeepsPairs(NextStop(start, s).w, start)
<1> DEFINE k == s.at + 1
           one == UndoSingleStep(start.record[k].changes, s.w)
           two == UndoSingleStep(start.record[k + 1].changes, one)
           t == NextStop(start, s)
<1>1. /\ s.at \in Nat
      /\ WorkspaceSound(s.w, f, others, written)
      /\ RecordSound(s.w, f, others, written)
      /\ s.w.record = start.record
  BY DEF StopSound
<1>2. DOMAIN start.record = 1 .. Len(start.record) /\ Len(start.record) \in Nat
  BY <1>1, ElemsOfSeq DEF WorkspaceSound
<1>3. CASE k > Len(start.record)
  BY <1>3 DEF NextStop
<1>4. CASE ~ (k > Len(start.record))
  <2>1. k \in DOMAIN start.record
    BY <1>1, <1>2, <1>4
  <2>2. /\ WorkspaceSound(one, f, others, written)
        /\ RecordSound(one, f, others, written)
        /\ one.record = start.record
    BY <1>1, <2>1, UndoSingleStepSound
  <2>3. KeepsPairs(one, start)
    BY <1>1, <2>1, KeepsThroughStep
  <2>4. CASE SkipsSystem(start.record, k)
    <3>1. t.w = two
      BY <1>4, <2>4 DEF NextStop
    <3>2. k + 1 \in DOMAIN start.record
      BY <1>1, <1>2, <2>4 DEF SkipsSystem
    <3> HIDE DEF one, k, t
    <3>3. KeepsPairs(two, start)
      BY <2>2, <2>3, <3>2, KeepsThroughStep
    <3> HIDE DEF two
    <3>4. KeepsPairs(t.w, start)
      BY <3>1, <3>3
    <3> QED
      BY <3>4 DEF t
  <2>5. CASE ~ SkipsSystem(start.record, k)
    <3>1. t.w = one
      BY <1>4, <2>5 DEF NextStop
    <3> HIDE DEF one, k, t
    <3>2. KeepsPairs(t.w, start)
      BY <2>3, <3>1
    <3> QED
      BY <3>2 DEF t
  <2> QED
    BY <2>4, <2>5
<1> QED
  BY <1>3, <1>4

(* Wherever the walk stops, it has changed no pair but those of the environment. *)
LEMMA WalkKeeps ==
  ASSUME NEW start, NEW f, NEW others, NEW written, NEW m \in Int, commands \in Nat,
         WorkspaceSound(start, f, others, written), RecordSound(start, f, others, written)
  PROVE  KeepsPairs(Walk(m, start).w, start)
<1> DEFINE to == IF m < 0 THEN -1 ELSE m
<1>1. PICK walk : /\ walk[-1] = FirstStop(start)
                  /\ \A i \in 0 .. to : walk[i] = NextStop(start, walk[i - 1])
                  /\ Walk(m, start) = walk[to]
  BY WalkGoes
<1> DEFINE Good(s) == StopSound(s, start, f, others, written) /\ KeepsPairs(s.w, start)
           T == {n \in Nat : Good(walk[n - 1])}
<1>2. to + 1 \in Nat /\ (to + 1) - 1 = to /\ 0 - 1 = -1
  OBVIOUS
<1> HIDE DEF to
<1>3. Good(walk[-1])
  <2>1. StopSound(FirstStop(start), start, f, others, written)
    BY CopyEnvSound DEF FirstStop, StopSound
  <2>2. KeepsPairs(CopyEnv(start), start)
    <3> DEFINE first == CopyEnv(start)
    <3>1. \A d \in DOMAIN start.heap : first.heap[d] = start.heap[d]
      BY CopyEnvForm
    <3>2. first.previous = start.previous
      BY CopyEnvForm
    <3>3. first.record = start.record /\ DOMAIN start.heap \subseteq DOMAIN first.heap
      BY CopyEnvSound
    <3> HIDE DEF first
    <3>4. KeepsPairs(first, start)
      BY <3>1, <3>2, <3>3 DEF KeepsPairs
    <3> QED
      BY <3>4 DEF first
  <2>3. FirstStop(start).w = CopyEnv(start)
    BY DEF FirstStop
  <2> QED
    BY <1>1, <2>1, <2>2, <2>3
<1>4. ASSUME NEW n \in 0 .. (to + 1) - 1, Good(walk[n - 1])
      PROVE  Good(walk[(n + 1) - 1])
  <2>1. n \in 0 .. to /\ (n + 1) - 1 = n
    BY <1>2
  <2> QED
    BY <2>1, <1>1, <1>4, NextStopSound, NextStopKeeps
<1> HIDE DEF Good
<1>5. \A n \in 0 .. to + 1 : n \in T
  <2>1. 0 \in T
    BY <1>2, <1>3
  <2>2. \A n \in 0 .. (to + 1) - 1 : n \in T => n + 1 \in T
    BY <1>2, <1>4
  <2> HIDE DEF T
  <2> QED
    BY <1>2, <2>1, <2>2, UpTo
<1>6. Good(walk[to])
  BY <1>2, <1>5
<1> QED
  BY <1>1, <1>6 DEF Good

(***************************************************************************)
(* Every stop of the walk undoes one step: from what was seen after it to  *)
(* what was seen after the one before.                                     *)
(***************************************************************************)
LEMMA NextStopTells ==
  ASSUME NEW start, NEW s, NEW f, NEW others, NEW written,
         WorkspaceSound(start, f, others, written), Apart(start),
         StopSound(s, start, f, others, written), KeepsPairs(s.w, start),
         NEW q, Len(q) \in Nat, NEW pos, Laid(pos, start.record, Len(q)), Tells(pos, start, q),
         NEW j \in 1 .. Len(q), s.at = pos[j] - 1, Untouched(s.w, s.at, start),
         Alike(SeenIn(s.w), AfterOf(q, j))
  PROVE  LET t == NextStop(start, s)
         IN  /\ t.at = pos[j - 1] - 1 /\ t.at > s.at
             /\ Untouched(t.w, t.at, start) /\ Alike(SeenIn(t.w), AfterOf(q, j - 1))
<1> DEFINE n == Len(q)
           k == s.at + 1
           one == UndoSingleStep(start.record[k].changes, s.w)
           two == UndoSingleStep(start.record[k + 1].changes, one)
           t == NextStop(start, s)
<1>1. /\ s.at \in Nat
      /\ WorkspaceSound(s.w, f, others, written)
      /\ RecordSound(s.w, f, others, written)
      /\ s.w.record = start.record
  BY DEF StopSound
<1>2. DOMAIN start.record = 1 .. Len(start.record) /\ Len(start.record) \in Nat
  BY SoundParts
<1>3. /\ j - 1 \in 0 .. n /\ (j - 1) + 1 = j /\ j \in 0 .. n + 1 /\ j - 1 \in 0 .. n + 1
      /\ j # n + 1 /\ j # 0
  OBVIOUS
<1>4. /\ pos[j] \in Nat /\ pos[j - 1] \in Nat /\ pos[j] \in DOMAIN start.record
      /\ pos[j - 1] \in 1 .. Len(start.record) + 1
      /\ j - 1 = 0 => pos[j - 1] = Len(start.record) + 1
      /\ j - 1 # 0 => ~ start.record[pos[j - 1]].system
      /\ \/ pos[j - 1] = pos[j] + 1
         \/ /\ pos[j - 1] = pos[j] + 2
            /\ pos[j] + 1 \in DOMAIN start.record /\ start.record[pos[j] + 1].system
  <2>1. j - 1 # 0 => j - 1 \in 1 .. n
    BY <1>3
  <2> QED
    BY <1>3, <2>1 DEF Laid
<1>5. k = pos[j]
  BY <1>4
<1>6. Leads(start.record[k].changes, start.heap, q[j].after, q[j].before)
  BY <1>5 DEF Tells
<1>7. /\ pos[j - 1] = pos[j] + 1 => Alike(q[j].before, AfterOf(q, j - 1))
      /\ pos[j - 1] = pos[j] + 2 => Leads(start.record[k + 1].changes, start.heap,
                                          q[j].before, AfterOf(q, j - 1))
  <2>1. BeforeOf(q, start, (j - 1) + 1) = q[j].before
    BY <1>3 DEF BeforeOf
  <2> QED
    BY <2>1, <1>3, <1>5 DEF Tells
<1>8. AfterOf(q, j) = q[j].after
  BY <1>3 DEF AfterOf
<1>9. /\ Untouched(one, k, start) /\ Alike(SeenIn(one), q[j].before)
  BY <1>1, <1>4, <1>5, <1>6, <1>8, UntouchedThroughStep
<1>10. /\ WorkspaceSound(one, f, others, written)
       /\ RecordSound(one, f, others, written)
       /\ KeepsPairs(one, start)
  BY <1>1, <1>4, <1>5, UndoSingleStepSound, KeepsThroughStep
<1>11. ~ (k > Len(start.record))
  BY <1>2, <1>4, <1>5
<1>12. CASE pos[j - 1] = pos[j] + 1
  <2>1. ~ SkipsSystem(start.record, k)
    <3>1. CASE j - 1 = 0
      BY <3>1, <1>2, <1>4, <1>5, <1>12 DEF SkipsSystem
    <3>2. CASE j - 1 # 0
      BY <3>2, <1>4, <1>5, <1>12 DEF SkipsSystem
    <3> QED
      BY <3>1, <3>2
  <2>2. t.w = one /\ t.at = k
    BY <1>11, <2>1 DEF NextStop
  <2> HIDE DEF one, t
  <2>3. t.at = pos[j - 1] - 1 /\ t.at > s.at
    BY <1>1, <1>4, <1>5, <1>12, <2>2
  <2>4. Alike(SeenIn(t.w), AfterOf(q, j - 1))
    BY <1>7, <1>9, <1>12, <2>2, LeadsOn
  <2>5. Untouched(t.w, t.at, start)
    BY <1>9, <2>2
  <2> QED
    BY <2>3, <2>4, <2>5 DEF t
<1>13. CASE pos[j - 1] = pos[j] + 2 /\ k + 1 \in DOMAIN start.record /\ start.record[k + 1].system
  <2>1. SkipsSystem(start.record, k)
    BY <1>1, <1>2, <1>13 DEF SkipsSystem
  <2>2. t.w = two /\ t.at = k + 1
    BY <1>11, <2>1 DEF NextStop
  <2> HIDE DEF one, t
  <2>3. t.at = pos[j - 1] - 1 /\ t.at > s.at
    BY <1>1, <1>4, <1>5, <1>13, <2>2
  <2>4. k \in Nat
    BY <1>1
  <2> HIDE DEF k
  <2>5. Leads(start.record[k + 1].changes, start.heap, q[j].before, AfterOf(q, j - 1))
    BY <1>7, <1>13
  <2>6. Untouched(two, k + 1, start) /\ Alike(SeenIn(two), AfterOf(q, j - 1))
    BY <1>9, <1>10, <1>13, <2>4, <2>5, UntouchedThroughStep
  <2> HIDE DEF two
  <2>7. Untouched(t.w, t.at, start) /\ Alike(SeenIn(t.w), AfterOf(q, j - 1))
    BY <2>2, <2>6
  <2> QED
    BY <2>3, <2>7 DEF t
<1> QED
  BY <1>4, <1>5, <1>12, <1>13

(* The walk of m + 1 stops goes back to what was seen after step n - m - 1. *)
LEMMA WalkTells ==
  ASSUME NEW start, NEW f, NEW others, NEW written, commands \in Nat,
         WorkspaceSound(start, f, others, written), RecordSound(start, f, others, written),
         Apart(start),
         NEW q, Len(q) \in Nat, NEW pos, Laid(pos, start.record, Len(q)), Tells(pos, start, q),
         pos[Len(q)] = 1, Alike(SeenIn(start), AfterOf(q, Len(q))),
         NEW m \in 0 .. Len(q) - 1
  PROVE  LET end == Walk(m, start)
         IN  /\ end.at = pos[Len(q) - (m + 1)] - 1 /\ end.at >= m + 1
             /\ Untouched(end.w, end.at, start)
             /\ Alike(SeenIn(end.w), AfterOf(q, Len(q) - (m + 1)))
<1> DEFINE n == Len(q)
           Good(s, i) == /\ StopSound(s, start, f, others, written) /\ KeepsPairs(s.w, start)
                         /\ s.at = pos[n - i] - 1 /\ s.at >= i
                         /\ Untouched(s.w, s.at, start)
                         /\ Alike(SeenIn(s.w), AfterOf(q, n - i))
<1>1. /\ m \in Int /\ ~ (m < 0) /\ m + 1 \in Nat /\ (m + 1) - 1 = m /\ 0 - 1 = -1
      /\ m + 1 \in 0 .. m + 1 /\ m + 1 <= n
  OBVIOUS
<1>2. PICK walk : /\ walk[-1] = FirstStop(start)
                  /\ \A i \in 0 .. m : walk[i] = NextStop(start, walk[i - 1])
                  /\ Walk(m, start) = walk[m]
  <2>1. (IF m < 0 THEN -1 ELSE m) = m
    BY <1>1
  <2> QED
    BY <1>1, <2>1, WalkGoes
<1> DEFINE T == {i \in Nat : Good(walk[i - 1], i)}
<1>3. Good(walk[-1], 0)
  <2> DEFINE first == CopyEnv(start)
  <2>1. StopSound(FirstStop(start), start, f, others, written)
    BY CopyEnvSound DEF FirstStop, StopSound
  <2>2. /\ \A d \in DOMAIN start.heap : first.heap[d] = start.heap[d]
        /\ first.previous = start.previous
        /\ \A x \in DOMAIN first.env : first.env[x] \notin DOMAIN start.heap
        /\ Alike(SeenIn(first), SeenIn(start))
    BY CopyEnvForm
  <2>3. first.record = start.record /\ DOMAIN start.heap \subseteq DOMAIN first.heap
    BY CopyEnvSound
  <2>4. FirstStop(start).w = first /\ FirstStop(start).at = 0
    BY DEF FirstStop
  <2> HIDE DEF first
  <2>5. KeepsPairs(first, start)
    BY <2>2, <2>3 DEF KeepsPairs
  <2>6. \A i \in DOMAIN start.record : \A x \in DOMAIN start.record[i].changes :
           start.record[i].changes[x] \in DOMAIN start.heap
    BY SoundParts
  <2>7. Untouched(first, 0, start)
    BY <2>2, <2>6 DEF Untouched, NoShare
  <2>8. n - 0 = n /\ pos[n] - 1 = 0
    OBVIOUS
  <2>9. Alike(SeenIn(first), AfterOf(q, n))
    BY <2>2, LeadsOn
  <2>10. Good(FirstStop(start), 0)
    BY <2>1, <2>4, <2>5, <2>7, <2>8, <2>9
  <2> QED
    BY <2>10, <1>2
<1>4. ASSUME NEW i \in 0 .. (m + 1) - 1, Good(walk[i - 1], i)
      PROVE  Good(walk[(i + 1) - 1], i + 1)
  <2> DEFINE s == walk[i - 1]
             t == NextStop(start, s)
             j == n - i
  <2>1. i \in 0 .. m /\ (i + 1) - 1 = i /\ j \in 1 .. n /\ j - 1 = n - (i + 1) /\ i \in Nat
    OBVIOUS
  <2>2. walk[i] = t
    BY <2>1, <1>2
  <2>3. /\ StopSound(s, start, f, others, written) /\ KeepsPairs(s.w, start)
        /\ s.at = pos[j] - 1 /\ s.at >= i
        /\ Untouched(s.w, s.at, start)
        /\ Alike(SeenIn(s.w), AfterOf(q, j))
    BY <1>4
  <2> HIDE DEF s, j
  <2>4. /\ t.at = pos[j - 1] - 1 /\ t.at > s.at
        /\ Untouched(t.w, t.at, start) /\ Alike(SeenIn(t.w), AfterOf(q, j - 1))
    BY <2>1, <2>3, NextStopTells
  <2>5. StopSound(t, start, f, others, written) /\ KeepsPairs(t.w, start)
    BY <2>3, NextStopSound, NextStopKeeps
  <2> HIDE DEF t
  <2>6. t.at >= i + 1
    <3>1. s.at \in Nat /\ t.at \in Nat
      BY <2>3, <2>5 DEF StopSound
    <3> QED
      BY <3>1, <2>1, <2>3, <2>4
  <2>7. Good(t, i + 1)
    BY <2>1, <2>4, <2>5, <2>6
  <2> QED
    BY <2>1, <2>2, <2>7
<1> HIDE DEF Good
<1>5. \A i \in 0 .. m + 1 : i \in T
  <2>1. 0 \in T
    BY <1>1, <1>3
  <2>2. \A i \in 0 .. (m + 1) - 1 : i \in T => i + 1 \in T
    <3>1. \A i \in 0 .. (m + 1) - 1 : i \in Nat /\ i + 1 \in Nat
      BY <1>1
    <3> QED
      BY <1>4, <3>1
  <2> HIDE DEF T
  <2> QED
    BY <1>1, <2>1, <2>2, UpTo
<1>6. Good(walk[m], m + 1)
  <2>1. Good(walk[(m + 1) - 1], m + 1)
    BY <1>1, <1>5
  <2> QED
    BY <1>1, <2>1
<1> QED
  BY <1>2, <1>6 DEF Good

-----------------------------------------------------------------------------
(* )undo records what has changed since the last step as if it were a step. *)
SinceLastStep == [before |-> Visible(previousBindings), after |-> SeenIn(Here)]

LEMMA LastPosition ==
  ASSUME NEW pos, NEW record, NEW n \in Nat, Laid(pos, record, n),
         1 \in DOMAIN record => ~record[1].system
  PROVE  pos[n] = 1
<1>1. n \in 0 .. n /\ pos[n + 1] = 0
  BY DEF Laid
<1>2. pos[n] = 0 + 1 \/ (0 + 1 \in DOMAIN record /\ record[0 + 1].system)
  BY <1>1 DEF Laid
<1> QED
  BY <1>2

LEMMA UndoStarts ==
  ASSUME WorkInv, intact, UndoSound(Here, past)
  PROVE  LET start == RecordFrame(FALSE, Here)
             q == Append(past, SinceLastStep)
         IN  /\ WorkspaceSound(start, Current, Rest, wrote) /\ RecordSound(start, Current, Rest, wrote)
             /\ UndoSound(start, q)
             /\ Len(past) \in Nat /\ Len(q) = Len(past) + 1
             /\ q[Len(past) + 1].after = SeenIn(start)
             /\ \A j \in 1 .. Len(past) : q[j] = past[j] /\ past[j] \in [before : SomeSeen, after : SomeSeen]
             /\ start.record[1].system = FALSE /\ Tail(start.record) = frameRecord
             /\ start.previous = Bindings(heap, env)
             /\ \A d \in DOMAIN heap : start.heap[d] = heap[d]
<1> DEFINE start == RecordFrame(FALSE, Here)
           q == Append(past, SinceLastStep)
<1>1. /\ WorkspaceSound(Here, Current, Rest, wrote)
      /\ RecordSound(Here, Current, Rest, wrote)
      /\ Here.heap = heap /\ Here.env = env
  BY HereSound
<1>2. Here.record = frameRecord /\ Here.previous = previousBindings
  BY DEF Here
<1>3. /\ WorkspaceSound(start, Current, Rest, wrote) /\ RecordSound(start, Current, Rest, wrote)
  BY <1>1, RecordFrameSound
<1>4. Visible(previousBindings) \in SomeSeen /\ SeenIn(Here) \in SomeSeen
  BY <1>1, <1>2, SoundParts, VisibleAt
<1>5. UndoSound(start, q)
  <2>1. Alike(Visible(previousBindings), Visible(Here.previous))
    BY <1>2, LeadsOn
  <2> QED
    BY <1>1, <1>4, <2>1, RecordStepTells DEF SinceLastStep
<1>6. PICK c : /\ start.record = <<[system |-> FALSE, changes |-> c]>> \o frameRecord
               /\ start.previous = Bindings(heap, env)
               /\ \A d \in DOMAIN heap : start.heap[d] = heap[d]
               /\ SeenIn(start) = SeenIn(Here)
  <2>1. PICK c : /\ start.record = <<[system |-> FALSE, changes |-> c]>> \o Here.record
                 /\ start.previous = Bindings(Here.heap, Here.env)
                 /\ \A d \in DOMAIN Here.heap : start.heap[d] = Here.heap[d]
                 /\ SeenIn(start) = SeenIn(Here)
    BY <1>1, RecordFrameForm
  <2> HIDE DEF start
  <2> QED
    BY <2>1, <1>1, <1>2
<1>7. frameRecord \in Seq([system : BOOLEAN, changes : PairsOf(heap)])
  BY HereParts
<1> HIDE DEF start
<1>8. start.record[1].system = FALSE /\ Tail(start.record) = frameRecord
  <2> DEFINE e == [system |-> FALSE, changes |-> c]
  <2>1. e.system = FALSE
    OBVIOUS
  <2>2. start.record = <<e>> \o frameRecord
    BY <1>6
  <2> HIDE DEF e
  <2>3. start.record[1] = e
    BY <1>7, <2>2, ConsShifts
  <2>4. Tail(<<e>> \o frameRecord) = frameRecord
    BY <1>7
  <2> QED
    BY <2>1, <2>2, <2>3, <2>4
<1>9. past \in Seq([before : SomeSeen, after : SomeSeen]) /\ Len(past) \in Nat
  BY DEF UndoSound
<1>10. SinceLastStep.after = SeenIn(start)
  BY <1>6 DEF SinceLastStep
<1>11. SinceLastStep \in [before : SomeSeen, after : SomeSeen]
  BY <1>4 DEF SinceLastStep
<1>12. /\ Len(q) = Len(past) + 1 /\ q[Len(past) + 1] = SinceLastStep
       /\ \A j \in 1 .. Len(past) : q[j] = past[j] /\ past[j] \in [before : SomeSeen, after : SomeSeen]
  <2> DEFINE Steps == [before : SomeSeen, after : SomeSeen]
  <2>1. past \in Seq(Steps) /\ Len(past) \in Nat /\ SinceLastStep \in Steps
    BY <1>9, <1>11
  <2> HIDE DEF Steps
  <2>2. /\ Len(q) = Len(past) + 1 /\ q[Len(past) + 1] = SinceLastStep
        /\ \A j \in 1 .. Len(past) : q[j] = past[j] /\ past[j] \in Steps
    BY <2>1
  <2> QED
    BY <2>2 DEF Steps
<1> HIDE DEF q
<1> QED
  BY <1>3, <1>5, <1>6, <1>8, <1>9, <1>10, <1>12 DEF start, q

(* Where )undo designates a step, it gives back what was seen there. *)
LEMMA UndoGives ==
  ASSUME WorkInv, intact, UndoSound(Here, past),
         NEW n \in UndoArgs, NEW when \in {"before", "after"}, Designates(n, when),
         when = "before" => EndsAtAStep(UndoCount(n))
  PROVE  LET w == UndoSteps(UndoCount(n), when)
         IN  Promised(n, when) = Visible(Bindings(w.heap, w.env))
<1> DEFINE m == UndoCount(n)
           w == UndoSteps(m, when)
           start == RecordFrame(FALSE, Here)
           q == Append(past, SinceLastStep)
           end == Walk(m, start)
           step == IF n > 0 THEN n ELSE Len(past) + n
           more == when = "before" /\ end.tail \in 1 .. Len(start.record) - 1
           final == IF more THEN UndoSingleStep(start.record[end.tail + 1].changes, end.w) ELSE end.w
<1>1. /\ WorkspaceSound(start, Current, Rest, wrote) /\ RecordSound(start, Current, Rest, wrote)
      /\ UndoSound(start, q)
      /\ Len(past) \in Nat /\ Len(q) = Len(past) + 1
      /\ q[Len(past) + 1].after = SeenIn(start)
      /\ \A j \in 1 .. Len(past) : q[j] = past[j] /\ past[j] \in [before : SomeSeen, after : SomeSeen]
      /\ start.record[1].system = FALSE
  BY UndoStarts
<1>2. n \in Int /\ IOindex \in Nat /\ commands \in Nat
  BY WorkspaceAssumption, HereSound DEF WorkInv
<1>3. /\ m \in 0 .. Len(q) - 1 /\ Len(q) - (m + 1) = step /\ step \in 0 .. Len(past)
      /\ when = "before" => step \in 1 .. Len(past)
  BY <1>1, <1>2 DEF Designates, UndoCount
<1>4. w = [final EXCEPT !.record = Tail(start.record)]
  BY DEF UndoSteps
<1>5. Promised(n, when) = IF when = "before" THEN past[step].before ELSE AfterOf(past, step)
  BY DEF Promised, AfterOf
<1>6. EndsAtAStep(m) => end.at = end.tail
  BY DEF EndsAtAStep
<1> HIDE DEF m, start, q, w
<1>7. PICK pos : Laid(pos, start.record, Len(q)) /\ Tells(pos, start, q)
  BY <1>1 DEF UndoSound
<1>8. Len(q) \in Nat /\ pos[Len(q)] = 1
  BY <1>1, <1>7, LastPosition
<1>9. Alike(SeenIn(start), AfterOf(q, Len(q)))
  <2>1. AfterOf(q, Len(q)) = SeenIn(start)
    BY <1>1 DEF AfterOf
  <2> QED
    BY <2>1, LeadsOn
<1>10. /\ end.at = pos[step] - 1 /\ end.at >= m + 1
       /\ Untouched(end.w, end.at, start)
       /\ Alike(SeenIn(end.w), AfterOf(q, step))
  <2>1. Apart(start)
    BY <1>1 DEF UndoSound
  <2> HIDE DEF step
  <2> QED
    BY <1>1, <1>2, <1>3, <1>7, <1>8, <1>9, <2>1, WalkTells
<1>11. m \in Int
  BY <1>3
<1>12. StopSound(end, start, Current, Rest, wrote) /\ KeepsPairs(end.w, start)
  BY <1>1, <1>2, <1>11, WalkSound, WalkKeeps
<1> HIDE DEF end
<1>13. /\ WorkspaceSound(end.w, Current, Rest, wrote)
       /\ RecordSound(end.w, Current, Rest, wrote)
       /\ end.w.record = start.record
  BY <1>12 DEF StopSound
<1>14. CASE when = "after"
  <2>1. final = end.w
    BY <1>14
  <2>2. SeenIn(end.w) \in SomeSeen
    BY <1>13, SoundParts
  <2>3. AfterOf(q, step) = AfterOf(past, step) /\ AfterOf(past, step) \in SomeSeen
    BY <1>1, <1>3, NothingIsSeen DEF AfterOf
  <2>4. SeenIn(end.w) = AfterOf(past, step)
    BY <1>10, <2>2, <2>3, AlikeIsEqual
  <2>5. end.w = [heap |-> end.w.heap, env |-> end.w.env, record |-> end.w.record, previous |-> end.w.previous]
    BY <1>13, SoundParts
  <2> HIDE DEF final
  <2>6. w.heap = end.w.heap /\ w.env = end.w.env
    BY <1>4, <2>1, <2>5
  <2>7. Promised(n, when) = SeenIn(end.w)
    BY <1>5, <1>14, <2>4
  <2> QED
    BY <2>6, <2>7 DEF SeenIn, w, m
<1>15. CASE when = "before"
  <2>1. step \in 1 .. Len(past) /\ step \in 1 .. Len(q) /\ past[step] = q[step]
    BY <1>1, <1>3, <1>15
  <2>2. end.tail = pos[step] - 1
    BY <1>6, <1>10, <1>15 DEF m
  <2> HIDE DEF step
  <2>3. pos[step] \in DOMAIN start.record /\ DOMAIN start.record = 1 .. Len(start.record)
        /\ Len(start.record) \in Nat
    BY <1>1, <1>7, <2>1, SoundParts DEF Laid
  <2>4. end.tail \in 1 .. Len(start.record) - 1 /\ end.tail + 1 = pos[step] /\ end.at = end.tail
    BY <1>3, <1>10, <2>2, <2>3
  <2> DEFINE back == UndoSingleStep(start.record[end.tail + 1].changes, end.w)
  <2>5. final = back
    BY <1>15, <2>4
  <2>6. Leads(start.record[end.tail + 1].changes, start.heap, q[step].after, q[step].before)
    BY <1>7, <2>1, <2>4 DEF Tells
  <2>7. Alike(SeenIn(end.w), q[step].after)
    <3>1. AfterOf(q, step) = q[step].after
      BY <2>1 DEF AfterOf
    <3> QED
      BY <1>10, <3>1
  <2>8. Alike(SeenIn(back), q[step].before)
    <3>1. Untouched(end.w, end.tail, start) /\ end.tail \in Nat /\ end.tail + 1 \in DOMAIN start.record
      BY <1>10, <2>3, <2>4
    <3>2. Apart(start)
      BY <1>1 DEF UndoSound
    <3> QED
      BY <1>1, <1>12, <1>13, <2>6, <2>7, <3>1, <3>2, UntouchedThroughStep
  <2>9. WorkspaceSound(back, Current, Rest, wrote)
    BY <1>13, <2>3, <2>4, UndoSingleStepSound
  <2> HIDE DEF back, final
  <2>10. SeenIn(back) \in SomeSeen
    BY <2>9, SoundParts
  <2>11. back = [heap |-> back.heap, env |-> back.env, record |-> back.record, previous |-> back.previous]
    BY <2>9, SoundParts
  <2>12. w.heap = back.heap /\ w.env = back.env
    BY <1>4, <2>5, <2>11
  <2>13. q[step].before \in SomeSeen
    BY <1>1, <2>1
  <2>14. SeenIn(back) = q[step].before
    BY <2>8, <2>10, <2>13, AlikeIsEqual
  <2>15. Promised(n, when) = SeenIn(back)
    BY <1>5, <1>15, <2>1, <2>14
  <2> QED
    BY <2>12, <2>15 DEF SeenIn, w, m
<1> QED
  BY <1>14, <1>15

-----------------------------------------------------------------------------
(* putIntSymTab touches no pair of the record. *)
LEMMA PutTells ==
  ASSUME NEW w, NEW f, NEW others, NEW written, WorkspaceSound(w, f, others, written),
         NEW p, UndoSound(w, p), NEW x \in Var, NEW v
  PROVE  UndoSound(Put(x, v, w), p)
<1> DEFINE r == Put(x, v, w)
<1>1. /\ r.record = w.record /\ r.previous = w.previous
      /\ \A d \in DOMAIN w.heap : (\A y \in DOMAIN w.env : w.env[y] # d) => r.heap[d] = w.heap[d]
      /\ \A y \in DOMAIN r.env : \/ y \in DOMAIN w.env /\ r.env[y] = w.env[y]
                                 \/ r.env[y] \notin DOMAIN w.heap
  BY PutForm
<1> HIDE DEF r
<1>2. ASSUME NEW i \in DOMAIN w.record
      PROVE  /\ \A y \in DOMAIN w.record[i].changes :
                   r.heap[w.record[i].changes[y]] = w.heap[w.record[i].changes[y]]
             /\ NoShare(w.record[i].changes, r.env)
  <2> DEFINE c == w.record[i].changes
  <2>1. \A y \in DOMAIN c : c[y] \in DOMAIN w.heap
    BY SoundParts
  <2>2. \A y \in DOMAIN c, z \in DOMAIN w.env : c[y] # w.env[z]
    BY DEF UndoSound, Apart, NoShare
  <2> HIDE DEF c
  <2>3. \A y \in DOMAIN c : r.heap[c[y]] = w.heap[c[y]]
    BY <1>1, <2>1, <2>2
  <2>4. NoShare(c, r.env)
    BY <1>1, <2>1, <2>2 DEF NoShare
  <2> QED
    BY <2>3, <2>4 DEF c
<1>3. UndoSound(r, p)
  BY <1>1, <1>2, UndoSoundKept
<1> QED
  BY <1>3 DEF r

LEMMA WithoutTells ==
  ASSUME NEW w, NEW f, NEW others, NEW written, WorkspaceSound(w, f, others, written),
         NEW p, UndoSound(w, p), NEW x
  PROVE  UndoSound([w EXCEPT !.env = Without(x, @)], p)
<1> DEFINE r == [w EXCEPT !.env = Without(x, @)]
           e == Without(x, w.env)
<1>1. r = [heap |-> w.heap, env |-> e, record |-> w.record, previous |-> w.previous]
  <2>1. w = [heap |-> w.heap, env |-> w.env, record |-> w.record, previous |-> w.previous]
    BY SoundParts
  <2> QED
    BY <2>1
<1>2. \A y \in DOMAIN e : y \in DOMAIN w.env /\ e[y] = w.env[y]
  BY DEF Without
<1> HIDE DEF e, r
<1>3. r.record = w.record /\ r.previous = w.previous /\ r.heap = w.heap /\ r.env = e
  BY <1>1
<1>4. \A i \in DOMAIN w.record : NoShare(w.record[i].changes, r.env)
  BY <1>2, <1>3 DEF UndoSound, Apart, NoShare
<1>5. UndoSound(r, p)
  BY <1>3, <1>4, UndoSoundKept
<1> QED
  BY <1>5 DEF r

LEMMA UndoInvStep ==
  ASSUME undone' = NoUndo \/ (undone' = undone /\ UndoReturns),
         NEW w, Here' = w, intact' => UndoSound(w, past')
  PROVE  UndoInv'
<1>1. NoUndo.want = NoUndo.got
  BY DEF NoUndo
<1>2. UndoReturns'
  BY <1>1 DEF UndoReturns
<1> QED
  BY <1>2 DEF UndoInv

LEMMA LineTells ==
  ASSUME WorkInv, UndoInv, NEW x \in Var, Line(x)
  PROVE  UndoInv'
<1> DEFINE start == RecordFrame(TRUE, Here)
           put == Put(x, NewValue, start)
           end == RecordFrame(FALSE, put)
           written == wrote \cup {<<Current, x, NewValue.val>>}
           step == [before |-> Visible(Bindings(start.heap, start.env)),
                    after  |-> Visible(Bindings(end.heap, end.env))]
<1>1. /\ Become(end) /\ past' = Append(past, step)
      /\ intact' = (intact /\ RecordsOnce) /\ undone' = NoUndo
  BY DEF Line
<1>2. NewValue \in Value /\ wrote \subseteq written /\ OwnedIn(Current, x, NewValue, written)
  BY NewValueOwned
<1> HIDE DEF written
<1>3. WorkspaceSound(Here, Current, Rest, written) /\ Here.record = frameRecord
  BY <1>2, HereSound DEF Here
<1>4. WorkspaceSound(start, Current, Rest, written)
  BY <1>3, RecordFrameSound
<1>5. intact' => UndoSound(start, past) /\ Alike(Visible(start.previous), SeenIn(start))
  <2> SUFFICES ASSUME intact'
               PROVE  UndoSound(start, past) /\ Alike(Visible(start.previous), SeenIn(start))
    OBVIOUS
  <2>1. UndoSound(Here, past) /\ RecordsOnce
    BY <1>1 DEF UndoInv
  <2>2. Here.record = <<>> \/ ~Head(Here.record).system \/ Delta(Here) = Nothing
    BY <1>3, <2>1 DEF RecordsOnce
  <2> QED
    BY <1>3, <2>1, <2>2, RecordSystemTells
<1>6. SeenIn(start) \in SomeSeen
  BY <1>4, SoundParts
<1>7. step = [before |-> SeenIn(start), after |-> SeenIn(end)]
  BY DEF SeenIn
<1> HIDE DEF start, step
<1>8. WorkspaceSound(put, Current, Rest, written) /\ put.previous = start.previous
  BY <1>2, <1>4, PutSound, PutForm
<1>9. intact' => UndoSound(put, past)
  BY <1>4, <1>5, PutTells
<1> HIDE DEF put
<1>10. SeenIn(end) = SeenIn(put)
  BY <1>8, RecordFrameForm
<1>11. intact' => UndoSound(end, Append(past, [before |-> SeenIn(start), after |-> SeenIn(put)]))
  <2> SUFFICES ASSUME intact'
               PROVE  UndoSound(end, Append(past, [before |-> SeenIn(start), after |-> SeenIn(put)]))
    OBVIOUS
  <2>1. Alike(SeenIn(start), Visible(put.previous))
    BY <1>5, <1>8, LeadsOn
  <2> QED
    BY <1>6, <1>8, <1>9, <2>1, RecordStepTells
<1>12. WorkspaceSound(end, Current, Rest, written)
  BY <1>8, RecordFrameSound
<1> HIDE DEF end
<1>13. Here' = end
  BY <1>1, <1>12, BecomeHere
<1>14. intact' => UndoSound(end, past')
  BY <1>1, <1>7, <1>10, <1>11
<1> QED
  BY <1>1, <1>13, <1>14, UndoInvStep

LEMMA FailedLineTells ==
  ASSUME WorkInv, UndoInv, NEW x \in Var, FailedLine(x)
  PROVE  UndoInv'
<1> DEFINE start == RecordFrame(TRUE, Here)
           put == Put(x, NewValue, start)
           written == wrote \cup {<<Current, x, NewValue.val>>}
<1>1. /\ Become(put) /\ past' = past
      /\ intact' = (intact /\ RecordsOnce) /\ undone' = NoUndo
  BY DEF FailedLine
<1>2. NewValue \in Value /\ wrote \subseteq written /\ OwnedIn(Current, x, NewValue, written)
  BY NewValueOwned
<1> HIDE DEF written
<1>3. WorkspaceSound(Here, Current, Rest, written) /\ Here.record = frameRecord
  BY <1>2, HereSound DEF Here
<1>4. WorkspaceSound(start, Current, Rest, written)
  BY <1>3, RecordFrameSound
<1>5. intact' => UndoSound(start, past)
  <2> SUFFICES ASSUME intact'
               PROVE  UndoSound(start, past)
    OBVIOUS
  <2>1. UndoSound(Here, past) /\ RecordsOnce
    BY <1>1 DEF UndoInv
  <2>2. Here.record = <<>> \/ ~Head(Here.record).system \/ Delta(Here) = Nothing
    BY <1>3, <2>1 DEF RecordsOnce
  <2> QED
    BY <1>3, <2>1, <2>2, RecordSystemTells
<1> HIDE DEF start
<1>6. WorkspaceSound(put, Current, Rest, written)
  BY <1>2, <1>4, PutSound
<1>7. intact' => UndoSound(put, past)
  BY <1>4, <1>5, PutTells
<1> HIDE DEF put
<1>8. Here' = put
  BY <1>1, <1>6, BecomeHere
<1> QED
  BY <1>1, <1>7, <1>8, UndoInvStep

LEMMA ClearPartsTells ==
  ASSUME WorkInv, UndoInv, NEW x \in Var, NEW what, ClearParts(x, what)
  PROVE  UndoInv'
<1>1. undone' = NoUndo /\ past' = past /\ intact' = intact
  BY DEF ClearParts, SameFrame
<1>2. WorkspaceSound(Here, Current, Rest, wrote)
  BY HereSound
<1>3. intact => UndoSound(Here, past)
  BY DEF UndoInv
<1>4. CASE Become(Here)
  <2>1. Here' = Here
    BY <1>2, <1>4, BecomeHere
  <2> QED
    BY <1>1, <1>3, <2>1, UndoInvStep
<1>5. CASE Become(Put(x, Nil, Here))
  <2> DEFINE w == Put(x, Nil, Here)
  <2>1. OwnedIn(Current, x, Nil, wrote) /\ Nil \in Value
    BY NilIsValue DEF OwnedIn
  <2>2. WorkspaceSound(w, Current, Rest, wrote)
    BY <1>2, <2>1, PutSound
  <2>3. intact => UndoSound(w, past)
    BY <1>2, <1>3, PutTells
  <2> HIDE DEF w
  <2>4. Here' = w
    BY <1>5, <2>2, BecomeHere DEF w
  <2> QED
    BY <1>1, <2>3, <2>4, UndoInvStep
<1>6. CASE Become([Here EXCEPT !.env = Without(x, @)])
  <2> DEFINE w == [Here EXCEPT !.env = Without(x, @)]
  <2>1. WorkspaceSound(w, Current, Rest, wrote)
    BY <1>2, WithoutSound
  <2>2. intact => UndoSound(w, past)
    BY <1>2, <1>3, WithoutTells
  <2> HIDE DEF w
  <2>3. Here' = w
    BY <1>6, <2>1, BecomeHere DEF w
  <2> QED
    BY <1>1, <2>2, <2>3, UndoInvStep
<1> QED
  BY <1>4, <1>5, <1>6 DEF ClearParts

LEMMA ImportTells ==
  ASSUME WorkInv, UndoInv, NEW f \in Name, NEW x \in Var, Import(f, x)
  PROVE  UndoInv'
<1> DEFINE out == [Here EXCEPT !.env = Without(x, @)]
<1>1. undone' = NoUndo /\ past' = past /\ intact' = intact
  BY DEF Import
<1>2. PICK i \in Named(f) \ {1} : /\ x \in DOMAIN ring[i].env
                                  /\ Become(Put(x, heap[ring[i].env[x]], out))
  BY DEF Import
<1> DEFINE v == heap[ring[i].env[x]]
           written == wrote \cup {<<Current, x, v.val>>}
           put == Put(x, v, out)
<1>3. v \in Value
  <2>1. ring[i].env \in PairsOf(heap)
    BY RingElems, FrameRecordElim DEF Named
  <2> QED
    BY <1>2, <2>1, EnvElim, HereParts, ElemsOfSeq
<1>4. wrote \subseteq written /\ OwnedIn(Current, x, v, written)
  BY DEF OwnedIn
<1> HIDE DEF v, written
<1>5. WorkspaceSound(Here, Current, Rest, written)
  BY <1>4, HereSound
<1>6. WorkspaceSound(out, Current, Rest, written)
  BY <1>5, WithoutSound
<1>7. intact => UndoSound(out, past)
  BY <1>5, WithoutTells DEF UndoInv
<1> HIDE DEF out
<1>8. WorkspaceSound(put, Current, Rest, written)
  BY <1>3, <1>4, <1>6, PutSound
<1>9. intact => UndoSound(put, past)
  BY <1>6, <1>7, PutTells
<1>10. Become(put)
  BY <1>2 DEF put, v
<1> HIDE DEF put
<1>11. Here' = put
  BY <1>8, <1>10, BecomeHere
<1> QED
  BY <1>1, <1>9, <1>11, UndoInvStep

(* Without a record and without a past there is nothing to tell. *)
LEMMA NothingToTell ==
  ASSUME NEW w, w.record = <<>>, w.previous = Nothing
  PROVE  UndoSound(w, <<>>)
<1> DEFINE pos == [j \in 0 .. 1 |-> IF j = 0 THEN 1 ELSE 0]
<1>1. /\ DOMAIN w.record = {} /\ Len(w.record) = 0 /\ Len(<<>>) = 0
      /\ <<>> \in Seq([before : SomeSeen, after : SomeSeen])
  OBVIOUS
<1>2. pos \in [0 .. 0 + 1 -> Nat] /\ pos[0] = 1 /\ pos[0 + 1] = 0
  OBVIOUS
<1> HIDE DEF pos
<1>3. /\ \A j \in 0 .. 0 : j = 0 /\ pos[j] = pos[j + 1] + 1 /\ pos[j] # pos[j + 1] + 2
      /\ 1 .. 0 = {}
  BY <1>2
<1>4. Laid(pos, w.record, 0)
  BY <1>1, <1>2, <1>3 DEF Laid
<1>5. Visible(w.previous) = Nothing
  <2>1. DOMAIN Nothing = {} /\ Nothing = [x \in {} |-> x]
    BY NothingSeen DEF Nothing
  <2>2. Visible(Nothing) = [x \in {} |-> x]
    BY <2>1 DEF Visible
  <2> QED
    BY <2>1, <2>2
<1>6. Alike(BeforeOf(<<>>, w, 0 + 1), AfterOf(<<>>, 0))
  BY <1>1, <1>5 DEF BeforeOf, AfterOf, Alike
<1>7. Tells(pos, w, <<>>)
  <2>1. ASSUME NEW j \in 0 .. 0
        PROVE  /\ pos[j] = pos[j + 1] + 1 => Alike(BeforeOf(<<>>, w, j + 1), AfterOf(<<>>, j))
               /\ pos[j] # pos[j + 1] + 2
    BY <1>3, <1>6
  <2> QED
    BY <2>1, <1>1, <1>3 DEF Tells
<1>8. Apart(w)
  BY <1>1 DEF Apart
<1> QED
  BY <1>1, <1>4, <1>7, <1>8 DEF UndoSound

LEMMA ClearAllTells ==
  ASSUME WorkInv, UndoInv, ClearAll
  PROVE  UndoInv'
<1> DEFINE w == [heap |-> heap, env |-> Nothing, record |-> <<>>, previous |-> Nothing]
<1>1. Become(w) /\ past' = <<>> /\ undone' = NoUndo
  BY DEF ClearAll
<1>2. w.record = <<>> /\ w.previous = Nothing
  OBVIOUS
<1>3. Here' = w
  BY <1>1 DEF Here, Become
<1> HIDE DEF w
<1>4. UndoSound(w, <<>>)
  BY <1>2, NothingToTell
<1> QED
  BY <1>1, <1>3, <1>4, UndoInvStep

(* )undo: the record is the one from before, and so are the pairs outside the environment. *)
LEMMA UndoLeaves ==
  ASSUME WorkInv, intact, UndoSound(Here, past), NEW m \in Int, NEW when
  PROVE  LET w == UndoSteps(m, when)
         IN  /\ w.record = frameRecord /\ w.previous = Bindings(heap, env)
             /\ \A d \in DOMAIN heap : \/ w.heap[d] = heap[d]
                                       \/ \E x \in DOMAIN w.env : w.env[x] = d
<1> DEFINE start == RecordFrame(FALSE, Here)
           end == Walk(m, start)
           more == when = "before" /\ end.tail \in 1 .. Len(start.record) - 1
           final == IF more THEN UndoSingleStep(start.record[end.tail + 1].changes, end.w) ELSE end.w
           w == UndoSteps(m, when)
<1>1. /\ WorkspaceSound(start, Current, Rest, wrote) /\ RecordSound(start, Current, Rest, wrote)
      /\ Tail(start.record) = frameRecord
      /\ start.previous = Bindings(heap, env)
      /\ \A d \in DOMAIN heap : start.heap[d] = heap[d]
  BY UndoStarts
<1>2. DOMAIN heap \subseteq DOMAIN start.heap /\ commands \in Nat
  BY HereSound, RecordFrameSound
<1>3. w = [final EXCEPT !.record = Tail(start.record)]
  BY DEF UndoSteps
<1> HIDE DEF start, w
<1>4. StopSound(end, start, Current, Rest, wrote) /\ KeepsPairs(end.w, start)
  BY <1>1, <1>2, WalkSound, WalkKeeps
<1> HIDE DEF end
<1>5. /\ WorkspaceSound(end.w, Current, Rest, wrote)
      /\ RecordSound(end.w, Current, Rest, wrote)
      /\ end.w.record = start.record
  BY <1>4 DEF StopSound
<1>6. WorkspaceSound(final, Current, Rest, wrote) /\ KeepsPairs(final, start)
  <2>1. CASE ~ more
    BY <1>4, <1>5, <2>1
  <2>2. CASE more
    <3>1. end.tail + 1 \in DOMAIN end.w.record
      <4>1. DOMAIN start.record = 1 .. Len(start.record) /\ Len(start.record) \in Nat
        BY <1>1, SoundParts
      <4> QED
        BY <4>1, <1>5, <2>2
    <3> DEFINE one == UndoSingleStep(end.w.record[end.tail + 1].changes, end.w)
    <3>2. WorkspaceSound(one, Current, Rest, wrote) /\ KeepsPairs(one, start)
      BY <1>4, <1>5, <3>1, UndoSingleStepSound, KeepsThroughStep
    <3>3. final = one
      BY <1>5, <2>2
    <3> HIDE DEF one, final
    <3> QED
      BY <3>2, <3>3
  <2> QED
    BY <2>1, <2>2
<1> HIDE DEF final
<1>7. final = [heap |-> final.heap, env |-> final.env, record |-> final.record, previous |-> final.previous]
  BY <1>6, SoundParts
<1>8. w.heap = final.heap /\ w.env = final.env /\ w.record = frameRecord /\ w.previous = final.previous
  BY <1>1, <1>3, <1>7
<1>9. /\ w.record = frameRecord /\ w.previous = Bindings(heap, env)
      /\ \A d \in DOMAIN heap : w.heap[d] = heap[d] \/ \E x \in DOMAIN w.env : w.env[x] = d
  BY <1>1, <1>2, <1>6, <1>8 DEF KeepsPairs
<1> QED
  BY <1>9 DEF w

LEMMA UndoTells ==
  ASSUME WorkInv, UndoInv, Careful, NEW n \in UndoArgs, NEW when \in {"before", "after"}, Undo(n, when)
  PROVE  UndoInv'
<1> DEFINE m == UndoCount(n)
           w == UndoSteps(m, when)
<1>1. /\ intact /\ Become(w) /\ past' = past
      /\ when = "before" => EndsAtAStep(m)
      /\ intact' = (intact /\ FlushesNothing /\ SharesNothing(w))
      /\ undone' = IF Designates(n, when)
                   THEN [want |-> Promised(n, when), got |-> Visible(Bindings(w.heap, w.env))]
                   ELSE NoUndo
  BY DEF Undo
<1>2. m \in Int
  BY WorkspaceAssumption DEF WorkInv, UndoCount
<1>3. /\ WorkspaceSound(Here, Current, Rest, wrote)
      /\ RecordSound(Here, Current, Rest, wrote)
      /\ commands \in Nat
      /\ UndoSound(Here, past)
      /\ Here.heap = heap /\ Here.env = env /\ Here.record = frameRecord /\ Here.previous = previousBindings
  BY <1>1, HereSound DEF UndoInv, Here
<1>4. WorkspaceSound(w, Current, Rest, wrote) /\ RecordSound(w, Current, Rest, wrote)
  BY <1>2, <1>3, UndoStepsSound
<1>5. UndoReturns'
  <2>1. CASE Designates(n, when)
    <3>1. Promised(n, when) = Visible(Bindings(w.heap, w.env))
      BY <1>1, <1>3, <2>1, UndoGives
    <3> HIDE DEF w
    <3>2. undone'.want = undone'.got
      BY <1>1, <2>1, <3>1
    <3> QED
      BY <3>2 DEF UndoReturns
  <2>2. CASE ~ Designates(n, when)
    <3>1. undone' = NoUndo
      BY <1>1, <2>2
    <3> QED
      BY <3>1 DEF UndoReturns, NoUndo
  <2> QED
    BY <2>1, <2>2
<1>6. /\ w.record = frameRecord /\ w.previous = Bindings(heap, env)
      /\ \A d \in DOMAIN heap : w.heap[d] = heap[d] \/ \E x \in DOMAIN w.env : w.env[x] = d
  BY <1>1, <1>2, <1>3, UndoLeaves
<1> HIDE DEF w
<1>7. Here' = w
  BY <1>1, <1>4, BecomeHere
<1>8. ASSUME intact'
      PROVE  UndoSound(w, past)
  <2>1. FlushesNothing /\ SharesNothing(w)
    BY <1>1, <1>8
  <2>2. w.previous = previousBindings
    <3>1. Bindings(Here.heap, Here.env) \in SomeBindings /\ Here.previous \in SomeBindings
      BY <1>3, DeltaSound, SoundParts
    <3>2. DiffAlist(Bindings(heap, env), previousBindings) = Nothing
      BY <1>3, <2>1 DEF FlushesNothing, Delta
    <3> QED
      BY <1>3, <1>6, <3>1, <3>2, NoDiff
  <2>3. ASSUME NEW i \in DOMAIN frameRecord
        PROVE  /\ NoShare(frameRecord[i].changes, w.env)
               /\ \A x \in DOMAIN frameRecord[i].changes :
                     w.heap[frameRecord[i].changes[x]] = heap[frameRecord[i].changes[x]]
    <3> DEFINE c == frameRecord[i].changes
    <3>1. SameName(c, w.env)
      BY <1>4, <1>6 DEF RecordSound, ChangesSound
    <3>2. \A x \in DOMAIN w.env : x \in DOMAIN c => c[x] # w.env[x]
      <4>1. frameRecord[i] \in ToSet(w.record)
        BY <1>6 DEF ToSet
      <4> QED
        BY <2>1, <4>1 DEF SharesNothing
    <3>3. \A x \in DOMAIN c : c[x] \in DOMAIN heap
      BY <1>3, SoundParts
    <3> HIDE DEF c
    <3>4. \A x \in DOMAIN c, y \in DOMAIN w.env : c[x] # w.env[y]
      BY <3>1, <3>2 DEF SameName
    <3>5. NoShare(c, w.env)
      BY <3>4 DEF NoShare
    <3>6. \A x \in DOMAIN c : w.heap[c[x]] = heap[c[x]]
      BY <1>6, <3>3, <3>4
    <3> QED
      BY <3>5, <3>6 DEF c
  <2> QED
    BY <1>3, <1>6, <2>2, <2>3, UndoSoundKept
<1>9. intact' => UndoSound(Here', past')
  BY <1>1, <1>7, <1>8
<1> QED
  BY <1>5, <1>9 DEF UndoInv

(* Going to the frame one is in leaves everything as it is. *)
LEMMA GoToTells ==
  ASSUME WorkInv, UndoInv, NEW r, GoTo(r), r[1].name = Current => r[1].env = env
  PROVE  UndoInv'
<1>1. /\ env' = r[1].env /\ heap' = heap /\ frameRecord' = frameRecord
      /\ previousBindings' = previousBindings
      /\ IF r[1].name = Current THEN SameFrame ELSE SwitchFrame
  BY DEF GoTo, Load
<1>2. CASE r[1].name = Current
  <2>1. undone' = NoUndo /\ past' = past /\ intact' = intact
    BY <1>1, <1>2 DEF SameFrame
  <2>2. Here' = Here
    BY <1>1, <1>2 DEF Here
  <2>3. intact' => UndoSound(Here, past')
    BY <2>1 DEF UndoInv
  <2> QED
    BY <2>1, <2>2, <2>3, UndoInvStep
<1>3. CASE r[1].name # Current
  <2>1. undone' = NoUndo /\ intact' = FALSE
    BY <1>1, <1>3 DEF SwitchFrame
  <2> QED
    BY <2>1, UndoInvStep
<1> QED
  BY <1>2, <1>3

(* A frame of the ring with the name of the current one is the current one. *)
LEMMA FrontIsCurrent ==
  ASSUME WorkInv, NEW r, NEW k \in DOMAIN Frames, r[1] = Frames[k]
  PROVE  r[1].name = Current => r[1].env = env
<1>1. /\ Frames[1] = [name |-> Current, env |-> env, IOindex |-> IOindex]
      /\ NamesOnce(Frames) /\ 1 \in DOMAIN Frames
  BY StoredFrames, RingElems
<1>2. Frames[1].name = Current /\ Frames[1].env = env
  BY <1>1
<1> QED
  BY <1>1, <1>2 DEF NamesOnce

LEMMA FramesTell ==
  ASSUME WorkInv, UndoInv, Careful,
         \/ NextFrame \/ LastFrame
         \/ \E f \in Name : NewFrame(f) \/ NewFrameRefused(f) \/ ChangeToFrame(f) \/ DropFrame(f)
  PROVE  UndoInv'
<1>1. /\ Frames \in Seq(FrameRecords(heap)) /\ Len(Frames) > 0 /\ 1 \in DOMAIN Frames
      /\ DOMAIN Frames = DOMAIN ring /\ DOMAIN Frames = 1 .. Len(Frames)
  BY StoredFrames, RingElems
<1>2. ASSUME NEW r, Rearranged(r, Frames, 0), GoTo(r), 1 \in DOMAIN r
      PROVE  UndoInv'
  <2>1. \E k \in DOMAIN Frames : r[1] = Frames[k]
    BY <1>2 DEF Rearranged
  <2> QED
    BY <1>2, <2>1, FrontIsCurrent, GoToTells
<1>3. CASE NextFrame
  <2> DEFINE r == Tail(Frames) \o <<Head(Frames)>>
  <2>1. GoTo(r)
    BY <1>3 DEF NextFrame, Frames
  <2>2. r \in Seq(FrameRecords(heap)) /\ Len(r) > 0 /\ Rearranged(r, Frames, 0)
    BY <1>1, RotateRearranges
  <2> HIDE DEF r
  <2>3. 1 \in DOMAIN r
    BY <2>2, ElemsOfSeq
  <2> QED
    BY <2>1, <2>2, <2>3, <1>2
<1>4. CASE LastFrame
  <2> DEFINE r == <<Last(Frames)>> \o Front(Frames)
  <2>1. GoTo(r)
    BY <1>4 DEF LastFrame, Frames
  <2>2. r \in Seq(FrameRecords(heap)) /\ Len(r) > 0 /\ Rearranged(r, Frames, 0)
    BY <1>1, LastFirstRearranges
  <2> HIDE DEF r
  <2>3. 1 \in DOMAIN r
    BY <2>2, ElemsOfSeq
  <2> QED
    BY <2>1, <2>2, <2>3, <1>2
<1>5. ASSUME NEW f \in Name, NewFrame(f)
      PROVE  UndoInv'
  <2> DEFINE new == EmptyInterpreterFrame(f)
             r == <<new>> \o Frames
  <2>1. Named(f) = {} /\ GoTo(r)
    BY <1>5 DEF NewFrame, Frames
  <2>2. new.name = f
    BY DEF EmptyInterpreterFrame
  <2> HIDE DEF new
  <2>3. r[1] = new
    BY <1>1
  <2>4. f # Current
    BY <1>1, <2>1 DEF Named, Current
  <2> HIDE DEF r
  <2>5. r[1].name # Current
    BY <2>2, <2>3, <2>4
  <2> QED
    BY <2>1, <2>5, GoToTells
<1>6. ASSUME NEW f \in Name, NewFrameRefused(f)
      PROVE  UndoInv'
  <2>1. GoTo(Frames)
    BY <1>6 DEF NewFrameRefused, Frames
  <2> QED
    BY <2>1, <1>1, FrontIsCurrent, GoToTells
<1>7. ASSUME NEW f \in Name, ChangeToFrame(f)
      PROVE  UndoInv'
  <2> DEFINE i == CHOOSE k \in Named(f) : TRUE
             r == <<Frames[i]>> \o RemoveAt(Frames, i)
  <2>1. Named(f) # {} /\ GoTo(r)
    BY <1>7 DEF ChangeToFrame, Frames
  <2>2. i \in DOMAIN Frames
    BY <2>1, <1>1 DEF Named
  <2> HIDE DEF i
  <2>3. r \in Seq(FrameRecords(heap)) /\ Len(r) > 0 /\ Rearranged(r, Frames, 0)
    BY <1>1, <2>2, FrontedRearranges
  <2> HIDE DEF r
  <2>4. 1 \in DOMAIN r
    BY <2>3, ElemsOfSeq
  <2> QED
    BY <2>1, <2>3, <2>4, <1>2
<1>8. ASSUME NEW f \in Name, DropFrame(f)
      PROVE  UndoInv'
  <2> DEFINE i == CHOOSE k \in Named(f) : TRUE
             r == RemoveAt(ring, i)
  <2>1. Len(ring) > 1 /\ Named(f) # {} /\ headIsEnv /\ GoTo(r)
    BY <1>8 DEF DropFrame
  <2>2. i \in DOMAIN ring
    BY <2>1 DEF Named
  <2> HIDE DEF i
  <2>3. /\ ring \in Seq(FrameRecords(heap)) /\ NamesOnce(ring) /\ ring[1].env = env
    BY <2>1 DEF WorkInv
  <2>4. Rearranged(r, ring, i) /\ r \in Seq(FrameRecords(heap))
    BY <2>2, <2>3, RemovedRearranges
  <2>5. Len(r) = Len(ring) - 1
    BY <2>2, <2>3, RemoveAtElems
  <2> HIDE DEF r
  <2>6. 1 \in DOMAIN r /\ 1 \in DOMAIN ring
    BY <2>1, <2>4, <2>5, RingElems, ElemsOfSeq
  <2>7. PICK k \in DOMAIN ring : r[1] = ring[k]
    BY <2>4, <2>6 DEF Rearranged
  <2>8. r[1].name = Current => r[1].env = env
    BY <2>3, <2>6, <2>7 DEF NamesOnce, Current
  <2> QED
    BY <2>1, <2>8, GoToTells
<1> QED
  BY <1>3, <1>4, <1>5, <1>6, <1>7, <1>8

-----------------------------------------------------------------------------
LEMMA UndoInit == Init => UndoInv
<1> SUFFICES ASSUME Init
             PROVE  UndoInv
  OBVIOUS
<1>1. UndoReturns
  BY DEF Init, UndoReturns, NoUndo
<1>2. Here.record = <<>> /\ Here.previous = Nothing /\ past = <<>>
  BY DEF Init, Here
<1>3. UndoSound(Here, past)
  BY <1>2, NothingToTell
<1> QED
  BY <1>1, <1>3 DEF UndoInv

LEMMA UndoNext ==
  ASSUME WorkInv, UndoInv, Careful, Next
  PROVE  UndoInv'
<1>1. ASSUME NEW x \in Var, Line(x) \/ FailedLine(x)
      PROVE  UndoInv'
  BY <1>1, LineTells, FailedLineTells
<1>2. ASSUME NEW x \in Var, NEW what, ClearParts(x, what)
      PROVE  UndoInv'
  BY <1>2, ClearPartsTells
<1>3. ASSUME ClearAll
      PROVE  UndoInv'
  BY <1>3, ClearAllTells
<1>4. ASSUME NEW n \in UndoArgs, NEW when \in {"before", "after"}, Undo(n, when)
      PROVE  UndoInv'
  BY <1>4, UndoTells
<1>5. ASSUME NEW f \in Name, NEW x \in Var, Import(f, x)
      PROVE  UndoInv'
  BY <1>5, ImportTells
<1>6. ASSUME \/ NextFrame \/ LastFrame
             \/ \E f \in Name : NewFrame(f) \/ NewFrameRefused(f) \/ ChangeToFrame(f) \/ DropFrame(f)
      PROVE  UndoInv'
  BY <1>6, FramesTell
<1> QED
  BY <1>1, <1>2, <1>3, <1>4, <1>5, <1>6 DEF Next

LEMMA UndoStutter ==
  ASSUME UndoInv, UNCHANGED vars
  PROVE  UndoInv'
<1>1. /\ heap' = heap /\ env' = env /\ frameRecord' = frameRecord
      /\ previousBindings' = previousBindings
      /\ past' = past /\ intact' = intact /\ undone' = undone
  BY DEF vars
<1>2. Here' = Here
  BY <1>1 DEF Here
<1> QED
  BY <1>1, <1>2, UndoInvStep DEF UndoInv

(***************************************************************************)
(* )undo n gives back what the frame held right after step n, or with      *)
(* )before right before it, for any number of names, frames, lines and     *)
(* commands: undoSteps walks the record of changes that recordFrame keeps, *)
(* whatever failing lines, )clear and earlier )undo came in between.       *)
(***************************************************************************)
THEOREM UndoGivesBack == Careful => (Spec => []UndoReturns)
<1> SUFFICES ASSUME Careful
             PROVE  Spec => []UndoReturns
  OBVIOUS
<1>1. Init => UndoInv
  BY UndoInit
<1>2. WorkInv /\ UndoInv /\ [Next]_vars => UndoInv'
  BY UndoNext, UndoStutter
<1>3. UndoInv => UndoReturns
  BY DEF UndoInv
<1>4. Spec => []WorkInv
  BY WorkInvariant
<1> QED
  BY <1>1, <1>2, <1>3, <1>4, PTL DEF Spec
=============================================================================
