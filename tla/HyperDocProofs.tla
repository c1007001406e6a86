----------------------------- MODULE HyperDocProofs -----------------------------
(***************************************************************************)
(* Proofs about HyperDoc.                                                  *)
(*                                                                         *)
(* The windows: a page of Lisp is remembered in one place of one window's  *)
(* way back, and the memolinks note tops that the downlinks have not       *)
(* fallen below; so Up and Return pop exactly what they do not kill        *)
(* (PagesInv).  The commands: a mark stands for a line the window's buffer *)
(* has got, and a call that waits has passed only marked commands, but for *)
(* the one being sent for it (CallsInv).  Both are kept by every step of   *)
(* the careful specification.                                              *)
(***************************************************************************)
EXTENDS HyperDoc, WellFoundedInduction, TLAPS

(* The pages the record r can show again, behind the one it shows. *)
Behind(r) == {r.memo[i].page : i \in DOMAIN r.memo} \cup {r.down[i] : i \in DOMAIN r.down}

(* The pages of Lisp it holds. *)
HeldPages(r) == ({r.page} \cup Behind(r)) \cap LispPages

(* A page of Lisp is remembered once. *)
RememberedOnce(r) ==
  /\ \A i \in DOMAIN r.memo, j \in DOMAIN r.down : r.memo[i].page \in LispPages => r.memo[i].page # r.down[j]
  /\ \A i, j \in DOMAIN r.memo : r.memo[i].page \in LispPages /\ r.memo[i].page = r.memo[j].page => i = j
  /\ \A i, j \in DOMAIN r.down : r.down[i] \in LispPages /\ r.down[i] = r.down[j] => i = j

(* No memolink was left with fewer downlinks than it had when it was made. *)
TopsSound(r) ==
  /\ \A i \in DOMAIN r.memo : r.memo[i].top <= Len(r.down)
  /\ \A i, j \in DOMAIN r.memo : i <= j => r.memo[i].top <= r.memo[j].top

(* The way back of the record r. *)
WaySound(r) ==
  /\ r \in WindowType
  /\ Len(r.memo) <= MaxMemoDepth /\ Len(r.down) <= MaxDownlinkDepth
  /\ r.down \in Seq(Pages)
  /\ TopsSound(r)
  /\ RememberedOnce(r)

(* The page shown, and links that are those of the page or not there yet. *)
WindowSound(r) ==
  /\ WaySound(r)
  /\ r.page \in Pages /\ r.links \in {r.page, NoPage}
  /\ r.page \notin Behind(r) \cap LispPages

Known == {p \in LispPages : lisp[p] = "known"}

PagesInv ==
  /\ window \in [Windows -> WindowType]
  /\ lisp \in [LispPages -> {"new", "known", "destroyed"}] /\ lost \subseteq LispPages
  /\ \A w \in Windows \ Open : HeldPages(window[w]) = {}
  /\ \A w \in Open : WindowSound(window[w])
  /\ \A w \in Windows : HeldPages(window[w]) \subseteq window[w].table \cap Known
  /\ \A v, w \in Windows : v # w => HeldPages(window[v]) \cap HeldPages(window[w]) = {}
  /\ Known \subseteq lost \cup UNION {HeldPages(window[w]) : w \in Windows}

-----------------------------------------------------------------------------
LEMMA ElemsOfSeq ==
  ASSUME NEW S, NEW s \in Seq(S)
  PROVE  DOMAIN s = 1 .. Len(s) /\ Len(s) \in Nat /\ \A i \in DOMAIN s : s[i] \in S
OBVIOUS

LEMMA AppendElems ==
  ASSUME NEW S, NEW s \in Seq(S), NEW x \in S
  PROVE  /\ Append(s, x) \in Seq(S) /\ Len(Append(s, x)) = Len(s) + 1
         /\ DOMAIN Append(s, x) = 1 .. Len(s) + 1 /\ DOMAIN s = 1 .. Len(s) /\ Len(s) \in Nat
         /\ \A i \in DOMAIN s : i \in DOMAIN Append(s, x) /\ Append(s, x)[i] = s[i]
         /\ Append(s, x)[Len(s) + 1] = x
         /\ \A i \in DOMAIN Append(s, x) : i \in DOMAIN s \/ i = Len(s) + 1
OBVIOUS

LEMMA FrontElems ==
  ASSUME NEW S, NEW s \in Seq(S), s # <<>>
  PROVE  /\ Front(s) \in Seq(S) /\ Len(Front(s)) = Len(s) - 1
         /\ DOMAIN Front(s) = 1 .. Len(s) - 1 /\ DOMAIN s = 1 .. Len(s) /\ Len(s) \in Nat /\ Len(s) > 0
         /\ \A i \in DOMAIN Front(s) : i \in DOMAIN s /\ Front(s)[i] = s[i] /\ i < Len(s)
         /\ Last(s) = s[Len(s)] /\ Last(s) \in S /\ Len(s) \in DOMAIN s
         /\ \A i \in DOMAIN s : i \in DOMAIN Front(s) \/ i = Len(s)
<1>1. DOMAIN s = 1 .. Len(s) /\ Len(s) \in Nat /\ \A i \in DOMAIN s : s[i] \in S
  BY ElemsOfSeq
<1>2. Len(s) > 0
  BY <1>1
<1>3. Last(s) = s[Len(s)] /\ Len(s) \in DOMAIN s
  BY <1>1, <1>2 DEF Last
<1>4. /\ Front(s) \in Seq(S) /\ Len(Front(s)) = Len(s) - 1
      /\ \A i \in 1 .. Len(s) - 1 : Front(s)[i] = s[i]
  BY <1>1, <1>2 DEF Front
<1>5. DOMAIN Front(s) = 1 .. Len(s) - 1
  BY <1>4
<1> QED
  BY <1>1, <1>2, <1>3, <1>4, <1>5

(* The parts of a record that are used by name. *)
LEMMA WindowParts ==
  ASSUME NEW r \in WindowType
  PROVE  /\ r.memo \in Seq([page : Pages, top : 0 .. MaxDownlinkDepth])
         /\ r.down \in Seq(Pages \cup {Stale}) /\ r.table \in SUBSET LispPages
         /\ r.page \in Shows /\ r.links \in Shows
         /\ r.status \in {"closed", "unmapped", "mapped"}
         /\ r.sock \in Buffers \cup {NoSock} /\ r.marks \in SUBSET Commands
         /\ DOMAIN r.memo = 1 .. Len(r.memo) /\ Len(r.memo) \in Nat
         /\ \A i \in DOMAIN r.memo : r.memo[i].page \in Pages /\ r.memo[i].top \in 0 .. MaxDownlinkDepth
<1>1. /\ r.memo \in Seq([page : Pages, top : 0 .. MaxDownlinkDepth])
      /\ r.down \in Seq(Pages \cup {Stale}) /\ r.table \in SUBSET LispPages
      /\ r.page \in Shows /\ r.links \in Shows
      /\ r.status \in {"closed", "unmapped", "mapped"}
      /\ r.sock \in Buffers \cup {NoSock} /\ r.marks \in SUBSET Commands
  BY DEF WindowType
<1> DEFINE m == r.memo
<1>2. m \in Seq([page : Pages, top : 0 .. MaxDownlinkDepth])
  BY <1>1
<1> HIDE DEF m
<1>3. /\ DOMAIN m = 1 .. Len(m) /\ Len(m) \in Nat
      /\ \A i \in DOMAIN m : m[i] \in [page : Pages, top : 0 .. MaxDownlinkDepth]
  BY <1>2, ElemsOfSeq
<1>4. \A i \in DOMAIN m : m[i].page \in Pages /\ m[i].top \in 0 .. MaxDownlinkDepth
  BY <1>3
<1> QED
  BY <1>1, <1>3, <1>4 DEF m

LEMMA FormattedIsPage ==
  ASSUME NEW q \in Pages
  PROVE  /\ Formatted(q) \in Pages
         /\ Formatted(q) \in LispPages <=> q \in LispPages
         /\ q \in LispPages => Formatted(q) = q
BY HyperDocAssumption DEF Formatted, Pages

(* display_page changes what is shown and nothing behind it. *)
LEMMA DisplayShows ==
  ASSUME NEW r \in WindowType, NEW q \in Pages
  PROVE  LET d == display_page(r, q)
         IN  /\ d \in WindowType
             /\ d.page = Formatted(q) /\ d.links = Formatted(q)
             /\ d.memo = r.memo /\ d.down = r.down /\ d.table = r.table
             /\ d.status = r.status /\ d.sock = r.sock /\ d.marks = r.marks
<1>1. Formatted(q) \in Shows
  BY FormattedIsPage DEF Shows
<1> QED
  BY <1>1 DEF display_page, WindowType

LEMMA SameWay ==
  ASSUME NEW r, NEW d \in WindowType, WaySound(r), d.memo = r.memo, d.down = r.down
  PROVE  WaySound(d) /\ Behind(d) = Behind(r)
BY DEF WaySound, Behind, TopsSound, RememberedOnce

(* downlink puts the page shown behind the next one, if there is room. *)
LEMMA DownlinkWay ==
  ASSUME NEW r, WindowSound(r)
  PROVE  LET d == downlink(r)
         IN  /\ WaySound(d)
             /\ d.page = r.page /\ d.links = r.links /\ d.table = r.table
             /\ d.status = r.status /\ d.sock = r.sock /\ d.marks = r.marks
             /\ Behind(d) = IF DownFull(r) THEN Behind(r) ELSE Behind(r) \cup {r.page}
<1>1. r \in WindowType /\ r.down \in Seq(Pages) /\ r.page \in Pages /\ WaySound(r)
  BY DEF WindowSound, WaySound
<1>2. CASE DownFull(r)
  BY <1>1, <1>2 DEF downlink
<1>3. CASE ~DownFull(r)
  <2> DEFINE s == r.down
             t == Append(s, r.page)
             d == [r EXCEPT !.down = t]
  <2>1. /\ t \in Seq(Pages) /\ Len(t) = Len(s) + 1 /\ DOMAIN t = 1 .. Len(s) + 1
        /\ DOMAIN s = 1 .. Len(s) /\ Len(s) \in Nat
        /\ \A i \in DOMAIN s : i \in DOMAIN t /\ t[i] = s[i]
        /\ t[Len(s) + 1] = r.page
        /\ \A i \in DOMAIN t : i \in DOMAIN s \/ i = Len(s) + 1
    BY <1>1, AppendElems
  <2> HIDE DEF t
  <2>2. t \in Seq(Pages \cup {Stale})
    BY <2>1
  <2>3. /\ d \in WindowType
        /\ d.page = r.page /\ d.links = r.links /\ d.table = r.table /\ d.memo = r.memo
        /\ d.status = r.status /\ d.sock = r.sock /\ d.marks = r.marks /\ d.down = t
    BY <1>1, <2>2 DEF WindowType
  <2> HIDE DEF d
  <2>4. Behind(d) = Behind(r) \cup {r.page}
    <3>1. {t[i] : i \in DOMAIN t} = {s[i] : i \in DOMAIN s} \cup {r.page}
      BY <2>1
    <3> QED
      BY <3>1, <2>3 DEF Behind
  <2>5. TopsSound(d)
    BY <1>1, <2>1, <2>3, WindowParts DEF WaySound, TopsSound
  <2>6. RememberedOnce(d)
    <3>1. RememberedOnce(r) /\ r.page \notin Behind(r) \cap LispPages
      BY <1>1 DEF WaySound, WindowSound
    <3>2. /\ \A i \in DOMAIN r.memo : r.memo[i].page \in LispPages => r.memo[i].page # r.page
          /\ \A i \in DOMAIN s : s[i] \in LispPages => s[i] # r.page
      BY <3>1 DEF Behind
    <3>3. \A i \in DOMAIN d.memo, j \in DOMAIN d.down : d.memo[i].page \in LispPages => d.memo[i].page # d.down[j]
      BY <3>1, <3>2, <2>1, <2>3 DEF RememberedOnce
    <3>4. \A i, j \in DOMAIN d.down : d.down[i] \in LispPages /\ d.down[i] = d.down[j] => i = j
      BY <3>1, <3>2, <2>1, <2>3 DEF RememberedOnce
    <3>5. \A i, j \in DOMAIN d.memo : d.memo[i].page \in LispPages /\ d.memo[i].page = d.memo[j].page => i = j
      BY <3>1, <2>3 DEF RememberedOnce
    <3> QED
      BY <3>3, <3>4, <3>5 DEF RememberedOnce
  <2>7. Len(t) <= MaxDownlinkDepth
    BY <1>1, <1>3, <2>1, HyperDocAssumption DEF DownFull, WaySound
  <2>8. WaySound(d)
    BY <1>1, <2>1, <2>3, <2>5, <2>6, <2>7 DEF WaySound
  <2>9. downlink(r) = d
    BY <1>3 DEF downlink, d, t
  <2> QED
    BY <1>3, <2>3, <2>4, <2>8, <2>9
<1> QED
  BY <1>2, <1>3

(* memolink does the same, and notes how many downlinks there are. *)
LEMMA MemolinkWay ==
  ASSUME NEW r, WindowSound(r)
  PROVE  LET d == memolink(r)
         IN  /\ WaySound(d)
             /\ d.page = r.page /\ d.links = r.links /\ d.table = r.table
             /\ d.status = r.status /\ d.sock = r.sock /\ d.marks = r.marks
             /\ Behind(d) = IF MemoFull(r) THEN Behind(r) ELSE Behind(r) \cup {r.page}
<1>1. r \in WindowType /\ r.down \in Seq(Pages) /\ r.page \in Pages /\ WaySound(r)
  BY DEF WindowSound, WaySound
<1>2. CASE MemoFull(r)
  BY <1>1, <1>2 DEF memolink
<1>3. CASE ~MemoFull(r)
  <2> DEFINE S == [page : Pages, top : 0 .. MaxDownlinkDepth]
             x == [page |-> r.page, top |-> Len(r.down)]
             s == r.memo
             t == Append(s, x)
             d == [r EXCEPT !.memo = t]
  <2>1. x \in S
    <3>1. Len(r.down) \in 0 .. MaxDownlinkDepth
      BY <1>1, HyperDocAssumption DEF WaySound
    <3> QED
      BY <3>1, <1>1
  <2>2. s \in Seq(S)
    BY <1>1, WindowParts
  <2>3. /\ t \in Seq(S) /\ Len(t) = Len(s) + 1 /\ DOMAIN t = 1 .. Len(s) + 1
        /\ DOMAIN s = 1 .. Len(s) /\ Len(s) \in Nat
        /\ \A i \in DOMAIN s : i \in DOMAIN t /\ t[i] = s[i]
        /\ t[Len(s) + 1] = x
        /\ \A i \in DOMAIN t : i \in DOMAIN s \/ i = Len(s) + 1
    <3> HIDE DEF S, x
    <3> QED
      BY <2>1, <2>2, AppendElems
  <2> HIDE DEF t
  <2>4. /\ d \in WindowType
        /\ d.page = r.page /\ d.links = r.links /\ d.table = r.table /\ d.memo = t
        /\ d.status = r.status /\ d.sock = r.sock /\ d.marks = r.marks /\ d.down = r.down
    BY <1>1, <2>3 DEF WindowType
  <2> HIDE DEF d
  <2>5. x.page = r.page /\ x.top = Len(r.down)
    OBVIOUS
  <2> HIDE DEF x
  <2>6. Behind(d) = Behind(r) \cup {r.page}
    <3>1. {t[i].page : i \in DOMAIN t} = {s[i].page : i \in DOMAIN s} \cup {r.page}
      BY <2>3, <2>5
    <3> QED
      BY <3>1, <2>4 DEF Behind
  <2>7. TopsSound(d)
    <3>1. TopsSound(r)
      BY <1>1 DEF WaySound
    <3>2. Len(r.down) \in Nat /\ \A i \in DOMAIN s : s[i].top \in Nat
      BY <1>1, WindowParts
    <3>3. \A i \in DOMAIN t : t[i].top <= Len(r.down)
      BY <3>1, <3>2, <2>3, <2>5 DEF TopsSound
    <3>4. ASSUME NEW i \in DOMAIN t, NEW j \in DOMAIN t, i <= j
          PROVE  t[i].top <= t[j].top
      <4>1. CASE j = Len(s) + 1
        BY <4>1, <3>3, <2>3, <2>5
      <4>2. CASE j # Len(s) + 1
        <5>1. i \in DOMAIN s /\ j \in DOMAIN s
          BY <4>2, <3>4, <2>3
        <5> QED
          BY <5>1, <3>1, <3>4, <2>3 DEF TopsSound
      <4> QED
        BY <4>1, <4>2
    <3> QED
      BY <3>3, <3>4, <2>4 DEF TopsSound
  <2>8. RememberedOnce(d)
    <3>1. RememberedOnce(r) /\ r.page \notin Behind(r) \cap LispPages
      BY <1>1 DEF WaySound, WindowSound
    <3>2. /\ \A i \in DOMAIN s : s[i].page \in LispPages => s[i].page # r.page
          /\ \A i \in DOMAIN r.down : r.down[i] \in LispPages => r.down[i] # r.page
      BY <3>1 DEF Behind
    <3>3. \A i \in DOMAIN t, j \in DOMAIN r.down : t[i].page \in LispPages => t[i].page # r.down[j]
      BY <3>1, <3>2, <2>3, <2>5 DEF RememberedOnce
    <3>4. \A i, j \in DOMAIN t : t[i].page \in LispPages /\ t[i].page = t[j].page => i = j
      BY <3>1, <3>2, <2>3, <2>5 DEF RememberedOnce
    <3> QED
      BY <3>1, <3>3, <3>4, <2>4 DEF RememberedOnce
  <2>9. Len(t) <= MaxMemoDepth
    BY <1>1, <1>3, <2>3, HyperDocAssumption DEF MemoFull, WaySound
  <2>10. WaySound(d)
    BY <1>1, <2>4, <2>7, <2>8, <2>9 DEF WaySound
  <2>11. memolink(r) = d
    BY <1>3 DEF memolink, d, t, x
  <2> QED
    BY <1>3, <2>4, <2>6, <2>10, <2>11
<1> QED
  BY <1>2, <1>3

-----------------------------------------------------------------------------
(***************************************************************************)
(* Going back.  What is shown then was behind, the pages killed are the    *)
(* page left and those between, and nothing else is gone.                  *)
(***************************************************************************)
GoesBack(r, kind) ==
  /\ kind \in {"up", "return"} /\ ~NoWayBack(r, kind)
  /\ kind = "up" /\ r.memo # <<>> /\ r.down # <<>> => Len(r.down) > Last(r.memo).top

(* What an Up or a Return makes of the record r. *)
WentBack(r, kind) ==
  LET d == Popped(r, kind)
      q == PoppedPage(r, kind)
  IN  /\ WaySound(d) /\ q \in Pages
      /\ d.table = r.table /\ d.status = r.status /\ d.sock = r.sock /\ d.marks = r.marks
      /\ q \notin Behind(d) \cap LispPages
      /\ r.page \in Killed(r, kind) /\ Killed(r, kind) \subseteq {r.page} \cup Behind(r)
      /\ (Behind(d) \cup {q}) \cap Killed(r, kind) \cap LispPages = {}
      /\ Behind(d) \cup {q} \subseteq Behind(r)
      /\ Behind(r) \subseteq Behind(d) \cup {q} \cup Killed(r, kind)

(* Up to the last page of the downlink stack. *)
LEMMA UpWay ==
  ASSUME NEW r, WindowSound(r), r.down # <<>>, r.memo # <<>> => Len(r.down) > Last(r.memo).top
  PROVE  WentBack(r, "up")
<1>1. r \in WindowType /\ r.down \in Seq(Pages) /\ r.page \in Pages /\ WaySound(r)
  BY DEF WindowSound, WaySound
<1> DEFINE s == r.down
           t == Front(s)
           d == [r EXCEPT !.down = t]
           q == Last(s)
<1>2. /\ t \in Seq(Pages) /\ Len(t) = Len(s) - 1
      /\ DOMAIN t = 1 .. Len(s) - 1 /\ DOMAIN s = 1 .. Len(s) /\ Len(s) \in Nat /\ Len(s) > 0
      /\ \A i \in DOMAIN t : i \in DOMAIN s /\ t[i] = s[i] /\ i < Len(s)
      /\ q = s[Len(s)] /\ q \in Pages /\ Len(s) \in DOMAIN s
      /\ \A i \in DOMAIN s : i \in DOMAIN t \/ i = Len(s)
  BY <1>1, FrontElems
<1> HIDE DEF t, q
<1>3. t \in Seq(Pages \cup {Stale})
  BY <1>2
<1>4. /\ d \in WindowType
      /\ d.page = r.page /\ d.links = r.links /\ d.table = r.table /\ d.memo = r.memo
      /\ d.status = r.status /\ d.sock = r.sock /\ d.marks = r.marks /\ d.down = t
  BY <1>1, <1>3 DEF WindowType
<1> HIDE DEF d
<1>5. /\ Popped(r, "up") = d /\ PoppedPage(r, "up") = q /\ Killed(r, "up") = {r.page}
  BY DEF Popped, PoppedPage, Killed, ByReturn, d, t, q
<1>6. /\ r.page \notin Behind(r) \cap LispPages /\ RememberedOnce(r) /\ TopsSound(r)
      /\ Len(s) <= MaxDownlinkDepth
  BY <1>1 DEF WindowSound, WaySound
<1>7. Behind(r) = Behind(d) \cup {q} /\ Behind(d) \cup {q} \subseteq Behind(r)
  <2>1. {s[i] : i \in DOMAIN s} = {t[i] : i \in DOMAIN t} \cup {q}
    BY <1>2
  <2> QED
    BY <2>1, <1>4 DEF Behind
<1>8. q \notin Behind(d) \cap LispPages
  <2>1. \A i \in DOMAIN t : s[i] = q /\ q \in LispPages => i = Len(s)
    BY <1>2, <1>6 DEF RememberedOnce
  <2>2. \A i \in DOMAIN t : t[i] \in LispPages => t[i] # q
    BY <2>1, <1>2
  <2>3. \A i \in DOMAIN r.memo : r.memo[i].page \in LispPages => r.memo[i].page # q
    BY <1>2, <1>6 DEF RememberedOnce
  <2> QED
    BY <2>2, <2>3, <1>4 DEF Behind
<1>9. TopsSound(d)
  <2>1. ASSUME NEW i \in DOMAIN r.memo
        PROVE  r.memo[i].top <= Len(t)
    <3>1. /\ DOMAIN r.memo = 1 .. Len(r.memo) /\ Len(r.memo) \in Nat
          /\ \A k \in DOMAIN r.memo : r.memo[k].top \in Nat
      BY <1>1, WindowParts
    <3>2. r.memo # <<>> /\ Len(r.memo) \in DOMAIN r.memo /\ i <= Len(r.memo)
      BY <2>1, <3>1
    <3>3. r.memo[Len(r.memo)].top < Len(s)
      BY <3>1, <3>2, <1>2 DEF Last
    <3>4. r.memo[i].top <= r.memo[Len(r.memo)].top
      BY <3>2, <1>6 DEF TopsSound
    <3> QED
      BY <3>1, <3>2, <3>3, <3>4, <1>2
  <2> QED
    BY <2>1, <1>4, <1>6 DEF TopsSound
<1>10. RememberedOnce(d)
  BY <1>2, <1>4, <1>6 DEF RememberedOnce
<1>11. WaySound(d)
  <2>1. Len(t) <= MaxDownlinkDepth
    BY <1>2, <1>6, HyperDocAssumption
  <2> QED
    BY <2>1, <1>1, <1>2, <1>4, <1>9, <1>10 DEF WaySound
<1>12. (Behind(d) \cup {q}) \cap {r.page} \cap LispPages = {}
  BY <1>6, <1>7
<1> QED
  BY <1>2, <1>4, <1>5, <1>7, <1>8, <1>11, <1>12 DEF WentBack

(* Back to the page with the last memolink. *)
LEMMA ReturnWay ==
  ASSUME NEW r, WindowSound(r), NEW kind, ByReturn(r, kind), r.memo # <<>>
  PROVE  WentBack(r, kind)
<1>1. r \in WindowType /\ r.down \in Seq(Pages) /\ r.page \in Pages /\ WaySound(r)
  BY DEF WindowSound, WaySound
<1> DEFINE s == r.memo
           t == Front(s)
           n == Last(s).top
           q == Last(s).page
           S == [page : Pages, top : 0 .. MaxDownlinkDepth]
           e == r.down
           f == [i \in 1 .. n |-> IF i <= Len(e) THEN e[i] ELSE Stale]
           d == [r EXCEPT !.down = f, !.memo = t]
<1>2. s \in Seq(S) /\ DOMAIN e = 1 .. Len(e) /\ Len(e) \in Nat /\ \A i \in DOMAIN e : e[i] \in Pages
  BY <1>1, WindowParts, ElemsOfSeq
<1>3. /\ t \in Seq(S) /\ Len(t) = Len(s) - 1
      /\ DOMAIN t = 1 .. Len(s) - 1 /\ DOMAIN s = 1 .. Len(s) /\ Len(s) \in Nat /\ Len(s) > 0
      /\ \A i \in DOMAIN t : i \in DOMAIN s /\ t[i] = s[i] /\ i < Len(s)
      /\ Last(s) = s[Len(s)] /\ Last(s) \in S /\ Len(s) \in DOMAIN s
      /\ \A i \in DOMAIN s : i \in DOMAIN t \/ i = Len(s)
  <2> HIDE DEF S
  <2> QED
    BY <1>2, FrontElems
<1>4. n \in Nat /\ q \in Pages /\ n = s[Len(s)].top /\ q = s[Len(s)].page
  <2>1. s[Len(s)] \in S /\ Last(s) = s[Len(s)]
    BY <1>3
  <2> QED
    BY <2>1
<1>5. /\ r.page \notin Behind(r) \cap LispPages /\ RememberedOnce(r) /\ TopsSound(r)
      /\ Len(e) <= MaxDownlinkDepth /\ Len(s) <= MaxMemoDepth
  BY <1>1 DEF WindowSound, WaySound
<1>6. n <= Len(e)
  BY <1>3, <1>4, <1>5 DEF TopsSound
<1> HIDE DEF t, n, q
<1>7. /\ f \in Seq(Pages) /\ Len(f) = n /\ DOMAIN f = 1 .. n
      /\ \A i \in 1 .. n : f[i] = e[i] /\ i \in DOMAIN e
  <2>1. f \in [1 .. n -> Pages] /\ \A i \in 1 .. n : f[i] = e[i] /\ i \in DOMAIN e
    BY <1>2, <1>4, <1>6
  <2> HIDE DEF f
  <2> QED
    BY <2>1, <1>4
<1> HIDE DEF f
<1>8. f \in Seq(Pages \cup {Stale})
  BY <1>7
<1>9. /\ d \in WindowType
      /\ d.page = r.page /\ d.links = r.links /\ d.table = r.table /\ d.memo = t
      /\ d.status = r.status /\ d.sock = r.sock /\ d.marks = r.marks /\ d.down = f
  BY <1>1, <1>3, <1>8 DEF WindowType
<1> HIDE DEF d
<1> DEFINE K == {r.page} \cup {e[i] : i \in n + 1 .. Len(e)}
<1>10. Popped(r, kind) = d /\ PoppedPage(r, kind) = q /\ Killed(r, kind) = K
  BY DEF Popped, PoppedPage, Killed, returnlink, KilledByReturn, d, t, q, n, f
<1>11. Behind(d) = {t[i].page : i \in DOMAIN t} \cup {f[i] : i \in DOMAIN f}
  BY <1>9 DEF Behind
<1>12. /\ {s[i].page : i \in DOMAIN s} = {t[i].page : i \in DOMAIN t} \cup {q}
       /\ {e[i] : i \in DOMAIN e} = {f[i] : i \in DOMAIN f} \cup {e[i] : i \in n + 1 .. Len(e)}
  <2>1. {s[i].page : i \in DOMAIN s} = {t[i].page : i \in DOMAIN t} \cup {q}
    BY <1>3, <1>4
  <2>2. DOMAIN e = 1 .. n \cup n + 1 .. Len(e)
    BY <1>2, <1>4, <1>6
  <2>3. {f[i] : i \in DOMAIN f} = {e[i] : i \in 1 .. n}
    BY <1>7
  <2> QED
    BY <2>1, <2>2, <2>3
<1>13. /\ K \subseteq {r.page} \cup Behind(r)
       /\ Behind(d) \cup {q} \subseteq Behind(r)
       /\ Behind(r) \subseteq Behind(d) \cup {q} \cup K
  BY <1>11, <1>12 DEF Behind
<1>14. q \notin Behind(d) \cap LispPages
  <2>1. ASSUME NEW i \in DOMAIN t, t[i].page \in LispPages
        PROVE  t[i].page # q
    <3>1. i \in DOMAIN s /\ t[i] = s[i] /\ i # Len(s) /\ Len(s) \in DOMAIN s
      BY <1>3, <2>1
    <3> QED
      BY <3>1, <2>1, <1>4, <1>5 DEF RememberedOnce
  <2>2. \A i \in DOMAIN f : q \in LispPages => f[i] # q
    BY <1>3, <1>4, <1>5, <1>7 DEF RememberedOnce
  <2> QED
    BY <2>1, <2>2, <1>11
<1>15. (Behind(d) \cup {q}) \cap K \cap LispPages = {}
  <2>1. ASSUME NEW p \in LispPages, p \in Behind(d) \cup {q}
        PROVE  p \notin K
    <3>1. p # r.page
      BY <2>1, <1>5, <1>13
    <3>2. ASSUME NEW i \in n + 1 .. Len(e), p = e[i]
          PROVE  FALSE
      <4>1. i \in DOMAIN e /\ i > n
        BY <1>2, <1>4
      <4>2. \A k \in DOMAIN s : s[k].page # p
        BY <4>1, <3>2, <2>1, <1>5 DEF RememberedOnce
      <4>3. \A k \in DOMAIN t : t[k].page # p
        BY <4>2, <1>3
      <4>4. p # q
        BY <4>2, <1>3, <1>4
      <4>5. PICK k \in DOMAIN f : p = f[k]
        BY <2>1, <4>3, <4>4, <1>11
      <4>6. k \in DOMAIN e /\ e[k] = p /\ k <= n /\ k \in Nat
        BY <4>5, <1>4, <1>7
      <4>7. k = i
        BY <4>1, <4>6, <3>2, <2>1, <1>5 DEF RememberedOnce
      <4> QED
        BY <4>1, <4>6, <4>7, <1>4
    <3> QED
      BY <3>1, <3>2
  <2> QED
    BY <2>1
<1>16. TopsSound(d)
  <2>1. \A i \in DOMAIN s : s[i].top \in Nat
    BY <1>1, WindowParts
  <2>2. ASSUME NEW i \in DOMAIN t
        PROVE  t[i].top <= n
    <3>1. i \in DOMAIN s /\ t[i] = s[i] /\ i <= Len(s) /\ Len(s) \in DOMAIN s
      BY <1>3, <2>2
    <3>2. s[i].top <= s[Len(s)].top
      BY <3>1, <1>5 DEF TopsSound
    <3> QED
      BY <3>1, <3>2, <1>4
  <2>3. \A i, j \in DOMAIN t : i <= j => t[i].top <= t[j].top
    BY <1>3, <1>5 DEF TopsSound
  <2> QED
    BY <2>2, <2>3, <1>7, <1>9 DEF TopsSound
<1>17. RememberedOnce(d)
  <2>1. ASSUME NEW i \in DOMAIN t, NEW j \in DOMAIN f, t[i].page \in LispPages
        PROVE  t[i].page # f[j]
    <3>1. i \in DOMAIN s /\ t[i] = s[i]
      BY <1>3
    <3>2. j \in DOMAIN e /\ f[j] = e[j]
      BY <1>7
    <3> QED
      BY <3>1, <3>2, <2>1, <1>5 DEF RememberedOnce
  <2>2. \A i, j \in DOMAIN t : t[i].page \in LispPages /\ t[i].page = t[j].page => i = j
    BY <1>3, <1>5 DEF RememberedOnce
  <2>3. \A i, j \in DOMAIN f : f[i] \in LispPages /\ f[i] = f[j] => i = j
    BY <1>5, <1>7 DEF RememberedOnce
  <2> QED
    BY <2>1, <2>2, <2>3, <1>9 DEF RememberedOnce
<1>18. WaySound(d)
  <2>1. Len(t) <= MaxMemoDepth /\ Len(f) <= MaxDownlinkDepth
    BY <1>2, <1>3, <1>4, <1>5, <1>6, <1>7, HyperDocAssumption
  <2> QED
    BY <2>1, <1>7, <1>9, <1>16, <1>17 DEF WaySound
<1> QED
  BY <1>4, <1>9, <1>10, <1>13, <1>14, <1>15, <1>18 DEF WentBack

LEMMA BackWay ==
  ASSUME NEW r, WindowSound(r), NEW kind, GoesBack(r, kind)
  PROVE  WentBack(r, kind)
<1>1. CASE ByReturn(r, kind)
  <2>1. r.memo # <<>>
    BY <1>1 DEF GoesBack, NoWayBack, ByReturn
  <2> QED
    BY <1>1, <2>1, ReturnWay
<1>2. CASE ~ByReturn(r, kind)
  <2>1. kind = "up" /\ r.down # <<>>
    BY <1>2 DEF GoesBack, ByReturn
  <2>2. r.memo # <<>> => Len(r.down) > Last(r.memo).top
    BY <2>1 DEF GoesBack
  <2> QED
    BY <2>1, <2>2, UpWay
<1> QED
  BY <1>1, <1>2

-----------------------------------------------------------------------------
(***************************************************************************)
(* A step of one window: the pages of Lisp in "gone" are destroyed, those  *)
(* in "made" are new, and the record d takes the place of the window's.    *)
(***************************************************************************)
KeepsMarks(r, d) == d.sock = r.sock /\ d.marks = r.marks

(* No window gets marks or a buffer in the step. *)
MarksKept ==
  \A v \in Windows : KeepsMarks(window[v], window'[v]) \/ (window'[v].sock = NoSock /\ window'[v].marks = {})

Steps(w, d, gone, made) ==
  /\ WindowSound(d) /\ d.status # "closed"
  /\ KeepsMarks(window[w], d) \/ (d.sock = NoSock /\ d.marks = {})
  /\ gone \cap LispPages \subseteq HeldPages(window[w])
  /\ made \subseteq LispPages /\ \A p \in made : lisp[p] = "new"
  /\ window' = [window EXCEPT ![w] = d]
  /\ lisp' \in [LispPages -> {"new", "known", "destroyed"}]
  /\ \A p \in LispPages : lisp'[p] = IF p \in gone THEN "destroyed"
                                     ELSE IF p \in made THEN "known" ELSE lisp[p]
  /\ lost \subseteq lost' /\ lost' \subseteq LispPages
  /\ HeldPages(d) \subseteq (HeldPages(window[w]) \ gone) \cup made
  /\ HeldPages(d) \subseteq d.table
  /\ HeldPages(window[w]) \subseteq HeldPages(d) \cup gone \cup lost'
  /\ made \subseteq HeldPages(d) \cup lost'

LEMMA StepOfWindow ==
  ASSUME PagesInv, NEW w \in Windows, NEW d, NEW gone, NEW made, Steps(w, d, gone, made)
  PROVE  PagesInv' /\ MarksKept
<1> USE DEF Steps
<1>1. /\ window \in [Windows -> WindowType]
      /\ lisp \in [LispPages -> {"new", "known", "destroyed"}]
      /\ \A v \in Windows \ Open : HeldPages(window[v]) = {}
      /\ \A v \in Open : WindowSound(window[v])
      /\ \A v \in Windows : HeldPages(window[v]) \subseteq window[v].table \cap Known
      /\ \A u, v \in Windows : u # v => HeldPages(window[u]) \cap HeldPages(window[v]) = {}
      /\ Known \subseteq lost \cup UNION {HeldPages(window[v]) : v \in Windows}
  BY DEF PagesInv
<1>2. window'[w] = d /\ \A v \in Windows \ {w} : window'[v] = window[v]
  BY <1>1
<1>3. d \in WindowType
  BY DEF WindowSound, WaySound
<1>4. window' \in [Windows -> WindowType]
  BY <1>1, <1>3
<1>5. Open' = Open \cup {w}
  BY <1>2 DEF Open
<1>6. \A v \in Windows : HeldPages(window[v]) \subseteq LispPages
  BY DEF HeldPages
<1>7. \A v \in Windows \ {w} : HeldPages(window[v]) \cap (gone \cup made) = {}
  <2>1. ASSUME NEW v \in Windows \ {w}, NEW p \in HeldPages(window[v])
        PROVE  p \notin gone /\ p \notin made
    <3>1. p \in LispPages /\ lisp[p] = "known" /\ p \notin HeldPages(window[w])
      BY <1>1, <1>6, <2>1 DEF Known
    <3> QED
      BY <3>1
  <2> QED
    BY <2>1
<1>8. \A p \in LispPages : p \in Known' <=> p \notin gone /\ (p \in made \/ p \in Known)
  BY DEF Known
<1>9. \A v \in Windows : HeldPages(window'[v]) \subseteq window'[v].table \cap Known'
  <2>1. ASSUME NEW v \in Windows \ {w}
        PROVE  HeldPages(window'[v]) \subseteq window'[v].table \cap Known'
    BY <1>1, <1>2, <1>6, <1>7, <1>8
  <2>2. HeldPages(d) \subseteq d.table \cap Known'
    <3>1. ASSUME NEW p \in HeldPages(d)
          PROVE  p \in Known'
      <4>1. p \in LispPages
        BY DEF HeldPages
      <4>2. p \in made => p \notin gone
        <5>1. p \in gone => p \in Known
          BY <4>1, <1>1
        <5>2. p \in made => p \notin Known
          BY DEF Known
        <5> QED
          BY <5>1, <5>2
      <4>3. p \in HeldPages(window[w]) => p \in Known
        BY <1>1
      <4> QED
        BY <4>1, <4>2, <4>3, <1>8
    <3> QED
      BY <3>1
  <2> QED
    BY <2>1, <2>2, <1>2
<1>10. \A u, v \in Windows : u # v => HeldPages(window'[u]) \cap HeldPages(window'[v]) = {}
  <2>1. \A v \in Windows \ {w} : HeldPages(d) \cap HeldPages(window[v]) = {}
    BY <1>1, <1>7
  <2>2. ASSUME NEW u \in Windows, NEW v \in Windows, u # v
        PROVE  HeldPages(window'[u]) \cap HeldPages(window'[v]) = {}
    <3>1. CASE u = w
      BY <3>1, <2>1, <2>2, <1>2
    <3>2. CASE v = w
      BY <3>2, <2>1, <2>2, <1>2
    <3>3. CASE u # w /\ v # w
      BY <3>3, <2>2, <1>1, <1>2
    <3> QED
      BY <3>1, <3>2, <3>3
  <2> QED
    BY <2>2
<1>11. Known' \subseteq lost' \cup UNION {HeldPages(window'[v]) : v \in Windows}
  <2>1. ASSUME NEW p \in Known', p \notin lost'
        PROVE  \E v \in Windows : p \in HeldPages(window'[v])
    <3>1. p \in LispPages /\ p \notin gone /\ (p \in made \/ p \in Known)
      BY <2>1, <1>8 DEF Known
    <3>2. CASE p \in made \/ p \in HeldPages(window[w])
      BY <3>1, <3>2, <2>1, <1>2
    <3>3. CASE p \notin made /\ p \notin HeldPages(window[w])
      <4>1. PICK v \in Windows : p \in HeldPages(window[v])
        BY <3>1, <3>3, <2>1, <1>1
      <4> QED
        BY <4>1, <3>3, <1>2
    <3> QED
      BY <3>2, <3>3
  <2> QED
    BY <2>1
<1>12. /\ \A v \in Windows \ Open' : HeldPages(window'[v]) = {}
       /\ \A v \in Open' : WindowSound(window'[v])
  BY <1>1, <1>2, <1>5
<1>13. PagesInv'
  BY <1>4, <1>9, <1>10, <1>11, <1>12 DEF PagesInv
<1>14. MarksKept
  BY <1>2 DEF MarksKept, KeepsMarks
<1> QED
  BY <1>13, <1>14

(***************************************************************************)
(* A step that shows the page q in the window w: e is the record d, which  *)
(* remembers what is to be remembered of the page that is left, with q.    *)
(***************************************************************************)
ShowsIn(w, d, e, q, made) ==
  /\ WaySound(d) /\ d.status # "closed" /\ d.table = window[w].table
  /\ KeepsMarks(window[w], d) /\ KeepsMarks(d, e)
  /\ Behind(d) \subseteq {window[w].page} \cup Behind(window[w])
  /\ Behind(window[w]) \subseteq Behind(d)
  /\ made \subseteq LispPages /\ \A p \in made : lisp[p] = "new"
  /\ q \in Pages /\ {q} \cap LispPages \subseteq made
  /\ e \in WindowType /\ e.page = Formatted(q) /\ e.links = Formatted(q)
  /\ e.memo = d.memo /\ e.down = d.down /\ e.status = d.status
  /\ e.table = d.table \cup ({q} \cap LispPages)
  /\ window' = [window EXCEPT ![w] = e]
  /\ lisp' \in [LispPages -> {"new", "known", "destroyed"}]
  /\ \A p \in LispPages : lisp'[p] = IF p \in made THEN "known" ELSE lisp[p]
  /\ lost \subseteq lost' /\ lost' \subseteq LispPages
  /\ window[w].page \in Behind(d) \/ Left(window[w]) \subseteq lost'
  /\ made \subseteq {q} \cup lost'

LEMMA ShowKeeps ==
  ASSUME PagesInv, NEW w \in Open, NEW d, NEW e, NEW q, NEW made, ShowsIn(w, d, e, q, made)
  PROVE  PagesInv' /\ MarksKept
<1> USE DEF ShowsIn
<1>1. d \in WindowType /\ WindowSound(window[w]) /\ w \in Windows
  BY DEF WaySound, PagesInv, Open
<1>5. WaySound(e) /\ Behind(e) = Behind(d)
  BY SameWay
<1>6. /\ HeldPages(window[w]) \subseteq window[w].table \cap Known
      /\ HeldPages(window[w]) = ({window[w].page} \cup Behind(window[w])) \cap LispPages
  BY <1>1 DEF PagesInv, HeldPages
<1>7. \A p \in made : p \notin HeldPages(window[w])
  BY <1>6 DEF Known
<1>8. /\ Formatted(q) \in Pages /\ (Formatted(q) \in LispPages <=> q \in LispPages)
      /\ q \in LispPages => Formatted(q) = q
  BY FormattedIsPage
<1>9. Behind(d) \cap LispPages \subseteq HeldPages(window[w])
  BY <1>6
<1>10. e.page \notin Behind(e) \cap LispPages
  BY <1>5, <1>7, <1>8, <1>9
<1>11. WindowSound(e)
  BY <1>5, <1>8, <1>10 DEF WindowSound
<1>12. HeldPages(e) = (Behind(d) \cap LispPages) \cup ({q} \cap LispPages)
  BY <1>5, <1>8 DEF HeldPages
<1> DEFINE none == {}
<1>13. HeldPages(e) \subseteq (HeldPages(window[w]) \ none) \cup made
  BY <1>9, <1>12
<1>14. HeldPages(e) \subseteq e.table
  BY <1>6, <1>9, <1>12
<1>15. HeldPages(window[w]) \subseteq HeldPages(e) \cup none \cup lost'
  BY <1>6, <1>12 DEF Left
<1>16. made \subseteq HeldPages(e) \cup lost'
  BY <1>12
<1>17. /\ none \cap LispPages \subseteq HeldPages(window[w])
       /\ \A p \in LispPages : lisp'[p] = IF p \in none THEN "destroyed"
                                          ELSE IF p \in made THEN "known" ELSE lisp[p]
  OBVIOUS
<1> HIDE DEF none
<1>18. KeepsMarks(window[w], e)
  BY DEF KeepsMarks
<1>19. Steps(w, e, none, made)
  BY <1>1, <1>11, <1>13, <1>14, <1>15, <1>16, <1>17, <1>18 DEF Steps
<1> QED
  BY <1>1, <1>19, StepOfWindow

-----------------------------------------------------------------------------
(* The actions, one by one.                                                  *)

LEMMA CreateKeeps ==
  ASSUME PagesInv, NEW w \in Windows, CreateWindow(w)
  PROVE  PagesInv' /\ MarksKept
<1> DEFINE r == window[w]
           q == r.page
           shown == display_page(r, q)
           d == [shown EXCEPT !.status = "mapped"]
           none == {}
<1>1. /\ r.status = "unmapped" /\ window' = [window EXCEPT ![w] = d]
      /\ lisp' = lisp /\ lost' = lost
  BY DEF CreateWindow
<1>2. w \in Open /\ WindowSound(r) /\ r \in WindowType /\ WaySound(r) /\ q \in Pages
  BY <1>1 DEF Open, PagesInv, WindowSound, WaySound
<1>3. /\ shown \in WindowType
      /\ shown.page = Formatted(q) /\ shown.links = Formatted(q)
      /\ shown.memo = r.memo /\ shown.down = r.down /\ shown.table = r.table
      /\ shown.sock = r.sock /\ shown.marks = r.marks
  BY <1>2, DisplayShows
<1> HIDE DEF shown
<1>4. /\ d \in WindowType /\ d.status = "mapped"
      /\ d.page = Formatted(q) /\ d.links = Formatted(q)
      /\ d.memo = r.memo /\ d.down = r.down /\ d.table = r.table
      /\ d.sock = r.sock /\ d.marks = r.marks
  BY <1>3 DEF WindowType
<1> HIDE DEF d
<1>5. WaySound(d) /\ Behind(d) = Behind(r)
  BY <1>2, <1>4, SameWay
<1>6. /\ Formatted(q) \in Pages /\ (Formatted(q) \in LispPages <=> q \in LispPages)
      /\ q \in LispPages => Formatted(q) = q
  BY <1>2, FormattedIsPage
<1>7. WindowSound(d)
  BY <1>2, <1>4, <1>5, <1>6 DEF WindowSound
<1>8. HeldPages(d) = HeldPages(r)
  BY <1>4, <1>5, <1>6 DEF HeldPages
<1>9. /\ HeldPages(r) \subseteq r.table
      /\ lisp \in [LispPages -> {"new", "known", "destroyed"}] /\ lost \subseteq LispPages
  BY DEF PagesInv
<1>10. Steps(w, d, none, none)
  BY <1>1, <1>4, <1>7, <1>8, <1>9 DEF Steps, KeepsMarks
<1> HIDE DEF none
<1> QED
  BY <1>10, StepOfWindow

LEMMA BackKeeps ==
  ASSUME PagesInv, NEW w \in Open, NEW kind \in {"up", "return"}, NEW via,
         ClickBack(w, kind, via), Careful
  PROVE  PagesInv' /\ MarksKept
<1> DEFINE r == window[w]
           q == PoppedPage(r, kind)
           K == Killed(r, kind)
           b == Popped(r, kind)
           p == kill_page(b, K)
           d == display_page(p, q)
           none == {}
<1>1. w \in Windows /\ WindowSound(r) /\ r \in WindowType /\ r.status # "closed"
  BY DEF Open, PagesInv, WindowSound, WaySound
<1>2. CASE NoWayBack(r, kind)
  <2>1. UNCHANGED pages
    BY <1>2 DEF ClickBack
  <2> QED
    BY <2>1 DEF pages, PagesInv, Open, Known, MarksKept, KeepsMarks
<1>3. CASE ~NoWayBack(r, kind)
  <2>1. /\ CarefulUp(r, kind, via) /\ lisp' = Destroyed(K) /\ lost' = lost
        /\ window' = [window EXCEPT ![w] = display_page(IF Rerecorded(r, kind, via) THEN downlink(p) ELSE p, q)]
    BY <1>3 DEF ClickBack
  <2>2. GoesBack(r, kind) /\ window' = [window EXCEPT ![w] = d]
    BY <1>3, <2>1 DEF GoesBack, CarefulUp
  <2>3. /\ WaySound(b) /\ q \in Pages
        /\ b.table = r.table /\ b.status = r.status /\ b.sock = r.sock /\ b.marks = r.marks
        /\ q \notin Behind(b) \cap LispPages
        /\ r.page \in K /\ K \subseteq {r.page} \cup Behind(r)
        /\ (Behind(b) \cup {q}) \cap K \cap LispPages = {}
        /\ Behind(b) \cup {q} \subseteq Behind(r)
        /\ Behind(r) \subseteq Behind(b) \cup {q} \cup K
    <3>1. WentBack(r, kind)
      BY <1>1, <2>2, BackWay
    <3> QED
      BY <3>1 DEF WentBack
  <2> HIDE DEF b, q, K
  <2>4. b \in WindowType /\ b.table \in SUBSET LispPages
    BY <2>3, WindowParts DEF WaySound
  <2>5. /\ p \in WindowType /\ p.table = r.table \ K /\ p.status = r.status
        /\ p.memo = b.memo /\ p.down = b.down /\ p.sock = r.sock /\ p.marks = r.marks
    BY <2>3, <2>4 DEF kill_page, WindowType
  <2> HIDE DEF p
  <2>6. /\ d \in WindowType /\ d.page = Formatted(q) /\ d.links = Formatted(q)
        /\ d.memo = b.memo /\ d.down = b.down /\ d.table = r.table \ K /\ d.status = r.status
        /\ d.sock = r.sock /\ d.marks = r.marks
    BY <2>3, <2>5, DisplayShows
  <2> HIDE DEF d
  <2>7. WaySound(d) /\ Behind(d) = Behind(b)
    BY <2>3, <2>6, SameWay
  <2>8. /\ Formatted(q) \in Pages /\ (Formatted(q) \in LispPages <=> q \in LispPages)
        /\ q \in LispPages => Formatted(q) = q
    BY <2>3, FormattedIsPage
  <2>9. WindowSound(d)
    BY <2>3, <2>6, <2>7, <2>8 DEF WindowSound
  <2>10. /\ HeldPages(d) = (Behind(b) \cup {q}) \cap LispPages
         /\ HeldPages(r) = ({r.page} \cup Behind(r)) \cap LispPages
    BY <2>6, <2>7, <2>8 DEF HeldPages
  <2>11. /\ HeldPages(r) \subseteq r.table
         /\ lisp \in [LispPages -> {"new", "known", "destroyed"}] /\ lost \subseteq LispPages
    BY <1>1 DEF PagesInv
  <2>12. /\ HeldPages(d) \subseteq (HeldPages(r) \ K) \cup none
         /\ HeldPages(d) \subseteq d.table
         /\ HeldPages(r) \subseteq HeldPages(d) \cup K \cup lost'
         /\ K \cap LispPages \subseteq HeldPages(r)
    BY <2>3, <2>6, <2>10, <2>11
  <2>13. /\ lisp' \in [LispPages -> {"new", "known", "destroyed"}]
         /\ \A x \in LispPages : lisp'[x] = IF x \in K THEN "destroyed"
                                            ELSE IF x \in none THEN "known" ELSE lisp[x]
    BY <2>1, <2>11 DEF Destroyed
  <2>14. Steps(w, d, K, none)
    BY <1>1, <2>1, <2>2, <2>6, <2>9, <2>11, <2>12, <2>13 DEF Steps, KeepsMarks
  <2> HIDE DEF none
  <2> QED
    BY <1>1, <2>14, StepOfWindow
<1> QED
  BY <1>2, <1>3

(* What the windows show, and where their links lead. *)
LEMMA OpenWindow ==
  ASSUME PagesInv, NEW w \in Open
  PROVE  /\ w \in Windows /\ WindowSound(window[w]) /\ window[w] \in WindowType
         /\ WaySound(window[w]) /\ window[w].status # "closed" /\ window[w].page \in Pages
BY DEF Open, PagesInv, WindowSound, WaySound

LEMMA LinksLead ==
  ASSUME PagesInv, NEW w \in Windows, NEW q \in Links(w)
  PROVE  w \in Open /\ (q # Missing => q \in Static) /\ find_page(q) \in Static
<1>1. window[w].status = "mapped" /\ q \in Targets[window[w].page]
  BY DEF Links
<1>2. w \in Open
  BY <1>1 DEF Open
<1>3. window[w].page \in Static \cup LispPages
  BY <1>2, OpenWindow DEF Pages
<1> QED
  BY <1>1, <1>2, <1>3, HyperDocAssumption DEF find_page

LEMMA StaticPages ==
  /\ Static \subseteq Pages /\ \A q \in Static : {q} \cap LispPages = {}
  /\ {ErrorPage, NotConnectedPage, QuitAsk, HelpPage, NoMoreHelpPage, Root} \subseteq Static
BY HyperDocAssumption DEF Pages

(* A page of the database is shown, and nothing is asked of Lisp. *)
LEMMA StaticKeeps ==
  ASSUME PagesInv, NEW w \in Open, NEW d, WaySound(d), d.status # "closed",
         d.table = window[w].table, KeepsMarks(window[w], d),
         Behind(d) \subseteq {window[w].page} \cup Behind(window[w]),
         Behind(window[w]) \subseteq Behind(d),
         NEW q \in Static,
         window' = [window EXCEPT ![w] = display_page(d, q)], lisp' = lisp,
         lost' = lost \/ lost' = lost \cup Left(window[w]),
         window[w].page \in Behind(d) \/ Left(window[w]) \subseteq lost'
  PROVE  PagesInv' /\ MarksKept
<1> DEFINE none == {}
           e == display_page(d, q)
<1>1. d \in WindowType /\ q \in Pages /\ {q} \cap LispPages = {}
  BY StaticPages DEF WaySound
<1>2. /\ e \in WindowType
      /\ e.page = Formatted(q) /\ e.links = Formatted(q)
      /\ e.memo = d.memo /\ e.down = d.down /\ e.table = d.table
      /\ e.status = d.status /\ e.sock = d.sock /\ e.marks = d.marks
  BY <1>1, DisplayShows
<1> HIDE DEF e
<1>3. window' = [window EXCEPT ![w] = e]
  BY DEF e
<1>4. e.table = d.table \cup ({q} \cap LispPages)
  BY <1>1, <1>2
<1>5. /\ lisp' \in [LispPages -> {"new", "known", "destroyed"}]
      /\ \A p \in LispPages : lisp'[p] = IF p \in none THEN "known" ELSE lisp[p]
      /\ lost \subseteq lost' /\ lost' \subseteq LispPages
  BY DEF PagesInv, Left
<1>6. ShowsIn(w, d, e, q, none)
  BY <1>1, <1>2, <1>3, <1>4, <1>5 DEF ShowsIn, KeepsMarks
<1> HIDE DEF none
<1> QED
  BY <1>6, ShowKeeps

LEMMA LinkKeeps ==
  ASSUME PagesInv, NEW w \in Open, NEW q \in Static, ClickLink(w, q)
  PROVE  PagesInv' /\ MarksKept
<1>1. /\ window' = [window EXCEPT ![w] = display_page(window[w], q)]
      /\ lost' = lost \cup Left(window[w]) /\ lisp' = lisp
  BY OpenWindow DEF ClickLink, PagesInv
<1>2. WaySound(window[w]) /\ window[w].status # "closed" /\ KeepsMarks(window[w], window[w])
  BY OpenWindow DEF KeepsMarks
<1> QED
  BY <1>1, <1>2, StaticKeeps

(* The type of UnknownPage has no part in the way back. *)
LEMMA FoundUnknown ==
  ASSUME NEW r, WindowSound(r), NEW q
  PROVE  LET d == found_unknown(r, q)
         IN  /\ WindowSound(d) /\ Behind(d) = Behind(r)
             /\ d.page = r.page /\ d.table = r.table /\ d.status = r.status
             /\ DownFull(d) = DownFull(r) /\ Left(d) = Left(r) /\ KeepsMarks(r, d)
<1> DEFINE d == found_unknown(r, q)
<1>1. r \in WindowType /\ WaySound(r)
  BY DEF WindowSound, WaySound
<1>2. /\ d \in WindowType /\ d.page = r.page /\ d.links = r.links /\ d.table = r.table
      /\ d.status = r.status /\ d.memo = r.memo /\ d.down = r.down
      /\ d.sock = r.sock /\ d.marks = r.marks
  BY <1>1 DEF found_unknown, WindowType
<1> HIDE DEF d
<1>3. WaySound(d) /\ Behind(d) = Behind(r)
  BY <1>1, <1>2, SameWay
<1>4. WindowSound(d)
  BY <1>2, <1>3 DEF WindowSound
<1>5. DownFull(d) = DownFull(r) /\ Left(d) = Left(r) /\ KeepsMarks(r, d)
  BY <1>2 DEF DownFull, Left, KeepsMarks
<1> QED
  BY <1>2, <1>3, <1>4, <1>5 DEF d

LEMMA DownlinkKeeps ==
  ASSUME PagesInv, NEW w \in Open, NEW q, find_page(q) \in Static, ClickDownlink(w, q)
  PROVE  PagesInv' /\ MarksKept
<1> DEFINE r == found_unknown(window[w], q)
           d == downlink(r)
           f == find_page(q)
<1>1. /\ window' = [window EXCEPT ![w] = display_page(d, f)]
      /\ lost' = IF DownFull(r) THEN lost \cup Left(r) ELSE lost
      /\ lisp' = lisp
  BY DEF ClickDownlink
<1>2. /\ WindowSound(r) /\ Behind(r) = Behind(window[w])
      /\ r.page = window[w].page /\ r.table = window[w].table /\ r.status = window[w].status
      /\ DownFull(r) = DownFull(window[w]) /\ Left(r) = Left(window[w])
      /\ KeepsMarks(window[w], r)
  BY OpenWindow, FoundUnknown
<1> HIDE DEF r, f
<1>3. /\ WaySound(d) /\ d.table = r.table /\ d.status = r.status
      /\ d.sock = r.sock /\ d.marks = r.marks
      /\ Behind(d) = IF DownFull(r) THEN Behind(r) ELSE Behind(r) \cup {r.page}
  BY <1>2, DownlinkWay
<1> HIDE DEF d
<1>4. /\ d.status # "closed" /\ d.table = window[w].table /\ KeepsMarks(window[w], d)
      /\ Behind(d) \subseteq {window[w].page} \cup Behind(window[w])
      /\ Behind(window[w]) \subseteq Behind(d)
  BY <1>2, <1>3, OpenWindow DEF KeepsMarks
<1>5. /\ lost' = lost \/ lost' = lost \cup Left(window[w])
      /\ window[w].page \in Behind(d) \/ Left(window[w]) \subseteq lost'
  BY <1>1, <1>2, <1>3
<1>6. f \in Static
  BY DEF f
<1> QED
  BY <1>1, <1>3, <1>4, <1>5, <1>6, StaticKeeps

LEMMA MemolinkKeeps ==
  ASSUME PagesInv, NEW w \in Open, NEW q \in Static, ClickMemolink(w, q)
  PROVE  PagesInv' /\ MarksKept
<1> DEFINE r == window[w]
           d == memolink(r)
<1>1. /\ WindowSound(r) /\ r.status # "closed"
      /\ window \in [Windows -> WindowType] /\ w \in Windows
  BY OpenWindow DEF PagesInv
<1>2. /\ window' = [window EXCEPT ![w] = display_page(d, q)]
      /\ lost' = IF MemoFull(r) THEN lost \cup Left(r) ELSE lost
      /\ lisp' = lisp
  BY <1>1 DEF ClickMemolink
<1>3. /\ WaySound(d) /\ d.table = r.table /\ d.status = r.status
      /\ d.sock = r.sock /\ d.marks = r.marks
      /\ Behind(d) = IF MemoFull(r) THEN Behind(r) ELSE Behind(r) \cup {r.page}
  BY <1>1, MemolinkWay
<1> HIDE DEF d
<1>4. /\ d.status # "closed" /\ KeepsMarks(r, d)
      /\ Behind(d) \subseteq {r.page} \cup Behind(r)
      /\ Behind(r) \subseteq Behind(d)
  BY <1>1, <1>3 DEF KeepsMarks
<1>5. /\ lost' = lost \/ lost' = lost \cup Left(r)
      /\ r.page \in Behind(d) \/ Left(r) \subseteq lost'
  BY <1>2, <1>3
<1> QED
  BY <1>2, <1>3, <1>4, <1>5, StaticKeeps

(* A window opens on the page q, which Lisp made for it or the database has. *)
LEMMA OpensKeeps ==
  ASSUME PagesInv, NEW v \in Windows, NEW q \in Pages, OpensOn(v, q),
         NEW made, made \subseteq LispPages, \A p \in made : lisp[p] = "new",
         {q} \cap LispPages \subseteq made, made \subseteq {q} \cup lost',
         lisp' \in [LispPages -> {"new", "known", "destroyed"}],
         \A p \in LispPages : lisp'[p] = IF p \in made THEN "known" ELSE lisp[p],
         lost \subseteq lost', lost' \subseteq LispPages
  PROVE  PagesInv' /\ MarksKept
<1> DEFINE table == {q} \cap LispPages
           n == NewWindow(q)
           d == [n EXCEPT !.table = table]
           none == {}
<1>1. v \notin Open /\ window' = [window EXCEPT ![v] = d]
  BY DEF OpensOn
<1>2. /\ n \in WindowType /\ n.page = q /\ n.links = NoPage /\ n.memo = <<>> /\ n.down = <<>>
      /\ n.status = "unmapped" /\ n.sock = NoSock /\ n.marks = {}
  <2>1. q \in Shows /\ NoPage \in Shows
    BY DEF Shows
  <2>2. <<>> \in Seq([page : Pages, top : 0 .. MaxDownlinkDepth]) /\ <<>> \in Seq(Pages \cup {Stale})
    OBVIOUS
  <2>3. NoWindow \in WindowType
    BY <2>1, <2>2 DEF NoWindow, WindowType
  <2>4. n = [NoWindow EXCEPT !.status = "unmapped", !.page = q]
    BY DEF NewWindow
  <2>5. /\ NoWindow.memo = <<>> /\ NoWindow.down = <<>> /\ NoWindow.links = NoPage
        /\ NoWindow.sock = NoSock /\ NoWindow.marks = {}
    BY DEF NoWindow
  <2> HIDE DEF n
  <2> QED
    BY <2>1, <2>3, <2>4, <2>5 DEF WindowType
<1>3. table \in SUBSET LispPages
  OBVIOUS
<1> HIDE DEF n, table
<1>4. /\ d \in WindowType /\ d.page = q /\ d.links = NoPage /\ d.memo = <<>> /\ d.down = <<>>
      /\ d.status = "unmapped" /\ d.table = table /\ d.sock = NoSock /\ d.marks = {}
  BY <1>2, <1>3 DEF WindowType
<1> HIDE DEF d
<1>5. DOMAIN d.memo = {} /\ DOMAIN d.down = {} /\ Len(d.memo) = 0 /\ Len(d.down) = 0 /\ d.down \in Seq(Pages)
  BY <1>4
<1>6. Behind(d) = {}
  BY <1>5 DEF Behind
<1>7. WaySound(d)
  BY <1>4, <1>5, HyperDocAssumption DEF WaySound, TopsSound, RememberedOnce
<1>8. WindowSound(d)
  BY <1>4, <1>6, <1>7 DEF WindowSound
<1>9. HeldPages(window[v]) = {} /\ HeldPages(d) = {q} \cap LispPages
  BY <1>1, <1>4, <1>6 DEF HeldPages, PagesInv
<1>10. /\ HeldPages(d) \subseteq (HeldPages(window[v]) \ none) \cup made
       /\ HeldPages(d) \subseteq d.table
       /\ HeldPages(window[v]) \subseteq HeldPages(d) \cup none \cup lost'
       /\ made \subseteq HeldPages(d) \cup lost'
       /\ none \cap LispPages \subseteq HeldPages(window[v])
       /\ \A p \in LispPages : lisp'[p] = IF p \in none THEN "destroyed"
                                          ELSE IF p \in made THEN "known" ELSE lisp[p]
  BY <1>4, <1>9 DEF table
<1> HIDE DEF none
<1>11. Steps(v, d, none, made)
  BY <1>1, <1>4, <1>8, <1>10 DEF Steps
<1> QED
  BY <1>11, StepOfWindow

(* The same for a page of the database. *)
LEMMA OpensStaticKeeps ==
  ASSUME PagesInv, NEW v \in Windows, NEW q \in Static, OpensOn(v, q), lisp' = lisp, lost' = lost
  PROVE  PagesInv' /\ MarksKept
<1> DEFINE none == {}
<1>1. q \in Pages /\ {q} \cap LispPages \subseteq none
  BY StaticPages
<1>2. /\ lisp' \in [LispPages -> {"new", "known", "destroyed"}]
      /\ \A p \in LispPages : lisp'[p] = IF p \in none THEN "known" ELSE lisp[p]
      /\ lost \subseteq lost' /\ lost' \subseteq LispPages
  BY DEF PagesInv
<1>3. none \subseteq LispPages /\ none \subseteq {q} \cup lost' /\ \A p \in none : lisp[p] = "new"
  OBVIOUS
<1> HIDE DEF none
<1> QED
  BY <1>1, <1>2, <1>3, OpensKeeps

LEMMA HelpKeeps ==
  ASSUME PagesInv, NEW w \in Windows, NEW v \in Windows, ClickHelp(w, v)
  PROVE  PagesInv' /\ MarksKept
<1>1. \E q \in Static : OpensOn(v, q)
  BY StaticPages DEF ClickHelp
<1>2. lisp' = lisp /\ lost' = lost
  BY DEF ClickHelp
<1> QED
  BY <1>1, <1>2, OpensStaticKeeps

(* Lisp makes a page. *)
LEMMA NextIsFresh ==
  ASSUME PagesInv, Generates
  PROVE  /\ NextFresh \in LispPages /\ lisp[NextFresh] = "new" /\ NextFresh \in Pages
         /\ lisp' \in [LispPages -> {"new", "known", "destroyed"}]
         /\ \A p \in LispPages : lisp'[p] = IF p \in {NextFresh} THEN "known" ELSE lisp[p]
<1>1. NextFresh \in Fresh
  BY DEF Generates, NextFresh
<1>2. NextFresh \in LispPages /\ lisp[NextFresh] = "new"
  BY <1>1 DEF Fresh
<1>3. lisp' = [lisp EXCEPT ![NextFresh] = "known"]
  BY DEF Generates
<1>4. lisp \in [LispPages -> {"new", "known", "destroyed"}]
  BY DEF PagesInv
<1> HIDE DEF NextFresh
<1> QED
  BY <1>2, <1>3, <1>4 DEF Pages

LEMMA MadePage ==
  ASSUME NEW parsed \in BOOLEAN, NextFresh \in LispPages
  PROVE  /\ Generated(parsed) \in Pages
         /\ {Generated(parsed)} \cap LispPages \subseteq {NextFresh}
         /\ Unparsed(parsed) \subseteq LispPages
         /\ {NextFresh} \subseteq {Generated(parsed)} \cup Unparsed(parsed)
BY StaticPages DEF Generated, Unparsed, Pages

LEMMA LispWindowKeeps ==
  ASSUME PagesInv, NEW w \in Windows, NEW v \in Windows, NEW parsed \in BOOLEAN,
         ClickLispWindowlink(w, v, parsed)
  PROVE  PagesInv' /\ MarksKept
<1>1. CASE Generates /\ OpensOn(v, Generated(parsed)) /\ lost' = lost \cup Unparsed(parsed)
  <2> DEFINE made == {NextFresh}
             q == Generated(parsed)
  <2>1. /\ NextFresh \in LispPages /\ lisp[NextFresh] = "new"
        /\ lisp' \in [LispPages -> {"new", "known", "destroyed"}]
        /\ \A p \in LispPages : lisp'[p] = IF p \in made THEN "known" ELSE lisp[p]
    BY <1>1, NextIsFresh
  <2>2. /\ q \in Pages /\ {q} \cap LispPages \subseteq made
        /\ lost' \subseteq LispPages /\ lost \subseteq lost'
        /\ made \subseteq {q} \cup lost'
    BY <1>1, <2>1, MadePage DEF PagesInv
  <2>3. made \subseteq LispPages /\ \A p \in made : lisp[p] = "new"
    BY <2>1
  <2>4. OpensOn(v, q)
    BY <1>1
  <2> HIDE DEF made, q
  <2> QED
    BY <2>1, <2>2, <2>3, <2>4, OpensKeeps
<1>2. CASE OpensOn(v, NotConnectedPage) /\ UNCHANGED <<lisp, lost>>
  BY <1>2, StaticPages, OpensStaticKeeps
<1> QED
  BY <1>1, <1>2 DEF ClickLispWindowlink

(* What LispTo leaves of a page that Lisp made, or of the page that says it cannot. *)
LEMMA LispToKeeps ==
  ASSUME PagesInv, NEW w \in Open, NEW kind, NEW full \in BOOLEAN,
         NEW d, WaySound(d), d.status # "closed", d.table = window[w].table,
         KeepsMarks(window[w], d),
         Behind(d) \subseteq {window[w].page} \cup Behind(window[w]),
         Behind(window[w]) \subseteq Behind(d),
         ~full => window[w].page \in Behind(d),
         NEW q \in Pages, NEW unparsed, unparsed \subseteq LispPages,
         LispTo(w, kind, d, full, q, unparsed),
         NEW made, made \subseteq LispPages, \A p \in made : lisp[p] = "new",
         {q} \cap LispPages \subseteq made, made \subseteq {q} \cup unparsed,
         lisp' \in [LispPages -> {"new", "known", "destroyed"}],
         \A p \in LispPages : lisp'[p] = IF p \in made THEN "known" ELSE lisp[p]
  PROVE  PagesInv' /\ MarksKept
<1> DEFINE shown == display_page(d, q)
           t == shown.table \cup ({q} \cap LispPages)
           e == [shown EXCEPT !.table = t]
<1>1. d \in WindowType
  BY DEF WaySound
<1>2. /\ shown \in WindowType
      /\ shown.page = Formatted(q) /\ shown.links = Formatted(q)
      /\ shown.memo = d.memo /\ shown.down = d.down /\ shown.table = d.table
      /\ shown.status = d.status /\ shown.sock = d.sock /\ shown.marks = d.marks
  BY <1>1, DisplayShows
<1>3. window' = [window EXCEPT ![w] = e] /\ lost' = lost \cup unparsed \cup (IF full THEN Left(window[w]) ELSE {})
  BY DEF LispTo
<1> HIDE DEF shown
<1>4. t \in SUBSET LispPages /\ t = d.table \cup ({q} \cap LispPages)
  BY <1>2, WindowParts
<1> HIDE DEF t
<1>5. /\ e \in WindowType
      /\ e.page = Formatted(q) /\ e.links = Formatted(q)
      /\ e.memo = d.memo /\ e.down = d.down /\ e.table = t
      /\ e.status = d.status /\ e.sock = d.sock /\ e.marks = d.marks
  BY <1>2, <1>4 DEF WindowType
<1> HIDE DEF e
<1>6. /\ lost \subseteq lost' /\ lost' \subseteq LispPages
      /\ window[w].page \in Behind(d) \/ Left(window[w]) \subseteq lost'
      /\ made \subseteq {q} \cup lost'
  BY <1>3 DEF PagesInv, Left
<1>7. ShowsIn(w, d, e, q, made)
  BY <1>3, <1>4, <1>5, <1>6 DEF ShowsIn, KeepsMarks
<1> QED
  BY <1>7, ShowKeeps

(* The three kinds of links to Lisp: what is remembered of the page that is left. *)
LEMMA LispKindsRemember ==
  ASSUME PagesInv, NEW w \in Open, NEW k \in LispKinds(w)
  PROVE  /\ k[3] \in BOOLEAN
         /\ WaySound(k[2]) /\ k[2].status # "closed" /\ k[2].table = window[w].table
         /\ KeepsMarks(window[w], k[2])
         /\ Behind(k[2]) \subseteq {window[w].page} \cup Behind(window[w])
         /\ Behind(window[w]) \subseteq Behind(k[2])
         /\ ~k[3] => window[w].page \in Behind(k[2])
<1> DEFINE r == window[w]
<1>1. WindowSound(r) /\ WaySound(r) /\ r.status # "closed"
  BY OpenWindow
<1>2. \/ k = <<"link", r, TRUE>> \/ k = <<"downlink", downlink(r), DownFull(r)>>
      \/ k = <<"memolink", memolink(r), MemoFull(r)>>
  BY DEF LispKinds
<1>3. CASE k = <<"link", r, TRUE>>
  BY <1>1, <1>3 DEF KeepsMarks
<1>4. CASE k = <<"downlink", downlink(r), DownFull(r)>>
  <2>1. k[2] = downlink(r) /\ k[3] = DownFull(r) /\ DownFull(r) \in BOOLEAN
    BY <1>4 DEF DownFull
  <2>2. LET d == downlink(r)
        IN  /\ WaySound(d) /\ d.table = r.table /\ d.status = r.status
            /\ d.sock = r.sock /\ d.marks = r.marks
            /\ Behind(d) = IF DownFull(r) THEN Behind(r) ELSE Behind(r) \cup {r.page}
    BY <1>1, DownlinkWay
  <2> QED
    BY <1>1, <2>1, <2>2 DEF KeepsMarks
<1>5. CASE k = <<"memolink", memolink(r), MemoFull(r)>>
  <2>1. k[2] = memolink(r) /\ k[3] = MemoFull(r) /\ MemoFull(r) \in BOOLEAN
    BY <1>5 DEF MemoFull
  <2>2. LET d == memolink(r)
        IN  /\ WaySound(d) /\ d.table = r.table /\ d.status = r.status
            /\ d.sock = r.sock /\ d.marks = r.marks
            /\ Behind(d) = IF MemoFull(r) THEN Behind(r) ELSE Behind(r) \cup {r.page}
    BY <1>1, MemolinkWay
  <2> QED
    BY <1>1, <2>1, <2>2 DEF KeepsMarks
<1> QED
  BY <1>2, <1>3, <1>4, <1>5

LEMMA LispLinkKeeps ==
  ASSUME PagesInv, NEW w \in Open, NEW k \in LispKinds(w), NEW parsed \in BOOLEAN,
         ClickLispLink(w, k, parsed)
  PROVE  PagesInv' /\ MarksKept
<1> DEFINE kind == k[1]
           d == k[2]
           full == k[3]
<1>1. /\ full \in BOOLEAN
      /\ WaySound(d) /\ d.status # "closed" /\ d.table = window[w].table
      /\ KeepsMarks(window[w], d)
      /\ Behind(d) \subseteq {window[w].page} \cup Behind(window[w])
      /\ Behind(window[w]) \subseteq Behind(d)
      /\ ~full => window[w].page \in Behind(d)
  BY LispKindsRemember
<1>2. \/ Generates /\ LispTo(w, kind, d, full, Generated(parsed), Unparsed(parsed))
      \/ LispTo(w, kind, d, full, NotConnectedPage, {}) /\ UNCHANGED lisp
  BY DEF ClickLispLink
<1> HIDE DEF kind, d, full
<1>3. CASE Generates /\ LispTo(w, kind, d, full, Generated(parsed), Unparsed(parsed))
  <2> DEFINE made == {NextFresh}
             q == Generated(parsed)
             unparsed == Unparsed(parsed)
  <2>1. /\ NextFresh \in LispPages /\ lisp[NextFresh] = "new"
        /\ lisp' \in [LispPages -> {"new", "known", "destroyed"}]
        /\ \A p \in LispPages : lisp'[p] = IF p \in made THEN "known" ELSE lisp[p]
    BY <1>3, NextIsFresh
  <2>2. /\ q \in Pages /\ {q} \cap LispPages \subseteq made
        /\ unparsed \subseteq LispPages /\ made \subseteq {q} \cup unparsed
    BY <2>1, MadePage
  <2>3. made \subseteq LispPages /\ \A p \in made : lisp[p] = "new"
    BY <2>1
  <2>4. LispTo(w, kind, d, full, q, unparsed)
    BY <1>3
  <2> HIDE DEF made, q, unparsed
  <2> QED
    BY <1>1, <2>1, <2>2, <2>3, <2>4, LispToKeeps
<1>4. CASE LispTo(w, kind, d, full, NotConnectedPage, {}) /\ UNCHANGED lisp
  <2> DEFINE none == {}
             q == NotConnectedPage
  <2>1. q \in Pages /\ {q} \cap LispPages \subseteq none
    BY StaticPages
  <2>2. /\ none \subseteq LispPages /\ \A p \in none : lisp[p] = "new"
        /\ none \subseteq {q} \cup none
    OBVIOUS
  <2>3. /\ lisp' \in [LispPages -> {"new", "known", "destroyed"}]
        /\ \A p \in LispPages : lisp'[p] = IF p \in none THEN "known" ELSE lisp[p]
    BY <1>4 DEF PagesInv
  <2>4. LispTo(w, kind, d, full, q, none)
    BY <1>4
  <2> HIDE DEF none, q
  <2> QED
    BY <1>1, <2>1, <2>2, <2>3, <2>4, LispToKeeps
<1> QED
  BY <1>2, <1>3, <1>4

(* A window closes, or all of them do. *)
LEMMA ExitKeeps ==
  ASSUME PagesInv, NEW w \in Windows, exitHyperDoc(w)
  PROVE  PagesInv' /\ MarksKept
<1> DEFINE gone == IF w = Parent THEN Windows ELSE {w}
<1>1. /\ window' = [v \in Windows |-> IF v \in gone THEN NoWindow ELSE window[v]]
      /\ lost' = lost \cup UNION {window[v].table : v \in gone} /\ lisp' = lisp
  BY DEF exitHyperDoc
<1>2. gone \subseteq Windows
  OBVIOUS
<1> HIDE DEF gone
<1>3. NoWindow \in WindowType /\ NoWindow.status = "closed" /\ HeldPages(NoWindow) = {}
  <2>1. <<>> \in Seq([page : Pages, top : 0 .. MaxDownlinkDepth]) /\ <<>> \in Seq(Pages \cup {Stale})
    OBVIOUS
  <2>2. NoWindow \in WindowType
    BY <2>1 DEF NoWindow, WindowType, Shows
  <2>3. DOMAIN NoWindow.memo = {} /\ DOMAIN NoWindow.down = {} /\ NoWindow.page = NoPage
    BY DEF NoWindow
  <2>4. NoPage \notin LispPages
    BY HyperDocAssumption
  <2> QED
    BY <2>2, <2>3, <2>4 DEF HeldPages, Behind, NoWindow
<1>4. /\ \A v \in Windows \ gone : window'[v] = window[v]
      /\ \A v \in gone : window'[v] = NoWindow
  BY <1>1, <1>2
<1>5. /\ window \in [Windows -> WindowType]
      /\ lisp \in [LispPages -> {"new", "known", "destroyed"}] /\ lost \subseteq LispPages
      /\ \A v \in Windows \ Open : HeldPages(window[v]) = {}
      /\ \A v \in Open : WindowSound(window[v])
      /\ \A v \in Windows : HeldPages(window[v]) \subseteq window[v].table \cap Known
      /\ \A u, v \in Windows : u # v => HeldPages(window[u]) \cap HeldPages(window[v]) = {}
      /\ Known \subseteq lost \cup UNION {HeldPages(window[v]) : v \in Windows}
  BY DEF PagesInv
<1>6. Open' = Open \ gone
  BY <1>2, <1>3, <1>4 DEF Open
<1>7. window' \in [Windows -> WindowType]
  BY <1>1, <1>3, <1>5
<1>8. lost' \subseteq LispPages
  <2>1. \A v \in gone : window[v].table \in SUBSET LispPages
    BY <1>2, <1>5, WindowParts
  <2> QED
    BY <2>1, <1>1, <1>5
<1>9. \A v \in Windows \ Open' : HeldPages(window'[v]) = {}
  BY <1>3, <1>4, <1>5, <1>6
<1>10. \A v \in Open' : WindowSound(window'[v])
  BY <1>4, <1>5, <1>6 DEF Open
<1>11. Known' = Known
  BY <1>1 DEF Known
<1>12. \A v \in Windows : HeldPages(window'[v]) \subseteq window'[v].table \cap Known'
  BY <1>3, <1>4, <1>5, <1>11
<1>13. \A u, v \in Windows : u # v => HeldPages(window'[u]) \cap HeldPages(window'[v]) = {}
  BY <1>3, <1>4, <1>5
<1>14. Known' \subseteq lost' \cup UNION {HeldPages(window'[v]) : v \in Windows}
  <2>1. ASSUME NEW p \in Known, p \notin lost'
        PROVE  \E v \in Windows : p \in HeldPages(window'[v])
    <3>1. PICK v \in Windows : p \in HeldPages(window[v])
      BY <2>1, <1>1, <1>5
    <3>2. v \notin gone
      BY <3>1, <2>1, <1>1, <1>5
    <3> QED
      BY <3>1, <3>2, <1>4
  <2> QED
    BY <2>1, <1>11
<1>15. PagesInv'
  BY <1>1, <1>5, <1>7, <1>8, <1>9, <1>10, <1>12, <1>13, <1>14 DEF PagesInv
<1>16. MarksKept
  BY <1>3, <1>4 DEF MarksKept, KeepsMarks, NoWindow
<1> QED
  BY <1>15, <1>16

LEMMA QuitKeeps ==
  ASSUME PagesInv, NEW w \in Windows, ClickQuit(w)
  PROVE  PagesInv' /\ MarksKept
<1>1. CASE exitHyperDoc(w)
  BY <1>1, ExitKeeps
<1>2. CASE ClickDownlink(w, QuitAsk)
  <2>1. w \in Open
    BY <1>2 DEF ClickDownlink, Clicked, Open
  <2>2. find_page(QuitAsk) \in Static
    BY StaticPages, HyperDocAssumption DEF find_page
  <2> QED
    BY <1>2, <2>1, <2>2, DownlinkKeeps
<1> QED
  BY <1>1, <1>2 DEF ClickQuit

(* The commands leave the ways of the windows alone. *)
LEMMA CommandsKeep ==
  ASSUME PagesInv, window' \in [Windows -> WindowType], UNCHANGED <<lisp, lost>>,
         \A w \in Windows : /\ window'[w].page = window[w].page /\ window'[w].links = window[w].links
                            /\ window'[w].memo = window[w].memo /\ window'[w].down = window[w].down
                            /\ window'[w].table = window[w].table
                            /\ window'[w].status = window[w].status
  PROVE  PagesInv'
<1>1. /\ window \in [Windows -> WindowType]
      /\ lisp \in [LispPages -> {"new", "known", "destroyed"}] /\ lost \subseteq LispPages
      /\ \A v \in Windows \ Open : HeldPages(window[v]) = {}
      /\ \A v \in Open : WindowSound(window[v])
      /\ \A v \in Windows : HeldPages(window[v]) \subseteq window[v].table \cap Known
      /\ \A u, v \in Windows : u # v => HeldPages(window[u]) \cap HeldPages(window[v]) = {}
      /\ Known \subseteq lost \cup UNION {HeldPages(window[v]) : v \in Windows}
  BY DEF PagesInv
<1>2. Open' = Open
  BY DEF Open
<1>3. Known' = Known
  BY DEF Known
<1>4. \A v \in Windows : Behind(window'[v]) = Behind(window[v])
  BY DEF Behind
<1>5. \A v \in Windows : HeldPages(window'[v]) = HeldPages(window[v])
  BY <1>4 DEF HeldPages
<1>6. ASSUME NEW v \in Open PROVE WindowSound(window'[v])
  <2>1. v \in Windows /\ WindowSound(window[v])
    BY <1>1 DEF Open
  <2>2. WaySound(window[v]) /\ window'[v] \in WindowType
    BY <2>1 DEF WindowSound
  <2>3. WaySound(window'[v])
    BY <2>1, <2>2, SameWay
  <2> QED
    BY <2>1, <2>3, <1>4 DEF WindowSound
<1>7. UNION {HeldPages(window'[v]) : v \in Windows} = UNION {HeldPages(window[v]) : v \in Windows}
  BY <1>5
<1> QED
  BY <1>1, <1>2, <1>3, <1>5, <1>6, <1>7 DEF PagesInv

-----------------------------------------------------------------------------
(***************************************************************************)
(* The commands.  A mark stands for a line the window's buffer has got; a  *)
(* call that waits has seen every needed command it has passed marked, but *)
(* for the one the call above it is sending; and only a call at its first  *)
(* test can meet a buffer that is gone.                                    *)
(***************************************************************************)
CallType == [win : Windows, cmd : Commands, next : Nat,
             at : {"test", "depend", "wait", "reset"}]

Got(b) == {buffer[b].lines[i] : i \in DOMAIN buffer[b].lines}

BuffersSound ==
  /\ buffer \in [Buffers -> [state : {"unused", "alive", "dead"}, lines : Seq(Commands)]]
  /\ \A b \in Buffers : buffer[b].state = "unused" => buffer[b].lines = <<>>
  /\ \A w \in Windows : /\ window[w].sock = NoSock => window[w].marks = {}
                        /\ window[w].sock # NoSock => window[w].marks \subseteq Got(window[w].sock)
  /\ CommandsInOrder

Alive(w, win, buf) == win[w].sock # NoSock /\ buf[win[w].sock].state = "alive"

(* The needed commands the call c has passed; "given" is being sent for it. *)
Passed(c, given, win) ==
  \A j \in DOMAIN Needs[c.cmd] :
     j < c.next => Needs[c.cmd][j] \in win[c.win].marks \cup given

CallSound(c, given, win, buf) ==
  /\ c.next > 0 /\ (c.at = "test" => c.next = 1)
  /\ c.at # "test" => Alive(c.win, win, buf)
  /\ c.at \in {"depend", "wait"} => Passed(c, given, win)
  /\ c.at = "reset" => c.cmd \in win[c.win].marks

Above(s, i) == IF i < Len(s) THEN {s[i + 1].cmd} ELSE {}

StackSound(s, win, buf) ==
  /\ s \in Seq(CallType)
  /\ \A i \in DOMAIN s : CallSound(s[i], Above(s, i), win, buf)
  /\ \A i \in DOMAIN s : i < Len(s) => s[i].at = "wait"
  /\ \A i, j \in DOMAIN s : s[i].win = s[j].win

CallsInv == BuffersSound /\ StackSound(todo, window, buffer)

LEMMA LeastNat ==
  ASSUME NEW T, T \subseteq Nat, T # {}
  PROVE  \E x \in T : \A y \in T : x <= y
<1>1. PICK x \in T : \A y \in T : ~ (<<y, x>> \in OpToRel(<, Nat))
  BY NatLessThanWellFounded, WFMin
<1>2. ASSUME NEW y \in T
      PROVE  x <= y
  <2>1. x \in Nat /\ y \in Nat
    OBVIOUS
  <2>2. ~ (y < x)
    BY <1>1, <2>1 DEF OpToRel
  <2> QED
    BY <2>1, <2>2
<1> QED
  BY <1>2

LEMMA NeedsList ==
  ASSUME NEW c \in Commands
  PROVE  /\ Needs[c] \in Seq(Commands) /\ Len(Needs[c]) \in Nat
         /\ DOMAIN Needs[c] = 1 .. Len(Needs[c])
         /\ \A i \in DOMAIN Needs[c] : Needs[c][i] \in Commands
<1>1. Needs[c] \in Seq(Commands)
  BY HyperDocAssumption
<1> QED
  BY <1>1, ElemsOfSeq

(* The top of a stack is replaced. *)
LEMMA NewTop ==
  ASSUME NEW S, NEW s \in Seq(S), s # <<>>, NEW c \in S
  PROVE  LET t == Append(Front(s), c)
         IN  /\ t \in Seq(S) /\ Len(t) = Len(s) /\ DOMAIN t = 1 .. Len(s)
             /\ DOMAIN s = 1 .. Len(s) /\ Len(s) \in Nat /\ Len(s) > 0 /\ Len(s) \in DOMAIN s
             /\ \A i \in DOMAIN s : i # Len(s) => t[i] = s[i]
             /\ t[Len(s)] = c /\ Last(s) = s[Len(s)] /\ Last(s) \in S
<1> DEFINE f == Front(s)
           t == Append(f, c)
<1>1. /\ f \in Seq(S) /\ Len(f) = Len(s) - 1
      /\ DOMAIN f = 1 .. Len(s) - 1 /\ DOMAIN s = 1 .. Len(s) /\ Len(s) \in Nat /\ Len(s) > 0
      /\ \A i \in DOMAIN f : i \in DOMAIN s /\ f[i] = s[i] /\ i < Len(s)
      /\ Last(s) = s[Len(s)] /\ Last(s) \in S /\ Len(s) \in DOMAIN s
      /\ \A i \in DOMAIN s : i \in DOMAIN f \/ i = Len(s)
  BY FrontElems
<1> HIDE DEF f
<1>2. /\ t \in Seq(S) /\ Len(t) = Len(f) + 1
      /\ DOMAIN t = 1 .. Len(f) + 1 /\ Len(f) \in Nat
      /\ \A i \in DOMAIN f : i \in DOMAIN t /\ t[i] = f[i]
      /\ t[Len(f) + 1] = c
  BY <1>1, AppendElems
<1> HIDE DEF t
<1>3. Len(t) = Len(s) /\ t[Len(s)] = c
  BY <1>1, <1>2
<1> QED
  BY <1>1, <1>2, <1>3 DEF t, f

(* A call goes on: what the calls under it rely on does not change, unless there are none. *)
LEMMA TopGoesOn ==
  ASSUME CallsInv, todo # <<>>, NEW c \in CallType, c.win = Top.win, c.cmd = Top.cmd,
         todo' = Append(Front(todo), c), BuffersSound',
         CallSound(c, {}, window', buffer'),
         Alive(Top.win, window, buffer) =>
            Alive(Top.win, window', buffer') /\ window[Top.win].marks \subseteq window'[Top.win].marks
  PROVE  CallsInv'
<1> DEFINE s == todo
           n == Len(s)
           t == Append(Front(s), c)
<1>1. /\ s \in Seq(CallType)
      /\ \A i \in DOMAIN s : CallSound(s[i], Above(s, i), window, buffer)
      /\ \A i \in DOMAIN s : i < n => s[i].at = "wait"
      /\ \A i, j \in DOMAIN s : s[i].win = s[j].win
  BY DEF CallsInv, StackSound
<1>2. /\ t \in Seq(CallType) /\ Len(t) = n /\ DOMAIN t = 1 .. n
      /\ DOMAIN s = 1 .. n /\ n \in Nat /\ n > 0 /\ n \in DOMAIN s
      /\ \A i \in DOMAIN s : i # n => t[i] = s[i]
      /\ t[n] = c /\ Top = s[n]
  BY <1>1, NewTop DEF Top
<1>3. todo' = t
  OBVIOUS
<1> HIDE DEF s, t, n
<1>4. \A i \in DOMAIN t : t[i].win = s[i].win /\ t[i].cmd = s[i].cmd
  BY <1>2
<1>5. ASSUME NEW i \in DOMAIN t PROVE CallSound(t[i], Above(t, i), window', buffer')
  <2>1. CASE i = n
    <3>1. Above(t, i) = {}
      BY <2>1, <1>2 DEF Above
    <3> QED
      BY <2>1, <3>1, <1>2
  <2>2. CASE i # n
    <3>1. i \in DOMAIN s /\ i < n /\ t[i] = s[i] /\ s[i].at = "wait" /\ i + 1 \in DOMAIN t
      BY <2>2, <1>1, <1>2
    <3>2. Above(t, i) = Above(s, i)
      BY <3>1, <1>2, <1>4 DEF Above, n
    <3>3. CallSound(s[i], Above(s, i), window, buffer) /\ s[i].win = Top.win
      BY <3>1, <1>1, <1>2
    <3>4. Alive(Top.win, window, buffer)
      BY <3>1, <3>3 DEF CallSound
    <3>5. Alive(Top.win, window', buffer') /\ window[Top.win].marks \subseteq window'[Top.win].marks
      BY <3>4
    <3>6. Passed(s[i], Above(s, i), window')
      BY <3>1, <3>3, <3>5 DEF CallSound, Passed
    <3> QED
      BY <3>1, <3>2, <3>3, <3>5, <3>6 DEF CallSound
  <2> QED
    BY <2>1, <2>2
<1>6. StackSound(t, window', buffer')
  BY <1>1, <1>2, <1>4, <1>5 DEF StackSound
<1> QED
  BY <1>3, <1>6 DEF CallsInv

(* The call in progress. *)
LEMMA TopCall ==
  ASSUME CallsInv, todo # <<>>
  PROVE  /\ Top \in CallType /\ Top.win \in Windows /\ Top.cmd \in Commands /\ Top.next \in Nat
         /\ CallSound(Top, {}, window, buffer)
<1> DEFINE s == todo
<1>1. s \in Seq(CallType) /\ \A i \in DOMAIN s : CallSound(s[i], Above(s, i), window, buffer)
  BY DEF CallsInv, StackSound
<1>2. Last(s) = s[Len(s)] /\ Last(s) \in CallType /\ Len(s) \in DOMAIN s /\ Len(s) \in Nat
  BY <1>1, FrontElems
<1>3. Above(s, Len(s)) = {}
  BY <1>2 DEF Above
<1>4. CallSound(Top, {}, window, buffer) /\ Top \in CallType
  BY <1>1, <1>2, <1>3 DEF Top
<1> QED
  BY <1>4 DEF CallType

(* No buffer gets a line, and no window a mark. *)
InOrder(got) == \A i \in DOMAIN got : \A d \in ToSet(Needs[got[i]]) : \E j \in 1 .. i - 1 : got[j] = d

LEMMA OrderOfLines == CommandsInOrder <=> \A b \in Buffers : InOrder(buffer[b].lines)
BY DEF CommandsInOrder, InOrder

LEMMA OrderOfNewLines ==
  ASSUME \A b \in Buffers : InOrder(buffer'[b].lines)
  PROVE  CommandsInOrder'
BY DEF CommandsInOrder, InOrder

LEMMA SameLines ==
  ASSUME BuffersSound,
         buffer' \in [Buffers -> [state : {"unused", "alive", "dead"}, lines : Seq(Commands)]],
         \A b \in Buffers : /\ buffer'[b].lines = buffer[b].lines
                            /\ buffer'[b].state = "unused" => buffer[b].state = "unused",
         \A w \in Windows : \/ window'[w].marks = {}
                            \/ window'[w].sock = window[w].sock /\ window'[w].marks = window[w].marks,
         window \in [Windows -> WindowType]
  PROVE  BuffersSound'
<1>1. CommandsInOrder'
  <2>1. \A b \in Buffers : InOrder(buffer[b].lines)
    BY OrderOfLines DEF BuffersSound
  <2>2. \A b \in Buffers : InOrder(buffer'[b].lines)
    BY <2>1
  <2> QED
    BY <2>2, OrderOfNewLines
<1>2. \A b \in Buffers : {buffer'[b].lines[i] : i \in DOMAIN buffer'[b].lines} = Got(b)
  BY DEF Got
<1>3. \A w \in Windows : window[w].sock \in Buffers \cup {NoSock}
  BY WindowParts
<1>4. ASSUME NEW w \in Windows
      PROVE  /\ window'[w].sock = NoSock => window'[w].marks = {}
             /\ window'[w].sock # NoSock =>
                  window'[w].marks \subseteq
                    {buffer'[window'[w].sock].lines[i] : i \in DOMAIN buffer'[window'[w].sock].lines}
  <2>1. CASE window'[w].marks = {}
    BY <2>1
  <2>2. CASE window'[w].sock = window[w].sock /\ window'[w].marks = window[w].marks
    BY <2>2, <1>2, <1>3 DEF BuffersSound
  <2> QED
    BY <2>1, <2>2
<1>5. \A b \in Buffers : buffer'[b].state = "unused" => buffer'[b].lines = <<>>
  BY DEF BuffersSound
<1> QED
  BY <1>1, <1>4, <1>5 DEF BuffersSound, Got

LEMMA TestKeeps ==
  ASSUME PagesInv, CallsInv, TestBuffer
  PROVE  PagesInv' /\ CallsInv'
<1> DEFINE w == Top.win
           r == window[w]
           started == CHOOSE b \in Unused : TRUE
<1>1. /\ todo # <<>> /\ Top.at = "test" /\ UNCHANGED <<lisp, lost>>
      /\ \/ /\ r.sock = NoSock /\ Unused # {}
            /\ window' = [window EXCEPT ![w].sock = started]
            /\ buffer' = [buffer EXCEPT ![started].state = "alive"]
            /\ Continues([Top EXCEPT !.at = "depend"])
         \/ /\ r.sock # NoSock /\ buffer[r.sock].state = "alive"
            /\ Continues([Top EXCEPT !.at = "depend"])
            /\ UNCHANGED <<window, buffer>>
         \/ /\ r.sock # NoSock /\ buffer[r.sock].state = "dead"
            /\ window' = [window EXCEPT ![w] = Forgets(@)]
            /\ Continues(Call(w, Top.cmd))
            /\ UNCHANGED buffer
  BY DEF TestBuffer, At
<1>2. /\ Top \in CallType /\ w \in Windows /\ Top.cmd \in Commands /\ Top.next = 1
      /\ window \in [Windows -> WindowType] /\ r \in WindowType
      /\ buffer \in [Buffers -> [state : {"unused", "alive", "dead"}, lines : Seq(Commands)]]
      /\ BuffersSound
  BY <1>1, TopCall DEF CallSound, PagesInv, CallsInv, BuffersSound
<1>3. r.sock \in Buffers \cup {NoSock}
  BY <1>2, WindowParts
<1> DEFINE c == [Top EXCEPT !.at = "depend"]
<1>4. /\ c \in CallType /\ c.win = w /\ c.cmd = Top.cmd /\ c.next = 1 /\ c.at = "depend"
      /\ Top.win = w
  BY <1>2 DEF CallType
<1> HIDE DEF c, w
<1>5. ASSUME NEW win, NEW buf, Alive(w, win, buf)
      PROVE  CallSound(c, {}, win, buf)
  <2>1. \A j \in DOMAIN Needs[c.cmd] : ~(j < 1)
    BY <1>2, <1>4, NeedsList
  <2>2. Passed(c, {}, win)
    BY <2>1, <1>4 DEF Passed
  <2> QED
    BY <2>2, <1>4, <1>5 DEF CallSound
<1>6. CASE /\ r.sock = NoSock /\ Unused # {}
           /\ window' = [window EXCEPT ![w].sock = started]
           /\ buffer' = [buffer EXCEPT ![started].state = "alive"]
           /\ Continues(c)
  <2>1. started \in Buffers /\ buffer[started].state = "unused" /\ started # NoSock
    BY <1>6, HyperDocAssumption DEF Unused
  <2> HIDE DEF started
  <2> DEFINE d == [r EXCEPT !.sock = started]
             k == [buffer[started] EXCEPT !.state = "alive"]
  <2>2. /\ d \in WindowType
        /\ d.page = r.page /\ d.links = r.links /\ d.memo = r.memo /\ d.down = r.down
        /\ d.table = r.table /\ d.status = r.status /\ d.marks = r.marks /\ d.sock = started
    BY <1>2, <2>1 DEF WindowType
  <2>3. /\ k \in [state : {"unused", "alive", "dead"}, lines : Seq(Commands)]
        /\ k.state = "alive" /\ k.lines = buffer[started].lines
    BY <1>2, <2>1
  <2>4. window' = [window EXCEPT ![w] = d] /\ buffer' = [buffer EXCEPT ![started] = k]
    BY <1>6
  <2> HIDE DEF d, k
  <2>5. /\ window' \in [Windows -> WindowType] /\ window'[w] = d
        /\ \A v \in Windows : v # w => window'[v] = window[v]
    BY <1>2, <2>2, <2>4
  <2>6. /\ buffer' \in [Buffers -> [state : {"unused", "alive", "dead"}, lines : Seq(Commands)]]
        /\ buffer'[started] = k /\ \A b \in Buffers : b # started => buffer'[b] = buffer[b]
    BY <1>2, <2>1, <2>3, <2>4
  <2>7. \A v \in Windows :
          /\ window'[v].page = window[v].page /\ window'[v].links = window[v].links
          /\ window'[v].memo = window[v].memo /\ window'[v].down = window[v].down
          /\ window'[v].table = window[v].table /\ window'[v].status = window[v].status
          /\ window'[v].marks = window[v].marks
    BY <2>2, <2>5
  <2>8. PagesInv'
    BY <1>1, <2>5, <2>7, CommandsKeep
  <2>9. BuffersSound'
    <3>1. r.marks = {}
      BY <1>2, <1>6 DEF BuffersSound
    <3>2. \A v \in Windows : \/ window'[v].marks = {}
                             \/ window'[v].sock = window[v].sock /\ window'[v].marks = window[v].marks
      BY <2>5, <2>7, <3>1
    <3>3. \A b \in Buffers : /\ buffer'[b].lines = buffer[b].lines
                             /\ buffer'[b].state = "unused" => buffer[b].state = "unused"
      BY <2>3, <2>6
    <3> QED
      BY <1>2, <2>6, <3>2, <3>3, SameLines
  <2>10. CallSound(c, {}, window', buffer')
    <3>1. Alive(w, window', buffer')
      BY <2>1, <2>2, <2>3, <2>5, <2>6 DEF Alive
    <3> QED
      BY <3>1, <1>5
  <2>11. ~Alive(w, window, buffer)
    BY <1>6 DEF Alive
  <2>12. todo' = Append(Front(todo), c)
    BY <1>6 DEF Continues
  <2> QED
    BY <1>1, <1>4, <2>8, <2>9, <2>10, <2>11, <2>12, TopGoesOn
<1>7. CASE /\ r.sock # NoSock /\ buffer[r.sock].state = "alive"
           /\ Continues(c) /\ UNCHANGED <<window, buffer>>
  <2>1. Alive(w, window', buffer') /\ Alive(w, window, buffer)
    BY <1>7 DEF Alive
  <2>2. CallSound(c, {}, window', buffer')
    BY <2>1, <1>5
  <2>3. PagesInv'
    BY <1>1, <1>7 DEF PagesInv, Open, Known
  <2>4. BuffersSound'
    BY <1>2, <1>7, SameLines
  <2>5. todo' = Append(Front(todo), c) /\ window[w].marks \subseteq window'[w].marks
    BY <1>7 DEF Continues
  <2> QED
    BY <1>1, <1>4, <2>1, <2>2, <2>3, <2>4, <2>5, TopGoesOn
<1>8. CASE /\ r.sock # NoSock /\ buffer[r.sock].state = "dead"
           /\ window' = [window EXCEPT ![w] = Forgets(r)]
           /\ Continues(Call(w, Top.cmd)) /\ UNCHANGED buffer
  <2> DEFINE d == Forgets(r)
             e == Call(w, Top.cmd)
  <2>1. /\ d \in WindowType
        /\ d.page = r.page /\ d.links = r.links /\ d.memo = r.memo /\ d.down = r.down
        /\ d.table = r.table /\ d.status = r.status /\ d.marks = {} /\ d.sock = NoSock
    BY <1>2 DEF WindowType, Forgets
  <2>2. window' = [window EXCEPT ![w] = d]
    BY <1>8
  <2> HIDE DEF d
  <2>3. /\ window' \in [Windows -> WindowType] /\ window'[w] = d
        /\ \A v \in Windows : v # w => window'[v] = window[v]
    BY <1>2, <2>1, <2>2 DEF w
  <2>4. \A v \in Windows :
          /\ window'[v].page = window[v].page /\ window'[v].links = window[v].links
          /\ window'[v].memo = window[v].memo /\ window'[v].down = window[v].down
          /\ window'[v].table = window[v].table /\ window'[v].status = window[v].status
          /\ \/ window'[v].marks = {}
             \/ window'[v].sock = window[v].sock /\ window'[v].marks = window[v].marks
    BY <2>1, <2>3
  <2>5. PagesInv'
    BY <1>1, <2>3, <2>4, CommandsKeep
  <2>6. BuffersSound'
    BY <1>2, <1>8, <2>4, SameLines
  <2>7. /\ e \in CallType /\ e.win = w /\ e.cmd = Top.cmd /\ e.next = 1 /\ e.at = "test"
    BY <1>2 DEF Call, CallType
  <2>8. CallSound(e, {}, window', buffer')
    BY <2>7 DEF CallSound
  <2>9. ~Alive(w, window, buffer)
    BY <1>8 DEF Alive
  <2>10. todo' = Append(Front(todo), e)
    BY <1>8 DEF Continues
  <2> HIDE DEF e
  <2> QED
    BY <1>1, <1>4, <2>5, <2>6, <2>7, <2>8, <2>9, <2>10, TopGoesOn
<1> QED
  BY <1>1, <1>6, <1>7, <1>8 DEF c, w

(* The next needed command is the first that has no mark. *)
LEMMA NeededKeeps ==
  ASSUME PagesInv, CallsInv, CallNeeded
  PROVE  CallsInv'
<1> DEFINE i == Min(Unmarked(Top))
           need == Needs[Top.cmd]
           c == [Top EXCEPT !.next = i + 1, !.at = "wait"]
           e == Call(Top.win, need[i])
           s == todo
           f == Front(s)
           n == Len(s)
           t == f \o <<c, e>>
<1>1. /\ s # <<>> /\ Top.at = "depend" /\ Unmarked(Top) # {} /\ todo' = t
      /\ window' = window /\ buffer' = buffer
  BY DEF CallNeeded, At, pages
<1>2. /\ Top \in CallType /\ Top.cmd \in Commands /\ Top.win \in Windows /\ Top.next \in Nat
      /\ Top.next > 0 /\ Alive(Top.win, window, buffer) /\ Passed(Top, {}, window)
  BY <1>1, TopCall DEF CallSound
<1>3. /\ need \in Seq(Commands) /\ Len(need) \in Nat /\ DOMAIN need = 1 .. Len(need)
      /\ \A j \in DOMAIN need : need[j] \in Commands
  BY <1>2, NeedsList
<1>4. /\ i \in DOMAIN need /\ i >= Top.next /\ i \in Nat
      /\ \A j \in Top.next .. Len(need) : j < i => need[j] \in window[Top.win].marks
  <2>1. Unmarked(Top) \subseteq Nat
    BY <1>2, <1>3 DEF Unmarked
  <2>2. \E x \in Unmarked(Top) : \A y \in Unmarked(Top) : x <= y
    BY <1>1, <2>1, LeastNat
  <2>3. i \in Unmarked(Top) /\ \A y \in Unmarked(Top) : i <= y
    BY <2>2 DEF Min
  <2> HIDE DEF i
  <2>4. i \in Top.next .. Len(need)
    BY <2>3 DEF Unmarked
  <2>5. ASSUME NEW j \in Top.next .. Len(need), j < i
        PROVE  need[j] \in window[Top.win].marks
    <3>1. j \notin Unmarked(Top)
      BY <2>1, <2>3, <2>5, <2>4, <1>2, <1>3
    <3> QED
      BY <3>1 DEF Unmarked
  <2> QED
    BY <2>4, <2>5, <1>2, <1>3
<1> HIDE DEF i
<1>5. /\ c \in CallType /\ c.win = Top.win /\ c.cmd = Top.cmd /\ c.next = i + 1 /\ c.at = "wait"
      /\ e \in CallType /\ e.win = Top.win /\ e.cmd = need[i] /\ e.next = 1 /\ e.at = "test"
  <2>1. need[i] \in Commands /\ i + 1 \in Nat
    BY <1>3, <1>4
  <2> HIDE DEF need
  <2>2. /\ c \in CallType /\ c.win = Top.win /\ c.cmd = Top.cmd /\ c.next = i + 1 /\ c.at = "wait"
    BY <1>2, <2>1 DEF CallType
  <2>3. /\ e \in CallType /\ e.win = Top.win /\ e.cmd = need[i] /\ e.next = 1 /\ e.at = "test"
    BY <1>2, <2>1 DEF CallType, Call
  <2> QED
    BY <2>2, <2>3
<1> HIDE DEF c, e, need
<1>6. /\ s \in Seq(CallType)
      /\ \A k \in DOMAIN s : CallSound(s[k], Above(s, k), window, buffer)
      /\ \A k \in DOMAIN s : k < n => s[k].at = "wait"
      /\ \A k, l \in DOMAIN s : s[k].win = s[l].win
  BY DEF CallsInv, StackSound
<1>7. /\ f \in Seq(CallType) /\ Len(f) = n - 1 /\ DOMAIN f = 1 .. n - 1
      /\ DOMAIN s = 1 .. n /\ n \in Nat /\ n > 0 /\ n \in DOMAIN s
      /\ \A k \in DOMAIN f : k \in DOMAIN s /\ f[k] = s[k] /\ k < n
      /\ Top = s[n]
  BY <1>1, <1>6, FrontElems DEF Top
<1> HIDE DEF s, f
<1>8. /\ t \in Seq(CallType) /\ Len(t) = n + 1 /\ DOMAIN t = 1 .. n + 1
      /\ \A k \in 1 .. n - 1 : t[k] = s[k] /\ k \in DOMAIN s
      /\ t[n] = c /\ t[n + 1] = e
  <2>1. <<c, e>> \in Seq(CallType) /\ Len(<<c, e>>) = 2
    BY <1>5
  <2>2. /\ t \in Seq(CallType) /\ Len(t) = n + 1
        /\ \A k \in 1 .. n - 1 : t[k] = f[k]
        /\ t[n] = <<c, e>>[1] /\ t[n + 1] = <<c, e>>[2]
    BY <1>7, <2>1
  <2> HIDE DEF t
  <2> QED
    BY <2>2, <1>7
<1> HIDE DEF t, n
<1>9. \A k \in DOMAIN t : t[k].win = Top.win
  BY <1>5, <1>6, <1>7, <1>8
<1>10. Passed(c, {e.cmd}, window)
  <2>1. ASSUME NEW j \in DOMAIN need, j < i + 1
        PROVE  need[j] \in window[Top.win].marks \cup {need[i]}
    <3>1. CASE j < Top.next
      BY <3>1, <1>2, <2>1 DEF Passed, need
    <3>2. CASE Top.next <= j /\ j < i
      BY <3>2, <1>2, <1>3, <1>4
    <3>3. CASE j = i
      BY <3>3
    <3> QED
      BY <3>1, <3>2, <3>3, <2>1, <1>2, <1>3, <1>4
  <2> QED
    BY <2>1, <1>5 DEF Passed, need
<1>11. ASSUME NEW k \in DOMAIN t PROVE CallSound(t[k], Above(t, k), window, buffer)
  <2>1. CASE k = n + 1
    BY <2>1, <1>5, <1>8 DEF CallSound
  <2>2. CASE k = n
    <3>1. Above(t, k) = {e.cmd}
      BY <2>2, <1>7, <1>8 DEF Above
    <3> QED
      BY <2>2, <3>1, <1>2, <1>4, <1>5, <1>8, <1>10 DEF CallSound
  <2>3. CASE k \in 1 .. n - 1
    <3>1. t[k] = s[k] /\ k \in DOMAIN s /\ k < n /\ k + 1 \in DOMAIN s
      BY <2>3, <1>7, <1>8
    <3>2. t[k + 1].cmd = s[k + 1].cmd
      <4>1. CASE k + 1 = n
        BY <4>1, <1>5, <1>7, <1>8
      <4>2. CASE k + 1 # n
        BY <4>2, <2>3, <1>7, <1>8
      <4> QED
        BY <4>1, <4>2
    <3>3. Above(t, k) = Above(s, k)
      BY <3>1, <3>2, <1>7, <1>8 DEF Above, n
    <3> QED
      BY <3>1, <3>3, <1>6
  <2> QED
    BY <2>1, <2>2, <2>3, <1>7, <1>8
<1>12. \A k \in DOMAIN t : k < Len(t) => t[k].at = "wait"
  <2>1. ASSUME NEW k \in DOMAIN t, k < Len(t)
        PROVE  t[k].at = "wait"
    <3>1. CASE k = n
      BY <3>1, <1>5, <1>8
    <3>2. CASE k # n
      <4>1. k \in 1 .. n - 1
        BY <3>2, <2>1, <1>7, <1>8
      <4>2. t[k] = s[k] /\ k \in DOMAIN s /\ k < n
        BY <4>1, <1>7, <1>8
      <4> QED
        BY <4>2, <1>6
    <3> QED
      BY <3>1, <3>2
  <2> QED
    BY <2>1
<1>13. StackSound(t, window, buffer)
  BY <1>8, <1>9, <1>11, <1>12 DEF StackSound
<1>14. BuffersSound'
  BY <1>1, SameLines DEF CallsInv, BuffersSound, PagesInv
<1> QED
  BY <1>1, <1>13, <1>14 DEF CallsInv

(* Every needed command of the one that is sent has its mark, and so its line. *)
LEMMA SendKeeps ==
  ASSUME PagesInv, CallsInv, SendCommand
  PROVE  PagesInv' /\ CallsInv'
<1> DEFINE w == Top.win
           r == window[w]
           own == r.sock
           x == Top.cmd
           c == [Top EXCEPT !.at = "reset"]
           d == [r EXCEPT !.marks = @ \cup {x}]
           l == buffer[own].lines
           m == Append(l, x)
           k == [buffer[own] EXCEPT !.lines = m]
<1>1. /\ todo # <<>> /\ Top.at = "depend" /\ Unmarked(Top) = {} /\ lisp' = lisp /\ lost' = lost
      /\ buffer' = IF buffer[own].state = "alive" THEN [buffer EXCEPT ![own].lines = Append(@, x)] ELSE buffer
      /\ window' = [window EXCEPT ![w].marks = @ \cup {x}]
      /\ Continues(c)
  BY DEF SendCommand, At
<1>2. /\ Top \in CallType /\ w \in Windows /\ x \in Commands /\ Top.next \in Nat /\ Top.next > 0
      /\ Alive(w, window, buffer) /\ Passed(Top, {}, window)
      /\ window \in [Windows -> WindowType] /\ r \in WindowType
      /\ buffer \in [Buffers -> [state : {"unused", "alive", "dead"}, lines : Seq(Commands)]]
      /\ BuffersSound
  BY <1>1, TopCall DEF CallSound, PagesInv, CallsInv, BuffersSound
<1>3. /\ own \in Buffers /\ buffer[own].state = "alive" /\ own # NoSock /\ r.marks \in SUBSET Commands
      /\ \A v \in Windows : window[v].sock \in Buffers \cup {NoSock}
  BY <1>2, WindowParts DEF Alive
<1>4. /\ c \in CallType /\ c.win = w /\ c.cmd = x /\ c.at = "reset" /\ c.next = Top.next
  BY <1>2 DEF CallType
<1>5. window' = [window EXCEPT ![w] = d] /\ buffer' = [buffer EXCEPT ![own] = k] /\ todo' = Append(Front(todo), c)
  BY <1>1, <1>3 DEF Continues
<1>6. /\ d \in WindowType
      /\ d.page = r.page /\ d.links = r.links /\ d.memo = r.memo /\ d.down = r.down
      /\ d.table = r.table /\ d.status = r.status /\ d.marks = r.marks \cup {x} /\ d.sock = own
  <2>1. r.marks \cup {x} \in SUBSET Commands
    BY <1>2, <1>3
  <2> QED
    BY <1>2, <2>1 DEF WindowType
<1>7. /\ m \in Seq(Commands) /\ DOMAIN m = 1 .. Len(l) + 1 /\ DOMAIN l = 1 .. Len(l) /\ Len(l) \in Nat
      /\ \A i \in DOMAIN l : i \in DOMAIN m /\ m[i] = l[i]
      /\ m[Len(l) + 1] = x
      /\ \A i \in DOMAIN m : i \in DOMAIN l \/ i = Len(l) + 1
  BY <1>2, <1>3, AppendElems
<1>8. /\ k \in [state : {"unused", "alive", "dead"}, lines : Seq(Commands)]
      /\ k.state = "alive" /\ k.lines = m
  <2>1. /\ own \in Buffers /\ m \in Seq(Commands)
        /\ buffer \in [Buffers -> [state : {"unused", "alive", "dead"}, lines : Seq(Commands)]]
        /\ buffer[own].state = "alive"
    BY <1>2, <1>3, <1>7
  <2> HIDE DEF m, own
  <2> QED
    BY <2>1
<1> HIDE DEF k, m, d, c, own
<1>9. /\ window' \in [Windows -> WindowType] /\ window'[w] = d
      /\ \A v \in Windows : v # w => window'[v] = window[v]
  BY <1>2, <1>5, <1>6
<1>10. /\ buffer' \in [Buffers -> [state : {"unused", "alive", "dead"}, lines : Seq(Commands)]]
       /\ buffer'[own] = k /\ \A a \in Buffers : a # own => buffer'[a] = buffer[a]
  BY <1>2, <1>3, <1>5, <1>8
<1>11. \A v \in Windows :
          /\ window'[v].page = window[v].page /\ window'[v].links = window[v].links
          /\ window'[v].memo = window[v].memo /\ window'[v].down = window[v].down
          /\ window'[v].table = window[v].table /\ window'[v].status = window[v].status
          /\ window'[v].sock = window[v].sock
  BY <1>6, <1>9 DEF own
<1>12. PagesInv'
  BY <1>1, <1>9, <1>11, CommandsKeep
<1>13. r.marks \subseteq {l[i] : i \in DOMAIN l}
  BY <1>2, <1>3 DEF BuffersSound, Got, own
<1>14. InOrder(m)
  <2>1. InOrder(l)
    BY <1>2, <1>3, OrderOfLines DEF BuffersSound
  <2>2. ASSUME NEW y \in ToSet(Needs[x])
        PROVE  \E j \in 1 .. Len(l) : l[j] = y
    <3>1. PICK j \in DOMAIN Needs[x] : y = Needs[x][j]
      BY <2>2 DEF ToSet
    <3>2. DOMAIN Needs[x] = 1 .. Len(Needs[x]) /\ Len(Needs[x]) \in Nat
      BY <1>2, NeedsList
    <3>3. CASE j < Top.next
      <4>1. y \in r.marks
        BY <3>1, <3>3, <1>2 DEF Passed
      <4> QED
        BY <4>1, <1>7, <1>13
    <3>4. CASE ~(j < Top.next)
      <4>1. j \in Top.next .. Len(Needs[x])
        BY <3>2, <3>4, <1>2
      <4>2. y \in r.marks
        BY <4>1, <3>1, <1>1 DEF Unmarked
      <4> QED
        BY <4>2, <1>7, <1>13
    <3> QED
      BY <3>3, <3>4
  <2>3. ASSUME NEW i \in DOMAIN m, NEW y \in ToSet(Needs[m[i]])
        PROVE  \E j \in 1 .. i - 1 : m[j] = y
    <3>1. CASE i \in DOMAIN l
      <4>1. PICK j \in 1 .. i - 1 : l[j] = y
        BY <2>1, <2>3, <3>1, <1>7 DEF InOrder
      <4>2. j \in DOMAIN l
        BY <3>1, <4>1, <1>7
      <4> QED
        BY <4>1, <4>2, <1>7
    <3>2. CASE i = Len(l) + 1
      <4>1. PICK j \in 1 .. Len(l) : l[j] = y
        BY <2>2, <2>3, <3>2, <1>7
      <4>2. j \in 1 .. i - 1 /\ m[j] = y
        BY <4>1, <3>2, <1>7
      <4> QED
        BY <4>2
    <3> QED
      BY <3>1, <3>2, <1>7
  <2> QED
    BY <2>3 DEF InOrder
<1>15. CommandsInOrder'
  <2>1. \A b \in Buffers : InOrder(buffer[b].lines)
    BY <1>2, OrderOfLines DEF BuffersSound
  <2>2. \A b \in Buffers : InOrder(buffer'[b].lines)
    BY <2>1, <1>8, <1>10, <1>14
  <2> QED
    BY <2>2, OrderOfNewLines
<1> DEFINE got(a) == {buffer[a].lines[i] : i \in DOMAIN buffer[a].lines}
           gotNow(a) == {buffer'[a].lines[i] : i \in DOMAIN buffer'[a].lines}
<1>16. \A a \in Buffers : got(a) \subseteq gotNow(a)
  <2>1. ASSUME NEW a \in Buffers, NEW i \in DOMAIN buffer[a].lines
        PROVE  i \in DOMAIN buffer'[a].lines /\ buffer'[a].lines[i] = buffer[a].lines[i]
    <3>1. CASE a = own
      BY <3>1, <2>1, <1>7, <1>8, <1>10
    <3>2. CASE a # own
      BY <3>2, <1>10
    <3> QED
      BY <3>1, <3>2
  <2> QED
    BY <2>1
<1>17. x \in gotNow(own)
  <2>1. Len(l) + 1 \in DOMAIN m
    BY <1>7
  <2> QED
    BY <2>1, <1>3, <1>7, <1>8, <1>10
<1>18. ASSUME NEW v \in Windows
       PROVE  /\ window'[v].sock = NoSock => window'[v].marks = {}
              /\ window'[v].sock # NoSock => window'[v].marks \subseteq gotNow(window'[v].sock)
  <2>1. /\ window[v].sock = NoSock => window[v].marks = {}
        /\ window[v].sock # NoSock => window[v].marks \subseteq got(window[v].sock)
    BY <1>2 DEF BuffersSound, Got
  <2> HIDE DEF got, gotNow
  <2>2. CASE v = w
    BY <2>1, <2>2, <1>3, <1>6, <1>9, <1>16, <1>17 DEF own
  <2>3. CASE v # w
    BY <2>1, <2>3, <1>3, <1>9, <1>16
  <2> QED
    BY <2>2, <2>3
<1>19. \A a \in Buffers : buffer'[a].state = "unused" => buffer'[a].lines = <<>>
  BY <1>2, <1>8, <1>10 DEF BuffersSound
<1>20. BuffersSound'
  BY <1>10, <1>15, <1>18, <1>19 DEF BuffersSound, Got
<1>21. Alive(w, window', buffer') /\ r.marks \subseteq window'[w].marks /\ x \in window'[w].marks
  BY <1>3, <1>6, <1>8, <1>9, <1>10 DEF Alive
<1>22. CallSound(c, {}, window', buffer')
  BY <1>2, <1>4, <1>21 DEF CallSound
<1> QED
  BY <1>1, <1>4, <1>5, <1>12, <1>20, <1>21, <1>22, TopGoesOn

(* Back to the caller, which waited for the command now marked. *)
LEMMA ResetKeeps ==
  ASSUME PagesInv, CallsInv, ResetEnded
  PROVE  CallsInv'
<1> DEFINE s == todo
           n == Len(s)
           t == Front(s)
<1>1. s # <<>> /\ Top.at = "reset" /\ todo' = t /\ window' = window /\ buffer' = buffer
  BY DEF ResetEnded, At, pages
<1>2. /\ s \in Seq(CallType)
      /\ \A k \in DOMAIN s : CallSound(s[k], Above(s, k), window, buffer)
      /\ \A k \in DOMAIN s : k < n => s[k].at = "wait"
      /\ \A k, l \in DOMAIN s : s[k].win = s[l].win
  BY DEF CallsInv, StackSound
<1>3. /\ t \in Seq(CallType) /\ Len(t) = n - 1 /\ DOMAIN t = 1 .. n - 1
      /\ DOMAIN s = 1 .. n /\ n \in Nat /\ n > 0 /\ n \in DOMAIN s
      /\ \A k \in DOMAIN t : k \in DOMAIN s /\ t[k] = s[k] /\ k < n
      /\ Top = s[n]
  BY <1>1, <1>2, FrontElems DEF Top
<1>4. Top.cmd \in window[Top.win].marks
  BY <1>1, TopCall DEF CallSound
<1> HIDE DEF s, t
<1>5. ASSUME NEW k \in DOMAIN t PROVE CallSound(t[k], Above(t, k), window, buffer)
  <2>1. /\ t[k] = s[k] /\ s[k].at = "wait" /\ s[k].win = Top.win
        /\ CallSound(s[k], Above(s, k), window, buffer)
    BY <1>2, <1>3
  <2>2. CASE k = n - 1
    <3>1. Above(t, k) = {} /\ Above(s, k) = {Top.cmd}
      BY <2>2, <1>3 DEF Above
    <3>2. Passed(s[k], {}, window)
      BY <2>1, <3>1, <1>4 DEF CallSound, Passed
    <3> QED
      BY <2>1, <3>1, <3>2 DEF CallSound
  <2>3. CASE k # n - 1
    <3>1. Above(t, k) = Above(s, k)
      <4>1. k + 1 \in DOMAIN t /\ k < Len(t) /\ k < Len(s)
        BY <2>3, <1>3
      <4> QED
        BY <4>1, <1>3 DEF Above
    <3> QED
      BY <2>1, <3>1
  <2> QED
    BY <2>2, <2>3
<1>6. \A k \in DOMAIN t : k < Len(t) => t[k].at = "wait"
  BY <1>2, <1>3
<1>7. \A k, l \in DOMAIN t : t[k].win = t[l].win
  BY <1>2, <1>3
<1>8. StackSound(t, window, buffer)
  BY <1>3, <1>5, <1>6, <1>7 DEF StackSound
<1>9. BuffersSound'
  BY <1>1, SameLines DEF CallsInv, BuffersSound, PagesInv
<1> QED
  BY <1>1, <1>8, <1>9 DEF CallsInv

LEMMA SeenKeeps ==
  ASSUME PagesInv, CallsInv, OutputSeen
  PROVE  CallsInv'
<1> DEFINE c == [Top EXCEPT !.at = "depend"]
<1>1. /\ todo # <<>> /\ Top.at = "wait" /\ window' = window /\ buffer' = buffer
      /\ todo' = Append(Front(todo), c)
  BY DEF OutputSeen, At, pages, Continues
<1>2. Top \in CallType /\ CallSound(Top, {}, window, buffer)
  BY <1>1, TopCall
<1>3. /\ c \in CallType /\ c.win = Top.win /\ c.cmd = Top.cmd /\ c.next = Top.next /\ c.at = "depend"
  BY <1>2 DEF CallType
<1> HIDE DEF c
<1>4. CallSound(c, {}, window', buffer')
  BY <1>1, <1>2, <1>3 DEF CallSound, Passed
<1>5. BuffersSound'
  BY <1>1, SameLines DEF CallsInv, BuffersSound, PagesInv
<1>6. /\ Alive(Top.win, window, buffer) => Alive(Top.win, window', buffer')
      /\ window[Top.win].marks \subseteq window'[Top.win].marks
  BY <1>1
<1> QED
  BY <1>1, <1>3, <1>4, <1>5, <1>6, TopGoesOn

LEMMA EmptyStack ==
  ASSUME NEW win, NEW buf
  PROVE  StackSound(<<>>, win, buf)
<1>1. <<>> \in Seq(CallType) /\ DOMAIN <<>> = {}
  OBVIOUS
<1> QED
  BY <1>1 DEF StackSound

LEMMA ClickCommandKeeps ==
  ASSUME PagesInv, CallsInv, NEW w \in Windows, NEW c \in Commands, ClickCommand(w, c)
  PROVE  CallsInv'
<1> DEFINE e == Call(w, c)
           t == <<e>>
<1>1. todo' = t /\ window' = window /\ buffer' = buffer
  BY DEF ClickCommand, pages
<1>2. e \in CallType /\ e.next = 1 /\ e.at = "test"
  BY DEF Call, CallType
<1> HIDE DEF e
<1>3. t \in Seq(CallType) /\ Len(t) = 1 /\ DOMAIN t = {1} /\ t[1] = e
  BY <1>2
<1> HIDE DEF t
<1>4. \A i \in DOMAIN t : CallSound(t[i], Above(t, i), window, buffer)
  BY <1>2, <1>3 DEF CallSound
<1>5. StackSound(t, window, buffer)
  BY <1>3, <1>4 DEF StackSound
<1>6. BuffersSound'
  BY <1>1, SameLines DEF CallsInv, BuffersSound, PagesInv
<1> QED
  BY <1>1, <1>5, <1>6 DEF CallsInv

LEMMA DiesKeeps ==
  ASSUME PagesInv, CallsInv, NEW b \in Buffers, BufferDies(b), Careful
  PROVE  CallsInv'
<1> DEFINE k == [buffer[b] EXCEPT !.state = "dead"]
<1>1. /\ todo = <<>> /\ todo' = <<>> /\ window' = window
      /\ buffer' = [buffer EXCEPT ![b] = k] /\ buffer[b].state = "alive"
  BY DEF BufferDies, pages
<1>2. /\ buffer \in [Buffers -> [state : {"unused", "alive", "dead"}, lines : Seq(Commands)]]
      /\ BuffersSound /\ window \in [Windows -> WindowType]
  BY DEF CallsInv, BuffersSound, PagesInv
<1>3. /\ k \in [state : {"unused", "alive", "dead"}, lines : Seq(Commands)]
      /\ k.state = "dead" /\ k.lines = buffer[b].lines
  BY <1>2
<1> HIDE DEF k
<1>4. /\ buffer' \in [Buffers -> [state : {"unused", "alive", "dead"}, lines : Seq(Commands)]]
      /\ \A a \in Buffers : /\ buffer'[a].lines = buffer[a].lines
                            /\ buffer'[a].state = "unused" => buffer[a].state = "unused"
  BY <1>1, <1>2, <1>3
<1>5. BuffersSound'
  BY <1>1, <1>2, <1>4, SameLines
<1>6. StackSound(todo', window', buffer')
  BY <1>1, EmptyStack
<1> QED
  BY <1>5, <1>6 DEF CallsInv

(* A click between two commands. *)
LEMMA NavigationKeeps ==
  ASSUME PagesInv, CallsInv, todo = <<>>, UNCHANGED <<todo, buffer>>, MarksKept
  PROVE  CallsInv'
<1>1. \A w \in Windows : \/ window'[w].marks = {}
                         \/ window'[w].sock = window[w].sock /\ window'[w].marks = window[w].marks
  BY DEF MarksKept, KeepsMarks
<1>2. BuffersSound'
  BY <1>1, SameLines DEF CallsInv, BuffersSound, PagesInv
<1>3. StackSound(todo', window', buffer')
  BY EmptyStack
<1> QED
  BY <1>2, <1>3 DEF CallsInv

LEMMA StaysPut ==
  ASSUME PagesInv, UNCHANGED pages
  PROVE  PagesInv' /\ MarksKept
BY DEF pages, PagesInv, Open, Known, MarksKept, KeepsMarks

LEMMA UnchangedCalls ==
  ASSUME PagesInv, CallsInv, UNCHANGED <<pages, buffer, todo>>
  PROVE  PagesInv' /\ CallsInv'
<1>1. window' = window /\ buffer' = buffer /\ todo' = todo
  BY DEF pages
<1>2. BuffersSound'
  BY <1>1, SameLines DEF CallsInv, BuffersSound, PagesInv
<1>3. StackSound(todo', window', buffer')
  BY <1>1 DEF CallsInv
<1> QED
  BY <1>2, <1>3, StaysPut DEF CallsInv

(* Every click on a window's page. *)
LEMMA NavigateKeeps ==
  ASSUME PagesInv, Careful, NEW w \in Windows, Navigate(w)
  PROVE  PagesInv' /\ MarksKept /\ todo = <<>> /\ UNCHANGED <<todo, buffer>>
<1>1. ASSUME NEW kind \in {"up", "return"}, NEW via, ClickBack(w, kind, via)
      PROVE  PagesInv' /\ MarksKept /\ todo = <<>> /\ UNCHANGED <<todo, buffer>>
  <2>1. w \in Open /\ todo = <<>> /\ UNCHANGED <<todo, buffer>>
    BY <1>1 DEF ClickBack, Clicked, Idle, Open, commands
  <2> QED
    BY <1>1, <2>1, BackKeeps
<1>2. ASSUME NEW q \in Links(w), ClickLink(w, q)
      PROVE  PagesInv' /\ MarksKept /\ todo = <<>> /\ UNCHANGED <<todo, buffer>>
  <2>1. w \in Open /\ q \in Static
    BY <1>2, LinksLead DEF ClickLink
  <2>2. todo = <<>> /\ UNCHANGED <<todo, buffer>>
    BY <1>2 DEF ClickLink, Clicked, Idle, commands
  <2> QED
    BY <1>2, <2>1, <2>2, LinkKeeps
<1>3. ASSUME NEW q \in Links(w), ClickDownlink(w, q)
      PROVE  PagesInv' /\ MarksKept /\ todo = <<>> /\ UNCHANGED <<todo, buffer>>
  <2>1. w \in Open /\ find_page(q) \in Static
    BY <1>3, LinksLead
  <2>2. todo = <<>> /\ UNCHANGED <<todo, buffer>>
    BY <1>3 DEF ClickDownlink, Clicked, Idle, commands
  <2> QED
    BY <1>3, <2>1, <2>2, DownlinkKeeps
<1>4. ASSUME NEW q \in Links(w), ClickMemolink(w, q)
      PROVE  PagesInv' /\ MarksKept /\ todo = <<>> /\ UNCHANGED <<todo, buffer>>
  <2>1. w \in Open /\ q \in Static
    BY <1>4, LinksLead DEF ClickMemolink
  <2>2. todo = <<>> /\ UNCHANGED <<todo, buffer>>
    BY <1>4 DEF ClickMemolink, Clicked, Idle, commands
  <2> QED
    BY <1>4, <2>1, <2>2, MemolinkKeeps
<1>5. ASSUME NEW v \in Windows, NEW q \in Links(w), ClickWindowlink(w, v, q)
      PROVE  PagesInv' /\ MarksKept /\ todo = <<>> /\ UNCHANGED <<todo, buffer>>
  <2>1. q \in Static
    BY <1>5, LinksLead DEF ClickWindowlink
  <2>2. /\ OpensOn(v, q) /\ lisp' = lisp /\ lost' = lost
        /\ todo = <<>> /\ UNCHANGED <<todo, buffer>>
    BY <1>5 DEF ClickWindowlink, Clicked, Idle, commands
  <2> QED
    BY <2>1, <2>2, OpensStaticKeeps
<1>6. ASSUME NEW v \in Windows, ClickHelp(w, v)
      PROVE  PagesInv' /\ MarksKept /\ todo = <<>> /\ UNCHANGED <<todo, buffer>>
  <2>1. todo = <<>> /\ UNCHANGED <<todo, buffer>>
    BY <1>6 DEF ClickHelp, Clicked, Idle, commands
  <2> QED
    BY <1>6, <2>1, HelpKeeps
<1>7. ASSUME NEW parsed \in BOOLEAN, NEW k \in LispKinds(w), ClickLispLink(w, k, parsed)
      PROVE  PagesInv' /\ MarksKept /\ todo = <<>> /\ UNCHANGED <<todo, buffer>>
  <2>1. \E q, unparsed : LispTo(w, k[1], k[2], k[3], q, unparsed)
    BY <1>7 DEF ClickLispLink
  <2>2. w \in Open /\ todo = <<>> /\ UNCHANGED <<todo, buffer>>
    BY <2>1 DEF LispTo, Clicked, Idle, Open, commands
  <2> QED
    BY <1>7, <2>2, LispLinkKeeps
<1>8. ASSUME NEW parsed \in BOOLEAN, NEW v \in Windows, ClickLispWindowlink(w, v, parsed)
      PROVE  PagesInv' /\ MarksKept /\ todo = <<>> /\ UNCHANGED <<todo, buffer>>
  <2>1. todo = <<>> /\ UNCHANGED <<todo, buffer>>
    BY <1>8 DEF ClickLispWindowlink, Clicked, Idle, commands
  <2> QED
    BY <1>8, <2>1, LispWindowKeeps
<1>9. ASSUME ClickLispCommandQuit(w)
      PROVE  PagesInv' /\ MarksKept /\ todo = <<>> /\ UNCHANGED <<todo, buffer>>
  <2>1. todo = <<>> /\ exitHyperDoc(w)
    BY <1>9 DEF ClickLispCommandQuit, Clicked, Idle
  <2>2. UNCHANGED <<todo, buffer>>
    BY <2>1 DEF exitHyperDoc, commands
  <2> QED
    BY <2>1, <2>2, ExitKeeps
<1>10. ASSUME ClickQuit(w)
       PROVE  PagesInv' /\ MarksKept /\ todo = <<>> /\ UNCHANGED <<todo, buffer>>
  <2>1. todo = <<>> /\ UNCHANGED <<todo, buffer>>
    BY <1>10 DEF ClickQuit, ClickDownlink, exitHyperDoc, Clicked, Idle, commands
  <2> QED
    BY <1>10, <2>1, QuitKeeps
<1>11. ASSUME ClickQuitPage(w)
       PROVE  PagesInv' /\ MarksKept /\ todo = <<>> /\ UNCHANGED <<todo, buffer>>
  <2>1. exitHyperDoc(w) /\ todo = <<>> /\ UNCHANGED <<todo, buffer>>
    BY <1>11 DEF ClickQuitPage, exitHyperDoc, Clicked, Idle, commands
  <2> QED
    BY <2>1, ExitKeeps
<1> QED
  BY <1>1, <1>2, <1>3, <1>4, <1>5, <1>6, <1>7, <1>8, <1>9, <1>10, <1>11 DEF Navigate

-----------------------------------------------------------------------------
(* The invariant of the specification.                                       *)

DocInv == PagesInv /\ CallsInv

LEMMA InitDoc ==
  ASSUME Init
  PROVE  DocInv
<1> DEFINE n == NewWindow(Root)
<1>1. /\ window = [w \in Windows |-> IF w = Parent THEN n ELSE NoWindow]
      /\ lisp = [p \in LispPages |-> "new"] /\ lost = {} /\ todo = <<>>
      /\ buffer = [b \in Buffers |-> [state |-> "unused", lines |-> <<>>]]
  BY DEF Init
<1>2. Root \in Pages /\ Root \notin LispPages /\ NoPage \notin LispPages
  BY HyperDocAssumption DEF Pages
<1>3. /\ <<>> \in Seq([page : Pages, top : 0 .. MaxDownlinkDepth])
      /\ <<>> \in Seq(Pages \cup {Stale}) /\ <<>> \in Seq(Pages) /\ <<>> \in Seq(Commands)
      /\ Len(<<>>) = 0 /\ DOMAIN <<>> = {}
  OBVIOUS
<1>4. /\ NoWindow \in WindowType /\ NoWindow.status = "closed" /\ NoWindow.page = NoPage
      /\ NoWindow.memo = <<>> /\ NoWindow.down = <<>> /\ NoWindow.links = NoPage
      /\ NoWindow.table = {} /\ NoWindow.sock = NoSock /\ NoWindow.marks = {}
  BY <1>3 DEF NoWindow, WindowType, Shows
<1>5. /\ n \in WindowType /\ n.status = "unmapped" /\ n.page = Root
      /\ n.memo = <<>> /\ n.down = <<>> /\ n.links = NoPage
      /\ n.table = {} /\ n.sock = NoSock /\ n.marks = {}
  <2>1. n = [NoWindow EXCEPT !.status = "unmapped", !.page = Root] /\ Root \in Shows
    BY <1>2 DEF NewWindow, Shows
  <2> HIDE DEF n
  <2> QED
    BY <2>1, <1>4 DEF WindowType
<1> HIDE DEF n
<1>6. Behind(n) = {} /\ Behind(NoWindow) = {}
  BY <1>3, <1>4, <1>5 DEF Behind
<1>7. HeldPages(n) = {} /\ HeldPages(NoWindow) = {}
  BY <1>2, <1>4, <1>5, <1>6 DEF HeldPages
<1>8. WindowSound(n)
  <2>1. WaySound(n)
    BY <1>3, <1>5, HyperDocAssumption DEF WaySound, TopsSound, RememberedOnce
  <2> QED
    BY <2>1, <1>2, <1>5, <1>6 DEF WindowSound
<1>9. \A w \in Windows : window[w] = n \/ (window[w] = NoWindow /\ w \notin Open)
  BY <1>1, <1>4 DEF Open
<1>10. PagesInv
  <2>1. Known = {}
    BY <1>1 DEF Known
  <2>2. \A w \in Open : WindowSound(window[w])
    BY <1>8, <1>9 DEF Open
  <2>3. \A w \in Windows : HeldPages(window[w]) = {}
    BY <1>7, <1>9
  <2>4. /\ window \in [Windows -> WindowType]
        /\ lisp \in [LispPages -> {"new", "known", "destroyed"}] /\ lost \subseteq LispPages
    BY <1>1, <1>4, <1>5
  <2> QED
    BY <2>1, <2>2, <2>3, <2>4 DEF PagesInv
<1>11. BuffersSound
  <2>1. buffer \in [Buffers -> [state : {"unused", "alive", "dead"}, lines : Seq(Commands)]]
    BY <1>1, <1>3
  <2>2. \A b \in Buffers : buffer[b].lines = <<>>
    BY <1>1
  <2>3. CommandsInOrder
    BY <2>2, <1>3 DEF CommandsInOrder
  <2>4. \A w \in Windows : window[w].sock = NoSock /\ window[w].marks = {}
    BY <1>4, <1>5, <1>9
  <2> QED
    BY <2>1, <2>2, <2>3, <2>4 DEF BuffersSound
<1> QED
  BY <1>1, <1>10, <1>11, EmptyStack DEF DocInv, CallsInv

LEMMA NextDoc ==
  ASSUME DocInv, Careful, Next
  PROVE  DocInv'
<1>1. PagesInv /\ CallsInv
  BY DEF DocInv
<1>2. ASSUME NEW w \in Windows, CreateWindow(w)
      PROVE  DocInv'
  <2>1. PagesInv' /\ MarksKept
    BY <1>1, <1>2, CreateKeeps
  <2>2. todo = <<>> /\ UNCHANGED <<todo, buffer>>
    BY <1>2 DEF CreateWindow, Idle, commands
  <2> QED
    BY <1>1, <2>1, <2>2, NavigationKeeps DEF DocInv
<1>3. ASSUME NEW w \in Windows, Navigate(w)
      PROVE  DocInv'
  BY <1>1, <1>3, NavigateKeeps, NavigationKeeps DEF DocInv
<1>4. ASSUME NEW w \in Windows, NEW c \in Commands, ClickCommand(w, c)
      PROVE  DocInv'
  <2>1. UNCHANGED pages
    BY <1>4 DEF ClickCommand
  <2> QED
    BY <1>1, <1>4, <2>1, StaysPut, ClickCommandKeeps DEF DocInv
<1>5. CASE TestBuffer
  BY <1>1, <1>5, TestKeeps DEF DocInv
<1>6. CASE CallNeeded
  <2>1. UNCHANGED pages
    BY <1>6 DEF CallNeeded
  <2> QED
    BY <1>1, <1>6, <2>1, StaysPut, NeededKeeps DEF DocInv
<1>7. CASE SendCommand
  BY <1>1, <1>7, SendKeeps DEF DocInv
<1>8. CASE ResetEnded
  <2>1. UNCHANGED pages
    BY <1>8 DEF ResetEnded
  <2> QED
    BY <1>1, <1>8, <2>1, StaysPut, ResetKeeps DEF DocInv
<1>9. CASE OutputSeen
  <2>1. UNCHANGED pages
    BY <1>9 DEF OutputSeen
  <2> QED
    BY <1>1, <1>9, <2>1, StaysPut, SeenKeeps DEF DocInv
<1>10. CASE EndOfOutput
  <2>1. UNCHANGED <<pages, buffer, todo>>
    BY <1>10 DEF EndOfOutput
  <2> QED
    BY <1>1, <2>1, UnchangedCalls DEF DocInv
<1>11. CASE FricasEnds
  <2>1. exitHyperDoc(Parent) /\ todo = <<>> /\ UNCHANGED <<todo, buffer>>
    BY <1>11 DEF FricasEnds, Idle, exitHyperDoc, commands
  <2>2. Parent \in Windows
    BY HyperDocAssumption
  <2> QED
    BY <1>1, <2>1, <2>2, ExitKeeps, NavigationKeeps DEF DocInv
<1>12. ASSUME NEW b \in Buffers, BufferDies(b)
       PROVE  DocInv'
  <2>1. UNCHANGED pages
    BY <1>12 DEF BufferDies
  <2> QED
    BY <1>1, <1>12, <2>1, StaysPut, DiesKeeps DEF DocInv
<1> QED
  BY <1>2, <1>3, <1>4, <1>5, <1>6, <1>7, <1>8, <1>9, <1>10, <1>11, <1>12 DEF Next, Issue

LEMMA DocInvariant == Careful => (Spec => []DocInv)
<1> SUFFICES ASSUME Careful
             PROVE  Spec => []DocInv
  OBVIOUS
<1>1. Init => DocInv
  BY InitDoc
<1>2. DocInv /\ [Next]_vars => DocInv'
  <2>1. ASSUME DocInv, UNCHANGED vars
        PROVE  DocInv'
    <3>1. UNCHANGED <<pages, buffer, todo>>
      BY <2>1 DEF vars, commands
    <3> QED
      BY <2>1, <3>1, UnchangedCalls DEF DocInv
  <2> QED
    BY <2>1, NextDoc
<1> QED
  BY <1>1, <1>2, PTL DEF Spec

-----------------------------------------------------------------------------
(***************************************************************************)
(* The pages of Lisp a window shows or can go back to are known to Lisp,   *)
(* in the window's own table, and no other window's, whatever is clicked   *)
(* in whatever windows: Up and Return destroy what they leave (kill_page)  *)
(* and never what is still remembered (PagesAlive).                        *)
(***************************************************************************)
THEOREM PagesStayAlive == Careful => (Spec => []PagesAlive)
<1>1. DocInv => PagesAlive
  <2> SUFFICES ASSUME PagesInv PROVE PagesAlive
    BY DEF DocInv
  <2>1. \A w \in Open : Held(w) \cap LispPages = HeldPages(window[w])
    <3> TAKE w \in Open
    <3>1. window[w].links \in {window[w].page, NoPage} /\ NoPage \notin LispPages
      BY HyperDocAssumption, OpenWindow DEF WindowSound
    <3> QED
      BY <3>1 DEF Held, HeldPages, Behind, ToSet
  <2>2. Open \subseteq Windows /\ \A w \in Windows \ Open : HeldPages(window[w]) = {}
    BY DEF PagesInv, Open
  <2>3. ASSUME NEW w \in Open, NEW p \in Held(w) \cap LispPages
        PROVE  /\ lisp[p] = "known" /\ p \in window[w].table
               /\ \A v \in Open \ {w} : p \notin Held(v)
    <3>1. p \in HeldPages(window[w])
      BY <2>1, <2>3
    <3>2. lisp[p] = "known" /\ p \in window[w].table
      BY <2>2, <3>1 DEF PagesInv, Known
    <3>3. ASSUME NEW v \in Open \ {w} PROVE p \notin Held(v)
      <4>1. HeldPages(window[v]) \cap HeldPages(window[w]) = {}
        BY <2>2 DEF PagesInv
      <4> QED
        BY <2>1, <3>1, <4>1
    <3> QED
      BY <3>2, <3>3
  <2>4. ASSUME NEW p \in LispPages, lisp[p] = "known"
        PROVE  p \in lost \cup UNION {Held(w) : w \in Open}
    <3>1. p \in lost \/ \E w \in Windows : p \in HeldPages(window[w])
      BY <2>4 DEF PagesInv, Known
    <3>2. p \in lost \/ \E w \in Open : p \in HeldPages(window[w])
      BY <2>2, <3>1
    <3> QED
      BY <2>1, <3>2
  <2> QED
    BY <2>3, <2>4 DEF PagesAlive
<1> QED
  BY <1>1, DocInvariant, PTL

(***************************************************************************)
(* A buffer gets every command after the commands whose results it uses,   *)
(* through issue_dependent_commands, a buffer that died and was started    *)
(* again, and ends of output that came too early (CommandsInOrder).        *)
(***************************************************************************)
THEOREM CommandsComeInOrder == Careful => (Spec => []CommandsInOrder)
<1>1. DocInv => CommandsInOrder
  BY DEF DocInv, CallsInv, BuffersSound
<1> QED
  BY <1>1, DocInvariant, PTL
=================================================================================
