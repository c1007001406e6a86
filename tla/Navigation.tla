------------------------------ MODULE Navigation ------------------------------
(* What HyperDoc promises its reader, as its pages on links (HTXLinkPage1)     *)
(* describe it: every window shows a page and remembers the way that led       *)
(* there.  A window's way is a sequence of levels, a level a sequence of       *)
(* pages, and the last page of the last level is the one shown.  A downlink    *)
(* lengthens the last level, a memolink opens a level of its own, Up goes back *)
(* one page and Return to the page with the memolink of the last level.        *)
EXTENDS Naturals, Sequences, SequencesExt

CONSTANTS
  Windows, Parent,   \* the windows and the first of them
  Pages, Root,       \* the pages, and the one HyperDoc starts with
  NoPage,            \* what a closed window shows
  MaxMemoDepth,      \* levels that can be opened
  MaxDownlinkDepth   \* downlinks that can be remembered in all levels together

VARIABLES
  nav,    \* nav[w]: the levels of window w, <<>> when it is closed
  click   \* the last navigation: what was asked, in which window, what it showed

vars == <<nav, click>>

ReplaceLast(s, x) == [s EXCEPT ![Len(s)] = x]

Followed(t, q) == ReplaceLast(t, ReplaceLast(Last(t), q))

(* A link that finds no room is followed all the same, but not remembered.     *)
Downlinked(t, q) == IF Len(FlattenSeq(t)) - Len(t) = MaxDownlinkDepth
                    THEN Followed(t, q)
                    ELSE ReplaceLast(t, Append(Last(t), q))

Memolinked(t, q) == IF Len(t) - 1 = MaxMemoDepth THEN Followed(t, q)
                                                 ELSE Append(t, <<q>>)

Returned(t) == IF Len(t) > 1 THEN Front(t) ELSE t

Upped(t) == IF Len(Last(t)) > 1 THEN ReplaceLast(t, Front(Last(t))) ELSE Returned(t)

Opened(w) == nav[w] # <<>>

(* A click in window w that shows page q at the end of the way t.              *)
Goes(kind, w, q, t) == /\ click' = [kind |-> kind, win |-> w, to |-> q]
                       /\ Opened(w)
                       /\ nav' = [nav EXCEPT ![w] = t]
                       /\ q = Last(Last(t))

Follow(w, q)   == Goes("link", w, q, Followed(nav[w], q))
Downlink(w, q) == Goes("downlink", w, q, Downlinked(nav[w], q))
Memolink(w, q) == Goes("memolink", w, q, Memolinked(nav[w], q))
Up(w, q)       == Goes("up", w, q, Upped(nav[w]))
Return(w, q)   == Goes("return", w, q, Returned(nav[w]))

Open(w, q) == /\ click' = [kind |-> "open", win |-> w, to |-> q]
              /\ ~Opened(w)
              /\ nav' = [nav EXCEPT ![w] = <<<<q>>>>]

(* Closing the first window ends HyperDoc and with it every other window.      *)
Close(w) == /\ click' = [kind |-> "close", win |-> w, to |-> NoPage]
            /\ Opened(w)
            /\ nav' = [v \in Windows |-> IF w \in {v, Parent} THEN <<>> ELSE nav[v]]

Init == /\ nav = [w \in Windows |-> IF w = Parent THEN <<<<Root>>>> ELSE <<>>]
        /\ click = [kind |-> "open", win |-> Parent, to |-> Root]

Next == \E w \in Windows :
          \/ \E q \in Pages : \/ Follow(w, q) \/ Downlink(w, q) \/ Memolink(w, q)
                              \/ Up(w, q) \/ Return(w, q) \/ Open(w, q)
          \/ Close(w)

Spec == Init /\ [][Next]_vars
===============================================================================
