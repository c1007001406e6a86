------------------------------- MODULE HyperDoc -------------------------------
(* HyperDoc (src/hyper): the windows, the pages they show and remember, the    *)
(* pages Lisp generates for them, and the commands of a page, which go to an   *)
(* interpreter window (a buffer) of its own after the commands they need.      *)
EXTENDS Naturals, Sequences, FiniteSets, SequencesExt, FiniteSetsExt

CONSTANTS
  Windows, Parent,     \* top-level windows; Parent is gParentWindow
  Static,              \* the pages of the page database (ht.db)
  LispPages,           \* the pages Lisp can generate, each under a new name
  Missing,             \* a page name that links use and the database lacks
  Root, UnknownPage, ErrorPage, QuitAsk, NotConnectedPage,
  HelpPage, NoMoreHelpPage, \* TopLevelHelpPage and the page after it
  Worksheet,           \* the page with commands
  Broken,              \* the pages of Static that cannot be formatted
  Targets,             \* Targets[p]: the names the links of page p lead to
  LispLinksOn, GoBackOn, ExitOn, \* the pages with links that call Lisp, to
                       \* UpPage and ReturnPage, and to QuitPage
  NoPage, Stale, NoSock,
  MaxMemoDepth, MaxDownlinkDepth,
  Commands, Needs,     \* Needs[c]: the commands whose labels c lists as \free
  Buffers,             \* the interpreter windows that can be started
  MaxClicks,           \* bound: clicks in a behaviour
  MaxCommands,         \* bound: those of them on commands
  Careful              \* TRUE: leaves out the steps of ClickBack, BufferDies,
                       \* EndOfOutput and ClickLispCommandQuit that do harm

ASSUME HyperDocAssumption ==
  /\ Parent \in Windows
  /\ {Root, UnknownPage, ErrorPage, QuitAsk, NotConnectedPage, HelpPage, NoMoreHelpPage} \subseteq Static
  /\ Static \cap LispPages = {} /\ Broken \subseteq Static
  /\ {Missing, NoPage, Stale} \cap (Static \cup LispPages) = {}
  /\ \A p \in Static \cup LispPages : Targets[p] \subseteq Static \cup {Missing}
  /\ Needs \in [Commands -> Seq(Commands)]
  /\ NoSock \notin Buffers
  /\ {MaxMemoDepth, MaxDownlinkDepth, MaxClicks, MaxCommands} \subseteq Nat
  /\ Careful \in BOOLEAN

VARIABLES
  hd,        \* "running", "exited", or "crashed" (display_page of no page)
  connected, \* MenuServerOpened: FriCAS runs with HyperDoc
  window,    \* the HDWindow records, with the page objects of their page tables
  lisp,      \* Lisp's pages: "new" names, "known" in $activePageList, "destroyed"
  lost,      \* known pages that were left for good without Lisp being told
  buffer,    \* what the interpreter windows have received, and whether they live
  todo,      \* the calls of issue_spadcommand in progress, the innermost last
  ended,     \* gIsEndOfOutput
  running,   \* commands sent whose output has not ended
  click,     \* the last navigation
  clicks, asked \* bound counters: all clicks, clicks on commands

pages == <<window, lisp, lost>>
commands == <<buffer, todo, ended, running, asked>>
vars == <<hd, connected, pages, commands, click, clicks>>

Pages == Static \cup LispPages

(* One HDWindow: fMemoStack with fDownLinkStackTop, fDownLinkStack up to its   *)
(* index, links for fWindowHashTable, table for the pages of Lisp that are in  *)
(* fPageHashTable; sock and marks belong to the window's Worksheet object, and *)
(* unknown is the type of its UnknownPage object.                              *)
NoWindow == [status |-> "closed", page |-> NoPage, links |-> NoPage,
             memo |-> <<>>, down |-> <<>>, table |-> {},
             sock |-> NoSock, marks |-> {}, unknown |-> "UnloadedPageType"]

(* init_top_window: the window is on its way to the screen, nothing is shown.  *)
NewWindow(q) == [NoWindow EXCEPT !.status = "unmapped", !.page = q]

Open == {w \in Windows : window[w].status # "closed"}

(* HyperDoc serves events only between two commands.                           *)
Idle == hd = "running" /\ todo = <<>>

Links(w) == IF window[w].status = "mapped" /\ window[w].page # Stale THEN Targets[window[w].page] ELSE {}

Clicked(w) == Idle /\ window[w].status = "mapped" /\ clicks < MaxClicks /\ clicks' = clicks + 1

Navigates(kind, w, q) == click' = [kind |-> kind, win |-> w, to |-> q]

Fresh == {p \in LispPages : lisp[p] = "new"}
NextFresh == CHOOSE p \in Fresh : TRUE

-------------------------------------------------------------------------------
(* Showing a page                                                              *)

(* A page that cannot be formatted is thrown away and ErrorPage is shown.      *)
Formatted(q) == IF q \in Broken THEN ErrorPage ELSE q

display_page(r, q) ==
  [r EXCEPT !.page = Formatted(q), !.links = Formatted(q),
            !.unknown = IF q = UnknownPage /\ @ = "UnloadedPageType" THEN "Normal" ELSE @]

(* create_window, when MapNotify arrives.                                      *)
CreateWindow(w) ==
  /\ Idle
  /\ window[w].status = "unmapped"
  /\ window' = [window EXCEPT ![w] =
                  [display_page(window[w], window[w].page) EXCEPT !.status = "mapped"]]
  /\ UNCHANGED <<hd, connected, lisp, lost, commands, click, clicks>>

(* find_page: a name that is not in the table leads to UnknownPage, which has  *)
(* the type UnknownPage when it has been loaded before.                        *)
find_page(q) == IF q = Missing THEN UnknownPage ELSE q
found_unknown(r, q) ==
  IF q = Missing /\ r.unknown = "Normal" THEN [r EXCEPT !.unknown = "UnknownPage"] ELSE r

DownFull(r) == Len(r.down) = MaxDownlinkDepth
MemoFull(r) == Len(r.memo) = MaxMemoDepth

downlink(r) == IF DownFull(r) THEN r ELSE [r EXCEPT !.down = Append(@, r.page)]
memolink(r) ==
  IF MemoFull(r) THEN r
  ELSE [r EXCEPT !.memo = Append(@, [page |-> r.page, top |-> Len(r.down)])]

(* The page of Lisp that r shows, when it is left without being remembered.    *)
Left(r) == {r.page} \cap LispPages

-------------------------------------------------------------------------------
(* Going back                                                                  *)

kill_page(r, killed) == [r EXCEPT !.table = @ \ killed]

Destroyed(killed) ==
  [p \in LispPages |-> IF p \in killed THEN "destroyed" ELSE lisp[p]]

KilledByReturn_Fault(r) ==
  {r.page} \cup {r.down[i] : i \in (Last(r.memo).top .. Len(r.down)) \cap DOMAIN r.down}
KilledByReturn(r) ==
  {r.page} \cup {r.down[i] : i \in Last(r.memo).top + 1 .. Len(r.down)}

(* The index returns to the value it had at the memolink.  Had it been smaller *)
(* before, what the array holds there counts again.                            *)
returnlink_Fault(r) == [r EXCEPT !.memo = Front(@)]
returnlink(r) ==
  [r EXCEPT !.down = [i \in 1 .. Last(r.memo).top |-> IF i <= Len(r.down) THEN @[i] ELSE Stale],
            !.memo = Front(@)]

(* What an Up or a Return kills, leaves and shows.                             *)
NoWayBack(r, kind) == r.memo = <<>> /\ (kind = "up" => r.down = <<>>)
ByReturn(r, kind)  == kind = "return" \/ r.down = <<>>
Killed(r, kind)    == IF ByReturn(r, kind) THEN KilledByReturn(r) ELSE {r.page}
Popped(r, kind)    == IF ByReturn(r, kind) THEN returnlink(r)
                                           ELSE [r EXCEPT !.down = Front(@)]
PoppedPage(r, kind) == IF ByReturn(r, kind) THEN Last(r.memo).page ELSE Last(r.down)

(* A way back that ends at a page of type UnknownPage goes through the case of *)
(* handle_button that records the page that is left.                           *)
Rerecorded(r, kind, via) == /\ via = "button" /\ PoppedPage(r, kind) = UnknownPage
                            /\ r.unknown = "UnknownPage"

(* uplink takes from the downlink stack whatever is there, also a page that    *)
(* was put there before the last memolink.                                     *)
CarefulUp(r, kind, via) ==
  /\ kind = "up" /\ r.memo # <<>> /\ r.down # <<>> => Len(r.down) > Last(r.memo).top
  /\ ~Rerecorded(r, kind, via)

(* Upbutton and Returnbutton of the title bar, and links to the pages UpPage   *)
(* and ReturnPage.  With nothing to go back to the button beeps; the link      *)
(* makes display_page dereference NULL.                                        *)
ClickBack(w, kind, via) ==
  LET r == window[w]
      q == PoppedPage(r, kind)
      popped == kill_page(Popped(r, kind), Killed(r, kind))
      recorded == IF Rerecorded(r, kind, via) THEN downlink(popped) ELSE popped
  IN /\ Clicked(w)
     /\ IF NoWayBack(r, kind)
        THEN /\ via = "page" => ~Careful
             /\ hd' = IF via = "page" THEN "crashed" ELSE hd
             /\ Navigates(kind, w, r.page)
             /\ UNCHANGED pages
        ELSE /\ Careful => CarefulUp(r, kind, via)
             /\ lisp' = Destroyed(Killed(r, kind))
             /\ window' = [window EXCEPT ![w] = display_page(recorded, q)]
             /\ Navigates(kind, w, q)
             /\ UNCHANGED <<hd, lost>>
     /\ UNCHANGED <<connected, commands>>

-------------------------------------------------------------------------------
(* Links to pages of the database                                              *)

(* Link: the page is replaced, also when it is one of Lisp's.                  *)
ClickLink(w, q) ==
  /\ Clicked(w)
  /\ q # Missing
  /\ window' = [window EXCEPT ![w] = display_page(@, q)]
  /\ lost' = lost \cup Left(window[w])
  /\ Navigates("link", w, Formatted(q))
  /\ UNCHANGED <<hd, connected, lisp, commands>>

(* Downlink, and Memolink or Windowlink to a page that is not there.           *)
ClickDownlink(w, q) ==
  LET r == found_unknown(window[w], q)
  IN /\ Clicked(w)
     /\ window' = [window EXCEPT ![w] = display_page(downlink(r), find_page(q))]
     /\ lost' = IF DownFull(r) THEN lost \cup Left(r) ELSE lost
     /\ Navigates("downlink", w, Formatted(find_page(q)))
     /\ UNCHANGED <<hd, connected, lisp, commands>>

ClickMemolink(w, q) ==
  /\ Clicked(w)
  /\ q # Missing
  /\ window' = [window EXCEPT ![w] = display_page(memolink(@), q)]
  /\ lost' = IF MemoFull(window[w]) THEN lost \cup Left(window[w]) ELSE lost
  /\ Navigates("memolink", w, Formatted(q))
  /\ UNCHANGED <<hd, connected, lisp, commands>>

(* windowlink_handler, and make_window_link for the Help button.               *)
OpensOn(v, q) ==
  /\ v \notin Open
  /\ window' = [window EXCEPT ![v] = [NewWindow(q) EXCEPT !.table = {q} \cap LispPages]]
  /\ Navigates("open", v, Formatted(q))

ClickWindowlink(w, v, q) ==
  /\ Clicked(w)
  /\ q # Missing
  /\ OpensOn(v, q)
  /\ UNCHANGED <<hd, connected, lisp, lost, commands>>

(* helpForHyperDoc: the help page of the page shown, which is TopLevelHelpPage *)
(* for a page that names no other.                                             *)
ClickHelp(w, v) ==
  /\ Clicked(w)
  /\ window[w].page # NoMoreHelpPage
  /\ OpensOn(v, IF window[w].page = HelpPage THEN NoMoreHelpPage ELSE HelpPage)
  /\ UNCHANGED <<hd, connected, lisp, lost, commands>>

-------------------------------------------------------------------------------
(* Leaving                                                                     *)

(* exitHyperDoc: the window, or HyperDoc when it is the first one.  The pages  *)
(* of the window are freed and Lisp hears nothing of it.                       *)
exitHyperDoc(w) ==
  LET gone == IF w = Parent THEN Windows ELSE {w}
  IN /\ hd' = IF w = Parent THEN "exited" ELSE hd
     /\ window' = [v \in Windows |-> IF v \in gone THEN NoWindow ELSE window[v]]
     /\ lost' = lost \cup UNION {window[v].table : v \in gone}
     /\ Navigates("close", w, NoPage)
     /\ UNCHANGED <<connected, lisp, commands>>

(* quitHyperDoc: Exit button, F3, F12, and the window manager.                 *)
ClickQuit(w) ==
  \/ /\ w = Parent /\ window[w].page # QuitAsk
     /\ ClickDownlink(w, QuitAsk)
  \/ /\ w = Parent => window[w].page = QuitAsk
     /\ Clicked(w)
     /\ exitHyperDoc(w)

(* A link to QuitPage.                                                         *)
ClickQuitPage(w) == Clicked(w) /\ exitHyperDoc(w)

(* mainEventLoop reads the end of file of FriCAS's socket.                     *)
FricasEnds == Idle /\ connected /\ exitHyperDoc(Parent) /\ UNCHANGED clicks

-------------------------------------------------------------------------------
(* Pages that Lisp generates                                                   *)

(* parse_page_from_socket: the page enters the table under the name Lisp made  *)
(* for it; text that does not parse leaves ErrorPage, and a page Lisp knows.   *)
Generates ==
  /\ connected /\ Fresh # {}
  /\ lisp' = [lisp EXCEPT ![NextFresh] = "known"]
Generated(parsed) == IF parsed THEN NextFresh ELSE ErrorPage
Unparsed(parsed)  == IF parsed THEN {} ELSE {NextFresh}

LispTo(w, kind, recorded, full, q, unparsed) ==
  /\ Clicked(w)
  /\ window' = [window EXCEPT ![w] = [display_page(recorded, q) EXCEPT
                                        !.table = @ \cup ({q} \cap LispPages)]]
  /\ lost' = lost \cup unparsed \cup (IF full THEN Left(window[w]) ELSE {})
  /\ Navigates(kind, w, q)
  /\ UNCHANGED <<hd, connected, commands>>

(* Lisplink, LispDownLink, LispMemoLink: issue_server_command.                 *)
LispKinds(w) == LET r == window[w]
                IN {<<"link", r, TRUE>>, <<"downlink", downlink(r), DownFull(r)>>,
                    <<"memolink", memolink(r), MemoFull(r)>>}

ClickLispLink(w, k, parsed) ==
  \/ Generates /\ LispTo(w, k[1], k[2], k[3], Generated(parsed), Unparsed(parsed))
  \/ ~connected /\ LispTo(w, k[1], k[2], k[3], NotConnectedPage, {}) /\ UNCHANGED lisp

(* Lispwindowlink: the page is asked for when the new window exists already.   *)
ClickLispWindowlink(w, v, parsed) ==
  /\ Clicked(w)
  /\ \/ /\ Generates
        /\ OpensOn(v, Generated(parsed))
        /\ lost' = lost \cup Unparsed(parsed)
     \/ ~connected /\ OpensOn(v, NotConnectedPage) /\ UNCHANGED <<lisp, lost>>
  /\ UNCHANGED <<hd, connected, commands>>

(* Lispcommandquit: without FriCAS the window is gone when its page is set.    *)
ClickLispCommandQuit(w) ==
  /\ Clicked(w)
  /\ Careful => connected \/ w = Parent
  /\ IF connected \/ w = Parent THEN exitHyperDoc(w)
     ELSE hd' = "crashed" /\ UNCHANGED <<connected, pages, commands, click>>

-------------------------------------------------------------------------------
(* Commands                                                                    *)

(* A call of issue_spadcommand for window w: which of the needed commands is   *)
(* looked at next, and where the call stands.                                  *)
Call(w, c) == [win |-> w, cmd |-> c, next |-> 1, at |-> "test"]

Top == Last(todo)
Continues(call) == todo' = Append(Front(todo), call)
At(step) == hd = "running" /\ todo # <<>> /\ Top.at = step

Unused == {b \in Buffers : buffer[b].state = "unused"}

(* A click on a Spadcommand, Spadgraph or Spadsrc of the page shown.           *)
ClickCommand(w, c) ==
  /\ Clicked(w) /\ asked < MaxCommands /\ asked' = asked + 1
  /\ connected /\ Unused # {}
  /\ window[w].page = Worksheet
  /\ todo' = <<Call(w, c)>>
  /\ UNCHANGED <<hd, connected, pages, buffer, ended, running, click>>

Forgets_Fault(r) == [r EXCEPT !.sock = NoSock]

(* page->sock = NULL and clear_execution_marks.                                *)
Forgets(r) == [r EXCEPT !.sock = NoSock, !.marks = {}]

(* start_user_buffer for a page without a buffer; else TestLine, which fails   *)
(* when the buffer has died: the marks go and the call starts again.           *)
TestBuffer ==
  LET w == Top.win
      sock == window[w].sock
      started == CHOOSE b \in Unused : TRUE
  IN /\ At("test")
     /\ \/ /\ sock = NoSock /\ Unused # {}
           /\ window' = [window EXCEPT ![w].sock = started]
           /\ buffer' = [buffer EXCEPT ![started].state = "alive"]
           /\ Continues([Top EXCEPT !.at = "depend"])
        \/ /\ sock # NoSock /\ buffer[sock].state = "alive"
           /\ Continues([Top EXCEPT !.at = "depend"])
           /\ UNCHANGED <<window, buffer>>
        \/ /\ sock # NoSock /\ buffer[sock].state = "dead"
           /\ window' = [window EXCEPT ![w] = Forgets(@)]
           /\ Continues(Call(w, Top.cmd))
           /\ UNCHANGED buffer
     /\ UNCHANGED <<hd, connected, lisp, lost, ended, running, click, clicks, asked>>

(* issue_dependent_commands goes on with the needed commands not yet marked.   *)
Unmarked(call) == {i \in call.next .. Len(Needs[call.cmd]) :
                     Needs[call.cmd][i] \notin window[call.win].marks}

CallNeeded ==
  /\ At("depend") /\ Unmarked(Top) # {}
  /\ LET i == Min(Unmarked(Top))
     IN todo' = Front(todo) \o <<[Top EXCEPT !.next = i + 1, !.at = "wait"],
                                 Call(Top.win, Needs[Top.cmd][i])>>
  /\ UNCHANGED <<hd, connected, pages, buffer, ended, running, click, clicks, asked>>

(* The command itself; a buffer that has died meanwhile does not get it.       *)
SendCommand ==
  LET w == Top.win
      b == window[w].sock
      alive == buffer[b].state = "alive"
  IN /\ At("depend") /\ Unmarked(Top) = {}
     /\ buffer' = IF alive THEN [buffer EXCEPT ![b].lines = Append(@, Top.cmd)] ELSE buffer
     /\ running' = IF alive THEN running + 1 ELSE running
     /\ window' = [window EXCEPT ![w].marks = @ \cup {Top.cmd}]
     /\ Continues([Top EXCEPT !.at = "reset"])
     /\ UNCHANGED <<hd, connected, lisp, lost, ended, click, clicks, asked>>

(* gIsEndOfOutput = 0, and back to the caller.                                 *)
ResetEnded ==
  /\ At("reset")
  /\ ended' = FALSE
  /\ todo' = Front(todo)
  /\ UNCHANGED <<hd, connected, pages, buffer, running, click, clicks, asked>>

(* The caller's wait for SIGUSR2 is over.                                      *)
OutputSeen ==
  /\ At("wait") /\ ended
  /\ Continues([Top EXCEPT !.at = "depend"])
  /\ UNCHANGED <<hd, connected, pages, buffer, ended, running, click, clicks, asked>>

(* sigusr2_handler: the session manager has seen the end of a command's output.*)
(* A signal that comes before ResetEnded is forgotten.                         *)
EndOfOutput ==
  /\ hd = "running" /\ running > 0
  /\ Careful => ~At("reset")
  /\ running' = running - 1
  /\ ended' = TRUE
  /\ UNCHANGED <<hd, connected, pages, buffer, todo, click, clicks, asked>>

(* The user closes an interpreter window.  When the needed commands have gone  *)
(* to it and the rest goes to its successor, those are missing there.          *)
BufferDies(b) ==
  /\ hd = "running" /\ buffer[b].state = "alive"
  /\ Careful => todo = <<>>
  /\ buffer' = [buffer EXCEPT ![b].state = "dead"]
  /\ UNCHANGED <<hd, connected, pages, todo, ended, running, click, clicks, asked>>

-------------------------------------------------------------------------------
Init ==
  /\ hd = "running"
  /\ connected \in BOOLEAN
  /\ window = [w \in Windows |-> IF w = Parent THEN NewWindow(Root) ELSE NoWindow]
  /\ lisp = [p \in LispPages |-> "new"]
  /\ lost = {}
  /\ buffer = [b \in Buffers |-> [state |-> "unused", lines |-> <<>>]]
  /\ todo = <<>> /\ ended = TRUE /\ running = 0
  /\ click = [kind |-> "open", win |-> Parent, to |-> Root]
  /\ clicks = 0 /\ asked = 0

Navigate(w) ==
  \/ \E kind \in {"up", "return"} :
       \/ ClickBack(w, kind, "button")
       \/ window[w].page \in GoBackOn /\ ClickBack(w, kind, "page")
  \/ \E q \in Links(w) : ClickLink(w, q) \/ ClickDownlink(w, q) \/ ClickMemolink(w, q)
  \/ \E v \in Windows : \/ \E q \in Links(w) : ClickWindowlink(w, v, q)
                        \/ ClickHelp(w, v)
  \/ /\ window[w].page \in LispLinksOn
     /\ \/ \E parsed \in BOOLEAN :
             \/ \E k \in LispKinds(w) : ClickLispLink(w, k, parsed)
             \/ \E v \in Windows : ClickLispWindowlink(w, v, parsed)
        \/ ClickLispCommandQuit(w)
  \/ ClickQuit(w)
  \/ window[w].page \in ExitOn /\ ClickQuitPage(w)

Issue == TestBuffer \/ CallNeeded \/ SendCommand \/ ResetEnded \/ OutputSeen

Next == \/ \E w \in Windows : \/ CreateWindow(w) \/ Navigate(w)
                              \/ \E c \in Commands : ClickCommand(w, c)
        \/ Issue \/ EndOfOutput \/ FricasEnds
        \/ \E b \in Buffers : BufferDies(b)

Spec == Init /\ [][Next]_vars

-------------------------------------------------------------------------------
(* Properties                                                                  *)

Shows == Pages \cup {NoPage, Stale}

WindowType == [status : {"closed", "unmapped", "mapped"}, page : Shows, links : Shows,
               memo : Seq([page : Pages, top : 0 .. MaxDownlinkDepth]),
               down : Seq(Pages \cup {Stale}), table : SUBSET LispPages,
               sock : Buffers \cup {NoSock}, marks : SUBSET Commands,
               unknown : {"UnloadedPageType", "Normal", "UnknownPage"}]

TypeOK ==
  /\ hd \in {"running", "exited", "crashed"} /\ connected \in BOOLEAN
  /\ window \in [Windows -> WindowType]
  /\ \A w \in Windows : /\ Len(window[w].memo) <= MaxMemoDepth
                        /\ Len(window[w].down) <= MaxDownlinkDepth
  /\ lisp \in [LispPages -> {"new", "known", "destroyed"}] /\ lost \subseteq LispPages
  /\ buffer \in [Buffers -> [state : {"unused", "alive", "dead"}, lines : Seq(Commands)]]
  /\ todo \in Seq([win : Windows, cmd : Commands, next : Nat,
                   at : {"test", "depend", "wait", "reset"}])
  /\ ended \in BOOLEAN /\ running \in Nat /\ clicks \in 0 .. MaxClicks /\ asked \in 0 .. MaxCommands

(* The pages window w can show again without asking anyone for them.           *)
Held(w) == {window[w].page, window[w].links}
             \cup {window[w].memo[i].page : i \in DOMAIN window[w].memo}
             \cup ToSet(window[w].down)

(* Every page of Lisp that a window shows or can go back to still exists, for  *)
(* HyperDoc (it has not been freed) and for Lisp (whose buttons on it work),   *)
(* and belongs to one window only; and every page Lisp keeps is one of these   *)
(* or has been left by a way that is known to forget it.                       *)
PagesAlive ==
  hd = "running" =>
    /\ \A w \in Open : \A p \in Held(w) \cap LispPages :
         /\ lisp[p] = "known" /\ p \in window[w].table
         /\ \A v \in Open \ {w} : p \notin Held(v)
    /\ \A p \in LispPages : lisp[p] = "known" => p \in lost \cup UNION {Held(w) : w \in Open}

(* A buffer never receives a command before the commands whose results it      *)
(* uses (issue_dependent_commands), also after a buffer has died and been      *)
(* replaced, or when the end of another command's output ends a wait early.    *)
CommandsInOrder ==
  \A b \in Buffers : LET got == buffer[b].lines
                     IN \A i \in DOMAIN got : \A d \in ToSet(Needs[got[i]]) :
                          \E j \in 1 .. i - 1 : got[j] = d

(* The way of a window in the words of Navigation: the downlinks up to the top *)
(* remembered with a memolink and the page of the memolink are a level.        *)
Levels(r) ==
  LET m == Len(r.memo)
      top(i) == IF i = 0 THEN 0 ELSE r.memo[i].top
  IN [i \in 1 .. m + 1 |->
        IF i <= m THEN SubSeq(r.down, top(i - 1) + 1, top(i)) \o <<r.memo[i].page>>
                  ELSE SubSeq(r.down, top(m) + 1, Len(r.down)) \o <<Formatted(r.page)>>]

Browser == INSTANCE Navigation WITH
             Pages <- Pages \cup {Stale},
             nav <- [w \in Windows |-> IF w \in Open THEN Levels(window[w]) ELSE <<>>]

(* HyperDoc's two arrays, their indices and the pages freed on the way behave  *)
(* like the levels of Navigation: Up and Return lead back the way the reader   *)
(* came, in each window on its own.                                            *)
Browses == Browser!Spec
===============================================================================
