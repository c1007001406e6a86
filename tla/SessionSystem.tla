---------------------------- MODULE SessionSystem ----------------------------
(***************************************************************************)
(* The session manager, the Lisp server and the peers together.  What the  *)
(* peers may do is a parameter: a behaviour starts with one of the sets of *)
(* habits in Habits and keeps it.                                          *)
(*   "typeahead"  a user types before the previous line is finished        *)
(*   "late"       a window opens while another one is being served         *)
(*   "menu"       HyperDoc runs                                            *)
(*   "windowdies" a window may be killed at any time                       *)
(*   "menudies"   HyperDoc may be killed at any time                       *)
(***************************************************************************)
EXTENDS SessionManager, LispServer

CONSTANTS
    Habits,     \* the sets of habits to choose from
    MaxLines,   \* bound: lines typed in all windows together
    MaxMenu     \* bound: commands issued by HyperDoc

ASSUME HabitAssumption ==
    /\ Habits \subseteq SUBSET {"typeahead", "late", "menu", "windowdies", "menudies"}
    /\ MaxLines \in Nat
    /\ MaxMenu \in Nat

VARIABLES
    env,        \* the habits of this behaviour
    typed,      \* lines typed so far
    menuSent    \* commands HyperDoc has issued

envVars == <<env, typed, menuSent>>
vars == <<linkVars, lispVars, smVars, peerVars, envVars>>

Init ==
    /\ LinkInit
    /\ LispInit
    /\ SMInit
    /\ PeerInit
    /\ env \in Habits
    /\ typed = 0
    /\ menuSent = 0

(* Lisp has told the session manager to close w. *)
Closing(w) == Len(lispToSM) >= 2 /\ lispToSM[1] = CloseClient /\ lispToSM[2] = frame[w]

(* A line of w, output for w or the end of that output is on its way. *)
Outstanding(w) ==
    \/ toSM[w] # <<>>
    \/ \E i \in DOMAIN pty : pty[i].from = w
    \/ line.from = w
    \/ Contains(relay, w) \/ Contains(io, w)
    \/ active_session = w /\ reading_output
    \/ Closing(w)
    \/ smPc = "answer" /\ Head(plSock) = w

(* Lisp has asked w whether to leave, and w can see the question. *)
Asked(w) ==
    /\ lispPc = "ask"
    /\ line.from = w
    /\ toSM[w] = <<>> /\ pty = <<>> /\ relay = <<>> /\ io = <<>>

(* Nothing at all is going on. *)
Quiet ==
    /\ \A w \in Window : ~ Outstanding(w)
    /\ pending = <<>> /\ relay = <<>> /\ io = <<>> /\ lispToSM = <<>> /\ smToLisp = <<>>
    /\ lispPc = "switch"
    /\ smPc = "run" /\ todo = {}
    /\ ~ needToSignal /\ ~ reading_output

(* connect_to_local_server of spadclient *)
ConnectWindow(w) ==
    /\ win[w] = "none"
    /\ "late" \in env \/ Quiet
    /\ win' = [win EXCEPT ![w] = "connecting"]
    /\ pending' = Append(pending, w)
    /\ UNCHANGED <<menu, toSM, menuToSM, linkVars, lispVars, smVars, envVars>>

(* remote_stdio of spadclient: the user's line goes to the session manager. *)
TypeLine(w, k) ==
    /\ win[w] = "up"
    /\ typed < MaxLines
    /\ "typeahead" \in env \/ ~ Outstanding(w) \/ Asked(w)
    /\ typed' = typed + 1
    /\ toSM' = [toSM EXCEPT ![w] = Append(@, [from |-> w, kind |-> k])]
    /\ UNCHANGED <<win, menu, pending, menuToSM, env, menuSent, linkVars, lispVars, smVars>>

WindowDies(w) ==
    /\ "windowdies" \in env
    /\ win[w] = "up"
    /\ win' = [win EXCEPT ![w] = "dead"]
    /\ UNCHANGED <<menu, pending, toSM, menuToSM, envVars, linkVars, lispVars, smVars>>

ConnectMenu ==
    /\ "menu" \in env
    /\ menu = "none"
    /\ menu' = "connecting"
    /\ pending' = Append(pending, "menu")
    /\ UNCHANGED <<win, toSM, menuToSM, envVars, linkVars, lispVars, smVars>>

(***************************************************************************)
(* issue_server_command of HyperDoc: switch_frames through the session     *)
(* manager, always to fricas_frame = 0, and the command directly to Lisp.  *)
(***************************************************************************)
IssueServerCommand ==
    /\ menu = "up"
    /\ menuSent < MaxMenu
    /\ menuSent' = menuSent + 1
    /\ menuToSM' = Append(menuToSM, 0)
    /\ menuToLisp' = menuToLisp + 1
    /\ UNCHANGED <<win, menu, pending, toSM, env, typed, lispVars, smVars,
                   smToLisp, lispToSM, pty, relay, io>>

MenuDies ==
    /\ "menudies" \in env
    /\ menu = "up"
    /\ menu' = "dead"
    /\ UNCHANGED <<win, pending, toSM, menuToSM, envVars, linkVars, lispVars, smVars>>

PeerNext ==
    \/ \E w \in Window : ConnectWindow(w)
    \/ \E w \in Window, k \in Kind : TypeLine(w, k)
    \/ \E w \in Window : WindowDies(w)
    \/ ConnectMenu
    \/ IssueServerCommand
    \/ MenuDies

(* The three programs of the system, each with the variables it leaves alone. *)
SMStep    == SMNext /\ UNCHANGED <<lispVars, envVars>>
LispStep  == LispNext /\ UNCHANGED <<smVars, peerVars, envVars>>
RelayStep == RelayOutput /\ UNCHANGED <<lispVars, smVars, peerVars, envVars>>

(* When the session manager or Lisp ends, sman kills all the others; what  *)
(* follows when Lisp obeys a command nobody has sent is not modelled.      *)
Alive == smPc \in {"run", "answer"} /\ lispPc \notin {"quit", "lost"}

(***************************************************************************)
(* Both programs sit in select with nothing to read, and so do the users:  *)
(* the session is waiting for input, or it is over.  Any other state       *)
(* without a successor is a deadlock.                                      *)
(***************************************************************************)
Rest ==
    /\ \/ ~ Alive
       \/ /\ smPc = "run" /\ todo = {} /\ Ready = {} /\ relay = <<>>
          /\ \/ lispPc = "switch" /\ smToLisp = <<>> /\ pty = <<>> /\ menuToLisp = 0
             \/ lispPc = "ask" /\ pty = <<>>
    /\ UNCHANGED vars

Next ==
    \/ Alive /\ (SMStep \/ LispStep \/ RelayStep \/ PeerNext)
    \/ Rest

Spec == Init /\ [][Next]_vars

(***************************************************************************)
(* The kernel schedules every runnable process; users owe nothing.         *)
(***************************************************************************)
FairSpec == Spec /\ WF_vars(Alive /\ SMStep) /\ WF_vars(Alive /\ LispStep) /\ WF_vars(Alive /\ RelayStep)

-----------------------------------------------------------------------------
TypeOK ==
    /\ LinkTypeOK
    /\ LispTypeOK
    /\ SMTypeOK
    /\ PeerTypeOK
    /\ env \in Habits
    /\ typed \in Nat
    /\ menuSent \in Nat

(***************************************************************************)
(* active_session never points to a freed Sock: whatever closes, connects  *)
(* or switches, it is null or an element of the list of windows.           *)
(***************************************************************************)
ActiveInList == active_session = NoSock \/ Contains(plSock, active_session)

(***************************************************************************)
(* num_active_clients, the number that decides whether ")close" ends the   *)
(* whole system, is the length of the list; the window whose frame is      *)
(* being created is in the list and not counted yet.                       *)
(***************************************************************************)
CountMatchesList ==
    \/ smPc = "run" /\ num_active_clients = Len(plSock)
    \/ smPc = "answer" /\ num_active_clients = Len(plSock) - 1
    \/ smPc \in {"exited", "crashed"}

(***************************************************************************)
(* session_socket_mask is maintained by hand: of the open descriptors it   *)
(* holds exactly those of the windows of the list, and that of HyperDoc    *)
(* while menu_client points to it, so no open descriptor of a freed Sock   *)
(* is selected on and no live window is forgotten.  (A descriptor closed   *)
(* by sread or swrite stays in the mask, even when close_client unlinks    *)
(* its window: the next select fails on it, see SelectFails.)              *)
(***************************************************************************)
MaskIsExact ==
    session_socket_mask \cap openFd =
        (ToSet(plSock) \cup (IF menu_client THEN {"menu"} ELSE {})) \cap openFd

(* A window has its frame number once the answer of Lisp has been read. *)
HasFrame(i) == i \in DOMAIN plSock /\ ~ (smPc \in {"answer", "exited"} /\ i = 1)

(***************************************************************************)
(* No two windows share a frame, and each has one Lisp has created: the    *)
(* check of CreateFrameAnswer keeps a stray integer from becoming a frame, *)
(* as long as no frame number is as large as CreateFrameAnswer itself.     *)
(***************************************************************************)
FramesDistinct ==
    \A i, j \in DOMAIN plSock :
        HasFrame(i) /\ HasFrame(j) =>
            /\ frame[plSock[i]] \in 0 .. frameNumber - 1
            /\ frame[plSock[i]] = frame[plSock[j]] => i = j

(***************************************************************************)
(* Every line is evaluated in the frame of the window it was typed in.     *)
(***************************************************************************)
EvalInOwnFrame == \A e \in evaluated : e[2] = frame[e[1]]

(***************************************************************************)
(* The frame of an attached window is still in the interpreter's ring,     *)
(* unless Lisp has already asked for the window to be closed.              *)
(***************************************************************************)
WindowKeepsFrame ==
    \A i \in DOMAIN plSock :
        HasFrame(i) /\ smPc = "run" =>
            \/ Contains(ring, frame[plSock[i]])
            \/ Closing(plSock[i])

(***************************************************************************)
(* What ")close" is told is the number of windows there are when it reads  *)
(* the answer, so the last window is recognised as the last.               *)
(***************************************************************************)
ClientsCountedExactly ==
    lispPc = "query" /\ smToLisp # <<>> =>
        Head(smToLisp) = Cardinality({w \in Window : win[w] = "up"})

(***************************************************************************)
(* With well-behaved peers the session manager never gives up or crashes.  *)
(***************************************************************************)
SessionSurvives == smPc \in {"run", "answer"}

(***************************************************************************)
(* HyperDoc is told the pid of the window that was closed.                 *)
(***************************************************************************)
ToldTheClosedWindow == \A n \in notices : n[1] = n[2]

(***************************************************************************)
(* A line that was typed is passed on to Lisp: no window is left waiting   *)
(* for ever behind the output of another one.                              *)
(***************************************************************************)
LinesReachLisp ==
    \A w \in Window : toSM[w] # <<>> ~> toSM[w] = <<>> \/ lispPc \in {"ask", "quit"}
=============================================================================
