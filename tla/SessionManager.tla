--------------------------- MODULE SessionManager ---------------------------
(***************************************************************************)
(* The session manager, src/sman/session.c: it multiplexes the one Lisp    *)
(* process among the interpreter windows.  Every pass of manage_sessions   *)
(* takes one snapshot of the readable sockets and then serves them in a    *)
(* fixed order: HyperDoc, output of Lisp, a new connection, the windows in *)
(* list order, and last the commands of Lisp.                              *)
(*                                                                         *)
(* A definition D_Fault that stands before a definition D is a faulty      *)
(* variant of D: it is used only to show that a property would notice.     *)
(***************************************************************************)
EXTENDS SessionLinks

VARIABLES
    smPc,                 \* "run", "answer" (waits for CreateFrameAnswer), "exited", "crashed"
    todo,                 \* descriptors of the snapshot that are not served yet
    plSock,               \* the list of windows, newest first
    frame,                \* Sock.frame of every window
    active_session,
    num_active_clients,
    reading_output,
    menu_client,          \* whether menu_client points to a Sock
    session_socket_mask,  \* descriptors of windows and of HyperDoc in the mask
    openFd,               \* those of these descriptors that are open
    notices               \* history: window closed and window whose pid HyperDoc was told

smVars == <<smPc, todo, plSock, frame, active_session, num_active_clients,
            reading_output, menu_client, session_socket_mask, openFd, notices>>

(* The peers: windows and HyperDoc as processes, and what they sent. *)
VARIABLES
    win,        \* state of each window process
    menu,       \* state of HyperDoc
    pending,    \* the listen queue of the session manager's server socket
    toSM,       \* lines each window has sent
    menuToSM    \* frame numbers HyperDoc has sent with SwitchFrames

peerVars == <<win, menu, pending, toSM, menuToSM>>

PeerState == {"none", "connecting", "up", "dead"}
NoFrame   == -2     \* malloc leaves Sock.frame unset until the answer arrives

SMInit ==
    /\ smPc = "run"
    /\ todo = {}
    /\ plSock = <<>>
    /\ frame = [w \in Window |-> NoFrame]
    /\ active_session = NoSock
    /\ num_active_clients = 0
    /\ reading_output = FALSE
    /\ menu_client = FALSE
    /\ session_socket_mask = {}
    /\ openFd = {}
    /\ notices = {}

PeerInit ==
    /\ win = [w \in Window |-> "none"]
    /\ menu = "none"
    /\ pending = <<>>
    /\ toSM = [w \in Window |-> <<>>]
    /\ menuToSM = <<>>

Peer == Window \cup {"menu"}

SMTypeOK ==
    /\ smPc \in {"run", "answer", "exited", "crashed"}
    /\ todo \subseteq Peer \cup {"io", "listen", "lisp"}
    /\ plSock \in Seq(Window)
    /\ frame \in [Window -> Int]
    /\ active_session \in Window \cup {NoSock}
    /\ num_active_clients \in Int
    /\ reading_output \in BOOLEAN
    /\ menu_client \in BOOLEAN
    /\ session_socket_mask \subseteq Peer
    /\ openFd \subseteq Peer
    /\ notices \subseteq (Window \X Window)

PeerTypeOK ==
    /\ win \in [Window -> PeerState]
    /\ menu \in PeerState
    /\ pending \in Seq(Peer)
    /\ toSM \in [Window -> Seq(Line)]
    /\ menuToSM \in Seq(Int)

(***************************************************************************)
(* select() over session_socket_mask.  A closed peer reads as end of file. *)
(***************************************************************************)
Readable(fd) ==
    \/ fd = "io" /\ io # <<>>
    \/ fd = "listen" /\ pending # <<>>
    \/ fd = "lisp" /\ lispToSM # <<>>
    \/ fd = "menu" /\ (menuToSM # <<>> \/ menu = "dead")
    \/ fd \in Window /\ (toSM[fd] # <<>> \/ win[fd] = "dead")

Ready == {fd \in session_socket_mask \cup {"io", "listen", "lisp"} : Readable(fd)}

Select ==
    /\ smPc = "run"
    /\ todo = {}
    /\ session_socket_mask \subseteq openFd
    /\ Ready # {}
    /\ todo' = Ready
    /\ UNCHANGED <<smPc, plSock, frame, active_session, num_active_clients, reading_output,
                   menu_client, session_socket_mask, openFd, notices, linkVars, peerVars>>

(* A closed descriptor in the mask: EBADF, and manage_sessions returns to main. *)
SelectFails ==
    /\ smPc = "run"
    /\ todo = {}
    /\ ~ session_socket_mask \subseteq openFd
    /\ smPc' = "exited"
    /\ UNCHANGED <<todo, plSock, frame, active_session, num_active_clients, reading_output,
                   menu_client, session_socket_mask, openFd, notices, linkVars, peerVars>>

(* The order in which one pass of the loop looks at the descriptors. *)
Rank(fd) ==
    CASE fd = "menu"   -> 1
      [] fd = "io"     -> 2
      [] fd = "listen" -> 3
      [] fd \in Window -> 3 + Position(plSock, fd)
      [] fd = "lisp"   -> 4 + Len(plSock)

AtTurn(fd) ==
    /\ smPc = "run"
    /\ fd \in todo
    /\ \A g \in todo : Rank(fd) <= Rank(g)

Served(fd) == todo' = todo \ {fd}

(***************************************************************************)
(* accept hands out a free descriptor number, which may be that of a       *)
(* window whose socket swrite has just closed: the bit of that window in   *)
(* the mask, and in the snapshot, is then the bit of the new peer.  (The   *)
(* dead window itself has socket = 0 and is passed over.)                  *)
(***************************************************************************)
FreedFds == {{}} \cup {{fd} : fd \in session_socket_mask \ openFd}

(***************************************************************************)
(* read_menu_client_command: HyperDoc asks for the frame of a window.      *)
(***************************************************************************)
ReadMenuSwitchFrames ==
    /\ AtTurn("menu")
    /\ menu_client
    /\ menuToSM # <<>>
    /\ menuToSM' = Tail(menuToSM)
    /\ smToLisp' = smToLisp \o <<SwitchFrames, Head(menuToSM)>>
    /\ \/ \E i \in DOMAIN plSock :
             /\ frame[plSock[i]] = Head(menuToSM)
             /\ \A j \in 1 .. i - 1 : frame[plSock[j]] # Head(menuToSM)
             /\ active_session' = plSock[i]
             /\ reading_output' = TRUE
       \/ /\ \A i \in DOMAIN plSock : frame[plSock[i]] # Head(menuToSM)
          /\ UNCHANGED <<active_session, reading_output>>
    /\ Served("menu")
    /\ UNCHANGED <<smPc, plSock, frame, num_active_clients, menu_client, session_socket_mask,
                   openFd, notices, win, menu, pending, toSM,
                   lispToSM, menuToLisp, pty, relay, io>>

(* HyperDoc has died: kill(pid, 0) fails, or the read reaches end of file. *)
ReadMenuClosed ==
    /\ AtTurn("menu")
    /\ menu_client
    /\ menu = "dead"
    /\ session_socket_mask' = session_socket_mask \ {"menu"}
    /\ menu_client' = FALSE
    /\ reading_output' = FALSE
    /\ Served("menu")
    /\ UNCHANGED <<smPc, plSock, frame, active_session, num_active_clients, openFd, notices,
                   linkVars, peerVars>>

(***************************************************************************)
(* read_from_spad_io: output of Lisp goes to the active window.  When that *)
(* window is gone, swrite closes the descriptor.                           *)
(***************************************************************************)
ReadFromSpadIo ==
    /\ AtTurn("io")
    /\ io' = Tail(io)
    /\ openFd' = IF active_session # NoSock /\ win[active_session] = "dead"
                 THEN openFd \ {active_session} ELSE openFd
    /\ Served("io")
    /\ UNCHANGED <<smPc, plSock, frame, active_session, num_active_clients, reading_output,
                   menu_client, session_socket_mask, notices, peerVars,
                   smToLisp, lispToSM, menuToLisp, pty, relay>>

(***************************************************************************)
(* accept_session_connection.  A window goes to the head of the list and   *)
(* the manager then waits for Lisp to create its frame.                    *)
(***************************************************************************)
AcceptMenu ==
    /\ AtTurn("listen")
    /\ Head(pending) = "menu"
    /\ pending' = Tail(pending)
    /\ menu' = "up"
    /\ menu_client' = TRUE
    /\ \E freed \in FreedFds :
          session_socket_mask' = (session_socket_mask \ freed) \cup {"menu"}
    /\ openFd' = openFd \cup {"menu"}
    /\ Served("listen")
    /\ UNCHANGED <<smPc, plSock, frame, active_session, num_active_clients, reading_output,
                   notices, win, toSM, menuToSM, linkVars>>

AcceptInterpWindow ==
    /\ AtTurn("listen")
    /\ Head(pending) \in Window
    /\ pending' = Tail(pending)
    /\ win' = [win EXCEPT ![Head(pending)] = "up"]
    /\ plSock' = <<Head(pending)>> \o plSock
    /\ \E freed \in FreedFds :
          /\ session_socket_mask' = (session_socket_mask \ freed) \cup {Head(pending)}
          /\ todo' = (todo \ {"listen"})
                        \cup (IF freed \cap todo = {} THEN {} ELSE {Head(pending)})
    /\ openFd' = openFd \cup {Head(pending)}
    /\ smToLisp' = Append(smToLisp, CreateFrame)
    /\ smPc' = "answer"
    /\ UNCHANGED <<frame, active_session, num_active_clients, reading_output, menu_client,
                   notices, menu, toSM, menuToSM, lispToSM, menuToLisp, pty, relay, io>>

(* The integer read first must be CreateFrameAnswer; the check came late. *)
IsAnswer_Any == TRUE
IsAnswer == Head(lispToSM) = CreateFrameAnswer

ReadCreateFrameAnswer ==
    /\ smPc = "answer"
    /\ Len(lispToSM) >= 2
    /\ IsAnswer
    /\ frame' = [frame EXCEPT ![Head(plSock)] = lispToSM[2]]
    /\ lispToSM' = SubSeq(lispToSM, 3, Len(lispToSM))
    /\ active_session' = Head(plSock)
    /\ num_active_clients' = num_active_clients + 1
    /\ smPc' = "run"
    /\ UNCHANGED <<todo, plSock, reading_output, menu_client, session_socket_mask, openFd,
                   notices, peerVars, smToLisp, menuToLisp, pty, relay, io>>

(* "session: fatal, got out of sync with Spad server (lost race)" *)
LoseRace ==
    /\ smPc = "answer"
    /\ lispToSM # <<>>
    /\ ~ IsAnswer
    /\ lispToSM' = Tail(lispToSM)
    /\ smPc' = "exited"
    /\ UNCHANGED <<todo, plSock, frame, active_session, num_active_clients, reading_output,
                   menu_client, session_socket_mask, openFd, notices, peerVars,
                   smToLisp, menuToLisp, pty, relay, io>>

(***************************************************************************)
(* read_from_session: switch Lisp to the frame of the window if another    *)
(* one was active, and pass the line on.                                   *)
(***************************************************************************)
MayRead_OnlyActive(w) == w \in openFd /\ active_session \in {w, NoSock}
MayRead(w) == w \in openFd /\ (active_session = w \/ ~ reading_output)

SwitchTo_IfIdle(w) ==
    smToLisp' = IF active_session = NoSock THEN smToLisp \o <<SwitchFrames, frame[w]>> ELSE smToLisp
SwitchTo(w) ==
    smToLisp' = IF w # active_session THEN smToLisp \o <<SwitchFrames, frame[w]>> ELSE smToLisp

ReadFromSession(w) ==
    /\ AtTurn(w)
    /\ MayRead(w)
    /\ toSM[w] # <<>>
    /\ toSM' = [toSM EXCEPT ![w] = Tail(@)]
    /\ SwitchTo(w)
    /\ pty' = Append(pty, Head(toSM[w]))
    /\ active_session' = w
    /\ reading_output' = TRUE
    /\ Served(w)
    /\ UNCHANGED <<smPc, plSock, frame, num_active_clients, menu_client, session_socket_mask,
                   openFd, notices, win, menu, pending, menuToSM,
                   lispToSM, menuToLisp, relay, io>>

(* End of file: sread closes the descriptor, which stays in the mask. *)
ReadSessionClosed(w) ==
    /\ AtTurn(w)
    /\ MayRead(w)
    /\ toSM[w] = <<>> /\ win[w] = "dead"
    /\ SwitchTo(w)
    /\ openFd' = openFd \ {w}
    /\ active_session' = NoSock
    /\ reading_output' = FALSE
    /\ Served(w)
    /\ UNCHANGED <<smPc, plSock, frame, num_active_clients, menu_client, session_socket_mask,
                   notices, peerVars, lispToSM, menuToLisp, pty, relay, io>>

(* Output of another window is awaited, or a write has closed the socket. *)
SkipSession(w) ==
    /\ AtTurn(w)
    /\ ~ MayRead(w)
    /\ Served(w)
    /\ UNCHANGED <<smPc, plSock, frame, active_session, num_active_clients, reading_output,
                   menu_client, session_socket_mask, openFd, notices, linkVars, peerVars>>

(***************************************************************************)
(* read_SpadServer_command                                                 *)
(***************************************************************************)
HasSpadCommand == AtTurn("lisp") /\ lispToSM # <<>>

ReadEndOfOutput ==
    /\ HasSpadCommand
    /\ Head(lispToSM) = EndOfOutput
    /\ lispToSM' = Tail(lispToSM)
    /\ reading_output' = FALSE
    \* SIGUSR2 to HyperDoc; if it has been reaped send_signal closes the socket
    /\ openFd' \in IF menu_client /\ menu = "dead" THEN {openFd, openFd \ {"menu"}} ELSE {openFd}
    /\ Served("lisp")
    /\ UNCHANGED <<smPc, plSock, frame, active_session, num_active_clients, menu_client,
                   session_socket_mask, notices, peerVars, smToLisp, menuToLisp, pty, relay, io>>

NumClients_WithMenu == num_active_clients + 1
NumClients == num_active_clients    \* "don't count MenuServer"

ReadQueryClients ==
    /\ HasSpadCommand
    /\ Head(lispToSM) = QueryClients
    /\ lispToSM' = Tail(lispToSM)
    /\ smToLisp' = Append(smToLisp, NumClients)
    /\ Served("lisp")
    /\ UNCHANGED <<smPc, plSock, frame, active_session, num_active_clients, reading_output,
                   menu_client, session_socket_mask, openFd, notices, peerVars,
                   menuToLisp, pty, relay, io>>

(* What close_client clears for the window at position i of the list. *)
ClearActive_IfHead(i) == active_session' = IF i = 1 THEN NoSock ELSE active_session
ClearActive(i) == active_session' = NoSock
CountDown_IfHead(i) == num_active_clients' = IF i = 1 THEN num_active_clients - 1 ELSE num_active_clients
CountDown(i) == num_active_clients' = num_active_clients - 1
ClearMask_Not(i) == session_socket_mask' = session_socket_mask
\* sread and swrite set Sock.socket to 0 when they close it: FD_CLR then clears bit 0
ClearMask(i) == session_socket_mask' = session_socket_mask \ ({plSock[i]} \cap openFd)

CloseClientAt(i) ==
    LET w == plSock[i] IN
    /\ win' = [win EXCEPT ![w] = "dead"]
    /\ plSock' = RemoveAt(plSock, i)
    /\ CountDown(i)
    /\ ClearActive(i)
    /\ ClearMask(i)
    \* both branches send the pid of the Sock at the head of the list
    /\ notices' = IF menu_client THEN notices \cup {<<w, plSock[1]>>} ELSE notices
    /\ openFd' = IF menu_client /\ menu = "dead" THEN openFd \ {"menu"} ELSE openFd

ReadCloseClient ==
    /\ HasSpadCommand
    /\ Head(lispToSM) = CloseClient
    /\ Len(lispToSM) >= 2
    /\ lispToSM' = SubSeq(lispToSM, 3, Len(lispToSM))
    /\ \E i \in DOMAIN plSock :
          /\ frame[plSock[i]] = lispToSM[2]
          /\ \A j \in 1 .. i - 1 : frame[plSock[j]] # lispToSM[2]
          /\ CloseClientAt(i)
    /\ Served("lisp")
    /\ UNCHANGED <<smPc, frame, reading_output, menu_client, menu, pending, toSM, menuToSM,
                   smToLisp, menuToLisp, pty, relay, io>>

(* No window has this frame; with an empty list the loop follows a null pointer. *)
ReadCloseUnknown ==
    /\ HasSpadCommand
    /\ Head(lispToSM) = CloseClient
    /\ Len(lispToSM) >= 2
    /\ lispToSM' = SubSeq(lispToSM, 3, Len(lispToSM))
    /\ \A i \in DOMAIN plSock : frame[plSock[i]] # lispToSM[2]
    /\ smPc' = IF plSock = <<>> /\ lispToSM[2] # -1 THEN "crashed" ELSE smPc
    /\ Served("lisp")
    /\ UNCHANGED <<plSock, frame, active_session, num_active_clients, reading_output, menu_client,
                   session_socket_mask, openFd, notices, peerVars,
                   smToLisp, menuToLisp, pty, relay, io>>

ReadUnknownCommand ==
    /\ HasSpadCommand
    /\ Head(lispToSM) \notin {EndOfOutput, QueryClients, CloseClient}
    /\ lispToSM' = Tail(lispToSM)
    /\ Served("lisp")
    /\ UNCHANGED <<smPc, plSock, frame, active_session, num_active_clients, reading_output,
                   menu_client, session_socket_mask, openFd, notices, peerVars,
                   smToLisp, menuToLisp, pty, relay, io>>

SMNext ==
    \/ Select
    \/ SelectFails
    \/ ReadMenuSwitchFrames
    \/ ReadMenuClosed
    \/ ReadFromSpadIo
    \/ AcceptMenu
    \/ AcceptInterpWindow
    \/ ReadCreateFrameAnswer
    \/ LoseRace
    \/ \E w \in Window : ReadFromSession(w) \/ ReadSessionClosed(w) \/ SkipSession(w)
    \/ ReadEndOfOutput
    \/ ReadQueryClients
    \/ ReadCloseClient
    \/ ReadCloseUnknown
    \/ ReadUnknownCommand
=============================================================================
