---------------------------- MODULE SessionProofs ----------------------------
(***************************************************************************)
(* Theorems about SessionSystem, for every set of windows, every set of    *)
(* habits and every bound; only the theorems on FramesDistinct with any    *)
(* habits assume that MaxFrames is less than CreateFrameAnswer = 50.       *)
(*                                                                         *)
(* ListInv is the inductive invariant of the session manager's tables: the *)
(* list of windows, the socket mask, the client count and the active       *)
(* window.  It is not the conjunction of the properties alone: a window is *)
(* linked in once only because it waits in the listen queue once, and      *)
(* read_from_session may be called only for windows in the list because    *)
(* the commands of Lisp, which remove windows, come last in every pass.    *)
(***************************************************************************)
EXTENDS SessionSystem, FiniteSetTheorems, TLAPS

-----------------------------------------------------------------------------
(* Every window is in the list at most once. *)
ListedOnce == \A i, j \in DOMAIN plSock : plSock[i] = plSock[j] => i = j

(* What waits in the listen queue is connecting, and waits there once. *)
QueuedOnce ==
    /\ \A i, j \in DOMAIN pending : pending[i] = pending[j] => i = j
    /\ \A i \in DOMAIN pending :
          /\ pending[i] \in Window => win[pending[i]] = "connecting"
          /\ pending[i] = "menu" => menu = "connecting"

(* A window in the list has been accepted. *)
ListedAccepted == \A i \in DOMAIN plSock : win[plSock[i]] \in {"up", "dead"}

(* The windows of the snapshot have not been closed since it was taken. *)
TodoListed == todo \cap Window \subseteq ToSet(plSock)

(* A frame is awaited for the window at the head of the list. *)
AnswerHasWindow == smPc = "answer" => plSock # <<>>

ListInv ==
    /\ ListedOnce
    /\ QueuedOnce
    /\ ListedAccepted
    /\ TodoListed
    /\ AnswerHasWindow
    /\ ActiveInList
    /\ CountMatchesList
    /\ MaskIsExact

-----------------------------------------------------------------------------
(* What the windows of the snapshot and of the ring have to be for the     *)
(* steps to be well typed: a descriptor stays readable until it is served, *)
(* and the interpreter always has a frame.                                 *)
TodoReadable ==
    /\ "io" \in todo => io # <<>>
    /\ "listen" \in todo => pending # <<>>

TypeInv ==
    /\ TypeOK
    /\ ring # <<>>
    /\ AnswerHasWindow
    /\ TodoReadable

LEMMA TailType ==
  ASSUME NEW S, NEW s \in Seq(S), s # <<>>
  PROVE  Tail(s) \in Seq(S) /\ Head(s) \in S
OBVIOUS

LEMMA TailLen ==
  ASSUME NEW S, NEW s \in Seq(S), s # <<>>
  PROVE  Len(s) \in Nat /\ Len(s) > 0 /\ Len(Tail(s)) = Len(s) - 1
OBVIOUS

LEMMA AppendType ==
  ASSUME NEW S, NEW s \in Seq(S), NEW e \in S
  PROVE  Append(s, e) \in Seq(S) /\ Len(Append(s, e)) = Len(s) + 1
OBVIOUS

LEMMA DropTwoType ==
  ASSUME NEW S, NEW s \in Seq(S), Len(s) >= 2
  PROVE  SubSeq(s, 3, Len(s)) \in Seq(S) /\ s[2] \in S
OBVIOUS

LEMMA ConsType ==
  ASSUME NEW S, NEW s \in Seq(S), NEW e \in S
  PROVE  <<e>> \o s \in Seq(S) /\ <<e>> \o s # <<>>
OBVIOUS

LEMMA RemoveAtType ==
  ASSUME NEW S, NEW s \in Seq(S), NEW i \in DOMAIN s
  PROVE  RemoveAt(s, i) \in Seq(S)
<1>1. SubSeq(s, 1, i - 1) \in Seq(S)
  OBVIOUS
<1>2. SubSeq(s, i + 1, Len(s)) \in Seq(S)
  OBVIOUS
<1> QED
  BY <1>1, <1>2 DEF RemoveAt

(* Position finds an element of the sequence. *)
LEMMA PositionIs ==
  ASSUME NEW S, NEW s \in Seq(S), NEW e, \E i \in DOMAIN s : s[i] = e
  PROVE  Position(s, e) \in DOMAIN s /\ s[Position(s, e)] = e
BY DEF Position

(* The ring stays a non-empty ring of frames when a frame goes to its front. *)
LEMMA ChangeToFrameType ==
  ASSUME ring \in Seq(Frame), ring # <<>>, NEW n \in Int
  PROVE  ChangeToFrame(n) \in Seq(Frame) /\ ChangeToFrame(n) # <<>>
<1>1. CASE n >= 0 /\ Contains(ring, n)
  <2>1. n \in Frame
    BY <1>1 DEF Frame
  <2>2. Position(ring, n) \in DOMAIN ring
    BY <1>1, PositionIs DEF Contains
  <2>3. RemoveAt(ring, Position(ring, n)) \in Seq(Frame)
    BY <2>2, RemoveAtType
  <2> QED
    BY <1>1, <2>1, <2>3, ConsType DEF ChangeToFrame
<1>2. CASE ~ (n >= 0 /\ Contains(ring, n))
  BY <1>2 DEF ChangeToFrame
<1> QED
  BY <1>1, <1>2

LEMMA PtyHead ==
  ASSUME pty \in Seq(Line), pty # <<>>
  PROVE  /\ Head(pty) \in Line
         /\ Head(pty).from \in Window
         /\ Tail(pty) \in Seq(Line)
<1>1. Head(pty) \in Line /\ Tail(pty) \in Seq(Line)
  BY TailType
<1> QED
  BY <1>1 DEF Line

LEMMA PairType ==
  ASSUME NEW S, NEW s \in Seq(S), NEW e \in S, NEW f \in S
  PROVE  s \o <<e, f>> \in Seq(S)
OBVIOUS

LEMMA SwitchToType ==
  ASSUME smToLisp \in Seq(Int), frame \in [Window -> Int], NEW w \in Window, SwitchTo(w)
  PROVE  smToLisp' \in Seq(Int)
BY PairType DEF SwitchTo, SwitchFrames

(* Every step of Lisp is well typed. *)
LEMMA LispType ==
  ASSUME LinkTypeOK, LispTypeOK, ring # <<>>, LispNext
  PROVE  LinkTypeOK' /\ LispTypeOK' /\ ring' # <<>> /\ io' = io
<1> USE DEF LinkTypeOK, LispTypeOK, LispPcs, Frame, Chunk
<1>1. CASE SignalEndOfOutput
  <2>1. CASE needToSignal
    <3>1. lispToSM' = Append(lispToSM, 3)
      BY <1>1, <2>1 DEF SignalEndOfOutput, EndOfOutput
    <3>2. lispToSM' \in Seq(Int)
      BY <3>1
    <3> QED
      BY <1>1, <3>2 DEF SignalEndOfOutput
  <2>2. CASE ~ needToSignal
    BY <1>1, <2>2 DEF SignalEndOfOutput
  <2> QED
    BY <2>1, <2>2
<1>2. CASE ServeCreateFrame
  BY <1>2 DEF ServeCreateFrame, HasCommand, CreateFrameReply, CreateFrameAnswer
<1>3. CASE ServeSwitchFrames
  <2>1. smToLisp[2] \in Int /\ smToLisp' \in Seq(Int)
    BY <1>3, DropTwoType DEF ServeSwitchFrames
  <2>2. ring' \in Seq(Frame) /\ ring' # <<>>
    BY <1>3, <2>1, ChangeToFrameType DEF ServeSwitchFrames, Frame
  <2> QED
    BY <1>3, <2>1, <2>2 DEF ServeSwitchFrames
<1>4. CASE ServeUnknown
  BY <1>4 DEF ServeUnknown
<1>5. CASE ReadLine
  <2>1. Head(pty) \in Line /\ Head(pty).from \in Window /\ pty' \in Seq(Line)
    BY <1>5, PtyHead DEF ReadLine
  <2>2. Head(ring) \in Frame
    BY TailType
  <2>3. evaluated' \subseteq (Window \X Frame)
    BY <1>5, <2>1, <2>2 DEF ReadLine
  <2>4. smToLisp' \in Seq(Int)
    <3>1. CASE smToLisp = <<>>
      BY <1>5, <3>1 DEF ReadLine, HasCommand
    <3>2. CASE smToLisp # <<>>
      <4>1. smToLisp' = Tail(smToLisp)
        BY <1>5, <3>2 DEF ReadLine
      <4> QED
        BY <3>2, <4>1, TailType
    <3> QED
      BY <3>1, <3>2
  <2> QED
    BY <1>5, <2>1, <2>3, <2>4 DEF ReadLine
<1>6. CASE ServeMenu
  BY <1>6 DEF ServeMenu
<1>7. CASE EvaluateExpr
  BY <1>7 DEF EvaluateExpr, Line, NoLine
<1>8. CASE SendQueryClients
  BY <1>8 DEF SendQueryClients, QueryClients
<1>9. CASE CloseFrame
  <2>1. lispToSM' \in Seq(Int)
    BY <1>9 DEF CloseFrame, CloseClient
  <2>2. ring' \in Seq(Frame) /\ ring' # <<>>
    <3>1. (ring' = Tail(ring) /\ Len(ring) > 1) \/ ring' = ring
      BY <1>9 DEF CloseFrame, CloseCurrentFrame
    <3>2. CASE ring' = Tail(ring) /\ Len(ring) > 1
      <4>1. Tail(ring) \in Seq(Frame) /\ Len(Tail(ring)) = Len(ring) - 1
        BY TailType, TailLen
      <4> QED
        <5>1. Len(ring') > 0
          BY <3>2, <4>1, TailLen
        <5>2. ring' # <<>>
          BY <5>1
        <5> QED
          BY <3>2, <4>1, <5>2
    <3>3. CASE ring' = ring
      BY <3>3
    <3> QED
      BY <3>1, <3>2, <3>3
  <2>3. smToLisp' \in Seq(Int)
    BY <1>9 DEF CloseFrame
  <2>4. line.from \in Chunk /\ relay' \in Seq(Chunk)
    BY <1>9 DEF CloseFrame, Line, NoLine
  <2> QED
    BY <1>9, <2>1, <2>2, <2>3, <2>4 DEF CloseFrame
<1>10. CASE AskWhetherLast
  BY <1>10 DEF AskWhetherLast, Line, NoLine
<1>11. CASE ReadAnswer
  <2>1. Head(pty) \in Line /\ Head(pty).from \in Window /\ pty' \in Seq(Line)
    BY <1>11, PtyHead DEF ReadAnswer
  <2>2. Head(ring) \in Frame
    BY TailType
  <2>3. evaluated' \subseteq (Window \X Frame)
    BY <1>11, <2>1, <2>2 DEF ReadAnswer
  <2>4. relay' \in Seq(Chunk)
    <3>1. relay' = relay \/ relay' = Append(relay, Head(pty).from)
      BY <1>11 DEF ReadAnswer
    <3>2. CASE relay' = Append(relay, Head(pty).from)
      <4>1. Head(pty).from \in Chunk
        BY <2>1
      <4> QED
        BY <3>2, <4>1, AppendType
    <3> QED
      BY <3>1, <3>2
  <2> QED
    BY <1>11, <2>1, <2>3, <2>4 DEF ReadAnswer
<1> QED
  BY <1>1, <1>2, <1>3, <1>4, <1>5, <1>6, <1>7, <1>8, <1>9, <1>10, <1>11 DEF LispNext

(* Every step of the session manager is well typed. *)
LEMMA ManagerType ==
  ASSUME LinkTypeOK, SMTypeOK, PeerTypeOK, AnswerHasWindow, TodoReadable, SMNext
  PROVE  LinkTypeOK' /\ SMTypeOK' /\ PeerTypeOK' /\ AnswerHasWindow' /\ TodoReadable'
<1> USE DEF LinkTypeOK, SMTypeOK, PeerTypeOK, AnswerHasWindow, TodoReadable,
            Chunk, linkVars, peerVars
<1>1. CASE Select
  <2>1. Ready \subseteq Peer \cup {"io", "listen", "lisp"}
    BY DEF Ready, Peer
  <2>2. ("io" \in Ready => io # <<>>) /\ ("listen" \in Ready => pending # <<>>)
    BY WindowAssumption DEF Ready, Readable
  <2> QED
    BY <1>1, <2>1, <2>2 DEF Select
<1>2. CASE SelectFails
  BY <1>2 DEF SelectFails
<1>3. CASE ReadMenuSwitchFrames
  <2>1. Head(menuToSM) \in Int /\ menuToSM' \in Seq(Int)
    BY <1>3, TailType DEF ReadMenuSwitchFrames
  <2>2. smToLisp' \in Seq(Int)
    BY <1>3, <2>1, PairType DEF ReadMenuSwitchFrames, SwitchFrames
  <2>3. active_session' \in Window \cup {NoSock} /\ reading_output' \in BOOLEAN
    <3>1. CASE UNCHANGED <<active_session, reading_output>>
      BY <3>1
    <3>2. CASE \E i \in DOMAIN plSock : active_session' = plSock[i] /\ reading_output' = TRUE
      <4>1. \A i \in DOMAIN plSock : plSock[i] \in Window
        OBVIOUS
      <4> QED
        BY <3>2, <4>1
    <3> QED
      BY <1>3, <3>1, <3>2 DEF ReadMenuSwitchFrames
  <2> QED
    BY <1>3, <2>1, <2>2, <2>3 DEF ReadMenuSwitchFrames, AtTurn, Served
<1>4. CASE ReadMenuClosed
  BY <1>4 DEF ReadMenuClosed, AtTurn, Served
<1>5. CASE ReadFromSpadIo
  BY <1>5 DEF ReadFromSpadIo, AtTurn, Served
<1>6. CASE AcceptMenu
  <2>1. pending # <<>> /\ pending' = Tail(pending)
    BY <1>6 DEF AcceptMenu, AtTurn
  <2>2. pending' \in Seq(Peer)
    BY <2>1, TailType
  <2>3. todo' \subseteq todo /\ "listen" \notin todo'
    BY <1>6 DEF AcceptMenu, Served
  <2>4. session_socket_mask' \subseteq session_socket_mask \cup {"menu"}
    BY <1>6 DEF AcceptMenu
  <2>5. /\ menu' = "up" /\ menu_client' = TRUE /\ openFd' = openFd \cup {"menu"}
        /\ UNCHANGED <<smPc, plSock, frame, active_session, num_active_clients, reading_output,
                       notices, win, toSM, menuToSM, linkVars>>
    BY <1>6 DEF AcceptMenu
  <2> QED
    BY <2>2, <2>3, <2>4, <2>5 DEF Peer, PeerState
<1>7. CASE AcceptInterpWindow
  <2>1. pending # <<>> /\ pending' = Tail(pending)
    BY <1>7 DEF AcceptInterpWindow, AtTurn
  <2>2. pending' \in Seq(Peer)
    BY <2>1, TailType
  <2>0. Head(pending) \in Window
    BY <1>7 DEF AcceptInterpWindow
  <2>3. /\ todo' \subseteq todo \cup {Head(pending)}
        /\ "listen" \notin todo'
        /\ "io" \in todo' => "io" \in todo
    <3>1. PICK freed \in FreedFds :
             todo' = (todo \ {"listen"}) \cup (IF freed \cap todo = {} THEN {} ELSE {Head(pending)})
      BY <1>7 DEF AcceptInterpWindow
    <3> QED
      BY <3>1, <2>0, WindowAssumption
  <2>6. session_socket_mask' \subseteq session_socket_mask \cup {Head(pending)}
    BY <1>7 DEF AcceptInterpWindow
  <2>7. win' \in [Window -> PeerState]
    BY <1>7, <2>0 DEF AcceptInterpWindow, PeerState
  <2>8. /\ smPc' = "answer" /\ openFd' = openFd \cup {Head(pending)}
        /\ UNCHANGED <<frame, active_session, num_active_clients, reading_output, menu_client,
                       notices, menu, toSM, menuToSM, lispToSM, menuToLisp, pty, relay, io>>
    BY <1>7 DEF AcceptInterpWindow
  <2>4. plSock' \in Seq(Window) /\ plSock' # <<>>
    BY <1>7, ConsType DEF AcceptInterpWindow
  <2>5. smToLisp' \in Seq(Int)
    BY <1>7, AppendType DEF AcceptInterpWindow, CreateFrame
  <2> QED
    BY <2>0, <2>2, <2>3, <2>4, <2>5, <2>6, <2>7, <2>8 DEF Peer
<1>8. CASE ReadCreateFrameAnswer
  <2>1. lispToSM[2] \in Int /\ lispToSM' \in Seq(Int)
    BY <1>8, DropTwoType DEF ReadCreateFrameAnswer
  <2>2. Head(plSock) \in Window
    BY <1>8, TailType DEF ReadCreateFrameAnswer
  <2>3. frame' \in [Window -> Int]
    BY <1>8, <2>1, <2>2 DEF ReadCreateFrameAnswer
  <2>4. UNCHANGED <<todo, plSock, reading_output, menu_client, session_socket_mask, openFd,
                    notices, peerVars, smToLisp, menuToLisp, pty, relay, io>>
    BY <1>8 DEF ReadCreateFrameAnswer
  <2>5. smPc' = "run" /\ active_session' \in Window /\ num_active_clients' \in Int
    BY <1>8, <2>2 DEF ReadCreateFrameAnswer
  <2> QED
    BY <2>1, <2>3, <2>4, <2>5
<1>9. CASE LoseRace
  <2>1. lispToSM' \in Seq(Int)
    BY <1>9, TailType DEF LoseRace
  <2> QED
    BY <1>9, <2>1 DEF LoseRace
<1>10. ASSUME NEW w \in Window, ReadFromSession(w)
     PROVE  LinkTypeOK' /\ SMTypeOK' /\ PeerTypeOK' /\ AnswerHasWindow' /\ TodoReadable'
  <2>1. Head(toSM[w]) \in Line /\ Tail(toSM[w]) \in Seq(Line)
    BY <1>10, TailType DEF ReadFromSession
  <2>2. smToLisp' \in Seq(Int)
    BY <1>10, SwitchToType DEF ReadFromSession
  <2>3. pty' \in Seq(Line)
    BY <1>10, <2>1, AppendType DEF ReadFromSession
  <2>4. toSM' \in [Window -> Seq(Line)]
    BY <1>10, <2>1 DEF ReadFromSession
  <2> QED
    BY <1>10, <2>2, <2>3, <2>4 DEF ReadFromSession, AtTurn, Served
<1>11. ASSUME NEW w \in Window, ReadSessionClosed(w)
     PROVE  LinkTypeOK' /\ SMTypeOK' /\ PeerTypeOK' /\ AnswerHasWindow' /\ TodoReadable'
  <2>1. smToLisp' \in Seq(Int)
    BY <1>11, SwitchToType DEF ReadSessionClosed
  <2> QED
    BY <1>11, <2>1 DEF ReadSessionClosed, AtTurn, Served
<1>12. ASSUME NEW w \in Window, SkipSession(w)
     PROVE  LinkTypeOK' /\ SMTypeOK' /\ PeerTypeOK' /\ AnswerHasWindow' /\ TodoReadable'
  BY <1>12 DEF SkipSession, AtTurn, Served
<1>13. CASE ReadEndOfOutput
  <2>1. lispToSM' \in Seq(Int)
    BY <1>13, TailType DEF ReadEndOfOutput, HasSpadCommand
  <2>2. openFd' \subseteq openFd
    BY <1>13 DEF ReadEndOfOutput
  <2> QED
    BY <1>13, <2>1, <2>2 DEF ReadEndOfOutput, HasSpadCommand, AtTurn, Served
<1>14. CASE ReadQueryClients
  <2>1. lispToSM' \in Seq(Int)
    BY <1>14, TailType DEF ReadQueryClients, HasSpadCommand
  <2>2. smToLisp' \in Seq(Int)
    BY <1>14, AppendType DEF ReadQueryClients, NumClients
  <2> QED
    BY <1>14, <2>1, <2>2 DEF ReadQueryClients, HasSpadCommand, AtTurn, Served
<1>15. CASE ReadCloseClient
  <2>1. lispToSM' \in Seq(Int)
    BY <1>15, DropTwoType DEF ReadCloseClient
  <2>2. PICK i \in DOMAIN plSock : CloseClientAt(i)
    BY <1>15 DEF ReadCloseClient
  <2>3. plSock[i] \in Window /\ plSock[1] \in Window
    BY <2>2
  <2>4. plSock' \in Seq(Window)
    BY <2>2, RemoveAtType DEF CloseClientAt
  <2>5. win' \in [Window -> PeerState]
    BY <2>2, <2>3 DEF CloseClientAt, PeerState
  <2>6. num_active_clients' \in Int /\ active_session' = NoSock /\ session_socket_mask' \subseteq Peer
    BY <2>2 DEF CloseClientAt, CountDown, ClearActive, ClearMask
  <2>7. notices' \subseteq (Window \X Window)
    BY <2>2, <2>3 DEF CloseClientAt
  <2>8. openFd' \subseteq openFd
    BY <2>2 DEF CloseClientAt
  <2>9. smPc = "run" /\ smPc' = smPc
    BY <1>15 DEF ReadCloseClient, HasSpadCommand, AtTurn
  <2> QED
    BY <1>15, <2>1, <2>4, <2>5, <2>6, <2>7, <2>8, <2>9 DEF ReadCloseClient, Served
<1>16. CASE ReadCloseUnknown
  <2>1. lispToSM' \in Seq(Int)
    BY <1>16, DropTwoType DEF ReadCloseUnknown
  <2>2. smPc = "run" /\ smPc' \in {"run", "crashed"}
    BY <1>16 DEF ReadCloseUnknown, HasSpadCommand, AtTurn
  <2> QED
    BY <1>16, <2>1, <2>2 DEF ReadCloseUnknown, Served
<1>17. CASE ReadUnknownCommand
  <2>1. lispToSM' \in Seq(Int)
    BY <1>17, TailType DEF ReadUnknownCommand, HasSpadCommand
  <2> QED
    BY <1>17, <2>1 DEF ReadUnknownCommand, HasSpadCommand, AtTurn, Served
<1> QED
  BY <1>1, <1>2, <1>3, <1>4, <1>5, <1>6, <1>7, <1>8, <1>9, <1>10, <1>11, <1>12, <1>13, <1>14, <1>15, <1>16, <1>17
  DEF SMNext

(* Every step of a window, of HyperDoc or of a user is well typed. *)
LEMMA PeerType ==
  ASSUME TypeInv, PeerNext
  PROVE  TypeInv'
<1> USE DEF TypeInv, TypeOK, PeerTypeOK, AnswerHasWindow, TodoReadable
<1>1. ASSUME NEW w \in Window, ConnectWindow(w)
      PROVE  TypeInv'
  <2>1. win' \in [Window -> PeerState]
    BY <1>1 DEF ConnectWindow, PeerState
  <2>2. pending' \in Seq(Peer) /\ Len(pending') = Len(pending) + 1
    BY <1>1, AppendType DEF ConnectWindow, Peer
  <2>3. pending' # <<>>
    BY <2>2
  <2>4. LinkTypeOK' /\ LispTypeOK' /\ SMTypeOK'
    BY <1>1 DEF ConnectWindow, LinkTypeOK, LispTypeOK, SMTypeOK, linkVars, lispVars, smVars
  <2> QED
    BY <1>1, <2>1, <2>2, <2>3, <2>4 DEF ConnectWindow, linkVars, lispVars, smVars, envVars
<1>2. ASSUME NEW w \in Window, NEW k \in Kind, TypeLine(w, k)
      PROVE  TypeInv'
  <2>1. [from |-> w, kind |-> k] \in Line
    BY DEF Line
  <2>2. Append(toSM[w], [from |-> w, kind |-> k]) \in Seq(Line)
    BY <2>1, AppendType
  <2>3. toSM' \in [Window -> Seq(Line)]
    BY <1>2, <2>2 DEF TypeLine
  <2>4. LinkTypeOK' /\ LispTypeOK' /\ SMTypeOK'
    BY <1>2 DEF TypeLine, LinkTypeOK, LispTypeOK, SMTypeOK, linkVars, lispVars, smVars
  <2> QED
    BY <1>2, <2>3, <2>4 DEF TypeLine, linkVars, lispVars, smVars
<1>3. ASSUME NEW w \in Window, WindowDies(w)
      PROVE  TypeInv'
  <2>1. win' \in [Window -> PeerState]
    BY <1>3 DEF WindowDies, PeerState
  <2>2. LinkTypeOK' /\ LispTypeOK' /\ SMTypeOK'
    BY <1>3 DEF WindowDies, LinkTypeOK, LispTypeOK, SMTypeOK, linkVars, lispVars, smVars
  <2> QED
    BY <1>3, <2>1, <2>2 DEF WindowDies, linkVars, lispVars, smVars, envVars
<1>4. CASE ConnectMenu
  <2>1. pending' \in Seq(Peer) /\ Len(pending') = Len(pending) + 1
    BY <1>4, AppendType DEF ConnectMenu, Peer
  <2>2. pending' # <<>>
    BY <2>1
  <2>3. LinkTypeOK' /\ LispTypeOK' /\ SMTypeOK'
    BY <1>4 DEF ConnectMenu, LinkTypeOK, LispTypeOK, SMTypeOK, linkVars, lispVars, smVars
  <2> QED
    BY <1>4, <2>1, <2>2, <2>3 DEF ConnectMenu, PeerState, linkVars, lispVars, smVars, envVars
<1>5. CASE IssueServerCommand
  <2>1. menuToSM' \in Seq(Int)
    BY <1>5, AppendType DEF IssueServerCommand
  <2>2. LinkTypeOK'
    BY <1>5 DEF IssueServerCommand, LinkTypeOK
  <2>3. LispTypeOK' /\ SMTypeOK'
    BY <1>5 DEF IssueServerCommand, LispTypeOK, SMTypeOK, lispVars, smVars
  <2> QED
    BY <1>5, <2>1, <2>2, <2>3 DEF IssueServerCommand, lispVars, smVars
<1>6. CASE MenuDies
  <2>1. LinkTypeOK' /\ LispTypeOK' /\ SMTypeOK'
    BY <1>6 DEF MenuDies, LinkTypeOK, LispTypeOK, SMTypeOK, linkVars, lispVars, smVars
  <2> QED
    BY <1>6, <2>1 DEF MenuDies, PeerState, linkVars, lispVars, smVars, envVars
<1> QED
  BY <1>1, <1>2, <1>3, <1>4, <1>5, <1>6, PeerNext DEF PeerNext

(* The relay of sman only moves a chunk of output on. *)
LEMMA RelayType ==
  ASSUME TypeInv, RelayStep
  PROVE  TypeInv'
<1> USE DEF TypeInv, TypeOK
<1>1. Head(relay) \in Chunk /\ relay' \in Seq(Chunk)
  BY TailType DEF RelayStep, RelayOutput, LinkTypeOK
<1>2. io' \in Seq(Chunk) /\ Len(io') = Len(io) + 1
  BY <1>1, AppendType DEF RelayStep, RelayOutput, LinkTypeOK
<1>3. io' # <<>>
  BY <1>2
<1>4. LinkTypeOK'
  BY <1>1, <1>2 DEF RelayStep, RelayOutput, LinkTypeOK
<1>5. LispTypeOK' /\ SMTypeOK' /\ PeerTypeOK'
  BY DEF RelayStep, LispTypeOK, SMTypeOK, PeerTypeOK, lispVars, smVars, peerVars
<1> QED
  BY <1>3, <1>4, <1>5
  DEF RelayStep, AnswerHasWindow, TodoReadable, lispVars, smVars, peerVars, envVars

(* The initial state is well typed. *)
LEMMA InitType == Init => TypeInv
<1> SUFFICES ASSUME Init
             PROVE  TypeInv
  OBVIOUS
<1>1. LinkTypeOK
  BY DEF Init, LinkInit, LinkTypeOK
<1>2. LispTypeOK /\ ring # <<>>
  <2>1. ring \in Seq(Frame) /\ ring # <<>>
    BY DEF Init, LispInit, Frame
  <2>2. evaluated \subseteq (Window \X Frame)
    BY DEF Init, LispInit
  <2>3. lispPc \in LispPcs /\ line \in Line \cup {NoLine} /\ needToSignal \in BOOLEAN
    BY DEF Init, LispInit, LispPcs
  <2>4. currentFrameNum \in Int /\ frameNumber \in Nat
    BY DEF Init, LispInit
  <2> QED
    BY <2>1, <2>2, <2>3, <2>4 DEF LispTypeOK
<1>3. SMTypeOK
  <2>1. NoFrame \in Int
    BY DEF NoFrame
  <2>2. frame \in [Window -> Int]
    BY <2>1 DEF Init, SMInit
  <2>3. notices \subseteq (Window \X Window)
    BY DEF Init, SMInit
  <2>4. /\ smPc = "run" /\ plSock \in Seq(Window) /\ num_active_clients \in Int
        /\ active_session \in Window \cup {NoSock}
        /\ todo = {} /\ session_socket_mask = {} /\ openFd = {}
    BY DEF Init, SMInit
  <2>5. reading_output \in BOOLEAN /\ menu_client \in BOOLEAN
    BY DEF Init, SMInit
  <2> QED
    BY <2>2, <2>3, <2>4, <2>5 DEF SMTypeOK
<1>4. PeerTypeOK
  BY DEF Init, PeerInit, PeerTypeOK, PeerState
<1> QED
  BY <1>1, <1>2, <1>3, <1>4
  DEF Init, SMInit, TypeInv, TypeOK, AnswerHasWindow, TodoReadable

(* TypeInv is preserved by every step of the system. *)
LEMMA NextType == TypeInv /\ [Next]_vars => TypeInv'
<1> SUFFICES ASSUME TypeInv, [Next]_vars
             PROVE  TypeInv'
  OBVIOUS
<1>1. CASE Alive /\ SMStep
  <2>1. LinkTypeOK' /\ SMTypeOK' /\ PeerTypeOK' /\ AnswerHasWindow' /\ TodoReadable'
    BY <1>1, ManagerType DEF SMStep, TypeInv, TypeOK
  <2> QED
    BY <1>1, <2>1 DEF SMStep, TypeInv, TypeOK, LispTypeOK, lispVars, envVars
<1>2. CASE Alive /\ LispStep
  <2>1. LinkTypeOK' /\ LispTypeOK' /\ ring' # <<>> /\ io' = io
    BY <1>2, LispType DEF LispStep, TypeInv, TypeOK
  <2>2. SMTypeOK' /\ PeerTypeOK'
    BY <1>2 DEF LispStep, TypeInv, TypeOK, SMTypeOK, PeerTypeOK, smVars, peerVars
  <2> QED
    BY <1>2, <2>1, <2>2
    DEF LispStep, TypeInv, TypeOK, AnswerHasWindow, TodoReadable, smVars, peerVars, envVars
<1>3. CASE Alive /\ RelayStep
  BY <1>3, RelayType
<1>4. CASE Alive /\ PeerNext
  BY <1>4, PeerType
<1>5. CASE UNCHANGED vars
  <2>1. LinkTypeOK' /\ LispTypeOK' /\ ring' # <<>>
    BY <1>5 DEF vars, linkVars, lispVars, TypeInv, TypeOK, LinkTypeOK, LispTypeOK
  <2>2. SMTypeOK' /\ AnswerHasWindow' /\ TodoReadable'
    BY <1>5 DEF vars, linkVars, smVars, peerVars, TypeInv, TypeOK, SMTypeOK,
                AnswerHasWindow, TodoReadable
  <2>3. PeerTypeOK' /\ env' \in Habits /\ typed' \in Nat /\ menuSent' \in Nat
    BY <1>5 DEF vars, peerVars, envVars, TypeInv, TypeOK, PeerTypeOK
  <2> QED
    BY <2>1, <2>2, <2>3 DEF TypeInv, TypeOK
<1> QED
  BY <1>1, <1>2, <1>3, <1>4, <1>5 DEF Next, Rest

(***************************************************************************)
(* Every variable keeps its type, whatever the programs and peers do: in   *)
(* particular the ring of the interpreter never becomes empty, and what is *)
(* read from a queue was there.                                            *)
(***************************************************************************)
THEOREM TypeCorrect == Spec => []TypeOK
<1>1. TypeInv => TypeOK
  BY DEF TypeInv
<1> QED
  BY InitType, NextType, <1>1, PTL DEF Spec

-----------------------------------------------------------------------------
(* What the elements of a sequence become.                                 *)
LEMMA ConsElems ==
  ASSUME NEW S, NEW s \in Seq(S), NEW e \in S
  PROVE  /\ Len(<<e>> \o s) = Len(s) + 1
         /\ DOMAIN (<<e>> \o s) = 1 .. Len(s) + 1
         /\ \A j \in 1 .. Len(s) + 1 : (<<e>> \o s)[j] = IF j = 1 THEN e ELSE s[j - 1]
         /\ ToSet(<<e>> \o s) = {e} \cup ToSet(s)
<1> DEFINE t == <<e>> \o s
<1>1. Len(t) = Len(s) + 1 /\ DOMAIN t = 1 .. Len(s) + 1
  OBVIOUS
<1>2. \A j \in 1 .. Len(s) + 1 : t[j] = IF j = 1 THEN e ELSE s[j - 1]
  OBVIOUS
<1>3. ToSet(t) \subseteq {e} \cup ToSet(s)
  BY <1>1, <1>2 DEF ToSet
<1>4. e \in ToSet(t)
  <2>1. 1 \in DOMAIN t /\ t[1] = e
    BY <1>1, <1>2
  <2> QED
    BY <2>1 DEF ToSet
<1>5. ASSUME NEW x \in ToSet(s)
      PROVE  x \in ToSet(t)
  <2>1. PICK j \in DOMAIN s : s[j] = x
    BY DEF ToSet
  <2>2. j + 1 \in DOMAIN t /\ t[j + 1] = x
    BY <1>1, <1>2, <2>1
  <2> QED
    BY <2>2 DEF ToSet
<1> QED
  BY <1>1, <1>2, <1>3, <1>4, <1>5

LEMMA TailElems ==
  ASSUME NEW S, NEW s \in Seq(S), s # <<>>
  PROVE  /\ DOMAIN Tail(s) = 1 .. Len(s) - 1
         /\ 1 \in DOMAIN s /\ Head(s) = s[1]
         /\ \A j \in 1 .. Len(s) - 1 : j + 1 \in DOMAIN s /\ Tail(s)[j] = s[j + 1]
OBVIOUS

LEMMA AppendElems ==
  ASSUME NEW S, NEW s \in Seq(S), NEW e \in S
  PROVE  /\ DOMAIN Append(s, e) = 1 .. Len(s) + 1
         /\ \A j \in 1 .. Len(s) + 1 :
               /\ Append(s, e)[j] = IF j = Len(s) + 1 THEN e ELSE s[j]
               /\ j # Len(s) + 1 => j \in DOMAIN s
OBVIOUS

LEMMA RemoveAtElems ==
  ASSUME NEW S, NEW s \in Seq(S), NEW i \in DOMAIN s
  PROVE  /\ RemoveAt(s, i) \in Seq(S)
         /\ Len(RemoveAt(s, i)) = Len(s) - 1
         /\ \A j \in 1 .. Len(s) - 1 : RemoveAt(s, i)[j] = IF j < i THEN s[j] ELSE s[j + 1]
<1> DEFINE a == SubSeq(s, 1, i - 1)
           b == SubSeq(s, i + 1, Len(s))
<1>1. a \in Seq(S) /\ Len(a) = i - 1 /\ \A j \in 1 .. i - 1 : a[j] = s[j]
  OBVIOUS
<1>2. b \in Seq(S) /\ Len(b) = Len(s) - i /\ \A j \in 1 .. Len(s) - i : b[j] = s[j + i]
  OBVIOUS
<1>3. RemoveAt(s, i) = a \o b
  BY DEF RemoveAt
<1>4. a \o b \in Seq(S) /\ Len(a \o b) = Len(s) - 1
  <2> HIDE DEF a, b
  <2> QED
    BY <1>1, <1>2
<1>5. \A j \in 1 .. Len(s) - 1 : (a \o b)[j] = IF j < i THEN a[j] ELSE b[j - (i - 1)]
  <2> HIDE DEF a, b
  <2> QED
    BY <1>1, <1>2
<1>6. \A j \in 1 .. Len(s) - 1 : j >= i => b[j - (i - 1)] = s[j + 1]
  <2> HIDE DEF b
  <2>1. TAKE j \in 1 .. Len(s) - 1
  <2>2. HAVE j >= i
  <2>3. j - (i - 1) \in 1 .. Len(s) - i /\ (j - (i - 1)) + i = j + 1
    BY <2>2
  <2> QED
    BY <1>2, <2>3
<1> HIDE DEF a, b
<1> QED
  BY <1>1, <1>3, <1>4, <1>5, <1>6

(* Removing one element of a list without repetitions.                     *)
LEMMA RemoveAtOnce ==
  ASSUME NEW S, NEW s \in Seq(S), NEW i \in DOMAIN s,
         \A j, k \in DOMAIN s : s[j] = s[k] => j = k
  PROVE  LET t == RemoveAt(s, i)
         IN  /\ \A j, k \in DOMAIN t : t[j] = t[k] => j = k
             /\ ToSet(t) = ToSet(s) \ {s[i]}
<1> DEFINE t == RemoveAt(s, i)
<1>1. t \in Seq(S) /\ Len(t) = Len(s) - 1
  BY RemoveAtElems
<1>2. \A j \in DOMAIN t : t[j] = IF j < i THEN s[j] ELSE s[j + 1]
  <2>1. \A j \in 1 .. Len(s) - 1 : t[j] = IF j < i THEN s[j] ELSE s[j + 1]
    BY RemoveAtElems
  <2> HIDE DEF t
  <2>2. DOMAIN t = 1 .. Len(s) - 1
    BY <1>1
  <2> QED
    BY <2>1, <2>2
<1> HIDE DEF t
<1>3. \A j, k \in DOMAIN t : t[j] = t[k] => j = k
  BY <1>1, <1>2
<1>4. ASSUME NEW x \in ToSet(t)
      PROVE  x \in ToSet(s) /\ x # s[i]
  <2>1. PICK j \in DOMAIN t : t[j] = x
    BY DEF ToSet
  <2>2. PICK k \in DOMAIN s : k # i /\ s[k] = x
    BY <1>1, <1>2, <2>1
  <2> QED
    BY <2>2 DEF ToSet
<1>5. ASSUME NEW x \in ToSet(s), x # s[i]
      PROVE  x \in ToSet(t)
  <2>1. PICK k \in DOMAIN s : k # i /\ s[k] = x
    BY <1>5 DEF ToSet
  <2>2. PICK j \in DOMAIN t : t[j] = x
    <3>1. CASE k < i
      <4>1. k \in DOMAIN t /\ t[k] = x
        BY <1>1, <1>2, <2>1, <3>1
      <4> QED
        BY <4>1
    <3>2. CASE k > i
      <4>1. k - 1 \in 1 .. Len(s) - 1 /\ ~ (k - 1 < i) /\ (k - 1) + 1 = k
        BY <2>1, <3>2
      <4>2. k - 1 \in DOMAIN t
        BY <1>1, <4>1
      <4>3. t[k - 1] = x
        BY <1>2, <2>1, <4>1, <4>2
      <4> QED
        BY <4>2, <4>3
    <3> QED
      BY <2>1, <3>1, <3>2
  <2> QED
    BY <2>2 DEF ToSet
<1> QED
  BY <1>3, <1>4, <1>5 DEF t

-----------------------------------------------------------------------------
(* The variables ListInv is about.                                         *)
listVars == <<smPc, todo, plSock, active_session, num_active_clients, menu_client,
              session_socket_mask, openFd, win, menu, pending>>

(* A step that neither links nor unlinks a window, at most serves or       *)
(* closes a descriptor, clears or moves the active window, or ends the     *)
(* program.                                                                *)
Harmless ==
    /\ UNCHANGED <<plSock, num_active_clients, menu_client, session_socket_mask,
                   win, menu, pending>>
    /\ todo' \subseteq todo
    /\ openFd' \subseteq openFd
    /\ smPc' \in {smPc, "exited", "crashed"}
    /\ active_session' \in {active_session, NoSock} \cup ToSet(plSock)

LEMMA HarmlessKeeps ==
  ASSUME TypeInv, ListInv, Harmless
  PROVE  ListInv'
<1> USE DEF ListInv, Harmless
<1>1. ListedOnce' /\ QueuedOnce' /\ ListedAccepted'
  BY DEF ListedOnce, QueuedOnce, ListedAccepted
<1>2. TodoListed'
  BY DEF TodoListed
<1>3. AnswerHasWindow' /\ CountMatchesList'
  BY DEF AnswerHasWindow, CountMatchesList
<1>4. ActiveInList'
  <2>1. plSock \in Seq(Window)
    BY DEF TypeInv, TypeOK, SMTypeOK
  <2> QED
    BY <2>1 DEF ActiveInList, Contains, ToSet
<1>5. MaskIsExact'
  BY DEF MaskIsExact
<1> QED
  BY <1>1, <1>2, <1>3, <1>4, <1>5

(* When a command of Lisp is served, nothing is left of the snapshot.      *)
LEMMA LispIsLast ==
  ASSUME TypeInv, ListInv, AtTurn("lisp")
  PROVE  todo = {"lisp"}
<1>1. SUFFICES ASSUME NEW fd \in todo, fd # "lisp"
               PROVE  FALSE
  BY DEF AtTurn
<1>2. Rank("lisp") = 4 + Len(plSock) /\ Len(plSock) \in Nat
  BY WindowAssumption DEF Rank, TypeInv, TypeOK, SMTypeOK
<1>3. Rank("lisp") <= Rank(fd)
  BY DEF AtTurn
<1>4. CASE fd \in {"menu", "io", "listen"}
  <2>1. Rank(fd) \in 1 .. 3
    BY <1>4, WindowAssumption DEF Rank
  <2> QED
    BY <1>2, <1>3, <2>1
<1>5. CASE fd \in Window
  <2>1. plSock \in Seq(Window) /\ fd \in ToSet(plSock)
    BY <1>5 DEF ListInv, TodoListed, TypeInv, TypeOK, SMTypeOK
  <2>2. Position(plSock, fd) \in 1 .. Len(plSock)
    BY <2>1, PositionIs DEF ToSet
  <2>3. Rank(fd) = 3 + Position(plSock, fd)
    BY <1>5, WindowAssumption DEF Rank
  <2> QED
    BY <1>2, <1>3, <2>2, <2>3
<1> QED
  BY <1>1, <1>4, <1>5 DEF TypeInv, TypeOK, SMTypeOK, Peer

(* The snapshot is taken of the mask, which is exact when all of it is     *)
(* open; otherwise select fails.                                           *)
LEMMA SelectKeepsList ==
  ASSUME TypeInv, ListInv, Select
  PROVE  ListInv'
<1>1. Ready \cap Window \subseteq ToSet(plSock)
  <2>1. session_socket_mask \subseteq openFd
    BY DEF Select
  <2> QED
    BY <2>1, WindowAssumption DEF Ready, ListInv, MaskIsExact
<1>2. TodoListed'
  BY <1>1 DEF Select, TodoListed
<1>3. UNCHANGED <<smPc, plSock, active_session, num_active_clients, menu_client,
                  session_socket_mask, openFd, win, menu, pending>>
  BY DEF Select, peerVars
<1> QED
  BY <1>2, <1>3
  DEF ListInv, ListedOnce, QueuedOnce, ListedAccepted, AnswerHasWindow, ActiveInList,
      CountMatchesList, MaskIsExact

(* HyperDoc leaves the mask when it leaves menu_client.                    *)
LEMMA MenuClosedKeepsList ==
  ASSUME TypeInv, ListInv, ReadMenuClosed
  PROVE  ListInv'
<1>1. UNCHANGED <<smPc, plSock, active_session, num_active_clients, win, menu, pending>>
      /\ todo' \subseteq todo
  BY DEF ReadMenuClosed, Served, peerVars
<1>2. "menu" \notin ToSet(plSock)
  BY WindowAssumption DEF ToSet, TypeInv, TypeOK, SMTypeOK
<1>4. /\ session_socket_mask' = session_socket_mask \ {"menu"}
      /\ menu_client /\ ~ menu_client' /\ openFd' = openFd
  BY DEF ReadMenuClosed
<1>3. MaskIsExact'
  BY <1>1, <1>2, <1>4 DEF ListInv, MaskIsExact
<1> QED
  BY <1>1, <1>3
  DEF ListInv, ListedOnce, QueuedOnce, ListedAccepted, TodoListed, AnswerHasWindow,
      ActiveInList, CountMatchesList

(* The peer that is accepted leaves the listen queue for good.             *)
LEMMA QueueAdvances ==
  ASSUME TypeInv, QueuedOnce, pending # <<>>, pending' = Tail(pending),
         Head(pending) \in Window => menu' = menu
                                     /\ win' = [win EXCEPT ![Head(pending)] = "up"],
         Head(pending) = "menu" => win' = win
  PROVE  QueuedOnce'
<1> USE DEF QueuedOnce
<1>1. pending \in Seq(Peer) /\ win \in [Window -> PeerState]
  BY DEF TypeInv, TypeOK, PeerTypeOK
<1>2. /\ DOMAIN pending' = 1 .. Len(pending) - 1
      /\ 1 \in DOMAIN pending /\ Head(pending) = pending[1]
      /\ \A j \in DOMAIN pending' : j + 1 \in DOMAIN pending /\ pending'[j] = pending[j + 1]
  BY <1>1, TailElems
<1>3. \A i, j \in DOMAIN pending' : pending'[i] = pending'[j] => i = j
  BY <1>2
<1>4. \A j \in DOMAIN pending' : pending'[j] # Head(pending)
  BY <1>2
<1>5. ASSUME NEW j \in DOMAIN pending', pending'[j] \in Window
      PROVE  win'[pending'[j]] = "connecting"
  <2>1. win[pending'[j]] = "connecting"
    BY <1>2, <1>5
  <2>2. Head(pending) \in Window \/ Head(pending) = "menu"
    BY <1>1, TailType DEF Peer
  <2> QED
    BY <1>1, <1>4, <1>5, <2>1, <2>2
<1>6. ASSUME NEW j \in DOMAIN pending', pending'[j] = "menu"
      PROVE  menu' = "connecting"
  <2>1. menu = "connecting" /\ Head(pending) # "menu"
    BY <1>2, <1>4, <1>6
  <2>2. Head(pending) \in Window
    BY <1>1, <2>1, TailType DEF Peer
  <2> QED
    BY <2>1, <2>2
<1> QED
  BY <1>3, <1>5, <1>6

(* The number that accept takes over is of no open descriptor.             *)
LEMMA FreedIsClosed ==
  ASSUME NEW freed \in FreedFds
  PROVE  freed \cap openFd = {}
BY DEF FreedFds

LEMMA AcceptMenuKeepsList ==
  ASSUME TypeInv, ListInv, AcceptMenu
  PROVE  ListInv'
<1>1. pending # <<>> /\ pending' = Tail(pending) /\ Head(pending) = "menu"
  BY DEF AcceptMenu, AtTurn, TypeInv, TodoReadable
<1>2. UNCHANGED <<smPc, plSock, active_session, num_active_clients, win>>
      /\ todo' \subseteq todo
  BY DEF AcceptMenu, Served
<1>3. QueuedOnce'
  BY <1>1, <1>2, QueueAdvances, WindowAssumption DEF ListInv
<1>4. MaskIsExact'
  <2> DEFINE L == ToSet(plSock) \cup (IF menu_client THEN {"menu"} ELSE {})
  <2>1. PICK freed \in FreedFds : session_socket_mask' = (session_socket_mask \ freed) \cup {"menu"}
    BY DEF AcceptMenu
  <2>2. session_socket_mask \cap openFd = L \cap openFd
    BY DEF ListInv, MaskIsExact
  <2>3. /\ ToSet(plSock') \cup (IF menu_client' THEN {"menu"} ELSE {}) = L \cup {"menu"}
        /\ openFd' = openFd \cup {"menu"}
    BY <1>2 DEF AcceptMenu
  <2> HIDE DEF L
  <2>4. session_socket_mask' \cap (openFd \cup {"menu"}) = (L \cup {"menu"}) \cap (openFd \cup {"menu"})
    <3>1. freed \cap openFd = {}
      BY FreedIsClosed
    <3> QED
      BY <2>1, <2>2, <3>1
  <2> QED
    BY <2>3, <2>4 DEF MaskIsExact
<1> QED
  BY <1>2, <1>3, <1>4
  DEF ListInv, ListedOnce, ListedAccepted, TodoListed, AnswerHasWindow,
      ActiveInList, CountMatchesList

LEMMA AcceptWindowKeepsList ==
  ASSUME TypeInv, ListInv, AcceptInterpWindow
  PROVE  ListInv'
<1> DEFINE w == Head(pending)
<1>1. /\ pending # <<>> /\ pending' = Tail(pending) /\ w \in Window
      /\ plSock' = <<w>> \o plSock
      /\ win' = [win EXCEPT ![w] = "up"]
      /\ \E freed \in FreedFds : session_socket_mask' = (session_socket_mask \ freed) \cup {w}
      /\ openFd' = openFd \cup {w}
      /\ todo' \subseteq todo \cup {w}
      /\ smPc = "run" /\ smPc' = "answer"
      /\ UNCHANGED <<menu, menu_client, active_session, num_active_clients>>
  BY DEF AcceptInterpWindow, AtTurn, TypeInv, TodoReadable
<1>2. plSock \in Seq(Window) /\ win \in [Window -> PeerState] /\ num_active_clients \in Int
      /\ pending \in Seq(Peer)
  BY DEF TypeInv, TypeOK, SMTypeOK, PeerTypeOK
<1>3. w = pending[1] /\ 1 \in DOMAIN pending
  BY <1>1, <1>2, TailElems
<1>4. QueuedOnce'
  BY <1>1, WindowAssumption, QueueAdvances DEF ListInv
<1>5. win[w] = "connecting"
  BY <1>1, <1>3 DEF ListInv, QueuedOnce
<1> HIDE DEF w
<1>6. \A i \in DOMAIN plSock : plSock[i] \in Window /\ plSock[i] # w
  BY <1>2, <1>5 DEF ListInv, ListedAccepted
<1>7. /\ Len(plSock') = Len(plSock) + 1
      /\ DOMAIN plSock' = 1 .. Len(plSock) + 1
      /\ \A j \in 1 .. Len(plSock) + 1 : plSock'[j] = IF j = 1 THEN w ELSE plSock[j - 1]
      /\ ToSet(plSock') = {w} \cup ToSet(plSock)
  BY <1>1, <1>2, ConsElems
<1>8. \A j \in 1 .. Len(plSock) + 1 : j # 1 => j - 1 \in DOMAIN plSock
  BY <1>2
<1>9. ListedOnce'
  <2>1. SUFFICES ASSUME NEW i \in DOMAIN plSock', NEW j \in DOMAIN plSock', plSock'[i] = plSock'[j]
                 PROVE  i = j
    BY DEF ListedOnce
  <2>2. CASE i = 1 \/ j = 1
    BY <1>6, <1>7, <1>8, <2>1, <2>2
  <2>3. CASE i # 1 /\ j # 1
    <3>1. plSock[i - 1] = plSock[j - 1] /\ i - 1 \in DOMAIN plSock /\ j - 1 \in DOMAIN plSock
      BY <1>7, <1>8, <2>1, <2>3
    <3>2. i - 1 = j - 1
      BY <3>1 DEF ListInv, ListedOnce
    <3> QED
      BY <1>2, <1>7, <3>2
  <2> QED
    BY <2>2, <2>3
<1>10. ListedAccepted'
  <2>1. SUFFICES ASSUME NEW i \in DOMAIN plSock'
                 PROVE  win'[plSock'[i]] \in {"up", "dead"}
    BY DEF ListedAccepted
  <2>2. CASE i = 1
    BY <1>1, <1>2, <1>7, <2>2
  <2>3. CASE i # 1
    <3>1. plSock'[i] = plSock[i - 1] /\ i - 1 \in DOMAIN plSock
      BY <1>7, <1>8, <2>3
    <3> QED
      BY <1>1, <1>2, <1>6, <3>1 DEF ListInv, ListedAccepted
  <2> QED
    BY <2>2, <2>3
<1>11. TodoListed'
  BY <1>1, <1>7 DEF ListInv, TodoListed
<1>12. AnswerHasWindow' /\ CountMatchesList'
  <2>1. plSock' # <<>>
    BY <1>7, <1>2
  <2>2. num_active_clients' = Len(plSock') - 1
    BY <1>1, <1>2, <1>7 DEF ListInv, CountMatchesList
  <2> QED
    BY <1>1, <2>1, <2>2 DEF AnswerHasWindow, CountMatchesList
<1>13. ActiveInList'
  <2>1. CASE active_session = NoSock
    BY <1>1, <2>1 DEF ActiveInList
  <2>2. CASE Contains(plSock, active_session)
    <3>1. active_session \in ToSet(plSock)
      BY <1>2, <2>2 DEF Contains, ToSet
    <3>2. active_session \in ToSet(plSock')
      BY <1>7, <3>1
    <3> QED
      BY <1>1, <1>7, <3>2 DEF ActiveInList, Contains, ToSet
  <2> QED
    BY <2>1, <2>2 DEF ListInv, ActiveInList
<1>14. MaskIsExact'
  <2> DEFINE L == ToSet(plSock) \cup (IF menu_client THEN {"menu"} ELSE {})
  <2>1. PICK freed \in FreedFds : session_socket_mask' = (session_socket_mask \ freed) \cup {w}
    BY <1>1
  <2>2. session_socket_mask \cap openFd = L \cap openFd
    BY DEF ListInv, MaskIsExact
  <2>3. ToSet(plSock') \cup (IF menu_client' THEN {"menu"} ELSE {}) = L \cup {w}
    BY <1>1, <1>7
  <2> HIDE DEF L
  <2>4. session_socket_mask' \cap (openFd \cup {w}) = (L \cup {w}) \cap (openFd \cup {w})
    <3>1. freed \cap openFd = {}
      BY FreedIsClosed
    <3> QED
      BY <2>1, <2>2, <3>1
  <2> QED
    BY <1>1, <2>3, <2>4 DEF MaskIsExact
<1> QED
  BY <1>4, <1>9, <1>10, <1>11, <1>12, <1>13, <1>14 DEF ListInv

LEMMA AnswerKeepsList ==
  ASSUME TypeInv, ListInv, ReadCreateFrameAnswer
  PROVE  ListInv'
<1>1. /\ smPc = "answer" /\ smPc' = "run"
      /\ active_session' = Head(plSock)
      /\ num_active_clients' = num_active_clients + 1
      /\ UNCHANGED <<todo, plSock, menu_client, session_socket_mask, openFd, win, menu, pending>>
  BY DEF ReadCreateFrameAnswer, peerVars
<1>2. plSock # <<>> /\ plSock \in Seq(Window)
  BY <1>1 DEF TypeInv, TypeOK, SMTypeOK, AnswerHasWindow
<1>3. ActiveInList'
  BY <1>1, <1>2, TailElems DEF ActiveInList, Contains
<1>4. CountMatchesList'
  BY <1>1, <1>2 DEF ListInv, CountMatchesList, TypeInv, TypeOK, SMTypeOK
<1> QED
  BY <1>1, <1>3, <1>4
  DEF ListInv, ListedOnce, QueuedOnce, ListedAccepted, TodoListed, AnswerHasWindow, MaskIsExact

(* close_client unlinks one window from everything that refers to it.      *)
LEMMA CloseKeepsList ==
  ASSUME TypeInv, ListInv, ReadCloseClient
  PROVE  ListInv'
<1>1. AtTurn("lisp") /\ smPc = "run" /\ smPc' = "run" /\ UNCHANGED <<menu, pending, menu_client>>
      /\ todo' = todo \ {"lisp"}
  <2>1. HasSpadCommand /\ Served("lisp") /\ UNCHANGED <<smPc, menu, pending>>
    BY DEF ReadCloseClient
  <2>2. menu_client' = menu_client
    BY DEF ReadCloseClient
  <2> QED
    BY <2>1, <2>2 DEF HasSpadCommand, AtTurn, Served
<1>2. PICK i \in DOMAIN plSock : CloseClientAt(i)
  BY DEF ReadCloseClient
<1> DEFINE w == plSock[i]
<1>3. /\ plSock' = RemoveAt(plSock, i)
      /\ win' = [win EXCEPT ![w] = "dead"]
      /\ num_active_clients' = num_active_clients - 1
      /\ active_session' = NoSock
      /\ session_socket_mask' = session_socket_mask \ ({w} \cap openFd)
      /\ openFd' \subseteq openFd
  BY <1>2 DEF CloseClientAt, CountDown, ClearActive, ClearMask
<1>4. plSock \in Seq(Window) /\ win \in [Window -> PeerState] /\ num_active_clients \in Int
  BY DEF TypeInv, TypeOK, SMTypeOK, PeerTypeOK
<1>5. w \in Window
  BY <1>4
<1>6. /\ plSock' \in Seq(Window) /\ Len(plSock') = Len(plSock) - 1
      /\ ListedOnce'
      /\ ToSet(plSock') = ToSet(plSock) \ {w}
  <2>1. \A j, k \in DOMAIN plSock : plSock[j] = plSock[k] => j = k
    BY DEF ListInv, ListedOnce
  <2> QED
    BY <1>3, <1>4, <2>1, RemoveAtElems, RemoveAtOnce DEF ListedOnce
<1>7. \A x \in Window : x # w => win'[x] = win[x]
  BY <1>3, <1>4
<1>8. win[w] \in {"up", "dead"}
  BY DEF ListInv, ListedAccepted
<1> HIDE DEF w
<1>9. ListedAccepted'
  <2>1. SUFFICES ASSUME NEW j \in DOMAIN plSock'
                 PROVE  win'[plSock'[j]] \in {"up", "dead"}
    BY DEF ListedAccepted
  <2>2. plSock'[j] \in ToSet(plSock) /\ plSock'[j] # w /\ plSock'[j] \in Window
    BY <1>6 DEF ToSet
  <2>3. win[plSock'[j]] \in {"up", "dead"}
    BY <2>2 DEF ListInv, ListedAccepted, ToSet
  <2> QED
    BY <1>7, <2>2, <2>3
<1>10. QueuedOnce'
  <2>1. \A j \in DOMAIN pending : pending[j] # w
    BY <1>5, <1>8 DEF ListInv, QueuedOnce
  <2> QED
    BY <1>1, <1>7, <2>1 DEF ListInv, QueuedOnce
<1>11. TodoListed'
  <2>1. todo' = {}
    BY <1>1, LispIsLast
  <2> QED
    BY <2>1 DEF TodoListed
<1>12. AnswerHasWindow' /\ CountMatchesList' /\ ActiveInList'
  BY <1>1, <1>3, <1>4, <1>6 DEF ListInv, AnswerHasWindow, CountMatchesList, ActiveInList
<1>13. MaskIsExact'
  <2>1. w # "menu"
    BY <1>5, WindowAssumption
  <2> QED
    BY <1>1, <1>3, <1>6, <2>1 DEF ListInv, MaskIsExact
<1> QED
  BY <1>6, <1>9, <1>10, <1>11, <1>12, <1>13 DEF ListInv

(* Every step of the session manager.                                      *)
LEMMA ManagerKeepsList ==
  ASSUME TypeInv, ListInv, SMNext
  PROVE  ListInv'
<1>0. plSock \in Seq(Window)
  BY DEF TypeInv, TypeOK, SMTypeOK
<1>1. CASE Select
  BY <1>1, SelectKeepsList
<1>2. CASE SelectFails
  BY <1>2, HarmlessKeeps DEF SelectFails, Harmless, peerVars
<1>3. CASE ReadMenuSwitchFrames
  <2>1. active_session' \in {active_session} \cup ToSet(plSock)
    BY <1>3 DEF ReadMenuSwitchFrames, ToSet
  <2> QED
    BY <1>3, <2>1, HarmlessKeeps DEF ReadMenuSwitchFrames, Served, Harmless
<1>4. CASE ReadMenuClosed
  BY <1>4, MenuClosedKeepsList
<1>5. CASE ReadFromSpadIo
  BY <1>5, HarmlessKeeps DEF ReadFromSpadIo, Served, Harmless, peerVars
<1>6. CASE AcceptMenu
  BY <1>6, AcceptMenuKeepsList
<1>7. CASE AcceptInterpWindow
  BY <1>7, AcceptWindowKeepsList
<1>8. CASE ReadCreateFrameAnswer
  BY <1>8, AnswerKeepsList
<1>9. CASE LoseRace
  BY <1>9, HarmlessKeeps DEF LoseRace, Harmless, peerVars
<1>10. ASSUME NEW w \in Window, ReadFromSession(w)
       PROVE  ListInv'
  <2>1. w \in ToSet(plSock)
    BY <1>10 DEF ReadFromSession, AtTurn, ListInv, TodoListed
  <2> QED
    BY <1>10, <2>1, HarmlessKeeps DEF ReadFromSession, Served, Harmless
<1>11. ASSUME NEW w \in Window, ReadSessionClosed(w)
       PROVE  ListInv'
  BY <1>11, HarmlessKeeps DEF ReadSessionClosed, Served, Harmless, peerVars
<1>12. ASSUME NEW w \in Window, SkipSession(w)
       PROVE  ListInv'
  BY <1>12, HarmlessKeeps DEF SkipSession, Served, Harmless, peerVars
<1>13. CASE ReadEndOfOutput
  BY <1>13, HarmlessKeeps DEF ReadEndOfOutput, Served, Harmless, peerVars
<1>14. CASE ReadQueryClients
  BY <1>14, HarmlessKeeps DEF ReadQueryClients, Served, Harmless, peerVars
<1>15. CASE ReadCloseClient
  BY <1>15, CloseKeepsList
<1>16. CASE ReadCloseUnknown
  BY <1>16, HarmlessKeeps DEF ReadCloseUnknown, Served, Harmless, peerVars
<1>17. CASE ReadUnknownCommand
  BY <1>17, HarmlessKeeps DEF ReadUnknownCommand, Served, Harmless, peerVars
<1> QED
  BY <1>1, <1>2, <1>3, <1>4, <1>5, <1>6, <1>7, <1>8, <1>9, <1>10, <1>11, <1>12, <1>13, <1>14,
     <1>15, <1>16, <1>17
  DEF SMNext

(* A peer that asks to be connected has not asked before.                  *)
LEMMA QueueGrows ==
  ASSUME TypeInv, QueuedOnce, NEW p \in Peer, pending' = Append(pending, p),
         p \in Window => win[p] = "none" /\ menu' = menu
                         /\ win' = [win EXCEPT ![p] = "connecting"],
         p = "menu" => menu = "none" /\ menu' = "connecting" /\ win' = win
  PROVE  QueuedOnce'
<1> USE DEF QueuedOnce
<1>1. pending \in Seq(Peer) /\ win \in [Window -> PeerState]
  BY DEF TypeInv, TypeOK, PeerTypeOK
<1>2. /\ DOMAIN pending' = 1 .. Len(pending) + 1
      /\ \A j \in DOMAIN pending' :
            /\ pending'[j] = IF j = Len(pending) + 1 THEN p ELSE pending[j]
            /\ j # Len(pending) + 1 => j \in DOMAIN pending
  BY <1>1, AppendElems
<1>3. p \in Window \/ p = "menu"
  BY DEF Peer
<1>4. \A j \in DOMAIN pending : pending[j] # p
  BY <1>3
<1>5. \A i, j \in DOMAIN pending' : pending'[i] = pending'[j] => i = j
  BY <1>2, <1>4
<1>6. ASSUME NEW j \in DOMAIN pending', pending'[j] \in Window
      PROVE  win'[pending'[j]] = "connecting"
  <2>1. CASE pending'[j] = p
    BY <1>1, <1>6, <2>1
  <2>2. CASE pending'[j] # p
    <3>1. j \in DOMAIN pending /\ pending'[j] = pending[j]
      BY <1>2, <2>2
    <3>2. win[pending'[j]] = "connecting"
      BY <1>6, <3>1
    <3> QED
      BY <1>1, <1>3, <1>6, <2>2, <3>2
  <2> QED
    BY <2>1, <2>2
<1>7. ASSUME NEW j \in DOMAIN pending', pending'[j] = "menu"
      PROVE  menu' = "connecting"
  <2>1. CASE p = "menu"
    BY <2>1
  <2>2. CASE p # "menu"
    <3>1. j \in DOMAIN pending /\ pending'[j] = pending[j]
      BY <1>2, <1>7, <2>2
    <3> QED
      BY <1>3, <1>7, <2>2, <3>1
  <2> QED
    BY <2>1, <2>2
<1> QED
  BY <1>5, <1>6, <1>7

(* Every step of a window, of HyperDoc or of a user.                       *)
LEMMA PeersKeepList ==
  ASSUME TypeInv, ListInv, PeerNext
  PROVE  ListInv'
<1> DEFINE Same == UNCHANGED <<smPc, todo, plSock, active_session, num_active_clients,
                               menu_client, session_socket_mask, openFd>>
<1>0. plSock \in Seq(Window) /\ win \in [Window -> PeerState]
  BY DEF TypeInv, TypeOK, SMTypeOK, PeerTypeOK
<1>1. ASSUME Same, QueuedOnce', ListedAccepted'
      PROVE  ListInv'
  BY <1>1 DEF ListInv, ListedOnce, TodoListed, AnswerHasWindow, ActiveInList, CountMatchesList,
              MaskIsExact
<1>2. ASSUME Same, \A v \in Window : win[v] \in {"up", "dead"} => win'[v] \in {"up", "dead"}
      PROVE  ListedAccepted'
  BY <1>0, <1>2 DEF ListInv, ListedAccepted
<1>3. ASSUME NEW w \in Window, ConnectWindow(w)
      PROVE  ListInv'
  <2>1. Same /\ win[w] = "none" /\ win' = [win EXCEPT ![w] = "connecting"]
        /\ pending' = Append(pending, w) /\ menu' = menu
    BY <1>3 DEF ConnectWindow, smVars
  <2>2. QueuedOnce'
    BY <2>1, QueueGrows, WindowAssumption DEF ListInv, Peer
  <2> QED
    BY <1>0, <1>1, <1>2, <2>1, <2>2
<1>4. ASSUME NEW w \in Window, NEW k \in Kind, TypeLine(w, k)
      PROVE  ListInv'
  <2>1. Same /\ UNCHANGED <<win, menu, pending>>
    BY <1>4 DEF TypeLine, smVars
  <2>2. QueuedOnce'
    BY <2>1 DEF ListInv, QueuedOnce
  <2> QED
    BY <1>1, <1>2, <2>1, <2>2
<1>5. ASSUME NEW w \in Window, WindowDies(w)
      PROVE  ListInv'
  <2>1. Same /\ win[w] = "up" /\ win' = [win EXCEPT ![w] = "dead"] /\ UNCHANGED <<menu, pending>>
    BY <1>5 DEF WindowDies, smVars
  <2>2. QueuedOnce'
    BY <1>0, <2>1 DEF ListInv, QueuedOnce
  <2> QED
    BY <1>0, <1>1, <1>2, <2>1, <2>2
<1>6. CASE ConnectMenu
  <2>1. Same /\ menu = "none" /\ menu' = "connecting" /\ pending' = Append(pending, "menu")
        /\ win' = win
    BY <1>6 DEF ConnectMenu, smVars
  <2>2. QueuedOnce'
    BY <2>1, QueueGrows, WindowAssumption DEF ListInv, Peer
  <2> QED
    BY <1>1, <1>2, <2>1, <2>2
<1>7. CASE IssueServerCommand
  <2>1. Same /\ UNCHANGED <<win, menu, pending>>
    BY <1>7 DEF IssueServerCommand, smVars
  <2>2. QueuedOnce'
    BY <2>1 DEF ListInv, QueuedOnce
  <2> QED
    BY <1>1, <1>2, <2>1, <2>2
<1>8. CASE MenuDies
  <2>1. Same /\ menu = "up" /\ UNCHANGED <<win, pending>>
    BY <1>8 DEF MenuDies, smVars
  <2>2. QueuedOnce'
    BY <2>1, <1>8 DEF ListInv, QueuedOnce, MenuDies
  <2> QED
    BY <1>1, <1>2, <2>1, <2>2
<1> QED
  BY <1>3, <1>4, <1>5, <1>6, <1>7, <1>8 DEF PeerNext

LEMMA InitList == Init => ListInv
<1> SUFFICES ASSUME Init
             PROVE  ListInv
  OBVIOUS
<1> USE DEF Init, SMInit, PeerInit
<1>1. plSock = <<>> /\ pending = <<>> /\ DOMAIN plSock = {} /\ DOMAIN pending = {}
  OBVIOUS
<1>2. ListedOnce /\ QueuedOnce /\ ListedAccepted
  BY <1>1 DEF ListedOnce, QueuedOnce, ListedAccepted
<1>3. TodoListed /\ AnswerHasWindow /\ ActiveInList /\ CountMatchesList
  BY DEF TodoListed, AnswerHasWindow, ActiveInList, CountMatchesList
<1>4. MaskIsExact
  BY <1>1 DEF MaskIsExact, ToSet
<1> QED
  BY <1>2, <1>3, <1>4 DEF ListInv

LEMMA NextList == TypeInv /\ ListInv /\ [Next]_vars => ListInv'
<1> SUFFICES ASSUME TypeInv, ListInv, [Next]_vars
             PROVE  ListInv'
  OBVIOUS
<1>1. CASE Alive /\ SMStep
  BY <1>1, ManagerKeepsList DEF SMStep
<1>2. ASSUME UNCHANGED listVars
      PROVE  ListInv'
  BY <1>2 DEF listVars, ListInv, ListedOnce, QueuedOnce, ListedAccepted, TodoListed,
              AnswerHasWindow, ActiveInList, CountMatchesList, MaskIsExact
<1>3. CASE Alive /\ LispStep
  BY <1>2, <1>3 DEF LispStep, smVars, peerVars, listVars
<1>4. CASE Alive /\ RelayStep
  BY <1>2, <1>4 DEF RelayStep, smVars, peerVars, listVars
<1>5. CASE Alive /\ PeerNext
  BY <1>5, PeersKeepList
<1>6. CASE UNCHANGED vars
  BY <1>2, <1>6 DEF vars, smVars, peerVars, listVars
<1> QED
  BY <1>1, <1>3, <1>4, <1>5, <1>6 DEF Next, Rest

(***************************************************************************)
(* The tables of the session manager agree in every reachable state.       *)
(***************************************************************************)
THEOREM TablesAgree == Spec => []ListInv
BY InitType, NextType, InitList, NextList, PTL DEF Spec

(* active_session is null or a window of the list (session.c: close_client *)
(* and read_from_session), however peers connect, close and die.           *)
THEOREM ActiveIsListed == Spec => []ActiveInList
<1>1. ListInv => ActiveInList
  BY DEF ListInv
<1> QED
  BY <1>1, TablesAgree, PTL

(* num_active_clients, which QueryClients reports, is the number of        *)
(* windows (session.c: accept_session_connection and close_client).        *)
THEOREM CountIsExact == Spec => []CountMatchesList
<1>1. ListInv => CountMatchesList
  BY DEF ListInv
<1> QED
  BY <1>1, TablesAgree, PTL

(* Of the open descriptors the mask given to select holds those of the     *)
(* listed windows and of HyperDoc, and no others (session.c:               *)
(* accept_session_connection, close_client, read_menu_client_command).     *)
THEOREM MaskMatchesList == Spec => []MaskIsExact
<1>1. ListInv => MaskIsExact
  BY DEF ListInv
<1> QED
  BY <1>1, TablesAgree, PTL
-----------------------------------------------------------------------------
(***************************************************************************)
(* Theorems about the frame numbers of SessionSystem, for every set of     *)
(* windows, every set of habits and fewer than CreateFrameAnswer frames.   *)
(*                                                                         *)
(* The socket from Lisp carries bare integers, and the session manager can *)
(* lose its place in them: a number that belongs to one message may be     *)
(* read as the beginning of another.  That CreateFrameAnswer is never      *)
(* mistaken, so that what follows it is always the number of a new frame,  *)
(* rests on every other integer on the sockets being smaller (SmallInts);  *)
(* this holds for the client counts because windows have different frames, *)
(* which is what is to be proved.  FrameInv says all of it at once.        *)
(***************************************************************************)

(* Where CreateFrameAnswer stands in what Lisp has sent. *)
Answers == {k \in DOMAIN lispToSM : lispToSM[k] = CreateFrameAnswer}

(* A new number follows, different from those that are on their way or in use. *)
AnswersFresh ==
    /\ \A k \in Answers : /\ k + 1 \in DOMAIN lispToSM
                          /\ lispToSM[k + 1] \in 0 .. frameNumber - 1
    /\ \A k, l \in Answers : lispToSM[k + 1] = lispToSM[l + 1] => k = l
    /\ \A k \in Answers : \A i \in DOMAIN plSock :
          HasFrame(i) => frame[plSock[i]] # lispToSM[k + 1]

Small(s) == \A k \in DOMAIN s : s[k] < CreateFrameAnswer

(* No frame number, count or command of the session manager is as large. *)
SmallInts ==
    /\ Small(smToLisp)
    /\ Small(menuToSM)
    /\ \A w \in Window : frame[w] < CreateFrameAnswer
    /\ currentFrameNum < CreateFrameAnswer
    /\ frameNumber <= MaxFrames
    /\ MaxFrames < CreateFrameAnswer

FrameInv == AnswersFresh /\ FramesDistinct /\ SmallInts

-----------------------------------------------------------------------------
(* The rest of a sequence behind position i. *)
LEMMA RestElems ==
  ASSUME NEW S, NEW s \in Seq(S), NEW i \in DOMAIN s
  PROVE  /\ SubSeq(s, i + 1, Len(s)) \in Seq(S)
         /\ Len(SubSeq(s, i + 1, Len(s))) = Len(s) - i
         /\ \A j \in 1 .. Len(s) - i : SubSeq(s, i + 1, Len(s))[j] = s[j + i]
OBVIOUS

LEMMA DropTwoElems ==
  ASSUME NEW S, NEW s \in Seq(S), Len(s) >= 2
  PROVE  /\ SubSeq(s, 3, Len(s)) \in Seq(S)
         /\ Len(SubSeq(s, 3, Len(s))) = Len(s) - 2
         /\ \A j \in 1 .. Len(s) - 2 : SubSeq(s, 3, Len(s))[j] = s[j + 2]
<1>1. 2 \in DOMAIN s
  OBVIOUS
<1>2. /\ SubSeq(s, 2 + 1, Len(s)) \in Seq(S)
      /\ Len(SubSeq(s, 2 + 1, Len(s))) = Len(s) - 2
      /\ \A j \in 1 .. Len(s) - 2 : SubSeq(s, 2 + 1, Len(s))[j] = s[j + 2]
  BY <1>1, RestElems, Zenon
<1>3. 2 + 1 = 3
  OBVIOUS
<1> QED
  BY <1>2, <1>3, Zenon

LEMMA PairElems ==
  ASSUME NEW S, NEW s \in Seq(S), NEW e \in S, NEW f \in S
  PROVE  /\ s \o <<e, f>> \in Seq(S)
         /\ Len(s \o <<e, f>>) = Len(s) + 2
         /\ \A j \in 1 .. Len(s) : (s \o <<e, f>>)[j] = s[j]
         /\ (s \o <<e, f>>)[Len(s) + 1] = e
         /\ (s \o <<e, f>>)[Len(s) + 2] = f
OBVIOUS

(* Small is kept by what the programs do with a socket. *)
LEMMA SmallTail ==
  ASSUME NEW s \in Seq(Int), Small(s), s # <<>>
  PROVE  Small(Tail(s)) /\ Head(s) < CreateFrameAnswer
BY TailElems DEF Small

LEMMA SmallDrop ==
  ASSUME NEW s \in Seq(Int), Small(s), Len(s) >= 2
  PROVE  Small(SubSeq(s, 3, Len(s))) /\ s[2] < CreateFrameAnswer
<1>1. \A j \in DOMAIN SubSeq(s, 3, Len(s)) : j \in 1 .. Len(s) - 2
  BY DropTwoElems
<1>2. \A j \in 1 .. Len(s) - 2 : SubSeq(s, 3, Len(s))[j] = s[j + 2] /\ j + 2 \in DOMAIN s
  BY DropTwoElems
<1>3. 2 \in DOMAIN s
  OBVIOUS
<1> QED
  BY <1>1, <1>2, <1>3 DEF Small

LEMMA SmallAppend ==
  ASSUME NEW s \in Seq(Int), Small(s), NEW e \in Int, e < CreateFrameAnswer
  PROVE  Small(Append(s, e))
BY AppendElems DEF Small

LEMMA SmallPair ==
  ASSUME NEW s \in Seq(Int), Small(s), NEW e \in Int, e < CreateFrameAnswer,
         NEW f \in Int, f < CreateFrameAnswer
  PROVE  Small(s \o <<e, f>>)
<1> DEFINE t == s \o <<e, f>>
<1>1. /\ t \in Seq(Int) /\ Len(t) = Len(s) + 2
      /\ \A j \in 1 .. Len(s) : t[j] = s[j]
      /\ t[Len(s) + 1] = e /\ t[Len(s) + 2] = f
  BY PairElems
<1> HIDE DEF t
<1>2. \A j \in DOMAIN t : j \in DOMAIN s \/ j = Len(s) + 1 \/ j = Len(s) + 2
  BY <1>1
<1>3. DOMAIN s = 1 .. Len(s)
  OBVIOUS
<1>4. \A j \in DOMAIN s : t[j] = s[j]
  BY <1>1, <1>3
<1> QED
  BY <1>1, <1>2, <1>4 DEF Small, t

-----------------------------------------------------------------------------
(* The session manager takes the first d integers Lisp has sent. *)
Drops(d) ==
    /\ d \in 0 .. Len(lispToSM)
    /\ lispToSM' \in Seq(Int)
    /\ Len(lispToSM') = Len(lispToSM) - d
    /\ \A j \in 1 .. Len(lispToSM) - d : lispToSM'[j] = lispToSM[j + d]

(* Lisp sends something else than the number of a new frame. *)
SendsOther ==
    /\ lispToSM' \in Seq(Int)
    /\ Len(lispToSM') >= Len(lispToSM)
    /\ \A j \in 1 .. Len(lispToSM) : lispToSM'[j] = lispToSM[j]
    /\ \A j \in Len(lispToSM) + 1 .. Len(lispToSM') : lispToSM'[j] # CreateFrameAnswer

(* No window gets a frame: those that have one had it before. *)
NoNewFrames ==
    \A i \in DOMAIN plSock' : HasFrame(i)' =>
        \E k \in DOMAIN plSock : /\ HasFrame(k)
                                 /\ plSock'[i] = plSock[k]
                                 /\ frame'[plSock'[i]] = frame[plSock[k]]

LEMMA NoNewKeepDistinct ==
  ASSUME FramesDistinct, ListedOnce', NoNewFrames,
         frameNumber \in Nat, frameNumber' \in Nat, frameNumber' >= frameNumber
  PROVE  FramesDistinct'
<1> SUFFICES ASSUME NEW i \in DOMAIN plSock', NEW j \in DOMAIN plSock', HasFrame(i)', HasFrame(j)'
             PROVE  /\ frame'[plSock'[i]] \in 0 .. frameNumber' - 1
                    /\ frame'[plSock'[i]] = frame'[plSock'[j]] => i = j
  BY DEF FramesDistinct
<1>1. PICK k \in DOMAIN plSock : /\ HasFrame(k) /\ plSock'[i] = plSock[k]
                                 /\ frame'[plSock'[i]] = frame[plSock[k]]
  BY DEF NoNewFrames
<1>2. PICK l \in DOMAIN plSock : /\ HasFrame(l) /\ plSock'[j] = plSock[l]
                                 /\ frame'[plSock'[j]] = frame[plSock[l]]
  BY DEF NoNewFrames
<1>3. frame[plSock[k]] \in 0 .. frameNumber - 1 /\ (frame[plSock[k]] = frame[plSock[l]] => k = l)
  BY <1>1, <1>2 DEF FramesDistinct
<1>4. k = l => i = j
  BY <1>1, <1>2 DEF ListedOnce
<1> QED
  BY <1>1, <1>2, <1>3, <1>4

LEMMA DropKeepsFrames ==
  ASSUME TypeInv, AnswersFresh, FramesDistinct, ListedOnce',
         NEW d, Drops(d), NoNewFrames, frameNumber' = frameNumber
  PROVE  AnswersFresh' /\ FramesDistinct'
<1>1. lispToSM \in Seq(Int) /\ frameNumber \in Nat
  BY DEF TypeInv, TypeOK, LinkTypeOK, LispTypeOK
<1>0. /\ d \in Nat /\ Len(lispToSM) \in Nat
      /\ DOMAIN lispToSM = 1 .. Len(lispToSM)
      /\ DOMAIN lispToSM' = 1 .. Len(lispToSM) - d
      /\ \A j \in 1 .. Len(lispToSM) - d : lispToSM'[j] = lispToSM[j + d]
  BY <1>1 DEF Drops
<1>2. \A k \in Answers' : /\ k + d \in Answers
                          /\ k \in Nat
                          /\ lispToSM'[k] = lispToSM[k + d]
  BY <1>0 DEF Answers
<1>3. \A k \in Answers' : /\ k + 1 \in DOMAIN lispToSM'
                          /\ lispToSM'[k + 1] = lispToSM[(k + d) + 1]
  <2> SUFFICES ASSUME NEW k \in Answers'
               PROVE  /\ k + 1 \in DOMAIN lispToSM'
                      /\ lispToSM'[k + 1] = lispToSM[(k + d) + 1]
    OBVIOUS
  <2>1. (k + d) + 1 \in DOMAIN lispToSM
    BY <1>2 DEF AnswersFresh
  <2>2. k + 1 \in 1 .. Len(lispToSM) - d /\ (k + 1) + d = (k + d) + 1
    BY <1>0, <1>2, <2>1
  <2> QED
    BY <1>0, <2>2
<1>4. \A k \in Answers' : lispToSM'[k + 1] \in 0 .. frameNumber - 1
  BY <1>2, <1>3 DEF AnswersFresh
<1>5. \A k, l \in Answers' : lispToSM'[k + 1] = lispToSM'[l + 1] => k = l
  <2> SUFFICES ASSUME NEW k \in Answers', NEW l \in Answers',
                      lispToSM'[k + 1] = lispToSM'[l + 1]
               PROVE  k = l
    OBVIOUS
  <2>1. k + d = l + d
    BY <1>2, <1>3 DEF AnswersFresh
  <2> QED
    BY <1>0, <1>2, <2>1
<1>6. \A k \in Answers' : \A i \in DOMAIN plSock' :
          HasFrame(i)' => frame'[plSock'[i]] # lispToSM'[k + 1]
  BY <1>2, <1>3 DEF AnswersFresh, NoNewFrames
<1>7. AnswersFresh'
  BY <1>3, <1>4, <1>5, <1>6 DEF AnswersFresh
<1>8. FramesDistinct'
  BY <1>1, NoNewKeepDistinct
<1> QED
  BY <1>7, <1>8

LEMMA OtherKeepsFrames ==
  ASSUME TypeInv, AnswersFresh, FramesDistinct, SendsOther,
         UNCHANGED <<smPc, plSock, frame, frameNumber>>
  PROVE  AnswersFresh' /\ FramesDistinct'
<1>1. lispToSM \in Seq(Int)
  BY DEF TypeInv, TypeOK, LinkTypeOK
<1>2. \A k \in Answers' : k \in Answers
  <2> SUFFICES ASSUME NEW k \in Answers'
               PROVE  k \in Answers
    OBVIOUS
  <2>1. k \in 1 .. Len(lispToSM') /\ lispToSM'[k] = CreateFrameAnswer
    BY DEF Answers, SendsOther
  <2>2. k \in 1 .. Len(lispToSM)
    BY <1>1, <2>1 DEF SendsOther
  <2> QED
    BY <1>1, <2>1, <2>2 DEF Answers, SendsOther
<1>3. \A k \in Answers' : k + 1 \in DOMAIN lispToSM' /\ lispToSM'[k + 1] = lispToSM[k + 1]
  <2> SUFFICES ASSUME NEW k \in Answers'
               PROVE  k + 1 \in DOMAIN lispToSM' /\ lispToSM'[k + 1] = lispToSM[k + 1]
    OBVIOUS
  <2>1. k + 1 \in 1 .. Len(lispToSM)
    BY <1>1, <1>2 DEF AnswersFresh
  <2> QED
    BY <1>1, <2>1 DEF SendsOther
<1>4. \A i : HasFrame(i)' <=> HasFrame(i)
  BY DEF HasFrame
<1>5. AnswersFresh'
  BY <1>2, <1>3, <1>4 DEF AnswersFresh
<1> QED
  BY <1>4, <1>5 DEF FramesDistinct

-----------------------------------------------------------------------------
LEMMA DropNone == ASSUME TypeInv, lispToSM' = lispToSM PROVE Drops(0)
BY DEF TypeInv, TypeOK, LinkTypeOK, Drops

LEMMA DropOne ==
  ASSUME TypeInv, lispToSM # <<>>, lispToSM' = Tail(lispToSM)
  PROVE  Drops(1)
<1>1. lispToSM \in Seq(Int)
  BY DEF TypeInv, TypeOK, LinkTypeOK
<1>2. /\ Len(Tail(lispToSM)) = Len(lispToSM) - 1 /\ Len(lispToSM) \in Nat /\ Len(lispToSM) > 0
      /\ Tail(lispToSM) \in Seq(Int)
  BY <1>1, TailType, TailLen
<1>3. \A j \in 1 .. Len(lispToSM) - 1 : Tail(lispToSM)[j] = lispToSM[j + 1]
  BY <1>1, TailElems
<1> QED
  BY <1>2, <1>3 DEF Drops

LEMMA DropTwo ==
  ASSUME TypeInv, Len(lispToSM) >= 2, lispToSM' = SubSeq(lispToSM, 3, Len(lispToSM))
  PROVE  Drops(2)
<1>1. lispToSM \in Seq(Int)
  BY DEF TypeInv, TypeOK, LinkTypeOK
<1> QED
  BY <1>1, DropTwoElems DEF Drops

(* A step between the phases of the session manager that leaves the list. *)
LEMMA SameWindows ==
  ASSUME UNCHANGED <<plSock, frame>>, smPc' = smPc \/ smPc = "run" \/ smPc' = "exited"
  PROVE  NoNewFrames
BY DEF NoNewFrames, HasFrame

(* The window at the head of the list has no frame until Lisp has answered. *)
LEMMA AcceptGivesNoFrame ==
  ASSUME TypeInv, AcceptInterpWindow
  PROVE  NoNewFrames
<1>1. plSock \in Seq(Window) /\ pending \in Seq(Peer)
  BY DEF TypeInv, TypeOK, SMTypeOK, PeerTypeOK
<1>2. /\ Head(pending) \in Window /\ plSock' = <<Head(pending)>> \o plSock
      /\ smPc = "run" /\ smPc' = "answer" /\ frame' = frame
  BY DEF AcceptInterpWindow, AtTurn
<1>3. /\ DOMAIN plSock' = 1 .. Len(plSock) + 1
      /\ \A j \in 1 .. Len(plSock) + 1 :
            plSock'[j] = IF j = 1 THEN Head(pending) ELSE plSock[j - 1]
  BY <1>1, <1>2, ConsElems
<1>4. DOMAIN plSock = 1 .. Len(plSock) /\ Len(plSock) \in Nat
  BY <1>1
<1> SUFFICES ASSUME NEW i \in DOMAIN plSock', HasFrame(i)'
             PROVE  \E k \in DOMAIN plSock : /\ HasFrame(k)
                                             /\ plSock'[i] = plSock[k]
                                             /\ frame'[plSock'[i]] = frame[plSock[k]]
  BY DEF NoNewFrames
<1>5. i # 1
  BY <1>2 DEF HasFrame
<1>6. i - 1 \in DOMAIN plSock /\ plSock'[i] = plSock[i - 1]
  BY <1>3, <1>4, <1>5
<1>7. HasFrame(i - 1)
  BY <1>2, <1>6 DEF HasFrame
<1> QED
  BY <1>2, <1>6, <1>7

LEMMA CloseGivesNoFrame ==
  ASSUME TypeInv, ReadCloseClient
  PROVE  NoNewFrames
<1>1. plSock \in Seq(Window)
  BY DEF TypeInv, TypeOK, SMTypeOK
<1>2. smPc = "run" /\ frame' = frame
  BY DEF ReadCloseClient, HasSpadCommand, AtTurn
<1>3. PICK c \in DOMAIN plSock : plSock' = RemoveAt(plSock, c)
  BY DEF ReadCloseClient, CloseClientAt
<1>4. /\ plSock' \in Seq(Window) /\ Len(plSock') = Len(plSock) - 1
      /\ \A j \in 1 .. Len(plSock) - 1 : plSock'[j] = IF j < c THEN plSock[j] ELSE plSock[j + 1]
  BY <1>1, <1>3, RemoveAtElems
<1> SUFFICES ASSUME NEW i \in DOMAIN plSock'
             PROVE  \E k \in DOMAIN plSock : /\ HasFrame(k)
                                             /\ plSock'[i] = plSock[k]
                                             /\ frame'[plSock'[i]] = frame[plSock[k]]
  BY DEF NoNewFrames
<1>5. PICK k \in DOMAIN plSock : plSock'[i] = plSock[k]
  <2>1. i \in 1 .. Len(plSock) - 1 /\ Len(plSock) \in Nat
    BY <1>1, <1>4
  <2>2. i \in DOMAIN plSock /\ i + 1 \in DOMAIN plSock
    BY <1>1, <2>1
  <2> QED
    BY <1>4, <2>1, <2>2
<1> QED
  BY <1>2, <1>5 DEF HasFrame

(* What follows CreateFrameAnswer becomes the frame of the window at the head. *)
LEMMA AnswerKeepsFrames ==
  ASSUME TypeInv, ListInv, FrameInv, ReadCreateFrameAnswer, frameNumber' = frameNumber
  PROVE  AnswersFresh' /\ FramesDistinct'
<1> DEFINE w == Head(plSock)
           n == lispToSM[2]
<1>1. /\ smPc = "answer" /\ smPc' = "run" /\ Len(lispToSM) >= 2
      /\ Head(lispToSM) = CreateFrameAnswer
      /\ frame' = [frame EXCEPT ![w] = n]
      /\ lispToSM' = SubSeq(lispToSM, 3, Len(lispToSM))
      /\ plSock' = plSock
  BY DEF ReadCreateFrameAnswer, IsAnswer
<1>2. /\ plSock \in Seq(Window) /\ plSock # <<>>
      /\ lispToSM \in Seq(Int) /\ frame \in [Window -> Int] /\ frameNumber \in Nat
  BY <1>1 DEF TypeInv, TypeOK, SMTypeOK, LinkTypeOK, LispTypeOK, AnswerHasWindow
<1>3. w = plSock[1] /\ 1 \in DOMAIN plSock /\ w \in Window
  BY <1>2, TailElems
<1>4. 1 \in Answers
  BY <1>1, <1>2 DEF Answers
<1>5. n \in 0 .. frameNumber - 1
  BY <1>4 DEF FrameInv, AnswersFresh
<1>6. \A k \in Answers : k # 1 => lispToSM[k + 1] # n
  BY <1>4 DEF FrameInv, AnswersFresh
<1>7. \A i \in DOMAIN plSock : i # 1 => plSock[i] \in Window /\ plSock[i] # w /\ HasFrame(i)
  BY <1>2, <1>3 DEF ListInv, ListedOnce, HasFrame
<1> HIDE DEF w, n
<1>8. /\ frame'[plSock[1]] = n
      /\ \A i \in DOMAIN plSock : i # 1 => frame'[plSock[i]] = frame[plSock[i]]
  BY <1>1, <1>2, <1>3, <1>7
<1>9. \A i \in DOMAIN plSock : i # 1 => frame[plSock[i]] # n
  BY <1>4, <1>7 DEF FrameInv, AnswersFresh, n
<1>10. FramesDistinct'
  <2> SUFFICES ASSUME NEW i \in DOMAIN plSock, NEW j \in DOMAIN plSock
               PROVE  /\ frame'[plSock[i]] \in 0 .. frameNumber - 1
                      /\ frame'[plSock[i]] = frame'[plSock[j]] => i = j
    BY <1>1 DEF FramesDistinct, ReadCreateFrameAnswer
  <2>1. \A k \in DOMAIN plSock : k # 1 => frame[plSock[k]] \in 0 .. frameNumber - 1
    BY <1>7 DEF FrameInv, FramesDistinct
  <2>2. i # 1 /\ j # 1 /\ frame[plSock[i]] = frame[plSock[j]] => i = j
    BY <1>7 DEF FrameInv, FramesDistinct
  <2> QED
    BY <1>5, <1>8, <1>9, <2>1, <2>2
<1>11. /\ lispToSM' \in Seq(Int) /\ Len(lispToSM') = Len(lispToSM) - 2
       /\ \A j \in 1 .. Len(lispToSM) - 2 : lispToSM'[j] = lispToSM[j + 2]
       /\ Len(lispToSM) \in Nat
       /\ DOMAIN lispToSM = 1 .. Len(lispToSM)
       /\ DOMAIN lispToSM' = 1 .. Len(lispToSM) - 2
  BY <1>1, <1>2, DropTwoElems
<1>12. \A k \in Answers' : k + 2 \in Answers /\ k + 2 # 1 /\ k \in Nat
  BY <1>11 DEF Answers
<1>13. \A k \in Answers' : k + 1 \in DOMAIN lispToSM' /\ lispToSM'[k + 1] = lispToSM[(k + 2) + 1]
  <2> SUFFICES ASSUME NEW k \in Answers'
               PROVE  k + 1 \in DOMAIN lispToSM' /\ lispToSM'[k + 1] = lispToSM[(k + 2) + 1]
    OBVIOUS
  <2>1. (k + 2) + 1 \in DOMAIN lispToSM
    BY <1>12 DEF FrameInv, AnswersFresh
  <2>2. k + 1 \in 1 .. Len(lispToSM) - 2 /\ (k + 1) + 2 = (k + 2) + 1
    BY <1>11, <1>12, <2>1
  <2> QED
    BY <1>11, <2>2
<1>14. \A k, l \in Answers' : lispToSM'[k + 1] = lispToSM'[l + 1] => k = l
  <2> SUFFICES ASSUME NEW k \in Answers', NEW l \in Answers',
                      lispToSM'[k + 1] = lispToSM'[l + 1]
               PROVE  k = l
    OBVIOUS
  <2>1. k + 2 = l + 2
    BY <1>12, <1>13 DEF FrameInv, AnswersFresh
  <2> QED
    BY <1>12, <2>1
<1>15. ASSUME NEW k \in Answers', NEW i \in DOMAIN plSock
       PROVE  frame'[plSock[i]] # lispToSM'[k + 1]
  <2>1. lispToSM'[k + 1] = lispToSM[(k + 2) + 1] /\ k + 2 \in Answers /\ k + 2 # 1
    BY <1>12, <1>13
  <2>2. CASE i = 1
    BY <1>6, <1>8, <2>1, <2>2
  <2>3. CASE i # 1
    BY <1>7, <1>8, <2>1, <2>3 DEF FrameInv, AnswersFresh
  <2> QED
    BY <2>2, <2>3
<1>16. \A k \in Answers' : lispToSM'[k + 1] \in 0 .. frameNumber - 1
  BY <1>12, <1>13 DEF FrameInv, AnswersFresh
<1> QED
  BY <1>1, <1>10, <1>13, <1>14, <1>15, <1>16 DEF AnswersFresh

(* Every step of the session manager. *)
LEMMA ManagerKeepsFrames ==
  ASSUME TypeInv, ListInv, ListInv', FrameInv, SMNext, frameNumber' = frameNumber
  PROVE  AnswersFresh' /\ FramesDistinct'
<1>0. ListedOnce' /\ AnswersFresh /\ FramesDistinct
  BY DEF ListInv, FrameInv
<1>1. ASSUME lispToSM' = lispToSM, UNCHANGED <<plSock, frame>>,
             smPc' = smPc \/ smPc = "run" \/ smPc' = "exited"
      PROVE  AnswersFresh' /\ FramesDistinct'
  BY <1>0, <1>1, DropNone, SameWindows, DropKeepsFrames
<1>2. ASSUME lispToSM # <<>>, lispToSM' = Tail(lispToSM), UNCHANGED <<plSock, frame>>,
             smPc' = smPc \/ smPc = "run" \/ smPc' = "exited"
      PROVE  AnswersFresh' /\ FramesDistinct'
  BY <1>0, <1>2, DropOne, SameWindows, DropKeepsFrames
<1>3. CASE Select
  BY <1>1, <1>3 DEF Select, linkVars
<1>4. CASE SelectFails
  BY <1>1, <1>4 DEF SelectFails, linkVars
<1>5. CASE ReadMenuSwitchFrames
  BY <1>1, <1>5 DEF ReadMenuSwitchFrames
<1>6. CASE ReadMenuClosed
  BY <1>1, <1>6 DEF ReadMenuClosed, linkVars
<1>7. CASE ReadFromSpadIo
  BY <1>1, <1>7 DEF ReadFromSpadIo
<1>8. CASE AcceptMenu
  BY <1>1, <1>8 DEF AcceptMenu, linkVars
<1>9. CASE AcceptInterpWindow
  <2>1. lispToSM' = lispToSM
    BY <1>9 DEF AcceptInterpWindow
  <2> QED
    BY <1>0, <1>9, <2>1, DropNone, AcceptGivesNoFrame, DropKeepsFrames
<1>10. CASE ReadCreateFrameAnswer
  BY <1>10, AnswerKeepsFrames
<1>11. CASE LoseRace
  BY <1>2, <1>11 DEF LoseRace
<1>12. ASSUME NEW w \in Window, ReadFromSession(w) \/ ReadSessionClosed(w) \/ SkipSession(w)
       PROVE  AnswersFresh' /\ FramesDistinct'
  BY <1>1, <1>12 DEF ReadFromSession, ReadSessionClosed, SkipSession, linkVars
<1>13. CASE ReadEndOfOutput
  BY <1>2, <1>13 DEF ReadEndOfOutput, HasSpadCommand
<1>14. CASE ReadQueryClients
  BY <1>2, <1>14 DEF ReadQueryClients, HasSpadCommand
<1>15. CASE ReadCloseClient
  <2>1. Drops(2)
    BY <1>15, DropTwo DEF ReadCloseClient
  <2> QED
    BY <1>0, <1>15, <2>1, CloseGivesNoFrame, DropKeepsFrames
<1>16. CASE ReadCloseUnknown
  <2>1. Drops(2)
    BY <1>16, DropTwo DEF ReadCloseUnknown
  <2>2. NoNewFrames
    BY <1>16, SameWindows DEF ReadCloseUnknown, HasSpadCommand, AtTurn
  <2> QED
    BY <1>0, <2>1, <2>2, DropKeepsFrames
<1>17. CASE ReadUnknownCommand
  BY <1>2, <1>17 DEF ReadUnknownCommand, HasSpadCommand
<1> QED
  BY <1>3, <1>4, <1>5, <1>6, <1>7, <1>8, <1>9, <1>10, <1>11, <1>12, <1>13, <1>14, <1>15,
     <1>16, <1>17
  DEF SMNext

-----------------------------------------------------------------------------
(* Windows have different frames, and there are at most MaxFrames of them. *)
LEMMA FewClients ==
  ASSUME TypeInv, ListInv, FrameInv, smPc = "run"
  PROVE  num_active_clients < CreateFrameAnswer
<1>1. /\ plSock \in Seq(Window) /\ frameNumber \in Nat /\ frameNumber < CreateFrameAnswer
      /\ num_active_clients = Len(plSock)
  BY MaxFramesAssumption
  DEF TypeInv, TypeOK, SMTypeOK, LispTypeOK, FrameInv, SmallInts, ListInv, CountMatchesList,
      CreateFrameAnswer
<1> DEFINE n == Len(plSock)
           f == [i \in 1 .. n |-> frame[plSock[i]]]
<1>2. DOMAIN plSock = 1 .. n /\ n \in Nat
  BY <1>1
<1>3. \A i \in 1 .. n : HasFrame(i)
  BY <1>2 DEF HasFrame
<1>4. \A i, j \in 1 .. n : /\ frame[plSock[i]] \in 0 .. frameNumber - 1
                           /\ frame[plSock[i]] = frame[plSock[j]] => i = j
  BY <1>2, <1>3 DEF FrameInv, FramesDistinct
<1> HIDE DEF n
<1>5. f \in [1 .. n -> 0 .. frameNumber - 1]
  BY <1>4
<1>6. ~ (n > frameNumber)
  <2> SUFFICES ASSUME n > frameNumber
               PROVE  FALSE
    OBVIOUS
  <2>1. IsFiniteSet(1 .. n) /\ Cardinality(1 .. n) = n
    BY <1>2, FS_Interval
  <2>2. IsFiniteSet(0 .. frameNumber - 1) /\ Cardinality(0 .. frameNumber - 1) = frameNumber
    <3>1. 0 \in Int /\ frameNumber - 1 \in Int
      BY <1>1
    <3>2. /\ IsFiniteSet(0 .. frameNumber - 1)
          /\ Cardinality(0 .. frameNumber - 1) =
                IF 0 > frameNumber - 1 THEN 0 ELSE (frameNumber - 1) - 0 + 1
      BY <3>1, FS_Interval
    <3> QED
      BY <1>1, <3>2
  <2>3. Cardinality(0 .. frameNumber - 1) < Cardinality(1 .. n)
    BY <2>1, <2>2
  <2> HIDE DEF f
  <2>4. \E i, j \in 1 .. n : i # j /\ f[i] = f[j]
    BY <1>5, <2>1, <2>2, <2>3, FS_PigeonHole
  <2> USE DEF f
  <2> QED
    BY <1>4, <2>4
<1> QED
  BY <1>1, <1>2, <1>6 DEF n, CreateFrameAnswer

LEMMA SmallSwitchTo ==
  ASSUME TypeInv, SmallInts, NEW w \in Window, SwitchTo(w)
  PROVE  Small(smToLisp')
<1>1. smToLisp \in Seq(Int) /\ frame[w] \in Int
  BY DEF TypeInv, TypeOK, LinkTypeOK, SMTypeOK
<1>2. Small(smToLisp) /\ frame[w] < CreateFrameAnswer
  BY DEF SmallInts
<1>3. SwitchFrames \in Int /\ SwitchFrames < CreateFrameAnswer
  BY DEF SwitchFrames, CreateFrameAnswer
<1>4. CASE w # active_session
  <2>1. smToLisp' = smToLisp \o <<SwitchFrames, frame[w]>>
    BY <1>4 DEF SwitchTo
  <2> QED
    BY <1>1, <1>2, <1>3, <2>1, SmallPair
<1>5. CASE w = active_session
  BY <1>2, <1>5 DEF SwitchTo
<1> QED
  BY <1>4, <1>5

(* Every step of the session manager. *)
LEMMA ManagerKeepsSmall ==
  ASSUME TypeInv, ListInv, FrameInv, SMNext, UNCHANGED lispVars
  PROVE  SmallInts'
<1>0. /\ smToLisp \in Seq(Int) /\ menuToSM \in Seq(Int) /\ lispToSM \in Seq(Int)
      /\ num_active_clients \in Int
      /\ SmallInts
      /\ currentFrameNum' = currentFrameNum /\ frameNumber' = frameNumber
  BY DEF TypeInv, TypeOK, LinkTypeOK, SMTypeOK, PeerTypeOK, FrameInv, lispVars
<1>1. ASSUME Small(smToLisp'), UNCHANGED <<menuToSM, frame>>
      PROVE  SmallInts'
  BY <1>0, <1>1 DEF SmallInts
<1>2. ASSUME UNCHANGED <<smToLisp, menuToSM, frame>>
      PROVE  SmallInts'
  BY <1>0, <1>2 DEF SmallInts
<1>3. CASE Select
  BY <1>2, <1>3 DEF Select, linkVars, peerVars
<1>4. CASE SelectFails
  BY <1>2, <1>4 DEF SelectFails, linkVars, peerVars
<1>5. CASE ReadMenuSwitchFrames
  <2>1. /\ menuToSM # <<>> /\ menuToSM' = Tail(menuToSM) /\ frame' = frame
        /\ smToLisp' = smToLisp \o <<SwitchFrames, Head(menuToSM)>>
    BY <1>5 DEF ReadMenuSwitchFrames
  <2>2. Small(menuToSM') /\ Head(menuToSM) < CreateFrameAnswer /\ Head(menuToSM) \in Int
    BY <1>0, <2>1, SmallTail, TailType DEF SmallInts
  <2>3. Small(smToLisp')
    BY <1>0, <2>1, <2>2, SmallPair DEF SmallInts, SwitchFrames, CreateFrameAnswer
  <2> QED
    BY <1>0, <2>1, <2>2, <2>3 DEF SmallInts
<1>6. CASE ReadMenuClosed
  BY <1>2, <1>6 DEF ReadMenuClosed, linkVars, peerVars
<1>7. CASE ReadFromSpadIo
  BY <1>2, <1>7 DEF ReadFromSpadIo, peerVars
<1>8. CASE AcceptMenu
  BY <1>2, <1>8 DEF AcceptMenu, linkVars
<1>9. CASE AcceptInterpWindow
  <2>1. Small(smToLisp')
    BY <1>0, <1>9, SmallAppend DEF AcceptInterpWindow, SmallInts, CreateFrame, CreateFrameAnswer
  <2> QED
    BY <1>1, <1>9, <2>1 DEF AcceptInterpWindow
<1>10. CASE ReadCreateFrameAnswer
  <2>1. lispToSM[2] < CreateFrameAnswer
    <3>1. Len(lispToSM) >= 2 /\ Head(lispToSM) = CreateFrameAnswer
      BY <1>10 DEF ReadCreateFrameAnswer, IsAnswer
    <3>2. 1 \in Answers
      BY <1>0, <3>1 DEF Answers
    <3>3. lispToSM[1 + 1] \in 0 .. frameNumber - 1
      BY <3>2 DEF FrameInv, AnswersFresh
    <3> QED
      BY <3>3, <1>0, MaxFramesAssumption
      DEF SmallInts, CreateFrameAnswer, TypeInv, TypeOK, LispTypeOK
  <2>2. \A w \in Window : frame'[w] < CreateFrameAnswer
    BY <1>0, <1>10, <2>1 DEF ReadCreateFrameAnswer, SmallInts, TypeInv, TypeOK, SMTypeOK
  <2>3. UNCHANGED <<smToLisp, menuToSM>>
    BY <1>10 DEF ReadCreateFrameAnswer, peerVars
  <2> QED
    BY <1>0, <2>2, <2>3 DEF SmallInts
<1>11. CASE LoseRace
  BY <1>2, <1>11 DEF LoseRace, peerVars
<1>12. ASSUME NEW w \in Window, ReadFromSession(w)
       PROVE  SmallInts'
  <2>1. Small(smToLisp')
    BY <1>0, <1>12, SmallSwitchTo DEF ReadFromSession
  <2> QED
    BY <1>1, <1>12, <2>1 DEF ReadFromSession
<1>13. ASSUME NEW w \in Window, ReadSessionClosed(w)
       PROVE  SmallInts'
  <2>1. Small(smToLisp')
    BY <1>0, <1>13, SmallSwitchTo DEF ReadSessionClosed
  <2> QED
    BY <1>1, <1>13, <2>1 DEF ReadSessionClosed, peerVars
<1>14. ASSUME NEW w \in Window, SkipSession(w)
       PROVE  SmallInts'
  BY <1>2, <1>14 DEF SkipSession, linkVars, peerVars
<1>15. CASE ReadEndOfOutput
  BY <1>2, <1>15 DEF ReadEndOfOutput, peerVars
<1>16. CASE ReadQueryClients
  <2>1. num_active_clients < CreateFrameAnswer
    BY <1>16, FewClients DEF ReadQueryClients, HasSpadCommand, AtTurn
  <2>2. Small(smToLisp')
    BY <1>0, <1>16, <2>1, SmallAppend DEF ReadQueryClients, NumClients, SmallInts
  <2> QED
    BY <1>1, <1>16, <2>2 DEF ReadQueryClients, peerVars
<1>17. CASE ReadCloseClient
  BY <1>2, <1>17 DEF ReadCloseClient
<1>18. CASE ReadCloseUnknown
  BY <1>2, <1>18 DEF ReadCloseUnknown, peerVars
<1>19. CASE ReadUnknownCommand
  BY <1>2, <1>19 DEF ReadUnknownCommand, peerVars
<1> QED
  BY <1>3, <1>4, <1>5, <1>6, <1>7, <1>8, <1>9, <1>10, <1>11, <1>12, <1>13, <1>14, <1>15,
     <1>16, <1>17, <1>18, <1>19
  DEF SMNext

-----------------------------------------------------------------------------
(* The three things Lisp sends beside the number of a new frame. *)
LEMMA SendsNothing == ASSUME TypeInv, lispToSM' = lispToSM PROVE SendsOther
<1>1. lispToSM \in Seq(Int)
  BY DEF TypeInv, TypeOK, LinkTypeOK
<1> QED
  BY <1>1 DEF SendsOther

LEMMA SendsOne ==
  ASSUME TypeInv, NEW e \in Int, e # CreateFrameAnswer, lispToSM' = Append(lispToSM, e)
  PROVE  SendsOther
<1>1. lispToSM \in Seq(Int)
  BY DEF TypeInv, TypeOK, LinkTypeOK
<1> QED
  BY <1>1, AppendElems, AppendType DEF SendsOther

LEMMA SendsTwo ==
  ASSUME TypeInv, NEW e \in Int, e # CreateFrameAnswer, NEW f \in Int, f # CreateFrameAnswer,
         lispToSM' = lispToSM \o <<e, f>>
  PROVE  SendsOther
<1>1. lispToSM \in Seq(Int)
  BY DEF TypeInv, TypeOK, LinkTypeOK
<1>2. /\ lispToSM' \in Seq(Int) /\ Len(lispToSM') = Len(lispToSM) + 2
      /\ \A j \in 1 .. Len(lispToSM) : lispToSM'[j] = lispToSM[j]
      /\ lispToSM'[Len(lispToSM) + 1] = e
      /\ lispToSM'[Len(lispToSM) + 2] = f
  BY <1>1, PairElems
<1>3. Len(lispToSM) \in Nat
  BY <1>1
<1>4. \A j \in Len(lispToSM) + 1 .. Len(lispToSM') : j = Len(lispToSM) + 1 \/ j = Len(lispToSM) + 2
  BY <1>2, <1>3
<1>5. \A j \in Len(lispToSM) + 1 .. Len(lispToSM') : lispToSM'[j] # CreateFrameAnswer
  BY <1>2, <1>4
<1> QED
  BY <1>2, <1>3, <1>5 DEF SendsOther

(* A new frame has the next number, which nobody has yet. *)
LEMMA CreateKeepsFrames ==
  ASSUME TypeInv, FrameInv, ServeCreateFrame, UNCHANGED smVars
  PROVE  AnswersFresh' /\ FramesDistinct'
<1> DEFINE n == Len(lispToSM)
<1>1. lispToSM \in Seq(Int) /\ frameNumber \in Nat /\ n \in Nat /\ DOMAIN lispToSM = 1 .. n
  BY DEF TypeInv, TypeOK, LinkTypeOK, LispTypeOK
<1>2. lispToSM' = lispToSM \o <<CreateFrameAnswer, frameNumber>> /\ frameNumber' = frameNumber + 1
  BY DEF ServeCreateFrame, CreateFrameReply
<1>3. CreateFrameAnswer \in Int /\ frameNumber # CreateFrameAnswer
  BY <1>1, MaxFramesAssumption DEF FrameInv, SmallInts, CreateFrameAnswer
<1>4. /\ lispToSM' \in Seq(Int) /\ Len(lispToSM') = n + 2
      /\ \A j \in 1 .. n : lispToSM'[j] = lispToSM[j]
      /\ lispToSM'[n + 1] = CreateFrameAnswer
      /\ lispToSM'[n + 2] = frameNumber
  BY <1>1, <1>2, <1>3, PairElems
<1> HIDE DEF n
<1>5. DOMAIN lispToSM' = 1 .. n + 2
  BY <1>1, <1>4
<1>6. \A k \in Answers' : k = n + 1 \/ k \in Answers
  <2> SUFFICES ASSUME NEW k \in Answers', k # n + 1
               PROVE  k \in Answers
    OBVIOUS
  <2>1. k \in 1 .. n + 2 /\ lispToSM'[k] = CreateFrameAnswer
    BY <1>5 DEF Answers
  <2>2. k # n + 2
    BY <1>3, <1>4, <2>1
  <2>3. k \in 1 .. n
    BY <1>1, <2>1, <2>2
  <2> QED
    BY <1>1, <1>4, <2>1, <2>3 DEF Answers
<1>7. \A k \in Answers : /\ k + 1 \in 1 .. n
                         /\ lispToSM'[k + 1] = lispToSM[k + 1]
                         /\ lispToSM[k + 1] \in 0 .. frameNumber - 1
  BY <1>1, <1>4 DEF FrameInv, AnswersFresh
<1>8. (n + 1) + 1 = n + 2 /\ lispToSM'[(n + 1) + 1] = frameNumber
  BY <1>1, <1>4
<1>9. plSock' = plSock /\ frame' = frame /\ \A i : HasFrame(i)' <=> HasFrame(i)
  BY DEF smVars, HasFrame
<1>10. \A k \in Answers' : k + 1 \in DOMAIN lispToSM' /\ lispToSM'[k + 1] \in 0 .. frameNumber' - 1
  <2> TAKE k \in Answers'
  <2>1. CASE k = n + 1
    BY <1>1, <1>2, <1>5, <1>8, <2>1
  <2>2. CASE k \in Answers
    <3>1. k + 1 \in 1 .. n + 2
      BY <1>1, <1>7, <2>2
    <3>2. lispToSM'[k + 1] \in 0 .. frameNumber - 1
      BY <1>7, <2>2
    <3>3. \A x \in 0 .. frameNumber - 1 : x \in 0 .. frameNumber' - 1
      BY <1>1, <1>2
    <3> QED
      BY <1>5, <3>1, <3>2, <3>3
  <2> QED
    BY <1>6, <2>1, <2>2
<1>11. \A k, l \in Answers' : lispToSM'[k + 1] = lispToSM'[l + 1] => k = l
  <2> SUFFICES ASSUME NEW k \in Answers', NEW l \in Answers',
                      lispToSM'[k + 1] = lispToSM'[l + 1]
               PROVE  k = l
    OBVIOUS
  <2>1. CASE k \in Answers /\ l \in Answers
    BY <1>7, <2>1 DEF FrameInv, AnswersFresh
  <2>2. CASE k = n + 1 /\ l \in Answers
    BY <1>1, <1>7, <1>8, <2>2
  <2>3. CASE k \in Answers /\ l = n + 1
    BY <1>1, <1>7, <1>8, <2>3
  <2> QED
    BY <1>6, <2>1, <2>2, <2>3
<1>12. \A i \in DOMAIN plSock : HasFrame(i) => frame[plSock[i]] \in 0 .. frameNumber - 1
  BY DEF FrameInv, FramesDistinct
<1>13. ASSUME NEW k \in Answers', NEW i \in DOMAIN plSock, HasFrame(i)
       PROVE  frame[plSock[i]] # lispToSM'[k + 1]
  <2>1. CASE k = n + 1
    BY <1>1, <1>8, <1>12, <1>13, <2>1
  <2>2. CASE k \in Answers
    BY <1>7, <1>13, <2>2 DEF FrameInv, AnswersFresh
  <2> QED
    BY <1>6, <2>1, <2>2
<1>14. AnswersFresh'
  BY <1>9, <1>10, <1>11, <1>13 DEF AnswersFresh
<1>15. FramesDistinct'
  <2>1. \A x \in 0 .. frameNumber - 1 : x \in 0 .. frameNumber' - 1
    BY <1>1, <1>2
  <2> QED
    BY <1>9, <2>1 DEF FrameInv, FramesDistinct
<1> QED
  BY <1>14, <1>15

(* Every step of Lisp. *)
LEMMA LispKeepsFrames ==
  ASSUME TypeInv, FrameInv, LispNext, UNCHANGED smVars, UNCHANGED peerVars
  PROVE  FrameInv'
<1>0. /\ smToLisp \in Seq(Int) /\ currentFrameNum \in Int /\ frameNumber \in Nat
      /\ AnswersFresh /\ FramesDistinct /\ SmallInts
      /\ UNCHANGED <<smPc, plSock, frame, menuToSM>>
  BY DEF TypeInv, TypeOK, LinkTypeOK, LispTypeOK, FrameInv, smVars, peerVars
<1>1. ASSUME SendsOther, frameNumber' = frameNumber, Small(smToLisp'),
             currentFrameNum' < CreateFrameAnswer
      PROVE  FrameInv'
  BY <1>0, <1>1, OtherKeepsFrames DEF FrameInv, SmallInts
<1>2. ASSUME SendsOther, frameNumber' = frameNumber, currentFrameNum' = currentFrameNum,
             smToLisp # <<>>, smToLisp' = Tail(smToLisp)
      PROVE  FrameInv'
  <2>1. Small(smToLisp')
    BY <1>0, <1>2, SmallTail DEF SmallInts
  <2> QED
    BY <1>0, <1>1, <1>2, <2>1 DEF SmallInts
<1>14. ASSUME SendsOther, frameNumber' = frameNumber, currentFrameNum' = currentFrameNum,
              smToLisp' = smToLisp
       PROVE  FrameInv'
  BY <1>0, <1>1, <1>14 DEF SmallInts
<1>3. CASE SignalEndOfOutput
  <2>1. SendsOther
    BY <1>3, SendsNothing, SendsOne DEF SignalEndOfOutput, EndOfOutput, CreateFrameAnswer
  <2>2. UNCHANGED <<frameNumber, currentFrameNum, smToLisp>>
    BY <1>3 DEF SignalEndOfOutput
  <2> QED
    BY <1>14, <2>1, <2>2
<1>4. CASE ServeCreateFrame
  <2>1. AnswersFresh' /\ FramesDistinct'
    BY <1>4, CreateKeepsFrames
  <2>2. Small(smToLisp')
    BY <1>0, <1>4, SmallTail DEF ServeCreateFrame, HasCommand, SmallInts
  <2>3. currentFrameNum' < CreateFrameAnswer /\ frameNumber' <= MaxFrames
    <3>1. MaxFrames < CreateFrameAnswer /\ frameNumber < MaxFrames /\ MaxFrames \in Nat
      BY <1>0, <1>4, MaxFramesAssumption DEF ServeCreateFrame, SmallInts
    <3> QED
      BY <1>0, <1>4, <3>1 DEF ServeCreateFrame, CreateFrameAnswer
  <2> QED
    BY <1>0, <2>1, <2>2, <2>3 DEF FrameInv, SmallInts
<1>5. CASE ServeSwitchFrames
  <2>1. Small(smToLisp') /\ smToLisp[2] < CreateFrameAnswer
    BY <1>0, <1>5, SmallDrop DEF ServeSwitchFrames, SmallInts
  <2> QED
    BY <1>1, <1>5, <2>1, SendsNothing DEF ServeSwitchFrames
<1>6. CASE ServeUnknown
  BY <1>2, <1>6, SendsNothing DEF ServeUnknown
<1>7. CASE ReadLine
  BY <1>2, <1>14, <1>7, SendsNothing DEF ReadLine, HasCommand
<1>8. CASE ServeMenu
  BY <1>14, <1>8, SendsNothing DEF ServeMenu
<1>9. CASE EvaluateExpr
  <2>1. UNCHANGED <<frameNumber, currentFrameNum, smToLisp, lispToSM>>
    BY <1>9 DEF EvaluateExpr
  <2> QED
    BY <1>14, <2>1, SendsNothing
<1>10. CASE SendQueryClients
  <2>1. SendsOther
    BY <1>10, SendsOne DEF SendQueryClients, QueryClients, CreateFrameAnswer
  <2>2. UNCHANGED <<frameNumber, currentFrameNum, smToLisp>>
    BY <1>10 DEF SendQueryClients
  <2> QED
    BY <1>14, <2>1, <2>2
<1>11. CASE CloseFrame
  <2>1. SendsOther
    <3>1. currentFrameNum # CreateFrameAnswer
      BY <1>0 DEF SmallInts, CreateFrameAnswer
    <3>2. CloseClient \in Int /\ CloseClient # CreateFrameAnswer
      BY DEF CloseClient, CreateFrameAnswer
    <3>3. lispToSM' = lispToSM \o <<CloseClient, currentFrameNum>>
      BY <1>11 DEF CloseFrame
    <3> QED
      BY <1>0, <3>1, <3>2, <3>3, SendsTwo
  <2>2. /\ UNCHANGED <<frameNumber, currentFrameNum>>
        /\ smToLisp # <<>> /\ smToLisp' = Tail(smToLisp)
    BY <1>11 DEF CloseFrame
  <2> QED
    BY <1>2, <2>1, <2>2
<1>12. CASE AskWhetherLast
  BY <1>2, <1>12, SendsNothing DEF AskWhetherLast
<1>13. CASE ReadAnswer
  <2>1. UNCHANGED <<frameNumber, currentFrameNum, smToLisp, lispToSM>>
    BY <1>13 DEF ReadAnswer
  <2> QED
    BY <1>14, <2>1, SendsNothing
<1> QED
  BY <1>3, <1>4, <1>5, <1>6, <1>7, <1>8, <1>9, <1>10, <1>11, <1>12, <1>13 DEF LispNext

-----------------------------------------------------------------------------
(* The other processes leave the frames alone; HyperDoc asks for frame 0. *)
LEMMA OthersKeepFrames ==
  ASSUME TypeInv, FrameInv, UNCHANGED <<lispVars, smVars, lispToSM, smToLisp>>,
         menuToSM' = menuToSM \/ menuToSM' = Append(menuToSM, 0)
  PROVE  FrameInv'
<1>1. menuToSM \in Seq(Int) /\ Small(menuToSM)
  BY DEF TypeInv, TypeOK, PeerTypeOK, FrameInv, SmallInts
<1>2. Small(menuToSM')
  <2>1. Small(Append(menuToSM, 0))
    <3>1. 0 \in Int /\ 0 < CreateFrameAnswer
      BY DEF CreateFrameAnswer
    <3> QED
      BY <1>1, <3>1, SmallAppend
  <2> QED
    BY <1>1, <2>1
<1>3. AnswersFresh' /\ FramesDistinct'
  BY OtherKeepsFrames, SendsNothing DEF FrameInv, lispVars, smVars
<1> QED
  BY <1>2, <1>3 DEF FrameInv, SmallInts, lispVars, smVars

LEMMA InitFrames == MaxFrames < CreateFrameAnswer /\ Init => FrameInv
<1> SUFFICES ASSUME MaxFrames < CreateFrameAnswer, Init
             PROVE  FrameInv
  OBVIOUS
<1>1. DOMAIN lispToSM = {} /\ DOMAIN plSock = {} /\ DOMAIN smToLisp = {} /\ DOMAIN menuToSM = {}
  BY DEF Init, LinkInit, SMInit, PeerInit
<1>2. AnswersFresh /\ FramesDistinct
  BY <1>1 DEF AnswersFresh, Answers, FramesDistinct
<1>3. \A w \in Window : frame[w] < CreateFrameAnswer
  BY DEF Init, SMInit, NoFrame, CreateFrameAnswer
<1>4. currentFrameNum < CreateFrameAnswer /\ frameNumber <= MaxFrames
  BY MaxFramesAssumption DEF Init, LispInit, CreateFrameAnswer
<1> QED
  BY <1>1, <1>2, <1>3, <1>4 DEF FrameInv, SmallInts, Small

LEMMA NextFrames == TypeInv /\ ListInv /\ ListInv' /\ FrameInv /\ [Next]_vars => FrameInv'
<1> SUFFICES ASSUME TypeInv, ListInv, ListInv', FrameInv, [Next]_vars
             PROVE  FrameInv'
  OBVIOUS
<1>1. CASE Alive /\ SMStep
  BY <1>1, ManagerKeepsFrames, ManagerKeepsSmall DEF SMStep, lispVars, FrameInv
<1>2. CASE Alive /\ LispStep
  BY <1>2, LispKeepsFrames DEF LispStep
<1>3. CASE Alive /\ RelayStep
  BY <1>3, OthersKeepFrames DEF RelayStep, RelayOutput, peerVars
<1>4. CASE Alive /\ PeerNext
  BY <1>4, OthersKeepFrames
  DEF PeerNext, ConnectWindow, TypeLine, WindowDies, ConnectMenu, IssueServerCommand, MenuDies,
      linkVars
<1>5. CASE UNCHANGED vars
  BY <1>5, OthersKeepFrames DEF vars, linkVars, peerVars
<1> QED
  BY <1>1, <1>2, <1>3, <1>4, <1>5 DEF Next, Rest

THEOREM FramesAgree == MaxFrames < CreateFrameAnswer => (Spec => []FrameInv)
BY InitType, NextType, InitList, NextList, InitFrames, NextFrames, PTL DEF Spec

(* However messages are misread, no two windows get the same frame, and    *)
(* every frame of a window is one that Lisp has made for it (session.c:    *)
(* accept_session_connection; server.boot: serverReadLine), as long as     *)
(* fewer than 50 frames are made: the number of frame 50, or a count of 50 *)
(* windows, looks like CreateFrameAnswer.                                  *)
THEOREM FramesAreDistinct == MaxFrames < CreateFrameAnswer => (Spec => []FramesDistinct)
<1>1. FrameInv => FramesDistinct
  BY DEF FrameInv
<1> QED
  BY <1>1, FramesAgree, PTL
-----------------------------------------------------------------------------
(***************************************************************************)
(* Theorems about SessionSystem with peers that wait their turn (env = {}: *)
(* nobody types ahead, no window opens while another one is served, no     *)
(* window is killed and HyperDoc does not run), for every set of windows   *)
(* and every bound.                                                        *)
(*                                                                         *)
(* The proof is a phase argument.  Messages about one line, or about one   *)
(* new window, are the only ones on the sockets, so that each program can  *)
(* tell from its own state what the other one is about to do; CalmInv      *)
(* names the phases, and every step leads from one phase to the same or    *)
(* to the next.  With other peers the phases overlap: that is what the     *)
(* lost race and the frames of the wrong window are made of.               *)
(***************************************************************************)

(* The interpreter is in frame n and knows it. *)
AtFrame(n) == Head(ring) = n /\ currentFrameNum = n

(* Lisp has nothing to do and has said so. *)
LispFree == lispPc \in {"top", "switch"} /\ ~ needToSignal /\ line = NoLine

(* No line is being served, and nobody is being given a frame. *)
Idle ==
    /\ smPc = "run" /\ ~ reading_output
    /\ LispFree
    /\ pty = <<>> /\ smToLisp = <<>> /\ lispToSM = <<>>
    /\ active_session # NoSock => AtFrame(frame[active_session])

(* The window at the head of the list waits for its frame. *)
Creating ==
    /\ smPc = "answer" /\ ~ reading_output
    /\ pending = <<>>
    /\ LispFree
    /\ pty = <<>>
    /\ \/ smToLisp = <<CreateFrame>> /\ lispToSM = <<>>
       \/ smToLisp = <<>> /\ lispToSM = <<CreateFrameAnswer, Head(ring)>> /\ AtFrame(Head(ring))

(* A line of the active window is being served. *)
Serving ==
    /\ smPc = "run" /\ reading_output
    /\ pending = <<>>

(* The line is on its way, behind the command that selects its frame. *)
Reading ==
    /\ Serving
    /\ LispFree
    /\ lispToSM = <<>>
    /\ \E l \in Line : pty = <<l>> /\ active_session = l.from
    /\ toSM[active_session] = <<>>
    /\ \/ smToLisp = <<SwitchFrames, frame[active_session]>>
       \/ smToLisp = <<>> /\ AtFrame(frame[active_session])

(* Lisp works on the line in the frame of its window. *)
Working ==
    /\ Serving
    /\ needToSignal
    /\ line \in Line /\ active_session = line.from
    /\ AtFrame(frame[active_session])

Evaluating ==
    /\ lispPc = "eval"
    /\ Working
    /\ pty = <<>> /\ smToLisp = <<>> /\ lispToSM = <<>>
    /\ toSM[active_session] = <<>>

(* Lisp asks for the number of windows. *)
Querying ==
    /\ lispPc = "query"
    /\ Working
    /\ pty = <<>>
    /\ toSM[active_session] = <<>>
    /\ \/ lispToSM = <<QueryClients>> /\ smToLisp = <<>>
       \/ lispToSM = <<>> /\ smToLisp = <<Len(plSock)>>

(* Lisp asks the user whether to leave. *)
Asking ==
    /\ lispPc = "ask"
    /\ Working
    /\ smToLisp = <<>> /\ lispToSM = <<>>
    /\ \/ pty = <<>>
       \/ \E l \in Line : pty = <<l>> /\ l.from = active_session /\ toSM[active_session] = <<>>

(* The line is done, and the session manager is to hear of it. *)
Ending ==
    /\ Serving
    /\ line = NoLine
    /\ pty = <<>> /\ smToLisp = <<>>
    /\ active_session # NoSock => toSM[active_session] = <<>>
    /\ \/ /\ lispPc = "top" /\ needToSignal
          /\ \/ lispToSM = <<>> /\ (active_session # NoSock => AtFrame(frame[active_session]))
             \/ lispToSM = <<CloseClient, frame[active_session]>> /\ active_session # NoSock
       \/ /\ lispPc = "switch" /\ ~ needToSignal
          /\ \/ /\ lispToSM = <<EndOfOutput>>
                /\ active_session # NoSock => AtFrame(frame[active_session])
             \/ /\ lispToSM = <<CloseClient, frame[active_session], EndOfOutput>>
                /\ active_session # NoSock

Phase == \/ Idle \/ Creating \/ Reading \/ Evaluating \/ Querying \/ Asking \/ Ending
         \/ lispPc = "quit"

-----------------------------------------------------------------------------
NoMenu == menu = "none" /\ menuToSM = <<>> /\ menuToLisp = 0 /\ ~ menu_client

(* The windows that are up are those of the list; each has typed one line   *)
(* at most, and no descriptor has been closed under the session manager.   *)
WindowsUp ==
    /\ \A w \in Window : win[w] = "up" <=> w \in ToSet(plSock)
    /\ ToSet(plSock) \cup session_socket_mask \subseteq openFd
    /\ \A w \in Window : toSM[w] = <<>> \/ \E l \in Line : toSM[w] = <<l>> /\ l.from = w
    /\ \A w \in todo \cap Window : toSM[w] # <<>>

(* One window connects at a time, and only while no line is served. *)
OneConnects ==
    pending # <<>> => /\ Idle
                      /\ Len(pending) = 1
                      /\ todo = {} \/ "listen" \in todo

(* A window with a frame has it in the ring, or is about to be closed. *)
FramesKept ==
    \A i \in DOMAIN plSock :
        HasFrame(i) => Contains(ring, frame[plSock[i]]) \/ Closing(plSock[i])

(* What has been evaluated was typed in a window that had its frame. *)
EvaluatedHere ==
    /\ EvalInOwnFrame
    /\ \A e \in evaluated : /\ win[e[1]] \in {"up", "dead"}
                            /\ smPc = "answer" => e[1] # Head(plSock)

CalmInv == NoMenu /\ WindowsUp /\ OneConnects /\ FramesKept /\ EvaluatedHere
           /\ smPc \in {"run", "answer"} /\ Phase

(***************************************************************************)
(* No two windows share a frame.  This needs no bound on the frames here:  *)
(* the only integer a waiting session manager can read is the answer, and  *)
(* it names the frame Lisp has just made, which nobody has yet.            *)
(***************************************************************************)
Fresh ==
    smPc = "answer" /\ lispToSM # <<>> =>
        /\ Head(ring) \in 0 .. frameNumber - 1
        /\ \A i \in DOMAIN plSock : HasFrame(i) => frame[plSock[i]] # Head(ring)

CalmFrames == FramesDistinct /\ Fresh

-----------------------------------------------------------------------------
(* What is put behind or taken from the front of short sequences. *)
LEMMA OneElem ==
  ASSUME NEW a
  PROVE  /\ Tail(<<a>>) = <<>> /\ Head(<<a>>) = a /\ <<a>> # <<>> /\ Len(<<a>>) = 1
         /\ Append(<<>>, a) = <<a>>
OBVIOUS

LEMMA TwoElems ==
  ASSUME NEW a, NEW b
  PROVE  /\ Head(<<a, b>>) = a /\ <<a, b>>[2] = b /\ <<a, b>> # <<>> /\ Len(<<a, b>>) = 2
         /\ SubSeq(<<a, b>>, 3, Len(<<a, b>>)) = <<>>
         /\ <<>> \o <<a, b>> = <<a, b>>
OBVIOUS

LEMMA SameElems ==
  ASSUME NEW S, NEW s \in Seq(S), NEW t \in Seq(S), Len(s) = Len(t),
         \A i \in 1 .. Len(s) : s[i] = t[i]
  PROVE  s = t
OBVIOUS

LEMMA ThreeElems ==
  ASSUME NEW S, NEW a \in S, NEW b \in S, NEW c \in S
  PROVE  /\ Append(<<a, b>>, c) = <<a, b, c>>
         /\ SubSeq(<<a, b, c>>, 3, Len(<<a, b, c>>)) = <<c>>
         /\ Head(<<a, b, c>>) = a /\ <<a, b, c>>[2] = b
         /\ <<a, b, c>> # <<>> /\ Len(<<a, b, c>>) = 3
<1> DEFINE s == <<a, b>>
           t == Append(s, c)
           u == <<a, b, c>>
           v == <<c>>
           r == SubSeq(u, 3, Len(u))
<1>0. s \in Seq(S)
  OBVIOUS
<1>1. Len(s) = 2 /\ s[1] = a /\ s[2] = b
  OBVIOUS
<1>2. /\ u \in Seq(S) /\ Len(u) = 3 /\ u[1] = a /\ u[2] = b /\ u[3] = c
      /\ Head(u) = a /\ u # <<>>
  OBVIOUS
<1>3. v \in Seq(S) /\ Len(v) = 1 /\ v[1] = c
  OBVIOUS
<1> HIDE DEF s, u, v
<1>4. t \in Seq(S) /\ Len(t) = Len(s) + 1
  BY <1>0, AppendType
<1>5. \A j \in 1 .. Len(s) + 1 : t[j] = IF j = Len(s) + 1 THEN c ELSE s[j]
  BY <1>0, AppendElems
<1>6. r \in Seq(S) /\ Len(r) = 1 /\ r[1] = c
  BY <1>2, DropTwoElems
<1> HIDE DEF r, t
<1>7. t[1] = a /\ t[2] = b /\ t[3] = c
  BY <1>1, <1>5
<1>8. t = u
  BY <1>1, <1>2, <1>4, <1>7, SameElems
<1>9. r = v
  BY <1>3, <1>6, SameElems
<1> QED
  BY <1>2, <1>8, <1>9 DEF r, s, t, u, v

(* The ring keeps all its frames when one goes to the front. *)
LEMMA ChangeKeepsFrames ==
  ASSUME TypeInv, NEW n \in Int
  PROVE  /\ \A x : Contains(ring, x) => Contains(ChangeToFrame(n), x)
         /\ n >= 0 /\ Contains(ring, n) => Head(ChangeToFrame(n)) = n
<1>1. CASE n >= 0 /\ Contains(ring, n)
  <2> DEFINE p == Position(ring, n)
             r == RemoveAt(ring, p)
  <2>1. ring \in Seq(Frame) /\ n \in Frame
    BY <1>1 DEF TypeInv, TypeOK, LispTypeOK, Frame
  <2>2. p \in DOMAIN ring /\ ring[p] = n
    <3>1. \E i \in DOMAIN ring : ring[i] = n
      BY <1>1, <2>1 DEF Contains
    <3> QED
      BY <2>1, <3>1, PositionIs
  <2> HIDE DEF p
  <2>3. /\ r \in Seq(Frame) /\ Len(r) = Len(ring) - 1
        /\ \A j \in 1 .. Len(ring) - 1 : r[j] = IF j < p THEN ring[j] ELSE ring[j + 1]
    BY <2>1, <2>2, RemoveAtElems
  <2> HIDE DEF r
  <2>4. ChangeToFrame(n) = <<n>> \o r
    BY <1>1 DEF ChangeToFrame, p, r
  <2>5. /\ Len(<<n>> \o r) = Len(ring)
        /\ \A j \in 1 .. Len(ring) : (<<n>> \o r)[j] = IF j = 1 THEN n ELSE r[j - 1]
    BY <2>1, <2>3, ConsElems
  <2>6. ASSUME NEW x, Contains(ring, x)
        PROVE  Contains(<<n>> \o r, x)
    <3>1. PICK i \in 1 .. Len(ring) : ring[i] = x
      BY <2>6 DEF Contains
    <3>2. CASE i = p
      <4>1. 1 \in 1 .. Len(ring) /\ (<<n>> \o r)[1] = x
        BY <2>1, <2>2, <2>5, <3>1, <3>2
      <4> QED
        BY <2>5, <4>1 DEF Contains
    <3>3. CASE i < p
      <4>1. i + 1 \in 1 .. Len(ring) /\ i \in 1 .. Len(ring) - 1 /\ (i + 1) - 1 = i /\ i + 1 # 1
        BY <2>1, <2>2, <3>3
      <4>2. (<<n>> \o r)[i + 1] = x
        BY <2>3, <2>5, <3>1, <3>3, <4>1
      <4> QED
        BY <2>5, <4>1, <4>2 DEF Contains
    <3>4. CASE i > p
      <4>1. i - 1 \in 1 .. Len(ring) - 1 /\ ~ (i - 1 < p) /\ (i - 1) + 1 = i /\ i # 1
        BY <2>1, <2>2, <3>4
      <4>2. (<<n>> \o r)[i] = x
        BY <2>3, <2>5, <3>1, <4>1
      <4> QED
        BY <2>5, <3>1, <4>2 DEF Contains
    <3> QED
      BY <2>1, <2>2, <3>1, <3>2, <3>3, <3>4
  <2>7. Head(<<n>> \o r) = n
    BY <2>1, <2>3
  <2> QED
    BY <2>4, <2>6, <2>7
<1>2. CASE ~ (n >= 0 /\ Contains(ring, n))
  BY <1>2 DEF ChangeToFrame
<1> QED
  BY <1>1, <1>2

(* A new frame goes to the front of the ring as well. *)
LEMMA NewFrameInFront ==
  ASSUME TypeInv, NEW n \in Nat
  PROVE  /\ \A x : Contains(ring, x) => Contains(<<n>> \o ring, x)
         /\ Head(<<n>> \o ring) = n
<1>1. ring \in Seq(Frame) /\ n \in Frame
  BY DEF TypeInv, TypeOK, LispTypeOK, Frame
<1>2. /\ Len(<<n>> \o ring) = Len(ring) + 1
      /\ \A j \in 1 .. Len(ring) + 1 : (<<n>> \o ring)[j] = IF j = 1 THEN n ELSE ring[j - 1]
  BY <1>1, ConsElems
<1>3. ASSUME NEW x, Contains(ring, x)
      PROVE  Contains(<<n>> \o ring, x)
  <2>1. PICK i \in 1 .. Len(ring) : ring[i] = x
    BY <1>3 DEF Contains
  <2>2. i + 1 \in 1 .. Len(ring) + 1 /\ (i + 1) - 1 = i /\ i + 1 # 1
    BY <1>1
  <2> QED
    BY <1>2, <2>1, <2>2 DEF Contains
<1>4. Head(<<n>> \o ring) = n
  BY <1>1
<1> QED
  BY <1>3, <1>4

(* Closing the first frame of the ring leaves the others. *)
LEMMA CloseKeepsOthers ==
  ASSUME TypeInv
  PROVE  \A x : Contains(ring, x) /\ x # Head(ring) => Contains(CloseCurrentFrame, x)
<1>1. ring \in Seq(Frame) /\ ring # <<>>
  BY DEF TypeInv, TypeOK, LispTypeOK
<1>2. SUFFICES ASSUME NEW x, Contains(ring, x), x # Head(ring)
               PROVE  Contains(CloseCurrentFrame, x)
  OBVIOUS
<1>3. PICK i \in 1 .. Len(ring) : ring[i] = x
  BY <1>2 DEF Contains
<1>4. i # 1 /\ Len(ring) > 1
  BY <1>1, <1>2, <1>3
<1>5. i - 1 \in 1 .. Len(ring) - 1 /\ Len(Tail(ring)) = Len(ring) - 1 /\ Tail(ring)[i - 1] = ring[i]
  BY <1>1, <1>4
<1> QED
  BY <1>3, <1>4, <1>5 DEF CloseCurrentFrame, Contains

(* The active window is in the list, with a frame nobody else has. *)
LEMMA ActiveFrame ==
  ASSUME TypeInv, ListInv, CalmFrames, smPc = "run", active_session # NoSock
  PROVE  /\ active_session \in Window
         /\ active_session \in ToSet(plSock)
         /\ frame[active_session] \in Int
         /\ frame[active_session] >= 0
         /\ \E i \in DOMAIN plSock : HasFrame(i) /\ plSock[i] = active_session
         /\ \A w \in ToSet(plSock) : frame[w] = frame[active_session] => w = active_session
<1>1. /\ plSock \in Seq(Window) /\ active_session \in Window
      /\ frameNumber \in Nat
  BY DEF TypeInv, TypeOK, SMTypeOK, LispTypeOK
<1>2. PICK i \in DOMAIN plSock : plSock[i] = active_session
  BY <1>1 DEF ListInv, ActiveInList, Contains
<1>3. \A j \in DOMAIN plSock : HasFrame(j)
  BY DEF HasFrame
<1>4. frame[active_session] \in 0 .. frameNumber - 1
  BY <1>2, <1>3 DEF CalmFrames, FramesDistinct
<1>5. \A j \in DOMAIN plSock : frame[plSock[j]] = frame[active_session] => plSock[j] = active_session
  BY <1>2, <1>3 DEF CalmFrames, FramesDistinct
<1> QED
  BY <1>1, <1>2, <1>3, <1>4, <1>5 DEF ToSet

-----------------------------------------------------------------------------
(* What Lisp does not touch; the rest is to be shown of each of its steps. *)
LEMMA LispFrameRule ==
  ASSUME TypeInv, CalmInv, UNCHANGED smVars, UNCHANGED peerVars,
         menuToLisp' = menuToLisp,
         Phase', pending # <<>> => Idle', FramesKept', EvaluatedHere'
  PROVE  CalmInv'
<1>1. /\ UNCHANGED <<smPc, todo, plSock, session_socket_mask, openFd, menu_client>>
      /\ UNCHANGED <<win, menu, pending, toSM, menuToSM>>
  BY DEF smVars, peerVars
<1>2. NoMenu' /\ WindowsUp' /\ smPc' \in {"run", "answer"}
  BY <1>1 DEF CalmInv, NoMenu, WindowsUp
<1>3. OneConnects'
  BY <1>1 DEF CalmInv, OneConnects
<1> QED
  BY <1>2, <1>3 DEF CalmInv

(* Sending more does not take back a CloseClient. *)
LEMMA SendingKeepsFrames ==
  ASSUME TypeInv, FramesKept, SendsOther, UNCHANGED smVars,
         \A x : Contains(ring, x) => Contains(ring', x)
  PROVE  FramesKept'
<1>1. lispToSM \in Seq(Int) /\ Len(lispToSM) \in Nat /\ UNCHANGED <<smPc, plSock, frame>>
  BY DEF TypeInv, TypeOK, LinkTypeOK, smVars
<1>2. ASSUME NEW w \in Window, Closing(w)
      PROVE  Closing(w)'
  <2>1. /\ Len(lispToSM') \in Nat /\ Len(lispToSM') >= Len(lispToSM)
        /\ \A j \in 1 .. Len(lispToSM) : lispToSM'[j] = lispToSM[j]
    BY DEF SendsOther
  <2>2. Len(lispToSM) >= 2 /\ lispToSM[1] = CloseClient /\ lispToSM[2] = frame[w]
    BY <1>2 DEF Closing
  <2>3. 1 \in 1 .. Len(lispToSM) /\ 2 \in 1 .. Len(lispToSM) /\ Len(lispToSM') >= 2
    BY <1>1, <2>1, <2>2
  <2> QED
    BY <1>1, <2>1, <2>2, <2>3 DEF Closing
<1>3. \A i \in DOMAIN plSock : plSock[i] \in Window
  BY DEF TypeInv, TypeOK, SMTypeOK
<1> QED
  BY <1>1, <1>2, <1>3 DEF FramesKept, HasFrame

LEMMA QuietKeepsFrames ==
  ASSUME TypeInv, FramesKept, UNCHANGED smVars, lispToSM' = lispToSM,
         \A x : Contains(ring, x) => Contains(ring', x)
  PROVE  FramesKept'
<1>1. UNCHANGED <<smPc, plSock, frame>>
  BY DEF smVars
<1> QED
  BY <1>1 DEF FramesKept, HasFrame, Closing

(* A line is evaluated in the first frame of the ring. *)
LEMMA EvaluatesHere ==
  ASSUME CalmInv, EvaluatedHere, UNCHANGED smVars, UNCHANGED peerVars,
         NEW w \in ToSet(plSock), smPc = "run", Head(ring) = frame[w], w \in Window,
         evaluated' = evaluated \cup {<<w, Head(ring)>>}
  PROVE  EvaluatedHere'
<1>1. UNCHANGED <<smPc, plSock, frame, win>>
  BY DEF smVars, peerVars
<1>2. win[w] = "up"
  BY DEF CalmInv, WindowsUp
<1> QED
  BY <1>1, <1>2 DEF EvaluatedHere, EvalInOwnFrame

LEMMA EvaluatesNothing ==
  ASSUME EvaluatedHere, UNCHANGED smVars, UNCHANGED peerVars, evaluated' = evaluated
  PROVE  EvaluatedHere'
<1>1. UNCHANGED <<smPc, plSock, frame, win>>
  BY DEF smVars, peerVars
<1> QED
  BY <1>1 DEF EvaluatedHere, EvalInOwnFrame

-----------------------------------------------------------------------------
(* The head of serverReadLine: between two lines nothing is said, after    *)
(* one the session manager is told, once, that it is done.                 *)
LEMMA SignalKeepsCalm ==
  ASSUME TypeInv, ListInv, CalmFrames, CalmInv, SignalEndOfOutput, UNCHANGED smVars, UNCHANGED peerVars
  PROVE  CalmInv'
<1>0. /\ UNCHANGED <<smPc, plSock, frame, active_session, reading_output, pending, toSM>>
      /\ UNCHANGED <<line, currentFrameNum, ring, evaluated, smToLisp, menuToLisp, pty>>
      /\ lispPc = "top" /\ lispPc' = "switch" /\ needToSignal' = FALSE
      /\ lispToSM' = IF needToSignal THEN Append(lispToSM, EndOfOutput) ELSE lispToSM
  BY DEF smVars, peerVars, SignalEndOfOutput
<1>1. SendsOther
  <2>1. EndOfOutput \in Int /\ EndOfOutput # CreateFrameAnswer
    BY DEF EndOfOutput, CreateFrameAnswer
  <2> QED
    BY <1>0, <2>1, SendsNothing, SendsOne
<1>2. FramesKept' /\ EvaluatedHere'
  BY <1>0, <1>1, SendingKeepsFrames, EvaluatesNothing DEF CalmInv
<1>3. Idle => Idle'
  BY <1>0 DEF Idle, LispFree, AtFrame
<1>4. Creating => Creating'
  BY <1>0 DEF Creating, LispFree, AtFrame
<1>5. Reading => Reading'
  BY <1>0 DEF Reading, Serving, LispFree, AtFrame
<1>6. Ending => Ending'
  <2> SUFFICES ASSUME Ending
               PROVE  Ending'
    OBVIOUS
  <2>1. Serving /\ line = NoLine /\ pty = <<>> /\ smToLisp = <<>> /\ needToSignal
        /\ (active_session # NoSock => toSM[active_session] = <<>>)
    BY <1>0 DEF Ending
  <2>2. Serving'
    BY <1>0, <2>1 DEF Serving
  <2>3. lispToSM' = Append(lispToSM, EndOfOutput)
    BY <1>0, <2>1
  <2>4. CASE lispToSM = <<>> /\ (active_session # NoSock => AtFrame(frame[active_session]))
    <3>1. lispToSM' = <<EndOfOutput>>
      BY <2>3, <2>4, OneElem
    <3> QED
      BY <1>0, <2>1, <2>2, <2>4, <3>1 DEF Ending, AtFrame
  <2>5. CASE lispToSM = <<CloseClient, frame[active_session]>> /\ active_session # NoSock
    <3>1. CloseClient \in Int /\ EndOfOutput \in Int /\ frame[active_session] \in Int
      BY <2>1, <2>5, ActiveFrame DEF Serving, CloseClient, EndOfOutput
    <3>2. lispToSM' = <<CloseClient, frame[active_session], EndOfOutput>>
      BY <2>3, <2>5, <3>1, ThreeElems
    <3> QED
      BY <1>0, <2>1, <2>2, <2>5, <3>2 DEF Ending
  <2> QED
    BY <1>0, <2>4, <2>5 DEF Ending
<1>7. Phase'
  BY <1>0, <1>3, <1>4, <1>5, <1>6 DEF CalmInv, Phase, Evaluating, Querying, Asking
<1>8. pending # <<>> => Idle'
  BY <1>3 DEF CalmInv, OneConnects
<1> QED
  BY <1>0, <1>2, <1>7, <1>8, LispFrameRule

(* A frame is made for the window that waits for one. *)
LEMMA CreateKeepsCalm ==
  ASSUME TypeInv, ListInv, CalmFrames, CalmInv, ServeCreateFrame, UNCHANGED smVars, UNCHANGED peerVars
  PROVE  CalmInv'
<1>0. /\ UNCHANGED <<smPc, plSock, frame, active_session, reading_output, pending, toSM>>
      /\ UNCHANGED <<line, needToSignal, evaluated, menuToLisp, pty>>
      /\ lispPc = "switch" /\ smToLisp # <<>> /\ Head(smToLisp) = CreateFrame
      /\ smToLisp' = Tail(smToLisp)
      /\ ring' = <<frameNumber>> \o ring /\ currentFrameNum' = frameNumber
      /\ lispToSM' = lispToSM \o <<CreateFrameAnswer, frameNumber>>
      /\ lispPc' = "top" /\ frameNumber \in Nat
  BY DEF smVars, peerVars, ServeCreateFrame, HasCommand, CreateFrameReply,
         TypeInv, TypeOK, LispTypeOK
<1>1. Creating /\ smToLisp = <<CreateFrame>> /\ lispToSM = <<>>
  <2>1. ~ Idle /\ ~ Ending /\ ~ Evaluating /\ ~ Querying /\ ~ Asking /\ lispPc # "quit"
    BY <1>0 DEF Idle, Ending, Evaluating, Querying, Asking
  <2>2. ~ Reading
    BY <1>0, TwoElems DEF Reading, SwitchFrames, CreateFrame
  <2> QED
    BY <1>0, <2>1, <2>2 DEF CalmInv, Phase, Creating
<1>2. smToLisp' = <<>> /\ lispToSM' = <<CreateFrameAnswer, frameNumber>>
  BY <1>0, <1>1, OneElem, TwoElems
<1>3. Head(ring') = frameNumber /\ \A x : Contains(ring, x) => Contains(ring', x)
  BY <1>0, NewFrameInFront
<1>4. Creating'
  BY <1>0, <1>1, <1>2, <1>3 DEF Creating, LispFree, AtFrame
<1>5. FramesKept'
  <2>1. \A w \in Window : ~ Closing(w)
    BY <1>1 DEF Closing
  <2>2. \A i \in DOMAIN plSock : plSock[i] \in Window
    BY DEF TypeInv, TypeOK, SMTypeOK
  <2> QED
    BY <1>0, <1>3, <2>1, <2>2 DEF CalmInv, FramesKept, HasFrame
<1>6. EvaluatedHere'
  BY <1>0, EvaluatesNothing DEF CalmInv
<1> QED
  BY <1>0, <1>1, <1>4, <1>5, <1>6, LispFrameRule DEF Creating, Phase

(* The interpreter goes to the frame of the window whose line comes next. *)
LEMMA SwitchKeepsCalm ==
  ASSUME TypeInv, ListInv, CalmFrames, CalmInv, ServeSwitchFrames, UNCHANGED smVars, UNCHANGED peerVars
  PROVE  CalmInv'
<1> DEFINE f == frame[active_session]
<1>0. /\ UNCHANGED <<smPc, plSock, frame, active_session, reading_output, pending, toSM>>
      /\ UNCHANGED <<line, needToSignal, evaluated, menuToLisp, lispToSM, pty>>
      /\ lispPc = "switch" /\ smToLisp # <<>> /\ Head(smToLisp) = SwitchFrames
      /\ smToLisp' = SubSeq(smToLisp, 3, Len(smToLisp))
      /\ currentFrameNum' = smToLisp[2] /\ ring' = ChangeToFrame(smToLisp[2])
      /\ lispPc' = "top"
  BY DEF smVars, peerVars, ServeSwitchFrames, HasCommand
<1>1. Reading /\ smToLisp = <<SwitchFrames, f>>
  <2>1. ~ Idle /\ ~ Ending /\ ~ Evaluating /\ ~ Querying /\ ~ Asking /\ lispPc # "quit"
    BY <1>0 DEF Idle, Ending, Evaluating, Querying, Asking
  <2>2. ~ Creating
    BY <1>0, OneElem DEF Creating, SwitchFrames, CreateFrame
  <2> QED
    BY <1>0, <2>1, <2>2 DEF CalmInv, Phase, Reading
<1>2. active_session # NoSock /\ smPc = "run" /\ lispToSM = <<>> /\ pending = <<>>
  BY <1>1, WindowAssumption DEF Reading, Serving, Line
<1>3. f \in Int /\ f >= 0 /\ \E i \in DOMAIN plSock : HasFrame(i) /\ plSock[i] = active_session
  BY <1>2, ActiveFrame
<1>4. ~ Closing(active_session)
  BY <1>2 DEF Closing
<1>5. Contains(ring, f)
  BY <1>3, <1>4 DEF CalmInv, FramesKept
<1>6. smToLisp' = <<>> /\ smToLisp[2] = f
  BY <1>0, <1>1, TwoElems
<1>7. Head(ring') = f /\ \A x : Contains(ring, x) => Contains(ring', x)
  BY <1>0, <1>3, <1>5, <1>6, ChangeKeepsFrames
<1>8. Reading'
  BY <1>0, <1>1, <1>6, <1>7 DEF Reading, Serving, LispFree, AtFrame
<1>9. FramesKept' /\ EvaluatedHere'
  BY <1>0, <1>7, QuietKeepsFrames, EvaluatesNothing DEF CalmInv
<1> QED
  BY <1>0, <1>2, <1>8, <1>9, LispFrameRule DEF Phase

(* The line is read, and its window is the active one. *)
LEMMA ReadLineKeepsCalm ==
  ASSUME TypeInv, ListInv, CalmFrames, CalmInv, ReadLine, UNCHANGED smVars, UNCHANGED peerVars
  PROVE  CalmInv'
<1>0. /\ UNCHANGED <<smPc, plSock, frame, active_session, reading_output, pending, toSM>>
      /\ UNCHANGED <<currentFrameNum, ring, menuToLisp, lispToSM>>
      /\ lispPc = "switch" /\ pty # <<>>
      /\ pty' = Tail(pty) /\ line' = Head(pty) /\ needToSignal' = TRUE
      /\ evaluated' = evaluated \cup {<<Head(pty).from, Head(ring)>>}
      /\ lispPc' = "eval"
  BY DEF smVars, peerVars, ReadLine
<1>1. \/ smToLisp = <<>> /\ smToLisp' = smToLisp
      \/ smToLisp # <<>> /\ Head(smToLisp) = CallInterp
  BY DEF ReadLine, HasCommand
<1>2. Reading
  BY <1>0 DEF CalmInv, Phase, Idle, Creating, Ending, Evaluating, Querying, Asking
<1>3. smToLisp = <<>> /\ smToLisp' = <<>>
  BY <1>1, <1>2, TwoElems DEF Reading, SwitchFrames, CallInterp
<1>4. AtFrame(frame[active_session])
  BY <1>2, <1>3, TwoElems DEF Reading
<1>5. PICK l \in Line : pty = <<l>> /\ active_session = l.from
  BY <1>2 DEF Reading
<1>6. Head(pty) = l /\ pty' = <<>> /\ line' = l
  BY <1>0, <1>5, OneElem
<1>7. /\ active_session \in Window /\ active_session # NoSock /\ pending = <<>>
      /\ smPc = "run" /\ reading_output /\ lispToSM = <<>> /\ toSM[active_session] = <<>>
  BY <1>2, <1>5, WindowAssumption DEF Reading, Serving, Line
<1>8. active_session \in ToSet(plSock)
  BY <1>7, ActiveFrame
<1>9. EvaluatedHere'
  <2>1. Head(ring) = frame[active_session]
    BY <1>4 DEF AtFrame
  <2>2. evaluated' = evaluated \cup {<<active_session, Head(ring)>>}
    BY <1>0, <1>5, <1>6
  <2> QED
    BY <1>7, <1>8, <2>1, <2>2, EvaluatesHere DEF CalmInv
<1>10. FramesKept'
  BY <1>0, QuietKeepsFrames DEF CalmInv
<1>11. Evaluating'
  BY <1>0, <1>3, <1>4, <1>5, <1>6, <1>7 DEF Evaluating, Working, Serving, AtFrame
<1> QED
  BY <1>0, <1>7, <1>9, <1>10, <1>11, LispFrameRule DEF Phase

(* The value is printed. *)
LEMMA EvaluateKeepsCalm ==
  ASSUME TypeInv, ListInv, CalmFrames, CalmInv, EvaluateExpr, UNCHANGED smVars, UNCHANGED peerVars
  PROVE  CalmInv'
<1>0. /\ UNCHANGED <<smPc, plSock, frame, active_session, reading_output, pending, toSM>>
      /\ UNCHANGED <<needToSignal, currentFrameNum, ring, evaluated, smToLisp, lispToSM,
                     menuToLisp, pty>>
      /\ lispPc = "eval" /\ line' = NoLine /\ lispPc' = "top"
  BY DEF smVars, peerVars, EvaluateExpr
<1>1. Evaluating
  BY <1>0 DEF CalmInv, Phase, Idle, Creating, Ending, Reading, Querying, Asking, LispFree
<1>2. Ending' /\ pending = <<>>
  BY <1>0, <1>1 DEF Evaluating, Working, Serving, Ending, AtFrame
<1>3. FramesKept' /\ EvaluatedHere'
  BY <1>0, QuietKeepsFrames, EvaluatesNothing DEF CalmInv
<1> QED
  BY <1>0, <1>2, <1>3, LispFrameRule DEF Phase

(* ")close" asks how many windows there are. *)
LEMMA QueryKeepsCalm ==
  ASSUME TypeInv, ListInv, CalmFrames, CalmInv, SendQueryClients, UNCHANGED smVars, UNCHANGED peerVars
  PROVE  CalmInv'
<1>0. /\ UNCHANGED <<smPc, plSock, frame, active_session, reading_output, pending, toSM>>
      /\ UNCHANGED <<line, needToSignal, currentFrameNum, ring, evaluated, smToLisp,
                     menuToLisp, pty>>
      /\ lispPc = "eval" /\ lispPc' = "query" /\ lispToSM' = Append(lispToSM, QueryClients)
  BY DEF smVars, peerVars, SendQueryClients
<1>1. Evaluating
  BY <1>0 DEF CalmInv, Phase, Idle, Creating, Ending, Reading, Querying, Asking, LispFree
<1>2. lispToSM' = <<QueryClients>> /\ smToLisp = <<>> /\ pending = <<>>
  BY <1>0, <1>1, OneElem DEF Evaluating, Working, Serving
<1>3. Querying'
  BY <1>0, <1>1, <1>2 DEF Evaluating, Working, Serving, Querying, AtFrame
<1>4. FramesKept'
  <2>1. QueryClients \in Int /\ QueryClients # CreateFrameAnswer
    BY DEF QueryClients, CreateFrameAnswer
  <2> QED
    BY <1>0, <2>1, SendsOne, SendingKeepsFrames DEF CalmInv
<1>5. EvaluatedHere'
  BY <1>0, EvaluatesNothing DEF CalmInv
<1> QED
  BY <1>0, <1>2, <1>3, <1>4, <1>5, LispFrameRule DEF Phase

(* With other windows left, the window is closed and its frame dropped. *)
LEMMA CloseFrameKeepsCalm ==
  ASSUME TypeInv, ListInv, CalmFrames, CalmInv, CloseFrame, UNCHANGED smVars, UNCHANGED peerVars
  PROVE  CalmInv'
<1> DEFINE f == frame[active_session]
<1>0. /\ UNCHANGED <<smPc, plSock, frame, active_session, reading_output, pending, toSM>>
      /\ UNCHANGED <<needToSignal, currentFrameNum, evaluated, menuToLisp, pty>>
      /\ lispPc = "query" /\ smToLisp # <<>> /\ smToLisp' = Tail(smToLisp)
      /\ lispToSM' = lispToSM \o <<CloseClient, currentFrameNum>>
      /\ ring' = CloseCurrentFrame /\ line' = NoLine /\ lispPc' = "top"
  BY DEF smVars, peerVars, CloseFrame
<1>1. Querying
  BY <1>0 DEF CalmInv, Phase, Idle, Creating, Ending, Reading, Evaluating, Asking, LispFree
<1>2. /\ lispToSM = <<>> /\ smToLisp = <<Len(plSock)>> /\ pty = <<>>
      /\ toSM[active_session] = <<>> /\ pending = <<>> /\ smPc = "run" /\ reading_output
      /\ needToSignal /\ AtFrame(f) /\ active_session # NoSock
  BY <1>0, <1>1, WindowAssumption DEF Querying, Working, Serving, Line
<1>3. lispToSM' = <<CloseClient, f>> /\ smToLisp' = <<>>
  BY <1>0, <1>2, OneElem, TwoElems DEF AtFrame
<1>4. Ending'
  BY <1>0, <1>2, <1>3 DEF Ending, Serving
<1>5. FramesKept'
  <2>1. plSock \in Seq(Window) /\ \A w \in Window : ~ Closing(w)
    BY <1>2 DEF Closing, TypeInv, TypeOK, SMTypeOK
  <2>2. SUFFICES ASSUME NEW i \in DOMAIN plSock, HasFrame(i)
                 PROVE  Contains(ring', frame[plSock[i]]) \/ Closing(plSock[i])'
    BY <1>0 DEF FramesKept, HasFrame
  <2>3. Contains(ring, frame[plSock[i]])
    BY <2>1, <2>2 DEF CalmInv, FramesKept
  <2>4. CASE frame[plSock[i]] = f
    <3>1. Len(lispToSM') = 2 /\ lispToSM'[1] = CloseClient /\ lispToSM'[2] = f
      BY <1>3
    <3>2. frame'[plSock[i]] = f
      BY <1>0, <2>4
    <3> QED
      BY <1>0, <3>1, <3>2 DEF Closing
  <2>5. CASE frame[plSock[i]] # f
    BY <1>0, <1>2, <2>3, <2>5, CloseKeepsOthers DEF AtFrame
  <2> QED
    BY <2>4, <2>5
<1>6. EvaluatedHere'
  BY <1>0, EvaluatesNothing DEF CalmInv
<1> QED
  BY <1>0, <1>2, <1>4, <1>5, <1>6, LispFrameRule DEF Phase

(* The last user is asked whether to leave. *)
LEMMA AskKeepsCalm ==
  ASSUME TypeInv, ListInv, CalmFrames, CalmInv, AskWhetherLast, UNCHANGED smVars, UNCHANGED peerVars
  PROVE  CalmInv'
<1>0. /\ UNCHANGED <<smPc, plSock, frame, active_session, reading_output, pending, toSM>>
      /\ UNCHANGED <<line, needToSignal, currentFrameNum, ring, evaluated, lispToSM,
                     menuToLisp, pty>>
      /\ lispPc = "query" /\ smToLisp # <<>> /\ smToLisp' = Tail(smToLisp) /\ lispPc' = "ask"
  BY DEF smVars, peerVars, AskWhetherLast
<1>1. Querying
  BY <1>0 DEF CalmInv, Phase, Idle, Creating, Ending, Reading, Evaluating, Asking, LispFree
<1>2. smToLisp' = <<>> /\ lispToSM = <<>> /\ pending = <<>>
  BY <1>0, <1>1, OneElem DEF Querying, Working, Serving
<1>3. Asking'
  BY <1>0, <1>1, <1>2 DEF Querying, Asking, Working, Serving, AtFrame
<1>4. FramesKept' /\ EvaluatedHere'
  BY <1>0, QuietKeepsFrames, EvaluatesNothing DEF CalmInv
<1> QED
  BY <1>0, <1>2, <1>3, <1>4, LispFrameRule DEF Phase

(* The answer can only come from the user who was asked. *)
LEMMA AnswerReadKeepsCalm ==
  ASSUME TypeInv, ListInv, CalmFrames, CalmInv, ReadAnswer, UNCHANGED smVars, UNCHANGED peerVars
  PROVE  CalmInv'
<1>0. /\ UNCHANGED <<smPc, plSock, frame, active_session, reading_output, pending, toSM>>
      /\ UNCHANGED <<needToSignal, currentFrameNum, ring, smToLisp, lispToSM, menuToLisp>>
      /\ lispPc = "ask" /\ pty # <<>> /\ pty' = Tail(pty) /\ line' = NoLine
      /\ evaluated' = evaluated \cup {<<Head(pty).from, Head(ring)>>}
      /\ lispPc' = "quit" \/ lispPc' = "top"
  BY DEF smVars, peerVars, ReadAnswer
<1>1. Asking
  BY <1>0 DEF CalmInv, Phase, Idle, Creating, Ending, Reading, Evaluating, Querying, LispFree
<1>2. PICK l \in Line : pty = <<l>> /\ l.from = active_session /\ toSM[active_session] = <<>>
  BY <1>0, <1>1 DEF Asking
<1>3. /\ active_session \in Window /\ active_session # NoSock /\ pending = <<>>
      /\ smPc = "run" /\ AtFrame(frame[active_session])
  BY <1>1, <1>2, WindowAssumption DEF Asking, Working, Serving, Line
<1>4. active_session \in ToSet(plSock)
  BY <1>3, ActiveFrame
<1>5. Head(pty) = l /\ pty' = <<>>
  BY <1>0, <1>2, OneElem
<1>6. EvaluatedHere'
  <2>1. Head(ring) = frame[active_session]
    BY <1>3 DEF AtFrame
  <2>2. evaluated' = evaluated \cup {<<active_session, Head(ring)>>}
    BY <1>0, <1>2, <1>5
  <2> QED
    BY <1>3, <1>4, <2>1, <2>2, EvaluatesHere DEF CalmInv
<1>7. FramesKept'
  BY <1>0, QuietKeepsFrames DEF CalmInv
<1>8. lispPc' = "top" => Ending'
  BY <1>0, <1>1, <1>2, <1>5 DEF Asking, Working, Serving, Ending, AtFrame
<1>9. Phase'
  BY <1>0, <1>8 DEF Phase
<1> QED
  BY <1>0, <1>3, <1>6, <1>7, <1>9, LispFrameRule

LEMMA LispKeepsCalm ==
  ASSUME TypeInv, ListInv, CalmFrames, CalmInv, LispNext, UNCHANGED smVars, UNCHANGED peerVars
  PROVE  CalmInv'
<1>1. ~ ServeMenu
  BY DEF ServeMenu, CalmInv, NoMenu
<1>2. ~ ServeUnknown
  <2>1. SUFFICES ASSUME lispPc = "switch", smToLisp # <<>>,
                        Head(smToLisp) \notin {CreateFrame, SwitchFrames, CallInterp}
                 PROVE  FALSE
    BY DEF ServeUnknown
  <2>2. Creating \/ Reading
    BY <2>1 DEF CalmInv, Phase, Idle, Ending, Evaluating, Querying, Asking
  <2> QED
    BY <2>1, <2>2, OneElem, TwoElems DEF Creating, Reading
<1> QED
  BY <1>1, <1>2, SignalKeepsCalm, CreateKeepsCalm, SwitchKeepsCalm, ReadLineKeepsCalm,
     EvaluateKeepsCalm, QueryKeepsCalm, CloseFrameKeepsCalm, AskKeepsCalm, AnswerReadKeepsCalm
  DEF LispNext

-----------------------------------------------------------------------------
(* The listen queue is served before the windows and before Lisp. *)
LEMMA NobodyQueues ==
  ASSUME TypeInv, ListInv, CalmInv, NEW fd \in Window \cup {"lisp"}, AtTurn(fd)
  PROVE  pending = <<>>
<1> SUFFICES ASSUME pending # <<>>
             PROVE  FALSE
  OBVIOUS
<1>1. fd \in todo /\ "listen" \in todo
  BY DEF AtTurn, CalmInv, OneConnects
<1>2. CASE fd = "lisp"
  BY <1>1, <1>2, LispIsLast
<1>3. CASE fd \in Window
  <2>1. plSock \in Seq(Window) /\ fd \in ToSet(plSock)
    BY <1>1, <1>3 DEF ListInv, TodoListed, TypeInv, TypeOK, SMTypeOK
  <2>2. Position(plSock, fd) \in 1 .. Len(plSock)
    BY <2>1, PositionIs DEF ToSet
  <2>3. Rank(fd) = 3 + Position(plSock, fd) /\ Rank("listen") = 3
    BY <1>3, WindowAssumption DEF Rank
  <2>4. Rank(fd) <= Rank("listen")
    BY <1>1 DEF AtTurn
  <2> QED
    BY <2>1, <2>2, <2>3, <2>4
<1> QED
  BY <1>2, <1>3

(* A window of the list is up, and those of the snapshot have sent a line. *)
LEMMA ListedUp ==
  ASSUME TypeInv, ListInv, CalmInv
  PROVE  /\ \A w \in ToSet(plSock) : w \in Window /\ win[w] = "up"
         /\ \A w \in todo \cap Window : w \in ToSet(plSock) /\ toSM[w] # <<>>
         /\ session_socket_mask = ToSet(plSock)
<1>1. plSock \in Seq(Window)
  BY DEF TypeInv, TypeOK, SMTypeOK
<1>2. \A w \in ToSet(plSock) : w \in Window
  BY <1>1 DEF ToSet
<1> QED
  BY <1>2 DEF CalmInv, WindowsUp, NoMenu, ListInv, MaskIsExact, TodoListed

(* The steps that only take something from the snapshot. *)
LEMMA ServingKeepsCalm ==
  ASSUME TypeInv, CalmInv, UNCHANGED lispVars, UNCHANGED peerVars,
         UNCHANGED <<smPc, plSock, frame, active_session, reading_output, menu_client, session_socket_mask, openFd,
                     smToLisp, lispToSM, menuToLisp, pty>>,
         \A w \in todo' \cap Window : toSM[w] # <<>>,
         pending # <<>> => todo' = {} \/ "listen" \in todo'
  PROVE  CalmInv'
<1>1. UNCHANGED <<lispPc, line, needToSignal, currentFrameNum, ring, evaluated>>
      /\ UNCHANGED <<win, menu, pending, toSM, menuToSM>>
  BY DEF lispVars, peerVars
<1>2. NoMenu' /\ WindowsUp' /\ smPc' \in {"run", "answer"}
  BY <1>1 DEF CalmInv, NoMenu, WindowsUp
<1>3. FramesKept' /\ EvaluatedHere'
  BY <1>1 DEF CalmInv, FramesKept, HasFrame, Closing, EvaluatedHere, EvalInOwnFrame
<1>4. Idle' <=> Idle
  BY <1>1 DEF Idle, LispFree, AtFrame
<1>5. Creating' <=> Creating
  BY <1>1 DEF Creating, LispFree, AtFrame
<1>6. (Reading' <=> Reading) /\ (Ending' <=> Ending)
  BY <1>1 DEF Reading, Ending, Serving, LispFree, AtFrame
<1>7. (Evaluating' <=> Evaluating) /\ (Querying' <=> Querying) /\ (Asking' <=> Asking)
  BY <1>1 DEF Evaluating, Querying, Asking, Working, Serving, AtFrame
<1>8. Phase'
  BY <1>1, <1>4, <1>5, <1>6, <1>7 DEF CalmInv, Phase
<1>9. OneConnects'
  BY <1>1, <1>4 DEF CalmInv, OneConnects
<1> QED
  BY <1>2, <1>3, <1>8, <1>9 DEF CalmInv

LEMMA SelectKeepsCalm ==
  ASSUME TypeInv, ListInv, CalmInv, Select, UNCHANGED lispVars
  PROVE  CalmInv'
<1>1. /\ UNCHANGED <<smPc, plSock, frame, active_session, reading_output, menu_client, session_socket_mask, openFd>>
      /\ UNCHANGED <<smToLisp, lispToSM, menuToLisp, pty>> /\ UNCHANGED peerVars
      /\ todo' = Ready
  BY DEF Select, linkVars
<1>2. \A w \in Ready \cap Window : toSM[w] # <<>>
  <2> SUFFICES ASSUME NEW w \in Ready, w \in Window
               PROVE  toSM[w] # <<>>
    OBVIOUS
  <2>1. w \in ToSet(plSock) /\ Readable(w) /\ w \notin {"menu", "io", "listen", "lisp"}
    BY ListedUp, WindowAssumption DEF Ready
  <2>2. win[w] = "up"
    BY <2>1, ListedUp
  <2> QED
    BY <2>1, <2>2 DEF Readable
<1>3. pending # <<>> => "listen" \in Ready
  BY DEF Ready, Readable
<1> QED
  BY <1>1, <1>2, <1>3, ServingKeepsCalm

LEMMA OutputKeepsCalm ==
  ASSUME TypeInv, ListInv, CalmFrames, CalmInv, ReadFromSpadIo, UNCHANGED lispVars
  PROVE  CalmInv'
<1>1. /\ UNCHANGED <<smPc, plSock, frame, active_session, reading_output, menu_client,
                     session_socket_mask>>
      /\ UNCHANGED <<smToLisp, lispToSM, menuToLisp, pty>> /\ UNCHANGED peerVars
      /\ todo' = todo \ {"io"} /\ smPc = "run" /\ "io" \in todo
  BY DEF ReadFromSpadIo, Served, AtTurn
<1>2. openFd' = openFd
  <2>1. active_session # NoSock => win[active_session] = "up"
    BY <1>1, ActiveFrame, ListedUp
  <2> QED
    BY <2>1 DEF ReadFromSpadIo
<1>3. \A w \in todo' \cap Window : toSM[w] # <<>>
  BY <1>1, ListedUp
<1>4. pending # <<>> => "listen" \in todo'
  BY <1>1 DEF CalmInv, OneConnects
<1> QED
  BY <1>1, <1>2, <1>3, <1>4, ServingKeepsCalm

LEMMA SkipKeepsCalm ==
  ASSUME TypeInv, ListInv, CalmInv, NEW w \in Window, SkipSession(w), UNCHANGED lispVars
  PROVE  CalmInv'
<1>1. /\ UNCHANGED <<smPc, plSock, frame, active_session, reading_output, menu_client, session_socket_mask, openFd>>
      /\ UNCHANGED <<smToLisp, lispToSM, menuToLisp, pty>> /\ UNCHANGED peerVars
      /\ todo' = todo \ {w}
  BY DEF SkipSession, Served, linkVars
<1>2. \A v \in todo' \cap Window : toSM[v] # <<>>
  BY <1>1, ListedUp
<1>3. pending = <<>>
  BY NobodyQueues DEF SkipSession
<1> QED
  BY <1>1, <1>2, <1>3, ServingKeepsCalm

(* A new window is accepted while nothing is going on. *)
LEMMA AcceptKeepsCalm ==
  ASSUME TypeInv, ListInv, CalmInv, AcceptInterpWindow, UNCHANGED lispVars
  PROVE  CalmInv'
<1> DEFINE w == Head(pending)
<1>0. /\ w \in Window /\ pending' = Tail(pending) /\ win' = [win EXCEPT ![w] = "up"]
      /\ plSock' = <<w>> \o plSock /\ openFd' = openFd \cup {w}
      /\ smToLisp' = Append(smToLisp, CreateFrame) /\ smPc' = "answer"
      /\ \E freed \in FreedFds :
            /\ session_socket_mask' = (session_socket_mask \ freed) \cup {w}
            /\ todo' = (todo \ {"listen"}) \cup (IF freed \cap todo = {} THEN {} ELSE {w})
      /\ UNCHANGED <<frame, active_session, reading_output, menu_client, menu, toSM, menuToSM,
                     lispToSM, menuToLisp, pty>>
      /\ smPc = "run"
  BY DEF AcceptInterpWindow, Served, AtTurn
<1>1. UNCHANGED <<lispPc, line, needToSignal, currentFrameNum, ring, evaluated>>
  BY DEF lispVars
<1>2. pending \in Seq(Peer) /\ pending # <<>>
  BY DEF AcceptInterpWindow, AtTurn, TypeInv, TypeOK, PeerTypeOK, TodoReadable
<1>3. Idle /\ Len(pending) = 1
  BY <1>2 DEF CalmInv, OneConnects
<1>4. pending' = <<>>
  <2>1. pending' = Tail(pending)
    BY <1>0
  <2> QED
    BY <1>2, <1>3, <2>1
<1>5. smToLisp' = <<CreateFrame>> /\ lispToSM' = <<>>
  BY <1>0, <1>3, OneElem DEF Idle
<1>6. plSock \in Seq(Window) /\ win \in [Window -> PeerState]
  BY DEF TypeInv, TypeOK, SMTypeOK, PeerTypeOK
<1>7. /\ Len(plSock') = Len(plSock) + 1 /\ DOMAIN plSock' = 1 .. Len(plSock) + 1
      /\ \A j \in 1 .. Len(plSock) + 1 : plSock'[j] = IF j = 1 THEN w ELSE plSock[j - 1]
      /\ ToSet(plSock') = {w} \cup ToSet(plSock)
  BY <1>0, <1>6, ConsElems
<1>8. win[w] = "connecting"
  BY <1>0, <1>2 DEF ListInv, QueuedOnce
<1> HIDE DEF w
<1>14. todo' \subseteq todo /\ session_socket_mask' = session_socket_mask \cup {w}
  <2>1. \A freed \in FreedFds : freed = {}
    BY DEF CalmInv, WindowsUp, FreedFds
  <2> QED
    BY <1>0, <2>1
<1>9. NoMenu' /\ smPc' \in {"run", "answer"} /\ OneConnects'
  BY <1>0, <1>4 DEF CalmInv, NoMenu, OneConnects
<1>10. WindowsUp'
  <2>1. \A v \in Window : win'[v] = "up" <=> v \in ToSet(plSock')
    BY <1>0, <1>6, <1>7 DEF CalmInv, WindowsUp
  <2> QED
    BY <1>0, <1>7, <1>14, <2>1 DEF CalmInv, WindowsUp
<1>11. FramesKept'
  <2> SUFFICES ASSUME NEW i \in DOMAIN plSock', HasFrame(i)'
               PROVE  Contains(ring', frame'[plSock'[i]])
    BY DEF FramesKept, Contains
  <2>1. i # 1 /\ i - 1 \in DOMAIN plSock /\ plSock'[i] = plSock[i - 1]
    BY <1>0, <1>6, <1>7 DEF HasFrame
  <2>2. HasFrame(i - 1) /\ ~ Closing(plSock[i - 1])
    BY <1>0, <1>3, <2>1 DEF HasFrame, Idle, Closing
  <2> QED
    BY <1>0, <1>1, <2>1, <2>2 DEF CalmInv, FramesKept
<1>12. EvaluatedHere'
  <2>1. \A e \in evaluated : e[1] # w /\ e[1] \in Window
    BY <1>8 DEF CalmInv, EvaluatedHere, TypeInv, TypeOK, LispTypeOK
  <2>2. Head(plSock') = w
    BY <1>0, <1>6, <1>7
  <2> QED
    BY <1>0, <1>1, <1>6, <2>1, <2>2 DEF CalmInv, EvaluatedHere, EvalInOwnFrame
<1>13. Creating'
  BY <1>0, <1>1, <1>3, <1>4, <1>5 DEF Idle, Creating, LispFree
<1> QED
  BY <1>9, <1>10, <1>11, <1>12, <1>13 DEF CalmInv, Phase

(* The window gets the frame that was made for it. *)
LEMMA FrameKeepsCalm ==
  ASSUME TypeInv, ListInv, CalmInv, lispPc # "quit", ReadCreateFrameAnswer, UNCHANGED lispVars
  PROVE  CalmInv'
<1> DEFINE w == Head(plSock)
<1>0. /\ smPc = "answer" /\ Len(lispToSM) >= 2 /\ smPc' = "run"
      /\ frame' = [frame EXCEPT ![w] = lispToSM[2]]
      /\ lispToSM' = SubSeq(lispToSM, 3, Len(lispToSM))
      /\ active_session' = w
      /\ UNCHANGED <<todo, plSock, reading_output, menu_client, session_socket_mask, openFd, win, menu, pending,
                     toSM, menuToSM, smToLisp, menuToLisp, pty>>
  BY DEF ReadCreateFrameAnswer, peerVars
<1>1. UNCHANGED <<lispPc, line, needToSignal, currentFrameNum, ring, evaluated>>
  BY DEF lispVars
<1>2. Creating
  BY <1>0 DEF CalmInv, Phase, Idle, Reading, Evaluating, Querying, Asking, Ending, Working, Serving
<1>3. smToLisp = <<>> /\ lispToSM = <<CreateFrameAnswer, Head(ring)>> /\ AtFrame(Head(ring))
  BY <1>0, <1>2 DEF Creating
<1>4. lispToSM' = <<>> /\ frame' = [frame EXCEPT ![w] = Head(ring)]
  BY <1>0, <1>3, TwoElems
<1>5. /\ plSock \in Seq(Window) /\ plSock # <<>> /\ w \in Window /\ w = plSock[1]
      /\ 1 \in DOMAIN plSock /\ frame \in [Window -> Int] /\ ring \in Seq(Frame) /\ ring # <<>>
  BY <1>0, TailType, TailElems DEF TypeInv, TypeOK, SMTypeOK, LispTypeOK, AnswerHasWindow
<1> HIDE DEF w
<1>6. NoMenu' /\ WindowsUp' /\ smPc' \in {"run", "answer"}
  BY <1>0 DEF CalmInv, NoMenu, WindowsUp
<1>7. OneConnects'
  BY <1>0, <1>2 DEF Creating, OneConnects
<1>8. FramesKept'
  <2> SUFFICES ASSUME NEW i \in DOMAIN plSock
               PROVE  Contains(ring, frame'[plSock[i]])
    BY <1>0, <1>1 DEF FramesKept
  <2>1. CASE i = 1
    <3>1. frame'[plSock[i]] = ring[1] /\ 1 \in 1 .. Len(ring)
      BY <1>4, <1>5, <2>1
    <3> QED
      BY <3>1 DEF Contains
  <2>2. CASE i # 1
    <3>1. HasFrame(i)
      BY <2>2 DEF HasFrame
    <3>2. plSock[i] # w /\ plSock[i] \in Window
      BY <1>5, <2>2 DEF ListInv, ListedOnce
    <3>3. lispToSM[1] # CloseClient /\ Len(lispToSM) = 2
      BY <1>3, TwoElems DEF CreateFrameAnswer, CloseClient
    <3>4. ~ Closing(plSock[i])
      BY <3>3 DEF Closing
    <3>5. frame'[plSock[i]] = frame[plSock[i]]
      BY <1>4, <1>5, <3>2
    <3> QED
      BY <3>1, <3>4, <3>5 DEF CalmInv, FramesKept
  <2> QED
    BY <2>1, <2>2
<1>9. EvaluatedHere'
  <2>1. \A e \in evaluated : e[1] # w /\ e[1] \in Window
    BY <1>0 DEF CalmInv, EvaluatedHere, TypeInv, TypeOK, LispTypeOK, w
  <2>2. \A e \in evaluated : frame'[e[1]] = frame[e[1]]
    BY <1>4, <1>5, <2>1
  <2> QED
    BY <1>0, <1>1, <2>2 DEF CalmInv, EvaluatedHere, EvalInOwnFrame
<1>10. Idle'
  <2>1. frame'[w] = Head(ring)
    BY <1>4, <1>5
  <2>2. AtFrame(frame[active_session])'
    BY <1>0, <1>1, <1>3, <2>1 DEF AtFrame
  <2> QED
    BY <1>0, <1>1, <1>2, <1>3, <1>4, <2>2 DEF Creating, Idle, LispFree
<1> QED
  BY <1>6, <1>7, <1>8, <1>9, <1>10 DEF CalmInv, Phase

(* A line is passed on: the first of its turn, or the answer that is       *)
(* awaited from its window.                                                *)
LEMMA LineKeepsCalm ==
  ASSUME TypeInv, ListInv, CalmFrames, CalmInv, lispPc # "quit", NEW w \in Window,
         ReadFromSession(w), UNCHANGED lispVars
  PROVE  CalmInv'
<1>0. /\ AtTurn(w) /\ smPc = "run" /\ w \in todo /\ toSM[w] # <<>>
      /\ active_session = w \/ ~ reading_output
      /\ toSM' = [toSM EXCEPT ![w] = Tail(@)]
      /\ smToLisp' = IF w # active_session THEN smToLisp \o <<SwitchFrames, frame[w]>> ELSE smToLisp
      /\ pty' = Append(pty, Head(toSM[w]))
      /\ active_session' = w /\ reading_output' = TRUE /\ todo' = todo \ {w}
      /\ UNCHANGED <<smPc, plSock, frame, menu_client, session_socket_mask, openFd, win, menu, pending, menuToSM,
                     lispToSM, menuToLisp>>
  BY DEF ReadFromSession, AtTurn, MayRead, SwitchTo, Served
<1>1. UNCHANGED <<lispPc, line, needToSignal, currentFrameNum, ring, evaluated>>
  BY DEF lispVars
<1>2. pending = <<>>
  BY <1>0, NobodyQueues
<1>3. PICK l \in Line : toSM[w] = <<l>> /\ l.from = w
  BY <1>0 DEF CalmInv, WindowsUp
<1>4. toSM \in [Window -> Seq(Line)] /\ w \in ToSet(plSock) /\ w # NoSock
  BY <1>0, ListedUp, WindowAssumption DEF TypeInv, TypeOK, PeerTypeOK
<1>5. /\ \A v \in Window : toSM'[v] = IF v = w THEN <<>> ELSE toSM[v]
      /\ pty = <<>> => pty' = <<l>>
  BY <1>0, <1>3, <1>4, OneElem
<1>6. NoMenu' /\ OneConnects' /\ smPc' \in {"run", "answer"}
  BY <1>0, <1>2 DEF CalmInv, NoMenu, OneConnects
<1>7. WindowsUp'
  <2>1. \A v \in Window : toSM'[v] = <<>> \/ \E m \in Line : toSM'[v] = <<m>> /\ m.from = v
    BY <1>5 DEF CalmInv, WindowsUp
  <2>2. \A v \in todo' \cap Window : toSM'[v] # <<>>
    BY <1>0, <1>5 DEF CalmInv, WindowsUp
  <2> QED
    BY <1>0, <2>1, <2>2 DEF CalmInv, WindowsUp
<1>8. FramesKept' /\ EvaluatedHere'
  BY <1>0, <1>1 DEF CalmInv, FramesKept, HasFrame, Closing, EvaluatedHere, EvalInOwnFrame
<1>9. Idle \/ (Asking /\ pty = <<>> /\ active_session = w)
  <2>1. CASE Idle
    BY <2>1
  <2>2. CASE Serving /\ (active_session # NoSock => toSM[active_session] = <<>>)
    BY <1>0, <1>4, <2>2 DEF Serving
  <2>3. CASE Asking
    BY <1>0, <2>3 DEF Asking, Working, Serving
  <2> QED
    BY <1>0, <2>1, <2>2, <2>3
    DEF CalmInv, Phase, Creating, Reading, Evaluating, Querying, Working, Ending
<1>10. CASE Idle
  <2>1. \/ smToLisp' = <<SwitchFrames, frame[w]>>
        \/ smToLisp' = <<>> /\ active_session = w
    BY <1>0, <1>10, TwoElems DEF Idle
  <2>2. pty' = <<l>> /\ lispToSM' = <<>> /\ toSM'[w] = <<>> /\ Serving'
    BY <1>0, <1>2, <1>5, <1>10 DEF Idle, Serving
  <2>3. LispFree'
    BY <1>1, <1>10 DEF Idle, LispFree
  <2>4. smToLisp' = <<>> => AtFrame(frame[w])'
    BY <1>0, <1>1, <1>4, <1>10, <2>1, TwoElems DEF Idle, AtFrame
  <2>5. Reading'
    BY <1>0, <1>3, <2>1, <2>2, <2>3, <2>4 DEF Reading
  <2> QED
    BY <1>6, <1>7, <1>8, <2>5 DEF CalmInv, Phase
<1>11. CASE Asking /\ pty = <<>> /\ active_session = w
  <2>1. smToLisp' = <<>> /\ lispToSM' = <<>> /\ pty' = <<l>> /\ toSM'[w] = <<>>
    BY <1>0, <1>5, <1>11 DEF Asking
  <2>2. Asking'
    BY <1>0, <1>1, <1>3, <1>11, <2>1 DEF Asking, Working, Serving, AtFrame
  <2> QED
    BY <1>6, <1>7, <1>8, <2>2 DEF CalmInv, Phase
<1> QED
  BY <1>9, <1>10, <1>11

(* The snapshot is empty when a command of Lisp has been read. *)
LEMMA AfterCommand ==
  ASSUME TypeInv, ListInv, CalmInv, HasSpadCommand, Served("lisp")
  PROVE  todo' = {} /\ pending = <<>> /\ smPc = "run" /\ lispToSM # <<>>
<1>1. AtTurn("lisp") /\ smPc = "run" /\ lispToSM # <<>>
  BY DEF HasSpadCommand, AtTurn
<1> QED
  BY <1>1, LispIsLast, NobodyQueues DEF Served

LEMMA EndKeepsCalm ==
  ASSUME TypeInv, ListInv, CalmInv, lispPc # "quit", ReadEndOfOutput, UNCHANGED lispVars
  PROVE  CalmInv'
<1>0. /\ Head(lispToSM) = EndOfOutput /\ lispToSM' = Tail(lispToSM) /\ reading_output' = FALSE
      /\ UNCHANGED <<smPc, plSock, frame, active_session, menu_client, session_socket_mask,
                     win, menu, pending, toSM, menuToSM, smToLisp, menuToLisp, pty>>
  BY DEF ReadEndOfOutput, peerVars
<1>1. UNCHANGED <<lispPc, line, needToSignal, currentFrameNum, ring, evaluated>>
  BY DEF lispVars
<1>2. todo' = {} /\ pending = <<>> /\ smPc = "run" /\ lispToSM # <<>>
  BY AfterCommand DEF ReadEndOfOutput
<1>3. openFd' = openFd
  BY DEF ReadEndOfOutput, CalmInv, NoMenu
<1>4. Ending /\ lispPc = "switch" /\ lispToSM = <<EndOfOutput>>
  <2>1. CASE Querying
    BY <1>0, <1>2, <2>1, OneElem DEF Querying, QueryClients, EndOfOutput
  <2>2. CASE Ending
    <3>1. lispToSM # <<CloseClient, frame[active_session]>>
      BY <1>0, TwoElems DEF CloseClient, EndOfOutput
    <3>2. lispToSM # <<CloseClient, frame[active_session], EndOfOutput>>
      <4>1. Head(<<CloseClient, frame[active_session], EndOfOutput>>) = CloseClient
        OBVIOUS
      <4> QED
        BY <1>0, <4>1 DEF CloseClient, EndOfOutput
    <3> QED
      BY <1>2, <2>2, <3>1, <3>2 DEF Ending
  <2> QED
    BY <1>2, <2>1, <2>2 DEF CalmInv, Phase, Idle, Creating, Reading, Evaluating, Asking
<1>5. lispToSM' = <<>>
  BY <1>0, <1>4, OneElem
<1>6. Idle'
  <2>1. /\ active_session # NoSock => AtFrame(frame[active_session])
        /\ line = NoLine /\ pty = <<>> /\ smToLisp = <<>> /\ ~ needToSignal
    BY <1>4, ThreeElems, TwoElems, OneElem DEF Ending
  <2> QED
    BY <1>0, <1>1, <1>2, <1>4, <1>5, <2>1 DEF Idle, LispFree, AtFrame
<1>7. NoMenu' /\ WindowsUp' /\ OneConnects' /\ smPc' \in {"run", "answer"}
  BY <1>0, <1>2, <1>3 DEF CalmInv, NoMenu, WindowsUp, OneConnects
<1>8. FramesKept'
  <2>1. \A v \in Window : ~ Closing(v)
    BY <1>4, OneElem DEF Closing
  <2>2. \A i \in DOMAIN plSock : plSock[i] \in Window
    BY DEF TypeInv, TypeOK, SMTypeOK
  <2> QED
    BY <1>0, <1>1, <2>1, <2>2 DEF CalmInv, FramesKept, HasFrame
<1>9. EvaluatedHere'
  BY <1>0, <1>1 DEF CalmInv, EvaluatedHere, EvalInOwnFrame
<1> QED
  BY <1>6, <1>7, <1>8, <1>9 DEF CalmInv, Phase

LEMMA CountKeepsCalm ==
  ASSUME TypeInv, ListInv, CalmInv, lispPc # "quit", ReadQueryClients, UNCHANGED lispVars
  PROVE  CalmInv'
<1>0. /\ Head(lispToSM) = QueryClients /\ lispToSM' = Tail(lispToSM)
      /\ smToLisp' = Append(smToLisp, num_active_clients)
      /\ UNCHANGED <<smPc, plSock, frame, active_session, reading_output, menu_client, session_socket_mask, openFd,
                     win, menu, pending, toSM, menuToSM, menuToLisp, pty>>
  BY DEF ReadQueryClients, NumClients, peerVars
<1>1. UNCHANGED <<lispPc, line, needToSignal, currentFrameNum, ring, evaluated>>
  BY DEF lispVars
<1>2. todo' = {} /\ pending = <<>> /\ smPc = "run" /\ lispToSM # <<>>
  BY AfterCommand DEF ReadQueryClients
<1>3. num_active_clients = Len(plSock)
  BY <1>2 DEF ListInv, CountMatchesList
<1>4. Querying /\ lispToSM = <<QueryClients>> /\ smToLisp = <<>>
  <2>1. CASE Ending
    <3>1. lispToSM # <<CloseClient, frame[active_session]>> /\ lispToSM # <<EndOfOutput>>
      BY <1>0, OneElem, TwoElems DEF CloseClient, EndOfOutput, QueryClients
    <3>2. lispToSM # <<CloseClient, frame[active_session], EndOfOutput>>
      <4>1. Head(<<CloseClient, frame[active_session], EndOfOutput>>) = CloseClient
        OBVIOUS
      <4> QED
        BY <1>0, <4>1 DEF CloseClient, QueryClients
    <3> QED
      BY <1>2, <2>1, <3>1, <3>2 DEF Ending
  <2>2. CASE Querying
    BY <1>2, <2>2 DEF Querying
  <2> QED
    BY <1>2, <2>1, <2>2 DEF CalmInv, Phase, Idle, Creating, Reading, Evaluating, Asking
<1>5. lispToSM' = <<>> /\ smToLisp' = <<Len(plSock)>>
  BY <1>0, <1>3, <1>4, OneElem
<1>6. Querying'
  BY <1>0, <1>1, <1>4, <1>5 DEF Querying, Working, Serving, AtFrame
<1>7. NoMenu' /\ WindowsUp' /\ OneConnects' /\ smPc' \in {"run", "answer"}
  BY <1>0, <1>2 DEF CalmInv, NoMenu, WindowsUp, OneConnects
<1>8. FramesKept'
  <2>1. \A v \in Window : ~ Closing(v)
    BY <1>4, OneElem DEF Closing
  <2>2. \A i \in DOMAIN plSock : plSock[i] \in Window
    BY DEF TypeInv, TypeOK, SMTypeOK
  <2> QED
    BY <1>0, <1>1, <2>1, <2>2 DEF CalmInv, FramesKept, HasFrame
<1>9. EvaluatedHere'
  BY <1>0, <1>1 DEF CalmInv, EvaluatedHere, EvalInOwnFrame
<1> QED
  BY <1>6, <1>7, <1>8, <1>9 DEF CalmInv, Phase

(* The window whose line was ")close" leaves the list, and no other. *)
LEMMA CloseKeepsCalm ==
  ASSUME TypeInv, ListInv, CalmFrames, CalmInv, lispPc # "quit", ReadCloseClient, UNCHANGED lispVars
  PROVE  CalmInv'
<1> DEFINE a == active_session
<1>0. /\ Head(lispToSM) = CloseClient /\ lispToSM' = SubSeq(lispToSM, 3, Len(lispToSM))
      /\ UNCHANGED <<smPc, frame, reading_output, menu_client, menu, pending, toSM, menuToSM,
                     smToLisp, menuToLisp, pty>>
  BY DEF ReadCloseClient
<1>1. UNCHANGED <<lispPc, line, needToSignal, currentFrameNum, ring, evaluated>>
  BY DEF lispVars
<1>2. todo' = {} /\ pending = <<>> /\ smPc = "run" /\ lispToSM # <<>>
  BY AfterCommand DEF ReadCloseClient
<1>3. Ending /\ a # NoSock
      /\ \/ lispPc = "top" /\ lispToSM = <<CloseClient, frame[a]>>
         \/ lispPc = "switch" /\ lispToSM = <<CloseClient, frame[a], EndOfOutput>>
  <2>1. CASE Querying
    BY <1>0, <1>2, <2>1, OneElem DEF Querying, QueryClients, CloseClient
  <2>2. CASE Ending
    <3>1. lispToSM # <<EndOfOutput>>
      BY <1>0, OneElem DEF CloseClient, EndOfOutput
    <3> QED
      BY <1>2, <2>2, <3>1 DEF Ending
  <2> QED
    BY <1>2, <2>1, <2>2 DEF CalmInv, Phase, Idle, Creating, Reading, Evaluating, Asking
<1>4. /\ a \in Window /\ a \in ToSet(plSock) /\ frame[a] \in Int
      /\ \A w \in ToSet(plSock) : frame[w] = frame[a] => w = a
  BY <1>2, <1>3, ActiveFrame
<1>5. /\ lispToSM[2] = frame[a] /\ Len(lispToSM) \in {2, 3}
      /\ lispToSM' = IF lispPc = "top" THEN <<>> ELSE <<EndOfOutput>>
  <2>1. CloseClient \in Int /\ EndOfOutput \in Int
    BY DEF CloseClient, EndOfOutput
  <2>2. CASE lispPc = "top" /\ lispToSM = <<CloseClient, frame[a]>>
    BY <1>0, <2>2, TwoElems
  <2>3. CASE lispPc = "switch" /\ lispToSM = <<CloseClient, frame[a], EndOfOutput>>
    <3>0. frame[a] \in Int
      BY <1>4
    <3>1. /\ SubSeq(lispToSM, 3, Len(lispToSM)) = <<EndOfOutput>>
          /\ lispToSM[2] = frame[a] /\ Len(lispToSM) = 3
      BY <3>0, <2>1, <2>3, ThreeElems
    <3> QED
      BY <1>0, <2>3, <3>1
  <2> QED
    BY <1>3, <2>2, <2>3
<1>6. \A v \in ToSet(plSock) : v # a => ~ Closing(v)
  BY <1>4, <1>5 DEF Closing
<1>7. plSock \in Seq(Window) /\ win \in [Window -> PeerState]
  BY DEF TypeInv, TypeOK, SMTypeOK, PeerTypeOK
<1>8. PICK i \in DOMAIN plSock : frame[plSock[i]] = frame[a] /\ CloseClientAt(i)
  BY <1>5 DEF ReadCloseClient
<1>9. plSock[i] = a
  BY <1>4, <1>8 DEF ToSet
<1>10. /\ win' = [win EXCEPT ![a] = "dead"] /\ plSock' = RemoveAt(plSock, i)
       /\ active_session' = NoSock /\ openFd' = openFd
       /\ session_socket_mask' \subseteq session_socket_mask
  BY <1>8, <1>9 DEF CloseClientAt, ClearActive, ClearMask, CalmInv, NoMenu
<1>11. plSock' \in Seq(Window) /\ ToSet(plSock') = ToSet(plSock) \ {a}
  BY <1>7, <1>9, <1>10, RemoveAtElems, RemoveAtOnce DEF ListInv, ListedOnce
<1> HIDE DEF a
<1>12. NoMenu' /\ OneConnects' /\ smPc' \in {"run", "answer"}
  BY <1>0, <1>2 DEF CalmInv, NoMenu, OneConnects
<1>13. WindowsUp'
  <2>1. \A w \in Window : win'[w] = IF w = a THEN "dead" ELSE win[w]
    BY <1>7, <1>10
  <2>2. \A w \in Window : win'[w] = "up" <=> w \in ToSet(plSock')
    BY <1>11, <2>1 DEF CalmInv, WindowsUp
  <2> QED
    BY <1>0, <1>2, <1>10, <1>11, <2>2 DEF CalmInv, WindowsUp
<1>14. FramesKept'
  <2> SUFFICES ASSUME NEW j \in DOMAIN plSock'
               PROVE  Contains(ring', frame'[plSock'[j]])
    BY DEF FramesKept, Contains
  <2>1. plSock'[j] \in ToSet(plSock) /\ plSock'[j] # a
    BY <1>11 DEF ToSet
  <2>2. PICK k \in DOMAIN plSock : plSock[k] = plSock'[j]
    BY <2>1 DEF ToSet
  <2>3. HasFrame(k) /\ ~ Closing(plSock[k])
    BY <1>2, <1>6, <2>1, <2>2 DEF HasFrame
  <2> QED
    BY <1>0, <1>1, <2>2, <2>3 DEF CalmInv, FramesKept
<1>15. EvaluatedHere'
  <2>1. \A e \in evaluated : e[1] \in Window
    BY DEF TypeInv, TypeOK, LispTypeOK
  <2>2. \A e \in evaluated : win'[e[1]] \in {"up", "dead"}
    BY <1>7, <1>10, <2>1 DEF CalmInv, EvaluatedHere
  <2> QED
    BY <1>0, <1>1, <1>2, <2>2 DEF CalmInv, EvaluatedHere, EvalInOwnFrame
<1>16. Ending'
  BY <1>0, <1>1, <1>2, <1>3, <1>5, <1>10, TwoElems, ThreeElems, OneElem DEF Ending, Serving
<1> QED
  BY <1>12, <1>13, <1>14, <1>15, <1>16 DEF CalmInv, Phase

(* Every step of the session manager; those that belong to HyperDoc, to    *)
(* dead windows and to a lost race are not possible.                       *)
LEMMA ManagerKeepsCalm ==
  ASSUME TypeInv, ListInv, CalmFrames, CalmInv, lispPc # "quit", SMNext, UNCHANGED lispVars
  PROVE  CalmInv'
<1>1. ~ SelectFails
  BY ListedUp DEF SelectFails, CalmInv, WindowsUp
<1>2. ~ ReadMenuSwitchFrames /\ ~ ReadMenuClosed
  BY DEF ReadMenuSwitchFrames, ReadMenuClosed, CalmInv, NoMenu
<1>3. ~ AcceptMenu
  <2> SUFFICES ASSUME AcceptMenu
               PROVE  FALSE
    OBVIOUS
  <2>1. pending \in Seq(Peer) /\ pending # <<>> /\ Head(pending) = "menu"
    BY DEF AcceptMenu, AtTurn, TypeInv, TypeOK, PeerTypeOK, TodoReadable
  <2>2. 1 \in DOMAIN pending /\ pending[1] = "menu"
    BY <2>1
  <2> QED
    BY <2>2 DEF ListInv, QueuedOnce, CalmInv, NoMenu
<1>4. ~ LoseRace
  <2> SUFFICES ASSUME smPc = "answer", lispToSM # <<>>, Head(lispToSM) # CreateFrameAnswer
               PROVE  FALSE
    BY DEF LoseRace, IsAnswer
  <2>1. Creating
    BY DEF CalmInv, Phase, Idle, Reading, Evaluating, Querying, Asking, Ending, Working, Serving
  <2> QED
    BY <2>1, TwoElems DEF Creating
<1>5. ASSUME NEW w \in Window
      PROVE  ~ ReadSessionClosed(w)
  BY ListedUp DEF ReadSessionClosed, AtTurn
<1>6. HasSpadCommand => Head(lispToSM) \in {EndOfOutput, QueryClients, CloseClient}
  <2> SUFFICES ASSUME HasSpadCommand
               PROVE  Head(lispToSM) \in {EndOfOutput, QueryClients, CloseClient}
    OBVIOUS
  <2>1. smPc = "run" /\ lispToSM # <<>>
    BY DEF HasSpadCommand, AtTurn
  <2>2. CASE Querying
    BY <2>1, <2>2, OneElem DEF Querying
  <2>3. CASE Ending
    <3>1. Head(<<CloseClient, frame[active_session], EndOfOutput>>) = CloseClient
      OBVIOUS
    <3> QED
      BY <2>1, <2>3, <3>1, OneElem, TwoElems DEF Ending
  <2> QED
    BY <2>1, <2>2, <2>3 DEF CalmInv, Phase, Idle, Creating, Reading, Evaluating, Asking
<1>7. ~ ReadUnknownCommand
  BY <1>6 DEF ReadUnknownCommand
<1>8. ~ ReadCloseUnknown
  <2> SUFFICES ASSUME ReadCloseUnknown
               PROVE  FALSE
    OBVIOUS
  <2>1. /\ smPc = "run" /\ Head(lispToSM) = CloseClient /\ lispToSM # <<>>
        /\ \A i \in DOMAIN plSock : frame[plSock[i]] # lispToSM[2]
    BY DEF ReadCloseUnknown, HasSpadCommand, AtTurn
  <2>2. ~ Querying
    BY <2>1, OneElem DEF Querying, QueryClients, CloseClient
  <2>3. Ending
    BY <2>1, <2>2 DEF CalmInv, Phase, Idle, Creating, Reading, Evaluating, Asking
  <2>4. lispToSM # <<EndOfOutput>>
    BY <2>1, OneElem DEF CloseClient, EndOfOutput
  <2>5. <<CloseClient, frame[active_session], EndOfOutput>>[2] = frame[active_session]
    OBVIOUS
  <2>6. active_session # NoSock /\ lispToSM[2] = frame[active_session]
    BY <2>1, <2>3, <2>4, <2>5, TwoElems DEF Ending
  <2>7. active_session \in ToSet(plSock)
    BY <2>1, <2>6, ActiveFrame
  <2> QED
    BY <2>1, <2>6, <2>7 DEF ToSet
<1> QED
  BY <1>1, <1>2, <1>3, <1>4, <1>5, <1>7, <1>8, SelectKeepsCalm, OutputKeepsCalm, AcceptKeepsCalm,
     FrameKeepsCalm, LineKeepsCalm, SkipKeepsCalm, EndKeepsCalm, CountKeepsCalm, CloseKeepsCalm
  DEF SMNext

-----------------------------------------------------------------------------
(* The users: a line goes into a window that is not being served, or that  *)
(* has been asked; a window opens when nothing is going on.                *)
LEMMA TypingKeepsCalm ==
  ASSUME TypeInv, CalmInv, lispPc # "quit", env = {},
         NEW w \in Window, NEW k \in Kind, TypeLine(w, k)
  PROVE  CalmInv'
<1> DEFINE l == [from |-> w, kind |-> k]
<1>0. /\ win[w] = "up"
      /\ toSM' = [toSM EXCEPT ![w] = Append(@, l)]
      /\ UNCHANGED <<win, menu, pending, menuToSM>>
  BY DEF TypeLine
<1>1. /\ UNCHANGED <<smToLisp, lispToSM, menuToLisp, pty>>
      /\ UNCHANGED <<lispPc, line, needToSignal, currentFrameNum, ring, evaluated>>
      /\ UNCHANGED <<smPc, todo, plSock, frame, active_session, reading_output, menu_client, session_socket_mask, openFd>>
  BY DEF TypeLine, linkVars, lispVars, smVars
<1>2. ~ Outstanding(w) \/ Asked(w)
  BY DEF TypeLine
<1>3. toSM[w] = <<>> /\ ~ (active_session = w /\ reading_output /\ ~ Asked(w))
  BY <1>2 DEF Outstanding, Asked
<1>4. toSM \in [Window -> Seq(Line)] /\ l \in Line
  BY DEF TypeInv, TypeOK, PeerTypeOK, Line
<1>5. \A v \in Window : toSM'[v] = IF v = w THEN <<l>> ELSE toSM[v]
  BY <1>0, <1>3, <1>4, OneElem
<1>6. NoMenu' /\ smPc' \in {"run", "answer"}
  BY <1>0, <1>1 DEF CalmInv, NoMenu
<1>7. WindowsUp'
  <2>1. l.from = w /\ <<l>> # <<>>
    BY OneElem
  <2>2. \A v \in Window : toSM'[v] = <<>> \/ \E m \in Line : toSM'[v] = <<m>> /\ m.from = v
    BY <1>4, <1>5, <2>1 DEF CalmInv, WindowsUp
  <2>3. \A v \in todo' \cap Window : toSM'[v] # <<>>
    BY <1>1, <1>5, <2>1 DEF CalmInv, WindowsUp
  <2> QED
    BY <1>0, <1>1, <2>2, <2>3 DEF CalmInv, WindowsUp
<1> HIDE DEF l
<1>8. FramesKept' /\ EvaluatedHere'
  BY <1>0, <1>1 DEF CalmInv, FramesKept, HasFrame, Closing, EvaluatedHere, EvalInOwnFrame
<1>9. Idle' <=> Idle
  BY <1>0, <1>1 DEF Idle, LispFree, AtFrame
<1>10. OneConnects'
  BY <1>0, <1>1, <1>9 DEF CalmInv, OneConnects
<1>11. Creating => Creating'
  BY <1>0, <1>1 DEF Creating, LispFree, AtFrame
<1>12. active_session \in Window \cup {NoSock}
  BY DEF TypeInv, TypeOK, SMTypeOK
<1>13. ASSUME Serving, lispPc # "ask"
       PROVE  active_session # NoSock => toSM'[active_session] = toSM[active_session]
  <2>1. active_session # w
    BY <1>3, <1>13 DEF Serving, Asked
  <2> QED
    BY <1>5, <1>12, <2>1
<1>14. Reading => Reading'
  <2> SUFFICES ASSUME Reading
               PROVE  Reading'
    OBVIOUS
  <2>1. Serving /\ lispPc # "ask" /\ active_session # NoSock
    BY WindowAssumption DEF Reading, LispFree, Line
  <2> QED
    BY <1>0, <1>1, <1>13, <2>1 DEF Reading, Serving, LispFree, AtFrame
<1>15. Evaluating => Evaluating'
  <2> SUFFICES ASSUME Evaluating
               PROVE  Evaluating'
    OBVIOUS
  <2>1. Serving /\ lispPc # "ask" /\ active_session # NoSock
    BY WindowAssumption DEF Evaluating, Working, Line
  <2> QED
    BY <1>0, <1>1, <1>13, <2>1 DEF Evaluating, Working, Serving, AtFrame
<1>16. Querying => Querying'
  <2> SUFFICES ASSUME Querying
               PROVE  Querying'
    OBVIOUS
  <2>1. Serving /\ lispPc # "ask" /\ active_session # NoSock
    BY WindowAssumption DEF Querying, Working, Line
  <2> QED
    BY <1>0, <1>1, <1>13, <2>1 DEF Querying, Working, Serving, AtFrame
<1>17. Asking => Asking'
  <2> SUFFICES ASSUME Asking
               PROVE  Asking'
    OBVIOUS
  <2>1. pty # <<>> => toSM'[active_session] = toSM[active_session]
    <3>1. pty # <<>> => active_session # w
      BY <1>3 DEF Asking, Working, Serving, Asked
    <3>2. active_session \in Window
      BY DEF Asking, Working, Line
    <3> QED
      BY <1>5, <3>1, <3>2
  <2> QED
    BY <1>0, <1>1, <2>1, OneElem DEF Asking, Working, Serving, AtFrame
<1>18. Ending => Ending'
  <2> SUFFICES ASSUME Ending
               PROVE  Ending'
    OBVIOUS
  <2>1. Serving /\ lispPc # "ask"
    BY DEF Ending
  <2> QED
    BY <1>0, <1>1, <1>13, <2>1 DEF Ending, Serving, AtFrame
<1>19. Phase'
  BY <1>9, <1>11, <1>14, <1>15, <1>16, <1>17, <1>18 DEF CalmInv, Phase
<1> QED
  BY <1>6, <1>7, <1>8, <1>10, <1>19 DEF CalmInv

LEMMA ConnectKeepsCalm ==
  ASSUME TypeInv, CalmInv, env = {}, lispPc # "quit", NEW w \in Window, ConnectWindow(w)
  PROVE  CalmInv'
<1>0. /\ win[w] = "none" /\ Quiet
      /\ win' = [win EXCEPT ![w] = "connecting"] /\ pending' = Append(pending, w)
      /\ UNCHANGED <<menu, toSM, menuToSM>>
  BY DEF ConnectWindow
<1>1. /\ UNCHANGED <<smToLisp, lispToSM, menuToLisp, pty>>
      /\ UNCHANGED <<lispPc, line, needToSignal, currentFrameNum, ring, evaluated>>
      /\ UNCHANGED <<smPc, todo, plSock, frame, active_session, reading_output, menu_client, session_socket_mask, openFd>>
  BY DEF ConnectWindow, linkVars, lispVars, smVars
<1>2. /\ pending = <<>> /\ todo = {} /\ ~ reading_output /\ lispPc = "switch" /\ ~ needToSignal
      /\ smPc = "run" /\ smToLisp = <<>>
  BY <1>0 DEF Quiet
<1>3. Idle
  BY <1>2, OneElem, TwoElems
  DEF CalmInv, Phase, Creating, Reading, Evaluating, Querying, Asking, Ending, Serving, Working
<1>4. Idle'
  BY <1>1, <1>3 DEF Idle, LispFree, AtFrame
<1>5. Len(pending') = 1
  BY <1>0, <1>2, OneElem
<1>6. win \in [Window -> PeerState] /\ \A e \in evaluated : e[1] \in Window
  BY DEF TypeInv, TypeOK, PeerTypeOK, LispTypeOK
<1>7. \A v \in Window : win'[v] = IF v = w THEN "connecting" ELSE win[v]
  BY <1>0, <1>6
<1>8. WindowsUp'
  <2>1. \A v \in Window : win'[v] = "up" <=> win[v] = "up"
    BY <1>0, <1>7
  <2> QED
    BY <1>0, <1>1, <2>1 DEF CalmInv, WindowsUp
<1>9. EvaluatedHere'
  <2>1. \A e \in evaluated : win'[e[1]] \in {"up", "dead"}
    BY <1>0, <1>6, <1>7 DEF CalmInv, EvaluatedHere
  <2> QED
    BY <1>1, <2>1 DEF CalmInv, EvaluatedHere, EvalInOwnFrame
<1>10. FramesKept'
  BY <1>1 DEF CalmInv, FramesKept, HasFrame, Closing
<1>11. NoMenu' /\ OneConnects' /\ smPc' \in {"run", "answer"}
  BY <1>0, <1>1, <1>2, <1>4, <1>5 DEF CalmInv, NoMenu, OneConnects
<1> QED
  BY <1>4, <1>8, <1>9, <1>10, <1>11 DEF CalmInv, Phase

(* A window that waits for its frame gets one nobody has. *)
LEMMA ManagerKeepsCalmFrames ==
  ASSUME TypeInv, ListInv, ListInv', CalmInv, CalmFrames, lispPc # "quit", SMNext, UNCHANGED lispVars
  PROVE  CalmFrames'
<1>0. /\ ListedOnce' /\ FramesDistinct /\ frameNumber \in Nat
      /\ UNCHANGED <<frameNumber, ring>>
  BY DEF ListInv, CalmFrames, TypeInv, TypeOK, LispTypeOK, lispVars
<1>1. ASSUME NoNewFrames, smPc' # "answer" \/ lispToSM' = <<>>
      PROVE  CalmFrames'
  BY <1>0, <1>1, NoNewKeepDistinct DEF CalmFrames, Fresh
<1>2. CASE ReadCreateFrameAnswer
  <2> DEFINE w == Head(plSock)
             n == Head(ring)
  <2>1. /\ smPc = "answer" /\ smPc' = "run" /\ Len(lispToSM) >= 2
        /\ frame' = [frame EXCEPT ![w] = lispToSM[2]] /\ plSock' = plSock
    BY <1>2 DEF ReadCreateFrameAnswer
  <2>2. lispToSM[2] = n /\ lispToSM # <<>>
    <3>1. Creating
      BY <2>1 DEF CalmInv, Phase, Idle, Reading, Evaluating, Querying, Asking, Ending, Working,
                  Serving
    <3> QED
      BY <2>1, <3>1, TwoElems DEF Creating
  <2>3. /\ plSock \in Seq(Window) /\ 1 \in DOMAIN plSock /\ w = plSock[1]
        /\ frame \in [Window -> Int] /\ DOMAIN plSock = 1 .. Len(plSock)
    BY <2>1, TailElems DEF TypeInv, TypeOK, SMTypeOK, AnswerHasWindow
  <2>4. /\ n \in 0 .. frameNumber - 1
        /\ \A i \in DOMAIN plSock : i # 1 => /\ frame[plSock[i]] # n
                                             /\ frame[plSock[i]] \in 0 .. frameNumber - 1
        /\ \A i, j \in DOMAIN plSock : i # 1 /\ j # 1 /\ frame[plSock[i]] = frame[plSock[j]] => i = j
    BY <2>1, <2>2 DEF CalmFrames, Fresh, FramesDistinct, HasFrame
  <2>5. \A i \in DOMAIN plSock : plSock[i] \in Window /\ (plSock[i] = w => i = 1)
    BY <2>3 DEF ListInv, ListedOnce
  <2>6. \A i \in DOMAIN plSock : frame'[plSock[i]] = IF i = 1 THEN n ELSE frame[plSock[i]]
    BY <2>1, <2>2, <2>3, <2>5
  <2> HIDE DEF w, n
  <2>7. FramesDistinct'
    BY <1>0, <2>1, <2>4, <2>6 DEF FramesDistinct
  <2> QED
    BY <2>1, <2>7 DEF CalmFrames, Fresh
<1>3. CASE AcceptInterpWindow
  <2>1. NoNewFrames /\ lispToSM' = lispToSM
    BY <1>3, AcceptGivesNoFrame DEF AcceptInterpWindow
  <2>2. pending # <<>>
    BY <1>3 DEF AcceptInterpWindow, AtTurn, TypeInv, TodoReadable
  <2> QED
    BY <1>1, <2>1, <2>2 DEF CalmInv, OneConnects, Idle
<1>4. CASE ReadCloseClient
  BY <1>1, <1>4, CloseGivesNoFrame DEF ReadCloseClient, HasSpadCommand, AtTurn
<1>5. ASSUME UNCHANGED <<plSock, frame>>, smPc' # "answer",
             smPc' = smPc \/ smPc = "run" \/ smPc' = "exited"
      PROVE  CalmFrames'
  BY <1>1, <1>5, SameWindows
<1>6. CASE Select \/ SelectFails
  BY <1>5, <1>6 DEF Select, SelectFails
<1>7. CASE ReadMenuSwitchFrames \/ ReadMenuClosed
  BY <1>5, <1>7 DEF ReadMenuSwitchFrames, ReadMenuClosed, AtTurn
<1>8. CASE ReadFromSpadIo \/ AcceptMenu
  BY <1>5, <1>8 DEF ReadFromSpadIo, AcceptMenu, AtTurn
<1>9. CASE LoseRace
  BY <1>5, <1>9 DEF LoseRace
<1>10. ASSUME NEW w \in Window, ReadFromSession(w) \/ ReadSessionClosed(w) \/ SkipSession(w)
       PROVE  CalmFrames'
  BY <1>5, <1>10 DEF ReadFromSession, ReadSessionClosed, SkipSession, AtTurn
<1>11. CASE ReadEndOfOutput \/ ReadQueryClients \/ ReadUnknownCommand
  BY <1>5, <1>11 DEF ReadEndOfOutput, ReadQueryClients, ReadUnknownCommand, HasSpadCommand, AtTurn
<1>12. CASE ReadCloseUnknown
  <2>1. smPc = "run" /\ smPc' \in {"run", "crashed"} /\ UNCHANGED <<plSock, frame>>
    BY <1>12 DEF ReadCloseUnknown, HasSpadCommand, AtTurn
  <2> QED
    BY <1>5, <2>1
<1> QED
  BY <1>2, <1>3, <1>4, <1>6, <1>7, <1>8, <1>9, <1>10, <1>11, <1>12 DEF SMNext

(* The frame Lisp makes has the next number. *)
LEMMA LispKeepsCalmFrames ==
  ASSUME TypeInv, ListInv, ListInv', CalmInv, CalmFrames, lispPc # "quit", LispNext,
         UNCHANGED smVars
  PROVE  CalmFrames'
<1>0. /\ ListedOnce' /\ FramesDistinct /\ Fresh /\ frameNumber \in Nat
      /\ UNCHANGED <<smPc, plSock, frame>>
  BY DEF ListInv, CalmFrames, TypeInv, TypeOK, LispTypeOK, smVars
<1>1. frameNumber' \in Nat /\ frameNumber' >= frameNumber
  BY <1>0 DEF LispNext, SignalEndOfOutput, ServeCreateFrame, ServeSwitchFrames, ServeUnknown, ReadLine,
              ServeMenu, EvaluateExpr, SendQueryClients, CloseFrame, AskWhetherLast, ReadAnswer
<1>2. FramesDistinct'
  BY <1>0, <1>1, SameWindows, NoNewKeepDistinct
<1>3. ASSUME smPc = "answer"
      PROVE  Fresh'
  <2>1. Creating
    BY <1>3 DEF CalmInv, Phase, Idle, Reading, Evaluating, Querying, Asking, Ending, Working, Serving
  <2>2. \/ SignalEndOfOutput \/ ServeCreateFrame \/ ServeUnknown
    <3>1. /\ ~ ServeMenu /\ ~ ReadLine /\ ~ EvaluateExpr /\ ~ SendQueryClients /\ ~ CloseFrame
          /\ ~ AskWhetherLast /\ ~ ReadAnswer
      BY <2>1 DEF ServeMenu, CalmInv, NoMenu, Creating, LispFree, ReadLine, EvaluateExpr,
                  SendQueryClients, CloseFrame, AskWhetherLast, ReadAnswer
    <3>2. ~ ServeSwitchFrames
      BY <2>1, OneElem DEF Creating, ServeSwitchFrames, HasCommand, CreateFrame, SwitchFrames
    <3> QED
      BY <3>1, <3>2 DEF LispNext
  <2>3. ASSUME UNCHANGED <<ring, frameNumber, lispToSM>>
        PROVE  Fresh'
    BY <1>0, <2>3 DEF Fresh, HasFrame
  <2>4. CASE SignalEndOfOutput
    BY <2>1, <2>3, <2>4 DEF SignalEndOfOutput, Creating, LispFree
  <2>5. CASE ServeUnknown
    BY <2>3, <2>5 DEF ServeUnknown
  <2>6. CASE ServeCreateFrame
    <3>1. ring' = <<frameNumber>> \o ring /\ frameNumber' = frameNumber + 1
      BY <2>6 DEF ServeCreateFrame
    <3>2. Head(ring') = frameNumber
      BY <1>0, <3>1, NewFrameInFront
    <3>3. \A i \in DOMAIN plSock : HasFrame(i) => frame[plSock[i]] \in 0 .. frameNumber - 1
      BY <1>0 DEF FramesDistinct
    <3> QED
      BY <1>0, <3>1, <3>2, <3>3 DEF Fresh, HasFrame
  <2> QED
    BY <2>2, <2>4, <2>5, <2>6
<1> QED
  BY <1>0, <1>2, <1>3 DEF CalmFrames, Fresh

LEMMA PeersKeepCalm ==
  ASSUME TypeInv, CalmInv, lispPc # "quit", env = {}, PeerNext
  PROVE  CalmInv'
<1>1. ~ ConnectMenu /\ ~ MenuDies /\ \A w \in Window : ~ WindowDies(w)
  BY DEF ConnectMenu, MenuDies, WindowDies
<1>2. ~ IssueServerCommand
  BY DEF IssueServerCommand, CalmInv, NoMenu
<1> QED
  BY <1>1, <1>2, TypingKeepsCalm, ConnectKeepsCalm DEF PeerNext

-----------------------------------------------------------------------------
LEMMA InitCalm == Init => CalmInv /\ CalmFrames
<1> SUFFICES ASSUME Init
             PROVE  CalmInv /\ CalmFrames
  OBVIOUS
<1> USE DEF Init, LinkInit, LispInit, SMInit, PeerInit
<1>1. DOMAIN plSock = {} /\ ToSet(plSock) = {}
  BY DEF ToSet
<1>2. NoMenu /\ OneConnects /\ FramesKept /\ EvaluatedHere
  BY <1>1 DEF NoMenu, OneConnects, FramesKept, EvaluatedHere, EvalInOwnFrame
<1>3. WindowsUp
  BY <1>1 DEF WindowsUp
<1>4. Idle
  BY DEF Idle, LispFree
<1>5. CalmFrames
  BY <1>1 DEF CalmFrames, Fresh, FramesDistinct
<1> QED
  BY <1>2, <1>3, <1>4, <1>5 DEF CalmInv, Phase

LEMMA NextCalm ==
  TypeInv /\ ListInv /\ ListInv' /\ (env = {} => CalmInv /\ CalmFrames) /\ [Next]_vars
     => (env = {} => CalmInv /\ CalmFrames)'
<1> SUFFICES ASSUME TypeInv, ListInv, ListInv', env = {} => CalmInv /\ CalmFrames, [Next]_vars,
                    env' = {}
             PROVE  CalmInv' /\ CalmFrames'
  OBVIOUS
<1>0. env' = env
  BY DEF Next, vars, Rest, envVars, SMStep, LispStep, RelayStep, PeerNext, ConnectWindow, TypeLine,
         WindowDies, ConnectMenu, IssueServerCommand, MenuDies
<1>1. env = {} /\ CalmInv /\ CalmFrames
  BY <1>0
<1>2. CASE Alive /\ SMStep
  BY <1>1, <1>2, ManagerKeepsCalm, ManagerKeepsCalmFrames DEF SMStep, Alive
<1>3. CASE Alive /\ LispStep
  BY <1>1, <1>3, LispKeepsCalm, LispKeepsCalmFrames DEF LispStep, Alive
<1>8. ASSUME UNCHANGED <<smPc, plSock, frame, frameNumber, ring, lispToSM>>
      PROVE  CalmFrames'
  BY <1>1, <1>8 DEF CalmFrames, Fresh, FramesDistinct, HasFrame
<1>4. ASSUME UNCHANGED <<lispVars, smVars, peerVars, smToLisp, lispToSM, menuToLisp, pty>>
      PROVE  CalmInv' /\ CalmFrames'
  <2>1. /\ UNCHANGED <<smPc, plSock, frame, active_session, reading_output, menu_client,
                       session_socket_mask, openFd>>
        /\ todo' = todo
    BY <1>4 DEF smVars
  <2>2. \A w \in todo' \cap Window : toSM[w] # <<>>
    BY <1>1, <2>1 DEF CalmInv, WindowsUp
  <2>3. pending # <<>> => todo' = {} \/ "listen" \in todo'
    BY <1>1, <2>1 DEF CalmInv, OneConnects
  <2>4. CalmFrames'
    BY <1>4, <1>8, <2>1 DEF lispVars
  <2> QED
    BY <1>1, <1>4, <2>1, <2>2, <2>3, <2>4, ServingKeepsCalm
<1>5. CASE Alive /\ RelayStep
  BY <1>4, <1>5 DEF RelayStep, RelayOutput
<1>6. CASE Alive /\ PeerNext
  <2>1. UNCHANGED <<smPc, plSock, frame, frameNumber, ring, lispToSM>>
    BY <1>6 DEF PeerNext, ConnectWindow, TypeLine, WindowDies, ConnectMenu, IssueServerCommand,
                MenuDies, smVars, lispVars, linkVars
  <2> QED
    BY <1>1, <1>6, <1>8, <2>1, PeersKeepCalm DEF Alive
<1>7. CASE UNCHANGED vars
  BY <1>4, <1>7 DEF vars, linkVars
<1> QED
  BY <1>2, <1>3, <1>5, <1>6, <1>7 DEF Next, Rest

THEOREM CalmPhases == Spec => [](env = {} => CalmInv /\ CalmFrames)
BY InitType, NextType, InitList, NextList, InitCalm, NextCalm, PTL DEF Spec

(* With peers that wait their turn, every line is evaluated in the frame   *)
(* of the window it was typed in (session.c: read_from_session;            *)
(* server.boot: serverReadLine).                                           *)
THEOREM LinesStayInFrames == Spec => [](env = {} => EvalInOwnFrame)
<1>1. CalmInv => EvalInOwnFrame
  BY DEF CalmInv, EvaluatedHere
<1> QED
  BY <1>1, CalmPhases, PTL

(* A window keeps its frame until Lisp asks for it to be closed            *)
(* (i-syscmd.boot: close; server.boot: serverReadLine).                    *)
THEOREM FramesAreKept == Spec => [](env = {} => WindowKeepsFrame)
<1>1. CalmInv => WindowKeepsFrame
  BY DEF CalmInv, FramesKept, WindowKeepsFrame
<1> QED
  BY <1>1, CalmPhases, PTL

(* The session manager neither loses the race for CreateFrameAnswer nor    *)
(* follows a null pointer nor selects a closed descriptor (session.c).     *)
THEOREM ManagerSurvives == Spec => [](env = {} => SessionSurvives)
<1>1. CalmInv => SessionSurvives
  BY DEF CalmInv, SessionSurvives
<1> QED
  BY <1>1, CalmPhases, PTL

(* A list without repetitions is as long as the set of its elements. *)
LEMMA OnceLength ==
  ASSUME NEW S, NEW s \in Seq(S), \A i, j \in DOMAIN s : s[i] = s[j] => i = j
  PROVE  Cardinality(ToSet(s)) = Len(s)
<1> DEFINE n == Len(s)
<1>1. n \in Nat /\ DOMAIN s = 1 .. n /\ s = [i \in 1 .. n |-> s[i]]
  OBVIOUS
<1> HIDE DEF n
<1>2. s \in [1 .. n -> ToSet(s)]
  BY <1>1 DEF ToSet
<1>3. s \in Bijection(1 .. n, ToSet(s))
  BY <1>1, <1>2 DEF Bijection, Injection, Surjection, IsInjective, ToSet
<1>4. Cardinality(ToSet(s)) = n
  BY <1>1, <1>3, FS_CountingElements DEF ExistsBijection
<1> QED
  BY <1>4 DEF n

(* ")close" is told how many windows there are while it reads the answer   *)
(* (session.c: QueryClients; i-syscmd.boot: queryClients, close).          *)
THEOREM ClientsAreCounted == Spec => [](env = {} => ClientsCountedExactly)
<1>1. TypeInv /\ ListInv /\ CalmInv => ClientsCountedExactly
  <2> SUFFICES ASSUME TypeInv, ListInv, CalmInv, lispPc = "query", smToLisp # <<>>
               PROVE  Head(smToLisp) = Cardinality({w \in Window : win[w] = "up"})
    BY DEF ClientsCountedExactly
  <2>1. smToLisp = <<Len(plSock)>>
    BY DEF CalmInv, Phase, Idle, Creating, Ending, Reading, Evaluating, Querying, Asking, LispFree
  <2>2. plSock \in Seq(Window)
    BY DEF TypeInv, TypeOK, SMTypeOK
  <2>3. {w \in Window : win[w] = "up"} = ToSet(plSock)
    BY ListedUp DEF CalmInv, WindowsUp
  <2>4. Cardinality(ToSet(plSock)) = Len(plSock)
    BY <2>2, OnceLength DEF ListInv, ListedOnce
  <2> QED
    BY <2>1, <2>3, <2>4, OneElem
<1> QED
  BY <1>1, CalmPhases, InitType, NextType, TablesAgree, PTL DEF Spec
=============================================================================
