----------------------------- MODULE LispServer -----------------------------
(***************************************************************************)
(* The interpreter as a server: serverReadLine of src/interp/server.boot,  *)
(* server_switch of src/lib/sockio-c.c and the command ")close" of         *)
(* src/interp/i-syscmd.boot.  One Lisp process evaluates the lines of all  *)
(* windows; each window has an interpreter frame of its own, and the first *)
(* frame of the ring is the one a line is evaluated in.                    *)
(*                                                                         *)
(* A definition D_Fault that stands before a definition D is a faulty      *)
(* variant of D: it is used only to show that a property would notice.     *)
(***************************************************************************)
EXTENDS SessionLinks

CONSTANT MaxFrames  \* bound: frames created in a behaviour

ASSUME MaxFramesAssumption == MaxFrames \in Nat \ {0}

Initial == -1                     \* the frame called "initial"
NoLine  == [from |-> NoSock, kind |-> "none"]

VARIABLES
    lispPc,           \* where the process is: see LispPcs
    line,             \* the line being evaluated
    needToSignal,     \* $NeedToSignalSessionManager
    currentFrameNum,  \* $currentFrameNum
    frameNumber,      \* $frameNumber; $frameAlist holds 0 .. frameNumber - 1
    ring,             \* names in $interpreterFrameRing: the numbers of $frameAlist
    evaluated         \* history: window and frame of every evaluated line

lispVars == <<lispPc, line, needToSignal, currentFrameNum, frameNumber, ring, evaluated>>

LispPcs == {"top", "switch", "eval", "query", "ask", "quit", "lost"}

LispInit ==
    /\ lispPc = "top"
    /\ line = NoLine
    /\ needToSignal = FALSE
    /\ currentFrameNum = 0
    /\ frameNumber = 0
    /\ ring = <<Initial>>
    /\ evaluated = {}

Frame == Nat \cup {Initial}

LispTypeOK ==
    /\ lispPc \in LispPcs
    /\ line \in Line \cup {NoLine}
    /\ needToSignal \in BOOLEAN
    /\ currentFrameNum \in Int
    /\ frameNumber \in Nat
    /\ ring \in Seq(Frame)
    /\ evaluated \subseteq (Window \X Frame)

(***************************************************************************)
(* changeToNamedInterpreterFrame for the name LASSOC finds under number n: *)
(* the frame goes to the front.  A number that is not in $frameAlist, or   *)
(* whose frame has been closed, leaves the ring as it is.                  *)
(***************************************************************************)
ChangeToFrame_Rest(n) ==
    IF n >= 0 /\ Contains(ring, n) THEN <<n>> \o Tail(ring) ELSE ring
ChangeToFrame(n) ==
    IF n >= 0 /\ Contains(ring, n)
    THEN <<n>> \o RemoveAt(ring, Position(ring, n))
    ELSE ring

(* closeInterpreterFrame(NIL): drop the current frame, unless it is the last. *)
CloseCurrentFrame == IF Len(ring) > 1 THEN Tail(ring) ELSE ring

(***************************************************************************)
(* Head of the loop of serverReadLine: tell the session manager that the   *)
(* previous command is finished.                                           *)
(***************************************************************************)
SignalEndOfOutput ==
    /\ lispPc = "top"
    /\ lispToSM' = IF needToSignal THEN Append(lispToSM, EndOfOutput) ELSE lispToSM
    /\ needToSignal' = FALSE
    /\ lispPc' = "switch"
    /\ UNCHANGED <<line, currentFrameNum, frameNumber, ring, evaluated,
                   smToLisp, menuToLisp, pty, relay, io>>

(* server_switch prefers the session manager to everything else. *)
HasCommand(cmd) ==
    /\ lispPc = "switch"
    /\ smToLisp # <<>>
    /\ Head(smToLisp) = cmd

(* sockSendInt of the answer and of the number of the new frame. *)
CreateFrameReply_Swapped == <<frameNumber, CreateFrameAnswer>>
CreateFrameReply == <<CreateFrameAnswer, frameNumber>>

ServeCreateFrame ==
    /\ HasCommand(CreateFrame)
    /\ frameNumber < MaxFrames
    /\ smToLisp' = Tail(smToLisp)
    /\ ring' = <<frameNumber>> \o ring
    /\ currentFrameNum' = frameNumber
    /\ frameNumber' = frameNumber + 1
    /\ lispToSM' = lispToSM \o CreateFrameReply
    /\ relay' = Append(relay, NoSock)
    /\ lispPc' = "top"
    /\ UNCHANGED <<line, needToSignal, evaluated, menuToLisp, pty, io>>

ServeSwitchFrames ==
    /\ HasCommand(SwitchFrames)
    /\ Len(smToLisp) >= 2
    /\ smToLisp' = SubSeq(smToLisp, 3, Len(smToLisp))
    /\ currentFrameNum' = smToLisp[2]
    /\ ring' = ChangeToFrame(smToLisp[2])
    /\ lispPc' = "top"
    /\ UNCHANGED <<line, needToSignal, frameNumber, evaluated,
                   lispToSM, menuToLisp, pty, relay, io>>

(***************************************************************************)
(* An integer that is no command of serverReadLine is dropped.  A number   *)
(* that is read in the place of a command may be a command the session     *)
(* manager never sends: what Lisp does then is not followed any further.   *)
(***************************************************************************)
ServeUnknown ==
    /\ lispPc = "switch"
    /\ smToLisp # <<>>
    /\ Head(smToLisp) \notin {CreateFrame, SwitchFrames, CallInterp}
    /\ smToLisp' = Tail(smToLisp)
    /\ lispPc' = IF Head(smToLisp) \in OtherCommands THEN "lost" ELSE "top"
    /\ UNCHANGED <<line, needToSignal, currentFrameNum, frameNumber, ring, evaluated,
                   lispToSM, menuToLisp, pty, relay, io>>

(***************************************************************************)
(* CallInterp: standard input is readable and the session manager has sent *)
(* nothing (or sent an integer that happens to be CallInterp).  The line   *)
(* is evaluated in the current frame.                                      *)
(***************************************************************************)
ReadLine ==
    /\ lispPc = "switch"
    /\ pty # <<>>
    /\ \/ smToLisp = <<>> /\ UNCHANGED smToLisp
       \/ HasCommand(CallInterp) /\ smToLisp' = Tail(smToLisp)
    /\ pty' = Tail(pty)
    /\ line' = Head(pty)
    /\ needToSignal' = TRUE
    /\ evaluated' = evaluated \cup {<<Head(pty).from, Head(ring)>>}
    /\ lispPc' = "eval"
    /\ UNCHANGED <<currentFrameNum, frameNumber, ring, lispToSM, menuToLisp, relay, io>>

(***************************************************************************)
(* LispCommand, SpadCommand or QuietSpadCommand of HyperDoc, read from its *)
(* own socket when the others are silent.  A line may still be in the      *)
(* pseudo terminal, whose relay takes time.  What such a command prints is *)
(* left out.                                                               *)
(***************************************************************************)
ServeMenu ==
    /\ lispPc = "switch"
    /\ smToLisp = <<>>
    /\ menuToLisp > 0
    /\ menuToLisp' = menuToLisp - 1
    /\ needToSignal' = TRUE
    /\ lispPc' = "top"
    /\ UNCHANGED <<line, currentFrameNum, frameNumber, ring, evaluated,
                   smToLisp, lispToSM, pty, relay, io>>

EvaluateExpr ==
    /\ lispPc = "eval"
    /\ line.kind = "expr"
    /\ relay' = Append(relay, line.from)
    /\ line' = NoLine
    /\ lispPc' = "top"
    /\ UNCHANGED <<needToSignal, currentFrameNum, frameNumber, ring, evaluated,
                   smToLisp, lispToSM, menuToLisp, pty, io>>

(* queryClients: ask how many windows there are, and wait. *)
SendQueryClients ==
    /\ lispPc = "eval"
    /\ line.kind \in {"close", "quietly"}
    /\ lispToSM' = Append(lispToSM, QueryClients)
    /\ lispPc' = "query"
    /\ UNCHANGED <<line, needToSignal, currentFrameNum, frameNumber, ring, evaluated,
                   smToLisp, menuToLisp, pty, relay, io>>

(***************************************************************************)
(* close: with other windows left, or with the option quietly, the session *)
(* manager is told to close the window of $currentFrameNum and the current *)
(* frame is dropped.                                                       *)
(***************************************************************************)
CloseFrame ==
    /\ lispPc = "query"
    /\ smToLisp # <<>>
    /\ Head(smToLisp) > 1 \/ line.kind = "quietly"
    /\ smToLisp' = Tail(smToLisp)
    /\ lispToSM' = lispToSM \o <<CloseClient, currentFrameNum>>
    /\ ring' = CloseCurrentFrame
    /\ relay' = Append(relay, line.from)
    /\ line' = NoLine
    /\ lispPc' = "top"
    /\ UNCHANGED <<needToSignal, currentFrameNum, frameNumber, evaluated,
                   menuToLisp, pty, io>>

(* Otherwise the user is asked whether to leave the system. *)
AskWhetherLast ==
    /\ lispPc = "query"
    /\ smToLisp # <<>>
    /\ Head(smToLisp) <= 1
    /\ line.kind = "close"
    /\ smToLisp' = Tail(smToLisp)
    /\ relay' = Append(relay, line.from)
    /\ lispPc' = "ask"
    /\ UNCHANGED <<line, needToSignal, currentFrameNum, frameNumber, ring, evaluated,
                   lispToSM, menuToLisp, pty, io>>

(* The next line on standard input is the answer, whoever typed it. *)
ReadAnswer ==
    /\ lispPc = "ask"
    /\ pty # <<>>
    /\ pty' = Tail(pty)
    /\ evaluated' = evaluated \cup {<<Head(pty).from, Head(ring)>>}
    /\ line' = NoLine
    /\ \/ lispPc' = "quit" /\ UNCHANGED relay
       \/ lispPc' = "top" /\ relay' = Append(relay, Head(pty).from)
    /\ UNCHANGED <<needToSignal, currentFrameNum, frameNumber, ring,
                   smToLisp, lispToSM, menuToLisp, io>>

LispNext ==
    \/ SignalEndOfOutput
    \/ ServeCreateFrame
    \/ ServeSwitchFrames
    \/ ServeUnknown
    \/ ReadLine
    \/ ServeMenu
    \/ EvaluateExpr
    \/ SendQueryClients
    \/ CloseFrame
    \/ AskWhetherLast
    \/ ReadAnswer
=============================================================================
