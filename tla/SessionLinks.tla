---------------------------- MODULE SessionLinks ----------------------------
(***************************************************************************)
(* The links between the session manager (src/sman/session.c), the Lisp    *)
(* server (src/interp/server.boot) and HyperDoc, and the integers that are *)
(* sent over them (src/include/com.h).                                     *)
(*                                                                         *)
(* A socket is a FIFO queue of integers; send_int never waits and get_int  *)
(* waits until there is something to read.  Text is a queue of lines (one  *)
(* read() of the sender's terminal) or of output chunks.                   *)
(***************************************************************************)
EXTENDS Integers, FiniteSets, SequencesExt

CONSTANTS
    Window,     \* the interpreter windows: spadclient processes
    NoSock,     \* the null Sock pointer
    Kind        \* what the users type, see KindAssumption

ASSUME WindowAssumption == /\ IsFiniteSet(Window)
                           /\ NoSock \notin Window
                           /\ Window \cap {"menu", "io", "listen", "lisp"} = {}

(* The command numbers of com.h that the three programs exchange. *)
CreateFrame       == 1
SwitchFrames      == 2
EndOfOutput       == 3
CallInterp        == 4
CloseClient       == 10
QueryClients      == 11
CreateFrameAnswer == 50

(* EndSession, LispCommand, SpadCommand, QuietSpadCommand, NonSmanSession  *)
(* and KillLispSystem, which the session manager does not send.            *)
OtherCommands == {5, 6, 7, 9, 13, 14}

(* An expression, ")close" or ")close )quietly". *)
ASSUME KindAssumption == Kind \subseteq {"expr", "close", "quietly"}

Line == [from : Window, kind : Kind]

(* Where e is in the sequence s. *)
Position(s, e) == CHOOSE i \in DOMAIN s : s[i] = e

VARIABLES
    smToLisp,   \* integers from session manager to Lisp: Sock spad_server
    lispToSM,   \* integers from Lisp to the session manager, same socket
    menuToLisp, \* number of commands HyperDoc has sent to Lisp directly
    pty,        \* lines on their way to the standard input of Lisp
    relay,      \* output of Lisp that sman has not forwarded yet
    io          \* output waiting on the Sock spad_io of the session manager

linkVars == <<smToLisp, lispToSM, menuToLisp, pty, relay, io>>

LinkInit ==
    /\ smToLisp = <<>>
    /\ lispToSM = <<>>
    /\ menuToLisp = 0
    /\ pty = <<>>
    /\ relay = <<>>
    /\ io = <<>>

(* A chunk of output is named by the window whose line produced it, or is  *)
(* NoSock when no window asked for it.                                     *)
Chunk == Window \cup {NoSock}

LinkTypeOK ==
    /\ smToLisp \in Seq(Int)
    /\ lispToSM \in Seq(Int)
    /\ menuToLisp \in Nat
    /\ pty \in Seq(Line)
    /\ relay \in Seq(Chunk)
    /\ io \in Seq(Chunk)

(***************************************************************************)
(* read_from_spad_io of sman.c: the process of sman that owns the pseudo   *)
(* terminal copies what Lisp printed to the socket of the session manager. *)
(***************************************************************************)
RelayOutput ==
    /\ relay # <<>>
    /\ relay' = Tail(relay)
    /\ io' = Append(io, Head(relay))
    /\ UNCHANGED <<smToLisp, lispToSM, menuToLisp, pty>>
=============================================================================
