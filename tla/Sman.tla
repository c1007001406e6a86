-------------------------------- MODULE Sman --------------------------------
(***************************************************************************)
(* The supervisor src/sman/sman.c: it starts the programs of a session,    *)
(* waits for any of them to end and then does what the table of processes  *)
(* says: end the whole session, start the program again, remove a socket   *)
(* or nothing.                                                             *)
(*                                                                         *)
(* The kernel is modelled as far as sman sees it: process ids are taken    *)
(* again once wait() has returned them, SIGTERM is pending until the       *)
(* process ends, and a process with a pending SIGTERM does nothing else.   *)
(*                                                                         *)
(* A definition D_Fault that stands before a definition D is a faulty      *)
(* variant of D: it is used only to show that a property would notice.     *)
(***************************************************************************)
EXTENDS Integers, FiniteSets, SequencesExt

CONSTANTS
    Pid,        \* process ids
    Options,    \* the sets of optional programs to choose from
    MaxForks,   \* bound: programs started in one behaviour
    MaxTerm     \* bound: SIGTERMs sent to sman, 0 or 1

ASSUME SmanAssumption == /\ Pid \subseteq Nat
                         /\ Options \subseteq SUBSET {"xclient", "client", "hypertex", "viewman"}
                         /\ MaxForks \in Nat
                         /\ MaxTerm \in {0, 1}

(* The programs, and what sman does when one of them dies. *)
Program == {"lisp", "session", "xclient", "client", "hypertex", "viewman", "io"}

DeathAction ==
    [ lisp     |-> "Die",
      session  |-> "Die",
      io       |-> "Die",               \* the child of sman that runs manage_spad_io
      xclient  |-> "NadaDelShitsky",    \* spadclient in an xterm
      client   |-> "NadaDelShitsky",    \* spadclient in the terminal of sman
      hypertex |-> "CleanHypertexSocket",
      viewman  |-> "DoItAgain" ]

(* The socket that a program opens in /tmp. *)
Socket == [ lisp |-> "spad", session |-> "session", hypertex |-> "menu" ]

VARIABLES
    pc,                 \* where sman is: see SmanPcs
    toStart,            \* programs that main has still to start
    spad_process_list,  \* newest first; entries are never removed
    death_signal,
    files,              \* sockets in /tmp
    process,            \* the kernel's table: program and state of every pid
    forks,              \* programs started so far
    terms,              \* SIGTERMs sent to sman so far
    served              \* history: program that died and action taken for it

vars == <<pc, toStart, spad_process_list, death_signal, files, process, forks, terms, served>>

(* "killed": SIGTERM came before the handlers were installed. *)
SmanPcs == {"start", "monitor", "kill", "clean", "exited", "killed"}
States  == {"alive", "term", "zombie"}
NoProcess == [program |-> "none", state |-> "free"]
Entry == [proc_id : Pid, death_action : {DeathAction[p] : p \in Program}, command : Program]

(* main starts Lisp first and its own I/O process last. *)
IfChosen(program, options) == IF program \in options THEN <<program>> ELSE <<>>

StartOrder(options) ==
    <<"lisp", "session">>
        \o IfChosen("xclient", options) \o IfChosen("client", options)
        \o IfChosen("hypertex", options) \o IfChosen("viewman", options)
        \o <<"io">>

Init ==
    /\ pc = "start"
    /\ toStart \in {StartOrder(o) : o \in Options}
    /\ spad_process_list = <<>>
    /\ death_signal = FALSE
    /\ files = {}
    /\ process = [p \in Pid |-> NoProcess]
    /\ forks = 0
    /\ terms = 0
    /\ served = {}

-----------------------------------------------------------------------------
(* The process ids in the list. *)
Listed == {spad_process_list[i].proc_id : i \in DOMAIN spad_process_list}

(***************************************************************************)
(* The kernel takes the next process id, or one that was used before and   *)
(* has been returned by wait().                                            *)
(***************************************************************************)
Assignable(p) == p \in Listed \/ \A q \in Pid \ Listed : p <= q

(***************************************************************************)
(* fork_you: a free process id, and a new entry at the head of the list.   *)
(***************************************************************************)
AddEntry_Last(e) == spad_process_list' = Append(spad_process_list, e)
AddEntry(e) == spad_process_list' = <<e>> \o spad_process_list

Fork(p, program, action) ==
    /\ process[p] = NoProcess
    /\ Assignable(p)
    /\ forks < MaxForks
    /\ process' = [process EXCEPT ![p] = [program |-> program, state |-> "alive"]]
    /\ AddEntry([proc_id |-> p, death_action |-> action, command |-> program])
    /\ forks' = forks + 1

(* main: start the programs one after the other, then become the monitor. *)
StartProgram ==
    /\ pc = "start"
    /\ toStart # <<>>
    /\ \E p \in Pid : Fork(p, Head(toStart), DeathAction[Head(toStart)])
    /\ toStart' = Tail(toStart)
    \* open_server(SessionIOName) follows start_the_FriCAS
    /\ files' = IF Head(toStart) = "lisp" THEN files \cup {"io"} ELSE files
    /\ UNCHANGED <<pc, death_signal, terms, served>>

(* sman_catch_signals *)
BecomeMonitor ==
    /\ pc = "start"
    /\ toStart = <<>>
    /\ pc' = "monitor"
    /\ UNCHANGED <<toStart, spad_process_list, death_signal, files, process, forks, terms, served>>

-----------------------------------------------------------------------------
Zombies == {p \in Pid : process[p].state = "zombie"}
Children == {p \in Pid : process[p] # NoProcess}

(* find_child: the first entry of the list with this process id. *)
FindChild(p) ==
    spad_process_list[CHOOSE i \in DOMAIN spad_process_list :
                         /\ spad_process_list[i].proc_id = p
                         /\ \A j \in 1 .. i - 1 : spad_process_list[j].proc_id # p]

(* wait() returns the dead child p, and its entry says what to do. *)
Reap(p, action) ==
    /\ pc = "monitor"
    /\ p \in Zombies
    /\ FindChild(p).death_action = action
    /\ served' = served \cup {<<process[p].program, action>>}

WaitDie(p) ==
    /\ Reap(p, "Die")
    /\ process' = [process EXCEPT ![p] = NoProcess]
    /\ pc' = "kill"
    /\ UNCHANGED <<toStart, spad_process_list, death_signal, files, forks, terms>>

WaitNothing(p) ==
    /\ Reap(p, "NadaDelShitsky")
    /\ process' = [process EXCEPT ![p] = NoProcess]
    /\ UNCHANGED <<pc, toStart, spad_process_list, death_signal, files, forks, terms>>

(* The command pointer of the entry; start_the_spadclient stores a pointer *)
(* to a local buffer there, which nobody may follow.                       *)
Command(p) == FindChild(p).command

RespawnAction_Nothing == "NadaDelShitsky"
RespawnAction == "DoItAgain"

(* The new process may get the process id of the one that was just reaped. *)
WaitAgain(p) ==
    /\ Reap(p, "DoItAgain")
    /\ forks < MaxForks
    /\ \E q \in Pid :
          /\ q = p \/ process[q] = NoProcess
          /\ Assignable(q)
          /\ process' = [process EXCEPT ![p] = NoProcess,
                                        ![q] = [program |-> Command(p),
                                                state |-> "alive"]]
          /\ AddEntry([proc_id |-> q, death_action |-> RespawnAction,
                       command |-> Command(p)])
    /\ forks' = forks + 1
    /\ UNCHANGED <<pc, toStart, death_signal, files, terms>>

CleanHypertexSocket_None == files' = files
CleanHypertexSocket == files' = files \ {"menu"}

WaitHypertex(p) ==
    /\ Reap(p, "CleanHypertexSocket")
    /\ process' = [process EXCEPT ![p] = NoProcess]
    /\ CleanHypertexSocket
    /\ UNCHANGED <<pc, toStart, spad_process_list, death_signal, forks, terms>>

(***************************************************************************)
(* The branch of monitor_children that looks at death_signal needs wait()  *)
(* to return -1.  It has no action: the handlers restart wait(), and Lisp, *)
(* the session manager or the I/O process is always there to wait for      *)
(* (theorem AlwaysAChild of SmanProofs).                                   *)
(***************************************************************************)
-----------------------------------------------------------------------------
KillAllChildren == Listed

(* kill_all_children: SIGTERM to every process id ever put in the list. *)
KillAll ==
    /\ pc = "kill"
    /\ process' = [p \in Pid |->
                      IF p \in KillAllChildren /\ process[p].state = "alive"
                      THEN [process[p] EXCEPT !.state = "term"] ELSE process[p]]
    /\ pc' = "clean"
    /\ UNCHANGED <<toStart, spad_process_list, death_signal, files, forks, terms, served>>

(* When sman ends, init inherits its children and reaps the dead ones. *)
Orphaned == [p \in Pid |-> IF process[p].state = "zombie" THEN NoProcess ELSE process[p]]

(* clean_up_sockets and exit *)
CleanAndExit ==
    /\ pc = "clean"
    /\ files' = {}
    /\ process' = Orphaned
    /\ pc' = "exited"
    /\ UNCHANGED <<toStart, spad_process_list, death_signal, forks, terms, served>>

SmanNext ==
    \/ StartProgram
    \/ BecomeMonitor
    \/ \E p \in Pid : WaitDie(p) \/ WaitNothing(p) \/ WaitAgain(p) \/ WaitHypertex(p)
    \/ KillAll
    \/ CleanAndExit

-----------------------------------------------------------------------------
(* death_handler once the handlers are installed; the default before that. *)
Term ==
    /\ terms < MaxTerm
    /\ terms' = terms + 1
    /\ \/ pc = "start" /\ pc' = "killed" /\ process' = Orphaned /\ UNCHANGED death_signal
       \/ pc \in {"monitor", "kill", "clean"} /\ death_signal' = TRUE /\ UNCHANGED <<pc, process>>
    /\ UNCHANGED <<toStart, spad_process_list, files, forks, served>>

(* A program opens its server socket, once or again. *)
OpenSocket(p) ==
    /\ process[p].state = "alive"
    /\ process[p].program \in DOMAIN Socket
    /\ files' = files \cup {Socket[process[p].program]}
    /\ UNCHANGED <<pc, toStart, spad_process_list, death_signal, process, forks, terms, served>>

(***************************************************************************)
(* A program ends by itself, by a crash or by the pending SIGTERM.  The    *)
(* I/O process removes the sockets when it ends on an error.               *)
(***************************************************************************)
ProgramEnds(p) ==
    /\ process[p].state \in {"alive", "term"}
    /\ process' = [process EXCEPT ![p] =
                      IF pc \in {"exited", "killed"} THEN NoProcess
                      ELSE [program |-> @.program, state |-> "zombie"]]
    /\ files' \in IF process[p].program = "io" THEN {files, {}} ELSE {files}
    /\ UNCHANGED <<pc, toStart, spad_process_list, death_signal, forks, terms, served>>

ProgramNext == \E p \in Pid : OpenSocket(p) \/ ProgramEnds(p)

Next == SmanNext \/ Term \/ ProgramNext

Spec == Init /\ [][Next]_vars

Pending(p) == process[p].state = "term" /\ ProgramEnds(p)

(* sman is scheduled, and a process with a pending SIGTERM ends. *)
FairSpec == Spec /\ WF_vars(SmanNext) /\ \A p \in Pid : WF_vars(Pending(p))
-----------------------------------------------------------------------------
TypeOK ==
    /\ pc \in SmanPcs
    /\ toStart \in Seq(Program)
    /\ spad_process_list \in Seq(Entry)
    /\ death_signal \in BOOLEAN
    /\ files \subseteq {"spad", "session", "io", "menu"}
    /\ process \in [Pid -> [program : Program, state : States] \cup {NoProcess}]
    /\ forks \in Nat
    /\ terms \in Nat
    /\ served \subseteq (Program \X {DeathAction[x] : x \in Program})

(***************************************************************************)
(* The death action carried out is that of the program that died, although *)
(* entries stay in the list for ever and process ids are used again.       *)
(***************************************************************************)
ServedRight == \A s \in served : s[2] = DeathAction[s[1]]

(***************************************************************************)
(* HyperDoc's socket outlives HyperDoc only until sman has reaped it.      *)
(***************************************************************************)
MenuSocketOwned ==
    pc = "monitor" /\ "menu" \in files => \E p \in Children : process[p].program = "hypertex"

(***************************************************************************)
(* "When a process dies start it up again": the viewport manager comes     *)
(* back every time it dies, as long as the session goes on.                *)
(***************************************************************************)
ViewmanAlive == \E p \in Pid : process[p].program = "viewman" /\ process[p].state = "alive"
ViewmanComesBack ==
    (\E p \in Zombies : process[p].program = "viewman")
        ~> (ViewmanAlive \/ pc # "monitor" \/ forks = MaxForks)

(***************************************************************************)
(* "When a process dies it kills off everything else": after Lisp, the     *)
(* session manager or the I/O process has died under the monitor, all      *)
(* programs end, sman exits and no socket is left behind.                  *)
(***************************************************************************)
SessionEndsTogether ==
    (pc = "monitor" /\ \E p \in Zombies : DeathAction[process[p].program] = "Die")
        ~> (pc = "exited" /\ Children = {} /\ files = {})

(***************************************************************************)
(* What the head of sman.c promises of the death of any program: the       *)
(* viewport manager comes back, the others take the session with them.     *)
(***************************************************************************)
DeathsAreAnswered == ViewmanComesBack /\ SessionEndsTogether

(***************************************************************************)
(* SIGTERM, once its handler is installed, ends the session.               *)
(***************************************************************************)
TermEndsSession == death_signal ~> pc = "exited"
=============================================================================
