----------------------------- MODULE SmanProofs -----------------------------
(***************************************************************************)
(* Theorems about Sman, for every set of process ids, every choice of      *)
(* optional programs and every bound.                                      *)
(*                                                                         *)
(* The list of sman only grows and process ids come back, so an entry says *)
(* nothing about the process that has its id now, unless it is the first   *)
(* entry with that id.  FirstRight, that the first entry with the id of a  *)
(* child is the entry of its program, is what makes ServedRight inductive. *)
(***************************************************************************)
EXTENDS Sman, TLAPS

-----------------------------------------------------------------------------
(* find_child stops at entry i when it looks for process id p. *)
IsFirst(list, i, p) ==
    /\ i \in DOMAIN list
    /\ list[i].proc_id = p
    /\ \A j \in 1 .. i - 1 : list[j].proc_id # p

RightEntry(e, program) == e.death_action = DeathAction[program] /\ e.command = program

FirstRight ==
    \A p \in Pid : process[p] # NoProcess =>
        \E i \in DOMAIN spad_process_list :
            /\ IsFirst(spad_process_list, i, p)
            /\ RightEntry(spad_process_list[i], process[p].program)

(* Lisp is still to be started, or it is a child that nobody has reaped. *)
LispLives ==
    pc \in {"start", "monitor"} =>
        \/ pc = "start" /\ toStart # <<>> /\ Head(toStart) = "lisp"
        \/ \E p \in Pid : process[p] # NoProcess /\ process[p].program = "lisp"

SmanInv == TypeOK /\ FirstRight /\ LispLives /\ ServedRight

-----------------------------------------------------------------------------
LEMMA ConsType ==
  ASSUME NEW S, NEW s \in Seq(S), NEW e \in S
  PROVE  <<e>> \o s \in Seq(S)
OBVIOUS

LEMMA ConcatType ==
  ASSUME NEW S, NEW s \in Seq(S), NEW t \in Seq(S)
  PROVE  s \o t \in Seq(S)
OBVIOUS

LEMMA TailType ==
  ASSUME NEW S, NEW s \in Seq(S), s # <<>>
  PROVE  Tail(s) \in Seq(S) /\ Head(s) \in S
OBVIOUS

LEMMA HeadOfConcat ==
  ASSUME NEW S, NEW s \in Seq(S), NEW t \in Seq(S), s # <<>>
  PROVE  s \o t # <<>> /\ Head(s \o t) = Head(s)
OBVIOUS

(* The first entry with a process id is found, and it is the only one. *)
LEMMA FindChildIs ==
  ASSUME spad_process_list \in Seq(Entry), NEW p, NEW i, IsFirst(spad_process_list, i, p)
  PROVE  FindChild(p) = spad_process_list[i]
<1> DEFINE P(k) == /\ k \in DOMAIN spad_process_list
                   /\ spad_process_list[k].proc_id = p
                   /\ \A j \in 1 .. k - 1 : spad_process_list[j].proc_id # p
<1>1. P(i)
  BY DEF IsFirst
<1>2. ASSUME NEW k, P(k)
      PROVE  k = i
  <2>1. k \in Nat /\ i \in Nat /\ k >= 1 /\ i >= 1
    BY <1>1, <1>2
  <2>2. ~ (k < i)
    BY <1>1, <1>2, <2>1
  <2>3. ~ (i < k)
    BY <1>1, <1>2, <2>1
  <2> QED
    BY <2>1, <2>2, <2>3
<1>3. (CHOOSE k \in DOMAIN spad_process_list :
          /\ spad_process_list[k].proc_id = p
          /\ \A j \in 1 .. k - 1 : spad_process_list[j].proc_id # p) = i
  BY <1>1, <1>2
<1> QED
  BY <1>3 DEF FindChild

(* A new head entry is the first one of its process id ... *)
LEMMA HeadIsFirst ==
  ASSUME NEW list \in Seq(Entry), NEW e \in Entry
  PROVE  /\ IsFirst(<<e>> \o list, 1, e.proc_id)
         /\ (<<e>> \o list)[1] = e
<1>1. <<e>> \o list \in Seq(Entry) /\ Len(<<e>> \o list) = Len(list) + 1
  OBVIOUS
<1>2. (<<e>> \o list)[1] = e /\ 1 \in DOMAIN (<<e>> \o list)
  BY <1>1
<1> QED
  BY <1>2 DEF IsFirst

(* ... and moves the first entries of the others down by one. *)
LEMMA OthersStayFirst ==
  ASSUME NEW list \in Seq(Entry), NEW e \in Entry, NEW p, p # e.proc_id,
         NEW i, IsFirst(list, i, p)
  PROVE  /\ IsFirst(<<e>> \o list, i + 1, p)
         /\ (<<e>> \o list)[i + 1] = list[i]
<1> DEFINE longer == <<e>> \o list
<1>1. /\ i \in 1 .. Len(list)
      /\ list[i].proc_id = p
      /\ \A j \in 1 .. i - 1 : list[j].proc_id # p
  BY DEF IsFirst
<1>2. /\ Len(longer) = Len(list) + 1
      /\ longer \in Seq(Entry)
      /\ longer[1] = e
      /\ \A j \in 1 .. Len(list) : longer[j + 1] = list[j]
  OBVIOUS
<1> HIDE DEF longer
<1>3. i + 1 \in DOMAIN longer /\ longer[i + 1] = list[i]
  BY <1>1, <1>2
<1>4. ASSUME NEW j \in 1 .. (i + 1) - 1
      PROVE  longer[j].proc_id # p
  <2>1. CASE j = 1
    BY <1>2, <2>1
  <2>2. CASE j # 1
    <3>1. j - 1 \in 1 .. i - 1 /\ j - 1 \in 1 .. Len(list) /\ (j - 1) + 1 = j
      BY <1>1, <2>2
    <3>2. longer[j] = list[j - 1]
      BY <1>2, <3>1
    <3> QED
      BY <1>1, <3>1, <3>2
  <2> QED
    BY <2>1, <2>2
<1>5. IsFirst(longer, i + 1, p)
  BY <1>1, <1>3, <1>4 DEF IsFirst
<1> QED
  BY <1>3, <1>5 DEF longer

-----------------------------------------------------------------------------
(* The steps that start no program: children keep their program or go. *)
Shrinks == \A p \in Pid : process'[p] # NoProcess =>
               process[p] # NoProcess /\ process'[p].program = process[p].program

LEMMA ShrinkKeepsRight ==
  ASSUME FirstRight, Shrinks, UNCHANGED spad_process_list
  PROVE  FirstRight'
BY DEF FirstRight, Shrinks

(* A program is started: its entry is new, and the others are as before. *)
LEMMA ForkKeepsRight ==
  ASSUME FirstRight, spad_process_list \in Seq(Entry),
         NEW e \in Entry, spad_process_list' = <<e>> \o spad_process_list,
         RightEntry(e, process'[e.proc_id].program),
         \A p \in Pid \ {e.proc_id} : process'[p] # NoProcess =>
             process[p] # NoProcess /\ process'[p].program = process[p].program
  PROVE  FirstRight'
<1> SUFFICES ASSUME NEW p \in Pid, process'[p] # NoProcess
             PROVE  \E i \in DOMAIN spad_process_list' :
                       /\ IsFirst(spad_process_list', i, p)
                       /\ RightEntry(spad_process_list'[i], process'[p].program)
  BY DEF FirstRight
<1>1. CASE p = e.proc_id
  BY <1>1, HeadIsFirst DEF IsFirst
<1>2. CASE p # e.proc_id
  <2>1. process[p] # NoProcess /\ process'[p].program = process[p].program
    BY <1>2
  <2>2. PICK i \in DOMAIN spad_process_list :
           /\ IsFirst(spad_process_list, i, p)
           /\ RightEntry(spad_process_list[i], process[p].program)
    BY <2>1 DEF FirstRight
  <2>3. /\ IsFirst(spad_process_list', i + 1, p)
        /\ spad_process_list'[i + 1] = spad_process_list[i]
    BY <1>2, <2>2, OthersStayFirst
  <2>4. i + 1 \in DOMAIN spad_process_list'
    BY <2>3 DEF IsFirst
  <2> QED
    BY <2>1, <2>2, <2>3, <2>4
<1> QED
  BY <1>1, <1>2

(* The entry found for a child is that of its program. *)
LEMMA FoundRight ==
  ASSUME TypeOK, FirstRight, NEW p \in Pid, process[p] # NoProcess
  PROVE  RightEntry(FindChild(p), process[p].program)
<1>1. PICK i \in DOMAIN spad_process_list :
         /\ IsFirst(spad_process_list, i, p)
         /\ RightEntry(spad_process_list[i], process[p].program)
  BY DEF FirstRight
<1>2. FindChild(p) = spad_process_list[i]
  BY <1>1, FindChildIs DEF TypeOK
<1> QED
  BY <1>1, <1>2

LEMMA ChildType ==
  ASSUME TypeOK, NEW p \in Pid, process[p] # NoProcess
  PROVE  process[p].program \in Program /\ process[p].state \in States
BY DEF TypeOK

-----------------------------------------------------------------------------
LEMMA IfChosenType ==
  ASSUME NEW o, NEW x \in Program
  PROVE  IfChosen(x, o) \in Seq(Program)
<1>1. CASE x \in o
  <2>1. <<x>> \in Seq(Program)
    OBVIOUS
  <2> QED
    BY <1>1, <2>1 DEF IfChosen
<1>2. CASE x \notin o
  BY <1>2 DEF IfChosen
<1> QED
  BY <1>1, <1>2

LEMMA StartOrderType ==
  ASSUME NEW o
  PROVE  /\ StartOrder(o) \in Seq(Program)
         /\ StartOrder(o) # <<>>
         /\ Head(StartOrder(o)) = "lisp"
<1>1. <<"lisp", "session">> \in Seq(Program) /\ <<"io">> \in Seq(Program)
  BY DEF Program
<1>2. /\ IfChosen("xclient", o) \in Seq(Program)
      /\ IfChosen("client", o) \in Seq(Program)
      /\ IfChosen("hypertex", o) \in Seq(Program)
      /\ IfChosen("viewman", o) \in Seq(Program)
  BY IfChosenType DEF Program
<1> DEFINE s1 == <<"lisp", "session">> \o IfChosen("xclient", o)
           s2 == s1 \o IfChosen("client", o)
           s3 == s2 \o IfChosen("hypertex", o)
           s4 == s3 \o IfChosen("viewman", o)
<1>3. s1 \in Seq(Program) /\ s1 # <<>> /\ Head(s1) = "lisp"
  <2>1. <<"lisp", "session">> # <<>> /\ Head(<<"lisp", "session">>) = "lisp"
    OBVIOUS
  <2> QED
    BY <1>1, <1>2, <2>1, ConcatType, HeadOfConcat
<1> HIDE DEF s1
<1>4. s2 \in Seq(Program) /\ s2 # <<>> /\ Head(s2) = "lisp"
  BY <1>2, <1>3, ConcatType, HeadOfConcat
<1> HIDE DEF s2
<1>5. s3 \in Seq(Program) /\ s3 # <<>> /\ Head(s3) = "lisp"
  BY <1>2, <1>4, ConcatType, HeadOfConcat
<1> HIDE DEF s3
<1>6. s4 \in Seq(Program) /\ s4 # <<>> /\ Head(s4) = "lisp"
  BY <1>2, <1>5, ConcatType, HeadOfConcat
<1> HIDE DEF s4
<1>7. /\ s4 \o <<"io">> \in Seq(Program)
      /\ s4 \o <<"io">> # <<>>
      /\ Head(s4 \o <<"io">>) = "lisp"
  BY <1>1, <1>6, ConcatType, HeadOfConcat
<1> QED
  BY <1>7 DEF s1, s2, s3, s4, StartOrder

LEMMA SmanInit == Init => SmanInv
<1> SUFFICES ASSUME Init
             PROVE  SmanInv
  OBVIOUS
<1>1. toStart \in Seq(Program) /\ toStart # <<>> /\ Head(toStart) = "lisp"
  BY StartOrderType DEF Init
<1>2. TypeOK
  <2>1. process \in [Pid -> [program : Program, state : States] \cup {NoProcess}]
    BY DEF Init
  <2>2. spad_process_list \in Seq(Entry)
    BY DEF Init
  <2>3. death_signal \in BOOLEAN
    BY DEF Init
  <2>4. pc \in SmanPcs /\ forks \in Nat /\ terms \in Nat
    BY DEF Init, SmanPcs
  <2>5. files = {} /\ served = {}
    BY DEF Init
  <2> QED
    BY <1>1, <2>1, <2>2, <2>3, <2>4, <2>5 DEF TypeOK
<1>3. FirstRight
  BY DEF Init, FirstRight
<1>4. LispLives
  BY <1>1 DEF Init, LispLives
<1>5. ServedRight
  BY DEF Init, ServedRight
<1> QED
  BY <1>2, <1>3, <1>4, <1>5 DEF SmanInv

-----------------------------------------------------------------------------
(* The entry that Fork makes. *)
LEMMA ForkEntry ==
  ASSUME NEW p \in Pid, NEW x \in Program
  PROVE  [proc_id |-> p, death_action |-> DeathAction[x], command |-> x] \in Entry
BY DEF Entry

LEMMA StartProgramKeeps == SmanInv /\ StartProgram => SmanInv'
<1> SUFFICES ASSUME SmanInv, StartProgram
             PROVE  SmanInv'
  OBVIOUS
<1> DEFINE x == Head(toStart)
<1>1. x \in Program /\ Tail(toStart) \in Seq(Program)
  BY TailType DEF SmanInv, TypeOK, StartProgram
<1>2. PICK p \in Pid : Fork(p, x, DeathAction[x])
  BY DEF StartProgram
<1> DEFINE e == [proc_id |-> p, death_action |-> DeathAction[x], command |-> x]
           new == [program |-> x, state |-> "alive"]
<1>3. /\ e \in Entry
      /\ e.proc_id = p
      /\ RightEntry(e, x)
  BY <1>1, ForkEntry DEF RightEntry
<1>4. /\ spad_process_list' = <<e>> \o spad_process_list
      /\ process' = [process EXCEPT ![p] = new]
      /\ process[p] = NoProcess
      /\ forks' = forks + 1
  BY <1>2 DEF Fork, AddEntry
<1>5. pc' = pc /\ death_signal' = death_signal /\ terms' = terms /\ served' = served
  BY DEF StartProgram
<1>6. files' = files \/ files' = files \cup {"io"}
  BY DEF StartProgram
<1>7. toStart' = Tail(toStart) /\ pc = "start"
  BY DEF StartProgram
<1> HIDE DEF x
<1>8. process' \in [Pid -> [program : Program, state : States] \cup {NoProcess}]
  <2>1. new \in [program : Program, state : States]
    BY <1>1 DEF States
  <2> QED
    BY <1>4, <2>1 DEF SmanInv, TypeOK
<1>9. process'[p] = new
  BY <1>4 DEF SmanInv, TypeOK
<1>10. TypeOK'
  <2>1. spad_process_list' \in Seq(Entry)
    BY <1>3, <1>4, ConsType DEF SmanInv, TypeOK
  <2>2. forks' \in Nat
    BY <1>4 DEF SmanInv, TypeOK
  <2>3. files' \subseteq {"spad", "session", "io", "menu"}
    BY <1>6 DEF SmanInv, TypeOK
  <2>4. toStart' \in Seq(Program)
    BY <1>1, <1>7
  <2> QED
    BY <1>5, <1>8, <2>1, <2>2, <2>3, <2>4 DEF SmanInv, TypeOK
<1>11. FirstRight'
  <2>1. RightEntry(e, process'[e.proc_id].program)
    BY <1>3, <1>9
  <2>2. \A q \in Pid \ {e.proc_id} : process'[q] # NoProcess =>
             process[q] # NoProcess /\ process'[q].program = process[q].program
    BY <1>3, <1>4 DEF SmanInv, TypeOK
  <2> QED
    BY <1>3, <1>4, <2>1, <2>2, ForkKeepsRight DEF SmanInv, TypeOK
<1>12. LispLives'
  <2>1. CASE x = "lisp"
    BY <1>9, <2>1 DEF LispLives, NoProcess
  <2>2. CASE x # "lisp"
    <3>1. PICK q \in Pid : process[q] # NoProcess /\ process[q].program = "lisp"
      BY <1>7, <2>2 DEF SmanInv, LispLives, x
    <3>2. process'[q] = process[q]
      BY <1>4, <3>1 DEF SmanInv, TypeOK
    <3> QED
      BY <3>1, <3>2 DEF LispLives
  <2> QED
    BY <2>1, <2>2
<1>13. ServedRight'
  BY <1>5 DEF SmanInv, ServedRight
<1> QED
  BY <1>10, <1>11, <1>12, <1>13 DEF SmanInv

LEMMA BecomeMonitorKeeps == SmanInv /\ BecomeMonitor => SmanInv'
<1> SUFFICES ASSUME SmanInv, BecomeMonitor
             PROVE  SmanInv'
  OBVIOUS
<1>1. pc = "start" /\ pc' = "monitor" /\ toStart = <<>>
  BY DEF BecomeMonitor
<1>2. UNCHANGED <<toStart, spad_process_list, death_signal, files, process, forks, terms, served>>
  BY DEF BecomeMonitor
<1>3. TypeOK'
  BY <1>1, <1>2 DEF SmanInv, TypeOK, SmanPcs
<1>4. FirstRight'
  BY <1>2 DEF SmanInv, FirstRight
<1>5. LispLives'
  BY <1>1, <1>2 DEF SmanInv, LispLives
<1>6. ServedRight'
  BY <1>2 DEF SmanInv, ServedRight
<1> QED
  BY <1>3, <1>4, <1>5, <1>6 DEF SmanInv

-----------------------------------------------------------------------------
(* What wait() returns: a child, and the action of its program. *)
LEMMA ReapRight ==
  ASSUME SmanInv, NEW p \in Pid, NEW action, Reap(p, action)
  PROVE  /\ process[p] # NoProcess
         /\ process[p].program \in Program
         /\ action = DeathAction[process[p].program]
         /\ FindChild(p).command = process[p].program
         /\ served' \subseteq (Program \X {DeathAction[x] : x \in Program})
         /\ ServedRight'
<1>1. process[p] # NoProcess
  BY DEF Reap, Zombies, NoProcess
<1>2. process[p].program \in Program
  BY <1>1, ChildType DEF SmanInv
<1>3. RightEntry(FindChild(p), process[p].program)
  BY <1>1, FoundRight DEF SmanInv
<1>4. action = DeathAction[process[p].program] /\ FindChild(p).command = process[p].program
  BY <1>3 DEF Reap, RightEntry
<1>5. served' = served \cup {<<process[p].program, action>>}
  BY DEF Reap
<1>6. served' \subseteq (Program \X {DeathAction[x] : x \in Program})
  BY <1>2, <1>4, <1>5 DEF SmanInv, TypeOK
<1>7. ServedRight'
  BY <1>4, <1>5 DEF SmanInv, ServedRight
<1> QED
  BY <1>1, <1>2, <1>4, <1>6, <1>7

(* Taking a reaped child out of the kernel's table. *)
LEMMA RemovedType ==
  ASSUME TypeOK, NEW p \in Pid, process' = [process EXCEPT ![p] = NoProcess]
  PROVE  /\ process' \in [Pid -> [program : Program, state : States] \cup {NoProcess}]
         /\ Shrinks
BY DEF TypeOK, Shrinks

LEMMA OthersLive ==
  ASSUME SmanInv, NEW p \in Pid, pc = "monitor", process[p].program # "lisp",
         process \in [Pid -> [program : Program, state : States] \cup {NoProcess}],
         \A q \in Pid : process[q] # NoProcess /\ q # p => process'[q] = process[q]
  PROVE  LispLives'
<1>1. PICK q \in Pid : process[q] # NoProcess /\ process[q].program = "lisp"
  BY DEF SmanInv, LispLives
<1>2. process'[q] = process[q]
  BY <1>1
<1> QED
  BY <1>1, <1>2 DEF LispLives

LEMMA LispDies == DeathAction["lisp"] = "Die"
BY DEF DeathAction

LEMMA WaitDieKeeps == ASSUME SmanInv, NEW p \in Pid, WaitDie(p) PROVE SmanInv'
<1>1. Reap(p, "Die")
  BY DEF WaitDie
<1>2. served' \subseteq (Program \X {DeathAction[x] : x \in Program}) /\ ServedRight'
  BY <1>1, ReapRight
<1>3. process' = [process EXCEPT ![p] = NoProcess] /\ pc' = "kill"
  BY DEF WaitDie
<1>4. UNCHANGED <<toStart, spad_process_list, death_signal, files, forks, terms>>
  BY DEF WaitDie
<1>5. process' \in [Pid -> [program : Program, state : States] \cup {NoProcess}] /\ Shrinks
  BY <1>3, RemovedType DEF SmanInv
<1>6. TypeOK'
  BY <1>2, <1>3, <1>4, <1>5 DEF SmanInv, TypeOK, SmanPcs
<1>7. FirstRight'
  BY <1>4, <1>5, ShrinkKeepsRight DEF SmanInv
<1>8. LispLives'
  BY <1>3 DEF LispLives
<1> QED
  BY <1>2, <1>6, <1>7, <1>8 DEF SmanInv

LEMMA WaitNothingKeeps == ASSUME SmanInv, NEW p \in Pid, WaitNothing(p) PROVE SmanInv'
<1>1. Reap(p, "NadaDelShitsky") /\ pc = "monitor"
  BY DEF WaitNothing, Reap
<1>2. /\ served' \subseteq (Program \X {DeathAction[x] : x \in Program})
      /\ ServedRight'
      /\ process[p].program # "lisp"
  BY <1>1, ReapRight, LispDies
<1>3. process' = [process EXCEPT ![p] = NoProcess]
  BY DEF WaitNothing
<1>4. UNCHANGED <<pc, toStart, spad_process_list, death_signal, files, forks, terms>>
  BY DEF WaitNothing
<1>5. process' \in [Pid -> [program : Program, state : States] \cup {NoProcess}] /\ Shrinks
  BY <1>3, RemovedType DEF SmanInv
<1>6. TypeOK'
  BY <1>2, <1>4, <1>5 DEF SmanInv, TypeOK
<1>7. FirstRight'
  BY <1>4, <1>5, ShrinkKeepsRight DEF SmanInv
<1>8. LispLives'
  <2>1. \A q \in Pid : process[q] # NoProcess /\ q # p => process'[q] = process[q]
    BY <1>3 DEF SmanInv, TypeOK
  <2> QED
    BY <1>1, <1>2, <2>1, OthersLive DEF SmanInv, TypeOK
<1> QED
  BY <1>2, <1>6, <1>7, <1>8 DEF SmanInv

LEMMA WaitHypertexKeeps == ASSUME SmanInv, NEW p \in Pid, WaitHypertex(p) PROVE SmanInv'
<1>1. Reap(p, "CleanHypertexSocket") /\ pc = "monitor"
  BY DEF WaitHypertex, Reap
<1>2. /\ served' \subseteq (Program \X {DeathAction[x] : x \in Program})
      /\ ServedRight'
      /\ process[p].program # "lisp"
  BY <1>1, ReapRight, LispDies
<1>3. process' = [process EXCEPT ![p] = NoProcess] /\ files' \subseteq files
  BY DEF WaitHypertex, CleanHypertexSocket
<1>4. UNCHANGED <<pc, toStart, spad_process_list, death_signal, forks, terms>>
  BY DEF WaitHypertex
<1>5. process' \in [Pid -> [program : Program, state : States] \cup {NoProcess}] /\ Shrinks
  BY <1>3, RemovedType DEF SmanInv
<1>6. TypeOK'
  BY <1>2, <1>3, <1>4, <1>5 DEF SmanInv, TypeOK
<1>7. FirstRight'
  BY <1>4, <1>5, ShrinkKeepsRight DEF SmanInv
<1>8. LispLives'
  <2>1. \A q \in Pid : process[q] # NoProcess /\ q # p => process'[q] = process[q]
    BY <1>3 DEF SmanInv, TypeOK
  <2> QED
    BY <1>1, <1>2, <2>1, OthersLive DEF SmanInv, TypeOK
<1> QED
  BY <1>2, <1>6, <1>7, <1>8 DEF SmanInv

(* The program that is started again is the one that died. *)
LEMMA WaitAgainKeeps == ASSUME SmanInv, NEW p \in Pid, WaitAgain(p) PROVE SmanInv'
<1> DEFINE x == process[p].program
<1>1. Reap(p, "DoItAgain") /\ pc = "monitor"
  BY DEF WaitAgain, Reap
<1>2. /\ served' \subseteq (Program \X {DeathAction[y] : y \in Program})
      /\ ServedRight'
      /\ x # "lisp"
      /\ x \in Program
      /\ DeathAction[x] = "DoItAgain"
      /\ Command(p) = x
  BY <1>1, ReapRight, LispDies DEF Command
<1> DEFINE new == [program |-> x, state |-> "alive"]
<1>3. PICK q \in Pid :
         /\ q = p \/ process[q] = NoProcess
         /\ process' = [process EXCEPT ![p] = NoProcess, ![q] = new]
         /\ spad_process_list' = <<[proc_id |-> q, death_action |-> "DoItAgain",
                                    command |-> x]>> \o spad_process_list
  BY <1>2 DEF WaitAgain, AddEntry, RespawnAction
<1>4. UNCHANGED <<pc, toStart, death_signal, files, terms>> /\ forks' = forks + 1
  BY DEF WaitAgain
<1> DEFINE e == [proc_id |-> q, death_action |-> DeathAction[x], command |-> x]
<1>5. e \in Entry /\ e.proc_id = q /\ RightEntry(e, x)
  BY <1>2, ForkEntry DEF RightEntry
<1>6. spad_process_list' = <<e>> \o spad_process_list
  BY <1>2, <1>3
<1> HIDE DEF x, e
<1>7. process' \in [Pid -> [program : Program, state : States] \cup {NoProcess}]
  <2>1. new \in [program : Program, state : States]
    BY <1>2 DEF States
  <2> QED
    BY <1>3, <2>1 DEF SmanInv, TypeOK
<1>8. process'[q] = new
  BY <1>3 DEF SmanInv, TypeOK
<1>9. \A r \in Pid : r # p /\ r # q => process'[r] = process[r]
  BY <1>3 DEF SmanInv, TypeOK
<1>10. p # q => process'[p] = NoProcess
  BY <1>3 DEF SmanInv, TypeOK
<1>11. TypeOK'
  <2>1. spad_process_list' \in Seq(Entry)
    BY <1>5, <1>6, ConsType DEF SmanInv, TypeOK
  <2>2. forks' \in Nat
    BY <1>4 DEF SmanInv, TypeOK
  <2> QED
    BY <1>2, <1>4, <1>7, <2>1, <2>2 DEF SmanInv, TypeOK
<1>12. FirstRight'
  <2>1. RightEntry(e, process'[e.proc_id].program)
    BY <1>5, <1>8
  <2>2. \A r \in Pid \ {e.proc_id} : process'[r] # NoProcess =>
             process[r] # NoProcess /\ process'[r].program = process[r].program
    BY <1>5, <1>9, <1>10
  <2> QED
    BY <1>5, <1>6, <2>1, <2>2, ForkKeepsRight DEF SmanInv, TypeOK
<1>13. LispLives'
  <2>1. \A r \in Pid : process[r] # NoProcess /\ r # p => process'[r] = process[r]
    BY <1>3, <1>9
  <2> QED
    BY <1>1, <1>2, <2>1, OthersLive DEF SmanInv, TypeOK, x
<1> QED
  BY <1>2, <1>11, <1>12, <1>13 DEF SmanInv

(* The steps that end or signal processes outside the monitor's loop. *)
LEMMA EndKeeps ==
  ASSUME SmanInv, Shrinks,
         process' \in [Pid -> [program : Program, state : States] \cup {NoProcess}],
         pc' \in SmanPcs \ {"start", "monitor"},
         files' \subseteq files,
         UNCHANGED <<toStart, spad_process_list, death_signal, forks, served>>,
         terms' \in Nat
  PROVE  SmanInv'
<1>1. TypeOK'
  BY DEF SmanInv, TypeOK
<1>2. FirstRight'
  BY ShrinkKeepsRight DEF SmanInv
<1>3. LispLives'
  BY DEF LispLives
<1>4. ServedRight'
  BY DEF SmanInv, ServedRight
<1> QED
  BY <1>1, <1>2, <1>3, <1>4 DEF SmanInv

LEMMA KillAllKeeps == SmanInv /\ KillAll => SmanInv'
<1> SUFFICES ASSUME SmanInv, KillAll
             PROVE  SmanInv'
  OBVIOUS
<1>1. ASSUME NEW p \in Pid
      PROVE  /\ process'[p] \in [program : Program, state : States] \cup {NoProcess}
             /\ process'[p] # NoProcess =>
                   process[p] # NoProcess /\ process'[p].program = process[p].program
  <2>1. CASE p \in KillAllChildren /\ process[p].state = "alive"
    <3>1. process'[p] = [process[p] EXCEPT !.state = "term"]
      BY <2>1 DEF KillAll
    <3>2. process[p] # NoProcess
      BY <2>1 DEF NoProcess
    <3>3. process[p] \in [program : Program, state : States]
      BY <3>2 DEF SmanInv, TypeOK
    <3> QED
      BY <3>1, <3>2, <3>3 DEF States
  <2>2. CASE ~ (p \in KillAllChildren /\ process[p].state = "alive")
    <3>1. process'[p] = process[p]
      BY <2>2 DEF KillAll
    <3> QED
      BY <3>1 DEF SmanInv, TypeOK
  <2> QED
    BY <2>1, <2>2
<1>2. process' \in [Pid -> [program : Program, state : States] \cup {NoProcess}]
  BY <1>1 DEF KillAll
<1>3. Shrinks
  BY <1>1 DEF Shrinks
<1>4. terms' \in Nat /\ files' \subseteq files
  BY DEF KillAll, SmanInv, TypeOK
<1> QED
  BY <1>2, <1>3, <1>4, EndKeeps DEF KillAll, SmanPcs

LEMMA OrphanedType ==
  ASSUME SmanInv, process' = Orphaned
  PROVE  /\ process' \in [Pid -> [program : Program, state : States] \cup {NoProcess}]
         /\ Shrinks
<1>1. \A p \in Pid : process'[p] = NoProcess \/ process'[p] = process[p]
  BY DEF Orphaned
<1> QED
  BY <1>1 DEF Orphaned, Shrinks, SmanInv, TypeOK

LEMMA CleanAndExitKeeps == SmanInv /\ CleanAndExit => SmanInv'
<1> SUFFICES ASSUME SmanInv, CleanAndExit
             PROVE  SmanInv'
  OBVIOUS
<1>1. terms' \in Nat /\ files' \subseteq files
  BY DEF CleanAndExit, SmanInv, TypeOK
<1> QED
  BY <1>1, EndKeeps, OrphanedType DEF CleanAndExit, SmanPcs

LEMMA TermKeeps == SmanInv /\ Term => SmanInv'
<1> SUFFICES ASSUME SmanInv, Term
             PROVE  SmanInv'
  OBVIOUS
<1>1. terms' \in Nat
  BY DEF Term, SmanInv, TypeOK
<1>2. CASE pc' = "killed" /\ process' = Orphaned /\ UNCHANGED death_signal
  <2>1. files' \subseteq files
    BY DEF Term
  <2> QED
    BY <1>1, <1>2, <2>1, EndKeeps, OrphanedType DEF Term, SmanPcs
<1>3. CASE death_signal' = TRUE /\ UNCHANGED <<pc, process>>
  <2>1. UNCHANGED <<toStart, spad_process_list, files, forks, served>>
    BY DEF Term
  <2>2. TypeOK'
    BY <1>1, <1>3, <2>1 DEF SmanInv, TypeOK
  <2>3. FirstRight'
    BY <1>3, <2>1 DEF SmanInv, FirstRight
  <2>4. LispLives'
    BY <1>3, <2>1 DEF SmanInv, LispLives
  <2>5. ServedRight'
    BY <2>1 DEF SmanInv, ServedRight
  <2> QED
    BY <2>2, <2>3, <2>4, <2>5 DEF SmanInv
<1> QED
  BY <1>2, <1>3 DEF Term

LEMMA OpenSocketKeeps == ASSUME SmanInv, NEW p \in Pid, OpenSocket(p) PROVE SmanInv'
<1>1. UNCHANGED <<pc, toStart, spad_process_list, death_signal, process, forks, terms, served>>
  BY DEF OpenSocket
<1>2. files' \subseteq {"spad", "session", "io", "menu"}
  <2>1. Socket[process[p].program] \in {"spad", "session", "menu"}
    BY DEF OpenSocket, Socket
  <2> QED
    BY <2>1 DEF OpenSocket, SmanInv, TypeOK
<1>3. TypeOK'
  BY <1>1, <1>2 DEF SmanInv, TypeOK
<1>4. FirstRight' /\ LispLives' /\ ServedRight'
  BY <1>1 DEF SmanInv, FirstRight, LispLives, ServedRight
<1> QED
  BY <1>3, <1>4 DEF SmanInv

(* A program that ends stays a child until it is reaped. *)
LEMMA ProgramEndsKeeps == ASSUME SmanInv, NEW p \in Pid, ProgramEnds(p) PROVE SmanInv'
<1>1. UNCHANGED <<pc, toStart, spad_process_list, death_signal, forks, terms, served>>
  BY DEF ProgramEnds
<1>2. process[p] # NoProcess /\ process[p] \in [program : Program, state : States]
  BY DEF ProgramEnds, NoProcess, SmanInv, TypeOK
<1> DEFINE dead == [program |-> process[p].program, state |-> "zombie"]
<1>3. dead \in [program : Program, state : States] /\ dead # NoProcess
  BY <1>2 DEF States, NoProcess
<1>4. \/ process' = [process EXCEPT ![p] = NoProcess] /\ pc \in {"exited", "killed"}
      \/ process' = [process EXCEPT ![p] = dead]
  BY DEF ProgramEnds
<1> HIDE DEF dead
<1>5. process' \in [Pid -> [program : Program, state : States] \cup {NoProcess}]
  BY <1>3, <1>4 DEF SmanInv, TypeOK
<1>6. \A q \in Pid \ {p} : process'[q] = process[q]
  BY <1>4 DEF SmanInv, TypeOK
<1>7. \/ process'[p] = NoProcess /\ pc \in {"exited", "killed"}
      \/ process'[p] = dead
  BY <1>4 DEF SmanInv, TypeOK
<1>8. dead.program = process[p].program
  BY DEF dead
<1>9. Shrinks
  BY <1>2, <1>6, <1>7, <1>8 DEF Shrinks
<1>10. files' \subseteq {"spad", "session", "io", "menu"}
  BY DEF ProgramEnds, SmanInv, TypeOK
<1>11. TypeOK'
  BY <1>1, <1>5, <1>10 DEF SmanInv, TypeOK
<1>12. FirstRight'
  BY <1>1, <1>9, ShrinkKeepsRight DEF SmanInv
<1>13. LispLives'
  <2>1. SUFFICES ASSUME pc \in {"start", "monitor"},
                        NEW q \in Pid, process[q] # NoProcess, process[q].program = "lisp"
                 PROVE  process'[q] # NoProcess /\ process'[q].program = "lisp"
    BY <1>1 DEF SmanInv, LispLives
  <2>2. CASE q = p
    BY <1>3, <1>7, <1>8, <2>1, <2>2
  <2>3. CASE q # p
    BY <1>6, <2>1, <2>3
  <2> QED
    BY <2>2, <2>3
<1>14. ServedRight'
  BY <1>1 DEF SmanInv, ServedRight
<1> QED
  BY <1>11, <1>12, <1>13, <1>14 DEF SmanInv

-----------------------------------------------------------------------------
LEMMA SmanStep == SmanInv /\ [Next]_vars => SmanInv'
<1> SUFFICES ASSUME SmanInv, [Next]_vars
             PROVE  SmanInv'
  OBVIOUS
<1>1. CASE SmanNext
  BY <1>1, StartProgramKeeps, BecomeMonitorKeeps, WaitDieKeeps, WaitNothingKeeps,
     WaitAgainKeeps, WaitHypertexKeeps, KillAllKeeps, CleanAndExitKeeps DEF SmanNext
<1>2. CASE Term
  BY <1>2, TermKeeps
<1>3. CASE ProgramNext
  BY <1>3, OpenSocketKeeps, ProgramEndsKeeps DEF ProgramNext
<1>4. CASE UNCHANGED vars
  BY <1>4 DEF vars, SmanInv, TypeOK, FirstRight, LispLives, ServedRight
<1> QED
  BY <1>1, <1>2, <1>3, <1>4 DEF Next

THEOREM SmanInvariant == Spec => []SmanInv
BY SmanInit, SmanStep, PTL DEF Spec

(* The variables of sman are well typed, for any number of processes. *)
THEOREM SmanTypeCorrect == Spec => []TypeOK
<1>1. SmanInv => TypeOK
  BY DEF SmanInv
<1> QED
  BY <1>1, SmanInvariant, PTL

(* However often process ids come back, monitor_children carries out the   *)
(* action of the program that died (sman.c: find_child, fork_you).         *)
THEOREM DeathActionIsRight == Spec => []ServedRight
<1>1. SmanInv => ServedRight
  BY DEF SmanInv
<1> QED
  BY <1>1, SmanInvariant, PTL

(* While sman monitors, it has a child: wait() never fails for want of     *)
(* one, so the branch of monitor_children that looks at death_signal is    *)
(* never taken (sman.c, monitor_children).                                 *)
THEOREM AlwaysAChild == Spec => [](pc = "monitor" => Children # {})
<1>1. SmanInv => (pc = "monitor" => Children # {})
  BY DEF SmanInv, LispLives, Children
<1> QED
  BY <1>1, SmanInvariant, PTL

-----------------------------------------------------------------------------
(***************************************************************************)
(* HyperDoc's socket.  Also during the start, when a reaped child is not   *)
(* yet possible, the socket is there only while HyperDoc is a child, alive *)
(* or not yet waited for: this is MenuSocketOwned made inductive.          *)
(***************************************************************************)
HypertexIsChild == \E p \in Pid : process[p] # NoProcess /\ process[p].program = "hypertex"

MenuOwned == pc \in {"start", "monitor"} /\ "menu" \in files => HypertexIsChild

(* HyperDoc stays a child if no process of its is taken away. *)
LEMMA HypertexStays ==
  ASSUME HypertexIsChild,
         \A p \in Pid : process[p] # NoProcess /\ process[p].program = "hypertex" =>
             process'[p] # NoProcess /\ process'[p].program = "hypertex"
  PROVE  HypertexIsChild'
BY DEF HypertexIsChild

(* HyperDoc has an action of its own. *)
LEMMA OnlyHypertexCleans ==
  ASSUME NEW x \in Program, DeathAction[x] # "CleanHypertexSocket"
  PROVE  x # "hypertex"
BY DEF DeathAction

LEMMA StartKeepsMenu == ASSUME SmanInv, MenuOwned, StartProgram PROVE MenuOwned'
<1>1. PICK p \in Pid : Fork(p, Head(toStart), DeathAction[Head(toStart)])
  BY DEF StartProgram
<1>2. process[p] = NoProcess /\ process' = [process EXCEPT ![p] =
          [program |-> Head(toStart), state |-> "alive"]]
  BY <1>1 DEF Fork
<1>3. \A q \in Pid \ {p} : process'[q] = process[q]
  BY <1>2 DEF SmanInv, TypeOK
<1>4. \A q \in Pid : process[q] # NoProcess /\ process[q].program = "hypertex" =>
          process'[q] # NoProcess /\ process'[q].program = "hypertex"
  BY <1>2, <1>3
<1>5. pc' = pc /\ ("menu" \in files' => "menu" \in files)
  BY DEF StartProgram
<1> QED
  BY <1>4, <1>5, HypertexStays DEF MenuOwned

(* A reaped program other than HyperDoc leaves the children of HyperDoc. *)
LEMMA ReapKeepsMenu ==
  ASSUME SmanInv, MenuOwned, pc = "monitor", NEW p \in Pid,
         process[p].program # "hypertex", files' = files,
         \A q \in Pid : process[q] # NoProcess /\ q # p => process'[q] = process[q]
  PROVE  MenuOwned'
<1>1. \A q \in Pid : process[q] # NoProcess /\ process[q].program = "hypertex" =>
          process'[q] # NoProcess /\ process'[q].program = "hypertex"
  OBVIOUS
<1> QED
  BY <1>1, HypertexStays DEF MenuOwned

LEMMA WaitNothingKeepsMenu ==
  ASSUME SmanInv, MenuOwned, NEW p \in Pid, WaitNothing(p) PROVE MenuOwned'
<1>1. Reap(p, "NadaDelShitsky") /\ pc = "monitor"
  BY DEF WaitNothing, Reap
<1>2. process[p].program # "hypertex"
  BY <1>1, ReapRight, OnlyHypertexCleans
<1>3. \A q \in Pid : process[q] # NoProcess /\ q # p => process'[q] = process[q]
  BY DEF WaitNothing, SmanInv, TypeOK
<1>4. files' = files
  BY DEF WaitNothing
<1> QED
  BY <1>1, <1>2, <1>3, <1>4, ReapKeepsMenu

LEMMA WaitAgainKeepsMenu ==
  ASSUME SmanInv, MenuOwned, NEW p \in Pid, WaitAgain(p) PROVE MenuOwned'
<1>1. Reap(p, "DoItAgain") /\ pc = "monitor"
  BY DEF WaitAgain, Reap
<1>2. process[p].program # "hypertex"
  BY <1>1, ReapRight, OnlyHypertexCleans
<1>3. PICK q \in Pid :
         /\ q = p \/ process[q] = NoProcess
         /\ process' = [process EXCEPT ![p] = NoProcess,
                                       ![q] = [program |-> Command(p), state |-> "alive"]]
  BY DEF WaitAgain
<1>4. \A r \in Pid : process[r] # NoProcess /\ r # p => process'[r] = process[r]
  BY <1>3 DEF SmanInv, TypeOK
<1>5. files' = files
  BY DEF WaitAgain
<1> QED
  BY <1>1, <1>2, <1>4, <1>5, ReapKeepsMenu

(* Only HyperDoc opens the socket, and it is alive then. *)
LEMMA OpenSocketKeepsMenu ==
  ASSUME SmanInv, MenuOwned, NEW p \in Pid, OpenSocket(p) PROVE MenuOwned'
<1>1. pc' = pc /\ process' = process
  BY DEF OpenSocket
<1>2. CASE process[p].program = "hypertex"
  <2>1. process[p] # NoProcess
    BY DEF OpenSocket, NoProcess
  <2> QED
    BY <1>1, <1>2, <2>1 DEF MenuOwned, HypertexIsChild
<1>3. CASE process[p].program # "hypertex"
  <2>1. Socket[process[p].program] # "menu"
    BY <1>3 DEF OpenSocket, Socket
  <2>2. "menu" \in files' => "menu" \in files
    BY <2>1 DEF OpenSocket
  <2> QED
    BY <1>1, <2>2 DEF MenuOwned, HypertexIsChild
<1> QED
  BY <1>2, <1>3

(* Dead is not gone: under the monitor HyperDoc waits for wait(). *)
LEMMA ProgramEndsKeepsMenu ==
  ASSUME SmanInv, MenuOwned, NEW p \in Pid, ProgramEnds(p) PROVE MenuOwned'
<1> SUFFICES ASSUME pc \in {"start", "monitor"}
             PROVE  MenuOwned'
  BY DEF ProgramEnds, MenuOwned
<1> DEFINE dead == [program |-> process[p].program, state |-> "zombie"]
<1>1. process' = [process EXCEPT ![p] = dead]
  BY DEF ProgramEnds
<1>2. dead # NoProcess /\ dead.program = process[p].program
  BY DEF NoProcess, ProgramEnds
<1> HIDE DEF dead
<1>3. process'[p] = dead /\ \A q \in Pid \ {p} : process'[q] = process[q]
  BY <1>1 DEF SmanInv, TypeOK
<1>4. \A q \in Pid : process[q] # NoProcess /\ process[q].program = "hypertex" =>
          process'[q] # NoProcess /\ process'[q].program = "hypertex"
  BY <1>2, <1>3
<1>5. pc' = pc /\ ("menu" \in files' => "menu" \in files)
  BY DEF ProgramEnds
<1> QED
  BY <1>4, <1>5, HypertexStays DEF MenuOwned

LEMMA MenuStep == SmanInv /\ MenuOwned /\ [Next]_vars => MenuOwned'
<1> SUFFICES ASSUME SmanInv, MenuOwned, [Next]_vars
             PROVE  MenuOwned'
  OBVIOUS
<1>1. CASE SmanNext
  <2>1. CASE StartProgram
    BY <2>1, StartKeepsMenu
  <2>2. CASE BecomeMonitor
    BY <2>2 DEF BecomeMonitor, MenuOwned, HypertexIsChild
  <2>3. ASSUME NEW p \in Pid, WaitDie(p)
        PROVE  MenuOwned'
    BY <2>3 DEF WaitDie, MenuOwned
  <2>4. ASSUME NEW p \in Pid, WaitHypertex(p)
        PROVE  MenuOwned'
    BY <2>4 DEF WaitHypertex, CleanHypertexSocket, MenuOwned
  <2>5. CASE KillAll
    BY <2>5 DEF KillAll, MenuOwned
  <2>6. CASE CleanAndExit
    BY <2>6 DEF CleanAndExit, MenuOwned
  <2> QED
    BY <1>1, <2>1, <2>2, <2>3, <2>4, <2>5, <2>6,
       WaitNothingKeepsMenu, WaitAgainKeepsMenu DEF SmanNext
<1>2. CASE Term
  BY <1>2 DEF Term, MenuOwned, HypertexIsChild
<1>3. CASE ProgramNext
  BY <1>3, OpenSocketKeepsMenu, ProgramEndsKeepsMenu DEF ProgramNext
<1>4. CASE UNCHANGED vars
  BY <1>4 DEF vars, MenuOwned, HypertexIsChild
<1> QED
  BY <1>1, <1>2, <1>3, <1>4 DEF Next

(* Under the monitor HyperDoc's socket is in the file system only while    *)
(* HyperDoc is a child, whatever other programs die and come back under    *)
(* old process ids (sman.c: monitor_children, clean_hypertex_socket).      *)
THEOREM MenuSocketIsOwned == Spec => []MenuSocketOwned
<1>1. Init => MenuOwned
  BY DEF Init, MenuOwned
<1>2. MenuOwned => MenuSocketOwned
  BY DEF MenuOwned, MenuSocketOwned, HypertexIsChild, Children
<1> QED
  BY <1>1, <1>2, MenuStep, SmanInvariant, PTL DEF Spec
=============================================================================
