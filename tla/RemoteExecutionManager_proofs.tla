---------------------- MODULE RemoteExecutionManager_proofs ----------------------
(***************************************************************************)
(* Theorems about RemoteExecutionManager for every set of files, every     *)
(* list of machines and every number of failures of fork().                *)
(***************************************************************************)
EXTENDS RemoteExecutionManager, FiniteSetTheorems, TLAPS

(***************************************************************************)
(* Type correctness.                                                       *)
(***************************************************************************)

\* Launch keeps the two queues, the machines and the tasks well typed.
LEMMA LaunchType ==
  ASSUME TypeOK, delayed # <<>>,
         NEW r \in Seq(Files \union {Null}), NEW m \in Machine \union {Null},
         Launch(r, m)
  PROVE  /\ delayed' \in Seq(Files)
         /\ remote' \in Seq(Files \union {Null})
         /\ machine' \in [Files -> Machine \union {Null}]
         /\ task' \in [Files -> TaskStates]
<1> DEFINE n == Len(delayed)
<1>1. n \in Nat \ {0} /\ delayed[n] \in Files
  BY DEF TypeOK
<1>2. delayed' \in Seq(Files)
  BY <1>1 DEF Launch, TypeOK
<1>3. remote' \in Seq(Files \union {Null})
  BY <1>1 DEF Launch
<1>4. machine' \in [Files -> Machine \union {Null}] /\ task' \in [Files -> TaskStates]
  BY <1>1 DEF Launch, TypeOK, TaskStates
<1>. QED BY <1>2, <1>3, <1>4

\* search_offset + 1 stays an index of remote_machines.
LEMMA OffsetType ==
  ASSUME search_offset \in Machine
  PROVE  (search_offset + 1) % NumMachines \in Machine
BY MachinesAssumption DEF Machine

LEMMA InitType == Init => TypeOK
<1> SUFFICES ASSUME Init PROVE TypeOK
  OBVIOUS
<1> USE DEF Init
<1>1. pc \in MainStates /\ task \in [Files -> TaskStates] /\ child \in [Files -> ChildStates]
  BY DEF MainStates, TaskStates, ChildStates
<1>2. slots \in [Machine -> Nat] /\ search_offset \in Machine
  BY MachinesAssumption DEF Machine
<1>3. delayed \in Seq(Files) /\ remote \in Seq(Files \union {Null})
  OBVIOUS
<1>4. forkFailures \in 0..MaxForkFailures
  BY ForkAssumption
<1>5. pid \in [Files -> BOOLEAN] /\ exit_value \in [Files -> {0, 1, 255}]
      /\ machine \in [Files -> Machine \union {Null}]
  OBVIOUS
<1>6. current \in Nat \ {0} /\ kills \subseteq Files \union {Null}
  OBVIOUS
<1>7. doomed \in BOOLEAN /\ expected_sat \in BOOLEAN
  OBVIOUS
<1>8. result \in {"none", "OK", "ERR"} /\ serializer \in Files \union {Main, Null}
  OBVIOUS
<1>. HIDE DEF Init
<1>. QED
  BY <1>1, <1>2, <1>3, <1>4, <1>5, <1>6, <1>7, <1>8 DEF TypeOK

LEMMA NextType == TypeOK /\ [Next]_vars => TypeOK'
<1> SUFFICES ASSUME TypeOK, [Next]_vars PROVE TypeOK'
  OBVIOUS
<1> USE DEF TypeOK
<1>1. ASSUME NEW f \in Files, Dispatch(f) PROVE TypeOK'
  BY <1>1 DEF Dispatch, mainVars, taskVars, killVars
<1>2. ASSUME Joined PROVE TypeOK'
  BY <1>2 DEF Joined, queueVars, taskVars, killVars, MainStates
<1>3. ASSUME ClearEnter PROVE TypeOK'
  BY <1>3 DEF ClearEnter, queueVars, taskVars, killVars, MainStates
<1>4. ASSUME NEW m \in Machine, FillSlot(m) PROVE TypeOK'
  <2>1. slots' \in [Machine -> Nat]
    BY <1>4 DEF FillSlot, IsNextMachine
  <2>2. search_offset' \in Machine
    BY <1>4, OffsetType DEF FillSlot
  <2>. QED
    BY <1>4, <2>1, <2>2, LaunchType DEF FillSlot, mainVars, killVars
<1>5. ASSUME FillOver PROVE TypeOK'
  BY <1>5 DEF FillOver, queueVars, taskVars, killVars, MainStates
<1>6. ASSUME ClearDone PROVE TypeOK'
  BY <1>6 DEF ClearDone, queueVars, taskVars, killVars, MainStates
<1>7. ASSUME NEW i \in DOMAIN remote, Collect(i) PROVE TypeOK'
  <2> DEFINE r == [remote EXCEPT ![i] = Null]
  <2>1. r \in Seq(Files \union {Null}) /\ remote[i] \in Files
    BY <1>7 DEF Collect, IsFirstOutstanding, Outstanding
  <2>2. /\ delayed' \in Seq(Files)
        /\ remote' \in Seq(Files \union {Null})
        /\ machine' \in [Files -> Machine \union {Null}]
        /\ task' \in [Files -> TaskStates]
    <3>1. CASE delayed = <<>>
      <4>1. remote' = r /\ UNCHANGED <<delayed, machine, task>>
        BY <1>7, <3>1 DEF Collect
      <4>. QED BY <2>1, <4>1
    <3>2. CASE delayed # <<>>
      <4>1. Launch(r, machine[remote[i]])
        BY <1>7, <3>2 DEF Collect
      <4>2. machine[remote[i]] \in Machine \union {Null}
        BY <2>1
      <4>. QED BY <2>1, <3>2, <4>1, <4>2, LaunchType
    <3>. QED BY <3>1, <3>2
  <2>3. /\ pc' \in MainStates /\ serializer' = Null
        /\ UNCHANGED <<expected_sat, result, slots, search_offset, pid, child,
                       exit_value, killVars, forkFailures>>
    BY <1>7 DEF Collect, MainStates
  <2>. QED
    BY <2>2, <2>3 DEF killVars
<1>8. ASSUME NEW i \in DOMAIN remote, CollectThrow(i) PROVE TypeOK'
  BY <1>8 DEF CollectThrow, queueVars, taskVars, killVars, MainStates
<1>9. ASSUME MainKillEnter PROVE TypeOK'
  BY <1>9 DEF MainKillEnter, queueVars, taskVars, MainStates
<1>10. ASSUME NEW f \in Files, TaskKillEnter(f) PROVE TypeOK'
  BY <1>10 DEF TaskKillEnter, mainVars, queueVars, TaskStates
<1>11. ASSUME NEW t \in Files \union {Main}, KillStep(t) PROVE TypeOK'
  BY <1>11 DEF KillStep, mainVars, queueVars, taskVars
<1>12. ASSUME NEW t \in Files \union {Main}, KillForkFails(t) PROVE TypeOK'
  BY ForkAssumption, <1>12 DEF KillForkFails, mainVars, queueVars, taskVars, Outstanding
<1>13. ASSUME MainKillExit PROVE TypeOK'
  BY <1>13 DEF MainKillExit, queueVars, taskVars, killVars, MainStates
<1>14. ASSUME NEW f \in Files, TaskKillExit(f) PROVE TypeOK'
  BY <1>14 DEF TaskKillExit, mainVars, queueVars, TaskStates
<1>15. ASSUME Destroy PROVE TypeOK'
  BY <1>15 DEF Destroy, queueVars, taskVars, killVars, MainStates
<1>16. ASSUME NEW f \in Files, ForkChild(f) PROVE TypeOK'
  BY <1>16 DEF ForkChild, mainVars, queueVars, killVars, TaskStates, ChildStates
<1>17. ASSUME NEW f \in Files, ForkFails(f) PROVE TypeOK'
  BY ForkAssumption, <1>17 DEF ForkFails, mainVars, queueVars, killVars, TaskStates
<1>18. ASSUME NEW f \in Files, SetPid(f) PROVE TypeOK'
  BY <1>18 DEF SetPid, mainVars, queueVars, killVars, TaskStates
<1>19. ASSUME NEW f \in Files, WaitPid(f) PROVE TypeOK'
  BY <1>19 DEF WaitPid, mainVars, queueVars, killVars, TaskStates, ExitStatus, ChildStates
<1>20. ASSUME NEW f \in Files, ReleaseSlot(f) PROVE TypeOK'
  <2>1. slots' \in [Machine -> Nat]
    <3>1. slots' = [m \in Machine |-> IF m = machine[f] THEN slots[m] + 1 ELSE slots[m]]
      BY <1>20 DEF ReleaseSlot
    <3>. QED BY <3>1
  <2>. QED
    BY <1>20, <2>1 DEF ReleaseSlot, mainVars, killVars, TaskStates
<1>21. ASSUME NEW f \in Files, ChildExits(f) PROVE TypeOK'
  BY <1>21 DEF ChildExits, mainVars, queueVars, killVars, ChildStates
<1>22. ASSUME NEW f \in Files, DeliverKill(f) PROVE TypeOK'
  BY <1>22 DEF DeliverKill, mainVars, queueVars, ChildStates
<1>23. ASSUME DeliverGroupKill PROVE TypeOK'
  BY <1>23 DEF DeliverGroupKill, queueVars, taskVars, killVars, MainStates
<1>24. ASSUME Terminating PROVE TypeOK'
  BY <1>24 DEF Terminating, vars, mainVars, queueVars, taskVars, killVars
<1>25. ASSUME UNCHANGED vars PROVE TypeOK'
  BY <1>25 DEF vars, mainVars, queueVars, taskVars, killVars
<1>. QED
  BY <1>1, <1>2, <1>3, <1>4, <1>5, <1>6, <1>7, <1>8, <1>9, <1>10, <1>11, <1>12, <1>13, <1>14, <1>15, <1>16, <1>17, <1>18, <1>19, <1>20, <1>21, <1>22, <1>23, <1>24, <1>25
  DEF Next, MainStep, TaskStep

\* In every reachable state of every instance the variables have their types.
THEOREM TypeCorrect == Spec => []TypeOK
BY InitType, NextType, PTL DEF Spec

(***************************************************************************)
(* The inductive invariant behind VerdictSound and NoDispatchLost.         *)
(***************************************************************************)

\* Where a dispatch is, and what its task is doing, agree: the queues hold each
\* file at most once, delayed_dispatches only files whose task has not started,
\* remote_dispatches every file whose task is under way.
QueueInv ==
  /\ \A i, j \in DOMAIN delayed : delayed[i] = delayed[j] => i = j
  /\ \A i, j \in Outstanding : remote[i] = remote[j] => i = j
  /\ \A i \in DOMAIN delayed : task[delayed[i]] = "idle"
  /\ \A i \in Outstanding : task[remote[i]] # "idle"
  /\ pc = "join" => remote = <<>> /\ kills = {} /\ \A f \in Files : task[f] = "idle"
  /\ pc # "join" => \A f \in Files : task[f] = "idle" => f \in Range(delayed)
  /\ \A f \in Files : task[f] \notin {"idle", "returned"} => f \in Range(remote)

\* A task past waitpid has a process that has ended, and read its exit status.
ProcessInv ==
  \A f \in Files :
    /\ task[f] \in {"idle", "fork"} => child[f] = "none"
    /\ task[f] \in {"pid", "waitpid"} => child[f] # "none"
    /\ task[f] \in {"release", "returned"} =>
         /\ child[f] \in {"sat", "unsat", "failed", "killed"}
         /\ exit_value[f] = ExitStatus(child[f])
    /\ task[f] \in {"kill", "killing"} => forkFailures > 0

\* A machine added with a slot has one free, or a task that will release one.
SlotInv ==
  \A m \in Machine : Slots[m] > 0 =>
    slots[m] > 0 \/ \E f \in Files : machine[f] = m /\ task[f] \notin {"idle", "returned"}

\* What the main thread has concluded from the answers it has collected.
DecisionInv ==
  /\ pc \in {"clear", "fill", "wait"} =>
       \A f \in Files : task[f] = "returned" /\ f \notin Range(remote) => child[f] = "sat"
  /\ pc = "wait" => delayed = <<>> \/ Outstanding # {}
  /\ pc \in {"join", "clear", "fill", "wait", "kill", "killing"} => result = "none"
  /\ pc \in {"kill", "killing"} => \E f \in Files : NotSat(f)

IInv == /\ QueueInv
        /\ ProcessInv
        /\ SlotInv
        /\ DecisionInv
        /\ VerdictSound
        /\ KillsJustified

\* After Launch, with some entries of finished dispatches cleared in r, the
\* launched file has moved from the end of delayed_dispatches to the end of
\* remote_dispatches and every other file is where it was.
LEMMA LaunchQueue ==
  ASSUME TypeOK, QueueInv, delayed # <<>>, pc # "join", pc' # "join",
         NEW r \in Seq(Files \union {Null}), NEW m,
         Len(r) = Len(remote),
         \A i \in DOMAIN remote :
            r[i] = remote[i] \/ (r[i] = Null /\ task[remote[i]] = "returned"),
         Launch(r, m)
  PROVE  QueueInv'
<1> DEFINE n == Len(delayed)
           file == delayed[n]
           k == Len(remote) + 1
<1>1. n \in Nat \ {0} /\ file \in Files /\ file # Null /\ task[file] = "idle"
  BY FilesAssumption DEF TypeOK, QueueInv
<1>2. /\ delayed' \in Seq(Files) /\ DOMAIN delayed' = 1..(n - 1)
      /\ \A i \in 1..(n - 1) : delayed'[i] = delayed[i] /\ delayed'[i] # file
  <2>1. delayed' = SubSeq(delayed, 1, n - 1)
    BY DEF Launch
  <2>2. delayed' \in Seq(Files) /\ DOMAIN delayed' = 1..(n - 1)
        /\ \A i \in 1..(n - 1) : delayed'[i] = delayed[i]
    BY <1>1, <2>1 DEF TypeOK
  <2>3. \A i \in 1..(n - 1) : delayed[i] # file
    BY <1>1 DEF QueueInv, TypeOK
  <2>. QED BY <2>2, <2>3
<1>3. /\ k \in Nat \ {0}
      /\ remote' \in Seq(Files \union {Null}) /\ DOMAIN remote' = 1..k /\ remote'[k] = file
      /\ DOMAIN remote = 1..(k - 1)
      /\ \A i \in 1..(k - 1) : remote'[i] = r[i]
  <2>1. remote' = Append(r, file)
    BY DEF Launch
  <2>. QED BY <1>1, <2>1 DEF TypeOK
<1>4. task' \in [Files -> TaskStates]
      /\ task'[file] = "fork" /\ \A f \in Files \ {file} : task'[f] = task[f]
  BY <1>1 DEF Launch, TypeOK, TaskStates
<1>5. \A i \in Outstanding : remote[i] \in Files /\ remote[i] # file
  BY <1>1 DEF Outstanding, TypeOK, QueueInv
<1>6. \A i \in Outstanding' : i = k \/ (i \in Outstanding /\ remote'[i] = remote[i])
  <2>1. ASSUME NEW i \in Outstanding', i # k
        PROVE  i \in Outstanding /\ remote'[i] = remote[i]
    <3>1. i \in 1..(k - 1) /\ r[i] # Null /\ remote'[i] = r[i]
      BY <1>3, <2>1 DEF Outstanding, TypeOK
    <3>2. r[i] = remote[i]
      BY <1>3, <3>1
    <3>. QED BY <1>3, <3>1, <3>2 DEF Outstanding
  <2>. QED BY <2>1
<1>7. \A i, j \in DOMAIN delayed' : delayed'[i] = delayed'[j] => i = j
  <2>1. DOMAIN delayed = 1..n
    BY DEF TypeOK
  <2>. QED BY <1>1, <1>2, <2>1 DEF QueueInv
<1>8. \A i, j \in Outstanding' : remote'[i] = remote'[j] => i = j
  BY <1>3, <1>5, <1>6 DEF QueueInv
<1>9. \A i \in DOMAIN delayed' : task'[delayed'[i]] = "idle"
  <2>1. \A i \in 1..(n - 1) : delayed[i] \in Files /\ task[delayed[i]] = "idle"
    BY <1>1 DEF QueueInv, TypeOK
  <2>. QED BY <1>2, <1>4, <2>1
<1>10. \A i \in Outstanding' : task'[remote'[i]] # "idle"
  BY <1>3, <1>4, <1>5, <1>6 DEF QueueInv
<1>11. \A f \in Files : task'[f] = "idle" => f \in Range(delayed')
  <2> SUFFICES ASSUME NEW f \in Files, task'[f] = "idle" PROVE f \in Range(delayed')
    OBVIOUS
  <2>1. f # file /\ task[f] = "idle"
    BY <1>4
  <2>2. PICK i \in DOMAIN delayed : delayed[i] = f
    BY <2>1 DEF QueueInv, Range
  <2>3. i \in 1..(n - 1)
    BY <1>1, <2>1, <2>2 DEF TypeOK
  <2>. QED BY <1>2, <2>2, <2>3 DEF Range
<1>12. \A f \in Files : task'[f] \notin {"idle", "returned"} => f \in Range(remote')
  <2> SUFFICES ASSUME NEW f \in Files, task'[f] \notin {"idle", "returned"}
               PROVE  f \in Range(remote')
    OBVIOUS
  <2>1. CASE f = file
    <3>1. k \in DOMAIN remote' /\ remote'[k] = f
      BY <1>3, <2>1
    <3>. QED BY <3>1 DEF Range
  <2>2. CASE f # file
    <3>1. task[f] \notin {"idle", "returned"}
      BY <1>4, <2>2
    <3>2. PICK i \in DOMAIN remote : remote[i] = f
      BY <3>1 DEF QueueInv, Range
    <3>3. r[i] = f
      BY <3>1, <3>2
    <3>. QED BY <1>3, <3>2, <3>3 DEF Range, TypeOK
  <2>. QED BY <2>1, <2>2
<1>. QED
  BY <1>7, <1>8, <1>9, <1>10, <1>11, <1>12 DEF QueueInv

LEMMA QueueStep == TypeOK /\ QueueInv /\ [Next]_vars => QueueInv'
<1> SUFFICES ASSUME TypeOK, QueueInv, [Next]_vars PROVE QueueInv'
  OBVIOUS
<1>1. ASSUME NEW f \in Files, Dispatch(f) PROVE QueueInv'
  <2>1. /\ delayed' = Append(delayed, f) /\ f \notin Range(delayed)
        /\ UNCHANGED <<pc, remote, task>> /\ pc = "join"
    BY <1>1 DEF Dispatch, mainVars, taskVars
  <2>2. /\ DOMAIN delayed' = 1..(Len(delayed) + 1) /\ DOMAIN delayed = 1..Len(delayed)
        /\ delayed'[Len(delayed) + 1] = f
        /\ \A i \in 1..Len(delayed) : delayed'[i] = delayed[i] /\ delayed[i] # f
    BY <2>1 DEF Range, TypeOK
  <2>3. Outstanding' = Outstanding
    BY <2>1 DEF Outstanding
  <2>4. \A i, j \in DOMAIN delayed' : delayed'[i] = delayed'[j] => i = j
    BY <2>2 DEF QueueInv, TypeOK
  <2>5. \A i \in DOMAIN delayed' : task'[delayed'[i]] = "idle"
    BY <2>1, <2>2 DEF QueueInv, TypeOK
  <2>6. UNCHANGED kills
    BY <1>1 DEF Dispatch, killVars
  <2>7. \A g \in Files : task'[g] = "idle"
    BY <2>1 DEF QueueInv
  <2>. QED BY <2>1, <2>3, <2>4, <2>5, <2>6, <2>7 DEF QueueInv, Range
<1>2. ASSUME Joined PROVE QueueInv'
  BY <1>2 DEF Joined, queueVars, taskVars, killVars, QueueInv, Outstanding, Range
<1>3. ASSUME ClearEnter PROVE QueueInv'
  BY <1>3 DEF ClearEnter, queueVars, taskVars, killVars, QueueInv, Outstanding, Range
<1>4. ASSUME NEW m \in Machine, FillSlot(m) PROVE QueueInv'
  <2>1. Len(remote) = Len(remote) /\ remote \in Seq(Files \union {Null})
    BY DEF TypeOK
  <2>2. delayed # <<>> /\ pc # "join" /\ pc' # "join"
    BY <1>4 DEF FillSlot, mainVars
  <2>3. Launch(remote, m) /\ UNCHANGED kills
    BY <1>4 DEF FillSlot, killVars
  <2>4. \A i \in DOMAIN remote :
           remote[i] = remote[i] \/ (remote[i] = Null /\ task[remote[i]] = "returned")
    OBVIOUS
  <2>. QED BY <2>1, <2>2, <2>3, <2>4, LaunchQueue
<1>5. ASSUME FillOver PROVE QueueInv'
  BY <1>5 DEF FillOver, queueVars, taskVars, killVars, QueueInv, Outstanding, Range
<1>6. ASSUME ClearDone PROVE QueueInv'
  BY <1>6 DEF ClearDone, queueVars, taskVars, killVars, QueueInv, Outstanding, Range
<1>7. ASSUME NEW i \in DOMAIN remote, Collect(i) PROVE QueueInv'
  <2> DEFINE f == remote[i]
             r == [remote EXCEPT ![i] = Null]
  <2>1. f \in Files /\ task[f] = "returned" /\ pc = "wait" /\ pc' # "join"
    BY <1>7 DEF Collect, IsFirstOutstanding, Outstanding, TypeOK
  <2>2. r \in Seq(Files \union {Null}) /\ Len(r) = Len(remote) /\ DOMAIN r = DOMAIN remote
        /\ r[i] = Null /\ \A j \in DOMAIN remote \ {i} : r[j] = remote[j]
    BY DEF TypeOK
  <2> HIDE DEF r
  <2>3. CASE delayed = <<>>
    <3>1. remote' = r /\ UNCHANGED <<delayed, machine, task>>
      BY <1>7, <2>3 DEF Collect, r
    <3>2. Outstanding' \subseteq Outstanding /\ \A j \in Outstanding' : remote'[j] = remote[j]
      BY <2>2, <3>1 DEF Outstanding
    <3>3. \A g \in Files : g \in Range(remote) /\ g # f => g \in Range(remote')
      BY <2>2, <3>1 DEF Range
    <3>4. Range(delayed') = Range(delayed)
      BY <3>1 DEF Range
    <3>. QED BY <2>1, <3>1, <3>2, <3>3, <3>4 DEF QueueInv
  <2>4. CASE delayed # <<>>
    <3>1. Launch(r, machine[f])
      BY <1>7, <2>4 DEF Collect, r
    <3>2. \A j \in DOMAIN remote :
             r[j] = remote[j] \/ (r[j] = Null /\ task[remote[j]] = "returned")
      BY <2>1, <2>2
    <3>. QED BY <2>1, <2>2, <2>4, <3>1, <3>2, LaunchQueue
  <2>. QED BY <2>3, <2>4
<1>8. ASSUME NEW i \in DOMAIN remote, CollectThrow(i) PROVE QueueInv'
  BY <1>8 DEF CollectThrow, queueVars, taskVars, killVars, QueueInv, Outstanding, Range
<1>9. ASSUME MainKillEnter PROVE QueueInv'
  BY <1>9 DEF MainKillEnter, queueVars, taskVars, QueueInv, Outstanding, Range
<1>10. ASSUME NEW f \in Files, TaskKillEnter(f) PROVE QueueInv'
  BY <1>10 DEF TaskKillEnter, mainVars, queueVars, QueueInv, Outstanding, Range, TypeOK
<1>11. ASSUME NEW t \in Files \union {Main}, KillStep(t) PROVE QueueInv'
  BY FilesAssumption, <1>11 DEF KillStep, mainVars, queueVars, taskVars, QueueInv, Outstanding, Range, Killing
<1>12. ASSUME NEW t \in Files \union {Main}, KillForkFails(t) PROVE QueueInv'
  BY FilesAssumption, <1>12 DEF KillForkFails, mainVars, queueVars, taskVars, QueueInv, Outstanding, Range, Killing
<1>13. ASSUME MainKillExit PROVE QueueInv'
  BY FilesAssumption, <1>13 DEF MainKillExit, queueVars, taskVars, killVars, QueueInv, Outstanding, Range, Killing
<1>14. ASSUME NEW f \in Files, TaskKillExit(f) PROVE QueueInv'
  BY FilesAssumption, <1>14 DEF TaskKillExit, mainVars, queueVars, QueueInv, Outstanding, Range, TypeOK, Killing
<1>15. ASSUME Destroy PROVE QueueInv'
  BY <1>15 DEF Destroy, queueVars, taskVars, killVars, QueueInv, Outstanding, Range
<1>16. ASSUME NEW f \in Files, ForkChild(f) PROVE QueueInv'
  BY <1>16 DEF ForkChild, mainVars, queueVars, killVars, QueueInv, Outstanding, Range, TypeOK
<1>17. ASSUME NEW f \in Files, ForkFails(f) PROVE QueueInv'
  BY <1>17 DEF ForkFails, mainVars, queueVars, killVars, QueueInv, Outstanding, Range, TypeOK
<1>18. ASSUME NEW f \in Files, SetPid(f) PROVE QueueInv'
  BY <1>18 DEF SetPid, mainVars, queueVars, killVars, QueueInv, Outstanding, Range, TypeOK
<1>19. ASSUME NEW f \in Files, WaitPid(f) PROVE QueueInv'
  BY <1>19 DEF WaitPid, mainVars, queueVars, killVars, QueueInv, Outstanding, Range, TypeOK
<1>20. ASSUME NEW f \in Files, ReleaseSlot(f) PROVE QueueInv'
  BY <1>20 DEF ReleaseSlot, mainVars, killVars, QueueInv, Outstanding, Range, TypeOK
<1>21. ASSUME NEW f \in Files, ChildExits(f) PROVE QueueInv'
  BY <1>21 DEF ChildExits, mainVars, queueVars, killVars, QueueInv, Outstanding, Range
<1>22. ASSUME NEW f \in Files, DeliverKill(f) PROVE QueueInv'
  BY <1>22 DEF DeliverKill, mainVars, queueVars, QueueInv, Outstanding, Range
<1>23. ASSUME DeliverGroupKill PROVE QueueInv'
  BY <1>23 DEF DeliverGroupKill, queueVars, taskVars, killVars, QueueInv, Outstanding, Range
<1>24. ASSUME Terminating PROVE QueueInv'
  BY <1>24 DEF Terminating, vars, mainVars, queueVars, taskVars, killVars, QueueInv, Outstanding, Range
<1>25. ASSUME UNCHANGED vars PROVE QueueInv'
  BY <1>25 DEF vars, mainVars, queueVars, taskVars, killVars, QueueInv, Outstanding, Range
<1>. QED
  BY <1>1, <1>2, <1>3, <1>4, <1>5, <1>6, <1>7, <1>8, <1>9, <1>10, <1>11, <1>12, <1>13, <1>14, <1>15, <1>16, <1>17, <1>18, <1>19, <1>20, <1>21, <1>22, <1>23, <1>24, <1>25
  DEF Next, MainStep, TaskStep

\* What Launch does to the tasks and machines: only the launched file changes.
LEMMA LaunchFrame ==
  ASSUME TypeOK, QueueInv, delayed # <<>>, NEW r, NEW m, Launch(r, m)
  PROVE  \E file \in Files :
            /\ task[file] = "idle"
            /\ task' = [task EXCEPT ![file] = "fork"]
            /\ machine' = [machine EXCEPT ![file] = m]
            /\ Range(r) \subseteq Range(remote') \/ r \notin Seq(Files \union {Null})
<1> DEFINE n == Len(delayed)
<1>1. n \in DOMAIN delayed /\ delayed[n] \in Files
  BY DEF TypeOK
<1>2. task[delayed[n]] = "idle"
  BY <1>1 DEF QueueInv
<1>3. /\ task' = [task EXCEPT ![delayed[n]] = "fork"]
      /\ machine' = [machine EXCEPT ![delayed[n]] = m]
      /\ remote' = Append(r, delayed[n])
  BY DEF Launch
<1>4. r \in Seq(Files \union {Null}) => Range(r) \subseteq Range(remote')
  BY <1>1, <1>3 DEF Range
<1>. QED BY <1>1, <1>2, <1>3, <1>4

\* Tasks and their processes move on together.
LEMMA ProcessStep ==
  ASSUME TypeOK, QueueInv, ProcessInv, [Next]_vars
  PROVE  ProcessInv'
<1>1. ASSUME NEW f \in Files, Dispatch(f) PROVE ProcessInv'
  BY <1>1 DEF Dispatch, mainVars, taskVars, killVars, ProcessInv
<1>2. ASSUME Joined PROVE ProcessInv'
  BY <1>2 DEF Joined, queueVars, taskVars, killVars, ProcessInv
<1>3. ASSUME ClearEnter PROVE ProcessInv'
  BY <1>3 DEF ClearEnter, queueVars, taskVars, killVars, ProcessInv
<1>4. ASSUME NEW m \in Machine, FillSlot(m) PROVE ProcessInv'
  <2>1. Launch(remote, m) /\ delayed # <<>>
        /\ UNCHANGED <<child, exit_value, forkFailures>>
    BY <1>4 DEF FillSlot
  <2>2. PICK file \in Files : task[file] = "idle" /\ task' = [task EXCEPT ![file] = "fork"]
    BY <2>1, LaunchFrame
  <2>. QED BY <2>1, <2>2 DEF ProcessInv, TypeOK
<1>5. ASSUME FillOver PROVE ProcessInv'
  BY <1>5 DEF FillOver, queueVars, taskVars, killVars, ProcessInv
<1>6. ASSUME ClearDone PROVE ProcessInv'
  BY <1>6 DEF ClearDone, queueVars, taskVars, killVars, ProcessInv
<1>7. ASSUME NEW i \in DOMAIN remote, Collect(i) PROVE ProcessInv'
  <2>1. UNCHANGED <<child, exit_value, forkFailures>>
    BY <1>7 DEF Collect
  <2>2. CASE UNCHANGED task
    BY <2>1, <2>2 DEF ProcessInv
  <2>3. CASE delayed # <<>>
    <3>1. Launch([remote EXCEPT ![i] = Null], machine[remote[i]])
      BY <1>7, <2>3 DEF Collect
    <3>2. PICK file \in Files : task[file] = "idle" /\ task' = [task EXCEPT ![file] = "fork"]
      BY <2>3, <3>1, LaunchFrame
    <3>. QED BY <2>1, <3>2 DEF ProcessInv, TypeOK
  <2>. QED BY <1>7, <2>2, <2>3 DEF Collect
<1>8. ASSUME NEW i \in DOMAIN remote, CollectThrow(i) PROVE ProcessInv'
  BY <1>8 DEF CollectThrow, queueVars, taskVars, killVars, ProcessInv
<1>9. ASSUME MainKillEnter PROVE ProcessInv'
  BY <1>9 DEF MainKillEnter, queueVars, taskVars, ProcessInv
<1>10. ASSUME NEW f \in Files, TaskKillEnter(f) PROVE ProcessInv'
  BY <1>10 DEF TaskKillEnter, mainVars, queueVars, ProcessInv, TypeOK, ChildStates
<1>11. ASSUME NEW t \in Files \union {Main}, KillStep(t) PROVE ProcessInv'
  BY <1>11 DEF KillStep, mainVars, queueVars, taskVars, ProcessInv, Killing
<1>12. ASSUME NEW t \in Files \union {Main}, KillForkFails(t) PROVE ProcessInv'
  BY ForkAssumption, <1>12 DEF KillForkFails, mainVars, queueVars, taskVars, ProcessInv, TypeOK, Killing
<1>13. ASSUME MainKillExit PROVE ProcessInv'
  BY <1>13 DEF MainKillExit, queueVars, taskVars, killVars, ProcessInv, Killing
<1>14. ASSUME NEW f \in Files, TaskKillExit(f) PROVE ProcessInv'
  BY FilesAssumption, <1>14 DEF TaskKillExit, mainVars, queueVars, ProcessInv, TypeOK, ChildStates, Killing
<1>15. ASSUME Destroy PROVE ProcessInv'
  BY <1>15 DEF Destroy, queueVars, taskVars, killVars, ProcessInv
<1>16. ASSUME NEW f \in Files, ForkChild(f) PROVE ProcessInv'
  BY <1>16 DEF ForkChild, mainVars, queueVars, killVars, ProcessInv, TypeOK, ChildStates
<1>17. ASSUME NEW f \in Files, ForkFails(f) PROVE ProcessInv'
  BY ForkAssumption, <1>17 DEF ForkFails, mainVars, queueVars, killVars, ProcessInv, TypeOK, ChildStates
<1>18. ASSUME NEW f \in Files, SetPid(f) PROVE ProcessInv'
  BY <1>18 DEF SetPid, mainVars, queueVars, killVars, ProcessInv, TypeOK, ChildStates
<1>19. ASSUME NEW f \in Files, WaitPid(f) PROVE ProcessInv'
  BY <1>19 DEF WaitPid, mainVars, queueVars, killVars, ProcessInv, TypeOK, ChildStates
<1>20. ASSUME NEW f \in Files, ReleaseSlot(f) PROVE ProcessInv'
  BY <1>20 DEF ReleaseSlot, mainVars, killVars, ProcessInv, TypeOK, ChildStates
<1>21. ASSUME NEW f \in Files, ChildExits(f) PROVE ProcessInv'
  BY <1>21 DEF ChildExits, mainVars, queueVars, killVars, ProcessInv, TypeOK, ChildStates
<1>22. ASSUME NEW f \in Files, DeliverKill(f) PROVE ProcessInv'
  BY <1>22 DEF DeliverKill, mainVars, queueVars, ProcessInv, TypeOK, ChildStates
<1>23. ASSUME DeliverGroupKill PROVE ProcessInv'
  BY <1>23 DEF DeliverGroupKill, queueVars, taskVars, killVars, ProcessInv
<1>24. ASSUME Terminating PROVE ProcessInv'
  BY <1>24 DEF Terminating, vars, mainVars, queueVars, taskVars, killVars, ProcessInv
<1>25. ASSUME UNCHANGED vars PROVE ProcessInv'
  BY <1>25 DEF vars, mainVars, queueVars, taskVars, killVars, ProcessInv
<1>. QED
  BY <1>1, <1>2, <1>3, <1>4, <1>5, <1>6, <1>7, <1>8, <1>9, <1>10, <1>11, <1>12, <1>13, <1>14, <1>15, <1>16, <1>17, <1>18, <1>19, <1>20, <1>21, <1>22, <1>23, <1>24, <1>25 DEF Next, MainStep, TaskStep

\* A slot is taken only by a launch, and a task that ends gives one back.
LEMMA SlotStep ==
  ASSUME TypeOK, QueueInv, SlotInv, [Next]_vars
  PROVE  SlotInv'
<1>1. ASSUME NEW f \in Files, Dispatch(f) PROVE SlotInv'
  BY <1>1 DEF Dispatch, mainVars, taskVars, killVars, SlotInv
<1>2. ASSUME Joined PROVE SlotInv'
  BY <1>2 DEF Joined, queueVars, taskVars, killVars, SlotInv
<1>3. ASSUME ClearEnter PROVE SlotInv'
  BY <1>3 DEF ClearEnter, queueVars, taskVars, killVars, SlotInv
<1>4. ASSUME NEW m \in Machine, FillSlot(m) PROVE SlotInv'
  <2>1. Launch(remote, m) /\ delayed # <<>> /\ slots' = [slots EXCEPT ![m] = @ - 1]
    BY <1>4 DEF FillSlot
  <2>2. PICK file \in Files : /\ task[file] = "idle"
                              /\ task' = [task EXCEPT ![file] = "fork"]
                              /\ machine' = [machine EXCEPT ![file] = m]
    BY <2>1, LaunchFrame
  <2> SUFFICES ASSUME NEW q \in Machine, Slots[q] > 0
               PROVE  slots'[q] > 0 \/ \E f \in Files : /\ machine'[f] = q
                                                        /\ task'[f] \notin {"idle", "returned"}
    BY DEF SlotInv
  <2>3. CASE q = m
    BY <2>2, <2>3 DEF TypeOK
  <2>4. CASE q # m
    BY <2>1, <2>2, <2>4 DEF SlotInv, TypeOK
  <2>. QED BY <2>3, <2>4
<1>5. ASSUME FillOver PROVE SlotInv'
  BY <1>5 DEF FillOver, queueVars, taskVars, killVars, SlotInv
<1>6. ASSUME ClearDone PROVE SlotInv'
  BY <1>6 DEF ClearDone, queueVars, taskVars, killVars, SlotInv
<1>7. ASSUME NEW i \in DOMAIN remote, Collect(i) PROVE SlotInv'
  <2>1. UNCHANGED slots
    BY <1>7 DEF Collect
  <2>2. CASE UNCHANGED <<machine, task>>
    BY <2>1, <2>2 DEF SlotInv
  <2>3. CASE delayed # <<>>
    <3>1. Launch([remote EXCEPT ![i] = Null], machine[remote[i]])
      BY <1>7, <2>3 DEF Collect
    <3>2. PICK file \in Files : /\ task[file] = "idle"
                                /\ task' = [task EXCEPT ![file] = "fork"]
                                /\ machine' = [machine EXCEPT ![file] = machine[remote[i]]]
      BY <2>3, <3>1, LaunchFrame
    <3>. QED BY <2>1, <3>2 DEF SlotInv, TypeOK
  <2>. QED BY <1>7, <2>2, <2>3 DEF Collect
<1>8. ASSUME NEW i \in DOMAIN remote, CollectThrow(i) PROVE SlotInv'
  BY <1>8 DEF CollectThrow, queueVars, taskVars, killVars, SlotInv
<1>9. ASSUME MainKillEnter PROVE SlotInv'
  BY <1>9 DEF MainKillEnter, queueVars, taskVars, SlotInv
<1>10. ASSUME NEW f \in Files, TaskKillEnter(f) PROVE SlotInv'
  BY <1>10 DEF TaskKillEnter, mainVars, queueVars, SlotInv, TypeOK
<1>11. ASSUME NEW t \in Files \union {Main}, KillStep(t) PROVE SlotInv'
  BY <1>11 DEF KillStep, mainVars, queueVars, taskVars, SlotInv, Killing
<1>12. ASSUME NEW t \in Files \union {Main}, KillForkFails(t) PROVE SlotInv'
  BY <1>12 DEF KillForkFails, mainVars, queueVars, taskVars, SlotInv, Killing
<1>13. ASSUME MainKillExit PROVE SlotInv'
  BY <1>13 DEF MainKillExit, queueVars, taskVars, killVars, SlotInv, Killing
<1>14. ASSUME NEW f \in Files, TaskKillExit(f) PROVE SlotInv'
  BY FilesAssumption, <1>14 DEF TaskKillExit, mainVars, queueVars, SlotInv, TypeOK, Killing
<1>15. ASSUME Destroy PROVE SlotInv'
  BY <1>15 DEF Destroy, queueVars, taskVars, killVars, SlotInv
<1>16. ASSUME NEW f \in Files, ForkChild(f) PROVE SlotInv'
  BY <1>16 DEF ForkChild, mainVars, queueVars, killVars, SlotInv, TypeOK
<1>17. ASSUME NEW f \in Files, ForkFails(f) PROVE SlotInv'
  BY <1>17 DEF ForkFails, mainVars, queueVars, killVars, SlotInv, TypeOK
<1>18. ASSUME NEW f \in Files, SetPid(f) PROVE SlotInv'
  BY <1>18 DEF SetPid, mainVars, queueVars, killVars, SlotInv, TypeOK
<1>19. ASSUME NEW f \in Files, WaitPid(f) PROVE SlotInv'
  BY <1>19 DEF WaitPid, mainVars, queueVars, killVars, SlotInv, TypeOK
<1>20. ASSUME NEW f \in Files, ReleaseSlot(f) PROVE SlotInv'
  BY <1>20 DEF ReleaseSlot, mainVars, killVars, SlotInv, TypeOK
<1>21. ASSUME NEW f \in Files, ChildExits(f) PROVE SlotInv'
  BY <1>21 DEF ChildExits, mainVars, queueVars, killVars, SlotInv
<1>22. ASSUME NEW f \in Files, DeliverKill(f) PROVE SlotInv'
  BY <1>22 DEF DeliverKill, mainVars, queueVars, SlotInv
<1>23. ASSUME DeliverGroupKill PROVE SlotInv'
  BY <1>23 DEF DeliverGroupKill, queueVars, taskVars, killVars, SlotInv
<1>24. ASSUME Terminating PROVE SlotInv'
  BY <1>24 DEF Terminating, vars, mainVars, queueVars, taskVars, killVars, SlotInv
<1>25. ASSUME UNCHANGED vars PROVE SlotInv'
  BY <1>25 DEF vars, mainVars, queueVars, taskVars, killVars, SlotInv
<1>. QED
  BY <1>1, <1>2, <1>3, <1>4, <1>5, <1>6, <1>7, <1>8, <1>9, <1>10, <1>11, <1>12, <1>13, <1>14, <1>15, <1>16, <1>17, <1>18, <1>19, <1>20, <1>21, <1>22, <1>23, <1>24, <1>25 DEF Next, MainStep, TaskStep

\* A file that left remote_dispatches was answered sat, or the main thread kills;
\* the loop of clear_dispatches never finds nothing outstanding while files wait.
LEMMA DecisionStep ==
  ASSUME TypeOK, QueueInv, ProcessInv, SlotInv, DecisionInv, [Next]_vars
  PROVE  DecisionInv'
<1>1. ASSUME NEW f \in Files, Dispatch(f) PROVE DecisionInv'
  BY <1>1 DEF Dispatch, mainVars, taskVars, killVars, DecisionInv, Outstanding, Range, NotSat
<1>2. ASSUME Joined PROVE DecisionInv'
  BY <1>2 DEF Joined, queueVars, taskVars, killVars, DecisionInv, Outstanding, Range, NotSat, QueueInv
<1>3. ASSUME ClearEnter PROVE DecisionInv'
  BY <1>3 DEF ClearEnter, queueVars, taskVars, killVars, DecisionInv, Outstanding, Range, NotSat
<1>4. ASSUME NEW m \in Machine, FillSlot(m) PROVE DecisionInv'
  <2>1. Launch(remote, m) /\ delayed # <<>> /\ pc = "fill" /\ UNCHANGED <<pc, result, child>>
    BY <1>4 DEF FillSlot, mainVars
  <2>2. PICK file \in Files : /\ task' = [task EXCEPT ![file] = "fork"]
                              /\ Range(remote) \subseteq Range(remote')
    BY <2>1, LaunchFrame DEF TypeOK
  <2>. QED BY <2>1, <2>2 DEF DecisionInv, TypeOK
<1>5. ASSUME FillOver PROVE DecisionInv'
  <2>1. /\ pc = "fill" /\ pc' = "wait" /\ (delayed = <<>> \/ NoMachineFree)
        /\ UNCHANGED <<delayed, remote, task, child, result>>
    BY <1>5 DEF FillOver, queueVars, taskVars
  <2>2. CASE delayed = <<>>
    BY <2>1, <2>2 DEF DecisionInv, Range
  <2>3. CASE NoMachineFree
    <3>1. PICK q \in Machine : Slots[q] > 0
      BY MachinesAssumption
    <3>2. slots[q] = 0
      BY <2>3 DEF NoMachineFree
    <3>3. PICK f \in Files : task[f] \notin {"idle", "returned"}
      BY <3>1, <3>2 DEF SlotInv
    <3>4. Outstanding # {}
      BY <3>3, FilesAssumption DEF QueueInv, Range, Outstanding
    <3>. QED BY <2>1, <3>4 DEF DecisionInv, Range, Outstanding
  <2>. QED BY <2>1, <2>2, <2>3
<1>6. ASSUME ClearDone PROVE DecisionInv'
  BY <1>6 DEF ClearDone, queueVars, taskVars, killVars, DecisionInv, Outstanding, Range, NotSat
<1>7. ASSUME NEW i \in DOMAIN remote, Collect(i) PROVE DecisionInv'
  <2> DEFINE r == [remote EXCEPT ![i] = Null]
  <2>1. PICK f \in Files : f = remote[i] /\ task[f] = "returned" /\ pc = "wait" /\ UNCHANGED <<child, result>>
    BY <1>7 DEF Collect, IsFirstOutstanding, Outstanding, TypeOK
  <2>2. r \in Seq(Files \union {Null}) /\ DOMAIN r = DOMAIN remote
        /\ \A j \in DOMAIN remote \ {i} : r[j] = remote[j]
    BY DEF TypeOK
  <2>3. \A g \in Files : g \in Range(remote) /\ g # f => g \in Range(r)
    BY <2>1, <2>2 DEF Range
  <2> HIDE DEF r
  <2>4. \A g \in Files : task'[g] = "returned" /\ g \notin Range(remote')
           => task[g] = "returned" /\ g \notin Range(r)
    <3>1. CASE delayed = <<>>
      BY <1>7, <3>1 DEF Collect, r
    <3>2. CASE delayed # <<>>
      <4>1. Launch(r, machine[f])
        BY <1>7, <2>1, <3>2 DEF Collect, r
      <4>2. PICK file \in Files : /\ task' = [task EXCEPT ![file] = "fork"]
                                  /\ Range(r) \subseteq Range(remote')
        BY <2>2, <3>2, <4>1, LaunchFrame
      <4>. QED BY <4>2 DEF TypeOK
    <3>. QED BY <3>1, <3>2
  <2>5. CASE Succeeded(f)
    <3>1. pc' = "clear"
      BY <1>7, <2>1, <2>5 DEF Collect
    <3>2. child[f] = "sat"
      BY <2>1, <2>5 DEF ProcessInv, Succeeded, ExitStatus
    <3>. QED BY <2>1, <2>3, <2>4, <3>1, <3>2 DEF DecisionInv
  <2>6. CASE ~Succeeded(f)
    <3>1. pc' = "kill"
      BY <1>7, <2>1, <2>6 DEF Collect
    <3>2. child'[f] # "sat" /\ NotSat(f)'
      BY <2>1, <2>6 DEF ProcessInv, Succeeded, ExitStatus, NotSat
    <3>. QED BY <2>1, <3>1, <3>2 DEF DecisionInv
  <2>. QED BY <2>5, <2>6
<1>8. ASSUME NEW i \in DOMAIN remote, CollectThrow(i) PROVE DecisionInv'
  BY <1>8 DEF CollectThrow, queueVars, taskVars, killVars, DecisionInv, Outstanding, Range, NotSat
<1>9. ASSUME MainKillEnter PROVE DecisionInv'
  BY <1>9 DEF MainKillEnter, queueVars, taskVars, DecisionInv, Outstanding, Range, NotSat
<1>10. ASSUME NEW f \in Files, TaskKillEnter(f) PROVE DecisionInv'
  BY <1>10 DEF TaskKillEnter, mainVars, queueVars, DecisionInv, Outstanding, Range, NotSat, TypeOK, QueueInv, ProcessInv
<1>11. ASSUME NEW t \in Files \union {Main}, KillStep(t) PROVE DecisionInv'
  BY <1>11 DEF KillStep, mainVars, queueVars, taskVars, DecisionInv, Outstanding, Range, NotSat, Killing
<1>12. ASSUME NEW t \in Files \union {Main}, KillForkFails(t) PROVE DecisionInv'
  BY <1>12 DEF KillForkFails, mainVars, queueVars, taskVars, DecisionInv, Outstanding, Range, NotSat, Killing
<1>13. ASSUME MainKillExit PROVE DecisionInv'
  BY FilesAssumption, <1>13 DEF MainKillExit, queueVars, taskVars, killVars, DecisionInv, Outstanding, Range, NotSat, Killing
<1>14. ASSUME NEW f \in Files, TaskKillExit(f) PROVE DecisionInv'
  BY FilesAssumption, <1>14 DEF TaskKillExit, mainVars, queueVars, DecisionInv, Outstanding, Range, NotSat, TypeOK, QueueInv, ProcessInv, Killing
<1>15. ASSUME Destroy PROVE DecisionInv'
  BY <1>15 DEF Destroy, queueVars, taskVars, killVars, DecisionInv, Outstanding, Range, NotSat
<1>16. ASSUME NEW f \in Files, ForkChild(f) PROVE DecisionInv'
  BY <1>16 DEF ForkChild, mainVars, queueVars, killVars, DecisionInv, Outstanding, Range, NotSat, TypeOK, QueueInv, ProcessInv
<1>17. ASSUME NEW f \in Files, ForkFails(f) PROVE DecisionInv'
  BY <1>17 DEF ForkFails, mainVars, queueVars, killVars, DecisionInv, Outstanding, Range, NotSat, TypeOK, QueueInv, ProcessInv
<1>18. ASSUME NEW f \in Files, SetPid(f) PROVE DecisionInv'
  BY <1>18 DEF SetPid, mainVars, queueVars, killVars, DecisionInv, Outstanding, Range, NotSat, TypeOK, QueueInv, ProcessInv
<1>19. ASSUME NEW f \in Files, WaitPid(f) PROVE DecisionInv'
  BY <1>19 DEF WaitPid, mainVars, queueVars, killVars, DecisionInv, Outstanding, Range, NotSat, TypeOK, QueueInv, ProcessInv
<1>20. ASSUME NEW f \in Files, ReleaseSlot(f) PROVE DecisionInv'
  BY <1>20 DEF ReleaseSlot, mainVars, killVars, DecisionInv, Outstanding, Range, NotSat, TypeOK, QueueInv, ProcessInv
<1>21. ASSUME NEW f \in Files, ChildExits(f) PROVE DecisionInv'
  BY <1>21 DEF ChildExits, mainVars, queueVars, killVars, DecisionInv, Outstanding, Range, NotSat, TypeOK, QueueInv, ProcessInv
<1>22. ASSUME NEW f \in Files, DeliverKill(f) PROVE DecisionInv'
  BY <1>22 DEF DeliverKill, mainVars, queueVars, DecisionInv, Outstanding, Range, NotSat, TypeOK, QueueInv, ProcessInv
<1>23. ASSUME DeliverGroupKill PROVE DecisionInv'
  BY <1>23 DEF DeliverGroupKill, queueVars, taskVars, killVars, DecisionInv, Outstanding, Range, NotSat
<1>24. ASSUME Terminating PROVE DecisionInv'
  BY <1>24 DEF Terminating, vars, mainVars, queueVars, taskVars, killVars, DecisionInv, Outstanding, Range, NotSat
<1>25. ASSUME UNCHANGED vars PROVE DecisionInv'
  BY <1>25 DEF vars, mainVars, queueVars, taskVars, killVars, DecisionInv, Outstanding, Range, NotSat
<1>. QED
  BY <1>1, <1>2, <1>3, <1>4, <1>5, <1>6, <1>7, <1>8, <1>9, <1>10, <1>11, <1>12, <1>13, <1>14, <1>15, <1>16, <1>17, <1>18, <1>19, <1>20, <1>21, <1>22, <1>23, <1>24, <1>25 DEF Next, MainStep, TaskStep

\* A verdict rests on the answers it was concluded from, and they never change.
LEMMA VerdictStep ==
  ASSUME TypeOK, QueueInv, ProcessInv, DecisionInv, VerdictSound, [Next]_vars
  PROVE  VerdictSound'
<1>1. ASSUME NEW f \in Files, Dispatch(f) PROVE VerdictSound'
  BY <1>1 DEF Dispatch, mainVars, taskVars, killVars, VerdictSound, NotSat
<1>2. ASSUME Joined PROVE VerdictSound'
  BY <1>2 DEF Joined, queueVars, taskVars, killVars, VerdictSound, NotSat
<1>3. ASSUME ClearEnter PROVE VerdictSound'
  BY <1>3 DEF ClearEnter, queueVars, taskVars, killVars, VerdictSound, NotSat
<1>4. ASSUME NEW m \in Machine, FillSlot(m) PROVE VerdictSound'
  BY <1>4 DEF FillSlot, mainVars, killVars, VerdictSound, NotSat
<1>5. ASSUME FillOver PROVE VerdictSound'
  BY <1>5 DEF FillOver, queueVars, taskVars, killVars, VerdictSound, NotSat
<1>6. ASSUME ClearDone PROVE VerdictSound'
  <2>1. pc = "wait" /\ Outstanding = {} /\ UNCHANGED <<child, expected_sat>>
        /\ result' = IF expected_sat THEN "OK" ELSE "ERR"
    BY <1>6 DEF ClearDone, taskVars
  <2>2. delayed = <<>>
    BY <2>1 DEF DecisionInv
  <2>3. \A f \in Files : child[f] = "sat"
    <3> TAKE f \in Files
    <3>1. f \notin Range(delayed) /\ f \notin Range(remote)
      BY <2>1, <2>2, FilesAssumption DEF Range, Outstanding
    <3>2. task[f] = "returned"
      BY <2>1, <3>1 DEF QueueInv
    <3>. QED BY <2>1, <3>1, <3>2 DEF DecisionInv
  <2>. QED BY <2>1, <2>3 DEF VerdictSound
<1>7. ASSUME NEW i \in DOMAIN remote, Collect(i) PROVE VerdictSound'
  BY <1>7 DEF Collect, killVars, VerdictSound, NotSat
<1>8. ASSUME NEW i \in DOMAIN remote, CollectThrow(i) PROVE VerdictSound'
  BY <1>8 DEF CollectThrow, queueVars, taskVars, killVars, VerdictSound, NotSat
<1>9. ASSUME MainKillEnter PROVE VerdictSound'
  BY <1>9 DEF MainKillEnter, queueVars, taskVars, VerdictSound, NotSat
<1>10. ASSUME NEW f \in Files, TaskKillEnter(f) PROVE VerdictSound'
  BY <1>10 DEF TaskKillEnter, mainVars, queueVars, VerdictSound, NotSat
<1>11. ASSUME NEW t \in Files \union {Main}, KillStep(t) PROVE VerdictSound'
  BY <1>11 DEF KillStep, mainVars, queueVars, taskVars, VerdictSound, NotSat, Killing, DecisionInv
<1>12. ASSUME NEW t \in Files \union {Main}, KillForkFails(t) PROVE VerdictSound'
  BY <1>12 DEF KillForkFails, mainVars, queueVars, taskVars, VerdictSound, NotSat, Killing, DecisionInv
<1>13. ASSUME MainKillExit PROVE VerdictSound'
  BY <1>13 DEF MainKillExit, queueVars, taskVars, killVars, VerdictSound, NotSat, Killing, DecisionInv
<1>14. ASSUME NEW f \in Files, TaskKillExit(f) PROVE VerdictSound'
  BY <1>14 DEF TaskKillExit, mainVars, queueVars, VerdictSound, NotSat, Killing, DecisionInv
<1>15. ASSUME Destroy PROVE VerdictSound'
  BY <1>15 DEF Destroy, queueVars, taskVars, killVars, VerdictSound, NotSat
<1>16. ASSUME NEW f \in Files, ForkChild(f) PROVE VerdictSound'
  BY <1>16 DEF ForkChild, mainVars, queueVars, killVars, VerdictSound, NotSat, TypeOK, ProcessInv
<1>17. ASSUME NEW f \in Files, ForkFails(f) PROVE VerdictSound'
  BY <1>17 DEF ForkFails, mainVars, queueVars, killVars, VerdictSound, NotSat
<1>18. ASSUME NEW f \in Files, SetPid(f) PROVE VerdictSound'
  BY <1>18 DEF SetPid, mainVars, queueVars, killVars, VerdictSound, NotSat
<1>19. ASSUME NEW f \in Files, WaitPid(f) PROVE VerdictSound'
  BY <1>19 DEF WaitPid, mainVars, queueVars, killVars, VerdictSound, NotSat
<1>20. ASSUME NEW f \in Files, ReleaseSlot(f) PROVE VerdictSound'
  BY <1>20 DEF ReleaseSlot, mainVars, killVars, VerdictSound, NotSat
<1>21. ASSUME NEW f \in Files, ChildExits(f) PROVE VerdictSound'
  BY <1>21 DEF ChildExits, mainVars, queueVars, killVars, VerdictSound, NotSat, TypeOK, ProcessInv
<1>22. ASSUME NEW f \in Files, DeliverKill(f) PROVE VerdictSound'
  BY <1>22 DEF DeliverKill, mainVars, queueVars, VerdictSound, NotSat, TypeOK, ProcessInv
<1>23. ASSUME DeliverGroupKill PROVE VerdictSound'
  BY <1>23 DEF DeliverGroupKill, queueVars, taskVars, killVars, VerdictSound, NotSat
<1>24. ASSUME Terminating PROVE VerdictSound'
  BY <1>24 DEF Terminating, vars, mainVars, queueVars, taskVars, killVars, VerdictSound, NotSat
<1>25. ASSUME UNCHANGED vars PROVE VerdictSound'
  BY <1>25 DEF vars, mainVars, queueVars, taskVars, killVars, VerdictSound, NotSat
<1>. QED
  BY <1>1, <1>2, <1>3, <1>4, <1>5, <1>6, <1>7, <1>8, <1>9, <1>10, <1>11, <1>12, <1>13, <1>14, <1>15, <1>16, <1>17, <1>18, <1>19, <1>20, <1>21, <1>22, <1>23, <1>24, <1>25 DEF Next, MainStep, TaskStep

\* Only a thread that has a reason to kill is inside kill_dispatches.
LEMMA KillsStep ==
  ASSUME TypeOK, ProcessInv, DecisionInv, KillsJustified, [Next]_vars
  PROVE  KillsJustified'
<1>1. ASSUME NEW f \in Files, Dispatch(f) PROVE KillsJustified'
  BY <1>1 DEF Dispatch, mainVars, taskVars, killVars, KillsJustified, NotSat
<1>2. ASSUME Joined PROVE KillsJustified'
  BY <1>2 DEF Joined, queueVars, taskVars, killVars, KillsJustified, NotSat
<1>3. ASSUME ClearEnter PROVE KillsJustified'
  BY <1>3 DEF ClearEnter, queueVars, taskVars, killVars, KillsJustified, NotSat
<1>4. ASSUME NEW m \in Machine, FillSlot(m) PROVE KillsJustified'
  BY <1>4 DEF FillSlot, mainVars, killVars, KillsJustified, NotSat
<1>5. ASSUME FillOver PROVE KillsJustified'
  BY <1>5 DEF FillOver, queueVars, taskVars, killVars, KillsJustified, NotSat
<1>6. ASSUME ClearDone PROVE KillsJustified'
  BY <1>6 DEF ClearDone, queueVars, taskVars, killVars, KillsJustified, NotSat
<1>7. ASSUME NEW i \in DOMAIN remote, Collect(i) PROVE KillsJustified'
  BY <1>7 DEF Collect, killVars, KillsJustified, NotSat
<1>8. ASSUME NEW i \in DOMAIN remote, CollectThrow(i) PROVE KillsJustified'
  BY <1>8 DEF CollectThrow, queueVars, taskVars, killVars, KillsJustified, NotSat
<1>9. ASSUME MainKillEnter PROVE KillsJustified'
  BY <1>9 DEF MainKillEnter, queueVars, taskVars, KillsJustified, NotSat
<1>10. ASSUME NEW f \in Files, TaskKillEnter(f) PROVE KillsJustified'
  BY <1>10 DEF TaskKillEnter, mainVars, queueVars, KillsJustified, NotSat
<1>11. ASSUME NEW t \in Files \union {Main}, KillStep(t) PROVE KillsJustified'
  BY <1>11 DEF KillStep, mainVars, queueVars, taskVars, KillsJustified, NotSat, Killing, ProcessInv, DecisionInv
<1>12. ASSUME NEW t \in Files \union {Main}, KillForkFails(t) PROVE KillsJustified'
  BY ForkAssumption, <1>12 DEF KillForkFails, mainVars, queueVars, taskVars, KillsJustified, NotSat, TypeOK
<1>13. ASSUME MainKillExit PROVE KillsJustified'
  BY <1>13 DEF MainKillExit, queueVars, taskVars, killVars, KillsJustified, NotSat
<1>14. ASSUME NEW f \in Files, TaskKillExit(f) PROVE KillsJustified'
  BY <1>14 DEF TaskKillExit, mainVars, queueVars, KillsJustified, NotSat
<1>15. ASSUME Destroy PROVE KillsJustified'
  BY <1>15 DEF Destroy, queueVars, taskVars, killVars, KillsJustified, NotSat
<1>16. ASSUME NEW f \in Files, ForkChild(f) PROVE KillsJustified'
  BY <1>16 DEF ForkChild, mainVars, queueVars, killVars, KillsJustified, NotSat, TypeOK, ProcessInv
<1>17. ASSUME NEW f \in Files, ForkFails(f) PROVE KillsJustified'
  BY ForkAssumption, <1>17 DEF ForkFails, mainVars, queueVars, killVars, KillsJustified, NotSat, TypeOK
<1>18. ASSUME NEW f \in Files, SetPid(f) PROVE KillsJustified'
  BY <1>18 DEF SetPid, mainVars, queueVars, killVars, KillsJustified, NotSat
<1>19. ASSUME NEW f \in Files, WaitPid(f) PROVE KillsJustified'
  BY <1>19 DEF WaitPid, mainVars, queueVars, killVars, KillsJustified, NotSat
<1>20. ASSUME NEW f \in Files, ReleaseSlot(f) PROVE KillsJustified'
  BY <1>20 DEF ReleaseSlot, mainVars, killVars, KillsJustified, NotSat
<1>21. ASSUME NEW f \in Files, ChildExits(f) PROVE KillsJustified'
  BY <1>21 DEF ChildExits, mainVars, queueVars, killVars, KillsJustified, NotSat, TypeOK, ProcessInv
<1>22. ASSUME NEW f \in Files, DeliverKill(f) PROVE KillsJustified'
  BY <1>22 DEF DeliverKill, mainVars, queueVars, KillsJustified, NotSat, TypeOK, ProcessInv
<1>23. ASSUME DeliverGroupKill PROVE KillsJustified'
  BY <1>23 DEF DeliverGroupKill, queueVars, taskVars, killVars, KillsJustified, NotSat
<1>24. ASSUME Terminating PROVE KillsJustified'
  BY <1>24 DEF Terminating, vars, mainVars, queueVars, taskVars, killVars, KillsJustified, NotSat
<1>25. ASSUME UNCHANGED vars PROVE KillsJustified'
  BY <1>25 DEF vars, mainVars, queueVars, taskVars, killVars, KillsJustified, NotSat
<1>. QED
  BY <1>1, <1>2, <1>3, <1>4, <1>5, <1>6, <1>7, <1>8, <1>9, <1>10, <1>11, <1>12, <1>13, <1>14, <1>15, <1>16, <1>17, <1>18, <1>19, <1>20, <1>21, <1>22, <1>23, <1>24, <1>25 DEF Next, MainStep, TaskStep

LEMMA InitIInv == Init => IInv
<1> SUFFICES ASSUME Init PROVE IInv
  OBVIOUS
<1>1. QueueInv
  BY DEF Init, QueueInv, Outstanding
<1>2. ProcessInv
  BY DEF Init, ProcessInv
<1>3. SlotInv
  BY DEF Init, SlotInv
<1>4. DecisionInv
  BY DEF Init, DecisionInv
<1>5. VerdictSound /\ KillsJustified
  BY DEF Init, VerdictSound, KillsJustified
<1>. QED BY <1>1, <1>2, <1>3, <1>4, <1>5 DEF IInv

LEMMA NextIInv == TypeOK /\ IInv /\ [Next]_vars => IInv'
BY QueueStep, ProcessStep, SlotStep, DecisionStep, VerdictStep, KillsStep DEF IInv

THEOREM InductiveInvariant == Spec => []IInv
BY TypeCorrect, InitIInv, NextIInv, PTL DEF Spec

\* Whatever the files, the machines, the order of the answers and the failures
\* of fork(), get_evaluation_result reports what the solvers said.
THEOREM VerdictIsSound == Spec => []VerdictSound
<1>1. IInv => VerdictSound
  BY DEF IInv
<1>. QED BY <1>1, InductiveInvariant, PTL

\* No file is forgotten or launched twice between the three places it can be.
THEOREM NothingLost == Spec => []NoDispatchLost
<1>1. IInv => NoDispatchLost
  <2> SUFFICES ASSUME IInv, pc # "join", NEW f \in Files
               PROVE  \/ f \in Range(delayed) /\ f \notin Range(remote) /\ task[f] = "idle"
                      \/ f \in Range(remote) /\ f \notin Range(delayed) /\ task[f] # "idle"
                      \/ /\ f \notin Range(delayed) \union Range(remote)
                         /\ task[f] = "returned"
                         /\ pc \in {"clear", "fill", "wait"} => child[f] = "sat"
    BY DEF NoDispatchLost
  <2>1. f \in Range(delayed) <=> task[f] = "idle"
    BY DEF IInv, QueueInv, Range
  <2>2. f \in Range(remote) => task[f] # "idle"
    BY FilesAssumption DEF IInv, QueueInv, Range, Outstanding
  <2>3. task[f] \notin {"idle", "returned"} => f \in Range(remote)
    BY DEF IInv, QueueInv
  <2>. QED BY <2>1, <2>2, <2>3 DEF IInv, DecisionInv
<1>. QED BY <1>1, InductiveInvariant, PTL

\* Processes are only killed for a reason.
THEOREM KillsAreJustified == Spec => []KillsJustified
<1>1. IInv => KillsJustified
  BY DEF IInv
<1>. QED BY <1>1, InductiveInvariant, PTL

(***************************************************************************)
(* Slots.                                                                  *)
(***************************************************************************)
LEMMA BusyFinite == \A m : IsFiniteSet(Busy(m))
BY FilesAssumption, FS_Subset DEF Busy

\* Launching an idle file on m adds it to the tasks busy on m, and to no other.
LEMMA LaunchBusy ==
  ASSUME TypeOK, QueueInv, delayed # <<>>, NEW r, NEW m, Launch(r, m)
  PROVE  /\ Cardinality(Busy(m)') = Cardinality(Busy(m)) + 1
         /\ \A q : q # m => Busy(q)' = Busy(q)
<1>1. PICK file \in Files : /\ task[file] = "idle"
                            /\ task' = [task EXCEPT ![file] = "fork"]
                            /\ machine' = [machine EXCEPT ![file] = m]
  BY LaunchFrame
<1>2. Busy(m)' = Busy(m) \union {file} /\ file \notin Busy(m)
  BY <1>1 DEF Busy, TypeOK
<1>3. \A q : q # m => Busy(q)' = Busy(q)
  BY <1>1 DEF Busy, TypeOK
<1>. QED BY <1>2, <1>3, BusyFinite, FS_AddElement

\* What is counted free and what is in use never add up to less than numberSlots.
LEMMA NoSlotLostStep ==
  ASSUME TypeOK, QueueInv, NoSlotLost, [Next]_vars
  PROVE  NoSlotLost'
<1>1. ASSUME NEW f \in Files, Dispatch(f) PROVE NoSlotLost'
  BY <1>1 DEF Dispatch, mainVars, taskVars, killVars, NoSlotLost, Busy
<1>2. ASSUME Joined PROVE NoSlotLost'
  BY <1>2 DEF Joined, queueVars, taskVars, killVars, NoSlotLost, Busy
<1>3. ASSUME ClearEnter PROVE NoSlotLost'
  BY <1>3 DEF ClearEnter, queueVars, taskVars, killVars, NoSlotLost, Busy
<1>4. ASSUME NEW m \in Machine, FillSlot(m) PROVE NoSlotLost'
  <2>1. /\ delayed # <<>> /\ Launch(remote, m) /\ slots[m] > 0
        /\ slots' = [slots EXCEPT ![m] = @ - 1]
    BY <1>4 DEF FillSlot, IsNextMachine
  <2> SUFFICES ASSUME NEW q \in Machine
               PROVE  slots'[q] + Cardinality(Busy(q)') >= Slots[q]
    BY DEF NoSlotLost
  <2>2. Cardinality(Busy(q)) \in Nat /\ slots[q] \in Nat /\ Slots[q] \in Nat
        /\ slots[q] + Cardinality(Busy(q)) >= Slots[q]
    BY BusyFinite, FS_CardinalityType, MachinesAssumption DEF NoSlotLost, TypeOK
  <2>3. CASE q = m
    <3>1. slots'[q] = slots[q] - 1
      BY <2>1, <2>3 DEF TypeOK
    <3>2. Cardinality(Busy(q)') = Cardinality(Busy(q)) + 1
      BY <2>1, <2>3, LaunchBusy
    <3>. QED BY <2>2, <3>1, <3>2
  <2>4. CASE q # m
    <3>1. slots'[q] = slots[q]
      BY <2>1, <2>4 DEF TypeOK
    <3>2. Busy(q)' = Busy(q)
      BY <2>1, <2>4, LaunchBusy
    <3>. QED BY <2>2, <3>1, <3>2
  <2>. QED BY <2>3, <2>4
<1>5. ASSUME FillOver PROVE NoSlotLost'
  BY <1>5 DEF FillOver, queueVars, taskVars, killVars, NoSlotLost, Busy
<1>6. ASSUME ClearDone PROVE NoSlotLost'
  BY <1>6 DEF ClearDone, queueVars, taskVars, killVars, NoSlotLost, Busy
<1>7. ASSUME NEW i \in DOMAIN remote, Collect(i) PROVE NoSlotLost'
  <2>1. UNCHANGED slots
    BY <1>7 DEF Collect
  <2>2. CASE UNCHANGED <<machine, task>>
    BY <2>1, <2>2 DEF NoSlotLost, Busy
  <2>3. CASE delayed # <<>>
    <3>1. PICK n : n = machine[remote[i]] /\ Launch([remote EXCEPT ![i] = Null], n)
      BY <1>7, <2>3 DEF Collect
    <3>2. /\ Cardinality(Busy(n)') = Cardinality(Busy(n)) + 1
          /\ \A q : q # n => Busy(q)' = Busy(q)
      BY <2>3, <3>1, LaunchBusy
    <3> SUFFICES ASSUME NEW q \in Machine
                 PROVE  slots'[q] + Cardinality(Busy(q)') >= Slots[q]
      BY DEF NoSlotLost
    <3>3. Cardinality(Busy(q)) \in Nat /\ slots[q] \in Nat /\ Slots[q] \in Nat
          /\ slots[q] + Cardinality(Busy(q)) >= Slots[q]
      BY BusyFinite, FS_CardinalityType, MachinesAssumption DEF NoSlotLost, TypeOK
    <3>4. CASE q = n
      BY <2>1, <3>2, <3>3, <3>4
    <3>5. CASE q # n
      BY <2>1, <3>2, <3>3, <3>5
    <3>. QED BY <3>4, <3>5
  <2>. QED BY <1>7, <2>2, <2>3 DEF Collect
<1>8. ASSUME NEW i \in DOMAIN remote, CollectThrow(i) PROVE NoSlotLost'
  BY <1>8 DEF CollectThrow, queueVars, taskVars, killVars, NoSlotLost, Busy
<1>9. ASSUME MainKillEnter PROVE NoSlotLost'
  BY <1>9 DEF MainKillEnter, queueVars, taskVars, NoSlotLost, Busy
<1>10. ASSUME NEW f \in Files, TaskKillEnter(f) PROVE NoSlotLost'
  BY <1>10 DEF TaskKillEnter, mainVars, queueVars, NoSlotLost, Busy, TypeOK
<1>11. ASSUME NEW t \in Files \union {Main}, KillStep(t) PROVE NoSlotLost'
  BY <1>11 DEF KillStep, mainVars, queueVars, taskVars, NoSlotLost, Busy, Killing
<1>12. ASSUME NEW t \in Files \union {Main}, KillForkFails(t) PROVE NoSlotLost'
  BY <1>12 DEF KillForkFails, mainVars, queueVars, taskVars, NoSlotLost, Busy, Killing
<1>13. ASSUME MainKillExit PROVE NoSlotLost'
  BY <1>13 DEF MainKillExit, queueVars, taskVars, killVars, NoSlotLost, Busy, Killing
<1>14. ASSUME NEW f \in Files, TaskKillExit(f) PROVE NoSlotLost'
  BY FilesAssumption, <1>14 DEF TaskKillExit, mainVars, queueVars, NoSlotLost, Busy, TypeOK, Killing
<1>15. ASSUME Destroy PROVE NoSlotLost'
  BY <1>15 DEF Destroy, queueVars, taskVars, killVars, NoSlotLost, Busy
<1>16. ASSUME NEW f \in Files, ForkChild(f) PROVE NoSlotLost'
  BY <1>16 DEF ForkChild, mainVars, queueVars, killVars, NoSlotLost, Busy, TypeOK
<1>17. ASSUME NEW f \in Files, ForkFails(f) PROVE NoSlotLost'
  BY <1>17 DEF ForkFails, mainVars, queueVars, killVars, NoSlotLost, Busy, TypeOK
<1>18. ASSUME NEW f \in Files, SetPid(f) PROVE NoSlotLost'
  BY <1>18 DEF SetPid, mainVars, queueVars, killVars, NoSlotLost, Busy, TypeOK
<1>19. ASSUME NEW f \in Files, WaitPid(f) PROVE NoSlotLost'
  BY <1>19 DEF WaitPid, mainVars, queueVars, killVars, NoSlotLost, Busy, TypeOK
<1>20. ASSUME NEW f \in Files, ReleaseSlot(f) PROVE NoSlotLost'
  <2> SUFFICES ASSUME NEW q \in Machine
               PROVE  slots'[q] + Cardinality(Busy(q)') >= Slots[q]
    BY DEF NoSlotLost
  <2>1. Cardinality(Busy(q)) \in Nat /\ slots[q] \in Nat /\ Slots[q] \in Nat
        /\ slots[q] + Cardinality(Busy(q)) >= Slots[q]
    BY BusyFinite, FS_CardinalityType, MachinesAssumption DEF NoSlotLost, TypeOK
  <2>2. /\ task[f] = "release" /\ task' = [task EXCEPT ![f] = "returned"]
        /\ slots' = [slots EXCEPT ![machine[f]] = @ + 1] /\ UNCHANGED machine
    BY <1>20 DEF ReleaseSlot
  <2>3. CASE q = machine[f]
    <3>1. slots'[q] = slots[q] + 1
      BY <2>2, <2>3 DEF TypeOK
    <3>2. Busy(q)' = Busy(q) \ {f} /\ f \in Busy(q)
      BY <2>2, <2>3 DEF Busy, TypeOK
    <3>3. Cardinality(Busy(q)') = Cardinality(Busy(q)) - 1
      BY <3>2, BusyFinite, FS_RemoveElement
    <3>. QED BY <2>1, <3>1, <3>3
  <2>4. CASE q # machine[f]
    <3>1. slots'[q] = slots[q]
      BY <2>2, <2>4 DEF TypeOK
    <3>2. Busy(q)' = Busy(q)
      BY <2>2, <2>4 DEF Busy, TypeOK
    <3>. QED BY <2>1, <3>1, <3>2
  <2>. QED BY <2>3, <2>4
<1>21. ASSUME NEW f \in Files, ChildExits(f) PROVE NoSlotLost'
  BY <1>21 DEF ChildExits, mainVars, queueVars, killVars, NoSlotLost, Busy
<1>22. ASSUME NEW f \in Files, DeliverKill(f) PROVE NoSlotLost'
  BY <1>22 DEF DeliverKill, mainVars, queueVars, NoSlotLost, Busy
<1>23. ASSUME DeliverGroupKill PROVE NoSlotLost'
  BY <1>23 DEF DeliverGroupKill, queueVars, taskVars, killVars, NoSlotLost, Busy
<1>24. ASSUME Terminating PROVE NoSlotLost'
  BY <1>24 DEF Terminating, vars, mainVars, queueVars, taskVars, killVars, NoSlotLost, Busy
<1>25. ASSUME UNCHANGED vars PROVE NoSlotLost'
  BY <1>25 DEF vars, mainVars, queueVars, taskVars, killVars, NoSlotLost, Busy
<1>. QED
  BY <1>1, <1>2, <1>3, <1>4, <1>5, <1>6, <1>7, <1>8, <1>9, <1>10, <1>11, <1>12, <1>13, <1>14, <1>15, <1>16, <1>17, <1>18, <1>19, <1>20, <1>21, <1>22, <1>23, <1>24, <1>25 DEF Next, MainStep, TaskStep

\* No machine ever loses a slot, whatever is launched, relaunched or fails.
THEOREM NoSlotIsLost == Spec => []NoSlotLost
<1>1. Init => NoSlotLost
  <2> SUFFICES ASSUME Init, NEW m \in Machine
               PROVE  slots[m] + Cardinality(Busy(m)) >= Slots[m]
    BY DEF NoSlotLost
  <2>1. Busy(m) = {}
    BY DEF Init, Busy
  <2>2. slots[m] = Slots[m] /\ Slots[m] \in Nat
    BY MachinesAssumption DEF Init
  <2>. QED BY <2>1, <2>2, FS_EmptySet
<1>2. TypeOK /\ IInv /\ NoSlotLost /\ [Next]_vars => NoSlotLost'
  BY NoSlotLostStep DEF IInv
<1>. QED BY <1>1, <1>2, TypeCorrect, InductiveInvariant, PTL DEF Spec

(***************************************************************************)
(* The manager implements the contract of EvaluationResult.                *)
(***************************************************************************)
Abs == [f \in Files |-> answerOf(f)]

\* A step that keeps every process's answer, the verdict and the question is a
\* stutter of the contract.
LEMMA Stutter ==
  ASSUME Abs' = Abs, UNCHANGED <<result, expected_sat>>
  PROVE  [Contract!Next]_(Contract!vars)
BY DEF Contract!vars, Abs


\* Every step is an answer, a conclusion that the answers allow, or a stutter.
LEMMA ContractStep ==
  ASSUME TypeOK, IInv, [Next]_vars
  PROVE  [Contract!Next]_(Contract!vars)
<1>1. ASSUME NEW f \in Files, Dispatch(f) PROVE [Contract!Next]_(Contract!vars)
  BY <1>1, Stutter DEF Dispatch, mainVars, taskVars, killVars, Abs, answerOf
<1>2. ASSUME Joined PROVE [Contract!Next]_(Contract!vars)
  BY <1>2, Stutter DEF Joined, queueVars, taskVars, killVars, Abs, answerOf
<1>3. ASSUME ClearEnter PROVE [Contract!Next]_(Contract!vars)
  BY <1>3, Stutter DEF ClearEnter, queueVars, taskVars, killVars, Abs, answerOf
<1>4. ASSUME NEW m \in Machine, FillSlot(m) PROVE [Contract!Next]_(Contract!vars)
  BY <1>4, Stutter DEF FillSlot, mainVars, killVars, Abs, answerOf
<1>5. ASSUME FillOver PROVE [Contract!Next]_(Contract!vars)
  BY <1>5, Stutter DEF FillOver, queueVars, taskVars, killVars, Abs, answerOf
<1>6. ASSUME ClearDone PROVE [Contract!Next]_(Contract!vars)
  <2>1. /\ pc = "wait" /\ UNCHANGED <<child, expected_sat>>
        /\ result' = IF expected_sat THEN "OK" ELSE "ERR"
    BY <1>6 DEF ClearDone, taskVars
  <2>2. result = "none"
    BY <2>1 DEF IInv, DecisionInv
  <2>3. VerdictSound'
    BY VerdictStep DEF IInv, Next, MainStep
  <2>4. \A f \in Files : child[f] = "sat"
    BY <2>1, <2>3 DEF VerdictSound, TypeOK
  <2>5. (\A f \in Files : Abs[f] = "sat") /\ Abs' = Abs
    BY <2>1, <2>4 DEF Abs, answerOf
  <2>6. Contract!ConcludeSat
    BY <2>1, <2>2, <2>5 DEF Contract!ConcludeSat, Abs
  <2>. QED BY <2>6 DEF Contract!Next
<1>7. ASSUME NEW i \in DOMAIN remote, Collect(i) PROVE [Contract!Next]_(Contract!vars)
  BY <1>7, Stutter DEF Collect, killVars, Abs, answerOf
<1>8. ASSUME NEW i \in DOMAIN remote, CollectThrow(i) PROVE [Contract!Next]_(Contract!vars)
  BY <1>8, Stutter DEF CollectThrow, queueVars, taskVars, killVars, Abs, answerOf
<1>9. ASSUME MainKillEnter PROVE [Contract!Next]_(Contract!vars)
  BY <1>9, Stutter DEF MainKillEnter, queueVars, taskVars, Abs, answerOf
<1>10. ASSUME NEW f \in Files, TaskKillEnter(f) PROVE [Contract!Next]_(Contract!vars)
  BY <1>10, Stutter DEF TaskKillEnter, mainVars, queueVars, Abs, answerOf
<1>11. ASSUME NEW t \in Files \union {Main}, KillStep(t) PROVE [Contract!Next]_(Contract!vars)
  BY <1>11, Stutter DEF KillStep, mainVars, queueVars, taskVars, Abs, answerOf
<1>12. ASSUME NEW t \in Files \union {Main}, KillForkFails(t) PROVE [Contract!Next]_(Contract!vars)
  BY <1>12, Stutter DEF KillForkFails, mainVars, queueVars, taskVars, Abs, answerOf
<1>13. ASSUME MainKillExit PROVE [Contract!Next]_(Contract!vars)
  <2>1. pc = "killing" /\ UNCHANGED <<child, expected_sat>>
    BY <1>13 DEF MainKillExit, Killing, taskVars
  <2>2. Abs' = Abs
    BY <2>1 DEF Abs, answerOf
  <2>3. CASE doomed
    BY <1>13, <2>1, <2>2, <2>3, Stutter DEF MainKillExit
  <2>4. CASE ~doomed
    <3>1. result' = IF expected_sat THEN "ERR" ELSE "OK"
      BY <1>13, <2>4 DEF MainKillExit
    <3>2. result = "none" /\ \E f \in Files : NotSat(f)
      BY <2>1 DEF IInv, DecisionInv
    <3>3. \E f \in Files : Abs[f] = "notsat"
      BY <3>2 DEF Abs, answerOf, NotSat
    <3>4. Contract!ConcludeNotSat
      BY <2>1, <2>2, <3>1, <3>2, <3>3 DEF Contract!ConcludeNotSat, Abs
    <3>. QED BY <3>4 DEF Contract!Next
  <2>. QED BY <2>3, <2>4
<1>14. ASSUME NEW f \in Files, TaskKillExit(f) PROVE [Contract!Next]_(Contract!vars)
  BY <1>14, Stutter DEF TaskKillExit, mainVars, queueVars, Abs, answerOf
<1>15. ASSUME Destroy PROVE [Contract!Next]_(Contract!vars)
  BY <1>15, Stutter DEF Destroy, queueVars, taskVars, killVars, Abs, answerOf
<1>16. ASSUME NEW f \in Files, ForkChild(f) PROVE [Contract!Next]_(Contract!vars)
  <2>1. /\ child[f] = "none" /\ child' = [child EXCEPT ![f] = "running"]
        /\ UNCHANGED <<result, expected_sat>>
    BY <1>16 DEF ForkChild, mainVars, IInv, ProcessInv
  <2>2. \A g \in Files : answerOf(g)' = answerOf(g)
    BY <2>1 DEF answerOf, TypeOK
  <2>. QED BY <2>1, <2>2, Stutter DEF Abs
<1>17. ASSUME NEW f \in Files, ForkFails(f) PROVE [Contract!Next]_(Contract!vars)
  BY <1>17, Stutter DEF ForkFails, mainVars, queueVars, killVars, Abs, answerOf
<1>18. ASSUME NEW f \in Files, SetPid(f) PROVE [Contract!Next]_(Contract!vars)
  BY <1>18, Stutter DEF SetPid, mainVars, queueVars, killVars, Abs, answerOf
<1>19. ASSUME NEW f \in Files, WaitPid(f) PROVE [Contract!Next]_(Contract!vars)
  BY <1>19, Stutter DEF WaitPid, mainVars, queueVars, killVars, Abs, answerOf
<1>20. ASSUME NEW f \in Files, ReleaseSlot(f) PROVE [Contract!Next]_(Contract!vars)
  BY <1>20, Stutter DEF ReleaseSlot, mainVars, killVars, Abs, answerOf
<1>21. ASSUME NEW f \in Files, ChildExits(f) PROVE [Contract!Next]_(Contract!vars)
  <2>1. PICK a \in {"sat", "unsat", "failed"} :
           /\ child[f] = "running" /\ child' = [child EXCEPT ![f] = a]
           /\ UNCHANGED <<result, expected_sat>>
    BY <1>21 DEF ChildExits, mainVars
  <2>2. Abs[f] = "open" /\ answerOf(f)' \in {"sat", "notsat"}
        /\ \A g \in Files \ {f} : answerOf(g)' = answerOf(g)
    BY <2>1 DEF answerOf, TypeOK, Abs
  <2>3. Abs' = [Abs EXCEPT ![f] = answerOf(f)']
    BY <2>2 DEF Abs
  <2>4. Contract!Give(f)
    BY <2>1, <2>2, <2>3 DEF Contract!Give, Abs
  <2>. QED BY <2>4 DEF Contract!Next
<1>22. ASSUME NEW f \in Files, DeliverKill(f) PROVE [Contract!Next]_(Contract!vars)
  <2>1. /\ child' = [child EXCEPT ![f] = IF @ = "running" THEN "killed" ELSE @]
        /\ UNCHANGED <<result, expected_sat>>
    BY <1>22 DEF DeliverKill, mainVars
  <2>2. CASE child[f] # "running"
    <3>1. \A g \in Files : answerOf(g)' = answerOf(g)
      BY <2>1, <2>2 DEF answerOf, TypeOK
    <3>. QED BY <2>1, <3>1, Stutter DEF Abs
  <2>3. CASE child[f] = "running"
    <3>1. Abs[f] = "open" /\ answerOf(f)' = "notsat"
          /\ \A g \in Files \ {f} : answerOf(g)' = answerOf(g)
      BY <2>1, <2>3 DEF answerOf, TypeOK, Abs
    <3>2. Abs' = [Abs EXCEPT ![f] = "notsat"]
      BY <3>1 DEF Abs
    <3>3. Contract!Give(f)
      BY <2>1, <3>1, <3>2 DEF Contract!Give, Abs
    <3>. QED BY <3>3 DEF Contract!Next
  <2>. QED BY <2>2, <2>3
<1>23. ASSUME DeliverGroupKill PROVE [Contract!Next]_(Contract!vars)
  BY <1>23, Stutter DEF DeliverGroupKill, queueVars, taskVars, killVars, Abs, answerOf
<1>24. ASSUME Terminating PROVE [Contract!Next]_(Contract!vars)
  BY <1>24, Stutter DEF Terminating, vars, mainVars, queueVars, taskVars, killVars, Abs, answerOf
<1>25. ASSUME UNCHANGED vars PROVE [Contract!Next]_(Contract!vars)
  BY <1>25, Stutter DEF vars, mainVars, queueVars, taskVars, killVars, Abs, answerOf
<1>. QED
  BY <1>1, <1>2, <1>3, <1>4, <1>5, <1>6, <1>7, <1>8, <1>9, <1>10, <1>11, <1>12, <1>13, <1>14, <1>15, <1>16, <1>17, <1>18, <1>19, <1>20, <1>21, <1>22, <1>23, <1>24, <1>25 DEF Next, MainStep, TaskStep

\* For every number of files and machines, what the manager and its threads do
\* is what EvaluationResult allows.
THEOREM ManagerImplementsContract == Spec => RefinesEvaluationResult
<1>1. Init => Contract!Init
  BY DEF Init, Contract!Init, answerOf
<1>2. TypeOK /\ IInv /\ [Next]_vars => [Contract!Next]_(Contract!vars)
  BY ContractStep
<1>. QED
  BY <1>1, <1>2, TypeCorrect, InductiveInvariant, PTL
  DEF Spec, RefinesEvaluationResult, Contract!Spec

(***************************************************************************)
(* The evaluation ends: no step is done twice.                             *)
(***************************************************************************)

LEMMA IntervalShrinks ==
  ASSUME NEW a \in Nat, NEW b \in Nat, NEW n \in Nat, a <= b
  PROVE  (b + 1)..n \subseteq (a + 1)..n
OBVIOUS

LEMMA TaskRanks == \A s \in TaskStates : TaskRank[s] \in 0..5
BY DEF TaskStates, TaskRank

\* What is still to be done does not become more where every part of it only
\* goes on.
LEMMA NothingComesBack ==
  ASSUME TypeOK, TypeOK',
         MainRank[pc] <= MainRank[pc'],
         Ahead'.files \subseteq Ahead.files,
         \A f \in Files : TaskRank[task[f]] <= TaskRank[task'[f]],
         \A f \in Files : child'[f] \in {"none", "running"} => child[f] \in {"none", "running"},
         Ahead'.results \subseteq Ahead.results,
         forkFailures <= forkFailures'
  PROVE  \A x \in DOMAIN Ahead : Ahead'[x] \subseteq Ahead[x]
<1>1. Ahead'.main \subseteq Ahead.main
  <2>1. MainRank[pc] \in 0..5 /\ MainRank[pc'] \in 0..5
    BY DEF TypeOK, MainStates, MainRank
  <2> QED
    BY <2>1 DEF Ahead
<1>2. Ahead'.tasks \subseteq Ahead.tasks
  <2>1. \A f \in Files : TaskRank[task[f]] \in 0..5 /\ TaskRank[task'[f]] \in 0..5
    BY TaskRanks DEF TypeOK
  <2>2. \A t \in Files \X (1..5) : t[1] \in Files /\ t[2] \in 1..5
    OBVIOUS
  <2>3. \A t \in Files \X (1..5) : TaskRank[task'[t[1]]] < t[2] => TaskRank[task[t[1]]] < t[2]
    BY <2>1, <2>2
  <2> QED
    BY <2>3 DEF Ahead
<1>3. Ahead'.children \subseteq Ahead.children
  BY DEF Ahead
<1>4. Ahead'.forks \subseteq Ahead.forks
  <2>1. forkFailures \in Nat /\ forkFailures' \in Nat /\ MaxForkFailures \in Nat
        /\ forkFailures <= forkFailures'
    BY ForkAssumption DEF TypeOK
  <2>2. (forkFailures' + 1)..MaxForkFailures \subseteq (forkFailures + 1)..MaxForkFailures
    BY <2>1, IntervalShrinks
  <2> QED
    BY <2>2 DEF Ahead
<1>5. DOMAIN Ahead = {"main", "files", "tasks", "children", "results", "forks"}
  BY DEF Ahead
<1> QED
  BY <1>1, <1>2, <1>3, <1>4, <1>5

\* A task's next step.
LEMMA TaskFewer ==
  ASSUME TypeOK, NEW f \in Files, TaskRank[task[f]] < TaskRank[task'[f]], task'[f] \in TaskStates
  PROVE  Ahead'.tasks # Ahead.tasks
<1>1. TaskRank[task'[f]] \in 1..5
  <2>1. TaskRank[task[f]] \in 0..5 /\ TaskRank[task'[f]] \in 0..5
    BY TaskRanks DEF TypeOK
  <2> QED
    BY <2>1
<1>2. PICK k : k = TaskRank[task'[f]]
  OBVIOUS
<1>3. k \in 1..5 /\ TaskRank[task[f]] < k /\ ~(TaskRank[task'[f]] < k)
  BY <1>1, <1>2
<1>4. <<f, k>> \in Ahead.tasks
  BY <1>3 DEF Ahead
<1>5. <<f, k>> \notin Ahead'.tasks
  BY <1>3 DEF Ahead
<1> QED
  BY <1>4, <1>5

\* The main thread's next step, with nothing else changed.
LEMMA MainFewer ==
  ASSUME TypeOK, TypeOK', MainRank[pc] < MainRank[pc'],
         UNCHANGED <<delayed, remote, task, child, forkFailures>>
  PROVE  Fewer(Ahead', Ahead)
<1>1. MainRank[pc] \in 0..5 /\ MainRank[pc'] \in 0..5
  BY DEF TypeOK, MainStates, MainRank
<1>2. PICK k : k = MainRank[pc']
  OBVIOUS
<1>3. k \in Ahead.main /\ k \notin Ahead'.main
  BY <1>1, <1>2 DEF Ahead
<1>4. /\ Ahead'.files \subseteq Ahead.files /\ Ahead'.results \subseteq Ahead.results
      /\ forkFailures <= forkFailures'
      /\ \A f \in Files : TaskRank[task[f]] <= TaskRank[task'[f]]
  <2>1. \A f \in Files : TaskRank[task[f]] \in 0..5
    BY TaskRanks DEF TypeOK
  <2>2. forkFailures \in Nat
    BY ForkAssumption DEF TypeOK
  <2> QED
    BY <2>1, <2>2 DEF Ahead
<1>5. \A x \in DOMAIN Ahead : Ahead'[x] \subseteq Ahead[x]
  BY <1>1, <1>4, NothingComesBack
<1> QED
  BY <1>3, <1>5 DEF Fewer

\* A step of the task of a dispatch.
LEMMA TaskStepFewer ==
  ASSUME TypeOK, TypeOK', ProcessInv, NEW f \in Files,
         \/ ForkChild(f) \/ ForkFails(f) \/ SetPid(f) \/ WaitPid(f) \/ ReleaseSlot(f)
         \/ TaskKillEnter(f) \/ TaskKillExit(f)
  PROVE  Fewer(Ahead', Ahead)
<1>1. /\ UNCHANGED <<pc, delayed, remote>>
      /\ task[f] # "idle" /\ task' = [task EXCEPT ![f] = task'[f]]
      /\ TaskRank[task[f]] < TaskRank[task'[f]]
      /\ forkFailures <= forkFailures'
      /\ \A g \in Files : child'[g] \in {"none", "running"} => child[g] \in {"none", "running"}
  <2>0. forkFailures \in Nat /\ f # Main
    BY ForkAssumption, FilesAssumption DEF TypeOK
  <2>1. CASE ForkChild(f)
    BY <2>0, <2>1 DEF ForkChild, mainVars, queueVars, TypeOK, TaskRank, ProcessInv
  <2>2. CASE ForkFails(f)
    BY <2>0, <2>2 DEF ForkFails, mainVars, queueVars, TypeOK, TaskRank
  <2>3. CASE SetPid(f)
    BY <2>0, <2>3 DEF SetPid, mainVars, queueVars, TypeOK, TaskRank
  <2>4. CASE WaitPid(f)
    BY <2>0, <2>4 DEF WaitPid, mainVars, queueVars, TypeOK, TaskRank
  <2>5. CASE ReleaseSlot(f)
    BY <2>0, <2>5 DEF ReleaseSlot, mainVars, TypeOK, TaskRank
  <2>6. CASE TaskKillEnter(f)
    BY <2>0, <2>6 DEF TaskKillEnter, mainVars, queueVars, TypeOK, TaskRank
  <2>7. CASE TaskKillExit(f)
    BY <2>0, <2>7 DEF TaskKillExit, Killing, mainVars, queueVars, TypeOK, TaskRank
  <2> QED
    BY <2>1, <2>2, <2>3, <2>4, <2>5, <2>6, <2>7
<1>2. task'[f] # "idle" /\ task'[f] \in TaskStates
  BY <1>1 DEF TypeOK, TaskStates, TaskRank
<1>3. \A g \in Files \ {f} : task'[g] = task[g]
  BY <1>1 DEF TypeOK
<1>4. \A g \in Files : TaskRank[task[g]] \in 0..5 /\ TaskRank[task[g]] <= TaskRank[task'[g]]
  <2>1. \A g \in Files : TaskRank[task[g]] \in 0..5
    BY TaskRanks DEF TypeOK
  <2>2. TaskRank[task'[f]] \in 0..5
    BY <1>2 DEF TaskStates, TaskRank
  <2> QED
    BY <1>1, <1>3, <2>1, <2>2
<1>5. Ahead'.files \subseteq Ahead.files /\ Ahead'.results \subseteq Ahead.results
  BY <1>1, <1>2, <1>3 DEF Ahead
<1>6. MainRank[pc] <= MainRank[pc']
  BY <1>1 DEF TypeOK, MainStates, MainRank
<1>7. \A x \in DOMAIN Ahead : Ahead'[x] \subseteq Ahead[x]
  BY <1>1, <1>4, <1>5, <1>6, NothingComesBack
<1>8. Ahead'.tasks # Ahead.tasks
  BY <1>1, <1>2, TaskFewer
<1> QED
  BY <1>7, <1>8 DEF Fewer

\* A launch takes a file from delayed_dispatches to a task, whatever was cleared
\* in r.
LEMMA LaunchFewer ==
  ASSUME TypeOK, TypeOK', QueueInv, delayed # <<>>, NEW m,
         NEW r \in Seq(Files \union {Null}), Range(r) \subseteq Range(remote) \union {Null},
         Launch(r, m), MainRank[pc] <= MainRank[pc'], UNCHANGED <<child, forkFailures>>
  PROVE  Fewer(Ahead', Ahead)
<1> DEFINE n == Len(delayed)
           file == delayed[n]
<1>1. n \in Nat \ {0} /\ file \in Files /\ task[file] = "idle" /\ file # Null
      /\ DOMAIN delayed = 1..n
  BY FilesAssumption DEF TypeOK, QueueInv
<1>2. /\ task'[file] = "fork"
      /\ \A g \in Files \ {file} : task'[g] = task[g]
      /\ remote' = Append(r, file)
      /\ delayed' = SubSeq(delayed, 1, n - 1)
  BY <1>1 DEF Launch, TypeOK
<1>3. \A g \in Range(delayed) : g = file \/ g \in Range(delayed')
  <2>1. DOMAIN delayed' = 1..(n - 1) /\ \A i \in 1..(n - 1) : delayed'[i] = delayed[i]
    BY <1>1, <1>2 DEF TypeOK
  <2>2. \A i \in 1..n : i = n \/ i \in 1..(n - 1)
    <3> HIDE DEF n
    <3> QED
      BY <1>1
  <2> QED
    BY <1>1, <2>1, <2>2 DEF Range
<1>4. \A g \in Range(remote') : g = file \/ g \in Range(r)
  BY <1>1, <1>2 DEF Range
<1>5. Ahead'.files \subseteq Ahead.files
  BY <1>2, <1>3 DEF Ahead
<1>6. Ahead'.results \subseteq Ahead.results
  <2>1. Null \notin Files
    BY FilesAssumption
  <2> QED
    BY <1>1, <1>2, <1>4, <2>1 DEF Ahead
<1>7. TaskRank[task[file]] = 0 /\ TaskRank[task'[file]] = 1
  BY <1>1, <1>2 DEF TaskRank
<1>8. \A g \in Files : TaskRank[task[g]] <= TaskRank[task'[g]]
  <2>1. \A g \in Files : TaskRank[task[g]] \in 0..5
    BY TaskRanks DEF TypeOK
  <2> QED
    BY <1>2, <1>7, <2>1
<1>9. forkFailures <= forkFailures'
  BY ForkAssumption DEF TypeOK
<1>10. \A x \in DOMAIN Ahead : Ahead'[x] \subseteq Ahead[x]
  BY <1>5, <1>6, <1>8, <1>9, NothingComesBack
<1>11. Ahead'.tasks # Ahead.tasks
  <2>1. TaskRank[task[file]] < TaskRank[task'[file]] /\ task'[file] \in TaskStates
    BY <1>2, <1>7 DEF TaskStates
  <2> HIDE DEF file
  <2> QED
    BY <1>1, <2>1, TaskFewer
<1> QED
  BY <1>10, <1>11 DEF Fewer

\* A result that is collected is not collected again.
LEMMA CollectFewer ==
  ASSUME TypeOK, TypeOK', QueueInv, NEW i \in DOMAIN remote, Collect(i)
  PROVE  Fewer(Ahead', Ahead)
<1> DEFINE f == remote[i]
           r == [remote EXCEPT ![i] = Null]
<1>1. /\ f \in Files /\ f # Null /\ task[f] = "returned" /\ i \in Outstanding
      /\ pc = "wait" /\ pc' \in {"clear", "kill"} /\ UNCHANGED <<child, forkFailures>>
  BY DEF Collect, IsFirstOutstanding, Outstanding, TypeOK
<1>2. r \in Seq(Files \union {Null}) /\ DOMAIN r = DOMAIN remote
      /\ r[i] = Null /\ \A j \in DOMAIN remote \ {i} : r[j] = remote[j]
  BY DEF TypeOK
<1>3. Range(r) \subseteq Range(remote) \union {Null} /\ f \notin Range(r)
  <2>1. \A j \in DOMAIN remote : remote[j] = f => j = i
    BY <1>1 DEF QueueInv, Outstanding
  <2> HIDE DEF f, r
  <2> QED
    BY <1>1, <1>2, <2>1 DEF Range
<1> HIDE DEF r
<1>4. MainRank[pc] <= MainRank[pc']
  BY <1>1 DEF MainRank
<1>5. CASE delayed # <<>>
  <2>1. Launch(r, machine[f])
    BY <1>5 DEF Collect, r
  <2> QED
    BY <1>1, <1>2, <1>3, <1>4, <1>5, <2>1, LaunchFewer
<1>6. CASE delayed = <<>>
  <2>1. remote' = r /\ UNCHANGED <<delayed, task>>
    BY <1>6 DEF Collect, r
  <2>2. /\ Ahead'.files \subseteq Ahead.files /\ Ahead'.results \subseteq Ahead.results
        /\ f \in Ahead.results /\ f \notin Ahead'.results
    <3>1. f \in Range(remote) /\ Null \notin Files
      BY FilesAssumption DEF Range
    <3> QED
      BY <1>1, <1>3, <2>1, <3>1 DEF Ahead
  <2>3. \A g \in Files : TaskRank[task[g]] <= TaskRank[task'[g]]
    <3>1. \A g \in Files : TaskRank[task[g]] \in 0..5
      BY TaskRanks DEF TypeOK
    <3> QED
      BY <2>1, <3>1
  <2>4. forkFailures <= forkFailures'
    BY <1>1, ForkAssumption DEF TypeOK
  <2>5. \A x \in DOMAIN Ahead : Ahead'[x] \subseteq Ahead[x]
    BY <1>1, <1>4, <2>2, <2>3, <2>4, NothingComesBack
  <2> QED
    BY <2>2, <2>5 DEF Fewer
<1> QED
  BY <1>5, <1>6

\* A process that ends, by itself or by a signal, ends once.
LEMMA ChildFewer ==
  ASSUME TypeOK, TypeOK', NEW f \in Files, child[f] = "running",
         child'[f] \notin {"none", "running"}, \A g \in Files \ {f} : child'[g] = child[g],
         UNCHANGED <<pc, delayed, remote, task, forkFailures>>
  PROVE  Fewer(Ahead', Ahead)
<1>1. \A g \in Files : TaskRank[task[g]] <= TaskRank[task'[g]]
  <2>1. \A g \in Files : TaskRank[task[g]] \in 0..5
    BY TaskRanks DEF TypeOK
  <2> QED
    BY <2>1
<1>2. MainRank[pc] <= MainRank[pc'] /\ forkFailures <= forkFailures'
  BY ForkAssumption DEF TypeOK, MainStates, MainRank
<1>3. Ahead'.files \subseteq Ahead.files /\ Ahead'.results \subseteq Ahead.results
  BY DEF Ahead
<1>4. \A x \in DOMAIN Ahead : Ahead'[x] \subseteq Ahead[x]
  BY <1>1, <1>2, <1>3, NothingComesBack
<1>5. f \in Ahead.children /\ f \notin Ahead'.children
  BY DEF Ahead
<1> QED
  BY <1>4, <1>5 DEF Fewer

\* Steps that do none of it: the loop of kill_dispatches, a signal to a process that
\* has ended, and the way through clear_dispatches.
LEMMA SameAhead ==
  ASSUME UNCHANGED <<delayed, remote, task, child, forkFailures>>, MainRank[pc'] = MainRank[pc]
  PROVE  Ahead' = Ahead
BY DEF Ahead

\* Every step of the threads, tasks and processes of an evaluation goes on from what
\* was done to something that was not.
THEOREM EvaluationRunsOut == Spec => EvaluationGoesOn
<1> DEFINE Goes ==
      \/ Fewer(Ahead', Ahead)
      \/ /\ Ahead' = Ahead
         /\ \/ Less(EntriesAhead', EntriesAhead)
            \/ EntriesAhead' = EntriesAhead /\ Less(kills', kills)
            \/ EntriesAhead' = EntriesAhead /\ kills' = kills /\ Less(LoopAhead', LoopAhead)
<1>1. TypeOK /\ IInv /\ [Next]_vars => [Goes]_vars
  <2> SUFFICES ASSUME TypeOK, IInv, Next, ~UNCHANGED vars PROVE Goes
    OBVIOUS
  <2>0. TypeOK' /\ QueueInv /\ ProcessInv
    BY NextType DEF IInv
  <2>1. ASSUME NEW f \in Files, Dispatch(f) PROVE Goes
    <3>1. /\ f \notin Range(delayed) /\ delayed' = Append(delayed, f) /\ pc = "join"
          /\ UNCHANGED <<pc, remote, task, child, forkFailures>>
      BY <2>1 DEF Dispatch, mainVars, taskVars
    <3>2. Range(delayed') = Range(delayed) \union {f}
      <4>1. /\ DOMAIN delayed' = 1..(Len(delayed) + 1) /\ DOMAIN delayed = 1..Len(delayed)
            /\ delayed'[Len(delayed) + 1] = f /\ Len(delayed) \in Nat
            /\ \A i \in 1..Len(delayed) : delayed'[i] = delayed[i]
        BY <3>1 DEF TypeOK
      <4>2. 1..(Len(delayed) + 1) = 1..Len(delayed) \union {Len(delayed) + 1}
        BY <4>1
      <4> QED
        BY <4>1, <4>2 DEF Range
    <3>3. task[f] = "idle"
      BY <2>0, <3>1 DEF QueueInv
    <3>4. f \in Ahead.files /\ f \notin Ahead'.files /\ Ahead'.files \subseteq Ahead.files
      BY <3>1, <3>2, <3>3 DEF Ahead
    <3>5. \A g \in Files : TaskRank[task[g]] <= TaskRank[task'[g]]
      <4>1. \A g \in Files : TaskRank[task[g]] \in 0..5
        BY TaskRanks DEF TypeOK
      <4> QED
        BY <3>1, <4>1
    <3>6. MainRank[pc] <= MainRank[pc'] /\ forkFailures <= forkFailures'
      BY <3>1, ForkAssumption DEF TypeOK, MainStates, MainRank
    <3>7. Ahead'.results \subseteq Ahead.results
      BY <3>1 DEF Ahead
    <3>8. \A x \in DOMAIN Ahead : Ahead'[x] \subseteq Ahead[x]
      BY <2>0, <3>1, <3>4, <3>5, <3>6, <3>7, NothingComesBack
    <3> QED
      BY <3>4, <3>8 DEF Fewer
  <2>2. CASE Joined \/ ClearDone \/ MainKillEnter \/ MainKillExit \/ Destroy \/ DeliverGroupKill
             \/ \E i \in DOMAIN remote : CollectThrow(i)
    <3>1. /\ UNCHANGED <<delayed, remote, task, child, forkFailures>>
          /\ MainRank[pc] < MainRank[pc']
      BY <2>2 DEF Joined, ClearDone, MainKillEnter, MainKillExit, Killing, Destroy, DeliverGroupKill, Ended,
                  CollectThrow, queueVars, taskVars, MainRank, TypeOK, MainStates
    <3> QED
      BY <2>0, <3>1, MainFewer
  <2>3. CASE ClearEnter \/ FillOver
    <3>1. /\ UNCHANGED <<delayed, remote, task, child, forkFailures, current, kills>>
          /\ (pc = "clear" /\ pc' = "fill") \/ (pc = "fill" /\ pc' = "wait")
      BY <2>3 DEF ClearEnter, FillOver, queueVars, taskVars, killVars
    <3>2. Ahead' = Ahead
      BY <3>1, SameAhead DEF MainRank
    <3>3. EntriesAhead' = EntriesAhead /\ kills' = kills
      BY <3>1 DEF EntriesAhead
    <3>4. Less(LoopAhead', LoopAhead)
      BY <3>1 DEF Less, LoopAhead, LoopRank
    <3> QED
      BY <3>2, <3>3, <3>4
  <2>4. ASSUME NEW m \in Machine, FillSlot(m) PROVE Goes
    <3>1. /\ delayed # <<>> /\ Launch(remote, m) /\ UNCHANGED <<pc, child, forkFailures>>
          /\ remote \in Seq(Files \union {Null})
      BY <2>4 DEF FillSlot, mainVars, TypeOK
    <3>2. MainRank[pc] <= MainRank[pc']
      BY <3>1 DEF TypeOK, MainStates, MainRank
    <3> QED
      BY <2>0, <3>1, <3>2, LaunchFewer
  <2>5. ASSUME NEW i \in DOMAIN remote, Collect(i) PROVE Goes
    BY <2>0, <2>5, CollectFewer
  <2>6. ASSUME NEW t \in Files \union {Main}, KillStep(t) PROVE Goes
    <3>1. /\ UNCHANGED <<pc, delayed, remote, task, child, forkFailures>>
          /\ current \in DOMAIN remote /\ current' = current + 1
      BY <2>6 DEF KillStep, mainVars, queueVars, taskVars
    <3>2. Ahead' = Ahead
      BY <3>1, SameAhead
    <3>3. Less(EntriesAhead', EntriesAhead)
      <4>1. DOMAIN remote \subseteq Nat /\ current \in Nat
        BY DEF TypeOK
      <4>2. current \in EntriesAhead /\ current \notin EntriesAhead'
        BY <3>1, <4>1 DEF EntriesAhead
      <4>3. EntriesAhead' \subseteq EntriesAhead
        BY <3>1, <4>1 DEF EntriesAhead
      <4> QED
        BY <4>2, <4>3 DEF Less
    <3> QED
      BY <3>2, <3>3
  <2>7. ASSUME NEW t \in Files \union {Main}, KillForkFails(t) PROVE Goes
    <3>1. /\ UNCHANGED <<pc, delayed, remote, task, child>>
          /\ forkFailures < MaxForkFailures /\ forkFailures' = forkFailures + 1
      BY <2>7 DEF KillForkFails, mainVars, queueVars, taskVars
    <3>2. forkFailures \in Nat /\ MaxForkFailures \in Nat
      BY ForkAssumption DEF TypeOK
    <3>3. PICK k : k = forkFailures + 1
      OBVIOUS
    <3>4. k \in Ahead.forks /\ k \notin Ahead'.forks
      BY <3>1, <3>2, <3>3 DEF Ahead
    <3>5. \A g \in Files : TaskRank[task[g]] <= TaskRank[task'[g]]
      <4>1. \A g \in Files : TaskRank[task[g]] \in 0..5
        BY TaskRanks DEF TypeOK
      <4> QED
        BY <3>1, <4>1
    <3>6. MainRank[pc] <= MainRank[pc'] /\ forkFailures <= forkFailures'
      BY <3>1, <3>2 DEF TypeOK, MainStates, MainRank
    <3>7. Ahead'.results \subseteq Ahead.results /\ Ahead'.files \subseteq Ahead.files
      BY <3>1 DEF Ahead
    <3>8. \A x \in DOMAIN Ahead : Ahead'[x] \subseteq Ahead[x]
      BY <2>0, <3>1, <3>5, <3>6, <3>7, NothingComesBack
    <3> QED
      BY <3>4, <3>8 DEF Fewer
  <2>8. ASSUME NEW f \in Files,
               \/ ForkChild(f) \/ ForkFails(f) \/ SetPid(f) \/ WaitPid(f) \/ ReleaseSlot(f)
               \/ TaskKillEnter(f) \/ TaskKillExit(f)
        PROVE  Goes
    BY <2>0, <2>8, TaskStepFewer
  <2>9. ASSUME NEW f \in Files, ChildExits(f) PROVE Goes
    <3>1. /\ child[f] = "running" /\ UNCHANGED <<pc, delayed, remote, task, forkFailures>>
          /\ child'[f] \notin {"none", "running"}
          /\ \A g \in Files \ {f} : child'[g] = child[g]
      BY <2>9 DEF ChildExits, mainVars, queueVars, TypeOK
    <3> QED
      BY <2>0, <3>1, ChildFewer
  <2>10. ASSUME NEW f \in Files, DeliverKill(f) PROVE Goes
    <3>1. /\ UNCHANGED <<pc, delayed, remote, task, forkFailures, current>>
          /\ f \in kills /\ kills' = kills \ {f}
          /\ child' = [child EXCEPT ![f] = IF @ = "running" THEN "killed" ELSE @]
      BY <2>10 DEF DeliverKill, mainVars, queueVars
    <3>2. CASE child[f] = "running"
      <4>1. child'[f] = "killed" /\ \A g \in Files \ {f} : child'[g] = child[g]
        BY <3>1, <3>2 DEF TypeOK
      <4> QED
        BY <2>0, <3>1, <3>2, <4>1, ChildFewer
    <3>3. CASE child[f] # "running"
      <4>1. child' = child
        BY <3>1, <3>3 DEF TypeOK
      <4>2. Ahead' = Ahead
        BY <3>1, <4>1, SameAhead
      <4>3. EntriesAhead' = EntriesAhead /\ Less(kills', kills)
        BY <3>1 DEF EntriesAhead, Less
      <4> QED
        BY <4>2, <4>3
    <3> QED
      BY <3>2, <3>3
  <2> HIDE DEF Goes
  <2> QED
    BY <2>1, <2>2, <2>3, <2>4, <2>5, <2>6, <2>7, <2>8, <2>9, <2>10
    DEF Next, MainStep, TaskStep, Terminating
<1> QED
  BY <1>1, TypeCorrect, InductiveInvariant, PTL DEF Spec, EvaluationGoesOn

\* And there is only so much to do: an evaluation has no endless execution, whatever
\* fork(), the solvers and the order of the threads do to it.
THEOREM EvaluationIsFinite ==
  Spec => [](/\ \A x \in DOMAIN Ahead : IsFiniteSet(Ahead[x])
             /\ IsFiniteSet(EntriesAhead) /\ IsFiniteSet(kills) /\ IsFiniteSet(LoopAhead))
<1>1. TypeOK => /\ \A x \in DOMAIN Ahead : IsFiniteSet(Ahead[x])
                /\ IsFiniteSet(EntriesAhead) /\ IsFiniteSet(kills) /\ IsFiniteSet(LoopAhead)
  <2> SUFFICES ASSUME TypeOK
               PROVE  /\ \A x \in DOMAIN Ahead : IsFiniteSet(Ahead[x])
                      /\ IsFiniteSet(EntriesAhead) /\ IsFiniteSet(kills) /\ IsFiniteSet(LoopAhead)
    OBVIOUS
  <2>1. IsFiniteSet(Files) /\ IsFiniteSet(0..5) /\ IsFiniteSet(1..5)
    <3>1. 0 \in Int /\ 1 \in Int /\ 5 \in Int
      OBVIOUS
    <3>2. IsFiniteSet(0..5) /\ IsFiniteSet(1..5)
      BY <3>1, FS_Interval, ZenonT(30)
    <3> QED
      BY <3>2, FilesAssumption
  <2>2. IsFiniteSet(Files \X (1..5))
    BY <2>1, FS_Product
  <2>3. IsFiniteSet(1..MaxForkFailures)
    BY ForkAssumption, FS_Interval
  <2>4. /\ Ahead.main \subseteq 0..5 /\ Ahead.forks \subseteq 1..MaxForkFailures
        /\ Ahead.files \subseteq Files /\ Ahead.children \subseteq Files /\ Ahead.results \subseteq Files
        /\ Ahead.tasks \subseteq Files \X (1..5)
        /\ DOMAIN Ahead = {"main", "files", "tasks", "children", "results", "forks"}
    <3>1. MainRank[pc] \in 0..5 /\ forkFailures \in Nat
      BY ForkAssumption DEF TypeOK, MainStates, MainRank
    <3> QED
      BY <3>1, ForkAssumption DEF Ahead
  <2>5. \A x \in DOMAIN Ahead : IsFiniteSet(Ahead[x])
    <3>1. IsFiniteSet(Ahead.main) /\ IsFiniteSet(Ahead.forks) /\ IsFiniteSet(Ahead.tasks)
      BY <2>1, <2>2, <2>3, <2>4, FS_Subset
    <3>2. IsFiniteSet(Ahead.files) /\ IsFiniteSet(Ahead.children) /\ IsFiniteSet(Ahead.results)
      BY <2>1, <2>4, FS_Subset
    <3> QED
      BY <2>4, <3>1, <3>2
  <2>6. IsFiniteSet(EntriesAhead)
    <3>1. Len(remote) \in Nat /\ DOMAIN remote = 1..Len(remote)
      BY DEF TypeOK
    <3>2. IsFiniteSet(1..Len(remote))
      BY <3>1, FS_Interval
    <3>3. EntriesAhead \subseteq 1..Len(remote)
      BY <3>1 DEF EntriesAhead
    <3> QED
      BY <3>2, <3>3, FS_Subset
  <2>7. IsFiniteSet(kills)
    <3>1. IsFiniteSet(Files \union {Null})
      BY <2>1, FS_AddElement
    <3> QED
      BY <3>1, FS_Subset DEF TypeOK
  <2>8. IsFiniteSet(LoopAhead)
    <3>1. LoopAhead \subseteq 0..5
      BY DEF LoopAhead, LoopRank
    <3> QED
      BY <2>1, <3>1, FS_Subset
  <2> QED
    BY <2>5, <2>6, <2>7, <2>8
<1> QED
  BY <1>1, TypeCorrect, PTL
=============================================================================
