------------------------- MODULE RemoteExecutionManager -------------------------
(***************************************************************************)
(* The RemoteExecutionManager of src/remote_execution_manager.{h,cpp} and  *)
(* the loop of Certificate::get_evaluation_result that drives it.          *)
(*                                                                         *)
(* Threads: the generation threads, which only call dispatch(filename);    *)
(* the main thread, which clears the dispatches, kills what is left and    *)
(* destroys the manager; and one std::async task per launched dispatch,    *)
(* which forks ssh, waits for it and releases its machine's slot.          *)
(* Environment: the ssh/local_runner.sh processes, which end with an exit  *)
(* status, and the "kill -9" processes, whose signal arrives later.        *)
(*                                                                         *)
(* A step is the code between two operations on state that another thread  *)
(* can see.  find_machine is one step: only the main thread subtracts      *)
(* slots, so a slot released during its scan can only be missed, which is  *)
(* the same as the slot being released after the scan.                     *)
(***************************************************************************)
EXTENDS Integers, Sequences, FiniteSets, Functions

CONSTANTS Files,             \* the SMT files the generation writes
          NumMachines,       \* remote_machines.size()
          Slots,             \* Slots[m]: the numberSlots m is added with
          Main,              \* the main thread, as an owner of serializer
          Null,              \* nullptr, and no owner of serializer
          MaxForkFailures    \* how many calls of fork() may return -1

Machine == 0..(NumMachines - 1)

ASSUME FilesAssumption == IsFiniteSet(Files) /\ Main \notin Files /\ Null \notin Files
ASSUME SentinelAssumption == Main # Null /\ Null \notin Machine
ASSUME MachinesAssumption == /\ NumMachines \in Nat \ {0}
                             /\ Slots \in [Machine -> Nat]
                             /\ \E m \in Machine : Slots[m] > 0
ASSUME ForkAssumption == MaxForkFailures \in Nat

VARIABLES pc,             \* where the main thread is
          serializer,     \* the owner of the recursive mutex
          delayed,        \* delayed_dispatches
          remote,         \* remote_dispatches; Null for a cleared entry
          current,        \* the loop index i of the thread in kill_dispatches
          machine,        \* dispatch->machine
          slots,          \* machine->numberSlots
          search_offset,  \* modulo the number of machines
          task,           \* where the std::async task of a dispatch is
          pid,            \* whether dispatch->pid has been assigned
          child,          \* the ssh process of a dispatch and how it ended
          exit_value,     \* dispatch->exit_value
          kills,          \* targets of kill processes forked, not yet run
          expected_sat,   \* the third argument of the program
          result,         \* what get_evaluation_result returned
          forkFailures,   \* how many times fork() has failed
          doomed          \* the killing thread will throw out of run_local

mainVars  == <<pc, expected_sat, result>>
queueVars == <<delayed, remote, machine, slots, search_offset>>
taskVars  == <<task, pid, child, exit_value>>
killVars  == <<current, kills, doomed>>
vars == <<mainVars, queueVars, taskVars, killVars, serializer, forkFailures>>

MainStates == {"join", "clear", "fill", "wait", "kill", "killing", "destroy",
               "exited", "aborted", "killed"}
TaskStates == {"idle", "fork", "pid", "waitpid", "release", "returned",
               "kill", "killing", "threw"}
ChildStates == {"none", "running", "sat", "unsat", "failed", "killed"}

(***************************************************************************)
(* Helpers.                                                                *)
(***************************************************************************)
Ended == pc \in {"exited", "aborted", "killed"}

\* The entries clear_dispatches, kill_dispatches and the destructor do not skip.
Outstanding == {i \in DOMAIN remote : remote[i] # Null}

IsFirstOutstanding(i) == /\ i \in Outstanding
                         /\ \A j \in Outstanding : i <= j

\* local_runner.sh exits with 1 only if the solver printed exactly "sat"; ssh
\* itself fails with 255; WEXITSTATUS of a status set by SIGKILL is 0.
ExitStatus(c) == CASE c = "sat"    -> 1
                   [] c = "failed" -> 255
                   [] OTHER        -> 0

\* Mutants: the exit status read as a shell would, and ssh's failure forgotten.
SucceededWithZero(f) == exit_value[f] = 0
SucceededUnlessNoSsh(f) == exit_value[f] # 255

\* The value of the task's future.
Succeeded(f) == exit_value[f] = 1

\* (i + search_offset) % remote_machines.size(), seen from machine m.
Distance(m) == (m - search_offset + NumMachines) % NumMachines

\* Mutant: the next machine in round-robin order, free or not.
IsNextMachineUnchecked(m) == \A n \in Machine : Distance(m) <= Distance(n)

\* find_machine: the first machine with a slot in round-robin order.
IsNextMachine(m) == /\ slots[m] > 0
                    /\ \A n \in Machine : slots[n] > 0 => Distance(m) <= Distance(n)

NoMachineFree == \A m \in Machine : slots[m] = 0

\* Mutant: front() launched, pop_back() dropped.
LaunchFront(r, m) ==
  /\ delayed' = SubSeq(delayed, 1, Len(delayed) - 1)
  /\ remote' = Append(r, delayed[1])
  /\ machine' = [machine EXCEPT ![delayed[1]] = m]
  /\ task' = [task EXCEPT ![delayed[1]] = "fork"]

\* delayed_dispatches.back() becomes remote_dispatches.back(), on machine m, in
\* the vector r that the caller has left; its task starts.
Launch(r, m) ==
  LET f == delayed[Len(delayed)]
  IN /\ delayed' = SubSeq(delayed, 1, Len(delayed) - 1)
     /\ remote' = Append(r, f)
     /\ machine' = [machine EXCEPT ![f] = m]
     /\ task' = [task EXCEPT ![f] = "fork"]

(***************************************************************************)
(* Initial states.                                                         *)
(***************************************************************************)
Init ==
  /\ pc = "join"
  /\ serializer = Null
  /\ delayed = <<>>
  /\ remote = <<>>
  /\ current = 1
  /\ machine = [f \in Files |-> Null]
  /\ slots = Slots
  /\ search_offset = 0
  /\ task = [f \in Files |-> "idle"]
  /\ pid = [f \in Files |-> FALSE]
  /\ child = [f \in Files |-> "none"]
  /\ exit_value = [f \in Files |-> 0]
  /\ kills = {}
  /\ expected_sat \in BOOLEAN
  /\ result = "none"
  /\ forkFailures = 0
  /\ doomed = FALSE

(***************************************************************************)
(* The generation threads and the main thread's clear_dispatches.          *)
(***************************************************************************)
\* dispatch(filename, line): the threads finish their files in any order.
Dispatch(f) ==
  /\ pc = "join"
  /\ serializer = Null
  /\ f \notin Range(delayed)
  /\ delayed' = Append(delayed, f)
  /\ UNCHANGED <<mainVars, remote, machine, slots, search_offset, taskVars,
                 killVars, serializer, forkFailures>>

\* print_formula has joined the generation threads.
Joined ==
  /\ pc = "join"
  /\ Range(delayed) = Files
  /\ pc' = "clear"
  /\ UNCHANGED <<expected_sat, result, queueVars, taskVars, killVars,
                 serializer, forkFailures>>

ClearEnter ==
  /\ pc = "clear"
  /\ serializer = Null
  /\ serializer' = Main
  /\ pc' = "fill"
  /\ UNCHANGED <<expected_sat, result, queueVars, taskVars, killVars, forkFailures>>

\* One iteration of the while loop: find_machine, pop_back, dispatch.
FillSlot(m) ==
  /\ pc = "fill"
  /\ delayed # <<>>
  /\ IsNextMachine(m)
  /\ slots' = [slots EXCEPT ![m] = @ - 1]
  /\ search_offset' = (search_offset + 1) % NumMachines
  /\ Launch(remote, m)
  /\ UNCHANGED <<mainVars, pid, child, exit_value, killVars, serializer, forkFailures>>

\* The while loop ends: nothing is delayed, or no machine has a slot.
FillOver ==
  /\ pc = "fill"
  /\ delayed = <<>> \/ NoMachineFree
  /\ pc' = "wait"
  /\ UNCHANGED <<expected_sat, result, queueVars, taskVars, killVars,
                 serializer, forkFailures>>

\* Mutant: done when nothing is delayed, whatever is outstanding.
ClearDoneEarly ==
  /\ pc = "wait"
  /\ delayed = <<>>
  /\ result' = IF expected_sat THEN "OK" ELSE "ERR"
  /\ pc' = "destroy"
  /\ serializer' = Null
  /\ UNCHANGED <<expected_sat, queueVars, taskVars, killVars, forkFailures>>

\* ClearingResult::Done: every entry of remote_dispatches was skipped.
ClearDone ==
  /\ pc = "wait"
  /\ Outstanding = {}
  /\ result' = IF expected_sat THEN "OK" ELSE "ERR"
  /\ pc' = "destroy"
  /\ serializer' = Null
  /\ UNCHANGED <<expected_sat, queueVars, taskVars, killVars, forkFailures>>

\* Mutant: the entry is not cleared.
CollectAgain(i) ==
  /\ pc = "wait"
  /\ IsFirstOutstanding(i)
  /\ task[remote[i]] = "returned"
  /\ LET f == remote[i]
     IN /\ IF delayed # <<>>
             THEN Launch(remote, machine[f])
             ELSE UNCHANGED <<delayed, remote, machine, task>>
        /\ pc' = IF Succeeded(f) THEN "clear" ELSE "kill"
  /\ serializer' = Null
  /\ UNCHANGED <<expected_sat, result, slots, search_offset, pid, child,
                 exit_value, killVars, forkFailures>>

\* The first entry's future is ready: relaunch on its machine, without taking a
\* slot of it, delete the entry, and return Sat or Unsat to the caller's loop.
Collect(i) ==
  /\ pc = "wait"
  /\ IsFirstOutstanding(i)
  /\ task[remote[i]] = "returned"
  /\ LET f == remote[i]
         r == [remote EXCEPT ![i] = Null]
     IN /\ IF delayed # <<>>
             THEN Launch(r, machine[f])
             ELSE remote' = r /\ UNCHANGED <<delayed, machine, task>>
        /\ pc' = IF Succeeded(f) THEN "clear" ELSE "kill"
  /\ serializer' = Null
  /\ UNCHANGED <<expected_sat, result, slots, search_offset, pid, child,
                 exit_value, killVars, forkFailures>>

\* get() rethrows what the task threw, nothing catches it: std::terminate.
CollectThrow(i) ==
  /\ pc = "wait"
  /\ IsFirstOutstanding(i)
  /\ task[remote[i]] = "threw"
  /\ pc' = "aborted"
  /\ UNCHANGED <<expected_sat, result, queueVars, taskVars, killVars,
                 serializer, forkFailures>>

(***************************************************************************)
(* kill_dispatches, by the main thread after an Unsat or by a task whose   *)
(* fork() failed.  Only the owner of serializer is inside it.              *)
(***************************************************************************)
MainKillEnter ==
  /\ pc = "kill"
  /\ serializer = Null
  /\ serializer' = Main
  /\ pc' = "killing"
  /\ current' = 1
  /\ UNCHANGED <<expected_sat, result, queueVars, taskVars, kills, doomed, forkFailures>>

TaskKillEnter(f) ==
  /\ ~Ended
  /\ task[f] = "kill"
  /\ serializer = Null
  /\ serializer' = f
  /\ task' = [task EXCEPT ![f] = "killing"]
  /\ current' = 1
  /\ UNCHANGED <<mainVars, queueVars, pid, child, exit_value, kills, doomed, forkFailures>>

Killing(t) == /\ serializer = t
              /\ IF t = Main THEN pc = "killing" ELSE ~Ended /\ task[t] = "killing"

\* One iteration: a cleared entry is skipped; otherwise a kill process is
\* forked and not waited for.  A pid_t never assigned holds what the heap held:
\* no process of ours, or 0, and "kill -9 0" signals the checker's own group.
KillStep(t) ==
  /\ Killing(t)
  /\ current \in DOMAIN remote
  /\ current' = current + 1
  /\ \/ remote[current] = Null /\ UNCHANGED kills
     \/ remote[current] # Null /\ pid[remote[current]]
        /\ kills' = kills \union {remote[current]}
     \/ remote[current] # Null /\ ~pid[remote[current]]
        /\ kills' \in {kills, kills \union {Null}}
  /\ UNCHANGED <<mainVars, queueVars, taskVars, doomed, serializer, forkFailures>>

\* fork() fails for a kill: run_local calls kill_dispatches again, which owns
\* the recursive mutex already, and throws out of the outer loop afterwards.
KillForkFails(t) ==
  /\ Killing(t)
  /\ current \in Outstanding
  /\ forkFailures < MaxForkFailures
  /\ forkFailures' = forkFailures + 1
  /\ doomed' = TRUE
  /\ current' = 1
  /\ UNCHANGED <<mainVars, queueVars, taskVars, kills, serializer>>

\* The main thread returns from kill_dispatches, then from
\* get_evaluation_result, and the manager's destructor runs.
MainKillExit ==
  /\ Killing(Main)
  /\ current \notin DOMAIN remote
  /\ IF doomed
       THEN pc' = "aborted" /\ UNCHANGED result
       ELSE pc' = "destroy" /\ result' = IF expected_sat THEN "ERR" ELSE "OK"
  /\ serializer' = Null
  /\ UNCHANGED <<expected_sat, queueVars, taskVars, killVars, forkFailures>>

\* A task always throws: its own fork() failed.
TaskKillExit(f) ==
  /\ Killing(f)
  /\ current \notin DOMAIN remote
  /\ task' = [task EXCEPT ![f] = "threw"]
  /\ doomed' = FALSE
  /\ serializer' = Null
  /\ UNCHANGED <<mainVars, queueVars, pid, child, exit_value, current, kills, forkFailures>>

\* The destructor waits for every future left, in order; an exception that
\* leaves a destructor ends the program.
Destroy ==
  /\ pc = "destroy"
  /\ \/ /\ \A i \in Outstanding : task[remote[i]] = "returned"
        /\ pc' = "exited"
     \/ /\ \E i \in Outstanding :
             /\ task[remote[i]] = "threw"
             /\ \A j \in Outstanding : j < i => task[remote[j]] = "returned"
        /\ pc' = "aborted"
  /\ UNCHANGED <<expected_sat, result, queueVars, taskVars, killVars,
                 serializer, forkFailures>>

(***************************************************************************)
(* run_local in the task of a dispatch, and the task's end.                *)
(***************************************************************************)
ForkChild(f) ==
  /\ ~Ended
  /\ task[f] = "fork"
  /\ task' = [task EXCEPT ![f] = "pid"]
  /\ child' = [child EXCEPT ![f] = "running"]
  /\ UNCHANGED <<mainVars, queueVars, pid, exit_value, killVars, serializer, forkFailures>>

ForkFails(f) ==
  /\ ~Ended
  /\ task[f] = "fork"
  /\ forkFailures < MaxForkFailures
  /\ forkFailures' = forkFailures + 1
  /\ task' = [task EXCEPT ![f] = "kill"]
  /\ UNCHANGED <<mainVars, queueVars, pid, child, exit_value, killVars, serializer>>

SetPid(f) ==
  /\ ~Ended
  /\ task[f] = "pid"
  /\ task' = [task EXCEPT ![f] = "waitpid"]
  /\ pid' = [pid EXCEPT ![f] = TRUE]
  /\ UNCHANGED <<mainVars, queueVars, child, exit_value, killVars, serializer, forkFailures>>

WaitPid(f) ==
  /\ ~Ended
  /\ task[f] = "waitpid"
  /\ child[f] # "running"
  /\ task' = [task EXCEPT ![f] = "release"]
  /\ exit_value' = [exit_value EXCEPT ![f] = ExitStatus(child[f])]
  /\ UNCHANGED <<mainVars, queueVars, pid, child, killVars, serializer, forkFailures>>

\* Mutants: the task takes the lock to release its slot; a slot is released only
\* after a success.
ReleaseSlotLocked(f) ==
  /\ ~Ended
  /\ task[f] = "release"
  /\ serializer = Null
  /\ slots' = [slots EXCEPT ![machine[f]] = @ + 1]
  /\ task' = [task EXCEPT ![f] = "returned"]
  /\ UNCHANGED <<mainVars, delayed, remote, machine, search_offset, pid, child,
                 exit_value, killVars, serializer, forkFailures>>

ReleaseSlotIfSat(f) ==
  /\ ~Ended
  /\ task[f] = "release"
  /\ slots' = IF Succeeded(f) THEN [slots EXCEPT ![machine[f]] = @ + 1] ELSE slots
  /\ task' = [task EXCEPT ![f] = "returned"]
  /\ UNCHANGED <<mainVars, delayed, remote, machine, search_offset, pid, child,
                 exit_value, killVars, serializer, forkFailures>>

\* numberSlots.fetch_add(1), then the future becomes ready.
ReleaseSlot(f) ==
  /\ ~Ended
  /\ task[f] = "release"
  /\ slots' = [slots EXCEPT ![machine[f]] = @ + 1]
  /\ task' = [task EXCEPT ![f] = "returned"]
  /\ UNCHANGED <<mainVars, delayed, remote, machine, search_offset, pid, child,
                 exit_value, killVars, serializer, forkFailures>>

(***************************************************************************)
(* The processes.                                                          *)
(***************************************************************************)
ChildExits(f) ==
  /\ ~Ended
  /\ child[f] = "running"
  /\ \E answer \in {"sat", "unsat", "failed"} : child' = [child EXCEPT ![f] = answer]
  /\ UNCHANGED <<mainVars, queueVars, task, pid, exit_value, killVars,
                 serializer, forkFailures>>

\* SIGKILL reaches the process, unless it has ended before.
DeliverKill(f) ==
  /\ ~Ended
  /\ f \in kills
  /\ kills' = kills \ {f}
  /\ child' = [child EXCEPT ![f] = IF @ = "running" THEN "killed" ELSE @]
  /\ UNCHANGED <<mainVars, queueVars, task, pid, exit_value, current, doomed,
                 serializer, forkFailures>>

DeliverGroupKill ==
  /\ ~Ended
  /\ Null \in kills
  /\ pc' = "killed"
  /\ UNCHANGED <<expected_sat, result, queueVars, taskVars, killVars,
                 serializer, forkFailures>>

Terminating == Ended /\ UNCHANGED vars

(***************************************************************************)
(* Specification.                                                          *)
(***************************************************************************)
MainStep == \/ Joined \/ ClearEnter \/ FillOver \/ ClearDone
            \/ \E m \in Machine : FillSlot(m)
            \/ \E i \in DOMAIN remote : Collect(i) \/ CollectThrow(i)
            \/ MainKillEnter \/ KillStep(Main) \/ MainKillExit \/ Destroy

TaskStep(f) == \/ ForkChild(f) \/ SetPid(f) \/ WaitPid(f) \/ ReleaseSlot(f)
               \/ TaskKillEnter(f) \/ KillStep(f) \/ TaskKillExit(f)

Next == \/ \E f \in Files : Dispatch(f)
        \/ MainStep
        \/ \E f \in Files : TaskStep(f)
        \/ \E f \in Files : ForkFails(f)
        \/ \E t \in Files \union {Main} : KillForkFails(t)
        \/ \E f \in Files : ChildExits(f) \/ DeliverKill(f)
        \/ DeliverGroupKill
        \/ Terminating

Spec == Init /\ [][Next]_vars

\* The scheduler runs every thread and process that can run; nothing forces a
\* solver to answer.
SchedulingFairness == /\ \A f \in Files : WF_vars(Dispatch(f))
                      /\ WF_vars(MainStep)
                      /\ \A f \in Files : WF_vars(TaskStep(f))
                      /\ \A f \in Files : WF_vars(DeliverKill(f))
                      /\ WF_vars(DeliverGroupKill)

\* Every solver run ends by itself: the solver is given decidable formulas
\* without quantifiers, but local_runner.sh sets no time limit.
SolversAnswer == \A f \in Files : WF_vars(ChildExits(f))

SchedulingSpec == Spec /\ SchedulingFairness
FairSpec == SchedulingSpec /\ SolversAnswer

(***************************************************************************)
(* Properties.                                                             *)
(***************************************************************************)
TypeOK ==
  /\ pc \in MainStates
  /\ serializer \in Files \union {Main, Null}
  /\ delayed \in Seq(Files)
  /\ remote \in Seq(Files \union {Null})
  /\ current \in Nat \ {0}
  /\ machine \in [Files -> Machine \union {Null}]
  /\ slots \in [Machine -> Nat]
  /\ search_offset \in Machine
  /\ task \in [Files -> TaskStates]
  /\ pid \in [Files -> BOOLEAN]
  /\ child \in [Files -> ChildStates]
  /\ exit_value \in [Files -> {0, 1, 255}]
  /\ kills \subseteq Files \union {Null}
  /\ expected_sat \in BOOLEAN
  /\ result \in {"none", "OK", "ERR"}
  /\ forkFailures \in 0..MaxForkFailures
  /\ doomed \in BOOLEAN

NotSat(f) == child[f] \in {"unsat", "failed", "killed"}

\* "sat for all files" is reported only when the solver said sat for each of
\* them, and "not sat" only when one of them ended otherwise: the loop of
\* get_evaluation_result, the relaunch and the kills cannot lose, invent or
\* misread an answer.
VerdictSound ==
  /\ result = "OK"  /\ expected_sat  => \A f \in Files : child[f] = "sat"
  /\ result = "ERR" /\ ~expected_sat => \A f \in Files : child[f] = "sat"
  /\ result = "ERR" /\ expected_sat  => \E f \in Files : NotSat(f)
  /\ result = "OK"  /\ ~expected_sat => \E f \in Files : NotSat(f)

\* After the generation every file is waiting, or launched, or its answer has
\* been collected, and it was "sat" as long as nothing is being killed: the two
\* places that pop delayed_dispatches and the one that clears an entry keep the
\* three apart, and no file is launched twice.
NoDispatchLost ==
  pc # "join" =>
    \A f \in Files :
      \/ f \in Range(delayed) /\ f \notin Range(remote) /\ task[f] = "idle"
      \/ f \in Range(remote) /\ f \notin Range(delayed) /\ task[f] # "idle"
      \/ /\ f \notin Range(delayed) \union Range(remote)
         /\ task[f] = "returned"
         /\ pc \in {"clear", "fill", "wait"} => child[f] = "sat"

\* The dispatches that hold a slot of m.
Busy(m) == {f \in Files : machine[f] = m /\ task[f] \notin {"idle", "returned"}}

\* find_machine, the relaunch and fetch_add together never make a slot of a
\* machine disappear: what is not in use is counted as free.
NoSlotLost == \A m \in Machine : slots[m] + Cardinality(Busy(m)) >= Slots[m]

\* A kill process is only forked after a solver's answer other than "sat" was
\* collected, or after fork() failed.
KillsJustified == kills # {} => forkFailures > 0 \/ \E f \in Files : NotSat(f)

\* "numberSlots Number of slots of execution that can be fulfilled with tasks
\* within the machine" (add_machine): no machine runs more processes at a time.
SlotsRespected ==
  \A m \in Machine :
    Cardinality({f \in Files : machine[f] = m /\ child[f] = "running"}) <= Slots[m]

\* "Expected sat, did not get sat in all dispatches", kill, return
\* (get_evaluation_result): while fork() works, the program ends with a verdict.
VerdictDelivered == Ended /\ forkFailures = 0 => result # "none"

(***************************************************************************)
(* What is still to be done, none of which comes back.                     *)
(***************************************************************************)
MainRank == [join |-> 0, clear |-> 1, fill |-> 1, wait |-> 1, kill |-> 2, killing |-> 3,
             destroy |-> 4, exited |-> 5, aborted |-> 5, killed |-> 5]

TaskRank == [idle |-> 0, fork |-> 1, pid |-> 2, kill |-> 2, waitpid |-> 3, killing |-> 3,
             release |-> 4, returned |-> 5, threw |-> 5]

LoopRank == [clear |-> 0, fill |-> 1]

\* The main thread's way, the files to be dispatched, the steps of the tasks, the
\* processes that have not ended, the results not collected, the forks that may fail.
Ahead == [main |-> (MainRank[pc] + 1)..5,
          files |-> {f \in Files : task[f] = "idle" /\ f \notin Range(delayed)},
          tasks |-> {t \in Files \X (1..5) : TaskRank[task[t[1]]] < t[2]},
          children |-> {f \in Files : child[f] \in {"none", "running"}},
          results |-> {f \in Files : task[f] = "idle" \/ f \in Range(remote)},
          forks |-> (forkFailures + 1)..MaxForkFailures]

Less(a, b) == a \subseteq b /\ a # b
Fewer(a, b) == a # b /\ \A x \in DOMAIN b : a[x] \subseteq b[x]

\* The entries that kill_dispatches has not come to, and the way from the beginning
\* of clear_dispatches to the result it waits for.
EntriesAhead == {i \in DOMAIN remote : current <= i}
LoopAhead == IF pc \in DOMAIN LoopRank THEN (LoopRank[pc] + 1)..2 ELSE {}

\* No step of the evaluation is done twice, by any thread or process, with any
\* number of failing forks: a step leaves less to do or, if it does not, takes a
\* loop of kill_dispatches, the signals or a call of clear_dispatches on.
EvaluationGoesOn ==
  [][ \/ Fewer(Ahead', Ahead)
      \/ /\ Ahead' = Ahead
         /\ \/ Less(EntriesAhead', EntriesAhead)
            \/ EntriesAhead' = EntriesAhead /\ Less(kills', kills)
            \/ EntriesAhead' = EntriesAhead /\ kills' = kills /\ Less(LoopAhead', LoopAhead)
    ]_vars

\* The evaluation of a certificate ends: with a verdict, or by the death of the
\* program; main is never left waiting for a future or for serializer.
EvaluationEnds == <>Ended

\* If every solver run that ends says sat, the program returns from main with
\* the verdict for it: nothing is launched twice, forgotten or waited for twice.
AllSatDecides ==
  [](\A f \in Files : ~NotSat(f))
    => <>(pc = "exited" /\ result = IF expected_sat THEN "OK" ELSE "ERR")

\* "If there's an error forking, kill all previous dispatches and exit the
\* program" (run_local).
ForkFailureExits == [](forkFailures > 0 => <>Ended)

(***************************************************************************)
(* The contract of EvaluationResult, and how its state is seen here.       *)
(***************************************************************************)
answerOf(f) == CASE child[f] \in {"none", "running"} -> "open"
                 [] child[f] = "sat" -> "sat"
                 [] OTHER -> "notsat"

Contract == INSTANCE EvaluationResult
              WITH answer <- [f \in Files |-> answerOf(f)],
                   verdict <- result,
                   expected <- expected_sat

\* Every step of threads, processes and kills is an answer being given, the
\* verdict being concluded from enough answers, or nothing.
RefinesEvaluationResult == Contract!Spec
=============================================================================
