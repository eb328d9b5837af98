------------------------------ MODULE TaskLife ------------------------------
(***************************************************************************)
(* Creation, exit and reclamation of tasks (na/kernel/task.cc) with the    *)
(* PID allocator, the global task list and the family tree, on several     *)
(* CPUs.                                                                   *)
(*                                                                         *)
(* Kernel code is not preempted and a task stays on its creator's CPU, so  *)
(* on one CPU a call runs to its end; calls of different CPUs interleave   *)
(* at every lock section.  pc[c] is where CPU c stands in the call of its  *)
(* current task and work[c] the task that call is about.  Which Runnable   *)
(* task follows when the current one gives up the CPU is left open here    *)
(* (module Sched says which).  A failing alloc_task changes nothing and is *)
(* left out.                                                               *)
(***************************************************************************)
EXTENDS PidAlloc, Lists

CONSTANTS
    Cpus,
    Tasks,         \* TaskControlBlock objects, free ones included
    Root,          \* the first user task (PID 1), which no code creates yet
    RootCpu,
    BootTask,      \* [Cpus \ {RootCpu} -> Tasks], kthreads of sched_init_ap
    InitTasks,     \* what g_init_task may be: None as in the code, or Root
    None

Boots == {BootTask[c] : c \in Cpus \ {RootCpu}}

ASSUME LifeAssumption ==
    /\ RootCpu \in Cpus
    /\ Root \in Tasks
    /\ BootTask \in [Cpus \ {RootCpu} -> Tasks \ {Root}]
    /\ \A c, d \in Cpus \ {RootCpu} : BootTask[c] = BootTask[d] => c = d
    /\ InitTasks \subseteq {Root, None}
    /\ None \notin Tasks

VARIABLES
    g_init_task,  \* never assigned after boot
    pids,         \* g_pid_alloc
    state,        \* TaskControlBlock::state, "free" when not allocated
    kthread,      \* TF_KTHREAD
    pid,          \* TaskControlBlock::pid
    parent,
    children,     \* [Tasks -> Seq(Tasks)]
    cpu_of,       \* TaskControlBlock::cpu_id
    g_all_tasks,
    g_nr_tasks,
    current,      \* [Cpus -> Tasks or None (idle)]
    pc,
    work

tcbVars == <<kthread, pid, cpu_of>>
listVars == <<g_all_tasks, g_nr_tasks>>
vars == <<g_init_task, pids, state, tcbVars, parent, children, listVars, current, pc, work>>

(* task_init and sched_init, then the first user task.                     *)
Init ==
    /\ g_init_task \in InitTasks
    /\ pids = FreshPids
    /\ state = [t \in Tasks |-> IF t \in {Root} \union Boots THEN "Running" ELSE "free"]
    /\ kthread = [t \in Tasks |-> t \in Boots]
    /\ pid = [t \in Tasks |-> IF t = Root THEN 1 ELSE -1]
    /\ parent = [t \in Tasks |-> None]
    /\ children = [t \in Tasks |-> <<>>]
    /\ cpu_of = [t \in Tasks |-> IF t \in Boots THEN CHOOSE c \in Cpus \ {RootCpu} : BootTask[c] = t
                                 ELSE RootCpu]
    /\ g_all_tasks = <<Root>>
    /\ g_nr_tasks = 1
    /\ current = [c \in Cpus |-> IF c = RootCpu THEN Root ELSE BootTask[c]]
    /\ pc = [c \in Cpus |-> "out"]
    /\ work = [c \in Cpus |-> None]

Calls(c, label) == current[c] # None /\ pc[c] = label
Goto(c, label) == pc' = [pc EXCEPT ![c] = label]

(* The call of CPU c is over.                                              *)
Return(c) ==
    /\ Goto(c, "out")
    /\ work' = [work EXCEPT ![c] = None]

-----------------------------------------------------------------------------
(* kthread_create of a kernel thread, task_fork of a user task: alloc_task *)
(* hands out some free TCB and initialises it.                             *)
alloc_task(c, n) ==
    /\ Calls(c, "out")
    /\ state[n] = "free"
    /\ state' = [state EXCEPT ![n] = "Runnable"]
    /\ kthread' = [kthread EXCEPT ![n] = kthread[current[c]]]
    /\ cpu_of' = [cpu_of EXCEPT ![n] = c]
    /\ parent' = [parent EXCEPT ![n] = None]
    /\ children' = [children EXCEPT ![n] = <<>>]
    /\ pid' = [pid EXCEPT ![n] = -1]
    /\ work' = [work EXCEPT ![c] = n]
    /\ Goto(c, "pid")
    /\ UNCHANGED <<pids, listVars, current>>

(* g_pid_alloc.alloc(); without a PID the TCB and its stack are freed.     *)
AllocPid(c) ==
    /\ Calls(c, "pid")
    /\ LET p == alloc_result(pids)
       IN  IF p < 0
           THEN /\ state' = [state EXCEPT ![work[c]] = "free"]
                /\ Return(c)
                /\ UNCHANGED <<pids, pid>>
           ELSE /\ pids' = alloc_update(pids, p)
                /\ pid' = [pid EXCEPT ![work[c]] = p]
                /\ Goto(c, IF kthread[work[c]] THEN "list_add" ELSE "clone")
                /\ UNCHANGED <<state, work>>
    /\ UNCHANGED <<kthread, cpu_of, parent, children, listVars, current>>

(* vmm_clone(curr->mm) succeeds, or everything so far is undone.           *)
CloneMm(c) ==
    /\ Calls(c, "clone")
    /\ \/ /\ Goto(c, "link")
          /\ UNCHANGED <<pids, state, work>>
       \/ /\ pids' = free(pids, pid[work[c]])
          /\ state' = [state EXCEPT ![work[c]] = "free"]
          /\ Return(c)
    /\ UNCHANGED <<tcbVars, parent, children, listVars, current>>

(* task_fork links the child into its family, under g_task_list_lock.  (A  *)
(* kernel thread's parent is g_kernel_task, which stays nullptr.)          *)
LinkChild(c) ==
    /\ Calls(c, "link")
    /\ parent' = [parent EXCEPT ![work[c]] = current[c]]
    /\ children' = [children EXCEPT ![current[c]] = Append(@, work[c])]
    /\ Goto(c, "list_add")
    /\ UNCHANGED <<pids, state, tcbVars, listVars, current, work>>

(* task_list_add under g_task_list_lock, then sched_enqueue and return.    *)
task_list_add(c) ==
    /\ Calls(c, "list_add")
    /\ g_all_tasks' = Append(g_all_tasks, work[c])
    /\ g_nr_tasks' = g_nr_tasks + 1
    /\ Return(c)
    /\ UNCHANGED <<pids, state, tcbVars, parent, children, current>>

-----------------------------------------------------------------------------
(* Tasks a CPU can be given to: Runnable and past sched_enqueue.           *)
Ready(c) == {t \in Tasks : state[t] = "Runnable" /\ cpu_of[t] = c
                           /\ \A d \in Cpus : work[d] # t}

(* The current task is preempted or yields, outside of these calls.        *)
Preempt(c, t) ==
    /\ Calls(c, "out")
    /\ t \in Ready(c)
    /\ state' = [state EXCEPT ![current[c]] = "Runnable", ![t] = "Running"]
    /\ current' = [current EXCEPT ![c] = t]
    /\ UNCHANGED <<pids, tcbVars, parent, children, listVars, pc, work>>

foster == g_init_task   \* g_kernel_task is nullptr throughout

(* task_exit hands the children of t to foster.                            *)
Reparent(t) ==
    /\ children' = [children EXCEPT ![t] = <<>>, ![foster] = @ \o children[t]]
    /\ parent' = [n \in Tasks |-> IF n \in Range(children[t]) THEN foster ELSE parent[n]]

(* task_exit: reparent if there is a foster task, become a Zombie, wake    *)
(* the parent's wait_chld, and schedule() away for good.  (The init task,  *)
(* where there is one, does not exit: its program never ends.)             *)
task_exit(c) ==
    /\ Calls(c, "out")
    /\ current[c] # g_init_task
    /\ LET t == current[c]
           woken == {p \in Tasks : p = parent[t] /\ state[p] = "Sleeping"}
           ready == Ready(c) \union {p \in woken : cpu_of[p] = c}
       IN  /\ IF foster # None /\ children[t] # <<>>
              THEN Reparent(t) ELSE UNCHANGED <<parent, children>>
           /\ \E next \in IF ready = {} THEN {None} ELSE ready :
                 /\ current' = [current EXCEPT ![c] = next]
                 /\ state' = [n \in Tasks |->
                                 IF n = t THEN "Zombie" ELSE IF n = next THEN "Running"
                                 ELSE IF n \in woken THEN "Runnable" ELSE state[n]]
    /\ UNCHANGED <<pids, tcbVars, listVars, pc, work>>

-----------------------------------------------------------------------------
(* Faulty variant: the first child is taken, Zombie or not.                *)
task_wait_AnyChild(c) ==
    /\ Calls(c, "out")
    /\ children[current[c]] # <<>>
    /\ work' = [work EXCEPT ![c] = Head(children[current[c]])]
    /\ Goto(c, "list_remove")
    /\ UNCHANGED <<pids, state, tcbVars, parent, children, listVars, current>>

(* task_wait: with a Zombie child the first one is to be reclaimed; with   *)
(* living children only, wait_chld.sleep(&g_task_list_lock) marks the task *)
(* Sleeping and then releases a lock task_wait has already released, which *)
(* Spinlock::release answers with kernel_panic on this CPU.  (Without      *)
(* children -ECHILD is returned and nothing changes.)                      *)
task_wait(c) ==
    /\ Calls(c, "out")
    /\ LET kids == children[current[c]]
           zombies == {i \in DOMAIN kids : state[kids[i]] = "Zombie"}
       IN  \/ /\ zombies # {}
              /\ work' = [work EXCEPT ![c] = kids[Min(zombies)]]
              /\ Goto(c, "list_remove")
              /\ UNCHANGED state
           \/ /\ kids # <<>> /\ zombies = {}
              /\ state' = [state EXCEPT ![current[c]] = "Sleeping"]
              /\ Goto(c, "panic")
              /\ UNCHANGED work
    /\ UNCHANGED <<pids, tcbVars, parent, children, listVars, current>>

(* task_destroy: task_list_remove under the lock,                          *)
task_list_remove(c) ==
    /\ Calls(c, "list_remove")
    /\ g_all_tasks' = Unlink(g_all_tasks, work[c])
    /\ g_nr_tasks' = IF g_nr_tasks > 0 THEN g_nr_tasks - 1 ELSE g_nr_tasks
    /\ Goto(c, "unlink")
    /\ UNCHANGED <<pids, state, tcbVars, parent, children, current, work>>

(* Faulty variant: the sibling link is left in the parent's list.          *)
UnlinkSibling_Skipped(c) ==
    /\ Calls(c, "unlink")
    /\ Goto(c, "free_pid")
    /\ UNCHANGED <<pids, state, tcbVars, parent, children, listVars, current, work>>

(* the sibling link, without a lock,                                       *)
UnlinkSibling(c) ==
    /\ Calls(c, "unlink")
    /\ children' = [children EXCEPT ![parent[work[c]]] = Unlink(@, work[c])]
    /\ Goto(c, "free_pid")
    /\ UNCHANGED <<pids, state, tcbVars, parent, listVars, current, work>>

(* g_pid_alloc.free,                                                       *)
FreePid(c) ==
    /\ Calls(c, "free_pid")
    /\ pids' = free(pids, pid[work[c]])
    /\ Goto(c, "delete")
    /\ UNCHANGED <<state, tcbVars, parent, children, listVars, current, work>>

(* and the kernel stack and the TCB.                                       *)
DeleteTask(c) ==
    /\ Calls(c, "delete")
    /\ state' = [state EXCEPT ![work[c]] = "free"]
    /\ Return(c)
    /\ UNCHANGED <<pids, tcbVars, parent, children, listVars, current>>

-----------------------------------------------------------------------------
Next ==
    /\ UNCHANGED g_init_task
    /\ \E c \in Cpus :
        \/ AllocPid(c)
        \/ CloneMm(c)
        \/ LinkChild(c)
        \/ task_list_add(c)
        \/ task_exit(c)
        \/ task_wait(c)
        \/ task_list_remove(c)
        \/ UnlinkSibling(c)
        \/ FreePid(c)
        \/ DeleteTask(c)
        \/ \E t \in Tasks : alloc_task(c, t) \/ Preempt(c, t)

Spec == Init /\ [][Next]_vars

-----------------------------------------------------------------------------
Labels == {"out", "pid", "clone", "link", "list_add", "list_remove", "unlink",
           "free_pid", "delete", "panic"}

TypeOK ==
    /\ g_init_task \in InitTasks
    /\ pids \in PidAllocators
    /\ state \in [Tasks -> {"free", "Runnable", "Running", "Sleeping", "Zombie"}]
    /\ kthread \in [Tasks -> BOOLEAN]
    /\ pid \in [Tasks -> -1 .. kMaxPid - 1]
    /\ parent \in [Tasks -> Tasks \union {None}]
    /\ children \in [Tasks -> Seq(Tasks)]
    /\ cpu_of \in [Tasks -> Cpus]
    /\ g_all_tasks \in Seq(Tasks)
    /\ g_nr_tasks \in Nat
    /\ current \in [Cpus -> Tasks \union {None}]
    /\ pc \in [Cpus -> Labels]
    /\ work \in [Cpus -> Tasks \union {None}]

Busy(t, labels) == \E c \in Cpus : work[c] = t /\ pc[c] \in labels

(* From alloc() to free() a task owns the bit of its PID.                  *)
Owns(t) == state[t] # "free" /\ t \notin Boots /\ ~Busy(t, {"pid", "delete"})

(* No PID is given to two tasks, none is lost on a failure path of         *)
(* task_fork or by a reaped task: the bits set are PID 0, 1 and the PIDs   *)
(* of the tasks that exist.                                                *)
PidsConserved ==
    /\ Used(pids) = {0, 1} \union {pid[t] : t \in {u \in Tasks : Owns(u)}}
    /\ \A t, u \in Tasks : Owns(t) /\ Owns(u) /\ pid[t] = pid[u] => t = u
    /\ \A t \in Tasks : Owns(t) => (pid[t] = 1 <=> t = Root) /\ pid[t] > 0

(* alloc() returns a free PID whenever there is one, wherever the hint     *)
(* points, and -1 only when every PID is taken.                            *)
AllocComplete ==
    LET p == alloc_result(pids)
    IN  IF p < 0 THEN Used(pids) = 0 .. kMaxPid - 1
        ELSE p \in (2 .. kMaxPid - 1) \ Used(pids)

(* From task_list_add to task_list_remove a task is listed.                *)
Listed(t) ==
    /\ state[t] # "free" /\ t \notin Boots
    /\ ~Busy(t, {"pid", "clone", "link", "list_add", "unlink", "free_pid", "delete"})

(* g_all_tasks holds every task once from the end of its creation to the   *)
(* start of its destruction, and g_nr_tasks counts it: creations and       *)
(* destructions on several CPUs do not disturb each other.                 *)
TaskListExact ==
    /\ \A t \in Tasks : t \in Range(g_all_tasks) <=> Listed(t)
    /\ IsInjective(g_all_tasks)
    /\ g_nr_tasks = Len(g_all_tasks)

(* A task's children list holds each of its children once and nobody else: *)
(* no reclaimed TCB, and no task that has another parent.                  *)
FamilyTree ==
    \A t \in Tasks : state[t] # "free" =>
        /\ IsInjective(children[t])
        /\ \A n \in Tasks : n \in Range(children[t]) => state[n] # "free" /\ parent[n] = t

Making(c) == pc[c] \in {"pid", "clone", "link", "list_add"}
Reaping(c) == pc[c] \in {"list_remove", "unlink", "free_pid", "delete"}

(* What the steps of a call know of the task in hand: a task being created *)
(* is known to nobody else, and one being destroyed is a Zombie child of   *)
(* the task that waits, linked until it is unlinked.                       *)
CallFits(c) ==
    /\ work[c] = None <=> pc[c] \in {"out", "panic"}
    /\ Making(c) =>
          /\ state[work[c]] = "Runnable" /\ children[work[c]] = <<>> /\ cpu_of[work[c]] = c
          /\ work[c] \notin Boots \union {Root}
          /\ parent[work[c]] = None \/ (pc[c] = "list_add" /\ parent[work[c]] = current[c])
    /\ Reaping(c) =>
          /\ state[work[c]] = "Zombie" /\ parent[work[c]] = current[c]
          /\ pc[c] \in {"list_remove", "unlink"} <=> work[c] \in Range(children[current[c]])

(* No two calls have the same task in hand.                                *)
CallsFit ==
    /\ \A c, d \in Cpus : work[c] = work[d] /\ work[c] # None => c = d
    /\ \A c \in Cpus : CallFits(c)

(* A CPU runs a task of its own.  The boot threads and the first task      *)
(* belong to nobody and are never reclaimed.                               *)
CurrentFits ==
    /\ \A c \in Cpus :
        IF current[c] = None THEN pc[c] = "out"
        ELSE /\ cpu_of[current[c]] = c
             /\ state[current[c]] \in IF pc[c] = "panic" THEN {"Sleeping", "Runnable"} ELSE {"Running"}
    /\ \A t \in Boots \union {Root} : state[t] # "free" /\ parent[t] = None

(* A TCB is freed only by a creation that failed, or as the Zombie child   *)
(* of the task that waits for it: nobody reclaims a task that can still    *)
(* run, or somebody else's child.                                          *)
ReclaimedByParent ==
    [][\A t \in Tasks : state[t] # "free" /\ state'[t] = "free" =>
          \E c \in Cpus :
              /\ work[c] = t
              /\ \/ pc[c] \in {"pid", "clone"}
                 \/ state[t] = "Zombie" /\ parent[t] = current[c]]_vars

(* "Reparent children to init (or kernel_task if no init yet)": a task's   *)
(* parent, whose wait_chld task_exit is going to wake, still exists.       *)
ParentExists ==
    \A t \in Tasks : state[t] \notin {"free", "Zombie"} /\ parent[t] # None => state[parent[t]] # "free"

Fostered(t) ==
    /\ state[t] \notin {"free", "Zombie"} /\ parent[t] # None =>
          state[parent[t]] # "free" /\ t \in Range(children[parent[t]])
    /\ state[t] = "Zombie" => t # g_init_task /\ children[t] = <<>>

(* With an init task to hand them to, an exiting task's children never     *)
(* keep a parent pointer that outlives it: a task that can run is in the   *)
(* list of a parent that exists, and a Zombie has no children left.        *)
FosteredOrphans == g_init_task # None => \A t \in Tasks : Fostered(t)

(* PIDs, the task list and the family tree stay exact while CPUs create,   *)
(* end and reap tasks at once, run out of PIDs and fail half way.          *)
TasksExact ==
    /\ TypeOK /\ PidsConserved /\ AllocComplete /\ TaskListExact
    /\ FamilyTree /\ FosteredOrphans /\ CallsFit /\ CurrentFits

(* "task_wait - sleep until a child exits": waiting for a living child     *)
(* does not bring the CPU down.                                            *)
WaitSleeps == \A c \in Cpus : pc[c] # "panic"
=============================================================================
