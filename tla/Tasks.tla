--------------------------------- MODULE Tasks ---------------------------------
(***************************************************************************)
(* The text boot's tasks: the ring of kernel/task.c, its scheduler, the    *)
(* timer's interrupt (timer.c) and switch_to_task of boot.asm, down to the *)
(* words it takes from the stacks.  The kernel's own task calls            *)
(* create_task and task_yield, as the shell's commands do; the timer may   *)
(* interrupt them, unless their caller has interrupts masked.              *)
(***************************************************************************)
EXTENDS Integers, Sequences

CONSTANTS
  Entries,    \* the functions that tasks are created for
  MaxTasks,   \* bound: how many are created
  TickMod     \* 2^32: timer_ticks wraps at this value

ASSUME TasksAssumption ==
  /\ Entries \cap {"own", "return", "other", "cs", "eflags", "zero"} = {}
  /\ MaxTasks \in Nat /\ TickMod \in Nat \ {0}

VARIABLES
  next,           \* task -> the task after it, for the tasks set up so far
  next_pid,
  current_task,
  esp,            \* task -> regs.esp: the stack it points into
  memory,         \* stack -> the words from the saved esp upwards
  step,           \* where the call in progress is, "idle" outside one
  prev_task,      \* the local variable of a schedule about to switch
  masked,         \* whether the call runs with interrupts masked
  timer_ticks,
  eip             \* "own" until a switch leads elsewhere

vars == <<next, next_pid, current_task, esp, memory, step, prev_task, masked,
          timer_ticks, eip>>

\* Task p runs on stack p.  A stack kmalloc has refused lies below address 4096,
\* and the kernel's esp is not set before its first switch.
Kernel == 0
Low == -1
Unset == -2
Stacks == {Unset, Low, Kernel} \cup 1 .. MaxTasks

\* Words that are nobody's: other data of the heap, or of low memory.
Other(n) == [i \in 1 .. n |-> "other"]

\* The words create_task lays out for EBX, ESI, EDI, EBP and the entry point, and
\* those behind the stack: the next block's header and data.
NewFrame(entry) == <<"zero", "zero", "zero", "zero", entry>> \o Other(6)

\* What switch_to_task pushes: eight registers, the code segment, the flags; the
\* word before them is where it was called from.
SavedFrame == Other(8) \o <<"cs", "eflags", "return">>

Init ==  \* init_multitasking
  /\ next = [p \in {Kernel} |-> Kernel] /\ next_pid = 1
  /\ current_task = Kernel
  /\ esp = [p \in {Kernel} |-> Unset] /\ memory = [s \in Stacks |-> Other(11)]
  /\ step = "idle" /\ prev_task = Kernel /\ masked = FALSE
  /\ timer_ticks = 0 /\ eip = "own"

With(f, p, v) == [q \in DOMAIN f \cup {p} |-> IF q = p THEN v ELSE f[q]]

-----------------------------------------------------------------------------
(* create_task: without memory for the task nothing happens; memory for    *)
(* its stack is not checked.                                               *)

\* Fault: the next task gets the same number.
CreateSamePid(entry) ==
  /\ eip = "own" /\ step = "idle" /\ next_pid <= MaxTasks
  /\ next' = With(next, next_pid, Unset)
  /\ \E stack \in {next_pid, Low} :
       /\ esp' = With(esp, next_pid, stack)
       /\ memory' = [memory EXCEPT ![stack] = NewFrame(entry)]
  /\ masked' \in BOOLEAN /\ step' = "link_new"
  /\ UNCHANGED <<next_pid, current_task, prev_task, timer_ticks, eip>>

CreateTask(entry) ==
  /\ eip = "own" /\ step = "idle" /\ next_pid <= MaxTasks
  /\ next' = With(next, next_pid, Unset)
  /\ next_pid' = next_pid + 1
  /\ \E stack \in {next_pid, Low} :
       /\ esp' = With(esp, next_pid, stack)
       /\ memory' = [memory EXCEPT ![stack] = NewFrame(entry)]
  /\ masked' \in BOOLEAN /\ step' = "link_new"
  /\ UNCHANGED <<current_task, prev_task, timer_ticks, eip>>

new_task == next_pid - 1

\* Fault: the head is made to point to the task before the task points on.
LinkNewLate ==
  /\ eip = "own" /\ step = "link_new"
  /\ next' = [next EXCEPT ![Kernel] = new_task]
  /\ step' = "link_head"
  /\ UNCHANGED <<next_pid, current_task, esp, memory, prev_task, masked, timer_ticks, eip>>

LinkNew ==
  /\ eip = "own" /\ step = "link_new"
  /\ next' = [next EXCEPT ![new_task] = next[Kernel]]
  /\ step' = "link_head"
  /\ UNCHANGED <<next_pid, current_task, esp, memory, prev_task, masked, timer_ticks, eip>>

LinkHead ==
  /\ eip = "own" /\ step = "link_head"
  /\ next' = [next EXCEPT ![Kernel] = new_task]
  /\ step' = "idle" /\ masked' = FALSE
  /\ UNCHANGED <<next_pid, current_task, esp, memory, prev_task, timer_ticks, eip>>

-----------------------------------------------------------------------------
(* schedule: no code makes a task TASK_TERMINATED, so the first task after *)
(* the current one is taken, if it is another.                             *)

\* popa takes eight words from the stack and iret the ninth for the EIP.
switch_to_task(prev, to) ==
  /\ esp' = [esp EXCEPT ![prev] = Kernel]
  /\ memory' = [memory EXCEPT ![Kernel] = SavedFrame]
  /\ eip' = memory'[esp[to]][9]

Yield ==  \* task_yield, up to the call of switch_to_task
  /\ eip = "own" /\ step = "idle"
  /\ next[current_task] # current_task
  /\ prev_task' = current_task /\ current_task' = next[current_task]
  /\ masked' \in BOOLEAN /\ step' = "switch"
  /\ UNCHANGED <<next, next_pid, esp, memory, timer_ticks, eip>>

YieldSwitch ==
  /\ eip = "own" /\ step = "switch"
  /\ switch_to_task(prev_task, next[prev_task])
  /\ UNCHANGED <<next, next_pid, current_task, step, prev_task, masked, timer_ticks>>

\* The handler runs to its end, or to where its switch leads.
timer_handler_c ==
  /\ eip = "own" /\ ~masked
  /\ timer_ticks' = (timer_ticks + 1) % TickMod
  /\ IF next[current_task] = current_task
     THEN UNCHANGED <<current_task, esp, memory, eip>>
     ELSE /\ current_task' = next[current_task]
          /\ switch_to_task(current_task, next[current_task])
  /\ UNCHANGED <<next, next_pid, step, prev_task, masked>>

Next ==
  \/ \E entry \in Entries : CreateTask(entry)
  \/ LinkNew \/ LinkHead \/ Yield \/ YieldSwitch \/ timer_handler_c

Spec == Init /\ [][Next]_vars

-----------------------------------------------------------------------------
(* Properties.                                                             *)

Word == {"zero", "other", "cs", "eflags", "return"} \cup Entries

TypeOK ==
  /\ next_pid \in 1 .. MaxTasks + 1
  /\ next \in [0 .. next_pid - 1 -> Unset .. MaxTasks]
  /\ current_task \in 0 .. next_pid - 1 /\ prev_task \in 0 .. next_pid - 1
  /\ esp \in [0 .. next_pid - 1 -> Stacks]
  /\ memory \in [Stacks -> [1 .. 11 -> Word]]
  /\ step \in {"idle", "link_new", "link_head", "switch"} /\ masked \in BOOLEAN
  /\ timer_ticks \in 0 .. TickMod - 1 /\ eip \in Word \cup {"own"}

\* The newest of the tasks that are on the ring.
newest == IF step \in {"link_new", "link_head"} THEN new_task - 1 ELSE new_task

\* Whenever the timer looks at it, the ring holds every task that has been
\* created once: the kernel's, and behind it the others, newest first.  A task
\* that is being put in is on it wholly or not at all (task.c:65-66).
RingWhole ==
  next[Kernel] = newest /\ \A p \in 1 .. newest : next[p] = p - 1

\* "When switch_to_task does its 'ret', the CPU jumps to entry_point"
\* (task.c:51): a switch leads to the entry of a task or back to its caller.
EntryReached == eip \in {"own", "return"} \cup Entries
=============================================================================
