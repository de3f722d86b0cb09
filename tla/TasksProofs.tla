------------------------------ MODULE TasksProofs ------------------------------
(***************************************************************************)
(* Proofs about Tasks for any number of tasks and of entry points.         *)
(***************************************************************************)
EXTENDS Tasks, SequenceTheorems, TLAPS

\* The tasks that run are on the ring; one that is being put in points to the
\* newest before the head points to it.
OnRing ==
  /\ current_task \in 0 .. newest /\ prev_task \in 0 .. newest
  /\ step \in {"link_new", "link_head"} => next_pid > 1
  /\ step = "link_head" => next[new_task] = newest

IInv == TypeOK /\ RingWhole /\ OnRing

LEMMA InitInv == Init => IInv
  <1> SUFFICES ASSUME Init PROVE IInv
    OBVIOUS
  <1>1. MaxTasks \in Nat /\ 0 \in 0 .. TickMod - 1
    BY TasksAssumption
  <1>2. Other(11) \in [1 .. 11 -> Word]
    BY DEF Other, Word
  <1>3. TypeOK
    <2>1. {0} = 0 .. next_pid - 1 /\ next_pid \in 1 .. MaxTasks + 1
      BY <1>1 DEF Init
    <2>2. next \in [{0} -> -2 .. MaxTasks]
      BY <1>1 DEF Init, Kernel
    <2>3. esp \in [{0} -> Stacks] /\ memory \in [Stacks -> [1 .. 11 -> Word]]
      BY <1>2 DEF Init, Kernel, Stacks
    <2>4. QED
      BY <1>1, <2>1, <2>2, <2>3 DEF Init, TypeOK, Kernel, Unset
  <1>4. newest = 0
    BY DEF Init, newest, new_task
  <1>5. RingWhole /\ OnRing
    BY <1>4 DEF Init, RingWhole, OnRing, Kernel
  <1>6. QED
    BY <1>3, <1>5 DEF IInv

\* The numbers of the tasks.
LEMMA Numbers ==
  ASSUME IInv
  PROVE  /\ MaxTasks \in Nat /\ TickMod \in Nat \ {0}
         /\ next_pid \in 1 .. MaxTasks + 1 /\ next_pid \in Nat
         /\ new_task = next_pid - 1 /\ newest \in 0 .. new_task
         /\ next \in [0 .. new_task -> -2 .. MaxTasks]
         /\ step \in {"link_new", "link_head"} => newest = new_task - 1 /\ new_task > 0
         /\ step \notin {"link_new", "link_head"} => newest = new_task
         /\ next[0] = newest /\ \A p \in 1 .. newest : next[p] = p - 1
  <1>1. MaxTasks \in Nat /\ TickMod \in Nat \ {0}
    BY TasksAssumption
  <1>2. next_pid \in 1 .. MaxTasks + 1 /\ next \in [0 .. next_pid - 1 -> -2 .. MaxTasks]
    BY DEF IInv, TypeOK, Unset
  <1>3. RingWhole /\ OnRing
    BY DEF IInv
  <1>4. QED
    BY <1>1, <1>2, <1>3 DEF RingWhole, OnRing, newest, new_task, Kernel

\* The task after one on the ring is on the ring.
LEMMA NextOnRing ==
  ASSUME IInv, NEW p \in 0 .. newest
  PROVE  next[p] \in 0 .. newest
  <1>1. CASE p = 0
    BY <1>1, Numbers
  <1>2. CASE p # 0
    <2>1. p \in 1 .. newest
      BY <1>2, Numbers
    <2>2. QED
      BY <2>1, Numbers
  <1>3. QED
    BY <1>1, <1>2

\* Two runs of words, eleven together.
LEMMA Eleven ==
  ASSUME NEW s \in Seq(Word), NEW t \in Seq(Word), Len(s) + Len(t) = 11
  PROVE  s \o t \in [1 .. 11 -> Word]
  <1> DEFINE u == s \o t
  <1>1. u \in Seq(Word) /\ Len(u) = 11
    OBVIOUS
  <1> HIDE DEF u
  <1>2. u \in [1 .. Len(u) -> Word]
    BY <1>1, LenProperties
  <1>3. QED
    BY <1>1, <1>2 DEF u

LEMMA Frames ==
  /\ \A entry \in Entries : NewFrame(entry) \in [1 .. 11 -> Word]
  /\ SavedFrame \in [1 .. 11 -> Word]
  <1>1. ASSUME NEW entry \in Entries PROVE NewFrame(entry) \in [1 .. 11 -> Word]
    <2> DEFINE own == <<"zero", "zero", "zero", "zero", entry>>
               rest == Other(6)
    <2>1. own \in Seq(Word) /\ Len(own) = 5
      BY DEF Word
    <2>2. rest \in Seq(Word) /\ Len(rest) = 6
      BY DEF Word, Other
    <2>3. NewFrame(entry) = own \o rest
      BY DEF NewFrame
    <2> HIDE DEF own, rest
    <2>4. own \o rest \in [1 .. 11 -> Word]
      <3>1. Len(own) + Len(rest) = 11
        BY <2>1, <2>2
      <3>2. QED
        BY <2>1, <2>2, <3>1, Eleven
    <2>5. QED
      BY <2>3, <2>4
  <1>2. SavedFrame \in [1 .. 11 -> Word]
    <2> DEFINE first == Other(8)
               rest == <<"cs", "eflags", "return">>
    <2>1. rest \in Seq(Word) /\ Len(rest) = 3
      BY DEF Word
    <2>2. first \in Seq(Word) /\ Len(first) = 8
      BY DEF Word, Other
    <2>3. SavedFrame = first \o rest
      BY DEF SavedFrame
    <2> HIDE DEF first, rest
    <2>4. first \o rest \in [1 .. 11 -> Word]
      <3>1. Len(first) + Len(rest) = 11
        BY <2>1, <2>2
      <3>2. QED
        BY <2>1, <2>2, <3>1, Eleven
    <2>5. QED
      BY <2>3, <2>4
  <1>3. QED
    BY <1>1, <1>2

-----------------------------------------------------------------------------
(* create_task.                                                            *)

LEMMA CreateTaskInv ==
  ASSUME IInv, NEW entry \in Entries, CreateTask(entry) PROVE IInv'
  <1>1. /\ next_pid \in 1 .. MaxTasks /\ MaxTasks \in Nat /\ next_pid' = next_pid + 1
        /\ step = "idle" /\ step' = "link_new" /\ eip' = eip
        /\ newest = next_pid - 1 /\ newest' = newest /\ new_task' = next_pid
    BY Numbers DEF CreateTask, newest, new_task
  <1>2. PICK stack \in {next_pid, Low} :
          /\ esp' = With(esp, next_pid, stack)
          /\ memory' = [memory EXCEPT ![stack] = NewFrame(entry)]
    BY DEF CreateTask
  <1>3. next' = With(next, next_pid, Unset) /\ next \in [0 .. next_pid - 1 -> -2 .. MaxTasks]
    BY Numbers DEF CreateTask
  <1>4. 0 .. next_pid - 1 \cup {next_pid} = 0 .. next_pid
    BY <1>1
  <1>5. next' \in [0 .. next_pid -> -2 .. MaxTasks]
        /\ \A p \in 0 .. next_pid - 1 : next'[p] = next[p]
    BY <1>1, <1>3, <1>4 DEF With, Unset
  <1>6. stack \in Stacks
    BY <1>1 DEF Stacks
  <1>7. esp' \in [0 .. next_pid -> Stacks]
    <2>1. esp \in [0 .. next_pid - 1 -> Stacks]
      BY DEF IInv, TypeOK
    <2>2. QED
      BY <1>1, <1>2, <1>4, <1>6, <2>1 DEF With
  <1>8. memory' \in [Stacks -> [1 .. 11 -> Word]]
    BY <1>2, <1>6, Frames DEF IInv, TypeOK
  <1>9. TypeOK'
    <2>1. next' \in [0 .. next_pid' - 1 -> Unset .. MaxTasks] /\ next_pid' \in 1 .. MaxTasks + 1
      BY <1>1, <1>5 DEF Unset
    <2>2. esp' \in [0 .. next_pid' - 1 -> Stacks]
      BY <1>1, <1>7
    <2>3. current_task' \in 0 .. next_pid' - 1 /\ prev_task' \in 0 .. next_pid' - 1
      BY <1>1 DEF IInv, TypeOK, CreateTask
    <2>4. QED
      BY <1>1, <1>8, <2>1, <2>2, <2>3 DEF TypeOK, IInv, CreateTask
  <1>10. RingWhole'
    <2>1. next'[0] = newest
      BY <1>1, <1>5, Numbers
    <2>2. \A p \in 1 .. newest : next'[p] = p - 1
      BY <1>1, <1>5, Numbers
    <2>3. QED
      BY <1>1, <2>1, <2>2 DEF RingWhole, Kernel
  <1>11. OnRing'
    BY <1>1 DEF OnRing, IInv, CreateTask
  <1>12. QED
    BY <1>9, <1>10, <1>11 DEF IInv

LEMMA LinkNewInv == ASSUME IInv, LinkNew PROVE IInv'
  <1>1. /\ step = "link_new" /\ step' = "link_head" /\ new_task > 0
        /\ next' = [next EXCEPT ![new_task] = next[0]]
        /\ next_pid' = next_pid /\ new_task' = new_task /\ newest' = newest
        /\ newest = new_task - 1
    BY Numbers DEF LinkNew, newest, new_task, Kernel
  <1>2. /\ next \in [0 .. new_task -> -2 .. MaxTasks] /\ new_task \in Nat
        /\ newest \in Nat /\ next[0] = newest
        /\ \A p \in 1 .. newest : next[p] = p - 1
    BY Numbers
  <1>3. /\ next' \in [0 .. new_task -> -2 .. MaxTasks]
        /\ next'[new_task] = newest /\ next'[0] = newest
        /\ \A p \in 1 .. newest : next'[p] = p - 1
    BY <1>1, <1>2
  <1>4. TypeOK'
    BY <1>1, <1>3, Numbers DEF IInv, TypeOK, LinkNew, Unset
  <1>5. RingWhole' /\ OnRing'
    BY <1>1, <1>3 DEF IInv, RingWhole, OnRing, LinkNew, Kernel
  <1>6. QED
    BY <1>4, <1>5 DEF IInv

LEMMA LinkHeadInv == ASSUME IInv, LinkHead PROVE IInv'
  <1>1. /\ step = "link_head" /\ step' = "idle" /\ new_task > 0
        /\ next' = [next EXCEPT ![0] = new_task]
        /\ next_pid' = next_pid /\ new_task' = new_task
        /\ newest' = new_task /\ newest = new_task - 1
    BY Numbers DEF LinkHead, newest, new_task, Kernel
  <1>2. /\ next \in [0 .. new_task -> -2 .. MaxTasks] /\ new_task \in Nat
        /\ new_task <= MaxTasks /\ MaxTasks \in Nat
        /\ \A p \in 1 .. newest : next[p] = p - 1
    BY Numbers
  <1>3. next[new_task] = newest
    BY <1>1 DEF IInv, OnRing
  <1>4. /\ next' \in [0 .. new_task -> -2 .. MaxTasks] /\ next'[0] = new_task
        /\ \A p \in 1 .. new_task : next'[p] = p - 1
    <2>1. next' \in [0 .. new_task -> -2 .. MaxTasks] /\ next'[0] = new_task
      BY <1>1, <1>2
    <2>2. ASSUME NEW p \in 1 .. new_task PROVE next'[p] = p - 1
      <3>1. next'[p] = next[p]
        BY <1>1, <1>2
      <3>2. CASE p = new_task
        BY <1>1, <1>3, <3>1, <3>2
      <3>3. CASE p # new_task
        BY <1>1, <1>2, <3>1, <3>3
      <3>4. QED
        BY <3>2, <3>3
    <2>3. QED
      BY <2>1, <2>2
  <1>5. TypeOK'
    BY <1>1, <1>4, Numbers DEF IInv, TypeOK, LinkHead, Unset
  <1>6. RingWhole' /\ OnRing'
    BY <1>1, <1>2, <1>4 DEF IInv, RingWhole, OnRing, LinkHead, Kernel
  <1>7. QED
    BY <1>5, <1>6 DEF IInv

-----------------------------------------------------------------------------
(* The scheduler.                                                          *)

\* A switch leaves the ring alone and takes its words from the stacks.
LEMMA SwitchTypes ==
  ASSUME IInv, NEW prev \in 0 .. new_task, NEW to \in 0 .. new_task,
         switch_to_task(prev, to)
  PROVE  /\ esp' \in [0 .. new_task -> Stacks]
         /\ memory' \in [Stacks -> [1 .. 11 -> Word]] /\ eip' \in Word
  <1>1. esp \in [0 .. new_task -> Stacks] /\ memory \in [Stacks -> [1 .. 11 -> Word]]
    BY DEF IInv, TypeOK, new_task
  <1>2. esp' = [esp EXCEPT ![prev] = Kernel] /\ memory' = [memory EXCEPT ![Kernel] = SavedFrame]
        /\ eip' = memory'[esp[to]][9]
    BY DEF switch_to_task
  <1>3. Kernel \in Stacks
    BY DEF Stacks
  <1>4. memory' \in [Stacks -> [1 .. 11 -> Word]]
    BY <1>1, <1>2, Frames
  <1>5. esp[to] \in Stacks
    BY <1>1
  <1>6. memory'[esp[to]] \in [1 .. 11 -> Word]
    BY <1>4, <1>5
  <1>7. QED
    BY <1>1, <1>2, <1>3, <1>4, <1>6

LEMMA YieldInv == ASSUME IInv, Yield PROVE IInv'
  <1>1. current_task \in 0 .. newest
    BY DEF IInv, OnRing
  <1>2. prev_task' \in 0 .. newest /\ current_task' \in 0 .. newest
    BY <1>1, NextOnRing DEF Yield
  <1>3. newest' = newest /\ new_task' = new_task
    BY DEF Yield, newest, new_task
  <1>4. prev_task' \in 0 .. next_pid - 1 /\ current_task' \in 0 .. next_pid - 1
    BY <1>2, Numbers
  <1>5. TypeOK'
    BY <1>4 DEF IInv, TypeOK, Yield
  <1>6. RingWhole' /\ OnRing'
    BY <1>2, <1>3 DEF IInv, RingWhole, OnRing, Yield
  <1>7. QED
    BY <1>5, <1>6 DEF IInv

LEMMA YieldSwitchInv == ASSUME IInv, YieldSwitch PROVE IInv'
  <1>1. prev_task \in 0 .. newest
    BY DEF IInv, OnRing
  <1>2. next[prev_task] \in 0 .. newest
    BY <1>1, NextOnRing
  <1>3. prev_task \in 0 .. new_task /\ next[prev_task] \in 0 .. new_task
    BY <1>1, <1>2, Numbers
  <1>4. /\ esp' \in [0 .. new_task -> Stacks]
        /\ memory' \in [Stacks -> [1 .. 11 -> Word]] /\ eip' \in Word
    BY <1>3, SwitchTypes DEF YieldSwitch
  <1>5. newest' = newest /\ new_task' = new_task
    BY DEF YieldSwitch, newest, new_task
  <1>6. TypeOK'
    BY <1>4 DEF IInv, TypeOK, YieldSwitch, new_task
  <1>7. RingWhole' /\ OnRing'
    BY <1>5 DEF IInv, RingWhole, OnRing, YieldSwitch
  <1>8. QED
    BY <1>6, <1>7 DEF IInv

LEMMA TimerInv == ASSUME IInv, timer_handler_c PROVE IInv'
  <1>1. current_task \in 0 .. newest
    BY DEF IInv, OnRing
  <1>2. next[current_task] \in 0 .. newest
    BY <1>1, NextOnRing
  <1>3. current_task \in 0 .. new_task /\ next[current_task] \in 0 .. new_task
    BY <1>1, <1>2, Numbers
  <1>4. /\ esp' \in [0 .. new_task -> Stacks]
        /\ memory' \in [Stacks -> [1 .. 11 -> Word]] /\ eip' \in Word \cup {"own"}
        /\ current_task' \in 0 .. newest
    <2>1. CASE next[current_task] = current_task
      BY <1>1, <2>1 DEF timer_handler_c, IInv, TypeOK, new_task
    <2>2. CASE next[current_task] # current_task
      BY <1>2, <1>3, <2>2, SwitchTypes DEF timer_handler_c
    <2>3. QED
      BY <2>1, <2>2
  <1>5. timer_ticks' \in 0 .. TickMod - 1
    <2>1. \A m \in Nat, n \in Nat \ {0} : (m % n) \in 0 .. n - 1
      BY SMT
    <2>2. timer_ticks + 1 \in Nat /\ TickMod \in Nat \ {0}
      BY TasksAssumption DEF IInv, TypeOK
    <2>3. QED
      BY <2>1, <2>2 DEF timer_handler_c
  <1>6. newest' = newest /\ new_task' = new_task
    BY DEF timer_handler_c, newest, new_task
  <1>7. current_task' \in 0 .. next_pid - 1
    BY <1>4, Numbers
  <1>8. TypeOK'
    BY <1>4, <1>5, <1>7 DEF IInv, TypeOK, timer_handler_c, new_task
  <1>9. RingWhole' /\ OnRing'
    BY <1>4, <1>6 DEF IInv, RingWhole, OnRing, timer_handler_c
  <1>10. QED
    BY <1>8, <1>9 DEF IInv

-----------------------------------------------------------------------------
(* Where a switch leads.                                                   *)

\* A switch leads neither to the entry of a task nor back to its caller.
Astray == eip \in {"own", "other"}

\* Before the first switch no stack has a word of anybody's where iret takes the
\* EIP, and no task has the one frame in which it would find another word.
NothingThere ==
  eip = "own" => /\ \A s \in Stacks : memory[s][9] = "other"
                 /\ \A p \in 0 .. new_task : esp[p] # Kernel

LEMMA Ninth == \A entry \in Entries : NewFrame(entry)[9] = "other"
  <1> SUFFICES ASSUME NEW entry \in Entries PROVE NewFrame(entry)[9] = "other"
    OBVIOUS
  <1> DEFINE own == <<"zero", "zero", "zero", "zero", entry>>
             rest == Other(6)
  <1>1. own \in Seq(Word) /\ Len(own) = 5 /\ rest \in Seq(Word) /\ Len(rest) = 6 /\ rest[4] = "other"
    BY DEF Word, Other
  <1>2. NewFrame(entry) = own \o rest
    BY DEF NewFrame
  <1> HIDE DEF own, rest
  <1>3. (own \o rest)[9] = rest[4]
    <2>1. 9 \in 1 .. Len(own) + Len(rest) /\ ~(9 <= Len(own)) /\ 9 - Len(own) = 4
      BY <1>1
    <2>2. \A i \in 1 .. Len(own) + Len(rest) :
            (own \o rest)[i] = IF i <= Len(own) THEN own[i] ELSE rest[i - Len(own)]
      BY <1>1, ConcatProperties
    <2>3. QED
      BY <2>1, <2>2
  <1>4. QED
    BY <1>1, <1>2, <1>3

LEMMA SwitchAstray ==
  ASSUME IInv, NothingThere, eip = "own",
         NEW prev \in 0 .. new_task, NEW to \in 0 .. new_task, switch_to_task(prev, to)
  PROVE  eip' = "other"
  <1>1. esp \in [0 .. new_task -> Stacks] /\ memory \in [Stacks -> [1 .. 11 -> Word]]
    BY DEF IInv, TypeOK, new_task
  <1>2. esp[to] \in Stacks /\ esp[to] # Kernel
    BY <1>1 DEF NothingThere
  <1>3. memory' = [memory EXCEPT ![Kernel] = SavedFrame] /\ eip' = memory'[esp[to]][9]
    BY DEF switch_to_task
  <1>4. memory'[esp[to]] = memory[esp[to]]
    BY <1>1, <1>2, <1>3
  <1>5. QED
    BY <1>2, <1>3, <1>4 DEF NothingThere

LEMMA AstrayStep == IInv /\ Astray /\ NothingThere /\ [Next]_vars => Astray' /\ NothingThere'
  <1> SUFFICES ASSUME IInv, Astray, NothingThere, [Next]_vars PROVE Astray' /\ NothingThere'
    OBVIOUS
  <1>1. ASSUME NEW entry \in Entries, CreateTask(entry) PROVE Astray' /\ NothingThere'
    <2>1. /\ eip = "own" /\ eip' = eip /\ new_task' = next_pid
          /\ next_pid \in Nat \ {0} /\ new_task = next_pid - 1
      BY <1>1, Numbers DEF CreateTask, new_task
    <2>2. PICK stack \in {next_pid, Low} :
            /\ esp' = With(esp, next_pid, stack)
            /\ memory' = [memory EXCEPT ![stack] = NewFrame(entry)]
      BY <1>1 DEF CreateTask
    <2>3. esp \in [0 .. new_task -> Stacks] /\ memory \in [Stacks -> [1 .. 11 -> Word]]
      BY DEF IInv, TypeOK, new_task
    <2>4. ASSUME NEW s \in Stacks PROVE memory'[s][9] = "other"
      <3>1. memory'[s] \in {NewFrame(entry), memory[s]}
        BY <2>2, <2>3
      <3>2. QED
        BY <2>1, <3>1, Ninth DEF NothingThere
    <2>5. ASSUME NEW p \in 0 .. new_task' PROVE esp'[p] # Kernel
      <3>1. CASE p = next_pid
        BY <2>1, <2>2, <3>1 DEF With, Kernel, Low
      <3>2. CASE p # next_pid
        <4>1. p \in 0 .. new_task
          BY <2>1, <3>2
        <4>2. esp'[p] = esp[p]
          BY <2>2, <2>3, <3>2, <4>1 DEF With
        <4>3. QED
          BY <2>1, <4>1, <4>2 DEF NothingThere
      <3>3. QED
        BY <3>1, <3>2
    <2>6. QED
      BY <2>1, <2>4, <2>5 DEF Astray, NothingThere
  <1>2. CASE LinkNew \/ LinkHead \/ Yield \/ UNCHANGED vars
    <2>1. UNCHANGED <<next_pid, esp, memory, eip>>
      BY <1>2 DEF LinkNew, LinkHead, Yield, vars
    <2>2. new_task' = new_task
      BY <2>1 DEF new_task
    <2>3. QED
      BY <2>1, <2>2 DEF Astray, NothingThere
  <1>3. ASSUME NEW prev \in 0 .. newest, switch_to_task(prev, next[prev]), eip = "own"
        PROVE  Astray' /\ NothingThere'
    <2>1. prev \in 0 .. new_task /\ next[prev] \in 0 .. new_task
      BY <1>3, NextOnRing, Numbers
    <2>2. eip' = "other"
      BY <1>3, <2>1, SwitchAstray
    <2>3. QED
      BY <2>2 DEF Astray, NothingThere
  <1>4. CASE YieldSwitch
    <2>1. prev_task \in 0 .. newest
      BY DEF IInv, OnRing
    <2>2. QED
      BY <1>3, <1>4, <2>1 DEF YieldSwitch
  <1>5. CASE timer_handler_c
    <2>1. current_task \in 0 .. newest
      BY DEF IInv, OnRing
    <2>2. CASE next[current_task] = current_task
      <3>1. UNCHANGED <<next_pid, esp, memory, eip>>
        BY <1>5, <2>2 DEF timer_handler_c
      <3>2. new_task' = new_task
        BY <3>1 DEF new_task
      <3>3. QED
        BY <3>1, <3>2 DEF Astray, NothingThere
    <2>3. CASE next[current_task] # current_task
      BY <1>3, <1>5, <2>1, <2>3 DEF timer_handler_c
    <2>4. QED
      BY <2>2, <2>3
  <1>6. QED
    BY <1>1, <1>2, <1>4, <1>5 DEF Next

-----------------------------------------------------------------------------
(* The theorems.                                                           *)

LEMMA NextInv == IInv /\ [Next]_vars => IInv'
  <1> SUFFICES ASSUME IInv, [Next]_vars PROVE IInv'
    OBVIOUS
  <1>1. CASE \E entry \in Entries : CreateTask(entry)
    BY <1>1, CreateTaskInv
  <1>2. CASE LinkNew
    BY <1>2, LinkNewInv
  <1>3. CASE LinkHead
    BY <1>3, LinkHeadInv
  <1>4. CASE Yield
    BY <1>4, YieldInv
  <1>5. CASE YieldSwitch
    BY <1>5, YieldSwitchInv
  <1>6. CASE timer_handler_c
    BY <1>6, TimerInv
  <1>7. CASE UNCHANGED vars
    BY <1>7 DEF vars, IInv, TypeOK, RingWhole, OnRing, newest, new_task
  <1>8. QED
    BY <1>1, <1>2, <1>3, <1>4, <1>5, <1>6, <1>7 DEF Next

\* The inductive invariant holds in every state of tasks and timer.
THEOREM Invariance == Spec => []IInv
  BY InitInv, NextInv, PTL DEF Spec

\* The ring, the stacks and the counters have their types in every state, for any
\* number of tasks (task.c:8-20, timer.c:5).
THEOREM TypeCorrect == Spec => []TypeOK
  <1>1. IInv => TypeOK
    BY DEF IInv
  <1>2. QED
    BY <1>1, Invariance, PTL

\* Wherever the timer interrupts create_task or schedule, the ring holds every
\* task that has been put in once, and takes one that is being put in wholly or
\* not at all, for any number of tasks (task.c:65-66, 75-94).
THEOREM KeepsRingWhole == Spec => []RingWhole
  <1>1. IInv => RingWhole
    BY DEF IInv
  <1>2. QED
    BY <1>1, Invariance, PTL

\* No switch ever reaches a task or returns to its caller, whatever tasks there
\* are and whether task_yield or the timer switches: switch_to_task takes its EIP
\* from behind what create_task laid out (task.c:48-58, boot.asm:144-156).
THEOREM NoSwitchArrives == Spec => []Astray
  <1>1. Init => Astray /\ NothingThere
    <2> SUFFICES ASSUME Init PROVE Astray /\ NothingThere
      OBVIOUS
    <2>1. eip = "own" /\ new_task = 0 /\ memory = [s \in Stacks |-> Other(11)]
          /\ esp = [p \in {Kernel} |-> Unset]
      BY DEF Init, new_task
    <2>2. Other(11)[9] = "other" /\ \A p \in 0 .. new_task : p = Kernel
      BY <2>1 DEF Other, Kernel
    <2>3. QED
      BY <2>1, <2>2 DEF Astray, NothingThere, Kernel, Unset
  <1>2. QED
    BY <1>1, AstrayStep, Invariance, PTL DEF Spec
================================================================================
