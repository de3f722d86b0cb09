------------------------------ MODULE VfsProofs ------------------------------
(***************************************************************************)
(* Proofs about Vfs, for every size of table and heap and every set of     *)
(* names and texts: the file system holds just the blocks of its files,    *)
(* and it implements FileStore.                                            *)
(***************************************************************************)
EXTENDS Vfs, FiniteSetTheorems, SequenceTheorems,
  WellFoundedInduction, TLAPS

LEMMA Constants ==
  /\ MAX_FILES \in Nat \ {0} /\ MAX_FILENAME_LEN \in Nat \ {0}
  /\ HeaderSize \in Nat \ {0}
  /\ \A n \in Names : n \in Seq(STRING) /\ Stored(n) \in Seq(STRING)
  /\ \A t \in Texts : t \in Seq(STRING) /\ Len(t) \in Nat
<1>1. MAX_FILENAME_LEN \in Nat \ {0} /\ \A n \in Names : n \in Seq(STRING)
  BY VfsAssumption
<1>2. ASSUME NEW n \in Names PROVE Stored(n) \in Seq(STRING)
  <2>1. CASE Len(n) < MAX_FILENAME_LEN
    BY <1>1, <2>1 DEF Stored
  <2>2. CASE ~(Len(n) < MAX_FILENAME_LEN)
    <3>1. Len(n) \in Nat /\ \A i \in 1 .. MAX_FILENAME_LEN - 1 : n[i] \in STRING
      BY <1>1, <2>2
    <3>2. SubSeq(n, 1, MAX_FILENAME_LEN - 1) \in Seq(STRING)
      BY <1>1, <3>1, SubSeqProperties
    <3> QED BY <2>2, <3>2 DEF Stored
  <2> QED BY <2>1, <2>2
<1> QED BY <1>2, VfsAssumption

\* A block kmalloc grants is a new one.
LEMMA Granting ==
  ASSUME TypeOK, NEW p \in 1 .. HeapHi, NEW s \in 1 .. HeapHi, Heap!Grant(p, s)
  PROVE  /\ p \in Nat \ {0} /\ p \notin DOMAIN granted
         /\ s \in Nat /\ s >= request /\ request' = 0
         /\ DOMAIN granted' = DOMAIN granted \cup {p}
         /\ granted' \in [DOMAIN granted' -> Nat]
         /\ granted'[p] = s
         /\ \A q \in DOMAIN granted : granted'[q] = granted[q]
<1>1. HeaderSize \in Nat \ {0} /\ HeapHi \in Nat /\ p \in Nat \ {0} /\ s \in Nat \ {0}
  BY VfsAssumption
<1>2. granted \in [DOMAIN granted -> Nat]
  BY DEF TypeOK
<1>3. p \notin DOMAIN granted
  <2> SUFFICES ASSUME p \in DOMAIN granted PROVE FALSE
    OBVIOUS
  <2>1. granted[p] \in Nat
    BY <1>2
  <2>2. p + s <= p - HeaderSize \/ p - HeaderSize >= p + granted[p]
    BY DEF Heap!Grant, Heap!Unused
  <2> QED BY <1>1, <2>1, <2>2
<1>4. granted' = [q \in DOMAIN granted \cup {p} |-> IF q = p THEN s ELSE granted[q]]
      /\ s >= request /\ request' = 0
  BY DEF Heap!Grant
<1> QED BY <1>1, <1>2, <1>3, <1>4

LEMMA InvInit == Init => IInv
<1> SUFFICES ASSUME Init PROVE IInv
  OBVIOUS
<1>1. Indices = {} /\ file_count = 0 /\ MAX_FILES \in Nat \ {0}
  BY Constants DEF Init, Indices
<1>2. TypeOK
  <2>1. <<>> \in Seq(STRING)
    OBVIOUS
  <2>2. file_system \in [0 .. MAX_FILES - 1 -> [name : Seq(STRING), length : Nat, data : Nat]]
    BY <2>1 DEF Init, NoNode, NULL
  <2>3. mem \in [DOMAIN granted -> Texts] /\ granted \in [DOMAIN granted -> Nat]
        /\ DOMAIN granted = {}
    BY DEF Init, Heap!Init
  <2>4. /\ call \in [op : {"idle", "create", "write", "replace"}, node : Nat,
                     text : Texts \cup {<<>>}, data : Nat]
        /\ call.op = "idle" /\ request = 0
    BY DEF Init, Idle, NULL, Heap!Init
  <2>5. defaults \in Seq(Names \X Texts)
    BY VfsAssumption DEF Init
  <2>6. file_count \in 0 .. MAX_FILES
    BY <1>1
  <2> QED BY <2>2, <2>3, <2>4, <2>5, <2>6 DEF TypeOK
<1>3. DataHeld
  <2>1. DOMAIN granted = {} /\ call.op = "idle"
    BY DEF Init, Heap!Init, Idle
  <2> QED BY <1>1, <2>1 DEF DataHeld
<1>4. TextsFit /\ CallInProgress
  BY <1>1 DEF Init, Idle, TextsFit, CallInProgress
<1> QED BY <1>2, <1>3, <1>4 DEF IInv

\* What vfs_create_file_raw does up to kmalloc.
LEMMA CreateStep ==
  ASSUME IInv, NEW name \in Names, NEW text \in Texts,
         vfs_create_file_raw(name, text), defaults' \in Seq(Names \X Texts)
  PROVE  IInv'
<1>1. /\ call = Idle /\ file_count < MAX_FILES /\ file_count \in 0 .. MAX_FILES
      /\ file_count' = file_count /\ mem' = mem /\ granted' = granted
      /\ request' = Len(text) + 1 /\ MAX_FILES \in Nat
      /\ Len(text) \in Nat /\ Stored(name) \in Seq(STRING)
  BY Constants DEF vfs_create_file_raw, Heap!Request, IInv, TypeOK
<1>2. Indices' = Indices /\ file_count \notin Indices /\ file_count \in 0 .. MAX_FILES - 1
  BY <1>1 DEF Indices
<1>3. /\ file_system' = [file_system EXCEPT ![file_count].name = Stored(name),
                                            ![file_count].length = Len(text)]
      /\ file_system \in [0 .. MAX_FILES - 1 -> [name : Seq(STRING), length : Nat, data : Nat]]
  BY DEF vfs_create_file_raw, IInv, TypeOK
<1>4. /\ file_system' \in [0 .. MAX_FILES - 1 -> [name : Seq(STRING), length : Nat, data : Nat]]
      /\ file_system'[file_count].length = Len(text)
      /\ \A i \in Indices : file_system'[i] = file_system[i]
  <2>1. Indices \subseteq 0 .. MAX_FILES - 1
    BY <1>1 DEF Indices
  <2>2. file_system' = [file_system EXCEPT ![file_count] =
          [file_system[file_count] EXCEPT !.name = Stored(name), !.length = Len(text)]]
    BY <1>2, <1>3
  <2>3. [file_system[file_count] EXCEPT !.name = Stored(name), !.length = Len(text)]
          \in [name : Seq(STRING), length : Nat, data : Nat]
    BY <1>1, <1>2, <1>3
  <2>4. [file_system[file_count] EXCEPT !.name = Stored(name), !.length = Len(text)].length
          = Len(text)
    BY <1>2, <1>3
  <2> QED BY <1>2, <1>3, <2>1, <2>2, <2>3, <2>4
<1>5. call' = [op |-> "create", node |-> file_count, text |-> text, data |-> NULL]
  BY DEF vfs_create_file_raw, Idle
<1>6. TypeOK'
  <2>1. /\ call' \in [op : {"idle", "create", "write", "replace"}, node : Nat,
                      text : Texts \cup {<<>>}, data : Nat]
        /\ call'.op = "create" /\ call'.node = file_count /\ call'.text = text
    BY <1>1, <1>5 DEF NULL
  <2> QED BY <1>1, <1>4, <2>1 DEF TypeOK, IInv
<1>7. DataHeld'
  <2>1. DOMAIN granted = {file_system[i].data : i \in Indices}
        /\ \A i, j \in Indices : file_system[i].data = file_system[j].data => i = j
    BY <1>1 DEF IInv, DataHeld, Idle
  <2>2. DOMAIN granted' = {file_system'[i].data : i \in Indices'}
    BY <1>1, <1>2, <1>4, <2>1
  <2>3. \A i, j \in Indices' : file_system'[i].data = file_system'[j].data => i = j
    BY <1>2, <1>4, <2>1
  <2>4. call'.op = "create"
    BY <1>5
  <2> QED BY <2>2, <2>3, <2>4 DEF DataHeld
<1>8. TextsFit'
  BY <1>1, <1>2, <1>4 DEF TextsFit, IInv
<1>9. CallInProgress'
  BY <1>1, <1>4, <1>5 DEF CallInProgress
<1> QED BY <1>6, <1>7, <1>8, <1>9 DEF IInv

LEMMA CreateGrantedStep ==
  ASSUME IInv, NEW p \in 1 .. HeapHi, NEW s \in 1 .. HeapHi, CreateGranted(p, s)
  PROVE  IInv'
<1>1. /\ call.op = "create" /\ call.node = file_count /\ file_count \in 0 .. MAX_FILES - 1
      /\ MAX_FILES \in Nat
      /\ call.text \in Texts /\ request = Len(call.text) + 1 /\ Len(call.text) \in Nat
      /\ file_system[file_count].length = Len(call.text)
  BY Constants DEF CreateGranted, IInv, TypeOK, CallInProgress
<1>2. /\ p \in Nat \ {0} /\ p \notin DOMAIN granted
      /\ s \in Nat /\ s >= request /\ request' = 0
      /\ DOMAIN granted' = DOMAIN granted \cup {p}
      /\ granted' \in [DOMAIN granted' -> Nat]
      /\ granted'[p] = s
      /\ \A q \in DOMAIN granted : granted'[q] = granted[q]
  BY Granting DEF CreateGranted, IInv
<1>3. /\ file_count' = file_count + 1 /\ call' = Idle /\ defaults' = defaults
      /\ file_system' = [file_system EXCEPT ![file_count].data = p]
      /\ file_system \in [0 .. MAX_FILES - 1 -> [name : Seq(STRING), length : Nat, data : Nat]]
  BY <1>1 DEF CreateGranted, IInv, TypeOK
<1>4. /\ mem \in [DOMAIN granted -> Texts]
      /\ mem' = [q \in DOMAIN mem \cup {p} |-> IF q = p THEN call.text ELSE mem[q]]
  BY DEF CreateGranted, IInv, TypeOK, Copied
<1>5. /\ mem' \in [DOMAIN granted' -> Texts] /\ mem'[p] = call.text
      /\ \A q \in DOMAIN granted : mem'[q] = mem[q]
  BY <1>1, <1>2, <1>4
<1>6. Indices' = Indices \cup {file_count} /\ file_count \notin Indices
      /\ Indices \subseteq 0 .. MAX_FILES - 1
  BY <1>1, <1>3 DEF Indices
<1>7. /\ file_system' \in [0 .. MAX_FILES - 1 -> [name : Seq(STRING), length : Nat, data : Nat]]
      /\ file_system'[file_count].data = p
      /\ file_system'[file_count].length = Len(call.text)
      /\ \A i \in Indices : file_system'[i] = file_system[i]
  BY <1>1, <1>2, <1>3, <1>6
<1>8. TypeOK'
  <2>1. /\ call' \in [op : {"idle", "create", "write", "replace"}, node : Nat,
                      text : Texts \cup {<<>>}, data : Nat]
        /\ call'.op = "idle"
    BY <1>3 DEF Idle, NULL
  <2>2. file_count' \in 0 .. MAX_FILES
    BY <1>1, <1>3
  <2>3. DOMAIN granted' \subseteq Nat \ {0}
    BY <1>2 DEF IInv, TypeOK
  <2>4. defaults' \in Seq(Names \X Texts)
    BY <1>3 DEF IInv, TypeOK
  <2> QED BY <1>2, <1>5, <1>7, <2>1, <2>2, <2>3, <2>4 DEF TypeOK
<1>9. DOMAIN granted = {file_system[i].data : i \in Indices}
      /\ \A i, j \in Indices : file_system[i].data = file_system[j].data => i = j
  BY <1>1 DEF IInv, DataHeld
<1>10. DataHeld'
  <2>1. DOMAIN granted' = {file_system'[i].data : i \in Indices'}
    BY <1>2, <1>6, <1>7, <1>9
  <2>2. ASSUME NEW i \in Indices', NEW j \in Indices',
               file_system'[i].data = file_system'[j].data
        PROVE  i = j
    <3>1. \A k \in Indices : file_system'[k].data # p
      BY <1>2, <1>7, <1>9
    <3> QED BY <1>6, <1>7, <1>9, <2>2, <3>1
  <2>3. call'.op = "idle"
    BY <1>3 DEF Idle
  <2> QED BY <2>1, <2>2, <2>3 DEF DataHeld
<1>11. TextsFit'
  <2>1. ASSUME NEW i \in Indices'
        PROVE  /\ file_system'[i].length = Len(mem'[file_system'[i].data])
               /\ granted'[file_system'[i].data] >= file_system'[i].length + 1
    <3>1. CASE i = file_count
      BY <1>1, <1>2, <1>5, <1>7, <3>1
    <3>2. CASE i \in Indices
      <4>1. file_system[i].data \in DOMAIN granted
        BY <1>9, <3>2
      <4> QED BY <1>2, <1>5, <1>7, <3>2, <4>1 DEF IInv, TextsFit
    <3> QED BY <1>6, <3>1, <3>2
  <2> QED BY <2>1 DEF TextsFit
<1>12. CallInProgress'
  BY <1>3 DEF CallInProgress, Idle
<1> QED BY <1>8, <1>10, <1>11, <1>12 DEF IInv

\* A failed create leaves a node beyond the files without a block.
LEMMA CreateDeniedStep ==
  ASSUME IInv, CreateDenied
  PROVE  IInv'
<1>1. /\ call.node = file_count /\ file_count \in 0 .. MAX_FILES - 1 /\ MAX_FILES \in Nat
      /\ file_count' = file_count /\ mem' = mem /\ granted' = granted
      /\ request' = 0 /\ call' = Idle /\ defaults' = defaults /\ call.op = "create"
  BY Constants DEF CreateDenied, Heap!Deny, IInv, TypeOK
<1>2. Indices' = Indices /\ file_count \notin Indices /\ Indices \subseteq 0 .. MAX_FILES - 1
  BY <1>1 DEF Indices
<1>3. /\ file_system' = [file_system EXCEPT ![file_count].data = NULL]
      /\ file_system \in [0 .. MAX_FILES - 1 -> [name : Seq(STRING), length : Nat, data : Nat]]
  BY <1>1 DEF CreateDenied, IInv, TypeOK
<1>4. /\ file_system' \in [0 .. MAX_FILES - 1 -> [name : Seq(STRING), length : Nat, data : Nat]]
      /\ \A i \in Indices : file_system'[i] = file_system[i]
  BY <1>1, <1>2, <1>3 DEF NULL
<1>5. /\ call' \in [op : {"idle", "create", "write", "replace"}, node : Nat,
                    text : Texts \cup {<<>>}, data : Nat]
      /\ call'.op = "idle"
  BY <1>1 DEF Idle, NULL
<1>6. TypeOK'
  BY <1>1, <1>4, <1>5 DEF TypeOK, IInv
<1>7. DataHeld'
  <2>1. DOMAIN granted = {file_system[i].data : i \in Indices}
        /\ \A i, j \in Indices : file_system[i].data = file_system[j].data => i = j
    BY <1>1 DEF IInv, DataHeld
  <2>2. DOMAIN granted' = {file_system'[i].data : i \in Indices'}
    BY <1>1, <1>2, <1>4, <2>1
  <2>3. \A i, j \in Indices' : file_system'[i].data = file_system'[j].data => i = j
    BY <1>2, <1>4, <2>1
  <2> QED BY <1>5, <2>2, <2>3 DEF DataHeld
<1>8. TextsFit'
  BY <1>1, <1>2, <1>4 DEF TextsFit, IInv
<1>9. CallInProgress'
  BY <1>5 DEF CallInProgress
<1> QED BY <1>6, <1>7, <1>8, <1>9 DEF IInv

-----------------------------------------------------------------------------
\* vfs_find_file finds a file of that name, the first one.
LEMMA Found ==
  ASSUME NEW name, TypeOK, Matches(name) # {}
  PROVE  /\ vfs_find_file(name) \in Matches(name)
         /\ \A j \in Matches(name) : vfs_find_file(name) <= j
<1> DEFINE M == Matches(name)
<1>1. M \subseteq Nat /\ M # {}
  BY DEF Matches, Indices, TypeOK
<1>2. PICK i \in M : \A j \in M : ~(<<j, i>> \in OpToRel(<, Nat))
  BY <1>1, NatLessThanWellFounded, WFMin
<1>3. \A j \in M : i <= j
  <2> SUFFICES ASSUME NEW j \in M, ~(i <= j) PROVE FALSE
    OBVIOUS
  <2>1. i \in Nat /\ j \in Nat
    BY <1>1
  <2>2. j < i
    BY <2>1
  <2>3. <<j, i>> \in Nat \X Nat /\ <<j, i>>[1] < <<j, i>>[2]
    BY <2>1, <2>2
  <2>4. <<j, i>> \in OpToRel(<, Nat)
    BY <2>3 DEF OpToRel
  <2> QED BY <1>2, <2>4
<1> QED BY <1>3 DEF vfs_find_file

LEMMA WriteStep ==
  ASSUME IInv, NEW name \in Names, NEW text \in Texts, vfs_write_file_cmd(name, text)
  PROVE  IInv'
<1> DEFINE i == vfs_find_file(name)
<1>1. i \in Indices /\ Indices \subseteq Nat
  <2>1. TypeOK /\ Matches(name) # {}
    BY DEF vfs_write_file_cmd, IInv
  <2>2. i \in Matches(name)
    BY <2>1, Found
  <2> QED BY <2>1, <2>2 DEF Matches, TypeOK, Indices
<1> HIDE DEF i
<1>2. /\ call.op = "idle" /\ call' = [op |-> "write", node |-> i, text |-> text, data |-> NULL]
      /\ request' = Len(text) + 1
      /\ UNCHANGED <<file_system, file_count, mem, defaults, granted>>
  BY DEF vfs_write_file_cmd, Heap!Request, Idle, files, i
<1>3. /\ call' \in [op : {"idle", "create", "write", "replace"}, node : Nat,
                    text : Texts \cup {<<>>}, data : Nat]
      /\ call'.op = "write" /\ call'.node = i /\ call'.text = text
  BY <1>1, <1>2 DEF NULL
<1>4. Indices' = Indices
  BY <1>2 DEF Indices
<1>5. TypeOK'
  BY <1>1, <1>2, <1>3, <1>4 DEF TypeOK, IInv
<1>6. DataHeld'
  BY <1>2, <1>3, <1>4 DEF DataHeld, IInv
<1>7. TextsFit' /\ CallInProgress'
  BY <1>2, <1>3, <1>4 DEF TextsFit, CallInProgress, IInv
<1> QED BY <1>5, <1>6, <1>7 DEF IInv

LEMMA WriteDeniedStep ==
  ASSUME IInv, WriteDenied
  PROVE  IInv'
<1>1. /\ call.op = "write" /\ call' = Idle /\ request' = 0
      /\ UNCHANGED <<file_system, file_count, mem, defaults, granted>>
  BY DEF WriteDenied, Heap!Deny, files
<1>2. /\ call' \in [op : {"idle", "create", "write", "replace"}, node : Nat,
                    text : Texts \cup {<<>>}, data : Nat]
      /\ call'.op = "idle"
  BY <1>1 DEF Idle, NULL
<1>3. Indices' = Indices
  BY <1>1 DEF Indices
<1>4. TypeOK'
  BY <1>1, <1>2, <1>3 DEF TypeOK, IInv
<1>5. DataHeld'
  BY <1>1, <1>2, <1>3 DEF DataHeld, IInv
<1>6. TextsFit' /\ CallInProgress'
  BY <1>1, <1>2, <1>3 DEF TextsFit, CallInProgress, IInv
<1> QED BY <1>4, <1>5, <1>6 DEF IInv

LEMMA WriteGrantedStep ==
  ASSUME IInv, NEW p \in 1 .. HeapHi, NEW s \in 1 .. HeapHi, WriteGranted(p, s)
  PROVE  IInv'
<1>1. /\ call.op = "write" /\ call.node \in Indices /\ call.text \in Texts
      /\ request = Len(call.text) + 1 /\ Len(call.text) \in Nat
  BY Constants DEF WriteGranted, IInv, TypeOK
<1>2. /\ p \in Nat \ {0} /\ p \notin DOMAIN granted
      /\ s \in Nat /\ s >= request /\ request' = 0
      /\ DOMAIN granted' = DOMAIN granted \cup {p}
      /\ granted' \in [DOMAIN granted' -> Nat]
      /\ granted'[p] = s
      /\ \A q \in DOMAIN granted : granted'[q] = granted[q]
  BY Granting DEF WriteGranted, IInv
<1>3. /\ UNCHANGED <<file_system, file_count, defaults>>
      /\ call' = [call EXCEPT !.op = "replace", !.data = p]
      /\ Indices' = Indices
  BY DEF WriteGranted, files, Indices
<1>4. /\ mem \in [DOMAIN granted -> Texts]
      /\ mem' = [q \in DOMAIN mem \cup {p} |-> IF q = p THEN call.text ELSE mem[q]]
  BY DEF WriteGranted, IInv, TypeOK, Copied
<1>5. /\ mem' \in [DOMAIN granted' -> Texts] /\ mem'[p] = call.text
      /\ \A q \in DOMAIN granted : mem'[q] = mem[q]
  BY <1>1, <1>2, <1>4
<1>6. /\ call' \in [op : {"idle", "create", "write", "replace"}, node : Nat,
                    text : Texts \cup {<<>>}, data : Nat]
      /\ call'.op = "replace" /\ call'.node = call.node /\ call'.text = call.text
      /\ call'.data = p
  <2>1. call \in [op : {"idle", "create", "write", "replace"}, node : Nat,
                  text : Texts \cup {<<>>}, data : Nat]
    BY DEF IInv, TypeOK
  <2> QED BY <1>2, <1>3, <2>1
<1>7. TypeOK'
  <2>1. DOMAIN granted' \subseteq Nat \ {0}
    BY <1>2 DEF IInv, TypeOK
  <2> QED BY <1>1, <1>2, <1>3, <1>5, <1>6, <2>1 DEF TypeOK, IInv
<1>8. DOMAIN granted = {file_system[i].data : i \in Indices}
      /\ \A i, j \in Indices : file_system[i].data = file_system[j].data => i = j
  BY <1>1 DEF IInv, DataHeld
<1>9. DataHeld'
  <2>1. \A i \in Indices : file_system[i].data # p
    BY <1>2, <1>8
  <2>2. DOMAIN granted' = {file_system'[i].data : i \in Indices'} \cup {p}
    BY <1>2, <1>3, <1>8
  <2>3. \A i, j \in Indices' : file_system'[i].data = file_system'[j].data => i = j
    BY <1>3, <1>8
  <2> QED BY <1>3, <1>6, <2>1, <2>2, <2>3 DEF DataHeld
<1>10. TextsFit'
  <2>1. ASSUME NEW i \in Indices
        PROVE  /\ file_system[i].length = Len(mem'[file_system[i].data])
               /\ granted'[file_system[i].data] >= file_system[i].length + 1
    <3>1. file_system[i].data \in DOMAIN granted
      BY <1>8
    <3> QED BY <1>2, <1>5, <3>1 DEF IInv, TextsFit
  <2> QED BY <1>3, <2>1 DEF TextsFit
<1>11. CallInProgress'
  BY <1>1, <1>2, <1>5, <1>6 DEF CallInProgress
<1> QED BY <1>7, <1>9, <1>10, <1>11 DEF IInv

\* The old block of the file is its own, so freeing it touches no other file.
LEMMA ReplaceStep ==
  ASSUME IInv, Replace
  PROVE  IInv'
<1> DEFINE n == call.node
           old == file_system[n].data
           new == call.data
<1>1. /\ call.op = "replace" /\ n \in Indices /\ Indices \subseteq 0 .. MAX_FILES - 1
      /\ call.text \in Texts /\ Len(call.text) \in Nat /\ request = 0
      /\ new \in DOMAIN granted /\ mem[new] = call.text
      /\ granted[new] >= Len(call.text) + 1
      /\ granted \in [DOMAIN granted -> Nat] /\ DOMAIN granted \subseteq Nat \ {0}
      /\ mem \in [DOMAIN granted -> Texts]
  BY Constants DEF Replace, IInv, TypeOK, CallInProgress, Indices
<1>2. /\ DOMAIN granted = {file_system[i].data : i \in Indices} \cup {new}
      /\ \A i, j \in Indices : file_system[i].data = file_system[j].data => i = j
      /\ \A i \in Indices : file_system[i].data # new
  BY <1>1 DEF IInv, DataHeld
<1>3. old \in DOMAIN granted /\ old # NULL
  BY <1>1, <1>2 DEF NULL
<1>4. /\ granted' = [q \in DOMAIN granted \ {old} |-> granted[q]] /\ request' = request
      /\ UNCHANGED <<file_count, defaults>> /\ call' = Idle
      /\ mem' = [q \in DOMAIN granted' |-> mem[q]]
      /\ file_system' = [file_system EXCEPT ![n].data = new,
                                            ![n].length = Len(call.text)]
      /\ file_system \in [0 .. MAX_FILES - 1 -> [name : Seq(STRING), length : Nat, data : Nat]]
  BY <1>3 DEF Replace, Heap!Release, IInv, TypeOK
<1>5. Indices' = Indices
  BY <1>4 DEF Indices
<1>6. /\ DOMAIN granted' = DOMAIN granted \ {old}
      /\ granted' \in [DOMAIN granted' -> Nat] /\ mem' \in [DOMAIN granted' -> Texts]
      /\ \A q \in DOMAIN granted' : granted'[q] = granted[q] /\ mem'[q] = mem[q]
  BY <1>1, <1>4
<1>7. /\ file_system' \in [0 .. MAX_FILES - 1 -> [name : Seq(STRING), length : Nat, data : Nat]]
      /\ file_system'[n].data = new /\ file_system'[n].length = Len(call.text)
      /\ \A i \in Indices : i # n => file_system'[i] = file_system[i]
      /\ \A i \in Indices : file_system'[i].name = file_system[i].name
  <2> DEFINE node == [file_system[n] EXCEPT !.data = new, !.length = Len(call.text)]
  <2>1. /\ node \in [name : Seq(STRING), length : Nat, data : Nat]
        /\ node.data = new /\ node.length = Len(call.text)
        /\ node.name = file_system[n].name
    BY <1>1, <1>4
  <2>2. file_system' = [file_system EXCEPT ![n] = node]
    BY <1>1, <1>4
  <2> HIDE DEF node
  <2> QED BY <1>1, <1>4, <2>1, <2>2
<1> HIDE DEF n, old, new
<1>8. /\ call' \in [op : {"idle", "create", "write", "replace"}, node : Nat,
                    text : Texts \cup {<<>>}, data : Nat]
      /\ call'.op = "idle"
  BY <1>4 DEF Idle, NULL
<1>9. TypeOK'
  BY <1>1, <1>4, <1>6, <1>7, <1>8 DEF TypeOK, IInv
<1>10. \A i \in Indices : i # n =>
         file_system[i].data \in DOMAIN granted' /\ file_system[i].data # new
  BY <1>1, <1>2, <1>6 DEF old
<1>11. DataHeld'
  <2>1. new \in DOMAIN granted'
    BY <1>1, <1>2, <1>6 DEF old, n
  <2>2. DOMAIN granted' = {file_system'[i].data : i \in Indices'}
    <3>1. \A i \in Indices' : file_system'[i].data \in DOMAIN granted'
      BY <1>5, <1>7, <1>10, <2>1
    <3>2. ASSUME NEW q \in DOMAIN granted' PROVE \E i \in Indices' : file_system'[i].data = q
      <4>1. CASE q = new
        BY <1>1, <1>5, <1>7, <4>1
      <4>2. CASE q # new
        <5>1. PICK i \in Indices : file_system[i].data = q
          BY <1>2, <1>6, <4>2
        <5>2. i # n
          BY <1>6, <5>1 DEF old
        <5> QED BY <1>5, <1>7, <5>1, <5>2
      <4> QED BY <4>1, <4>2
    <3> QED BY <3>1, <3>2
  <2>3. \A i, j \in Indices' : file_system'[i].data = file_system'[j].data => i = j
    BY <1>2, <1>5, <1>7, <1>10
  <2> QED BY <1>8, <2>2, <2>3 DEF DataHeld
<1>12. TextsFit'
  <2>1. ASSUME NEW i \in Indices
        PROVE  /\ file_system'[i].length = Len(mem'[file_system'[i].data])
               /\ granted'[file_system'[i].data] >= file_system'[i].length + 1
    <3>1. CASE i = n
      <4>1. new \in DOMAIN granted'
        BY <1>1, <1>2, <1>6 DEF old, n
      <4> QED BY <1>1, <1>6, <1>7, <3>1, <4>1
    <3>2. CASE i # n
      BY <1>6, <1>7, <1>10, <3>2 DEF IInv, TextsFit
    <3> QED BY <3>1, <3>2
  <2> QED BY <1>5, <2>1 DEF TextsFit
<1>13. CallInProgress'
  BY <1>8 DEF CallInProgress
<1> QED BY <1>9, <1>11, <1>12, <1>13 DEF IInv

LEMMA Defaulted ==
  ASSUME TypeOK, CreateDefault
  PROVE  /\ defaults' \in Seq(Names \X Texts)
         /\ \E name \in Names, text \in Texts : vfs_create_file_raw(name, text)
<1>1. defaults \in Seq(Names \X Texts) /\ defaults # <<>>
  BY DEF TypeOK, CreateDefault
<1>2. Head(defaults) \in Names \X Texts /\ defaults' \in Seq(Names \X Texts)
  BY <1>1 DEF CreateDefault
<1> QED BY <1>2 DEF CreateDefault

\* Every step is one of these.
LEMMA Steps ==
  ASSUME IInv, Next
  PROVE  \/ /\ \E name \in Names, text \in Texts : vfs_create_file_raw(name, text)
            /\ defaults' \in Seq(Names \X Texts)
         \/ \E name \in Names, text \in Texts : vfs_write_file_cmd(name, text)
         \/ \E p, s \in 1 .. HeapHi : CreateGranted(p, s)
         \/ \E p, s \in 1 .. HeapHi : WriteGranted(p, s)
         \/ CreateDenied \/ WriteDenied \/ Replace
<1>1. CASE CreateDefault
  BY <1>1, Defaulted DEF IInv
<1>2. CASE \E name \in Names : vfs_create_file_cmd(name)
  <2> PICK name \in Names : vfs_create_file_cmd(name)
    BY <1>2
  <2>1. vfs_create_file_raw(name, <<>>) /\ defaults' = defaults
    BY DEF vfs_create_file_cmd
  <2>2. defaults \in Seq(Names \X Texts)
    BY DEF IInv, TypeOK
  <2>3. <<>> \in Texts
    BY VfsAssumption
  <2> QED BY <2>1, <2>2, <2>3
<1> QED BY <1>1, <1>2 DEF Next

LEMMA InvNext == IInv /\ [Next]_vars => IInv'
<1> SUFFICES ASSUME IInv, [Next]_vars PROVE IInv'
  OBVIOUS
<1>1. CASE UNCHANGED vars
  <2>1. UNCHANGED <<file_system, file_count, mem, call, defaults, granted, request>>
    BY <1>1 DEF vars, files, heap
  <2>2. Indices' = Indices
    BY <2>1 DEF Indices
  <2> QED BY <2>1, <2>2 DEF IInv, TypeOK, DataHeld, TextsFit, CallInProgress
<1>2. CASE Next
  BY <1>2, Steps, CreateStep, CreateGrantedStep, CreateDeniedStep, WriteStep,
     WriteGrantedStep, WriteDeniedStep, ReplaceStep
<1> QED BY <1>1, <1>2

\* The inductive invariant holds in every state.
THEOREM Invariance == Spec => []IInv
BY InvInit, InvNext, PTL DEF Spec

\* The table and the call in progress are well formed.
THEOREM TypeCorrect == Spec => []TypeOK
<1>1. IInv => TypeOK
  BY DEF IInv
<1> QED BY <1>1, Invariance, PTL

\* No path leaks a block of the heap, shares one or leaves a file without one
\* (vfs.c:47-54 and 146-160).
THEOREM HoldsItsBlocks == Spec => []DataHeld
<1>1. IInv => DataHeld
  BY DEF IInv
<1> QED BY <1>1, Invariance, PTL

\* Every text fits its block and its length is kept with it.
THEOREM KeepsLengths == Spec => []TextsFit
<1>1. IInv => TextsFit
  BY DEF IInv
<1> QED BY <1>1, Invariance, PTL

\* The file system takes from the heap only what kmalloc may give, asks for no
\* block while one is awaited, and frees only blocks it holds and each once: it
\* is one of the callers that Heap serves (vfs.c:47 and 146-156).
THEOREM UsesHeap == Spec => Heap!Spec
<1>1. Init => Heap!Init
  BY DEF Init
<1>2. IInv /\ [Next]_vars => [Heap!Next]_(Heap!vars)
  <2> SUFFICES ASSUME IInv, [Next]_vars PROVE Heap!Next \/ UNCHANGED heap
    BY DEF heap, Heap!vars
  <2>1. CASE UNCHANGED vars
    BY <2>1 DEF vars, heap
  <2>2. ASSUME NEW text \in Texts, Heap!Request(Len(text) + 1) PROVE Heap!Next
    BY <2>2 DEF Heap!Next
  <2>3. CASE \E name \in Names, text \in Texts : vfs_create_file_raw(name, text)
    BY <2>2, <2>3 DEF vfs_create_file_raw
  <2>4. CASE \E name \in Names, text \in Texts : vfs_write_file_cmd(name, text)
    BY <2>2, <2>4 DEF vfs_write_file_cmd
  <2>5. CASE \E p, s \in 1 .. HeapHi : CreateGranted(p, s) \/ WriteGranted(p, s)
    BY <2>5 DEF CreateGranted, WriteGranted, Heap!Next
  <2>6. CASE CreateDenied \/ WriteDenied
    BY <2>6 DEF CreateDenied, WriteDenied, Heap!Next
  <2>7. CASE Replace
    <3>1. call.node \in Indices
      BY <2>7 DEF Replace, IInv, TypeOK
    <3>2. file_system[call.node].data \in DOMAIN granted
      BY <3>1 DEF IInv, DataHeld
    <3>3. CASE file_system[call.node].data # NULL
      BY <2>7, <3>2, <3>3 DEF Replace, Heap!Next
    <3>4. CASE file_system[call.node].data = NULL
      BY <2>7, <3>4 DEF Replace
    <3> QED BY <3>3, <3>4
  <2> QED BY <2>1, <2>3, <2>4, <2>5, <2>6, <2>7, Steps
<1> QED BY <1>1, <1>2, Invariance, PTL DEF Spec, Heap!Spec

-----------------------------------------------------------------------------
(* The names of files.                                                     *)

Kept == {CutName(n) : n \in Names}

\* The files that no file before them hides.
First ==
  {i \in Indices :
     \A j \in Indices : file_system[j].name = file_system[i].name => i <= j}

\* Names are cut to fit, and two are the same only if they fill a node; so is that
\* of a file to be.  A write is at the first file of its name.
Distinct ==
  /\ NamesDistinct
  /\ \A i \in Indices : file_system[i].name \in Kept
  /\ call.op = "create" =>
       /\ file_system[file_count].name \in Kept
       /\ \A i \in Indices :
            file_system[i].name = file_system[file_count].name =>
              Len(file_system[file_count].name) = MAX_FILENAME_LEN - 1
  /\ call.op \in {"write", "replace"} => call.node \in First

\* What string_copy keeps of a name is the name cut to fit; it is the name itself,
\* or it fills a node.
LEMMA StoredName ==
  ASSUME NEW n \in Names
  PROVE  /\ Stored(n) = CutName(n)
         /\ Stored(n) = n \/ Len(Stored(n)) = MAX_FILENAME_LEN - 1
<1>1. n \in Seq(STRING) /\ Len(n) \in Nat /\ MAX_FILENAME_LEN \in Nat \ {0}
  BY Constants
<1>2. SubSeq(n, 1, Len(n)) = n
  BY <1>1, SubSeqFull
<1>3. CASE Len(n) < MAX_FILENAME_LEN - 1
  BY <1>1, <1>2, <1>3 DEF Stored, CutName
<1>4. CASE Len(n) = MAX_FILENAME_LEN - 1
  BY <1>1, <1>2, <1>4 DEF Stored, CutName
<1>5. CASE Len(n) > MAX_FILENAME_LEN - 1
  <2>1. Stored(n) = SubSeq(n, 1, MAX_FILENAME_LEN - 1) /\ CutName(n) = Stored(n)
    BY <1>1, <1>5 DEF Stored, CutName
  <2>2. \A i \in 1 .. MAX_FILENAME_LEN - 1 : n[i] \in STRING
    BY <1>1, <1>5
  <2>3. Len(SubSeq(n, 1, MAX_FILENAME_LEN - 1))
          = IF 1 <= MAX_FILENAME_LEN - 1 THEN MAX_FILENAME_LEN - 1 - 1 + 1 ELSE 0
    BY <1>1, <2>2, SubSeqProperties
  <2> QED BY <1>1, <2>1, <2>3
<1> QED BY <1>1, <1>3, <1>4, <1>5

\* A step that leaves the files' names alone leaves the same files unhidden.
LEMMA SameFirst ==
  ASSUME UNCHANGED file_count, \A i \in Indices : file_system'[i].name = file_system[i].name
  PROVE  First' = First
BY DEF First, Indices

LEMMA SameNames ==
  ASSUME Distinct, call'.op # "create", UNCHANGED file_count,
         call'.op \in {"write", "replace"} =>
           call'.node = call.node /\ call.op \in {"write", "replace"},
         \A i \in Indices : file_system'[i].name = file_system[i].name
  PROVE  Distinct'
<1>1. Indices' = Indices
  BY DEF Indices
<1>2. NamesDistinct' /\ \A i \in Indices' : file_system'[i].name \in Kept
  BY <1>1 DEF Distinct, NamesDistinct
<1>3. call'.op \in {"write", "replace"} => call'.node \in First'
  BY SameFirst DEF Distinct
<1> QED BY <1>2, <1>3 DEF Distinct

LEMMA DistinctNext == IInv /\ Distinct /\ [Next]_vars => Distinct'
<1> SUFFICES ASSUME IInv, Distinct, [Next]_vars PROVE Distinct'
  OBVIOUS
<1>1. CASE UNCHANGED vars
  BY <1>1 DEF vars, files, Distinct, NamesDistinct, Indices, First
<1>2. ASSUME NEW name \in Names, NEW text \in Texts, vfs_create_file_raw(name, text)
      PROVE  Distinct'
  <2>1. /\ file_count \in 0 .. MAX_FILES - 1 /\ file_count' = file_count /\ MAX_FILES \in Nat
        /\ file_system \in [0 .. MAX_FILES - 1 -> [name : Seq(STRING), length : Nat, data : Nat]]
        /\ Stored(name) \in Kept
    BY <1>2, Constants, StoredName DEF vfs_create_file_raw, IInv, TypeOK, Kept
  <2>2. Indices' = Indices /\ file_count \notin Indices /\ Indices \subseteq 0 .. MAX_FILES - 1
    BY <2>1 DEF Indices
  <2>3. /\ file_system'[file_count].name = Stored(name)
        /\ \A i \in Indices : file_system'[i] = file_system[i]
    <3>1. file_system' = [file_system EXCEPT ![file_count] =
            [file_system[file_count] EXCEPT !.name = Stored(name), !.length = Len(text)]]
      BY <1>2, <2>1 DEF vfs_create_file_raw
    <3>2. [file_system[file_count] EXCEPT !.name = Stored(name), !.length = Len(text)].name
            = Stored(name)
      BY <2>1
    <3> QED BY <2>1, <2>2, <3>1, <3>2
  <2>4. \A i \in Indices :
          file_system[i].name = Stored(name) => Len(Stored(name)) = MAX_FILENAME_LEN - 1
    BY <1>2, StoredName DEF vfs_create_file_raw, Matches
  <2>5. NamesDistinct' /\ \A i \in Indices' : file_system'[i].name \in Kept
    BY <2>2, <2>3 DEF Distinct, NamesDistinct
  <2>6. /\ file_system'[file_count'].name \in Kept
        /\ \A i \in Indices' :
             file_system'[i].name = file_system'[file_count'].name =>
               Len(file_system'[file_count'].name) = MAX_FILENAME_LEN - 1
    BY <2>1, <2>2, <2>3, <2>4
  <2>7. call'.op = "create"
    BY <1>2 DEF vfs_create_file_raw, Idle
  <2> QED BY <2>5, <2>6, <2>7 DEF Distinct
<1>3. ASSUME NEW p \in 1 .. HeapHi, NEW s \in 1 .. HeapHi, CreateGranted(p, s)
      PROVE  Distinct'
  <2>1. /\ file_count \in 0 .. MAX_FILES - 1 /\ file_count' = file_count + 1
        /\ MAX_FILES \in Nat
        /\ call.op = "create" /\ call.node = file_count
        /\ file_system \in [0 .. MAX_FILES - 1 -> [name : Seq(STRING), length : Nat, data : Nat]]
    BY <1>3, Constants DEF CreateGranted, IInv, TypeOK
  <2>2. Indices' = Indices \cup {file_count} /\ Indices \subseteq 0 .. MAX_FILES - 1
    BY <2>1 DEF Indices
  <2>3. \A i \in 0 .. MAX_FILES - 1 : file_system'[i].name = file_system[i].name
    BY <1>3, <2>1 DEF CreateGranted
  <2>4. call'.op = "idle"
    BY <1>3 DEF CreateGranted, Idle
  <2>5. NamesDistinct'
    <3>1. \A i, j \in Indices : file_system[i].name = file_system[j].name =>
             i = j \/ Len(file_system[i].name) = MAX_FILENAME_LEN - 1
      BY DEF Distinct, NamesDistinct
    <3>2. \A i \in Indices : file_system[i].name = file_system[file_count].name =>
             Len(file_system[file_count].name) = MAX_FILENAME_LEN - 1
      BY <2>1 DEF Distinct
    <3>3. \A i \in Indices' : i \in 0 .. MAX_FILES - 1 /\ (i \in Indices \/ i = file_count)
      BY <2>1, <2>2
    <3> SUFFICES ASSUME NEW i \in Indices', NEW j \in Indices',
                        file_system'[i].name = file_system'[j].name
                 PROVE  i = j \/ Len(file_system'[i].name) = MAX_FILENAME_LEN - 1
      BY DEF NamesDistinct
    <3>4. file_system'[i].name = file_system[i].name /\ file_system'[j].name = file_system[j].name
      BY <2>3, <3>3
    <3> QED BY <3>1, <3>2, <3>3, <3>4
  <2>6. \A i \in Indices' : file_system'[i].name \in Kept
    BY <2>1, <2>2, <2>3 DEF Distinct
  <2> QED BY <2>4, <2>5, <2>6 DEF Distinct
<1>4. CASE CreateDenied
  <2>1. call'.op = "idle" /\ UNCHANGED file_count
    BY <1>4 DEF CreateDenied, Idle
  <2>2. \A i \in Indices : file_system'[i].name = file_system[i].name
    BY <1>4 DEF CreateDenied, IInv, TypeOK, Indices
  <2> QED BY <2>1, <2>2, SameNames
<1>5. ASSUME NEW name \in Names, NEW text \in Texts, vfs_write_file_cmd(name, text)
      PROVE  Distinct'
  <2>1. /\ call'.op = "write" /\ call'.node = vfs_find_file(name)
        /\ UNCHANGED <<file_count, file_system>> /\ Matches(name) # {}
    BY <1>5 DEF vfs_write_file_cmd, Idle, files
  <2>2. vfs_find_file(name) \in First
    BY <2>1, Found DEF First, Matches, IInv
  <2>3. Indices' = Indices /\ First' = First
    BY <2>1 DEF Indices, First
  <2>4. NamesDistinct' /\ \A i \in Indices' : file_system'[i].name \in Kept
    BY <2>1, <2>3 DEF Distinct, NamesDistinct
  <2> QED BY <2>1, <2>2, <2>3, <2>4 DEF Distinct
<1>6. CASE \E p, s \in 1 .. HeapHi : WriteGranted(p, s)
  <2>1. /\ call'.op = "replace" /\ call'.node = call.node /\ call.op = "write"
        /\ UNCHANGED <<file_count, file_system>>
    BY <1>6 DEF WriteGranted, files, IInv, TypeOK
  <2> QED BY <2>1, SameNames
<1>7. CASE WriteDenied
  <2>1. call'.op = "idle" /\ UNCHANGED <<file_count, file_system>>
    BY <1>7 DEF WriteDenied, Idle, files
  <2> QED BY <2>1, SameNames
<1>8. CASE Replace
  <2>1. call'.op = "idle" /\ UNCHANGED file_count
    BY <1>8 DEF Replace, Idle
  <2>2. /\ call.node \in Indices /\ Indices \subseteq 0 .. MAX_FILES - 1
        /\ file_system \in [0 .. MAX_FILES - 1 -> [name : Seq(STRING), length : Nat, data : Nat]]
    BY <1>8, Constants DEF Replace, IInv, TypeOK, Indices
  <2>3. file_system' = [file_system EXCEPT ![call.node].data = call.data,
                                            ![call.node].length = Len(call.text)]
    BY <1>8 DEF Replace
  <2>4. \A i \in Indices : file_system'[i].name = file_system[i].name
    BY <2>2, <2>3
  <2> QED BY <2>1, <2>4, SameNames
<1> QED BY <1>1, <1>2, <1>3, <1>4, <1>5, <1>6, <1>7, <1>8, Steps

LEMMA DistinctInit == Init => Distinct
<1> SUFFICES ASSUME Init PROVE Distinct
  OBVIOUS
<1>1. Indices = {} /\ call.op = "idle"
  BY DEF Init, Indices, Idle
<1> QED BY <1>1 DEF Distinct, NamesDistinct

\* Whatever names are passed, of any length, two files have the same name only if
\* it fills a node (vfs.c:36-43).
THEOREM KeepsNamesDistinct == Spec => []NamesDistinct
<1>1. Distinct => NamesDistinct
  BY DEF Distinct
<1>2. IInv /\ Distinct /\ [Next]_vars => Distinct'
  BY DistinctNext
<1> QED BY <1>1, <1>2, DistinctInit, Invariance, PTL DEF Spec

-----------------------------------------------------------------------------
(* The files as a store.                                                   *)

\* Every name has a first file.
LEMMA FirstOfName ==
  ASSUME TypeOK, NEW i \in Indices
  PROVE  /\ vfs_find_file(file_system[i].name) \in First
         /\ file_system[vfs_find_file(file_system[i].name)].name = file_system[i].name
<1>1. i \in Matches(file_system[i].name)
  BY DEF Matches
<1>2. /\ vfs_find_file(file_system[i].name) \in Matches(file_system[i].name)
      /\ \A j \in Matches(file_system[i].name) : vfs_find_file(file_system[i].name) <= j
  BY <1>1, Found
<1> QED BY <1>2 DEF Matches, First

\* The text stored under a file's name is that in the block of the first file.
LEMMA StoreOf ==
  IInv =>
    /\ TheStore = [n \in DOMAIN TheStore |-> TheStore[n]]
    /\ DOMAIN TheStore = {file_system[i].name : i \in Indices}
    /\ DOMAIN TheStore = {file_system[i].name : i \in First}
    /\ \A i \in First : TheStore[file_system[i].name] = mem[file_system[i].data]
<1> SUFFICES ASSUME IInv
             PROVE  /\ DOMAIN TheStore = {file_system[i].name : i \in First}
                    /\ \A i \in First : TheStore[file_system[i].name] = mem[file_system[i].data]
  BY DEF TheStore
<1>1. First \subseteq Indices /\ Indices \subseteq Nat
  BY DEF First, Indices, IInv, TypeOK
<1>2. ASSUME NEW i \in First PROVE vfs_find_file(file_system[i].name) = i
  <2> DEFINE f == vfs_find_file(file_system[i].name)
  <2>1. f \in First /\ file_system[f].name = file_system[i].name
    BY <1>1, <1>2, FirstOfName DEF IInv
  <2>2. f <= i /\ i <= f /\ f \in Nat /\ i \in Nat
    BY <1>1, <1>2, <2>1 DEF First
  <2> HIDE DEF f
  <2>3. f = i
    BY <2>2
  <2> QED BY <2>3 DEF f
<1>3. {file_system[i].name : i \in Indices} = {file_system[i].name : i \in First}
  BY <1>1, FirstOfName DEF IInv
<1> QED BY <1>1, <1>2, <1>3 DEF TheStore

LEMMA StoreOfNext ==
  IInv' =>
    (/\ TheStore = [n \in DOMAIN TheStore |-> TheStore[n]]
     /\ DOMAIN TheStore = {file_system[i].name : i \in Indices}
     /\ DOMAIN TheStore = {file_system[i].name : i \in First}
     /\ \A i \in First : TheStore[file_system[i].name] = mem[file_system[i].data])'
BY StoreOf, PTL

\* A step that leaves the unhidden files alone changes nothing that can be read.
LEMMA SameStore ==
  ASSUME IInv, IInv', First' = First,
         \A i \in First : /\ file_system'[i].name = file_system[i].name
                          /\ mem'[file_system'[i].data] = mem[file_system[i].data]
  PROVE  TheStore' = TheStore
<1> DEFINE s == TheStore
           t == TheStore'
           D == {file_system[i].name : i \in First}
<1>1. s = [n \in D |-> s[n]] /\ \A i \in First : s[file_system[i].name] = mem[file_system[i].data]
  BY StoreOf
<1>2. {file_system'[i].name : i \in First'} = D
  OBVIOUS
<1>3. t = [n \in D |-> t[n]]
      /\ \A i \in First : t[file_system'[i].name] = mem'[file_system'[i].data]
  BY <1>2, StoreOfNext
<1>4. \A i \in First : t[file_system[i].name] = s[file_system[i].name]
  BY <1>1, <1>3
<1> HIDE DEF s, t
<1>5. \A n \in D : t[n] = s[n]
  BY <1>4
<1> HIDE DEF D
<1>6. s = t
  BY <1>1, <1>3, <1>5
<1> QED BY <1>6 DEF s, t

\* There are no more names than files.
LEMMA FewNames ==
  ASSUME IInv
  PROVE  Cardinality(DOMAIN TheStore) <= file_count
<1> DEFINE f == [i \in Indices |-> file_system[i].name]
           D == {file_system[i].name : i \in Indices}
<1>1. file_count \in Nat
  BY DEF IInv, TypeOK
<1>2. IsFiniteSet(Indices) /\ Cardinality(Indices) = file_count
  <2>1. 0 \in Int /\ file_count - 1 \in Int
    BY <1>1
  <2>2. IsFiniteSet(0 .. file_count - 1)
        /\ Cardinality(0 .. file_count - 1)
             = IF 0 > file_count - 1 THEN 0 ELSE (file_count - 1) - 0 + 1
    BY <2>1, FS_Interval
  <2> QED BY <1>1, <2>2 DEF Indices
<1>3. f \in Surjection(Indices, D)
  BY DEF Surjection
<1>4. Cardinality(D) <= Cardinality(Indices)
  BY <1>2, <1>3, FS_Surjection
<1>5. DOMAIN TheStore = D
  BY StoreOf
<1> QED BY <1>2, <1>4, <1>5

\* A create that gets its block is the abstract creation, or, if the cut name is
\* taken, the file is hidden and nothing that can be read changes.
LEMMA CreateRefines ==
  ASSUME IInv, Distinct, IInv',
         NEW p \in 1 .. HeapHi, NEW s \in 1 .. HeapHi, CreateGranted(p, s)
  PROVE  (\E n \in Kept, t \in Texts : FS!Create(n, t)) \/ TheStore' = TheStore
<1> DEFINE name == file_system[file_count].name
           text == call.text
           D == {file_system[i].name : i \in Indices}
           a == TheStore
           b == TheStore'
<1>1. /\ call.op = "create" /\ call.node = file_count /\ file_count \in 0 .. MAX_FILES - 1
      /\ MAX_FILES \in Nat /\ text \in Texts
  BY Constants DEF CreateGranted, IInv, TypeOK
<1>2. /\ file_count' = file_count + 1
      /\ file_system' = [file_system EXCEPT ![file_count].data = p]
      /\ file_system \in [0 .. MAX_FILES - 1 -> [name : Seq(STRING), length : Nat, data : Nat]]
  BY <1>1 DEF CreateGranted, IInv, TypeOK
<1>3. /\ Indices' = Indices \cup {file_count} /\ file_count \notin Indices
      /\ Indices \subseteq 0 .. MAX_FILES - 1
  BY <1>1, <1>2 DEF Indices
<1>4. name \in Kept /\ First \subseteq Indices
  BY <1>1 DEF Distinct, First
<1>5. p \notin DOMAIN granted /\ mem' = Copied(p, text) /\ DOMAIN mem = DOMAIN granted
  BY Granting DEF CreateGranted, IInv, TypeOK
<1>6. /\ \A i \in Indices : file_system'[i] = file_system[i]
      /\ file_system'[file_count].name = name /\ file_system'[file_count].data = p
  BY <1>1, <1>2, <1>3
<1>7. \A i \in Indices : file_system[i].data \in DOMAIN granted
  BY <1>1 DEF IInv, DataHeld
<1>8. /\ mem'[p] = text
      /\ \A i \in Indices : mem'[file_system[i].data] = mem[file_system[i].data]
  BY <1>5, <1>7 DEF Copied
<1>9. /\ a = [n \in D |-> a[n]] /\ DOMAIN a = D /\ D = {file_system[i].name : i \in First}
      /\ \A i \in First : a[file_system[i].name] = mem[file_system[i].data]
  BY StoreOf
<1>10. CASE name \in D
  <2>1. PICK k \in Indices : file_system[k].name = name
    BY <1>10
  <2>2. \A i \in Indices : i < file_count /\ i \in Nat
    BY <1>1 DEF Indices
  <2>3. file_count \in Nat /\ ~(file_count <= k)
    BY <1>1, <2>2
  <2> HIDE DEF a, b, name, text, D
  <2>4. First' = First
    <3>1. \A i \in First : i \in First'
      BY <1>3, <1>4, <1>6, <2>2, <2>3 DEF First
    <3>2. file_count \notin First'
      BY <1>3, <1>6, <2>1, <2>3 DEF First
    <3>3. \A i \in First' : i \in First
      BY <1>3, <1>6, <3>2 DEF First
    <3> QED BY <3>1, <3>3
  <2>5. \A i \in First : /\ file_system'[i].name = file_system[i].name
                         /\ mem'[file_system'[i].data] = mem[file_system[i].data]
    BY <1>4, <1>6, <1>8
  <2> QED BY <2>4, <2>5, SameStore
<1>11. CASE name \notin D
 <2>1. First' = First \cup {file_count}
  <3>1. \A i \in Indices : file_system[i].name # name
    BY <1>11
  <3>2. \A i \in Indices : i < file_count /\ i \in Nat
    BY <1>1 DEF Indices
  <3>3. file_count \in Nat /\ file_count <= file_count
    BY <1>1
  <3> HIDE DEF a, b, name, text, D
  <3>4. \A i \in First : i \in First'
    BY <1>3, <1>4, <1>6, <3>1 DEF First
  <3>5. file_count \in First'
    BY <1>3, <1>6, <3>1, <3>3 DEF First
  <3>6. \A i \in First' : i \in First \cup {file_count}
    BY <1>3, <1>6 DEF First
  <3> QED BY <3>4, <3>5, <3>6
 <2>2. {file_system'[i].name : i \in Indices'} = D \cup {name}
  BY <1>3, <1>6
 <2>3. /\ b = [n \in D \cup {name} |-> b[n]]
       /\ \A i \in First' : b[file_system'[i].name] = mem'[file_system'[i].data]
  BY <2>2, StoreOfNext
 <2>4. b[name] = text /\ \A i \in First : b[file_system[i].name] = a[file_system[i].name]
  <3> HIDE DEF a, b, name, text
  <3>1. b[name] = mem'[p]
    BY <2>1, <1>6, <2>3
  <3> QED BY <1>4, <2>1, <1>6, <1>8, <1>9, <2>3, <3>1
 <2>5. Cardinality(DOMAIN TheStore) < MAX_FILES
  <3>1. Cardinality(DOMAIN TheStore) <= file_count
    BY FewNames
  <3>2. IsFiniteSet(DOMAIN TheStore)
    <4>1. IsFiniteSet(Indices)
      BY <1>1, FS_Interval DEF Indices
    <4>2. [i \in Indices |-> file_system[i].name] \in Surjection(Indices, D)
      BY DEF Surjection
    <4> QED BY <1>9, <4>1, <4>2, FS_Surjection
  <3>3. Cardinality(DOMAIN TheStore) \in Nat
    BY <3>2, FS_CardinalityType
  <3> HIDE DEF a, b
  <3> QED BY <1>1, <3>1, <3>3
 <2>6. b = [n \in DOMAIN a \cup {name} |-> IF n = name THEN text ELSE a[n]]
  <3> HIDE DEF a, b, name, text
  <3>1. \A n \in D : b[n] = a[n]
    BY <1>9, <2>4
  <3>2. \A n \in D \cup {name} : b[n] = IF n = name THEN text ELSE a[n]
    BY <1>11, <2>4, <3>1
  <3> HIDE DEF D
  <3> QED BY <1>9, <2>3, <3>2
 <2>7. FS!Create(name, text)
  <3>1. /\ name \notin DOMAIN TheStore /\ Cardinality(DOMAIN TheStore) < MAX_FILES
        /\ TheStore' = [m \in DOMAIN TheStore \cup {name} |->
                          IF m = name THEN text ELSE TheStore[m]]
    BY <1>9, <1>11, <2>5, <2>6
  <3>2. FS!Cardinality(DOMAIN TheStore) = Cardinality(DOMAIN TheStore)
    BY Zenon DEF FS!Cardinality, Cardinality
  <3> HIDE DEF name, text
  <3> QED BY <3>1, <3>2 DEF FS!Create
 <2> HIDE DEF name, text, a, b, D
 <2> QED BY <1>1, <1>4, <2>7
<1> HIDE DEF name, text, a, b, D
<1> QED BY <1>10, <1>11

\* A write that has its block is the abstract write.
LEMMA ReplaceRefines ==
  ASSUME IInv, Distinct, IInv', Replace
  PROVE  \E n \in Kept, t \in Texts : FS!Write(n, t)
<1> DEFINE name == file_system[call.node].name
           text == call.text
           D == {file_system[i].name : i \in Indices}
           a == TheStore
           b == TheStore'
<1>1. /\ call.op = "replace" /\ call.node \in Indices /\ text \in Texts
      /\ Indices \subseteq 0 .. MAX_FILES - 1
      /\ call.data \in DOMAIN granted /\ mem[call.data] = text
  BY Constants DEF Replace, IInv, TypeOK, CallInProgress, Indices
<1>2. /\ \A i, j \in Indices : file_system[i].data = file_system[j].data => i = j
      /\ \A i \in Indices : file_system[i].data \in DOMAIN granted
      /\ \A i \in Indices : file_system[i].data # call.data
  BY <1>1 DEF IInv, DataHeld
<1>3. file_system[call.node].data # NULL
  BY <1>1, <1>2 DEF IInv, TypeOK, NULL
<1>4. /\ DOMAIN granted' = DOMAIN granted \ {file_system[call.node].data}
      /\ file_count' = file_count
      /\ mem' = [q \in DOMAIN granted' |-> mem[q]]
      /\ file_system' = [file_system EXCEPT ![call.node].data = call.data,
                                            ![call.node].length = Len(text)]
      /\ file_system \in [0 .. MAX_FILES - 1 -> [name : Seq(STRING), length : Nat, data : Nat]]
  BY <1>3 DEF Replace, Heap!Release, IInv, TypeOK
<1>5. Indices' = Indices
  BY <1>4 DEF Indices
<1>6. /\ \A i \in Indices : file_system'[i].name = file_system[i].name
      /\ \A i \in Indices : i # call.node => file_system'[i].data = file_system[i].data
      /\ file_system'[call.node].data = call.data
  BY <1>1, <1>4
<1>7. /\ mem'[call.data] = text
      /\ \A i \in Indices : i # call.node =>
           mem'[file_system[i].data] = mem[file_system[i].data]
  BY <1>1, <1>2, <1>4
<1>8. /\ name \in D /\ name \in Kept /\ call.node \in First /\ First' = First
      /\ First \subseteq Indices
  BY <1>1, <1>4, <1>6, SameFirst DEF Distinct, First
<1>9. a = [n \in D |-> a[n]] /\ DOMAIN a = D /\ D = {file_system[i].name : i \in First}
      /\ \A i \in First : a[file_system[i].name] = mem[file_system[i].data]
  BY StoreOf
<1>10. {file_system'[i].name : i \in Indices'} = D
  BY <1>5, <1>6
<1>11. b = [n \in D |-> b[n]]
       /\ \A i \in First : b[file_system'[i].name] = mem'[file_system'[i].data]
  BY <1>8, <1>10, StoreOfNext
<1>12. \A i \in First :
         b[file_system[i].name] = IF i = call.node THEN text ELSE a[file_system[i].name]
  <2> HIDE DEF a, b, text
  <2> SUFFICES ASSUME NEW i \in First
               PROVE  b[file_system[i].name]
                        = IF i = call.node THEN text ELSE a[file_system[i].name]
    OBVIOUS
  <2>1. i \in Indices /\ b[file_system[i].name] = mem'[file_system'[i].data]
    BY <1>6, <1>8, <1>11
  <2>2. CASE i = call.node
    BY <1>6, <1>7, <2>1, <2>2
  <2>3. CASE i # call.node
    BY <1>6, <1>7, <1>9, <2>1, <2>3
  <2> QED BY <2>2, <2>3
<1>13. \A i \in First : file_system[i].name = name <=> i = call.node
  <2> SUFFICES ASSUME NEW i \in First, file_system[i].name = name PROVE i = call.node
    OBVIOUS
  <2>1. i \in Nat /\ call.node \in Nat
    BY <1>8 DEF Indices, IInv, TypeOK
  <2>2. i <= call.node /\ call.node <= i
    BY <1>8 DEF First
  <2> QED BY <2>1, <2>2
<1>14. b = [a EXCEPT ![name] = text]
  <2> HIDE DEF a, b, name, text
  <2>1. \A n \in D : b[n] = IF n = name THEN text ELSE a[n]
    BY <1>9, <1>12, <1>13
  <2> HIDE DEF D
  <2> QED BY <1>8, <1>9, <1>11, <2>1
<1>15. FS!Write(name, text)
  <2>1. name \in DOMAIN TheStore /\ TheStore' = [TheStore EXCEPT ![name] = text]
    BY <1>8, <1>9, <1>14
  <2> HIDE DEF name, text
  <2> QED BY <2>1 DEF FS!Write
<1> HIDE DEF name, text, a, b, D
<1> QED BY <1>1, <1>8, <1>15

\* Whatever names are passed, the files under the names as nodes cut them are a
\* store with atomic creations and writes: a call that finds no memory changes
\* nothing, no call touches another file, and a file created under a cut name that
\* is taken already changes none (vfs.c:33-56 and 135-165).
THEOREM ImplementsFileStore == Spec => RefinesFileStore
<1>1. Init => FS!Init
  <2> SUFFICES ASSUME Init PROVE FS!Init
    OBVIOUS
  <2>1. Indices = {}
    BY DEF Init, Indices
  <2> QED BY <2>1 DEF FS!Init, TheStore
<1>2. IInv /\ Distinct /\ IInv' /\ [Next]_vars => [FS!Next]_TheStore
  <2> SUFFICES ASSUME IInv, Distinct, IInv', [Next]_vars
               PROVE  FS!Next \/ TheStore' = TheStore
    OBVIOUS
  <2> USE DEF Kept
  <2>0. First \subseteq Indices
    BY DEF First
  <2>1. CASE UNCHANGED vars
    BY <2>1, SameFirst, SameStore DEF vars, files
  <2>2. CASE \E name \in Names, text \in Texts : vfs_create_file_raw(name, text)
    <3>1. /\ file_count \in 0 .. MAX_FILES - 1 /\ MAX_FILES \in Nat
          /\ UNCHANGED <<file_count, mem>>
          /\ file_system \in [0 .. MAX_FILES - 1 -> [name : Seq(STRING), length : Nat, data : Nat]]
      BY <2>2, Constants DEF vfs_create_file_raw, IInv, TypeOK
    <3>2. Indices \subseteq 0 .. MAX_FILES - 1 /\ file_count \notin Indices
      BY <3>1 DEF Indices
    <3>3. \A i \in Indices : file_system'[i] = file_system[i]
      BY <2>2, <3>1, <3>2 DEF vfs_create_file_raw
    <3> QED BY <2>0, <3>1, <3>3, SameFirst, SameStore
  <2>3. CASE \E p, s \in 1 .. HeapHi : CreateGranted(p, s)
    BY <2>3, CreateRefines DEF FS!Next
  <2>4. CASE CreateDenied
    <3>1. /\ call.node = file_count /\ UNCHANGED <<file_count, mem>>
          /\ file_system' = [file_system EXCEPT ![file_count].data = NULL]
          /\ file_system \in [0 .. MAX_FILES - 1 -> [name : Seq(STRING), length : Nat, data : Nat]]
          /\ file_count \in Nat /\ file_count < MAX_FILES /\ MAX_FILES \in Nat
      BY <2>4, Constants DEF CreateDenied, IInv, TypeOK
    <3>2. Indices \subseteq 0 .. MAX_FILES - 1 /\ file_count \notin Indices
      BY <3>1 DEF Indices
    <3>3. \A i \in Indices : file_system'[i] = file_system[i]
      BY <3>1, <3>2
    <3> QED BY <2>0, <3>1, <3>3, SameFirst, SameStore
  <2>5. CASE \E name \in Names, text \in Texts : vfs_write_file_cmd(name, text)
    BY <2>5, SameFirst, SameStore DEF vfs_write_file_cmd, files
  <2>6. CASE \E p, s \in 1 .. HeapHi : WriteGranted(p, s)
    <3> PICK p \in 1 .. HeapHi, s \in 1 .. HeapHi : WriteGranted(p, s)
      BY <2>6
    <3>1. /\ UNCHANGED <<file_system, file_count>> /\ mem' = Copied(p, call.text)
          /\ p \notin DOMAIN granted /\ DOMAIN mem = DOMAIN granted
      BY Granting DEF WriteGranted, files, IInv, TypeOK
    <3>2. \A i \in Indices : file_system[i].data \in DOMAIN granted
      BY DEF IInv, DataHeld
    <3>3. \A i \in Indices : mem'[file_system[i].data] = mem[file_system[i].data]
      BY <3>1, <3>2 DEF Copied
    <3> QED BY <2>0, <3>1, <3>3, SameFirst, SameStore
  <2>7. CASE WriteDenied
    BY <2>7, SameFirst, SameStore DEF WriteDenied, files
  <2>8. CASE Replace
    BY <2>8, ReplaceRefines DEF FS!Next
  <2> QED BY <2>1, <2>2, <2>3, <2>4, <2>5, <2>6, <2>7, <2>8, Steps
<1>3. IInv /\ Distinct /\ [Next]_vars => Distinct'
  BY DistinctNext
<1> QED BY <1>1, <1>2, <1>3, DistinctInit, Invariance, PTL
        DEF Spec, RefinesFileStore, FS!Spec
=============================================================================
