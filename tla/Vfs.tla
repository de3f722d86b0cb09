--------------------------------- MODULE Vfs ---------------------------------
(***************************************************************************)
(* The file system in memory, fs/vfs.c: a table of nodes, each with a copy *)
(* of its file's text in a block from kmalloc.  The heap is what Allocator *)
(* promises (Heap implements it), so a call takes one step up to kmalloc,  *)
(* one for kmalloc and what follows, and one for kfree.  Nothing else runs *)
(* between these steps; a call that finds nothing to do changes nothing    *)
(* and is no step.                                                         *)
(***************************************************************************)
EXTENDS Integers, Sequences

CONSTANTS
  MAX_FILES, MAX_FILENAME_LEN,   \* 32 and 32
  Names,      \* the names callers pass
  Texts,      \* the texts callers pass
  Defaults,   \* the files init_vfs creates, as <<name, text>>
  HeapLo, HeapHi, HeaderSize, Slack   \* the heap's arena and bookkeeping

ASSUME VfsAssumption ==
  /\ MAX_FILES \in Nat \ {0} /\ MAX_FILENAME_LEN \in Nat \ {0}
  /\ \A n \in Names : n \in Seq(STRING)
  /\ \A t \in Texts : t \in Seq(STRING)
  /\ <<>> \in Texts
  /\ Defaults \in Seq(Names \X Texts) /\ Len(Defaults) <= MAX_FILES
  /\ HeapLo \in Nat \ {0} /\ HeapHi \in Nat
  /\ HeaderSize \in Nat \ {0} /\ Slack \in Nat \ {0}

VARIABLES
  file_system,   \* i -> node
  file_count,    \* how many nodes are files
  mem,           \* address of a block in use -> the text copied to it
  call,          \* the call in progress
  defaults,      \* what init_vfs has yet to create
  granted, request   \* the heap: see Allocator

files == <<file_system, file_count>>
heap == <<granted, request>>
vars == <<files, mem, call, defaults, heap>>

NULL == 0
NoNode == [name |-> <<>>, length |-> 0, data |-> NULL]
Idle == [op |-> "idle", node |-> 0, text |-> <<>>, data |-> NULL]
Indices == 0 .. file_count - 1

Heap == INSTANCE Allocator WITH
          Lo <- HeapLo, Hi <- HeapHi, Overhead <- HeaderSize,
          Sizes <- {Len(t) + 1 : t \in Texts}

Init ==  \* init_vfs, before its default files
  /\ file_system = [i \in 0 .. MAX_FILES - 1 |-> NoNode] /\ file_count = 0
  /\ mem = [p \in {} |-> <<>>]
  /\ call = Idle /\ defaults = Defaults
  /\ Heap!Init

\* Fault: the '\0' is counted twice.
StoredShort(name) ==
  IF Len(name) < MAX_FILENAME_LEN - 1 THEN name ELSE SubSeq(name, 1, MAX_FILENAME_LEN - 2)

\* What string_copy keeps of a name.
Stored(name) ==
  IF Len(name) < MAX_FILENAME_LEN THEN name ELSE SubSeq(name, 1, MAX_FILENAME_LEN - 1)

\* The files string_equals finds under this name; vfs_find_file takes the first.
Matches(name) == {i \in Indices : file_system[i].name = name}
vfs_find_file(name) == CHOOSE i \in Matches(name) : \A j \in Matches(name) : i <= j

Copied(p, text) == [q \in DOMAIN mem \cup {p} |-> IF q = p THEN text ELSE mem[q]]

-----------------------------------------------------------------------------
(* vfs_create_file_raw: -1 when the table is full and -2 when the name is  *)
(* taken change nothing.                                                   *)

\* Fault: the names of the files are not compared.
CreateAnyName(name, text) ==
  /\ call = Idle /\ file_count < MAX_FILES
  /\ file_system' = [file_system EXCEPT ![file_count].name = Stored(name),
                                        ![file_count].length = Len(text)]
  /\ call' = [Idle EXCEPT !.op = "create", !.node = file_count, !.text = text]
  /\ Heap!Request(Len(text) + 1)
  /\ UNCHANGED <<file_count, mem>>

\* Fault: the table may be full.
CreateBeyond(name, text) ==
  /\ call = Idle /\ Matches(name) = {}
  /\ file_system' = [file_system EXCEPT ![file_count].name = Stored(name),
                                        ![file_count].length = Len(text)]
  /\ call' = [Idle EXCEPT !.op = "create", !.node = file_count, !.text = text]
  /\ Heap!Request(Len(text) + 1)
  /\ UNCHANGED <<file_count, mem>>

vfs_create_file_raw(name, text) ==
  /\ call = Idle /\ file_count < MAX_FILES /\ Matches(name) = {}
  /\ file_system' = [file_system EXCEPT ![file_count].name = Stored(name),
                                        ![file_count].length = Len(text)]
  /\ call' = [Idle EXCEPT !.op = "create", !.node = file_count, !.text = text]
  /\ Heap!Request(Len(text) + 1)
  /\ UNCHANGED <<file_count, mem>>

CreateDefault ==
  /\ defaults # <<>>
  /\ vfs_create_file_raw(Head(defaults)[1], Head(defaults)[2])
  /\ defaults' = Tail(defaults)

vfs_create_file_cmd(name) ==  \* touch
  /\ defaults = <<>>
  /\ vfs_create_file_raw(name, <<>>)
  /\ UNCHANGED defaults

CreateGranted(p, s) ==
  /\ call.op = "create"
  /\ Heap!Grant(p, s)
  /\ file_system' = [file_system EXCEPT ![call.node].data = p]
  /\ mem' = Copied(p, call.text)
  /\ file_count' = file_count + 1 /\ call' = Idle
  /\ UNCHANGED defaults

CreateDenied ==  \* -3
  /\ call.op = "create"
  /\ Heap!Deny
  /\ file_system' = [file_system EXCEPT ![call.node].data = NULL]
  /\ call' = Idle
  /\ UNCHANGED <<file_count, mem, defaults>>

-----------------------------------------------------------------------------
(* vfs_write_file_cmd: a name that is not found changes nothing.           *)

vfs_write_file_cmd(name, text) ==
  /\ call = Idle /\ defaults = <<>> /\ Matches(name) # {}
  /\ call' = [Idle EXCEPT !.op = "write", !.node = vfs_find_file(name), !.text = text]
  /\ Heap!Request(Len(text) + 1)
  /\ UNCHANGED <<files, mem, defaults>>

WriteGranted(p, s) ==
  /\ call.op = "write"
  /\ Heap!Grant(p, s)
  /\ mem' = Copied(p, call.text)
  /\ call' = [call EXCEPT !.op = "replace", !.data = p]
  /\ UNCHANGED <<files, defaults>>

WriteDenied ==
  /\ call.op = "write"
  /\ Heap!Deny
  /\ call' = Idle
  /\ UNCHANGED <<files, mem, defaults>>

\* Fault: the old block is not freed.
ReplaceLeaky ==
  /\ call.op = "replace"
  /\ file_system' = [file_system EXCEPT ![call.node].data = call.data,
                                        ![call.node].length = Len(call.text)]
  /\ call' = Idle
  /\ UNCHANGED <<file_count, mem, defaults, heap>>

Replace ==
  /\ call.op = "replace"
  /\ IF file_system[call.node].data # NULL
     THEN Heap!Release(file_system[call.node].data)
     ELSE UNCHANGED heap
  /\ file_system' = [file_system EXCEPT ![call.node].data = call.data,
                                        ![call.node].length = Len(call.text)]
  /\ mem' = [q \in DOMAIN granted' |-> mem[q]]
  /\ call' = Idle
  /\ UNCHANGED <<file_count, defaults>>

Next ==
  \/ CreateDefault \/ CreateDenied \/ WriteDenied \/ Replace
  \/ \E name \in Names : vfs_create_file_cmd(name)
  \/ \E name \in Names, text \in Texts : vfs_write_file_cmd(name, text)
  \/ \E p, s \in 1 .. HeapHi : CreateGranted(p, s) \/ WriteGranted(p, s)

Spec == Init /\ [][Next]_vars

-----------------------------------------------------------------------------
(* Properties.                                                             *)

TypeOK ==
  /\ file_count \in 0 .. MAX_FILES
  /\ file_system \in [0 .. MAX_FILES - 1 -> [name : Seq(STRING), length : Nat, data : Nat]]
  /\ mem \in [DOMAIN granted -> Texts]
  /\ granted \in [DOMAIN granted -> Nat] /\ DOMAIN granted \subseteq Nat \ {0}
  /\ defaults \in Seq(Names \X Texts)
  /\ call \in [op : {"idle", "create", "write", "replace"}, node : Nat,
               text : Texts \cup {<<>>}, data : Nat]
  /\ call.op = "create" => call.node = file_count /\ file_count < MAX_FILES
  /\ call.op \in {"write", "replace"} => call.node \in Indices
  /\ call.op # "idle" => call.text \in Texts
  /\ request = IF call.op \in {"create", "write"} THEN Len(call.text) + 1 ELSE 0

\* The blocks of the heap that the file system holds are the blocks of its
\* files, one for each file and none shared, and the one a write has in hand:
\* no path through a failed create or a write leaks a block or leaves a file
\* without one (vfs.c:47-54 and 146-160).
DataHeld ==
  /\ DOMAIN granted = {file_system[i].data : i \in Indices}
                      \cup IF call.op = "replace" THEN {call.data} ELSE {}
  /\ \A i, j \in Indices : file_system[i].data = file_system[j].data => i = j
  /\ call.op = "replace" => \A i \in Indices : file_system[i].data # call.data

\* A file's length is that of its text, which its block has room for with the
\* '\0' (vfs.c:45-52 and 144-160).
TextsFit ==
  \A i \in Indices :
    LET node == file_system[i]
    IN  node.length = Len(mem[node.data]) /\ granted[node.data] >= node.length + 1

\* What the call in progress has done so far.
CallInProgress ==
  /\ call.op = "create" => file_system[file_count].length = Len(call.text)
  /\ call.op = "replace" =>
       /\ call.data \in DOMAIN granted /\ mem[call.data] = call.text
       /\ granted[call.data] >= Len(call.text) + 1

\* The inductive invariant of the proofs.
IInv == TypeOK /\ DataHeld /\ TextsFit /\ CallInProgress

\* Two files have the same name only if it fills a node: a name is compared whole
\* and stored cut (vfs.c:37 and 43), so a name too long for a node is never found
\* to exist, and shares its cut form with any other.  A name that fits is refused
\* the second time, as the message of vfs.c:124 has it.
NamesDistinct ==
  \A i, j \in Indices :
    file_system[i].name = file_system[j].name =>
      i = j \/ Len(file_system[i].name) = MAX_FILENAME_LEN - 1

\* The name a node can show for a name: its first characters, one less than the
\* node's field has.
CutName(name) ==
  SubSeq(name, 1, IF Len(name) < MAX_FILENAME_LEN - 1 THEN Len(name) ELSE MAX_FILENAME_LEN - 1)

\* What can be read: the first file of a name hides those behind it.
TheStore ==
  [n \in {file_system[i].name : i \in Indices} |->
     mem[file_system[vfs_find_file(n)].data]]

\* The files hold what was last written to them; a write that finds no memory
\* leaves the old text, and no other file is touched.  A file created under a cut
\* name that is taken already never shows, and changes no file that does.
FS == INSTANCE FileStore WITH
        MaxFiles <- MAX_FILES, Names <- {CutName(n) : n \in Names},
        store <- TheStore

RefinesFileStore == FS!Spec
=============================================================================
