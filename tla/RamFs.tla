------------------------------- MODULE RamFs -------------------------------
(***************************************************************************)
(* The RAM filesystem (src/kernel/src/fs/ramfs.rs): a tree of nodes shared *)
(* by reference, and the table of open handles.  The operators below are   *)
(* the steps of its methods; WasmProcess and WasmHost make them part of    *)
(* the kernel's commands and the host functions that call them.  A method  *)
(* runs without an await and no interrupt handler touches the filesystem,  *)
(* so each is one step.                                                    *)
(*                                                                         *)
(* A path is the sequence of its non-empty components.  A node is known by *)
(* the order of its creation: node 0 is the root, and a node that is       *)
(* unlinked from its directory lives on for the handles that refer to it.  *)
(***************************************************************************)
EXTENDS Integers, Sequences, FiniteSets

CONSTANTS
  Contents,  \* what files contain: sequences of bytes
  AtBase     \* the first handle of open_at (10000)

VARIABLES
  nodes,          \* every node that was created, by number
  open_handles,   \* RamFs.open_handles: handle -> node
  next_handle,    \* NEXT_HANDLE
  next_handle_at  \* NEXT_HANDLE_AT

fsVars == <<nodes, open_handles, next_handle, next_handle_at>>

\* BTreeMap::insert: k leads to v, whatever it led to.
Put(map, k, v) == [x \in DOMAIN map \cup {k} |-> IF x = k THEN v ELSE map[x]]

Root == 0
NoNode == -1
Directory == [kind |-> "dir", entries |-> <<>>]
File(content) == [kind |-> "file", content |-> content]

FsInit ==
  /\ nodes = [n \in {Root} |-> Directory]
  /\ open_handles = <<>>
  /\ next_handle = 1
  /\ next_handle_at = AtBase

IsDir(ns, n) == n # NoNode /\ ns[n].kind = "dir"

Has(ns, n, name) == IsDir(ns, n) /\ name \in DOMAIN ns[n].entries

-----------------------------------------------------------------------------
(* Paths.                                                                   *)

\* The path leads from `base` to n: each component is an entry of the directory
\* reached before it.
Leads(ns, base, path, n) ==
  \E trail \in [0..Len(path) -> DOMAIN ns] :
    /\ trail[0] = base
    /\ trail[Len(path)] = n
    /\ \A i \in 1..Len(path) : /\ Has(ns, trail[i - 1], path[i])
                               /\ trail[i] = ns[trail[i - 1]].entries[path[i]]

\* The node a path leads to, or NoNode: resolve_path, open_at and the parent
\* lookup of mkdir_at.
Walk(ns, base, path) ==
  IF \E n \in DOMAIN ns : Leads(ns, base, path, n)
  THEN CHOOSE n \in DOMAIN ns : Leads(ns, base, path, n)
  ELSE NoNode

\* The next node that is created: the number behind the last one.
NewNode == CHOOSE n \in {k + 1 : k \in DOMAIN nodes} : n \notin DOMAIN nodes

\* `name` in directory d leads to the first of the nodes that are created, whatever
\* it led to.
Insert(d, name, created) ==
  [n \in DOMAIN nodes \cup DOMAIN created |->
     IF n \notin DOMAIN nodes THEN created[n]
     ELSE IF n = d THEN [nodes[d] EXCEPT !.entries = Put(@, name, NewNode)]
     ELSE nodes[n]]

-----------------------------------------------------------------------------
(* RamFs::add_file: gives up silently when a component is not a directory,  *)
(* and replaces whatever the last component named.                          *)

\* Where a lookup of the first k components ends.
Prefix(path, k) == Walk(nodes, Root, SubSeq(path, 1, k))

\* How many of the directories in the path there are: behind them, all are new.
Existing(path) ==
  CHOOSE k \in 0..Len(path) - 1 :
    /\ Prefix(path, k) # NoNode
    /\ \A j \in k + 1..Len(path) - 1 : Prefix(path, j) = NoNode

\* The nodes the loop creates for the components from the k-th on: directories,
\* each with the next one as its entry, and the file.
Chain(path, k, content) ==
  LET last == NewNode + Len(path) - k
  IN  [n \in NewNode..last |->
         IF n = last THEN File(content)
         ELSE [kind |-> "dir", entries |-> [name \in {path[k + 1 + n - NewNode]} |-> n + 1]]]

\* Mutant: an existing file is overwritten in place.
AddFileInPlace(path, content) ==
  LET k == Existing(path)
      at == Prefix(path, k)
      old == Walk(nodes, Root, path)
  IN  IF path = <<>> \/ ~IsDir(nodes, at) THEN nodes
      ELSE IF old # NoNode THEN [nodes EXCEPT ![old] = File(content)]
      ELSE Insert(at, path[k + 1], Chain(path, k + 1, content))

AddFile(path, content) ==
  LET k == Existing(path)
      at == Prefix(path, k)
  IN  IF path = <<>> \/ ~IsDir(nodes, at) THEN nodes
      ELSE Insert(at, path[k + 1], Chain(path, k + 1, content))

-----------------------------------------------------------------------------
(* mkdir_at: the nodes afterwards, or the nodes as they are on an error.    *)

\* The directory the last component is to be made in, from `base` on, and its name.
Parent(path) == SubSeq(path, 1, Len(path) - 1)
Name(path) == path[Len(path)]

BaseNode(base) ==
  IF base = 0 THEN Root
  ELSE IF base \in DOMAIN open_handles THEN open_handles[base] ELSE NoNode

\* Mutant: an existing entry is replaced by the new directory.
CanMakeAnyway(base, path) ==
  path # <<>> /\ IsDir(nodes, Walk(nodes, BaseNode(base), Parent(path)))

CanMake(base, path) ==
  /\ path # <<>>
  /\ LET parent == Walk(nodes, BaseNode(base), Parent(path))
     IN  IsDir(nodes, parent) /\ ~Has(nodes, parent, Name(path))

MkdirAt(base, path) ==
  Insert(Walk(nodes, BaseNode(base), Parent(path)), Name(path), [n \in {NewNode} |-> Directory])

-----------------------------------------------------------------------------
(* Handles.  open counts from 1 and open_at from AtBase, and nothing keeps  *)
(* the first from reaching the second: from then on open hands out handles  *)
(* that open_at may have given before, and replaces what they lead to.      *)

Apart == next_handle <= AtBase

\* Mutant: relative paths are resolved from the root.
OpenAtRoot(base, path) ==
  IF base \in DOMAIN open_handles THEN Walk(nodes, Root, path) ELSE NoNode

\* The node open_at finds, or NoNode for its errors.
OpenAt(base, path) ==
  IF base \in DOMAIN open_handles THEN Walk(nodes, open_handles[base], path) ELSE NoNode

\* open hands out the next absolute handle ...
OpenHandle(n) ==
  /\ open_handles' = Put(open_handles, next_handle, n)
  /\ next_handle' = next_handle + 1
  /\ UNCHANGED <<nodes, next_handle_at>>

\* Mutant: both kinds of open draw from a counter that starts at 1.
OpenAtHandleSmall(n) ==
  /\ open_handles' = Put(open_handles, next_handle_at - AtBase + 1, n)
  /\ next_handle_at' = next_handle_at + 1
  /\ UNCHANGED <<nodes, next_handle>>

\* ... and open_at the next relative one.
OpenAtHandle(n) ==
  /\ open_handles' = Put(open_handles, next_handle_at, n)
  /\ next_handle_at' = next_handle_at + 1
  /\ UNCHANGED <<nodes, next_handle>>

Close(h) ==
  /\ open_handles' = [k \in DOMAIN open_handles \ {h} |-> open_handles[k]]
  /\ UNCHANGED <<nodes, next_handle, next_handle_at>>

\* read: how many bytes of the file lie in the buffer's window.
BytesRead(n, offset, len) ==
  LET size == Len(nodes[n].content)
      end == IF offset + len < size THEN offset + len ELSE size
  IN  IF offset >= size THEN 0 ELSE end - offset

\* size: a directory has size 0.
Size(n) == IF IsDir(nodes, n) THEN 0 ELSE Len(nodes[n].content)

-----------------------------------------------------------------------------
\* The nodes that the entries of n lead to.
Children(n) == IF IsDir(nodes, n) THEN {nodes[n].entries[name] : name \in DOMAIN nodes[n].entries} ELSE {}

\* The nodes that lie in the subtree of n: those in every set of nodes that has n
\* and, with a node, its children.
Below(n) ==
  {m \in DOMAIN nodes : \A S \in SUBSET DOMAIN nodes :
     n \in S /\ (\A x \in S : Children(x) \subseteq S) => m \in S}
=============================================================================
