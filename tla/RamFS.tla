-------------------------------- MODULE RamFS --------------------------------
(***************************************************************************)
(* The node graph of coresys/ramfs.c behind coresys/vfs.c: directories are *)
(* singly linked lists of children that start with the links "." and "..". *)
(* Callers create directories and files and delete nodes by path, from a   *)
(* heap that may run out between two allocations of one operation.         *)
(*                                                                         *)
(* kfree of the kernel heap is a stub that keeps the block as it is, so a  *)
(* node that was freed can still be followed; `freed' records it.          *)
(***************************************************************************)
EXTENDS Pointers, Integers, Sequences, SequencesExt, FiniteSets

CONSTANTS
  Names,       \* file names the callers use, besides "." and ".."
  HEAP_NODES,  \* nodes the heap has room for
  MAX_PATH     \* longest path a caller gives, in names

ASSUME RamFSAssumption ==
  /\ {".", "..", ""} \cap Names = {}
  /\ HEAP_NODES \in Nat /\ HEAP_NODES >= 2
  /\ MAX_PATH \in Nat

ROOT == 0
Nodes == 0 .. HEAP_NODES
AnyNames == Names \cup {".", ".."}
Paths == UNION {[1 .. k -> AnyNames] : k \in 0 .. MAX_PATH}

VARIABLES
  nd,     \* the nodes: type, name, next, children, node_ptr
  used,   \* nodes 1 .. used have been allocated
  freed,  \* nodes given to kfree
  fault   \* a NULL pointer was dereferenced: nothing further is said

nodeVars == <<nd, used, freed, fault>>

Types == {"UNUSED", "DIRECTORY", "REGULAR", "SYMLINK"}
Refs == Nodes \cup {NULL}

NodeType == [type : Types, name : AnyNames \cup {""}, next : Refs, children : Refs, node_ptr : Refs]

NodesTypeOK ==
  /\ nd \in [Nodes -> NodeType]
  /\ used \in 0 .. HEAP_NODES
  /\ freed \subseteq 1 .. used
  /\ fault \in BOOLEAN

-----------------------------------------------------------------------------
(* Walking the graph. *)

\* The nodes of the list that starts at node n.
ListFrom[n \in Refs] == IF n = NULL THEN {} ELSE {n} \cup ListFrom[nd[n].next]

Children(d) == ListFrom[nd[d].children]

\* vfs_nodeFromSimlink
NodeFromSimlink[n \in Nodes] ==
  IF nd[n].type = "SYMLINK" THEN NodeFromSimlink[nd[n].node_ptr] ELSE n

\* fs_find, with ramfs_find: the first child of the name, which the others come
\* after; only directories have a find function.
FsFind(dir, name) ==
  LET d == NodeFromSimlink[dir]
      hits == {m \in Children(d) : nd[m].name = name}
  IN  IF nd[d].type = "DIRECTORY" /\ hits # {}
      THEN CHOOSE m \in hits : hits \subseteq ListFrom[m]
      ELSE NULL

\* fs_get_node of an absolute path, name by name: the last one is not followed
\* if a link.
FsGetNode(path) ==
  LET walk[k \in 0 .. Len(path)] ==
        IF k = 0 THEN ROOT
        ELSE LET dir == walk[k - 1] IN IF dir = NULL THEN NULL ELSE FsFind(dir, path[k])
  IN  walk[Len(path)]

\* ramfs_readdir: the entry that index others come before, NULL past the last.
ReadDir(d, index) ==
  LET at == {m \in Children(d) : Cardinality(Children(d) \ ListFrom[m]) = index}
  IN  IF at = {} THEN NULL ELSE CHOOSE m \in at : TRUE

\* fs_checkFileName
CheckFileName(name) == name \notin {".", ".."}

\* The nodes that hang below and after n, n included.
Hanging[n \in Refs] ==
  IF n = NULL THEN {} ELSE {n} \cup Hanging[nd[n].children] \cup Hanging[nd[n].next]

Reachable == {ROOT} \cup Hanging[nd[ROOT].children]
Directories == {d \in Reachable : nd[d].type = "DIRECTORY"}

-----------------------------------------------------------------------------
(* Creating nodes. *)

Unused == [type |-> "UNUSED", name |-> "", next |-> NULL, children |-> NULL, node_ptr |-> NULL]

Directory(name, first) ==
  [type |-> "DIRECTORY", name |-> name, next |-> NULL, children |-> first, node_ptr |-> NULL]

Regular(name) ==
  [type |-> "REGULAR", name |-> name, next |-> NULL, children |-> NULL, node_ptr |-> NULL]

\* fs_get_simlink, and what the link is followed by.
Simlink(name, to, next) ==
  [type |-> "SYMLINK", name |-> name, next |-> next, children |-> NULL, node_ptr |-> to]

\* Fault: both links of a directory made to the directory itself.
NewDirectorySelf(name, parent, new) ==
  <<Directory(name, new + 1), Simlink(".", new, new + 2), Simlink("..", new, NULL)>>

\* A directory and its two links, in the order they are allocated.
NewDirectory(name, parent, new) ==
  <<Directory(name, new + 1), Simlink(".", new, new + 2), Simlink("..", parent, NULL)>>

NewFile(name) == <<Regular(name)>>

\* The graph g with the nodes allocated from new on.
Stored(g, new, nodes) ==
  [m \in Nodes |-> IF m \in new .. new + Len(nodes) - 1 THEN nodes[m - new + 1] ELSE g[m]]

\* kmalloc: the nodes that can still be allocated.
Room == HEAP_NODES - used

\* Fault: a name that exists is not looked for.
MayCreateAlways(parent, name) == parent # NULL /\ CheckFileName(name)

\* The early returns of mkDir and newRegFile.
MayCreate(parent, name) ==
  /\ CheckFileName(name)
  /\ parent # NULL
  /\ FsFind(parent, name) = NULL

\* ramfs_getLastChild, which does not expect a parent without children: a file, a
\* link, an emptied directory.
LastChild(parent) == CHOOSE m \in Children(parent) : nd[m].next = NULL

HangLast(parent, new, nodes) ==
  IF nd[parent].children = NULL
  THEN fault' = TRUE /\ UNCHANGED nd
  ELSE nd' = Stored([nd EXCEPT ![LastChild(parent)].next = new], new, nodes) /\ UNCHANGED fault

Alloc(k) == used' = used + k

\* ramfs_mkDir.  If only the directory node can be had it is freed again; if
\* only it and one link, the link is freed and the directory node is not.
MkDir(path, name) ==
  LET parent == FsGetNode(path)
  IN  /\ ~fault /\ MayCreate(parent, name)
      /\ \/ Room = 1 /\ Alloc(1) /\ freed' = freed \cup {used + 1} /\ UNCHANGED <<nd, fault>>
         \/ Room = 2 /\ Alloc(2) /\ freed' = freed \cup {used + 2} /\ UNCHANGED <<nd, fault>>
         \/ /\ Room >= 3 /\ Alloc(3) /\ UNCHANGED freed
            /\ HangLast(parent, used + 1, NewDirectory(name, parent, used + 1))

\* ramfs_newRegFile
NewRegFile(path, name) ==
  LET parent == FsGetNode(path)
  IN  /\ ~fault /\ MayCreate(parent, name)
      /\ Room >= 1 /\ Alloc(1) /\ UNCHANGED freed
      /\ HangLast(parent, used + 1, NewFile(name))

-----------------------------------------------------------------------------
(* Deleting a node. *)

\* Fault: the subtree of the deleted node is not freed.
InterDeleteNodeOnly(n) == {n}

\* ramfs_inter_deleteNode frees the node, its children and the nodes after it.
InterDeleteNode(n) == Hanging[n]

\* Fault: the nodes after the deleted one unlinked with it.
AfterDropped(n) == NULL

\* What takes the place of node n in its list.
After(n) == nd[n].next

\* The directory found for the path of the parent.  fs_getFileName returns a
\* pointer into its own dead stack frame, whose name fs_getParentPath measures;
\* an interrupt in between leaves any length there, and the path of any other
\* node, or of none.
ParentDirs(path) == {FsGetNode(Front(path))} \cup Reachable

\* ramfs_deleteNode: what the parent refers to the node by, its children
\* pointer or a sibling's next, skips the node.  The search for that sibling
\* does not expect an empty list.
DeleteNode(path) ==
  LET node == FsGetNode(path)
      parents == ParentDirs(path) \ {NULL}
  IN  /\ ~fault /\ path # <<>> /\ node # NULL
      /\ \/ /\ \/ \E parentDir \in parents :
                    /\ nd[parentDir].children = node
                    /\ nd' = [nd EXCEPT ![parentDir].children = After(node)]
              \/ \E parentDir \in parents : \E prev \in Children(parentDir) :
                    /\ nd[prev].next = node
                    /\ nd' = [nd EXCEPT ![prev].next = After(node)]
           /\ freed' = freed \cup InterDeleteNode(node)
           /\ UNCHANGED fault
         \/ /\ {p \in parents : nd[p].children = NULL} # {}
            /\ fault' = TRUE /\ UNCHANGED <<nd, freed>>
      /\ UNCHANGED used

-----------------------------------------------------------------------------
\* After ramfs_init: the root and its two links.
RamfsInit ==
  /\ nd = Stored([n \in Nodes |-> Unused], ROOT, NewDirectory("", ROOT, ROOT))
  /\ used = 2
  /\ freed = {}
  /\ fault = FALSE

RamfsNext ==
  \E path \in Paths :
     \/ \E name \in AnyNames : MkDir(path, name) \/ NewRegFile(path, name)
     \/ DeleteNode(path)

RamfsSpec == RamfsInit /\ [][RamfsNext]_nodeVars

-----------------------------------------------------------------------------
(* Properties. *)

\* Every entry ramfs_readdir lists in a directory is the one a lookup of its
\* name finds: no two children ever have the same name.
ListedIsFound ==
  \A d \in Directories : \A k \in 0 .. HEAP_NODES :
     LET n == ReadDir(d, k) IN n # NULL => FsFind(d, nd[n].name) = n

\* Whatever was created and deleted, a link "." that is still there leads to
\* its directory and a link ".." to the directory that holds it.
LinksLeadHome ==
  \A d \in Directories : \A n \in Children(d) :
     /\ nd[n].name = "." => nd[n].node_ptr = d
     /\ nd[n].name = ".." /\ d # ROOT => d \in Children(nd[n].node_ptr)

\* Until the heap is exhausted no node is lost: what cannot be reached from the
\* root any more was freed.
NoLeakWhileRoom == ~fault /\ Room > 0 => 1 .. used \subseteq Reachable \cup freed

\* The directory that holds a node, and the names that lead to the node.
Holder(n) == CHOOSE d \in Reachable : n \in Children(d)

PathOf[n \in Reachable] == IF n = ROOT THEN <<>> ELSE Append(PathOf[Holder(n)], nd[n].name)

\* The nodes callers see by a path of their own: links lead to others.
Shown == {n \in Reachable : nd[n].type # "SYMLINK"}

tree == [p \in {PathOf[n] : n \in Shown} |-> nd[CHOOSE n \in Shown : PathOf[n] = p].type]

FileTree == INSTANCE FileTreeSpec WITH tree <- tree

\* The lists implement a tree of names: mkDir and newRegFile add one path,
\* deleteNode removes a path with all below it, and an operation that fails,
\* also half way, changes no path.
ImplementsFileTree == FileTree!Spec

-----------------------------------------------------------------------------
(* The inductive invariant. *)

\* The root is a directory in no list; nothing is known of nodes not allocated.
RootAndUnused ==
  /\ nd[ROOT].type = "DIRECTORY" /\ nd[ROOT].next = NULL
  /\ \A n \in Nodes : n > used => nd[n] = Unused

\* A node is hung below or after nodes allocated before it, and below a directory.
PointersAhead ==
  \A n \in Nodes :
     /\ nd[n].next = NULL \/ nd[n].next \in n + 1 .. used
     /\ nd[n].children = NULL \/ (nd[n].children \in n + 1 .. used /\ nd[n].type = "DIRECTORY")

\* No two nodes in the tree refer to the same one, nor one by both pointers.  Deleted
\* nodes still refer to nodes that are in it.
OneReferrer ==
  \A m, p \in Reachable :
     /\ nd[m].next # NULL /\ nd[m].next = nd[p].next => m = p
     /\ nd[m].children # NULL /\ nd[m].children = nd[p].children => m = p
     /\ nd[m].next # NULL => nd[m].next # nd[p].children

\* A link leads to a directory: vfs_nodeFromSimlink follows one link at most.
LinksToDirectories ==
  \A n \in Nodes : nd[n].type = "SYMLINK" =>
     /\ nd[n].name \in {".", ".."}
     /\ nd[n].node_ptr \in 0 .. used /\ nd[nd[n].node_ptr].type = "DIRECTORY"

DistinctNames ==
  \A d \in Directories : \A m, p \in Children(d) : nd[m].name = nd[p].name => m = p

\* LinksLeadHome, and that the directory a link ".." leads to is in the tree.
LinksStayHome ==
  \A d \in Directories : \A n \in Children(d) :
     /\ nd[n].name = "." => nd[n].node_ptr = d
     /\ nd[n].name = ".." =>
          /\ nd[n].node_ptr \in Directories
          /\ IF d = ROOT THEN nd[n].node_ptr = ROOT ELSE d \in Children(nd[n].node_ptr)

GraphInv ==
  /\ NodesTypeOK /\ RootAndUnused /\ PointersAhead /\ OneReferrer /\ LinksToDirectories
  /\ DistinctNames /\ LinksStayHome /\ NoLeakWhileRoom

=============================================================================
