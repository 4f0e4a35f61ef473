-------------------------------- MODULE BootFS --------------------------------
(***************************************************************************)
(* How the boot fills the file system and kernel_main shows it: the        *)
(* directories of kernel_initramfs, /dev/null (devfs.c), the initrd image  *)
(* (LoadInitrdFiles), a directory for every PCI function (pci.c), then the *)
(* test file and the listings.  One thread, and a heap that may run out at *)
(* any allocation; the contents of a file are a block of the heap as its   *)
(* node is, and those of a packed file may not fit where a node would.     *)
(***************************************************************************)
EXTENDS RamFS, TLC

CONSTANTS
  Machines,           \* [image, wired]: the initrd, a sequence of headers [name, type, n],
                      \* and the PCI functions [bus, dev, func, multi, bridge, secondary]
  PCI_DEV_PER_BUS,
  PCI_FUNC_PER_DEV,
  UCHAR               \* values of an unsigned char

ASSUME BootFSAssumption ==
  /\ PCI_DEV_PER_BUS \in Nat \ {0} /\ PCI_FUNC_PER_DEV \in Nat \ {0}
  /\ UCHAR \in Nat /\ UCHAR > 2
  /\ \A m \in Machines :
       /\ IsFiniteSet(m.wired)
       /\ m.wired \subseteq [bus : Nat, dev : Nat, func : Nat, multi : BOOLEAN,
                             bridge : BOOLEAN, secondary : Nat]

VARIABLES
  pc,      \* what the boot does next
  image,   \* the initrd
  wired,   \* the PCI functions of the machine
  nth,     \* directory of kernel_initramfs to make, then host controller to scan
  load,    \* frames of LoadInitrdFiles: [dir, pos, i, prev]
  scan,    \* frames of pci_scanBus: [bus, dev, func, file]
  short,   \* an allocation failed
  list,    \* the listing: [dir, i, k, nested, inner]
  heap     \* blocks of the heap

bootVars == <<pc, image, wired, nth, load, scan, short, list, heap>>
fsVars == <<nodeVars, bootVars>>

\* The directories made before the initrd is loaded.
SetUp == <<[path |-> <<>>, name |-> "initrd"], [path |-> <<>>, name |-> "sys"],
           [path |-> <<"sys">>, name |-> "proc"], [path |-> <<"sys">>, name |-> "device"],
           [path |-> <<>>, name |-> "dev"]>>

INITRD == <<"initrd">>
DEVICE == <<"sys", "device">>
PCI == <<"sys", "device", "pci">>
TEST_DIR == <<"initrd", "test_fill">>

Goto(to) == pc' = to

-----------------------------------------------------------------------------
(* Calls of ramfs.c, failing included.  The heap ends where heap says. *)

Left == heap - used

\* k blocks are to be had; otherwise as many as there are, are gone.
Gets(k) == Left >= k /\ used' = used + k /\ UNCHANGED short

Lacks(k) == Left < k /\ short' = TRUE

\* ramfs_mkDir; ok says whether it made the directory.
MkDirCall(path, name, ok) ==
  LET parent == FsGetNode(path)
  IN  \/ /\ ~MayCreate(parent, name) /\ ~ok
         /\ UNCHANGED <<nodeVars, short>>
      \/ /\ MayCreate(parent, name) /\ Lacks(3) /\ ~ok
         /\ used' = heap /\ freed' = freed \cup (IF Left = 0 THEN {} ELSE {heap})
         /\ UNCHANGED <<nd, fault>>
      \/ /\ MayCreate(parent, name) /\ Gets(3) /\ ok
         /\ HangLast(parent, used + 1, NewDirectory(name, parent, used + 1))
         /\ UNCHANGED freed

\* ramfs_newRegFile and the first ramfs_write to it, of a few bytes, which fit where a
\* node does.  That the write failed is seen by no caller: it returns -1, and they look
\* for 0 or not at all.
FileCall(path, name, ok) ==
  LET parent == FsGetNode(path)
  IN  \/ /\ ~MayCreate(parent, name) /\ ~ok
         /\ UNCHANGED <<nodeVars, short>>
      \/ /\ MayCreate(parent, name) /\ Lacks(1) /\ ~ok
         /\ UNCHANGED nodeVars
      \/ /\ MayCreate(parent, name) /\ Left >= 1 /\ ok
         /\ \/ Gets(2)
            \/ Lacks(2) /\ used' = used + 1
         /\ HangLast(parent, used + 1, NewFile(name))
         /\ UNCHANGED freed

\* A node hung by hand: /dev/null, and config with the block that says which function
\* it is of.  The node goes back when that block cannot be had.
NodeCall(path, name, blocks, ok) ==
  LET parent == FsGetNode(path)
  IN  \/ /\ parent = NULL /\ ~ok
         /\ UNCHANGED <<nodeVars, short>>
      \/ /\ parent # NULL /\ Lacks(blocks) /\ ~ok
         /\ used' = heap /\ freed' = freed \cup (used + 1 .. heap)
         /\ UNCHANGED <<nd, fault>>
      \/ /\ parent # NULL /\ Gets(blocks) /\ ok
         /\ HangLast(parent, used + 1, NewFile(name))
         /\ UNCHANGED freed

-----------------------------------------------------------------------------
(* kernel_initramfs, devfs_init and bl_GetModules: no result is looked at. *)

MakeDir ==
  /\ pc = "set_up"
  /\ \E ok \in BOOLEAN :
       /\ MkDirCall(SetUp[nth].path, SetUp[nth].name, ok)
       /\ IF nth < Len(SetUp) THEN Goto("set_up") /\ nth' = nth + 1
          ELSE Goto(IF ok THEN "null" ELSE "modules") /\ nth' = 0
  /\ UNCHANGED <<image, wired, load, scan, list, heap>>

MakeNull ==
  /\ pc = "null" /\ Goto("modules")
  /\ \E ok \in BOOLEAN : NodeCall(<<"dev">>, "null", 1, ok)
  /\ UNCHANGED <<image, wired, nth, load, scan, list, heap>>

\* The list of modules is allocated; the kernel loops for ever if it cannot be.
GetModules ==
  /\ pc = "modules"
  /\ \/ Gets(1) /\ Goto("load_initrd")
     \/ Lacks(1) /\ Goto("panic") /\ UNCHANGED used
  /\ UNCHANGED <<nd, freed, fault, image, wired, nth, load, scan, list, heap>>

-----------------------------------------------------------------------------
(* ramfs_loadInitrd *)

\* The directory to load into must exist; its second child is taken for the link to
\* its parent.
LoadInitrd ==
  /\ pc = "load_initrd"
  /\ LET dir == FsGetNode(INITRD)
     IN  IF dir = NULL THEN Goto("pci_dir") /\ load' = <<>>
         ELSE Goto("load") /\ load' = <<[dir |-> dir, pos |-> 1, i |-> 0, prev |-> NULL]>>
  /\ UNCHANGED <<nodeVars, image, wired, nth, scan, short, list, heap>>

Frame == load[Len(load)]
Header == image[Frame.pos]
Entry == image[Frame.pos + 1 + Frame.i]

\* Fault: every entry takes the place of the one before it.
LinkedFirst(f, curr) == ReadDir(f.dir, 1)

\* The node that curr is hung after: ".." for the first, then the one hung before it,
\* which is NULL when that one could not be loaded.
Linked(f, curr) == IF nd[ReadDir(f.dir, 1)].next = NULL THEN ReadDir(f.dir, 1) ELSE f.prev

\* curr, NULL or a node, is hung into the directory of frame f, the frame at depth d.
Attach(d, curr, nodes) ==
  LET f == load[d]
      after == Linked(f, curr)
  IN  /\ IF after = NULL
         THEN fault' = TRUE /\ UNCHANGED nd
         ELSE nd' = Stored([nd EXCEPT ![after].next = curr], used + 1, nodes) /\ UNCHANGED fault
      /\ load' = [SubSeq(load, 1, d) EXCEPT ![d].i = @ + 1, ![d].prev = curr]

LoadStep(type) ==
  /\ pc = "load" /\ ~fault /\ Frame.i < Header.n /\ Entry.type = type
  /\ UNCHANGED <<image, wired, nth, scan, list, heap>>

\* LoadInitrdRegFile: a node whose contents do not fit is given back.
LoadRegFile ==
  /\ LoadStep("REGULAR") /\ Goto("load")
  /\ \/ /\ Gets(2) /\ UNCHANGED freed
        /\ Attach(Len(load), used + 1, NewFile(Entry.name))
     \/ /\ Left >= 1 /\ used' = used + 1 /\ short' = TRUE /\ freed' = freed \cup {used + 1}
        /\ Attach(Len(load), NULL, <<>>)
     \/ /\ Lacks(1) /\ UNCHANGED <<used, freed>>
        /\ Attach(Len(load), NULL, <<>>)

\* A directory is allocated and its entries are loaded into it before it is hung.  One
\* that could not be allocated is passed on all the same.  When its links cannot be had
\* the whole load ends; it, and not the first link, is given back.
LoadDir ==
  /\ LoadStep("DIRECTORY")
  /\ \/ /\ Gets(3) /\ UNCHANGED <<freed, fault>> /\ Goto("load")
        /\ nd' = Stored(nd, used + 1, NewDirectory(Entry.name, Frame.dir, used + 1))
        /\ load' = Append(load, [dir |-> used + 1, pos |-> Frame.pos + 1 + Frame.i, i |-> 0, prev |-> NULL])
     \/ /\ Lacks(3) /\ Left > 0 /\ used' = heap /\ Goto("pci_dir")
        /\ freed' = freed \cup (IF Left = 2 THEN {used + 1} ELSE {})
        /\ load' = <<>> /\ UNCHANGED <<nd, fault>>
     \/ /\ Lacks(1) /\ fault' = TRUE /\ Goto("load")
        /\ UNCHANGED <<nd, used, freed, load>>

SkipEntry ==
  /\ LoadStep("OTHER_TYPE") /\ Goto("load")
  /\ load' = [load EXCEPT ![Len(load)].i = @ + 1]
  /\ UNCHANGED <<nodeVars, short>>

\* A directory is done, and hung into the one it was met in.
LoadReturn ==
  /\ pc = "load" /\ ~fault /\ Frame.i = Header.n
  /\ IF Len(load) = 1
     THEN Goto("pci_dir") /\ load' = <<>> /\ UNCHANGED <<nd, fault>>
     ELSE Goto("load") /\ Attach(Len(load) - 1, Frame.dir, <<>>)
  /\ UNCHANGED <<used, freed, image, wired, nth, scan, short, list, heap>>

-----------------------------------------------------------------------------
(* pci_scan *)

At(bus, dev, func) == {w \in wired : w.bus = bus /\ w.dev = dev /\ w.func = func}

\* A function that is not there reads as all ones.
IsMulti(bus, dev) == \A w \in At(bus, dev, 0) : w.multi

Bus(b) == [bus |-> b, dev |-> 0, func |-> 0, file |-> "dir"]

\* The directory must not exist; at boot it does not.
MakePciDir ==
  /\ pc = "pci_dir"
  /\ \E ok \in BOOLEAN :
       /\ MkDirCall(DEVICE, "pci", ok)
       /\ IF ~ok THEN Goto("test") /\ scan' = <<>>
          ELSE IF IsMulti(0, 0) /\ At(0, 0, 0) = {} THEN Goto("test") /\ scan' = <<>>
          ELSE Goto("scan") /\ scan' = <<Bus(0)>>
  /\ nth' = 0
  /\ UNCHANGED <<image, wired, load, list, heap>>

Top == scan[Len(scan)]

\* Fault: the functions of a device are scanned whatever its header says.
NextFunctionAlways(f) ==
  IF f.func + 1 < PCI_FUNC_PER_DEV
  THEN [f EXCEPT !.func = @ + 1, !.file = "dir"]
  ELSE [f EXCEPT !.dev = @ + 1, !.func = 0, !.file = "dir"]

\* The frames when the function at hand is done.
NextFunction(f) ==
  IF f.func + 1 < PCI_FUNC_PER_DEV /\ At(f.bus, f.dev, 0) # {} /\ IsMulti(f.bus, f.dev)
  THEN [f EXCEPT !.func = @ + 1, !.file = "dir"]
  ELSE [f EXCEPT !.dev = @ + 1, !.func = 0, !.file = "dir"]

ScanStep == pc = "scan" /\ ~fault /\ scan # <<>> /\ Top.dev < PCI_DEV_PER_BUS

KeepScan == UNCHANGED <<image, wired, nth, load, list, heap>>

\* A bus is given up: the scan of the bus its bridge is on takes no notice, the one of a
\* host controller ends.
GivenUp == IF Len(scan) = 1 THEN Goto("test") /\ scan' = <<>> ELSE Goto("scan") /\ scan' = Front(scan)

SkipFunction ==
  /\ ScanStep /\ At(Top.bus, Top.dev, Top.func) = {}
  /\ Goto("scan") /\ scan' = [scan EXCEPT ![Len(scan)] = NextFunction(Top)]
  /\ KeepScan /\ UNCHANGED <<nodeVars, short>>

DevName(f) == ToString(<<f.bus, f.dev, f.func>>)

DevPath(f) == Append(PCI, DevName(f))

\* pci_ramfs_addnode: a function that has its directory already is given up, and with it
\* the bus, which is how a bridge that leads back ends.
AddNode ==
  /\ ScanStep /\ Top.file = "dir" /\ At(Top.bus, Top.dev, Top.func) # {}
  /\ \E ok \in BOOLEAN :
       /\ MkDirCall(PCI, DevName(Top), ok)
       /\ IF ok THEN Goto("scan") /\ scan' = [scan EXCEPT ![Len(scan)].file = "vendor"] ELSE GivenUp
  /\ KeepScan

\* pci_ramfs_addFiles, file by file.
AfterFile == [vendor |-> "device", device |-> "subsystem_vendor", subsystem_vendor |-> "config"]

AddFile ==
  /\ ScanStep /\ Top.file \in DOMAIN AfterFile
  /\ \E ok \in BOOLEAN :
       /\ FileCall(DevPath(Top), Top.file, ok)
       /\ IF ok THEN Goto("scan") /\ scan' = [scan EXCEPT ![Len(scan)].file = AfterFile[Top.file]] ELSE GivenUp
  /\ KeepScan

\* The last file, and the bus behind the function if it is a bridge.
AddConfig ==
  /\ ScanStep /\ Top.file = "config"
  /\ \E ok \in BOOLEAN, w \in At(Top.bus, Top.dev, Top.func) :
       /\ NodeCall(DevPath(Top), "config", 2, ok)
       /\ IF ok
          THEN /\ Goto("scan")
               /\ scan' = [scan EXCEPT ![Len(scan)] = NextFunction(Top)]
                          \o (IF w.bridge THEN <<Bus(w.secondary)>> ELSE <<>>)
          ELSE GivenUp
  /\ KeepScan

\* A bus is done; after the one of a host controller comes that of the next, as long as
\* there is one.
EndBus ==
  /\ pc = "scan" /\ ~fault /\ Top.dev = PCI_DEV_PER_BUS
  /\ LET more == IsMulti(0, 0) /\ nth + 1 < PCI_FUNC_PER_DEV /\ At(0, 0, nth + 1) # {}
     IN  IF Len(scan) > 1 THEN Goto("scan") /\ scan' = Front(scan) /\ UNCHANGED nth
         ELSE IF more THEN Goto("scan") /\ scan' = <<Bus(nth + 1)>> /\ nth' = nth + 1
         ELSE Goto("test") /\ scan' = <<>> /\ UNCHANGED nth
  /\ UNCHANGED <<nodeVars, image, wired, load, short, list, heap>>

-----------------------------------------------------------------------------
(* kernel_main *)

\* The test file is written whether it could be made or not.  (A second, longer write
\* moves its contents once more; nothing after it allocates.)  The variable that the
\* inner listing ends on holds what was on the stack.
WriteTest ==
  /\ pc = "test" /\ ~fault
  /\ \/ /\ FileCall(TEST_DIR, "testwr.txt", TRUE) /\ Goto("list")
        /\ \E garbage \in {NULL, ROOT} : list' = [list EXCEPT !.nested = garbage]
     \/ /\ FsGetNode(TEST_DIR) = NULL \/ Left = 0
        /\ fault' = TRUE /\ Goto("test")
        /\ short' = (short \/ (FsGetNode(TEST_DIR) # NULL))
        /\ UNCHANGED <<nd, used, freed, list>>
  /\ UNCHANGED <<image, wired, nth, load, scan, heap>>

Listed == <<<<>>, <<"dev">>, <<"sys">>, DEVICE, PCI>>

\* Fault: the index is kept in two bits.
IncNarrow(c) == (c + 1) % 4

Inc(c) == (c + 1) % UCHAR

\* One turn of a listing: a directory that is not there is followed as NULL, and an
\* entry of the last one is listed itself.
ListEntry ==
  /\ pc = "list" /\ ~fault /\ ~list.inner
  /\ LET dir == FsGetNode(Listed[list.dir])
         entry == ReadDir(dir, list.i)
     IN  IF dir = NULL THEN fault' = TRUE /\ UNCHANGED <<list, pc>>
         ELSE IF entry # NULL
         THEN /\ list' = [list EXCEPT !.i = Inc(@), !.k = 0, !.inner = (list.dir = Len(Listed)),
                                      !.entry = entry]
              /\ UNCHANGED <<fault, pc>>
         ELSE /\ list' = [list EXCEPT !.i = 0, !.dir = IF @ < Len(Listed) THEN @ + 1 ELSE @]
              /\ Goto(IF list.dir < Len(Listed) THEN "list" ELSE "idle")
              /\ UNCHANGED fault
  /\ UNCHANGED <<nd, used, freed, image, wired, nth, load, scan, short, heap>>

\* One turn of the inner loop.  For a link the variable it ends on is left as it is,
\* which for the first one is as it was found on the stack.
ListNested ==
  /\ pc = "list" /\ ~fault /\ list.inner
  /\ LET nested == IF nd[list.entry].type = "SYMLINK" THEN list.nested
                   ELSE ReadDir(list.entry, list.k)
     IN  list' = [list EXCEPT !.k = Inc(@), !.nested = nested, !.inner = (nested # NULL)]
  /\ UNCHANGED <<nodeVars, pc, image, wired, nth, load, scan, short, heap>>

Running == ~fault /\ pc \notin {"idle", "panic"}

\* The loops of kernel_main and of a panic, and whatever follows a fault.
Stopped == ~Running /\ UNCHANGED fsVars

-----------------------------------------------------------------------------
BootInit ==
  /\ RamfsInit
  /\ heap \in used .. HEAP_NODES
  /\ \E m \in Machines : image = m.image /\ wired = m.wired
  /\ pc = "set_up" /\ nth = 1 /\ load = <<>> /\ scan = <<>> /\ short = FALSE
  /\ list = [dir |-> 1, i |-> 0, k |-> 0, inner |-> FALSE, entry |-> NULL, nested |-> NULL]

BootNext ==
  \/ MakeDir \/ MakeNull \/ GetModules
  \/ LoadInitrd \/ LoadRegFile \/ LoadDir \/ SkipEntry \/ LoadReturn
  \/ MakePciDir \/ SkipFunction \/ AddNode \/ AddFile \/ AddConfig \/ EndBus
  \/ WriteTest \/ ListEntry \/ ListNested \/ Stopped

\* Nothing else runs: the boot processor goes on.  This is weak fairness of BootNext
\* with what enables it written out: while the boot runs, each of its steps changes the
\* state.
BootFairness == []<>~Running \/ []<><<BootNext>>_fsVars

BootSpec == BootInit /\ [][BootNext]_fsVars /\ BootFairness

-----------------------------------------------------------------------------
(* Properties. *)

\* The paths below directory d, from there on, with the types of their nodes; links
\* are not paths.
Under[d \in Nodes] ==
  LET named == {m \in Children(d) : nd[m].type # "SYMLINK"}
  IN  UNION {{<<<<nd[m].name>>, nd[m].type>>}
             \cup {<<<<nd[m].name>> \o q[1], q[2]>> : q \in Under[m]} : m \in named}

\* What is under the directory a path names, if it names one.
Shows(path) == UNION {Under[d] : d \in {FsGetNode(path)} \ {NULL}}

\* The image is laid out as the loader expects: every header belongs to one directory,
\* whose entries follow it.  So it is when only the last entry of a directory is itself
\* a directory with entries.
Holders(p) == {d \in 1 .. p - 1 : image[d].type = "DIRECTORY" /\ p <= d + image[d].n}
LaidOut == \A p \in 2 .. Len(image) : Cardinality(Holders(p)) = 1

\* The names that lead to the header at p from the directory the image is loaded into.
PackedPath[p \in 1 .. Len(image)] ==
  IF p = 1 THEN <<>> ELSE Append(PackedPath[CHOOSE d \in Holders(p) : TRUE], image[p].name)

Packed == {<<PackedPath[p], image[p].type>> :
             p \in {q \in 2 .. Len(image) : image[q].type # "OTHER_TYPE"}}

\* LoadInitrdFiles, which descends into a directory before it hangs it: below /initrd
\* there is never anything but what the image holds, where the image holds it, and
\* once the load is over all of it unless memory ran out.
LoadedAsPacked ==
  LaidOut /\ pc \in {"load", "pci_dir", "scan", "test"} =>
     /\ Shows(INITRD) \subseteq Packed
     /\ pc # "load" /\ ~short => Shows(INITRD) = Packed

\* The buses of the host controllers, and all that bridges lead to from some of them.
Hosts == IF IsMulti(0, 0) THEN {h \in 0 .. PCI_FUNC_PER_DEV - 1 : \A g \in 0 .. h : At(0, 0, g) # {}}
         ELSE {0}

Visible == {w \in wired : w.func = 0 \/ (\E z \in At(w.bus, w.dev, 0) : z.multi)}

Behind(buses) == {w.secondary : w \in {v \in Visible : v.bridge /\ v.bus \in buses}}

Reached(hosts) ==
  LET all == hosts \cup {w.bus : w \in wired} \cup Behind({w.bus : w \in wired})
  IN  {b \in all : \A closed \in SUBSET all :
                     hosts \cup Behind(closed) \subseteq closed => b \in closed}

\* Bus h of a host controller was scanned behind a bridge before its turn came.
Met(h) == h \in Reached(0 .. h - 1) /\ \E w \in Visible : w.bus = h

\* The host controllers up to the first one whose bus was met, which ends pci_scan.
ScannedHosts == {h \in Hosts : \A g \in 1 .. h - 1 : ~Met(g)}

PciFiles == DOMAIN AfterFile \cup {"config"}

\* pci_scan: /sys/device/pci never has a directory for a function that is not there, and
\* when the scan is over one with all four files for every function of every bus that
\* bridges lead to, also when they lead in a circle; unless memory ran out.  Only host
\* controllers after one whose bus is also behind a bridge are passed over.
ScannedAsWired ==
  LET there == {w \in Visible : w.bus \in Reached(ScannedHosts)}
      wanted == {<<<<DevName(w)>>, "DIRECTORY">> : w \in there}
                \cup {<<<<DevName(w), file>>, "REGULAR">> : w \in there, file \in PciFiles}
  IN  pc \in {"scan", "test"} =>
        /\ Shows(PCI) \subseteq wanted
        /\ pc = "test" /\ ~short => Shows(PCI) = wanted

\* The recursion of pci_scanBus stays on the kernel's stack: however the bridges are
\* configured, it is never deeper than there are bridges.
Bridges == {w \in Visible : w.bridge}
ScanIsBounded == Len(scan) <= 1 + Cardinality(Bridges)

\* With memory enough, the directory the test file goes to and a stack that held NULL
\* where the listing finds its end, the boot passes the load, the scan and the listings
\* and comes to its idle loop.
BootFsEnds ==
  (LaidOut /\ <<<<"test_fill">>, "DIRECTORY">> \in Packed) =>
    ([](~short /\ (list.dir < Len(Listed) => list.nested = NULL)) => <>(pc = "idle"))

-----------------------------------------------------------------------------
(* The inductive invariant of ScanIsBounded. *)

\* Every node is a record of five fields, whatever its name.
AsNode(r) == [type |-> r.type, name |-> r.name, next |-> r.next,
              children |-> r.children, node_ptr |-> r.node_ptr]

NodesAreRecords ==
  /\ heap \in 0 .. HEAP_NODES /\ used \in 0 .. heap
  /\ nd = [x \in Nodes |-> AsNode(nd[x])]

\* The boot deletes nothing: a directory starts with its two links, allocated with it.
LinksAreFirst ==
  \A d \in Nodes : nd[d].type = "DIRECTORY" =>
     /\ d + 2 \in 2 .. used
     /\ nd[d].children = d + 1 /\ nd[d + 1].next = d + 2
     /\ nd[d + 1].type = "SYMLINK" /\ nd[d + 2].type = "SYMLINK"

\* The directory of kernel_initramfs to make is one of them.
IndexInRange == nth \in Nat /\ (pc = "set_up" => nth \in 1 .. Len(SetUp))

\* Until the initrd is loaded, what has the name of its directory is a directory.
InitrdIsDirectory ==
  pc \in {"set_up", "null", "modules", "load_initrd"} =>
     \A x \in Nodes : nd[x].name = "initrd" => nd[x].type = "DIRECTORY"

\* A frame of LoadInitrdFiles fills a directory whose last entry is prev; the directory
\* of the frame above it was allocated after both.
LoadFrames ==
  /\ load \in Seq([dir : Nodes, pos : Nat, i : Nat, prev : Refs])
  /\ pc = "load" <=> load # <<>>
  /\ \A k \in 1 .. Len(load) :
       /\ load[k].dir <= used /\ nd[load[k].dir].type = "DIRECTORY"
       /\ load[k].prev # NULL => load[k].prev <= used /\ nd[load[k].prev].type # "SYMLINK"
       /\ k < Len(load) => load[k].dir + 2 < load[k + 1].dir /\ load[k].prev < load[k + 1].dir

\* A lookup finds the directory of a PCI function of this name.
Found(name) == FsGetNode(PCI) # NULL /\ FsFind(FsGetNode(PCI), name) # NULL

\* The frames of pci_scanBus; all but the last are about to go on with a function.
ScanFrames ==
  /\ scan \in Seq([bus : Nat, dev : Nat, func : Nat, file : {"dir"} \cup PciFiles])
  /\ pc = "scan" <=> scan # <<>>
  /\ \A k \in 1 .. Len(scan) :
       /\ k < Len(scan) => scan[k].file = "dir"
       /\ scan[k].func = 0 \/ \E z \in At(scan[k].bus, scan[k].dev, 0) : z.multi

\* Every frame but the first was entered through a bridge of its own, whose directory
\* is there; that of the function at hand is there too, and is not one of those.
EnteredByBridges ==
  \E via \in [2 .. Len(scan) -> Bridges] :
     /\ \A j, k \in 2 .. Len(scan) : DevName(via[j]) = DevName(via[k]) => j = k
     /\ ~fault => \A k \in 2 .. Len(scan) : Found(DevName(via[k]))
     /\ ~fault /\ scan # <<>> => Top.file = "dir" \/
          (Found(DevName(Top)) /\ \A k \in 2 .. Len(scan) : DevName(via[k]) # DevName(Top))

BootInv ==
  /\ \E m \in Machines : wired = m.wired
  /\ NodesAreRecords /\ PointersAhead /\ LinksToDirectories /\ LinksAreFirst
  /\ IndexInRange /\ InitrdIsDirectory /\ (~fault => LoadFrames) /\ ScanFrames /\ EnteredByBridges

=============================================================================
