------------------------------- MODULE Handles -------------------------------
(***************************************************************************)
(* What the program holds of the operating system and how it gives it back:  *)
(* the mapped files of disk tables, of which small ones are read into blocks *)
(* of a slab instead (mmapfile.cc, mmapfilesbo.cc), mapped memory and files  *)
(* that are worked on (mmapbuffer.cc), files that are written through a      *)
(* buffer (filewriter.h), and listening sockets (sockets.cc).                *)
(* Every call of the system may fail.                                        *)
(***************************************************************************)
EXTENDS SmallContainers

CONSTANTS
  FileSize(_, _),     \* of a part of a table: -1 if there is no such file
  Least,              \* size of a line or a hash index that is of use
  SmallSize,          \* of a block
  SlabBlocks,
  IdLists,            \* the tables a loader finds: sequences of different inodes
  TableFates,         \* the table, the part and the call that fails
  WriteRoom,               \* bytes of the buffer that files are written through, 0 for none
  MaxServers, MaxWritten   \* bounds

TableLoaders == {"single", "directory"}
Users  == {"none", "writer"}      \* of other files, memory and sockets
Modes  == {"NORMAL", "MINIMAL", "FORWARD"}
Parts  == {"data", "indx", "line", "hash", "tree", "keys"}
Fates  == {"none", "meta", "open", "lseek", "read", "mmap", "size"}   \* the call that fails

ASSUME HandlesAssumption ==
  /\ {Least, SmallSize, SlabBlocks, WriteRoom, MaxServers, MaxWritten} \subseteq Nat
  /\ \A ids \in IdLists : IsInjective(ids) /\ 0 \notin ToSet(ids)
  /\ \A fate \in TableFates : fate[2] \in Parts /\ fate[3] \in Fates

Blocks == (1 .. SlabBlocks) \X {"block"}
Nullptr == <<0, "">>

(* What owns memory: where it is, for a mapping what is mapped there.        *)
ClosedFile  == [is |-> "closed", at |-> Nullptr]
SBOFile(b)  == [is |-> "sbo", at |-> b]
MMAPFile(m) == [is |-> "mmap", at |-> m]
movedFrom(f) == [f EXCEPT !.at = Nullptr]

isOpen(f) == f.at # Nullptr

-----------------------------------------------------------------------------
(* Descriptors and mappings are counted, blocks have contents or are free.   *)
(* broken tells that something was given back that was not taken, and lost   *)
(* are the blocks that nobody gives back.                                    *)

fdOpen(s)  == [s EXCEPT !.fds = @ + 1]
fdClose(s) == [s EXCEPT !.fds = @ - 1]

mmap(s, content) == [s EXCEPT !.maps = @ (+) SetToBag({content})]
munmap(s, m) == [s EXCEPT !.maps = @ (-) SetToBag({m}), !.broken = @ \/ ~ BagIn(m, s.maps)]

slabDeallocate(s, b) ==
  [s EXCEPT !.free = @ \cup {b}, !.blocks[b] = Nullptr, !.broken = @ \/ b \in s.free]

(* close() of a file, and the destructor of what a variant held.             *)
Closed(s, f) ==
  CASE f.is = "sbo" /\ isOpen(f)  -> slabDeallocate(s, f.at)
    [] f.is = "mmap" /\ isOpen(f) -> munmap(s, f.at)
    [] ~ isOpen(f)                -> s

Got(s, f) == [s |-> s, f |-> f]

(* The file need not stay open.                                              *)
mmap__(s, content, fails) ==
  IF fails THEN Got(fdClose(s), MMAPFile(Nullptr)) ELSE Got(fdClose(mmap(s, content)), MMAPFile(content))

(* An empty file is no file.                                                 *)
file__(s, size, fate) ==
  CASE fate = "open" \/ size < 0 -> [ok |-> FALSE, s |-> s]
    [] fate # "open" /\ size >= 0 /\ (fate = "lseek" \/ size = 0) -> [ok |-> FALSE, s |-> fdClose(fdOpen(s))]
    [] OTHER -> [ok |-> TRUE, s |-> fdOpen(s)]

(* MMAPFileRO::open                                                          *)
ro_open(s, content, size, fate) ==
  LET r == file__(s, size, fate)
  IN  IF r.ok THEN mmap__(r.s, content, fate = "mmap") ELSE Got(r.s, MMAPFile(Nullptr))

(* MMAPFileSBO::open: the block is not given back if the file is not read.   *)
sbo_open(s, content, size, fate) ==
  LET file  == fdOpen(s)
      first == CHOOSE b \in s.free : \A c \in s.free : b[1] <= c[1]
      block == [fdClose(file) EXCEPT !.free = @ \ {first}]
      small == size <= SmallSize /\ s.free # {}
  IN  CASE fate = "open" \/ size < 0 -> Got(s, ClosedFile)
        [] size >= 0 /\ fate = "lseek" -> Got(fdClose(file), ClosedFile)
        [] size >= 0 /\ small /\ fate = "read" ->
             Got([block EXCEPT !.lost = @ \cup {first}], ClosedFile)
        [] size >= 0 /\ small /\ fate \notin {"open", "lseek", "read"} ->
             Got([block EXCEPT !.blocks[first] = content], SBOFile(first))
        [] OTHER -> mmap__(file, content, fate = "mmap" \/ size = 0)

-----------------------------------------------------------------------------
(* DiskList.  fate is the table, the part and the call that fails.           *)

NewList(id) == [id |-> id, files |-> [p \in Parts |-> ClosedFile]]
ListMovedFrom(t) == [t EXCEPT !.files = [p \in Parts |-> movedFrom(@[p])]]

closePart(c, p) == [c EXCEPT !.s = Closed(@, c.t.files[p]), !.t.files[p] = ClosedFile]
closeList(s, t) ==
  FoldLeft(closePart, [s |-> s, t |-> t], <<"indx", "data", "line", "hash", "tree", "keys">>)

fateOf(fate, id, p) == IF fate[1] = id /\ fate[2] = p THEN fate[3] ELSE "none"

openPart(c, p, fate) ==
  LET s    == Closed(c.s, c.t.files[p])
      name == <<c.t.id, p>>
      size == FileSize(c.t.id, p)
      got  == IF s.vm THEN sbo_open(s, name, size, fateOf(fate, c.t.id, p))
              ELSE ro_open(s, name, size, fateOf(fate, c.t.id, p))
  IN  [c EXCEPT !.s = got.s, !.t.files[p] = got.f]

openMinimal_(c, fate) == openPart(openPart(c, "data", fate), "indx", fate)

(* The index files are of use if they are not too small, the keys of a tree  *)
(* if there is a tree.                                                       *)
openAdditional(c, p, fate) ==
  LET o == openPart(c, p, fate)
  IN  CASE p = "keys" /\ ~ isOpen(c.t.files.tree) -> c
        [] p \in {"line", "hash"} /\ isOpen(o.t.files[p]) /\ FileSize(c.t.id, p) < Least -> closePart(o, p)
        [] OTHER -> o

openList(s, t, fate) ==
  LET new     == [s |-> s, t |-> t]
      minimal == openMinimal_(new, fate)
      good    == /\ isOpen(minimal.t.files.data) /\ isOpen(minimal.t.files.indx)
                 /\ fateOf(fate, t.id, "indx") # "size"
  IN  CASE fateOf(fate, t.id, "data") = "meta" -> new
        [] fateOf(fate, t.id, "data") # "meta" /\ s.mode = "FORWARD" -> openPart(new, "data", fate)
        [] fateOf(fate, t.id, "data") # "meta" /\ s.mode = "NORMAL" /\ good ->
             FoldLeft(LAMBDA c, p : openAdditional(c, p, fate), minimal, <<"line", "hash", "tree", "keys">>)
        [] OTHER -> minimal

-----------------------------------------------------------------------------
(* SingleListLoader::refresh: id is 0 if the file is gone.                   *)
refreshSingle(s, id, fate) ==
  LET c == closeList(s, s.tables[1])
      o == openList(c.s, [c.t EXCEPT !.id = id], fate)
  IN  IF s.tables[1].id = id THEN s ELSE [o.s EXCEPT !.tables = <<o.t>>]

(* ContainerHelper::copy: tables that are still there are moved, the others  *)
(* opened before the ones that are gone are closed.                          *)
copyTable(c, id, fate) ==
  LET at == {i \in DOMAIN c.old : c.old[i].id = id}
      i  == Min(at)
      o  == openList(c.s, NewList(id), fate)
  IN  IF at # {} THEN [c EXCEPT !.neo = Append(@, c.old[i]), !.old[i] = ListMovedFrom(@)]
      ELSE [c EXCEPT !.s = o.s, !.neo = Append(@, o.t)]

copyTables(s, ids, fate) ==
  LET c    == FoldLeft(LAMBDA d, id : copyTable(d, id, fate), [s |-> s, old |-> s.tables, neo |-> <<>>], ids)
      left == FoldLeft(LAMBDA k, t : closeList(k, t).s, c.s, c.old)
  IN  [left EXCEPT !.tables = c.neo]

(* MMAPFileRW::create, for a hash index that is built in several passes.     *)
rw_create(s, fate) ==
  LET c   == Closed(s, s.work)
      got == CASE fate = "open" -> Got(c, MMAPFile(Nullptr))
               [] fate = "size" -> Got(fdClose(fdOpen(c)), MMAPFile(Nullptr))     \* ftruncate
               [] OTHER         -> mmap__(fdOpen(c), <<0, "work">>, fate = "mmap")
  IN  [got.s EXCEPT !.work = got.f]

(* MMapMemoryResource: made, moved into the place where it stays, destroyed; *)
(* it throws if there is no memory, of huge pages or of others.              *)
mm_create(s, huge, fate) ==
  IF ~ huge /\ fate = "mmap" THEN s ELSE [mmap(s, <<0, "buffer">>) EXCEPT !.buffer = MMAPFile(<<0, "buffer">>)]
mm_move(s)    == Closed(s, movedFrom(s.buffer))
mm_destroy(s) == [Closed(s, s.buffer) EXCEPT !.buffer = movedFrom(@)]

(* socket_create, of TCP or UNIX, where the name of a path may be too long.  *)
socket_options(options, fate) == fate \notin options
socket_error_(s) == fdClose(s)
socket_server_(s, fate) == IF fate \in {"bind", "listen"} THEN fdClose(s) ELSE [s EXCEPT !.servers = @ + 1]

socket_create(s, options, fate) ==
  CASE fate \in {"name", "socket"} -> s
    [] fate \notin {"name", "socket"} /\ ~ socket_options(options, fate) -> socket_error_(fdOpen(s))
    [] OTHER -> socket_server_(fdOpen(s), fate)

SOCKET_DEFAULTOPT_UNIX == {"nonblock"}
SOCKET_DEFAULTOPT_TCP  == SOCKET_DEFAULTOPT_UNIX \cup {"tcpnodelay", "reuseaddr"}

-----------------------------------------------------------------------------
(* FileWriterFD: what is written waits in the buffer, what does not fit there *)
(* goes to the file at once, behind what waits.  Bytes are numbered as the    *)
(* caller writes them.  torn tells that a write of the system has failed: the *)
(* bytes are given up, and nobody is told.                                    *)

NoFile == [fd |-> FALSE, said |-> 0, buffer |-> <<>>, file |-> <<>>, torn |-> FALSE]

sys_write(w, bytes, fails) ==
  IF fails THEN [w EXCEPT !.torn = TRUE] ELSE [w EXCEPT !.file = @ \o bytes]

fw_flush(w, fails) ==
  IF w.buffer = <<>> THEN w ELSE [sys_write(w, w.buffer, fails) EXCEPT !.buffer = <<>>]

fw_put(w, byte, fails) ==
  LET room == IF Len(w.buffer) = WriteRoom THEN fw_flush(w, fails) ELSE w
  IN  [room EXCEPT !.buffer = Append(@, byte)]

fw_write(w, size, fails) ==
  LET bytes == [i \in 1 .. size |-> w.said + i]
      new   == [w EXCEPT !.said = @ + size]
  IN  IF size > WriteRoom THEN sys_write(fw_flush(new, "flush" \in fails), bytes, "write" \in fails)
      ELSE FoldLeft(LAMBDA v, byte : fw_put(v, byte, "flush" \in fails), new, bytes)

fw_open(s, fate) ==
  IF fate = "open" THEN [s EXCEPT !.writer = NoFile] ELSE [fdOpen(s) EXCEPT !.writer = [NoFile EXCEPT !.fd = TRUE]]

fw_close(s, fails) ==
  IF ~ s.writer.fd THEN s ELSE [fdClose(s) EXCEPT !.writer = [fw_flush(@, fails) EXCEPT !.fd = FALSE]]

-----------------------------------------------------------------------------
NewHandles(loader, mode, vm) ==
  [loader |-> loader, mode |-> mode, vm |-> vm, fds |-> 0, servers |-> 0, broken |-> FALSE, lost |-> {},
   maps |-> EmptyBag, blocks |-> [b \in Blocks |-> Nullptr], free |-> Blocks,
   work |-> MMAPFile(Nullptr), buffer |-> MMAPFile(Nullptr), writer |-> NoFile,
   tables |-> IF loader = "single" THEN <<NewList(0)>> ELSE <<>>]

TablesNext ==
  \E ids \in IdLists, fate \in TableFates :
    /\ fate[1] \in ToSet(ids) \cup {0}
    /\ \/ /\ box.loader = "single"
          /\ box' = refreshSingle(box, IF ids = <<>> THEN 0 ELSE ids[1], fate)
       \/ box.loader = "directory" /\ box' = copyTables(box, ids, fate)

WorkNext ==
  /\ box.loader = "none"
  /\ \/ \E fate \in Fates : box' = rw_create(box, fate)
     \/ box' = [Closed(box, box.work) EXCEPT !.work = movedFrom(@)]
     \/ ~ isOpen(box.buffer) /\ \E huge \in BOOLEAN, fate \in Fates : box' = mm_create(box, huge, fate)
     \/ isOpen(box.buffer) /\ (box' = mm_move(box) \/ box' = mm_destroy(box))
     \/ /\ box.servers < MaxServers
        /\ \E options \in {SOCKET_DEFAULTOPT_UNIX, SOCKET_DEFAULTOPT_TCP, SOCKET_DEFAULTOPT_TCP \cup {"reuseport"}} :
             \E fate \in {"none", "name", "socket", "bind", "listen"} \cup options : box' = socket_create(box, options, fate)

WriterNext ==
  /\ box.loader = "writer"
  /\ \/ ~ box.writer.fd /\ \E fate \in {"none", "open"} : box' = fw_open(box, fate)
     \/ /\ box.writer.fd
        /\ \E fails \in SUBSET {"flush", "write"} :
             \/ \E size \in 1 .. MaxWritten - box.writer.said : box' = [box EXCEPT !.writer = fw_write(@, size, fails)]
             \/ box' = [box EXCEPT !.writer = fw_flush(@, "flush" \in fails)]
             \/ box' = fw_close(box, "flush" \in fails)

HandlesNext == (TablesNext \/ WorkNext \/ WriterNext) /\ UNCHANGED plain

-----------------------------------------------------------------------------
Holders == ((DOMAIN box.tables) \X Parts) \cup {<<0, "work">>, <<0, "buffer">>}
HeldBy(h) ==
  CASE h = <<0, "work">>   -> box.work
    [] h = <<0, "buffer">> -> box.buffer
    [] h[1] # 0            -> box.tables[h[1]].files[h[2]]

(* However tables are opened, moved by a reload and closed, whatever call of *)
(* the system fails: no descriptor but those of the servers stays open, what *)
(* is mapped or taken from the slab has one owner, who sees its own file in  *)
(* it, nothing is given back twice, and only a failing read loses a block.   *)
(* A file that is written holds what was written, in that order, but for what *)
(* waits in the buffer, until a write of the system fails, and never a byte   *)
(* twice or before an earlier one.                                            *)
HandlesOwned ==
  LET mine(h) == IF h[1] = 0 THEN h ELSE <<box.tables[h[1]].id, h[2]>>
      held(is) == {h \in Holders : HeldBy(h).is = is /\ isOpen(HeldBy(h))}
      filled   == {b \in Blocks : box.blocks[b] # Nullptr}
      w        == box.writer
  IN  /\ ~ box.broken /\ box.fds = box.servers + (IF w.fd THEN 1 ELSE 0)
      /\ ~ w.torn => w.file \o w.buffer = [i \in 1 .. w.said |-> i]
      /\ ~ w.fd => w.buffer = <<>>
      /\ \A i, j \in DOMAIN w.file : i < j => w.file[i] < w.file[j]
      /\ box.maps = SetToBag({mine(h) : h \in held("mmap")})
      /\ \A h \in held("mmap") : HeldBy(h).at = mine(h)
      /\ \A h \in held("sbo") : box.blocks[HeldBy(h).at] = mine(h)
      /\ Cardinality(filled) = Cardinality(held("sbo"))
      /\ \A b \in Blocks : Cardinality({part \in {box.free, box.lost, filled} : b \in part}) = 1
=============================================================================
