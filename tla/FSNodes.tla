------------------------------- MODULE FSNodes -------------------------------
(***************************************************************************)
(* The node graph of FS in src/page/public/linux64/linux-analyzer.js, as   *)
(* the guest's path system calls change it, and FS.lookupPath walking it.  *)
(*                                                                         *)
(* FS.staticInit mounts MEMFS at "/" and the page mounts IDBFS on          *)
(* /<MountPoint> (src/page/src/filesystem.ts:63-64); both keep their nodes *)
(* with MEMFS's node_ops.  A node is an FSNode: its id (FS.nextInode), its *)
(* parent, name, kind, symlink target and mount.  `contents` is each MEMFS *)
(* directory's contents object (readdir, rmdir and rename read it);        *)
(* `nameTable` is FS.nameTable, whose chains are the only thing            *)
(* FS.lookupNode consults: MEMFS's node_ops.lookup always throws ENOENT.   *)
(* Nodes are directories and symlinks; the other default directories and   *)
(* devices are left out, and so are regular files, whose creation goes     *)
(* through the same FS.mknod as a directory's.  nodePermissions only asks *)
(* that some r, w or x bit be set and every node here is 0777, so          *)
(* permissions never refuse and are left out, as are timestamps.  The cwd  *)
(* is "/":                                                                 *)
(* nothing imports chdir, so SYSCALLS.calculateAt makes every path         *)
(* absolute.                                                               *)
(***************************************************************************)
EXTENDS PathOps, FiniteSets

CONSTANTS
  Names,       \* the names the guest uses (strings), MountPoint and DotNames among them
  MountPoint,  \* the directory under "/" where IDBFS is mounted
  NameHash,    \* the string hash of hashName for each name, "/" included
  HashSize,    \* FS.nameTable.length
  MaxNodes,    \* bound on FS.nextInode
  SymloopMax,  \* lookupPath's limit on consecutive symlinks (40)
  NoNode,      \* no node: undefined, null, or a missing contents key
  PathArgs,    \* the paths the guest passes
  TargetArgs,  \* the symlink targets it passes
  LookupArgs   \* the paths the properties look up

Comps == Names \cup {".", ".."}
Ids == 1 .. MaxNodes
Buckets == 0 .. HashSize - 1
Targets == [abs : BOOLEAN, parts : Seq(Comps)]

\* The root of the MEMFS root mount, the mountpoint directory, and the
\* root of the IDBFS mount, in the order FS.staticInit and the page make them.
RootId == 1
MountDirId == 2
MountRootId == 3

VARIABLES node, contents, nameTable, nextInode

vars == <<node, contents, nameTable, nextInode>>

Node(p, n, k, l, m) == [parent |-> p, name |-> n, kind |-> k, link |-> l, mount |-> m]

TypeOK ==
  /\ nextInode \in MountRootId + 1 .. MaxNodes + 1
  /\ \A x \in Ids : node[x] = NoNode <=> x >= nextInode
  /\ \A x \in Ids : node[x] = NoNode \/ node[x] \in
        [parent : Ids, name : Comps \cup {"/"}, kind : {"dir", "link"},
         link : Targets \cup {NoNode}, mount : {"/", MountPoint}]
  /\ contents \in [Ids -> [Comps -> Ids \cup {NoNode}]]
  /\ nameTable \in [Buckets -> Seq(Ids)]

(***************************************************************************)
(* The hash table.                                                         *)
(***************************************************************************)

\* FS.hashName(parentid, name).
HashName(pid, name) == (pid + NameHash[name]) % HashSize

\* FS.hashAddNode: the node goes in front of its chain.
HashAdd(nt, x, n) ==
  LET h == HashName(n.parent, n.name) IN [nt EXCEPT ![h] = <<x>> \o @]

\* FS.hashRemoveNode: its first occurrence in the chain of its parent and
\* name as they are now is unlinked.
HashRemove(nt, x, n) ==
  LET h == HashName(n.parent, n.name) IN [nt EXCEPT ![h] = RemoveFirst(@, x)]

Err(e) == [err |-> e, path |-> <<>>, node |-> NoNode]
Found(p, x) == [err |-> 0, path |-> p, node |-> x]

\* Mutant: only the root of the "/" mount taken for a root.
IsRootNotMount(x) == node[x].parent = x /\ node[x].mount = "/"

IsRoot(x) == node[x].parent = x
IsDir(x) == node[x].kind = "dir"
Mounted(x) == IF x = MountDirId THEN MountRootId ELSE NoNode

\* FS.lookupNode(parent, name): mayLookup's ENOTDIR, then the first node
\* of the chain with that parent id and name, else MEMFS lookup's ENOENT.
LookupNode(p, name) ==
  IF ~IsDir(p) THEN Err(54)
  ELSE LET ch == SelectSeq(nameTable[HashName(p, name)],
                           LAMBDA x : node[x].parent = p /\ node[x].name = name)
       IN IF ch = <<>> THEN Err(44) ELSE Found(<<>>, Head(ch))

(***************************************************************************)
(* FS.lookupPath(path, opts).  Walk is one pass of the linkloop over the   *)
(* components of `parts`, the absolute path being walked, with `cp`        *)
(* current_path (normalized) and `n` nlinks.  A ".." at the root of a      *)
(* mount and a symlink end the pass with `continue linkloop` on a new path *)
(* (Again); only the symlink counts against the limit.                     *)
(***************************************************************************)
Again(parts, n) == [err |-> -1, path |-> parts, node |-> n]

RECURSIVE Walk(_, _, _, _, _, _)
Walk(parts, i, cur, cp, n, o) ==
  IF i > Len(parts) \/ (i = Len(parts) /\ o.parent) THEN Found(cp, cur)
  ELSE
  LET islast == i = Len(parts)
      c == parts[i]
      rest == SubSeq(parts, i + 1, Len(parts))
  IN IF c = "." THEN Walk(parts, i + 1, cur, cp, n, o)
     ELSE IF c = ".." THEN
       IF IsRoot(cur) THEN Again(Dirname(cp) \o rest, n)
       ELSE Walk(parts, i + 1, node[cur].parent, Dirname(cp), n, o)
     ELSE
     LET cp2 == Join2(cp, c)
         r == LookupNode(cur, c)
         nx == IF Mounted(r.node) /= NoNode /\ (~islast \/ o.follow_mount)
               THEN Mounted(r.node) ELSE r.node
     IN IF r.err /= 0 THEN
          IF r.err = 44 /\ islast /\ o.noent_okay THEN Found(cp2, NoNode) ELSE r
        ELSE IF node[nx].kind = "link" /\ (~islast \/ o.follow) THEN
          LET l == node[nx].link
          IN Again((IF l.abs THEN <<>> ELSE Dirname(cp2)) \o l.parts \o rest, n + 1)
        ELSE Walk(parts, i + 1, nx, cp2, n, o)

\* The linkloop: passes while nlinks < 40, then ELOOP.
RECURSIVE LinkLoop(_, _, _)
LinkLoop(parts, n, o) ==
  IF n >= SymloopMax THEN Err(32)
  ELSE LET w == Walk(parts, 1, RootId, <<>>, n, o)
       IN IF w.err = -1 THEN LinkLoop(w.path, w.node, o) ELSE w

LookupPath(parts, o) == LinkLoop(parts, 0, o)

\* The options the callers below pass: {parent: true}, the default and
\* {follow: true} (with parent, follow is never read).
ParentOpts == [parent |-> TRUE, follow |-> FALSE, follow_mount |-> TRUE, noent_okay |-> FALSE]
LookupOpts == {ParentOpts} \cup [parent : {FALSE}, follow : BOOLEAN, follow_mount : {TRUE}, noent_okay : {FALSE}]

\* FS.getPath(node): names up the parent links to a mount root, under its
\* mountpoint.  A parent chain longer than MaxNodes is a cycle, where the
\* code never returns; NoNode stands for that.
GetPath(x) ==
  LET RECURSIVE Up(_, _, _)
      Up(y, acc, k) ==
        IF k > MaxNodes THEN NoNode
        ELSE IF IsRoot(y) THEN (IF node[y].mount = "/" THEN <<>> ELSE <<MountPoint>>) \o acc
        ELSE Up(node[y].parent, <<node[y].name>> \o acc, k + 1)
  IN Up(x, <<>>, 0)

(***************************************************************************)
(* Node operations.                                                        *)
(***************************************************************************)

\* FS.mayCreate(dir, name): ENOTDIR, then EEXIST when lookupNode finds it.
MayCreate(d, name) == IsDir(d) /\ LookupNode(d, name).err /= 0

\* FS.mayDelete(dir, name, isdir): lookupNode's error, then a directory is
\* wanted (ENOTDIR) and must not be a mount root or the cwd "/" (EBUSY), or
\* is refused (EISDIR).
MayDelete(d, name, isdir) ==
  LET r == LookupNode(d, name)
  IN /\ r.err = 0
     /\ IF isdir THEN IsDir(r.node) /\ ~IsRoot(r.node) ELSE ~IsDir(r.node)

\* Mutant: the FSNode takes FS.nextInode without the increment.
CreateNodeSameId(p, name, kind, link) ==
  LET n == Node(p, name, kind, link, node[p].mount)
  IN /\ nextInode <= MaxNodes
     /\ node' = [node EXCEPT ![nextInode] = n]
     /\ contents' = [contents EXCEPT ![p][name] = nextInode]
     /\ nameTable' = HashAdd(nameTable, nextInode, n)
     /\ UNCHANGED nextInode

\* MEMFS.createNode under FS.createNode: a new FSNode with the next id and
\* its parent's mount, hashed, and stored in the parent's contents.
CreateNode(p, name, kind, link) ==
  LET n == Node(p, name, kind, link, node[p].mount)
  IN /\ nextInode <= MaxNodes
     /\ node' = [node EXCEPT ![nextInode] = n]
     /\ contents' = [contents EXCEPT ![p][name] = nextInode]
     /\ nameTable' = HashAdd(nameTable, nextInode, n)
     /\ nextInode' = nextInode + 1

\* Mutant: the node removed from contents but left in its hash chain.
RemoveNodeNoUnhash(p, name, x) ==
  /\ contents' = [contents EXCEPT ![p][name] = NoNode]
  /\ UNCHANGED <<node, nameTable, nextInode>>

\* FS.destroyNode after MEMFS unlink/rmdir deleted the contents key.
RemoveNode(p, name, x) ==
  /\ contents' = [contents EXCEPT ![p][name] = NoNode]
  /\ nameTable' = HashRemove(nameTable, x, node[x])
  /\ UNCHANGED <<node, nextInode>>

(***************************************************************************)
(* The guest's system calls.                                               *)
(***************************************************************************)

\* ___syscall_mkdirat -> FS.mkdir -> FS.mknod: the parent is looked up,
\* basename "." or ".." is EEXIST, mayCreate, MEMFS mknod.
Mkdir(path) ==
  LET lk == LookupPath(path, ParentOpts)
      name == Basename(path)
  IN /\ lk.err = 0
     /\ name \notin {".", ".."}
     /\ MayCreate(lk.node, name)
     /\ CreateNode(lk.node, name, "dir", NoNode)

\* ___syscall_symlinkat -> FS.symlink: an empty target is ENOENT; the
\* parent is looked up, mayCreate, MEMFS symlink.  Unlike mknod nothing
\* refuses the name "." or "..".
Symlink(target, path) ==
  LET lk == LookupPath(path, ParentOpts)
      name == Basename(path)
  IN /\ ~IsEmptyPath(target)
     /\ lk.err = 0
     /\ MayCreate(lk.node, name)
     /\ CreateNode(lk.node, name, "link", target)

\* ___syscall_unlinkat with no flags -> FS.unlink: the parent is looked up,
\* lookupNode, mayDelete of a non-directory, EBUSY on a mountpoint, MEMFS
\* unlink, destroyNode.
Unlink(path) ==
  LET lk == LookupPath(path, ParentOpts)
      name == Basename(path)
      x == LookupNode(lk.node, name).node
  IN /\ lk.err = 0
     /\ MayDelete(lk.node, name, FALSE)
     /\ Mounted(x) = NoNode
     /\ RemoveNode(lk.node, name, x)

\* ___syscall_unlinkat with AT_REMOVEDIR -> FS.rmdir: as unlink for a
\* directory; MEMFS rmdir refuses one with contents (ENOTEMPTY).
Rmdir(path) ==
  LET lk == LookupPath(path, ParentOpts)
      name == Basename(path)
      x == LookupNode(lk.node, name).node
  IN /\ lk.err = 0
     /\ MayDelete(lk.node, name, TRUE)
     /\ Mounted(x) = NoNode
     /\ \A c \in Comps : contents[x][c] = NoNode
     /\ RemoveNode(lk.node, name, x)

\* ___syscall_renameat -> FS.rename(a, b) and MEMFS rename, in the code's
\* order: both parents, EXDEV across mounts, the source's lookupNode, the
\* two lexical ancestor checks on PATH_FS.relative (EINVAL, ENOTEMPTY), the
\* early return when both name one node, mayDelete/mayCreate, EBUSY on a
\* mountpoint.  Then the source leaves the hash; MEMFS refuses to replace
\* a directory with contents, or unhashes the replaced node and rewires the
\* contents; the source takes its new name and parent; and the finally
\* clause hashes it again, in front of its chain even after ENOTEMPTY.
Rename(a, b) ==
  LET od == LookupPath(a, ParentOpts)
      nd == LookupPath(b, ParentOpts)
      oname == Basename(a)
      nname == Basename(b)
      x == LookupNode(od.node, oname).node
      y == LookupNode(nd.node, nname).node
      isdir == IsDir(x)
      nt == HashRemove(nameTable, x, node[x])
  IN /\ od.err = 0 /\ nd.err = 0
     /\ node[od.node].mount = node[nd.node].mount
     /\ x /= NoNode
     /\ RelativeStartsWithDot(Abs(a), Abs(Dirname(b)))
     /\ RelativeStartsWithDot(Abs(b), Abs(Dirname(a)))
     /\ x /= y
     /\ MayDelete(od.node, oname, isdir)
     /\ IF y /= NoNode THEN MayDelete(nd.node, nname, isdir) ELSE MayCreate(nd.node, nname)
     /\ Mounted(x) = NoNode /\ Mounted(y) = NoNode
     /\ IF y /= NoNode /\ isdir /\ \E c \in Comps : contents[y][c] /= NoNode
        THEN /\ nameTable' = HashAdd(nt, x, node[x])
             /\ UNCHANGED <<node, contents, nextInode>>
        ELSE LET n == [node[x] EXCEPT !.parent = nd.node, !.name = nname]
             IN /\ node' = [node EXCEPT ![x] = n]
                /\ contents' = [contents EXCEPT ![od.node][oname] = NoNode,
                                                ![nd.node][nname] = x]
                /\ nameTable' = HashAdd(IF y /= NoNode THEN HashRemove(nt, y, node[y]) ELSE nt, x, n)
                /\ UNCHANGED nextInode

(***************************************************************************)
(* The state after FS.staticInit and the page's mkdir and IDBFS mount.     *)
(***************************************************************************)
Init ==
  LET n1 == Node(RootId, "/", "dir", NoNode, "/")
      n2 == Node(RootId, MountPoint, "dir", NoNode, "/")
      n3 == Node(MountRootId, "/", "dir", NoNode, MountPoint)
  IN /\ node = [x \in Ids |-> CASE x = RootId -> n1 [] x = MountDirId -> n2
                                 [] x = MountRootId -> n3 [] OTHER -> NoNode]
     /\ contents = [x \in Ids |-> [c \in Comps |->
                      IF x = RootId /\ c = MountPoint THEN MountDirId ELSE NoNode]]
     /\ nameTable = HashAdd(HashAdd(HashAdd([h \in Buckets |-> <<>>],
                      RootId, n1), MountDirId, n2), MountRootId, n3)
     /\ nextInode = MountRootId + 1

\* ___syscall_stat64, newfstatat and readlinkat look a path up
\* (FS.stat, FS.lstat, FS.readlink) and change no node.
Stat(path) == UNCHANGED vars

Next ==
  \/ \E p \in PathArgs : Mkdir(p) \/ Unlink(p) \/ Rmdir(p) \/ Stat(p)
  \/ \E t \in TargetArgs, p \in PathArgs : Symlink(t, p)
  \/ \E a, b \in PathArgs : Rename(a, b)

Spec == Init /\ [][Next]_vars

(***************************************************************************)
(* Properties.                                                             *)
(***************************************************************************)

\* FS.nameTable is a cache of the directories' contents (spec section 4.2):
\* for every directory and name, FS.lookupNode finds exactly the node that
\* MEMFS's contents holds under that name, after any sequence of creates,
\* renames over existing names, unlinks and rmdirs whose hashRemoveNode and
\* hashAddNode calls share chains.
HashMatchesContents ==
  \A d \in MountRootId + 0 .. nextInode - 1 \cup {RootId, MountDirId} :
    IsDir(d) => \A c \in Comps : LookupNode(d, c).node = contents[d][c]

\* The path lookupPath returns with a node is that node's own path
\* (FS.getPath), whatever symlinks, "." and ".." and the IDBFS mount the
\* walk went through: FS.open and FS.mount keep lookup.path as the name of
\* lookup.node.
LookupPathNamesNode ==
  \A p \in LookupArgs, o \in LookupOpts :
    LET r == LookupPath(p, o)
    IN r.err = 0 /\ r.node /= NoNode => GetPath(r.node) = r.path

\* PATH.normalizeArray, scanning from the end with a count of pending ups,
\* agrees with the left-to-right stack, and PATH.normalize is idempotent
\* (spec section 8), on the paths lookupPath builds when it follows a
\* symlink of the tree: the link's target, then the rest of a path.
LinkPaths ==
  {node[x].link.parts \o q : x \in {y \in Ids : node[y] /= NoNode /\ node[y].kind = "link"},
                              q \in LookupArgs}

NormalizeMatchesReference ==
  \A parts \in LinkPaths, abs \in BOOLEAN :
    LET p == [abs |-> abs, parts |-> parts]
    IN /\ NormalizeArray(parts, ~abs) = RefNormalizeArray(parts, ~abs)
       /\ Normalize(Normalize(p)) = Normalize(p)

\* PATH_FS.relative(from, to) is a path from `from` to `to`: resolved after
\* from it gives to, from the path of every node of the tree (FS.getPath)
\* to any path.  FS.rename's ancestor checks read its first character.
RelativeRoundTrips ==
  \A a \in {GetPath(x) : x \in {y \in Ids : node[y] /= NoNode}} \ {NoNode}, b \in LookupArgs :
    NormalizeArray(Resolve(Abs(a)) \o Relative(Abs(a), Abs(b)), FALSE) = Resolve(Abs(b))

====
