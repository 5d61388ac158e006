------------------------------ MODULE MemTree ------------------------------
(***************************************************************************)
(* The node tree below one mount of src/page/public/linux64/linux-analyzer.js *)
(* as FS's path operations change it: FS.mknod/mkdir/mkdirTree, FS.open    *)
(* with O_CREAT|O_TRUNC and FS.writeFile, FS.unlink, FS.rmdir and          *)
(* FS.rename, each with MEMFS's node_ops below it.                         *)
(*                                                                         *)
(* MEMFS has no hard links and no symlinks are made here, so a node is     *)
(* named by its path below the mount point: a tree is a function from      *)
(* paths (sequences of names) to an entry or NoEntry.  An entry keeps what *)
(* IDBFS persists: whether it is a directory, its mtime and its contents,  *)
(* a number (0 for an empty file or a directory).  Every operation is an   *)
(* operator returning the error flag, the new tree and whether it went     *)
(* through a node_op that an autoPersist mount wraps with queuePersist.    *)
(* FS.ignorePermissions is false, but nodePermissions only asks that some *)
(* r, w or x bit be set, and every node here is 0777 or 0666: it never    *)
(* refuses, so permissions are left out.                                   *)
(***************************************************************************)
EXTENDS Integers, Sequences, SequencesExt

CONSTANTS
  Paths,    \* paths below the mount point, closed under prefixes
  NoEntry,  \* no node at that path
  DotNames  \* the names that begin with "." (hidden files)

Entry(isDir, t, d) == [dir |-> isDir, ts |-> t, data |-> d]

\* The result of a path operation.
Res(e, t, q) == [err |-> e, tree |-> t, queued |-> q]
Fail(t) == Res(TRUE, t, FALSE)

Dirname(p) == SubSeq(p, 1, Len(p) - 1)
IsDirAt(t, p) == t[p] /= NoEntry /\ t[p].dir

\* FS.lookupPath(path, {parent: true}): every component above the last
\* exists and is a directory (the mount root when the path has one name).
ParentOk(t, p) == Len(p) = 1 \/ IsDirAt(t, Dirname(p))

\* MEMFS sets parent.mtime = now when a child is added or removed; the
\* mount root is not an entry, nor is a parent no path reaches any more.
Touch(t, p, now) ==
  IF Len(p) > 1 /\ t[Dirname(p)] /= NoEntry THEN [t EXCEPT ![Dirname(p)].ts = now] ELSE t

\* PATH_FS.relative(from, to).charAt(0) === "." on resolved paths: the
\* result is a ".." for each component of from past the common prefix,
\* then the rest of to, so it begins with "." when from goes past the
\* prefix or when to's next component is a hidden name; it is "" when to
\* is from.  (trim's slice(start, end - start + 1) is right only because
\* resolve leaves no empty component in front: start is always 0.)
RelativeStartsWithDot(from, to) ==
  LET k == Len(LongestCommonPrefix({from, to}))
  IN Len(from) > k \/ (k < Len(to) /\ to[k + 1] \in DotNames)

Children(t, p) == {c \in Paths : Len(c) = Len(p) + 1 /\ IsPrefix(p, c) /\ t[c] /= NoEntry}

\* FS.mayCreate(dir, name): lookupNode finding the name is EEXIST (the
\* parent being a directory is ParentOk's; permissions are off).
MayCreate(t, p) == t[p] = NoEntry

\* FS.mayDelete(dir, name, isdir): lookupNode's ENOENT, then a directory
\* is wanted (ENOTDIR) or refused (EISDIR).  The EBUSY of the root or the
\* cwd never applies below the mount: nothing calls chdir, cwd stays "/".
MayDelete(t, p, isdir) == t[p] /= NoEntry /\ t[p].dir = isdir

\* FS.mknod: the parent is looked up, mayCreate refuses an existing name
\* (EEXIST), and MEMFS.createNode stamps the node and its parent.
Mknod(t, p, isDir, now) ==
  IF ~ParentOk(t, p) \/ ~MayCreate(t, p) THEN Fail(t)
  ELSE Res(FALSE, Touch([t EXCEPT ![p] = Entry(isDir, now, 0)], p, now), TRUE)

\* FS.mkdirTree: FS.mkdir on every prefix, ignoring EEXIST only.
RECURSIVE MkdirFrom(_, _, _, _, _)
MkdirFrom(t, p, k, now, q) ==
  IF k > Len(p) THEN Res(FALSE, t, q)
  ELSE LET d == SubSeq(p, 1, k)
           r == Mknod(t, d, TRUE, now)
       IN IF ~r.err THEN MkdirFrom(r.tree, p, k + 1, now, TRUE)
          ELSE IF t[d] /= NoEntry THEN MkdirFrom(t, p, k + 1, now, q)
          ELSE Res(TRUE, t, q)
MkdirTree(t, p, now) == MkdirFrom(t, p, 1, now, FALSE)

\* FS.open(p, O_CREAT|O_TRUNC|O_WRONLY): a directory is EISDIR, a missing
\* file is made with FS.mknod, an existing one is truncated by
\* FS.truncate -> doTruncate -> MEMFS setattr, which resizes the contents
\* and ignores the timestamp doSetAttr passes: the mtime stays.
Open(t, p, now) ==
  IF ~ParentOk(t, p) \/ IsDirAt(t, p) THEN Fail(t)
  ELSE IF t[p] = NoEntry THEN Mknod(t, p, FALSE, now)
  ELSE Res(FALSE, [t EXCEPT ![p].data = 0], FALSE)

\* MEMFS stream_ops.write: no bytes returns at once; otherwise the node is
\* stamped and holds the data.
Write(t, p, d, now) ==
  IF d = 0 THEN t ELSE [t EXCEPT ![p].ts = now, ![p].data = d]

\* FS.writeFile(path, data): open, write, close.  FS.write calls the
\* wrapped stream_ops.write even for no bytes, which marks the node
\* modified before MEMFS returns, so the wrapped close always queues a
\* persist.
WriteFile(t, p, d, now) ==
  LET o == Open(t, p, now)
  IN IF o.err THEN o ELSE Res(FALSE, Write(o.tree, p, d, now), TRUE)

\* FS.unlink: the node must exist and not be a directory (EISDIR); the
\* wrapped node_ops.unlink queues, then MEMFS removes it and stamps the
\* parent.
Unlink(t, p, now) ==
  IF ~ParentOk(t, p) \/ ~MayDelete(t, p, FALSE) THEN Fail(t)
  ELSE Res(FALSE, Touch([t EXCEPT ![p] = NoEntry], p, now), TRUE)

\* FS.rmdir: mayDelete wants a directory (ENOTDIR); the wrapped
\* node_ops.rmdir queues before MEMFS refuses a non-empty one (ENOTEMPTY).
Rmdir(t, p, now) ==
  IF ~ParentOk(t, p) \/ ~MayDelete(t, p, TRUE) THEN Fail(t)
  ELSE IF Children(t, p) /= {} THEN Res(TRUE, t, TRUE)
  ELSE Res(FALSE, Touch([t EXCEPT ![p] = NoEntry], p, now), TRUE)

\* The subtree at a moved to b: what was under a is gone and every path
\* under b takes the entry of the same path under a.  When b lies under a
\* the node is filed under its own descendant: the whole subtree is cut
\* off from the root, and no path reaches it.
Moved(t, a, b) ==
  [c \in Paths |->
     IF IsPrefix(a, c) THEN NoEntry
     ELSE IF IsPrefix(b, c)
     THEN LET s == a \o SubSeq(c, Len(b) + 1, Len(c))
          IN IF s \in Paths THEN t[s] ELSE NoEntry
     ELSE t[c]]

\* FS.rename(a, b) and MEMFS node_ops.rename, in the code's order: both
\* parents, the source (ENOENT), the lexical checks that the source is not
\* an ancestor of the target's directory (EINVAL) nor the target one of the
\* source's (ENOTEMPTY), made on the first character of PATH_FS.relative,
\* the early return when both name one node,
\* mayDelete/mayCreate (kinds must agree), the wrapped node_ops.rename
\* queueing, MEMFS refusing to replace a non-empty directory, then the move
\* and the stamping of both parents.
Rename(t, a, b, now) ==
  IF ~ParentOk(t, a) \/ ~ParentOk(t, b) \/ t[a] = NoEntry THEN Fail(t)
  ELSE IF ~RelativeStartsWithDot(a, Dirname(b)) \/ ~RelativeStartsWithDot(b, Dirname(a))
  THEN Fail(t)
  ELSE IF a = b THEN Res(FALSE, t, FALSE)
  ELSE IF ~MayDelete(t, a, t[a].dir)
          \/ (IF t[b] /= NoEntry THEN ~MayDelete(t, b, t[a].dir) ELSE ~MayCreate(t, b))
  THEN Fail(t)
  ELSE IF t[b] /= NoEntry /\ t[a].dir /\ Children(t, b) /= {} THEN Res(TRUE, t, TRUE)
  ELSE Res(FALSE, Touch(Touch(Moved(t, a, b), a, now), b, now), TRUE)

\* Filesystem._unlinkRecursive(p) of src/page/src/filesystem.ts: isFolder's
\* FS.stat throws for a missing path; a file is FS.unlink'ed, a directory
\* has each readdir entry removed first and is then FS.rmdir'ed, which
\* stamps its parent.  Nothing below p can fail once p is found.
UnlinkRecursive(t, p, now) ==
  IF ~ParentOk(t, p) \/ t[p] = NoEntry THEN Fail(t)
  ELSE Res(FALSE, Touch([c \in Paths |-> IF IsPrefix(p, c) THEN NoEntry ELSE t[c]], p, now), TRUE)

\* The rename fits the bounded path set: nothing under a falls off it (a
\* subtree filed under itself goes nowhere).
RenameFits(t, a, b) ==
  IsPrefix(a, b) \/ \A c \in Paths : IsPrefix(a, c) /\ t[c] /= NoEntry =>
      b \o SubSeq(c, Len(a) + 1, Len(c)) \in Paths

=============================================================================
