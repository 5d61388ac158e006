------------------------------- MODULE IDBFS -------------------------------
(***************************************************************************)
(* IDBFS of src/page/public/linux64/linux-analyzer.js: one mount whose     *)
(* MEMFS tree (local, the MemTree module) is reconciled with an IndexedDB  *)
(* object store (remote) by passes of IDBFS.syncfs, and the two things     *)
(* that start passes:                                                      *)
(*  - the mount's autoPersist wrappers, whose queuePersist coalesces       *)
(*    changes behind a timer and an "again" flag (the guest's FS calls);   *)
(*  - an explicit FS.syncfs after each operation of the page's Filesystem  *)
(*    class (src/page/src/filesystem.ts), on a mount without autoPersist.  *)
(*                                                                         *)
(* A pass takes the local set synchronously and opens a readonly           *)
(* transaction; when its key cursor ends, reconcile computes the diff,     *)
(* reads the current local entries of what it creates, and queues one     *)
(* readwrite transaction.  IndexedDB runs transactions on the store in     *)
(* creation order, readonly ones side by side: txq is that order.  The     *)
(* database is open and cached (the mount's populate opened it).           *)
(***************************************************************************)
EXTENDS MemTree, FiniteSets

CONSTANTS
  InitStore,   \* the object store found when the mount is populated
  AutoPersist, \* the mount was made with opts.autoPersist
  Aborts,      \* IndexedDB may abort a readwrite transaction (quota)
  MaxOps,      \* file operations over a run
  MaxTime,     \* last value Date.now() reaches
  WriteData    \* FS.writeFile payloads: TRUE some bytes, FALSE none

Times == 0 .. MaxTime
Data == 0 .. MaxOps + 1   \* contents: 0 none, 1 the stored file, then one per write
Entries == [dir : BOOLEAN, ts : Times, data : Data]
Tree == [Paths -> Entries \cup {NoEntry}]
Pass == [by : {"fs", "persist"}, lset : [Paths -> Times \cup {NoEntry}],
         errored : BOOLEAN, done : BOOLEAN]
\* A transaction: its pass, readonly or readwrite, and the put (an entry)
\* or delete (NoEntry) requested for each path it touches.
IsTx(x) ==
  /\ x.pass \in Nat /\ x.rw \in BOOLEAN /\ DOMAIN x.ops \subseteq Paths
  /\ \A p \in DOMAIN x.ops : x.ops[p] \in Entries \cup {NoEntry}
\* idbPersistState: 0 (written "idle" here), a timer id, "idb", "again".
PersistStates == {"idle", "timer", "idb", "again"}

VARIABLES
  local,        \* the mounted tree
  remote,       \* the committed object store: path -> stored entry
  now,          \* Date.now()
  version,      \* last contents written (names file data)
  nops,         \* file operations so far
  passes,       \* every syncfs pass started, in order
  txq,          \* IndexedDB transactions not yet finished, in creation order
  persistState, \* mount.idbPersistState
  syncReqs,     \* FS.syncFSRequests
  lastSync      \* what the last FS.syncfs callback reported

vars == <<local, remote, now, version, nops, passes, txq, persistState,
          syncReqs, lastSync>>

TypeOK ==
  /\ local \in Tree
  /\ remote \in Tree
  /\ now \in Times
  /\ nops \in 0 .. MaxOps
  /\ passes \in Seq(Pass)
  /\ \A k \in 1 .. Len(txq) : IsTx(txq[k])
  /\ persistState \in PersistStates
  /\ syncReqs \in Nat
  /\ lastSync \in {"ok", "err"}

(***************************************************************************)
(* Mutants: plausible slips in the operators that follow.                  *)
(***************************************************************************)

\* queuePersist arming a new timer while a pass is in flight.
QueuePersistIgnoresInflight(st) ==
  IF st \in {"idle", "idb"} THEN "timer" ELSE IF st = "again" THEN "again" ELSE st

\* queuePersist forgetting the "again" state.
QueuePersistNoAgain(st) == IF st = "idle" THEN "timer" ELSE st

(***************************************************************************)
(* The reconciliation protocol.                                            *)
(***************************************************************************)

\* getLocalSet: a walk of the tree recording each entry's mtime.
LocalSet(t) == [p \in Paths |-> IF t[p] = NoEntry THEN NoEntry ELSE t[p].ts]

\* reconcile's create list (src entries missing from dst or with another
\* timestamp) and remove list (dst entries missing from src).
Creates(ls, r) == {p \in Paths : ls[p] /= NoEntry /\ (r[p] = NoEntry \/ r[p].ts /= ls[p])}
Removes(ls, r) == {p \in Paths : r[p] /= NoEntry /\ ls[p] = NoEntry}

\* loadLocalEntry: FS.lookupPath and FS.stat now, not when the set was taken.
LoadLocalEntry(t, ls, p) == t[p]

\* The readwrite transaction's requests: storeRemoteEntry of each entry
\* that loads, removeRemoteEntry of each removed path.
TxOps(t, ls, r) ==
  [p \in {c \in Creates(ls, r) : t[c] /= NoEntry} \cup Removes(ls, r) |->
     IF p \in Creates(ls, r) THEN LoadLocalEntry(t, ls, p) ELSE NoEntry]

Apply(r, ops) == [p \in Paths |-> IF p \in DOMAIN ops THEN ops[p] ELSE r[p]]

\* storeLocalEntry of each stored path in ascending order (directories
\* before their files): mkdirTree or writeFile, then utime to the stored
\* timestamp; what the mount's populate pass leaves in an empty tree.
RECURSIVE StoreLocal(_, _, _)
StoreLocal(t, s, at) ==
  IF s = <<>> THEN t
  ELSE LET p == Head(s)
           e == InitStore[p]
           r == IF e.dir THEN MkdirTree(t, p, at) ELSE WriteFile(t, p, e.data, at)
           u == IF r.err THEN r.tree ELSE [r.tree EXCEPT ![p].ts = e.ts]
       IN StoreLocal(u, Tail(s), at)

PathLess(a, b) == IsStrictPrefix(a, b) \/ (\E k \in 1 .. Len(a) :
  k <= Len(b) /\ SubSeq(a, 1, k - 1) = SubSeq(b, 1, k - 1) /\ a[k] < b[k])
Populated ==
  StoreLocal([p \in Paths |-> NoEntry],
             SetToSortSeq({p \in Paths : InitStore[p] /= NoEntry}, PathLess), 0)

(***************************************************************************)
(* Starting a pass and running its callback.                               *)
(***************************************************************************)

\* IDBFS.syncfs(mount, false, cb): getLocalSet now, then getRemoteSet's
\* readonly transaction.
Started(ps, tq, by, t) ==
  [ps |-> Append(ps, [by |-> by, lset |-> LocalSet(t), errored |-> FALSE, done |-> FALSE]),
   tq |-> Append(tq, [pass |-> Len(ps) + 1, rw |-> FALSE, ops |-> <<>>])]

\* queuePersist: arm the timer when idle, ask for another pass when one
\* is running, otherwise the pending timer or pass will see the change.
QueuePersist(st) ==
  IF st = "idle" THEN "timer" ELSE IF st = "idb" THEN "again" ELSE st

\* Mutant: the callback decrementing FS.syncFSRequests for the mount's own persist
\* passes too, as if startPersist went through FS.syncfs.
CallbackAlwaysDecrements(i, ok, ps, tq) ==
  LET ps1 == [ps EXCEPT ![i].done = TRUE, ![i].errored = ~ok]
      again == ps[i].by = "persist" /\ persistState = "again"
      st == IF again THEN Started(ps1, tq, "persist", local)
            ELSE [ps |-> ps1, tq |-> tq]
  IN /\ passes' = st.ps
     /\ txq' = st.tq
     /\ persistState' = IF ps[i].by = "fs" THEN persistState
                        ELSE IF again THEN "idb" ELSE "idle"
     /\ syncReqs' = syncReqs - 1
     /\ lastSync' = IF ps[i].by = "fs" THEN IF ok THEN "ok" ELSE "err" ELSE lastSync

\* The pass's callback: FS.syncfs's done/doCallback (the root MEMFS mount
\* has no syncfs and is done at once), or queuePersist's onPersistComplete,
\* which starts the next pass when another was asked for.
Callback(i, ok, ps, tq) ==
  LET ps1 == [ps EXCEPT ![i].done = TRUE, ![i].errored = ~ok]
      again == ps[i].by = "persist" /\ persistState = "again"
      st == IF again THEN Started(ps1, tq, "persist", local) ELSE [ps |-> ps1, tq |-> tq]
  IN /\ passes' = st.ps
     /\ txq' = st.tq
     /\ persistState' = IF ps[i].by = "fs" THEN persistState
                        ELSE IF again THEN "idb" ELSE "idle"
     /\ syncReqs' = IF ps[i].by = "fs" THEN syncReqs - 1 ELSE syncReqs
     /\ lastSync' = IF ps[i].by = "fs" THEN IF ok THEN "ok" ELSE "err" ELSE lastSync

(***************************************************************************)
(* Actions.                                                                *)
(***************************************************************************)

\* The mount after its populate pass: initializeIDBFS awaits it before
\* anything else touches the tree.  With autoPersist, populate's own
\* mknods have queued a persist.
Init ==
  /\ remote = InitStore
  /\ local = Populated
  /\ now = 1
  /\ version = 1
  /\ nops = 0
  /\ passes = <<>>
  /\ txq = <<>>
  /\ persistState = IF AutoPersist /\ Populated /= [p \in Paths |-> NoEntry]
                    THEN "timer" ELSE "idle"
  /\ syncReqs = 0
  /\ lastSync = "ok"

\* A file operation of the guest on the autoPersist mount: the tree
\* changes as MemTree says and each wrapped node_op queues a persist.
GuestOp(r) ==
  /\ nops < MaxOps
  /\ r.tree /= local \/ r.queued
  /\ local' = r.tree
  /\ persistState' = IF r.queued THEN QueuePersist(persistState) ELSE persistState
  /\ nops' = nops + 1
  /\ UNCHANGED <<remote, now, passes, txq, syncReqs, lastSync>>

GuestWrite(p, full) ==
  /\ version' = IF full THEN version + 1 ELSE version
  /\ GuestOp(WriteFile(local, p, IF full THEN version + 1 ELSE 0, now))
GuestMkdir(p) == GuestOp(Mknod(local, p, TRUE, now)) /\ UNCHANGED version
GuestUnlink(p) == GuestOp(Unlink(local, p, now)) /\ UNCHANGED version
GuestRmdir(p) == GuestOp(Rmdir(local, p, now)) /\ UNCHANGED version
GuestRename(a, b) ==
  /\ RenameFits(local, a, b)
  /\ GuestOp(Rename(local, a, b, now))
  /\ UNCHANGED version

\* queuePersist's setTimeout fires: startPersist.
TimerFire ==
  /\ persistState = "timer"
  /\ LET st == Started(passes, txq, "persist", local)
     IN passes' = st.ps /\ txq' = st.tq
  /\ persistState' = "idb"
  /\ UNCHANGED <<local, remote, now, version, nops, syncReqs, lastSync>>

\* A readonly transaction ends its cursor: every transaction created before
\* it is readonly too, so the store it read is the committed one.
\* reconcile: nothing to do calls back at once; otherwise the readwrite
\* transaction is queued, and a create whose local entry is gone makes
\* done(err) call back before the transaction runs.
RemoteSetRead(k) ==
  /\ k \in 1 .. Len(txq)
  /\ ~txq[k].rw
  /\ \A j \in 1 .. k - 1 : ~txq[j].rw
  /\ LET i == txq[k].pass
         ls == passes[i].lset
         rest == RemoveAt(txq, k)
         total == Creates(ls, remote) \cup Removes(ls, remote)
         failed == {p \in Creates(ls, remote) : local[p] = NoEntry}
         rw == [pass |-> i, rw |-> TRUE, ops |-> TxOps(local, ls, remote)]
     IN IF total = {} THEN Callback(i, TRUE, passes, rest)
        ELSE IF failed /= {} THEN Callback(i, FALSE, passes, Append(rest, rw))
        ELSE /\ txq' = Append(rest, rw)
             /\ UNCHANGED <<passes, persistState, syncReqs, lastSync>>
  /\ UNCHANGED <<local, remote, now, version, nops>>

\* The first readwrite transaction commits; oncomplete calls back unless
\* the pass already reported an error.
Commit ==
  /\ txq /= <<>>
  /\ Head(txq).rw
  /\ remote' = Apply(remote, Head(txq).ops)
  /\ LET i == Head(txq).pass
     IN IF passes[i].errored \/ passes[i].done
        THEN txq' = Tail(txq) /\ UNCHANGED <<passes, persistState, syncReqs, lastSync>>
        ELSE Callback(i, TRUE, passes, Tail(txq))
  /\ UNCHANGED <<local, now, version, nops>>

\* The transaction aborts (QuotaExceededError): nothing is stored and
\* onabort's done(err) calls back unless it already did.
Abort ==
  /\ Aborts
  /\ txq /= <<>>
  /\ Head(txq).rw
  /\ LET i == Head(txq).pass
     IN IF passes[i].done
        THEN txq' = Tail(txq) /\ UNCHANGED <<passes, persistState, syncReqs, lastSync>>
        ELSE Callback(i, FALSE, passes, Tail(txq))
  /\ UNCHANGED <<local, remote, now, version, nops>>

\* Time passes between host tasks.
Tick ==
  /\ now < MaxTime
  /\ now' = now + 1
  /\ UNCHANGED <<local, remote, version, nops, passes, txq, persistState,
                 syncReqs, lastSync>>

AutoNext ==
  \/ \E p \in Paths :
       \/ \E full \in WriteData : GuestWrite(p, full)
       \/ GuestMkdir(p) \/ GuestUnlink(p) \/ GuestRmdir(p)
       \/ \E b \in Paths : GuestRename(p, b)
  \/ TimerFire
  \/ \E k \in 1 .. Len(txq) : RemoteSetRead(k)
  \/ Commit
  \/ Abort
  \/ Tick

\* The timer, IndexedDB's events and commits are delivered by the event
\* loop; the guest is free to stop.
AutoSpec ==
  /\ Init /\ [][AutoNext]_vars
  /\ WF_vars(TimerFire)
  /\ WF_vars(\E k \in 1 .. Len(txq) : RemoteSetRead(k))
  /\ WF_vars(Commit)

\* FS.syncfs(false, cb): syncFSRequests grows (a second request only logs a
\* warning), the root MEMFS mount is done at once and the IDBFS mount's
\* pass starts.
FsSyncfs ==
  LET st == Started(passes, txq, "fs", local')
  IN /\ passes' = st.ps /\ txq' = st.tq
     /\ syncReqs' = syncReqs + 1

\* A method of the page's Filesystem class on the /root mount (made without
\* autoPersist): the tree changes synchronously, then sync() runs FS.syncfs;
\* an FS call that throws rejects the method before it syncs, keeping what
\* was done before the throw.
PageOp(r) ==
  /\ nops < MaxOps
  /\ ~r.err \/ r.tree /= local
  /\ local' = r.tree
  /\ nops' = nops + 1
  /\ IF r.err THEN UNCHANGED <<passes, txq, syncReqs>> ELSE FsSyncfs
  /\ UNCHANGED <<remote, now, persistState, lastSync>>

\* storeFiles([file]): _storeFile makes the folder with mkdirTree when the
\* name has a slash, then FS.writeFile.
PageStoreFile(p, full) ==
  LET m == IF Len(p) > 1 THEN MkdirTree(local, Dirname(p), now) ELSE Res(FALSE, local, FALSE)
  IN /\ version' = IF full THEN version + 1 ELSE version
     /\ PageOp(IF m.err THEN m ELSE WriteFile(m.tree, p, IF full THEN version + 1 ELSE 0, now))
PageCreateFolder(p) == PageOp(MkdirTree(local, p, now)) /\ UNCHANGED version
PageRename(a, b) ==
  /\ RenameFits(local, a, b)
  /\ PageOp(Rename(local, a, b, now))
  /\ UNCHANGED version
PageUnlink(p) == PageOp(UnlinkRecursive(local, p, now)) /\ UNCHANGED version

\* The page may start a method while an earlier one still awaits its sync.
PageNext ==
  \/ \E p \in Paths :
       \/ \E full \in WriteData : PageStoreFile(p, full)
       \/ PageCreateFolder(p) \/ PageUnlink(p)
       \/ \E b \in Paths : PageRename(p, b)
  \/ \E k \in 1 .. Len(txq) : RemoteSetRead(k)
  \/ Commit
  \/ Abort
  \/ Tick

PageSpec ==
  /\ Init /\ [][PageNext]_vars
  /\ WF_vars(\E k \in 1 .. Len(txq) : RemoteSetRead(k))
  /\ WF_vars(Commit)

(***************************************************************************)
(* Properties.                                                             *)
(***************************************************************************)

\* What reconcile compares: the same paths with the same mtimes.
StoreMatchesTree ==
  \A p \in Paths :
    /\ (local[p] = NoEntry) = (remote[p] = NoEntry)
    /\ local[p] /= NoEntry => local[p].ts = remote[p].ts

\* The last persist pass reported an error, which onPersistComplete drops.
LastPersistFailed ==
  LET ix == {i \in 1 .. Len(passes) : passes[i].by = "persist"}
  IN ix /= {} /\ passes[Max(ix)].errored

\* At most one persist pass is in flight at a time: queuePersist's state
\* machine serialises the passes it starts (spec.md 4.3 and 5).
OnePersistPassInFlight ==
  Cardinality({i \in 1 .. Len(passes) : passes[i].by = "persist" /\ ~passes[i].done}) <= 1

\* Every change the guest makes is eventually persisted: once the guest
\* stops, the store comes to match the tree and stays so, however the
\* changes fell between a pass's local set, its cursor and its commit,
\* unless the last persist pass failed (queuePersist does not retry).
ChangesPersisted == <>[](StoreMatchesTree \/ LastPersistFailed)

\* When no FS.syncfs is in flight and the last one reported success, the
\* store holds every path of the tree with its mtime: what the page's
\* Filesystem methods rely on when their sync() resolves (spec.md 5: the
\* durable backend must serialise its passes).
SyncedTreeWhenIdle ==
  syncReqs = 0 /\ lastSync = "ok" => StoreMatchesTree

\* Once the guest stops, the store holds every file's contents, not only
\* its mtime: what reconcile, which compares mtimes alone, must still get
\* right after a truncation through setattr.
ContentsPersisted == <>[](remote = local)

\* The paths that hold an entry.
EntryPaths(t) == {p \in Paths : t[p] /= NoEntry}

\* FS.rename keeps the tree a tree (spec.md 2: parent/child edges form a
\* tree): whatever rename the guest or the page may issue now, one that
\* succeeds onto a free path only moves entries, so as many remain.  It
\* rests on FS.rename's test that the source is not an ancestor of the
\* target's directory.
NoRenameLosesEntries ==
  \A a, b \in Paths :
    LET r == Rename(local, a, b, now)
    IN RenameFits(local, a, b) /\ local[b] = NoEntry /\ ~r.err =>
         Cardinality(EntryPaths(r.tree)) = Cardinality(EntryPaths(local))

=============================================================================
