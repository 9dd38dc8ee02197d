----------------------------- MODULE Namespace -----------------------------
(***************************************************************************)
(* The file name space: the path walk and the name operations of           *)
(* fs/vfs.c over the directories of fs/tmpfs/tmpfs.c, with the directory   *)
(* entry cache (dcache) between them.                                      *)
(*                                                                         *)
(* A dentry enters the dcache only when a name is created, is keyed by its *)
(* parent dentry and its name, and never leaves the dcache or changes its  *)
(* key.  The dentries the walk can find are therefore the cached chains    *)
(* from the root, and such a dentry is its path: cache maps a path to the  *)
(* inode of its dentry (0: a negative dentry).  Any other dentry is made   *)
(* by one walk and is known to that walk only.  (Distinct keys are assumed *)
(* to fall into distinct hash buckets.)                                    *)
(*                                                                         *)
(* Creators (open with O_CREAT, mkdir, symlink, mknod) look the parent up, *)
(* and then lock it and create: two steps, between which other tasks run.  *)
(* link, unlink, rmdir and rename run in the scenarios with one task.      *)
(* Paths are absolute, and have no "." or ".." component.  An access       *)
(* through a NULL inode pointer changes no inode; where the next step      *)
(* would be a call through it, the operation goes no further.              *)
(***************************************************************************)
EXTENDS Integers, Sequences, FiniteSets, Functions, SequencesExt

CONSTANTS
    Names,          \* file names
    Tasks,          \* the tasks that call the VFS
    MaxIno,         \* bound: inode numbers are 1..MaxIno; 1 is the root
    Paths,          \* the paths the callers pass (sequences of names)
    MaxLinks,       \* bound: links and moves that would raise nlink above it are left out
    MaxSymlinks,    \* MAX_SYMLINKS
    Modes           \* the scenarios: [tasks, what, odd, inos]

VARIABLES
    mode,           \* the scenario: which tasks call, what they create, and what
                    \* else happens: "dirs" directories are renamed or unlinked,
                    \* "oom" the heap runs out, "below" files are created below files
    kind,           \* inode -> "none" | "dir" | "file" | "link" | "dev" | "lost"
    nlink,          \* inode -> inode.nlink
    dir,            \* inode -> tmpfs_inode.dir_list without "." and ".."
    dotdot,         \* inode -> the inode its ".." entry names
    target,         \* inode -> symlink_target
    cache,          \* path -> the inode of the cached dentry, 0 when negative
    op,             \* task -> the creation it is about to do, or Idle
    coherent        \* history: the dcache has never contradicted a directory

vars == <<mode, kind, nlink, dir, dotdot, target, cache, op, coherent>>

Root == 1
None == 0
Failed == -1
Inos == 1..MaxIno
Idle == <<>>

----------------------------------------------------------------------------
(* Directories: an entry is <<name, inode>>, in list order. *)

Matches(list, n) == {k \in DOMAIN list : list[k][1] = n}

\* tmpfs_dir_lookup: the first entry with the name.
DirLookup(list, n) ==
    IF Matches(list, n) = {} THEN None
    ELSE list[CHOOSE k \in Matches(list, n) : \A j \in Matches(list, n) : k <= j][2]

DirAdd(list, n, i) == Append(list, <<n, i>>)

\* tmpfs_dir_remove of the entry tmpfs_dir_lookup finds.
DirRemove(list, n) ==
    IF Matches(list, n) = {} THEN list
    ELSE RemoveAt(list, CHOOSE k \in Matches(list, n) :
                            \A j \in Matches(list, n) : k <= j)

SubDirs(i) == {k \in DOMAIN dir[i] : kind[dir[i][k][2]] = "dir"}

----------------------------------------------------------------------------
(* Dentries: [path, hit, own]: the first hit components are cached dentries, *)
(* own holds the inodes of the remaining ones, private to the walk.          *)

RootDentry == [path |-> <<>>, hit |-> 0, own |-> <<>>]
NoDentry == [path |-> <<>>, hit |-> 0, own |-> <<Failed>>]

\* dentry->inode of the first k components: of the dentry, and of its parents.
InodeAt(d, k) ==
    CASE k > d.hit -> d.own[k - d.hit]
      [] k <= d.hit /\ k = 0 -> Root
      [] OTHER -> cache[SubSeq(d.path, 1, k)]

Inode(d) == IF d = NoDentry THEN Failed ELSE InodeAt(d, Len(d.path))
ParentInode(d) == InodeAt(d, Len(d.path) - 1)
Ancestors(d) == {InodeAt(d, k) : k \in 0..(Len(d.path) - 1)}

Cached(d, n) == d.own = <<>> /\ Append(d.path, n) \in DOMAIN cache

\* vfs_dalloc: the cached dentry of that name, or a new one with no inode.
Dalloc(d, n) ==
    IF Cached(d, n)
    THEN [path |-> Append(d.path, n), hit |-> d.hit + 1, own |-> <<>>]
    ELSE [path |-> Append(d.path, n), hit |-> d.hit, own |-> Append(d.own, None)]

\* One component of the walk: a miss asks the file system, and the new dentry
\* is not put in the dcache.
Component(d, n) ==
    IF Cached(d, n) THEN Dalloc(d, n)
    ELSE [Dalloc(d, n) EXCEPT !.own[Len(d.own) + 1] = DirLookup(dir[Inode(d)], n)]

\* vfs_path_lookup: walk the names from dentry d.  A component below a missing
\* one, or below a device (which has no inode operations), goes no further.
RECURSIVE Walk(_, _, _, _)
Walk(d, names, follow, depth) ==
    IF names = <<>> THEN d
    ELSE IF Inode(d) <= 0 \/ kind[Inode(d)] = "dev" THEN NoDentry
    ELSE LET c == Component(d, Head(names))
         IN  IF follow /\ Inode(c) # None /\ kind[Inode(c)] = "link"
             THEN IF depth >= MaxSymlinks THEN NoDentry
                  ELSE Walk(Walk(RootDentry, target[Inode(c)], follow, depth + 1),
                            Tail(names), follow, depth)
             ELSE Walk(c, Tail(names), follow, depth)

Lookup(p, follow) == Walk(RootDentry, p, follow, 1)

\* vfs_path_parent: the directory of the last component (LOOKUP_DIRECTORY, no
\* LOOKUP_FOLLOW).
ParentOf(p) ==
    LET d == Lookup(Front(p), FALSE)
    IN  IF Inode(d) > 0 /\ kind[Inode(d)] = "dir" THEN d ELSE NoDentry

\* vfs_file_exists, under the lock of the parent inode.
FileExists(d) ==
    IF d.hit >= Len(d.path) - 1 /\ d.path \in DOMAIN cache
    THEN cache[d.path] # None
    ELSE DirLookup(dir[ParentInode(d)], Last(d.path)) # None

\* Assigning dentry->inode: seen by later walks if the dentry is cached.
SetInode(c, d, i) == IF d.own = <<>> THEN [c EXCEPT ![d.path] = i] ELSE c

\* The same followed by vfs_dcache_add.
CacheAdd(d, i) ==
    IF d.hit >= Len(d.path) - 1 THEN (d.path :> i) @@ cache ELSE cache

----------------------------------------------------------------------------
(* The dcache contradicts a directory when a dentry the walk reaches has not *)
(* the inode that the directory gives for its name.                          *)

DentryInode(c, p) == IF p = <<>> THEN Root ELSE c[p]

CoherentIn(dd, c) ==
    \A p \in DOMAIN c :
        LET up == Front(p)
        IN  \/ \E k \in 1..Len(up) : c[SubSeq(up, 1, k)] = None
            \/ c[p] = DirLookup(dd[DentryInode(c, up)], Last(p))

\* The history variable is updated by every action that changes a directory or
\* the dcache.
Watch(dd, c) == coherent' = (coherent /\ CoherentIn(dd, c))

----------------------------------------------------------------------------
(* tmpfs_mount: the root directory. *)

Init ==
    /\ mode \in Modes
    /\ kind = [i \in Inos |-> IF i = Root THEN "dir" ELSE "none"]
    /\ nlink = [i \in Inos |-> IF i = Root THEN 2 ELSE 0]
    /\ dir = [i \in Inos |-> <<>>]
    /\ dotdot = [i \in Inos |-> IF i = Root THEN Root ELSE None]
    /\ target = [i \in Inos |-> <<>>]
    /\ cache = [p \in {} |-> None]
    /\ op = [t \in Tasks |-> Idle]
    /\ coherent = TRUE

\* A run is followed until the dcache contradicts a directory.
Alone == Cardinality(mode.tasks) = 1 /\ coherent /\ \A t \in Tasks : op[t] = Idle

\* tmpfs_alloc_ino: the lowest free number.
FreeInos == {i \in 1..mode.inos : kind[i] = "none"}
NewIno == CHOOSE i \in FreeInos : \A j \in FreeInos : i <= j

(* The creators, up to the lock of the parent inode: name n in directory par. *)

MayStart(t, what) == t \in mode.tasks /\ what \in mode.what /\ op[t] = Idle /\ coherent

Begin(t, what, par, n, to) ==
    /\ op' = [op EXCEPT ![t] = [what |-> what, dentry |-> Dalloc(par, n), to |-> to]]
    /\ UNCHANGED <<mode, kind, nlink, dir, dotdot, target, cache, coherent>>

\* vfs_open with O_CREAT of a path that leads nowhere.  The parent is looked up
\* without LOOKUP_DIRECTORY, so it may be a file.
StartOpen(t, p) ==
    LET par == Lookup(Front(p), TRUE)
    IN  /\ MayStart(t, "file")
        /\ Inode(Lookup(p, TRUE)) = None
        /\ Inode(par) > 0
        /\ \/ kind[Inode(par)] = "dir"
           \/ kind[Inode(par)] = "file" /\ "below" \in mode.odd
        /\ Begin(t, "file", par, Last(p), <<>>)

StartMkdir(t, p) ==
    /\ MayStart(t, "dir")
    /\ ParentOf(p) # NoDentry
    /\ Begin(t, "dir", ParentOf(p), Last(p), <<>>)

StartSymlink(t, p, to) ==
    /\ MayStart(t, "link")
    /\ ParentOf(p) # NoDentry
    /\ Begin(t, "link", ParentOf(p), Last(p), to)

StartMknod(t, p) ==
    /\ MayStart(t, "dev")
    /\ ParentOf(p) # NoDentry
    /\ Begin(t, "dev", ParentOf(p), Last(p), <<>>)

(* Under the lock of the parent inode. *)

\* vfs_file_exists and, in all but tmpfs_mknod, the name is looked up in the
\* directory once more.
NameFree(d, what) ==
    /\ ~FileExists(d)
    /\ what = "dev" \/ DirLookup(dir[ParentInode(d)], Last(d.path)) = None

\* The name exists by now, or a number or memory is missing: nothing changes,
\* except that tmpfs_symlink, without memory for the target, destroys its inode
\* and does not give the number back.
CreateFails(t) ==
    /\ op[t] # Idle
    /\ \/ ~NameFree(op[t].dentry, op[t].what) /\ UNCHANGED kind
       \/ FreeInos = {} /\ UNCHANGED kind
       \/ /\ NameFree(op[t].dentry, op[t].what)
          /\ FreeInos # {}
          /\ "oom" \in mode.odd
          /\ \/ UNCHANGED kind
             \/ op[t].what = "link" /\ kind' = [kind EXCEPT ![NewIno] = "lost"]
    /\ op' = [op EXCEPT ![t] = Idle]
    /\ UNCHANGED <<mode, nlink, dir, dotdot, target, cache, coherent>>

\* tmpfs_inode_init, tmpfs_dir_add and vfs_dcache_add: what all creators do.
AddInode(t, what) ==
    LET d == op[t].dentry
    IN  /\ op[t] # Idle /\ op[t].what = what
        /\ NameFree(d, what)
        /\ FreeInos # {}
        /\ kind' = [kind EXCEPT ![NewIno] = what]
        /\ dir' = [dir EXCEPT ![ParentInode(d)] = DirAdd(@, Last(d.path), NewIno)]
        /\ cache' = CacheAdd(d, NewIno)
        /\ op' = [op EXCEPT ![t] = Idle]
        /\ Watch(dir', cache')
        /\ UNCHANGED mode

TmpfsCreate(t) ==
    /\ AddInode(t, "file")
    /\ nlink' = [nlink EXCEPT ![NewIno] = 1]
    /\ UNCHANGED <<dotdot, target>>

TmpfsMkdir(t) ==
    /\ AddInode(t, "dir")
    /\ nlink' = [nlink EXCEPT ![NewIno] = 2, ![ParentInode(op[t].dentry)] = @ + 1]
    /\ dotdot' = [dotdot EXCEPT ![NewIno] = ParentInode(op[t].dentry)]
    /\ UNCHANGED target

TmpfsSymlink(t) ==
    /\ AddInode(t, "link")
    /\ nlink' = [nlink EXCEPT ![NewIno] = 1]
    /\ target' = [target EXCEPT ![NewIno] = op[t].to]
    /\ UNCHANGED dotdot

\* nlink keeps the 0 of tmpfs_inode_init.
TmpfsMknod(t) ==
    /\ AddInode(t, "dev")
    /\ UNCHANGED <<nlink, dotdot, target>>

----------------------------------------------------------------------------
\* tmpfs_link: the new entry is added without a look at the directory.
MTmpfsLink(i, d) ==
    /\ dir' = [dir EXCEPT ![ParentInode(d)] = DirAdd(@, Last(d.path), i)]
    /\ UNCHANGED <<mode, kind, nlink, dotdot, target, op>>
TmpfsLink(i, d) ==
    /\ dir' = [dir EXCEPT ![ParentInode(d)] = DirAdd(@, Last(d.path), i)]
    /\ nlink' = [nlink EXCEPT ![i] = @ + 1]
    /\ UNCHANGED <<mode, kind, dotdot, target, op>>

\* vfs_link: a second name for what is not a directory.
Link(from, p) ==
    LET i == Inode(Lookup(from, TRUE))
        par == ParentOf(p)
        d == Dalloc(par, Last(p))
    IN  /\ Alone
        /\ i > 0 /\ kind[i] # "dir" /\ nlink[i] < MaxLinks
        /\ par # NoDentry
        /\ ~FileExists(d)
        /\ TmpfsLink(i, d)
        /\ cache' = CacheAdd(d, i)
        /\ Watch(dir', cache')

\* tmpfs_unlink: the inode comes from the dentry, the entry from the directory.
MTmpfsUnlink(d) ==
    /\ DirLookup(dir[ParentInode(d)], Last(d.path)) # None
    /\ dir' = [dir EXCEPT ![ParentInode(d)] = DirRemove(@, Last(d.path))]
    /\ nlink' = IF Inode(d) = None THEN nlink ELSE [nlink EXCEPT ![Inode(d)] = @ - 1]
    /\ UNCHANGED <<mode, kind, dotdot, target, cache, op>>
TmpfsUnlink(d) ==
    /\ DirLookup(dir[ParentInode(d)], Last(d.path)) # None
    /\ dir' = [dir EXCEPT ![ParentInode(d)] = DirRemove(@, Last(d.path))]
    /\ nlink' = IF Inode(d) = None THEN nlink ELSE [nlink EXCEPT ![Inode(d)] = @ - 1]
    /\ cache' = SetInode(cache, d, None)
    /\ UNCHANGED <<mode, kind, dotdot, target, op>>

\* vfs_unlink: the dentry is vfs_dalloc's, with an inode only if it was cached;
\* what kind of inode it is does not matter.
Unlink(p) ==
    LET par == ParentOf(p)
    IN  /\ Alone
        /\ par # NoDentry
        /\ \/ "dirs" \in mode.odd
           \/ \A k \in SubDirs(Inode(par)) : dir[Inode(par)][k][1] # Last(p)
        /\ TmpfsUnlink(Dalloc(par, Last(p)))
        /\ Watch(dir', cache')

TmpfsRmdir(d) ==
    LET par == ParentInode(d)
    IN  /\ dir[Inode(d)] = <<>>
        /\ DirLookup(dir[par], Last(d.path)) # None
        /\ dir' = [dir EXCEPT ![par] = DirRemove(@, Last(d.path))]
        /\ nlink' = [nlink EXCEPT ![Inode(d)] = @ - 1, ![par] = @ - 1]
        /\ cache' = SetInode(cache, d, None)
        /\ UNCHANGED <<mode, kind, dotdot, target, op>>

\* vfs_rmdir.
Rmdir(p) ==
    LET d == Lookup(p, FALSE)
    IN  /\ Alone
        /\ Inode(d) > 0 /\ kind[Inode(d)] = "dir"
        /\ TmpfsRmdir(d)
        /\ Watch(dir', cache')

----------------------------------------------------------------------------
\* vfs_rename: the new dentry is the one the path leads to or, when there is
\* none, vfs_dalloc's in the parent.
RenameTarget(p) ==
    LET d == Lookup(p, TRUE)
    IN  IF Inode(d) # None THEN d
        ELSE IF ParentOf(p) = NoDentry THEN NoDentry
        ELSE Dalloc(ParentOf(p), Last(p))

\* tmpfs_rename, the checks before the directories are locked.
MRenameAllowed(o, n) ==
    /\ ~(Inode(n) > 0 /\ kind[Inode(n)] = "dir" /\ kind[Inode(o)] # "dir")
    /\ Inode(n) > 0 /\ kind[Inode(n)] = "dir" /\ Inode(n) # Inode(o) => dir[Inode(n)] = <<>>
RenameAllowed(o, n) ==
    /\ ~(Inode(n) > 0 /\ kind[Inode(n)] = "dir" /\ kind[Inode(o)] # "dir")
    /\ Inode(n) > 0 /\ kind[Inode(n)] = "dir" /\ Inode(n) # Inode(o) => dir[Inode(n)] = <<>>
    /\ kind[Inode(o)] = "dir" /\ ParentInode(o) # ParentInode(n) =>
           Inode(o) \notin Ancestors(n)

\* The entry the target has is removed first.
Displaces(n) == Inode(n) > 0 /\ DirLookup(dir[ParentInode(n)], Last(n.path)) # None

SameEntry(o, n) ==
    Displaces(n) /\ ParentInode(o) = ParentInode(n) /\ Last(o.path) = Last(n.path)

Displaced(n) ==
    IF Displaces(n) THEN [dir EXCEPT ![ParentInode(n)] = DirRemove(@, Last(n.path))] ELSE dir

\* Within a directory the entry is renamed in place, otherwise it is added to
\* the new directory and removed from the old one.
Moved(dd, o, n) ==
    LET od == ParentInode(o)
        nd == ParentInode(n)
    IN  IF od = nd
        THEN [dd EXCEPT ![od] = [k \in DOMAIN @ |->
                IF k \in Matches(@, Last(o.path)) THEN <<Last(n.path), @[k][2]>> ELSE @[k]]]
        ELSE [dd EXCEPT ![nd] = DirAdd(@, Last(n.path), Inode(o)),
                        ![od] = DirRemove(@, Last(o.path))]

RenameSource(from, to) ==
    LET o == Lookup(from, TRUE)
        n == RenameTarget(to)
    IN  /\ Alone
        /\ Inode(o) > 0
        /\ n # NoDentry
        /\ kind[Inode(o)] = "dir" => "dirs" \in mode.odd
        /\ RenameAllowed(o, n)
        /\ DirLookup(dir[ParentInode(o)], Last(o.path)) # None
        /\ ~SameEntry(o, n)

Rename(from, to) ==
    LET o == Lookup(from, TRUE)
        n == RenameTarget(to)
        od == ParentInode(o)
        nd == ParentInode(n)
        across == od # nd /\ kind[Inode(o)] = "dir"
        dropped == [nlink EXCEPT ![IF Displaces(n) THEN Inode(n) ELSE Root] =
                        IF Displaces(n) THEN @ - 1 ELSE @]
    IN  /\ RenameSource(from, to)
        /\ across => nlink[nd] < MaxLinks
        /\ dir' = Moved(Displaced(n), o, n)
        /\ nlink' = IF across THEN [dropped EXCEPT ![od] = @ - 1, ![nd] = @ + 1] ELSE dropped
        /\ dotdot' = [dotdot EXCEPT ![Inode(o)] = IF across THEN nd ELSE @]
        /\ cache' = SetInode(SetInode(cache, o, None), n, Inode(o))
        /\ Watch(dir', cache')
        /\ UNCHANGED <<mode, kind, target, op>>

\* No memory for the new name: the target's entry is gone all the same, and
\* both dentries keep their inodes.
RenameFails(from, to) ==
    LET n == RenameTarget(to)
    IN  /\ "oom" \in mode.odd
        /\ RenameSource(from, to)
        /\ Displaces(n)
        /\ dir' = Displaced(n)
        /\ nlink' = [nlink EXCEPT ![Inode(n)] = @ - 1]
        /\ Watch(dir', cache)
        /\ UNCHANGED <<mode, kind, dotdot, target, cache, op>>

Next ==
    \/ \E t \in Tasks, p \in Paths :
           \/ StartOpen(t, p) \/ StartMkdir(t, p) \/ StartMknod(t, p)
           \/ \E to \in Paths : StartSymlink(t, p, to)
    \/ \E t \in Tasks :
           \/ TmpfsCreate(t) \/ TmpfsMkdir(t) \/ TmpfsSymlink(t) \/ TmpfsMknod(t)
           \/ CreateFails(t)
    \/ \E p \in Paths : Unlink(p) \/ Rmdir(p)
    \/ \E p, q \in Paths : Link(p, q) \/ Rename(p, q) \/ RenameFails(p, q)

Spec == Init /\ [][Next]_vars

----------------------------------------------------------------------------
NamesOf(i) ==
    UNION {{<<d, k>> : k \in {j \in DOMAIN dir[d] : dir[d][j][2] = i}} : d \in Inos}

TypeOK ==
    /\ mode \in Modes
    /\ kind \in [Inos -> {"none", "dir", "file", "link", "dev", "lost"}]
    /\ nlink \in [Inos -> Int]
    /\ \A i \in Inos : \A k \in DOMAIN dir[i] : dir[i][k] \in Names \X Inos
    /\ dotdot \in [Inos -> Inos \cup {None}]
    /\ target \in [Inos -> Paths \cup {<<>>}]
    /\ \A p \in DOMAIN cache : cache[p] \in Inos \cup {None}
    /\ coherent \in BOOLEAN

\* nlink is never too low: a file or a symbolic link with names left has at
\* least as many links as names, and a directory that has a name has two links
\* and one for each directory in it (tmpfs_link, tmpfs_unlink, tmpfs_rename,
\* tmpfs_mkdir, tmpfs_rmdir), as long as the dcache has told the truth.
LinkCountCovers ==
    /\ TypeOK
    /\ coherent =>
         \A i \in Inos :
            /\ kind[i] \in {"file", "link"} => nlink[i] >= Cardinality(NamesOf(i))
            /\ kind[i] = "dir" /\ (i = Root \/ NamesOf(i) # {}) =>
                   nlink[i] >= 2 + Cardinality(SubDirs(i))

\* The names form a tree as long as the dcache has told the truth: no directory
\* has two entries of one name (tmpfs_link and tmpfs_mknod add an entry without
\* looking), every directory has one name at most, its ".." is the directory
\* that holds the name, and no set of directories holds
\* the names of all its members (tmpfs_rename).
NamesFormTree ==
    coherent =>
        /\ \A d \in Inos : \A j, k \in DOMAIN dir[d] :
               dir[d][j][1] = dir[d][k][1] => j = k
        /\ \A i \in Inos : kind[i] = "dir" =>
               /\ Cardinality(NamesOf(i)) <= IF i = Root THEN 0 ELSE 1
               /\ \A nm \in NamesOf(i) : dotdot[i] = nm[1]
        /\ \A S \in SUBSET {i \in Inos : kind[i] = "dir"} :
               S # {} => \E i \in S : \A nm \in NamesOf(i) : nm[1] \notin S

\* What the dcache says of a name is what the directory says (vfs_file_exists
\* and the walk ask the dcache first), unless a directory is renamed or
\* unlinked, a rename runs out of memory, or a file is created below a file.
CacheTellsTruth == mode.odd = {} => CoherentIn(dir, cache)

=============================================================================
