------------------------------ MODULE Namespace ------------------------------
(***************************************************************************)
(* The path and file layer (vfs_upper.cpp) over the inodes: directory      *)
(* entries, hard links, descriptors and the file that holds the users.     *)
(* Every command is an action that puts its steps into todo; the process   *)
(* may be killed between any two of them.                                  *)
(*                                                                         *)
(* A path is the inode its directory part leads to and its last name.      *)
(* Paths are normalised before they are looked up, so no lookup ever       *)
(* follows "." or "..", and the model leaves these two entries out.        *)
(* Permissions may refuse any command and are left out, too.  Data is kept *)
(* in pieces: a piece of a file is written or not, a piece of a directory  *)
(* is an entry, and nothing in the image tells one kind from the other:    *)
(* what is written to a directory that is open may be read as an entry.    *)
(***************************************************************************)
EXTENDS Inodes

CONSTANTS
    Name,       \* the names given in commands
    Stored,     \* what a directory entry keeps of each: its first 13 bytes
    UsersName,  \* .users
    LastFd,     \* bound: the descriptors of a user are 1..LastFd
    None,       \* no inode
    Spelled,    \* bound: the entries, as pairs of a name and an inode, that data may spell
    MaxCalls,   \* bound: how many commands are given before exit, a kill counting as one
    MaxCrashes  \* bound: how often the process is killed

ASSUME NamespaceAssumption ==
    /\ Stored \in [Name -> Name]
    /\ \A n \in Name : Stored[Stored[n]] = Stored[n]
    /\ UsersName \in Name
    /\ Stored[UsersName] = UsersName
    /\ LastFd \in Nat
    /\ None \notin Ino
    /\ Spelled \subseteq Name \X Ino
    /\ MaxCalls \in Nat
    /\ MaxCrashes \in Nat

VARIABLES
    running, \* whether the process runs with the image mounted
    fds,     \* the open descriptors of the user that is logged in
    store,   \* users_store_inode
    calls,   \* how many commands have been given
    crashes, \* how often the process has been killed
    uncounted, \* history: the inodes that have got an entry their link count does not know
    lost       \* history: the inodes in use that the known causes have lost

vars == <<inodeVars, running, fds, store, calls, crashes, uncounted, lost>>

Root == 0
Fd == 1..LastFd
Entry(n, i) == [kind |-> "entry", name |-> n, ino |-> i]
Data == [kind |-> "data"]
Dots == [kind |-> "dots"]   \* data that reads as an entry for "." or ".."
Piece == {Nothing, Data, Dots} \cup {Entry(n, i) : n \in Name, i \in Ino}

TypeOK ==
    /\ table \in [Ino -> InodeRecord]
    /\ used \subseteq Ino
    /\ freeInodes \in -MaxCrashes..(LastIno + MaxCrashes)
    /\ content \in [Ino -> [Slot -> Piece]]
    /\ running \in BOOLEAN
    /\ fds \in [Fd -> Ino \cup {None}]
    /\ store \in Ino
    /\ calls \in 0..MaxCalls
    /\ crashes \in 0..MaxCrashes
    /\ uncounted \subseteq Ino
    /\ lost \subseteq Ino

NoFds == [f \in Fd |-> None]

\* A freshly formatted image, not mounted yet: the root is its only inode.
Init ==
    /\ table = [i \in Ino |-> IF i = Root THEN NewInode("dir") ELSE FreeInode]
    /\ used = {Root}
    /\ freeInodes = LastIno
    /\ content = [i \in Ino |-> Empty]
    /\ todo = << >>
    /\ running = FALSE
    /\ fds = NoFds
    /\ store = 0
    /\ calls = 0
    /\ crashes = 0
    /\ uncounted = {}
    /\ lost = {}

-----------------------------------------------------------------------------
\* Looking up names.

EntrySlots(d) == {s \in Slot : content[d][s].kind = "entry"}

\* vfs_find_dirent: the first entry of d whose name equals n, which a name
\* longer than an entry keeps never does.
Matching(d, n) == {s \in EntrySlots(d) : content[d][s].name = n}
Found(d, n) == Min(Matching(d, n))

\* namei on the last name of a path, and the inodes some path leads to.
Resolve(d, n) ==
    IF table[d].type = "dir" /\ Matching(d, n) # {} /\ Valid(content[d][Found(d, n)].ino)
    THEN content[d][Found(d, n)].ino
    ELSE None

\* Every set that has the root but not i leads out of itself.
Reached ==
    {i \in used : \A S \in SUBSET (used \ {i}) :
        Root \in S => \E d \in S, n \in Name : Resolve(d, n) \notin S \cup {None}}

\* The entries that name i, in directories and wherever link() has put them, and
\* the inodes that some pieces of one name.
NamedBy(i) ==
    {p \in Ino \X Slot : LET piece == content[p[1]][p[2]] IN piece.kind = "entry" /\ piece.ino = i}
Names(piece) == IF piece.kind = "entry" THEN {piece.ino} ELSE {}
NamedIn(i, slots) == {content[i][s].ino : s \in EntrySlots(i) \cap slots}

\* vfs_is_dir_empty, which takes no notice of "." and "..".
IsEmpty(d) == \A s \in Slot : content[d][s] \in {Nothing, Dots}

-----------------------------------------------------------------------------
\* The steps of the layer.

\* vfs_add_dirent takes the first free slot; it fails when there is none and no
\* block for another.  What the call does next depends on it.
AddStep(d, n, i, then, else) ==
    [op |-> "add", dir |-> d, name |-> n, ino |-> i, then |-> then, else |-> else]

FreeSlots(d) == {s \in Slot : content[d][s] = Nothing}

\* vfs_init_dir writes the first block of a new directory; without it mkdir
\* gives up and leaves the inode allocated.
InitStep(d, n, i) == [op |-> "init", dir |-> d, name |-> n, ino |-> i]

InitDir ==
    /\ Doing("init")
    /\ LET step == Head(todo)
       IN  \/ Then(<<AddStep(step.dir, step.name, step.ino, << >>, << >>)>>) /\ UNCHANGED lost
           \/ Then(<< >>) /\ lost' = lost \cup {step.ino}
    /\ UNCHANGED <<table, used, freeInodes, content, store, uncounted>>

AddEntry ==
    /\ Doing("add")
    /\ LET step == Head(todo)
           d == step.dir
       IN  IF FreeSlots(d) # {}
           THEN /\ content' = [content EXCEPT ![d][Min(FreeSlots(d))] = Entry(Stored[step.name], step.ino)]
                /\ Then(step.then)
                /\ UNCHANGED lost
           ELSE /\ Then(step.else)
                /\ lost' = lost \cup ({step.ino} \ {i \in Ino : NamedBy(i) # {}})
                /\ UNCHANGED content
    /\ UNCHANGED <<table, used, freeInodes, store, uncounted>>

\* vfs_remove_dirent
RemoveEntry ==
    /\ Doing("remove")
    /\ content' = [content EXCEPT ![Head(todo).dir][Found(Head(todo).dir, Head(todo).name)] = Nothing]
    /\ Then(<< >>)
    /\ UNCHANGED <<table, used, freeInodes, store, uncounted, lost>>

\* myfs_inode_truncate_data to size 0, and myfs_inode_write_data of one piece.
Truncate ==
    /\ Doing("truncate")
    /\ LET i == Head(todo).ino
       IN  IF Valid(i) /\ table[i].type # "free"
           THEN /\ content' = [content EXCEPT ![i] = Empty]
                /\ lost' = lost \cup NamedIn(i, Slot)
           ELSE UNCHANGED <<content, lost>>
    /\ Then(<< >>)
    /\ UNCHANGED <<table, used, freeInodes, store, uncounted>>

WriteStep(i, s, what) == [op |-> "write", ino |-> i, slot |-> s, what |-> what]

\* A directory can be open for writing, at any of its bytes: an entry may get
\* another inode or name, and free bytes may become one.
Written(i) ==
    {Data} \cup
    IF table[i].type = "dir" THEN {Nothing, Dots} \cup {Entry(e[1], e[2]) : e \in Spelled} ELSE {}

WriteData ==
    /\ Doing("write")
    /\ LET i == Head(todo).ino
           s == Head(todo).slot
       IN  IF Valid(i) /\ table[i].type # "free"
           THEN \E piece \in Written(i) :
                  /\ content' = [content EXCEPT ![i][s] = piece]
                  /\ lost' = lost \cup (NamedIn(i, {s}) \ Names(piece))
                  /\ uncounted' = uncounted \cup (Names(piece) \ NamedIn(i, {s}))
           ELSE UNCHANGED <<content, lost, uncounted>>
    /\ Then(<< >>)
    /\ UNCHANGED <<table, used, freeInodes, store>>

\* sys_create ends with sys_open by path, and the command with sys_close.
OpenAndClose ==
    /\ Doing("reopen")
    /\ LET i == Resolve(Head(todo).dir, Head(todo).name)
       IN  IF i # None /\ None \in Range(fds)
           THEN Then(<<Step("incOpen", i), Step("decOpen", i)>>)
           ELSE Then(<< >>)
    /\ UNCHANGED <<table, used, freeInodes, content, store, uncounted, lost>>

\* vfs_users_ensure_store_inode and vfs_users_save: the file is the one the
\* process remembers, or the one /.users names, or a new one.
Overwrite(i) == <<Step("truncate", i), WriteStep(i, 1, "users")>>

SaveUsers ==
    /\ Doing("save")
    /\ LET named == Resolve(Root, UsersName)
       IN  \/ store # 0 /\ Then(Overwrite(store)) /\ UNCHANGED store
           \/ store = 0 /\ named # None /\ Then(Overwrite(named)) /\ store' = named
           \/ /\ store = 0
              /\ named = None
              /\ IF CanAlloc
                 THEN Then(AllocSteps("file") \o
                           <<AddStep(Root, UsersName, NewIno,
                                     <<Step("remember", NewIno)>> \o Overwrite(NewIno),
                                     <<Step("free", NewIno)>>)>>)
                 ELSE Then(<< >>)
              /\ UNCHANGED store
    /\ UNCHANGED <<table, used, freeInodes, content, uncounted, lost>>

Remember ==
    /\ Doing("remember")
    /\ store' = Head(todo).ino
    /\ Then(<< >>)
    /\ UNCHANGED <<table, used, freeInodes, content, uncounted, lost>>

\* The inode goes with whatever entries link() has put into its data.
FreeLoses == IF Doing("free") THEN NamedIn(Head(todo).ino, Slot) ELSE {}

Work ==
    /\ \/ InodeStep /\ lost' = (lost \cup FreeLoses) \cap used' /\ UNCHANGED <<store, uncounted>>
       \/ InitDir \/ AddEntry \/ RemoveEntry \/ Truncate \/ WriteData
       \/ OpenAndClose \/ SaveUsers \/ Remember
    /\ UNCHANGED <<running, fds, calls, crashes>>

\* sys_logout closes every descriptor, one after the other; then the command
\* goes on.
CloseAllStep(then) == [op |-> "closeAll", then |-> then]

CloseAll ==
    /\ Doing("closeAll")
    /\ LET open == {f \in Fd : fds[f] # None}
       IN  IF open = {}
           THEN /\ Then(Head(todo).then)
                /\ UNCHANGED fds
           ELSE /\ Then(<<Step("decOpen", fds[Min(open)]), Head(todo)>>)
                /\ fds' = [fds EXCEPT ![Min(open)] = None]
    /\ UNCHANGED <<table, used, freeInodes, content, running, store, calls, crashes, uncounted, lost>>

\* myfs_phys_umount, and the process ends.
Halt ==
    /\ Doing("halt")
    /\ running' = FALSE
    /\ fds' = NoFds
    /\ store' = 0
    /\ todo' = << >>
    /\ UNCHANGED <<table, used, freeInodes, content, calls, crashes, uncounted, lost>>

-----------------------------------------------------------------------------
\* The commands.

Idle == running /\ todo = << >>

Run(steps) ==
    /\ Idle
    /\ todo' = steps
    /\ UNCHANGED <<table, used, freeInodes, content, running, store, crashes, uncounted>>

Call(steps) == Run(steps) /\ calls + crashes < MaxCalls /\ calls' = calls + 1

Dirs == {d \in Reached : table[d].type = "dir"}

Mkdir(d, n) ==
    /\ Resolve(d, n) = None
    /\ CanAlloc
    /\ Call(AllocSteps("dir") \o <<InitStep(d, n, NewIno)>>)
    /\ UNCHANGED <<fds, lost>>

\* An existing file, or directory, is truncated.
Reopen(d, n) == <<[op |-> "reopen", dir |-> d, name |-> n]>>

CreateNew(d, n) ==
    /\ Resolve(d, n) = None
    /\ CanAlloc
    /\ Call(AllocSteps("file") \o <<AddStep(d, n, NewIno, Reopen(d, n), << >>)>>)
    /\ UNCHANGED <<fds, lost>>

CreateExisting(d, n) ==
    /\ Resolve(d, n) # None
    /\ Call(<<Step("truncate", Resolve(d, n))>> \o Reopen(d, n))
    /\ UNCHANGED <<fds, lost>>

\* sys_open, then for modes w and w+ vfs_truncate_fd.
FreeFds == {f \in Fd : fds[f] = None}

Open(i, truncated) ==
    /\ FreeFds # {}
    /\ Call(<<Step("incOpen", i)>> \o IF truncated THEN <<Step("truncate", i)>> ELSE << >>)
    /\ fds' = [fds EXCEPT ![Min(FreeFds)] = i]
    /\ UNCHANGED lost

Close(f) ==
    /\ fds[f] # None
    /\ Call(<<Step("decOpen", fds[f])>>)
    /\ fds' = [fds EXCEPT ![f] = None]
    /\ UNCHANGED lost

\* vfs_seek and sys_write
Write(f, s) ==
    /\ fds[f] # None
    /\ Call(<<WriteStep(fds[f], s, "text")>>)
    /\ UNCHANGED <<fds, lost>>

\* Mutant: the link count is not lowered.
DeleteUncounted(d, n) ==
    LET i == Resolve(d, n)
    IN  /\ i # None
        /\ table[i].type # "dir"
        /\ Call(<<[op |-> "remove", dir |-> d, name |-> n]>>)
        /\ UNCHANGED <<fds, lost>>

Delete(d, n) ==
    LET i == Resolve(d, n)
    IN  /\ i # None
        /\ table[i].type # "dir"
        /\ Call(<<[op |-> "remove", dir |-> d, name |-> n], Step("decLink", i)>>)
        /\ UNCHANGED <<fds, lost>>

\* Mutant: the link count is not raised.
LinkUncounted(i, d, n) ==
    /\ table[i].type # "dir"
    /\ Resolve(d, n) = None
    /\ Call(<<AddStep(d, n, i, << >>, << >>)>>)
    /\ UNCHANGED <<fds, lost>>

\* Nothing checks that d is a directory: the entry may end up in a file.
Link(i, d, n) ==
    /\ table[i].type # "dir"
    /\ Resolve(d, n) = None
    /\ Call(<<AddStep(d, n, i, <<Step("incLink", i)>>, << >>)>>)
    /\ UNCHANGED <<fds, lost>>

\* One of the two links of a directory is dropped, so it stays allocated.
Rmdir(d, n) ==
    LET i == Resolve(d, n)
    IN  /\ i # None
        /\ table[i].type = "dir"
        /\ IsEmpty(i)
        /\ Call(<<[op |-> "remove", dir |-> d, name |-> n], Step("truncate", i), Step("decLink", i)>>)
        /\ lost' = lost \cup {i}
        /\ UNCHANGED fds

\* sys_useradd and sys_userdel
ChangeUsers ==
    /\ Call(<<Step("save", Root)>>)
    /\ UNCHANGED <<fds, lost>>

\* logout, also within su, which then logs in again; and exit saves the users.
Logout ==
    /\ Call(<<CloseAllStep(<< >>)>>)
    /\ UNCHANGED <<fds, lost>>

Exit ==
    /\ Run(<<CloseAllStep(<<Step("save", Root), Step("halt", Root)>>)>>)
    /\ UNCHANGED <<calls, fds, lost>>

\* vfs_mount_default_disk by a new process: the users are read, or the default
\* ones taken, and saved again in either case.
Mount ==
    /\ ~running
    /\ running' = TRUE
    /\ todo' = <<Step("resetOpens", Root), Step("save", Root)>>
    /\ UNCHANGED <<table, used, freeInodes, content, fds, store, calls, crashes, uncounted, lost>>

\* The inodes a kill loses: the one whose link count was about to change, and
\* those that the running call or a descriptor holds without a name.
CutShort ==
    LET held == {i \in used : (\E f \in Fd : fds[f] = i)
                                \/ (\E k \in DOMAIN todo : "ino" \in DOMAIN todo[k] /\ todo[k].ino = i)}
    IN  {i \in held \ {Root} : NamedBy(i) = {}}
        \cup (IF Doing("decLink") \/ Doing("incLink") THEN {Head(todo).ino} ELSE {})

\* The process is killed: what it had in memory is gone.
Crash ==
    /\ running
    /\ crashes < MaxCrashes
    /\ crashes' = crashes + 1
    /\ running' = FALSE
    /\ fds' = NoFds
    /\ store' = 0
    /\ todo' = << >>
    /\ uncounted' = uncounted \cup (IF Doing("incLink") THEN {Head(todo).ino} ELSE {})
    /\ lost' = lost \cup CutShort
    /\ UNCHANGED <<table, used, freeInodes, content, calls>>

Command ==
    \/ \E d \in Dirs, n \in Name :
         Mkdir(d, n) \/ CreateNew(d, n) \/ CreateExisting(d, n) \/ Delete(d, n) \/ Rmdir(d, n)
    \/ \E i, d \in Reached, n \in Name : Link(i, d, n)
    \/ \E i \in Reached, t \in BOOLEAN : Open(i, t)
    \/ \E f \in Fd : Close(f) \/ \E s \in Slot : Write(f, s)
    \/ ChangeUsers \/ Logout \/ Exit

Next ==
    \/ Idle /\ Command
    \/ Work \/ CloseAll \/ Halt \/ Crash \/ Mount

Spec == Init /\ [][Next]_vars

-----------------------------------------------------------------------------
(***************************************************************************)
(* Properties                                                              *)
(***************************************************************************)

\* An inode whose table entry is in use is marked in the bitmap, in every image
\* a kill can leave: it is never handed out a second time.
InUseIsMarked == \A i \in Ino \ used : table[i] = FreeInode

\* What fsck finds wrong with the inodes: bitmap and table disagree.
WrongState == {i \in Ino : i \in used <=> table[i].type = "free"}

\* Every kill puts at most one inode in a state that fsck reports, and the free
\* inode count off by at most one; and nothing but a kill does.
KillsLeaveLittle ==
    todo = << >> =>
        /\ Cardinality(WrongState) <= crashes
        /\ freeInodes - Cardinality(Ino \ used) \in -crashes..crashes

\* The link() that has added its entry has not raised the count yet.
Counting(i) == IF Doing("incLink") /\ Head(todo).ino = i THEN 1 ELSE 0

\* A name never outlives the inode it leads to: a link count covers every entry
\* in whatever image a kill leaves.  Not so for an inode that has got an entry its
\* count does not know: a kill came between the two writes of link(), which adds
\* the entry before it raises the count, or data written to a directory made one.
LinksCoverEntries ==
    \A i \in Ino \ uncounted :
        NamedBy(i) # {} =>
            /\ i \in used
            /\ table[i].type # "free"
            /\ Cardinality(NamedBy(i)) <= table[i].links + Counting(i)

\* An open file stays, with its data, until its last descriptor is closed, and
\* its open count is the number of its descriptors whenever no command runs.
\* Not so where an entry that no link counts leads to an inode that a kill
\* has left marked but not written.
OpenFilesKept ==
    /\ \A f \in Fd :
         fds[f] # None /\ (crashes = 0 \/ fds[f] \notin uncounted) =>
             fds[f] \in used /\ table[fds[f]].type # "free"
    /\ running /\ todo = << >> =>
         \A i \in Ino : table[i].opens = Cardinality({f \in Fd : fds[f] = i})

\* Between commands every inode in use is named as often as its count says, or
\* is open without a name, but for those with a known cause: a directory that rmdir
\* leaves allocated, an inode without room for its entry, entries that data or
\* a truncation has overwritten, what a kill has cut short, and entries that
\* no link counts.
NothingLost ==
    running /\ todo = << >> =>
        \A i \in used \ (lost \cup uncounted \cup {Root}) :
            /\ Cardinality(NamedBy(i)) = (IF table[i].type = "dir" THEN 1 ELSE table[i].links)
            /\ NamedBy(i) # {} \/ table[i].opens > 0

\* Users are kept in the file /.users, as README.md:96 says: they are never saved
\* in a file that other names lead to and /.users does not.
UsersSavedInTheirFile ==
    Doing("write") /\ Head(todo).what = "users" /\ NamedBy(Head(todo).ino) # {} =>
        Resolve(Root, UsersName) = Head(todo).ino
=============================================================================
