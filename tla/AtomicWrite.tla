---------------------------- MODULE AtomicWrite -----------------------------
(***************************************************************************)
(* The temp-file-and-rename write that every bundle file goes through:     *)
(* atomic_write and write_solidity_atomic of service/src/crs.rs,           *)
(* write_json_or_exit and atomic_write_bytes_or_exit of cli/src/lib.rs.    *)
(*                                                                         *)
(* A call creates `.<name>.tmp.<pid>` beside the target, writes the bytes, *)
(* and renames the temp file onto the target; when a step fails it removes *)
(* the temp file, without a look at whether that worked, and returns the   *)
(* error.  The temp name carries only the process id, so two calls of one  *)
(* process share it, and so does a later process that is given the pid of  *)
(* one that died.                                                          *)
(*                                                                         *)
(* The directory maps names to inodes and bytes belong to inodes: a rename *)
(* moves a name, an open descriptor keeps its inode.                       *)
(***************************************************************************)
CONSTANTS
  Writers,     \* calls of the helper on one target path
  Readers,     \* readers of the target path
  Pids,        \* process ids; a temp name is identified by its pid
  PidOf,       \* the process id each call runs under
  Threads,     \* TRUE: calls of one process may overlap
  Target,      \* the name of the file that is written
  Old,         \* the inode of a file that is there before any call
  NoInode      \* an unused name, a closed descriptor

ASSUME PidAssumption == PidOf \in [Writers -> Pids]
ASSUME ThreadsAssumption == Threads \in BOOLEAN
ASSUME NamesAssumption == Target \notin Pids
ASSUME InodesAssumption == /\ Old \notin Writers
                           /\ NoInode \notin Writers \union {Old}

VARIABLES
  dir,         \* per name: its inode, or NoInode
  data,        \* per inode: who wrote to it last, and whether those are all its bytes
  pc,          \* per call: where it is in the helper; "left": returned the error, but
               \* could not remove the temp file
  fd,          \* per call: the inode its descriptor writes to
  rfd,         \* per reader: the inode its descriptor reads from
  got          \* per reader: what it read last, NoInode before the first read

vars == <<dir, data, pc, fd, rfd, got>>

Inodes == Writers \union {Old}
Names == Pids \union {Target}
Contents == [by : Inodes, whole : BOOLEAN]

ASSUME ContentsAssumption == NoInode \notin Contents

\* Wrong: writing straight to the path.
TmpInPlace(w) == Target

\* `.<name>.tmp.<pid>`
Tmp(w) == PidOf[w]

Live == {w \in Writers : pc[w] \in {"created", "written"}}

\* The kernel gives a pid to one process at a time.
MayRun(w) == Threads \/ \A v \in Live : PidOf[v] # PidOf[w]

TypeOK ==
  /\ dir \in [Names -> Inodes \union {NoInode}]
  /\ data \in [Inodes -> Contents]
  /\ pc \in [Writers -> {"idle", "created", "written", "ok", "err", "left", "dead"}]
  /\ fd \in [Writers -> Inodes \union {NoInode}]
  /\ rfd \in [Readers -> Inodes \union {NoInode}]
  /\ got \in [Readers -> Contents \union {NoInode}]

Init ==
  /\ dir \in {[n \in Names |-> IF n = Target THEN i ELSE NoInode] : i \in {Old, NoInode}}
  /\ data = [i \in Inodes |-> [by |-> i, whole |-> i = Old]]
  /\ pc = [w \in Writers |-> "idle"]
  /\ fd = [w \in Writers |-> NoInode]
  /\ rfd = [r \in Readers |-> NoInode]
  /\ got = [r \in Readers |-> NoInode]

-----------------------------------------------------------------------------
\* File creation: a new inode, or the one a dead process of this pid (or another
\* thread) left under the temp name, truncated.
Create(w) ==
  LET inode == IF dir[Tmp(w)] = NoInode THEN w ELSE dir[Tmp(w)] IN
  /\ pc[w] = "idle"
  /\ MayRun(w)
  /\ dir' = [dir EXCEPT ![Tmp(w)] = inode]
  /\ data' = [data EXCEPT ![inode] = [by |-> w, whole |-> FALSE]]
  /\ fd' = [fd EXCEPT ![w] = inode]
  /\ pc' = [pc EXCEPT ![w] = "created"]
  /\ UNCHANGED <<rfd, got>>

\* Bytes land at the descriptor's own offset: they are whole when nobody truncated or
\* wrote the inode since this call created it, and may be a mix of two writers if not.
Write(w) ==
  /\ pc[w] = "created"
  /\ \E whole \in BOOLEAN :
       /\ data[fd[w]] = [by |-> w, whole |-> FALSE] => whole
       /\ data' = [data EXCEPT ![fd[w]] = [by |-> w, whole |-> whole]]
  /\ pc' = [pc EXCEPT ![w] = "written"]
  /\ UNCHANGED <<dir, fd, rfd, got>>

Rename(w) ==
  /\ pc[w] = "written"
  /\ dir[Tmp(w)] # NoInode
  /\ dir' = [dir EXCEPT ![Target] = dir[Tmp(w)], ![Tmp(w)] = NoInode]
  /\ pc' = [pc EXCEPT ![w] = "ok"]
  /\ UNCHANGED <<data, fd, rfd, got>>

\* Wrong: returning the error and forgetting the temp file.
FailStepKeepingTemp(w) ==
  /\ \/ pc[w] = "idle" /\ MayRun(w)
     \/ pc[w] \in {"created", "written"}
  /\ pc' = [pc EXCEPT ![w] = "err"]
  /\ UNCHANGED <<dir, data, fd, rfd, got>>

\* write_json_or_exit: File::create fails, and there is nothing of this call to remove.
FailCreate(w) ==
  /\ pc[w] = "idle"
  /\ MayRun(w)
  /\ pc' = [pc EXCEPT ![w] = "err"]
  /\ UNCHANGED <<dir, data, fd, rfd, got>>

\* fs::write or fs::rename fails: `let _ = remove_file(tmp)`, which may fail as well,
\* and return the error.
FailStep(w) ==
  /\ \/ pc[w] = "idle" /\ MayRun(w)
     \/ pc[w] \in {"created", "written"}
  /\ \/ /\ dir' = [dir EXCEPT ![Tmp(w)] = NoInode]
        /\ pc' = [pc EXCEPT ![w] = "err"]
     \/ /\ dir[Tmp(w)] # NoInode
        /\ pc' = [pc EXCEPT ![w] = "left"]
        /\ UNCHANGED dir
  /\ UNCHANGED <<data, fd, rfd, got>>

\* The process dies inside the call: nobody removes the temp file.
Crash(w) ==
  /\ pc[w] \in {"created", "written"}
  /\ pc' = [pc EXCEPT ![w] = "dead"]
  /\ UNCHANGED <<dir, data, fd, rfd, got>>

\* External: whoever reads the published file (manifest hashing, the loaders).
Open(r) ==
  /\ rfd[r] = NoInode
  /\ dir[Target] # NoInode
  /\ rfd' = [rfd EXCEPT ![r] = dir[Target]]
  /\ UNCHANGED <<dir, data, pc, fd, got>>

Read(r) ==
  /\ rfd[r] # NoInode
  /\ got' = [got EXCEPT ![r] = data[rfd[r]]]
  /\ rfd' = [rfd EXCEPT ![r] = NoInode]
  /\ UNCHANGED <<dir, data, pc, fd>>

Next ==
  \/ \E w \in Writers :
       \/ Create(w) \/ Write(w) \/ Rename(w)
       \/ FailCreate(w) \/ FailStep(w) \/ Crash(w)
  \/ \E r \in Readers : Open(r) \/ Read(r)

Spec == Init /\ [][Next]_vars

-----------------------------------------------------------------------------
(***************************************************************************)
(* Properties                                                              *)
(***************************************************************************)
\* The version an inode holds; bytes that are not one call's whole argument are no
\* version at all.
Version(i) == IF data[i].whole THEN data[i].by ELSE NoInode

\* The caller cannot tell a removed temp file from one that stayed.
Outcome(w) ==
  IF pc[w] \in {"ok", "dead"} THEN pc[w]
  ELSE IF pc[w] \in {"err", "left"} THEN "err" ELSE "pending"

FileVersion == IF dir[Target] = NoInode THEN NoInode ELSE Version(dir[Target])
Results == [w \in Writers |-> Outcome(w)]
OpenVersions == [r \in Readers |-> IF rfd[r] = NoInode THEN NoInode ELSE Version(rfd[r])]
VersionsRead ==
  [r \in Readers |-> IF got[r] # NoInode /\ got[r].whole THEN got[r].by ELSE NoInode]

Abs == INSTANCE AtomicFile WITH
  Absent <- NoInode, file <- FileVersion, result <- Results,
  snap <- OpenVersions, seen <- VersionsRead

\* The helpers are atomic: a call that returns Ok has replaced the whole file, a call
\* that fails or dies has left it alone, and a reader gets one whole version
\* (crs.rs, "Write `bytes` to `path` atomically").
ImplementsAtomicFile == Abs!Spec

\* The file at the target path is never a partial or mixed write, whatever is in
\* flight and whoever died (crs.rs, atomic_write).
TargetWhole == dir[Target] # NoInode => data[dir[Target]].whole

\* A temp file in the directory is accounted for: its call is in progress, or its process
\* died in it, or the removal the call tried on its way out failed.  No call that
\* succeeded, and no error path, forgets one, whoever else used the same temp name (crs.rs,
\* "If either step fails the temp file is removed").
Unremoved == {"created", "written", "left", "dead"}

TempsAccountedFor ==
  \A p \in Pids : dir[p] # NoInode =>
    \E w \in Writers : PidOf[w] = p /\ pc[w] \in Unremoved
=============================================================================
