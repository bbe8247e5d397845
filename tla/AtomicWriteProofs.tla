------------------------- MODULE AtomicWriteProofs --------------------------
(***************************************************************************)
(* For every set of calls, readers and pids: when the calls of one process *)
(* do not overlap, AtomicWrite implements AtomicFile.                      *)
(***************************************************************************)
EXTENDS AtomicWrite, TLAPS

-----------------------------------------------------------------------------
(***************************************************************************)
(* The inductive invariant.  A live call owns the inode behind its temp    *)
(* name: no other call writes there, the target does not name it and no    *)
(* reader has it open.  So what a rename publishes is complete and nobody  *)
(* changes it afterwards.                                                  *)
(***************************************************************************)
OnePerPid == \A v, w \in Live : v # w => PidOf[v] # PidOf[w]

OwnsTemp(w) ==
  /\ fd[w] \in Inodes
  /\ dir[Tmp(w)] = fd[w]
  /\ data[fd[w]] = [by |-> w, whole |-> pc[w] = "written"]

OneNamePerInode ==
  \A m, n \in Names : m # n /\ dir[m] # NoInode => dir[m] # dir[n]

OpenIsWhole(r) ==
  rfd[r] # NoInode => /\ data[rfd[r]].whole
                      /\ \A p \in Pids : dir[p] # rfd[r]

FreshInode(w) ==
  pc[w] = "idle" => /\ \A n \in Names : dir[n] # w
                    /\ \A r \in Readers : rfd[r] # w

IInv ==
  /\ TypeOK
  /\ OnePerPid
  /\ \A w \in Live : OwnsTemp(w)
  /\ OneNamePerInode
  /\ TargetWhole
  /\ \A r \in Readers : OpenIsWhole(r)
  /\ \A w \in Writers : FreshInode(w)
  /\ \A r \in Readers : got[r] # NoInode => got[r].whole

-----------------------------------------------------------------------------
(***************************************************************************)
(* Type correctness.                                                       *)
(***************************************************************************)

\* Every variable of the write protocol keeps its type, threads or no threads.
THEOREM TypeCorrect == Spec => []TypeOK
<1>. USE PidAssumption, NamesAssumption, InodesAssumption
     DEF TypeOK, Names, Inodes, Contents
<1>1. Init => TypeOK
  BY DEF Init
<1>2. TypeOK /\ [Next]_vars => TypeOK'
  <2>. SUFFICES ASSUME TypeOK, [Next]_vars
                PROVE  TypeOK'
    OBVIOUS
  <2>1. ASSUME NEW w \in Writers, Create(w)
        PROVE  TypeOK'
    <3>1. Tmp(w) \in Names
      BY DEF Tmp
    <3>. QED
      BY <2>1, <3>1 DEF Create
  <2>2. ASSUME NEW w \in Writers, Write(w)
        PROVE  TypeOK'
    <3>1. PICK whole \in BOOLEAN : data' = [data EXCEPT ![fd[w]] = [by |-> w, whole |-> whole]]
      BY <2>2 DEF Write
    <3>2. [by |-> w, whole |-> whole] \in Contents
      OBVIOUS
    <3>3. data' \in [Inodes -> Contents]
      BY <3>1, <3>2
    <3>. QED
      BY <2>2, <3>3 DEF Write
  <2>3. ASSUME NEW w \in Writers, Rename(w)
        PROVE  TypeOK'
    BY <2>3 DEF Rename, Tmp
  <2>4. ASSUME NEW w \in Writers, FailStep(w)
        PROVE  TypeOK'
    BY <2>4 DEF FailStep, Tmp
  <2>9. ASSUME NEW w \in Writers, FailCreate(w)
        PROVE  TypeOK'
    BY <2>9 DEF FailCreate
  <2>5. ASSUME NEW w \in Writers, Crash(w)
        PROVE  TypeOK'
    BY <2>5 DEF Crash
  <2>6. ASSUME NEW r \in Readers, Open(r)
        PROVE  TypeOK'
    BY <2>6 DEF Open
  <2>7. ASSUME NEW r \in Readers, Read(r)
        PROVE  TypeOK'
    BY <2>7 DEF Read
  <2>8. CASE UNCHANGED vars
    BY <2>8 DEF vars
  <2>. QED
    BY <2>1, <2>2, <2>3, <2>4, <2>5, <2>6, <2>7, <2>8, <2>9 DEF Next
<1>. QED
  BY <1>1, <1>2, PTL DEF Spec

\* Threads or no threads: a temp name leads to a call that has not returned, to one whose
\* process died inside it, or to one whose own removal failed (crs.rs, "If either step
\* fails the temp file is removed").
THEOREM TempsExplained == Spec => []TempsAccountedFor
<1>. USE PidAssumption, NamesAssumption DEF Names
<1>1. Init => TempsAccountedFor
  BY DEF Init, TempsAccountedFor
<1>2. TypeOK /\ TempsAccountedFor /\ [Next]_vars => TempsAccountedFor'
  <2>. SUFFICES ASSUME TypeOK, TempsAccountedFor, [Next]_vars,
                       NEW p \in Pids, dir'[p] # NoInode
                PROVE  \E w \in Writers : PidOf[w] = p /\ pc'[w] \in Unremoved
    BY DEF TempsAccountedFor
  <2>. USE DEF TypeOK
  <2>1. ASSUME NEW w \in Writers, Create(w)
        PROVE  \E v \in Writers : PidOf[v] = p /\ pc'[v] \in Unremoved
    <3>1. CASE PidOf[w] = p
      BY <2>1, <3>1 DEF Create, Unremoved
    <3>2. CASE PidOf[w] # p
      <4>1. dir[p] # NoInode
        BY <2>1, <3>2 DEF Create, Tmp
      <4>2. PICK v \in Writers : PidOf[v] = p /\ pc[v] \in Unremoved
        BY <4>1 DEF TempsAccountedFor
      <4>. QED
        BY <2>1, <4>2 DEF Create, Unremoved
    <3>. QED
      BY <3>1, <3>2
  <2>2. ASSUME NEW w \in Writers, Rename(w) \/ FailStep(w), dir' # dir
        PROVE  \E v \in Writers : PidOf[v] = p /\ pc'[v] \in Unremoved
    <3>1. PidOf[w] # p /\ dir[p] # NoInode
      BY <2>2 DEF Rename, FailStep, Tmp
    <3>2. PICK v \in Writers : PidOf[v] = p /\ pc[v] \in Unremoved
      BY <3>1 DEF TempsAccountedFor
    <3>. QED
      BY <2>2, <3>1, <3>2 DEF Rename, FailStep
  <2>3. ASSUME NEW w \in Writers,
               Rename(w) \/ FailStep(w) \/ Write(w) \/ FailCreate(w) \/ Crash(w), dir' = dir
        PROVE  \E v \in Writers : PidOf[v] = p /\ pc'[v] \in Unremoved
    <3>1. PICK v \in Writers : PidOf[v] = p /\ pc[v] \in Unremoved
      BY <2>3 DEF TempsAccountedFor
    <3>2. Tmp(w) = PidOf[w] /\ PidOf[w] \in Pids
      BY DEF Tmp
    <3>3. ASSUME v = w, FailStep(w)
          PROVE  pc'[v] \in Unremoved
      BY <2>3, <3>2, <3>3, <3>1 DEF FailStep, Unremoved
    <3>4. ASSUME v = w, Rename(w)
          PROVE  FALSE
      BY <2>3, <3>2, <3>4 DEF Rename
    <3>. QED
      BY <2>3, <3>1, <3>3, <3>4 DEF Rename, FailStep, Write, FailCreate, Crash, Unremoved
  <2>4. CASE UNCHANGED vars \/ \E r \in Readers : Open(r) \/ Read(r)
    <3>1. dir' = dir /\ pc' = pc
      BY <2>4 DEF vars, Open, Read
    <3>. QED
      BY <3>1 DEF TempsAccountedFor
  <2>5. CASE \E w \in Writers : Write(w) \/ FailCreate(w) \/ Crash(w)
    <3>1. dir' = dir
      BY <2>5 DEF Write, FailCreate, Crash
    <3>. QED
      BY <2>5, <2>3, <3>1
  <2>6. CASE \E w \in Writers : Rename(w) \/ FailStep(w)
    BY <2>6, <2>2, <2>3
  <2>. QED
    BY <2>1, <2>4, <2>5, <2>6 DEF Next
<1>. QED
  BY <1>1, <1>2, TypeCorrect, PTL DEF Spec

-----------------------------------------------------------------------------
(***************************************************************************)
(* The invariant is inductive.                                             *)
(***************************************************************************)
LEMMA TmpInNames == \A w \in Writers : Tmp(w) \in Pids /\ Tmp(w) \in Names /\ Tmp(w) # Target
  BY PidAssumption, NamesAssumption DEF Tmp, Names

LEMMA InitIInv == Init => IInv
<1>. SUFFICES ASSUME Init
              PROVE  IInv
  OBVIOUS
<1>. USE InodesAssumption, NamesAssumption DEF Init, Inodes, Names, Contents
<1>1. TypeOK
  BY DEF TypeOK
<1>2. Live = {}
  BY DEF Live
<1>3. OneNamePerInode
  BY DEF OneNamePerInode
<1>4. TargetWhole
  BY DEF TargetWhole
<1>5. \A w \in Writers : FreshInode(w)
  BY DEF FreshInode
<1>6. \A r \in Readers : OpenIsWhole(r) /\ got[r] = NoInode
  BY DEF OpenIsWhole
<1>. QED
  BY <1>1, <1>2, <1>3, <1>4, <1>5, <1>6 DEF IInv, OnePerPid

\* Creating the temp file takes an inode nobody else uses.
LEMMA CreateKeepsIInv ==
  ASSUME IInv, ~Threads, NEW u \in Writers, Create(u), TypeOK'
  PROVE  IInv'
<1>. DEFINE inode == IF dir[Tmp(u)] = NoInode THEN u ELSE dir[Tmp(u)]
<1>. USE PidAssumption, NamesAssumption, InodesAssumption, TmpInNames
     DEF IInv, TypeOK, Names, Inodes
<1>1. /\ pc[u] = "idle"
      /\ \A v \in Live : PidOf[v] # PidOf[u]
      /\ dir' = [dir EXCEPT ![Tmp(u)] = inode]
      /\ data' = [data EXCEPT ![inode] = [by |-> u, whole |-> FALSE]]
      /\ fd' = [fd EXCEPT ![u] = inode]
      /\ pc' = [pc EXCEPT ![u] = "created"]
      /\ UNCHANGED <<rfd, got>>
  BY DEF Create, MayRun
<1>2. inode \in Inodes /\ inode # NoInode
  OBVIOUS
<1>3. Live' = Live \union {u} /\ u \notin Live
  BY <1>1 DEF Live
<1>4. \A n \in Names : n # Tmp(u) => dir[n] # inode
  BY DEF OneNamePerInode, FreshInode, Create
<1>5. \A r \in Readers : rfd[r] # inode
  BY DEF OpenIsWhole, FreshInode, Create
<1>6. OnePerPid'
  BY <1>1, <1>3 DEF OnePerPid
<1>7. ASSUME NEW w \in Live'
      PROVE  OwnsTemp(w)'
  <2>1. CASE w = u
    <3>1. fd'[u] = inode /\ dir'[Tmp(u)] = inode /\ pc'[u] = "created"
      BY <1>1
    <3>2. data'[inode] = [by |-> u, whole |-> FALSE]
      BY <1>1, <1>2
    <3>. HIDE DEF inode
    <3>. QED
      BY <2>1, <1>2, <3>1, <3>2 DEF OwnsTemp, Tmp
  <2>2. CASE w # u
    <3>1. w \in Live /\ w \in Writers
      BY <2>2, <1>3 DEF Live
    <3>2. Tmp(w) # Tmp(u)
      BY <3>1, <1>1 DEF Tmp
    <3>3. dir[Tmp(w)] = fd[w] /\ Tmp(w) \in Names
      BY <3>1 DEF OwnsTemp
    <3>4. fd[w] # inode
      BY <3>2, <3>3, <1>4
    <3>. QED
      BY <3>1, <3>2, <3>4, <2>2, <1>1 DEF OwnsTemp, Tmp
  <2>. QED
    BY <2>1, <2>2
<1>8. OneNamePerInode'
  BY <1>1, <1>2, <1>4 DEF OneNamePerInode
<1>9. TargetWhole'
  BY <1>1, <1>4 DEF TargetWhole
<1>10. ASSUME NEW r \in Readers
       PROVE  OpenIsWhole(r)'
  BY <1>1, <1>5 DEF OpenIsWhole
<1>11. ASSUME NEW w \in Writers
       PROVE  FreshInode(w)'
  BY <1>1 DEF FreshInode
<1>12. \A r \in Readers : got'[r] # NoInode => got'[r].whole
  BY <1>1
<1>. QED
  BY <1>6, <1>7, <1>8, <1>9, <1>10, <1>11, <1>12

\* A write reaches the caller's own inode only.
LEMMA WriteKeepsIInv ==
  ASSUME IInv, NEW u \in Writers, Write(u), TypeOK'
  PROVE  /\ IInv'
         /\ data' = [data EXCEPT ![fd[u]] = [by |-> u, whole |-> TRUE]]
<1>. USE PidAssumption, NamesAssumption, InodesAssumption, TmpInNames
     DEF IInv, TypeOK, Names, Inodes
<1>1. u \in Live /\ pc[u] = "created"
  BY DEF Write, Live
<1>2. /\ fd[u] \in Inodes
      /\ dir[Tmp(u)] = fd[u]
      /\ data[fd[u]] = [by |-> u, whole |-> FALSE]
  BY <1>1 DEF OwnsTemp
<1>3. /\ data' = [data EXCEPT ![fd[u]] = [by |-> u, whole |-> TRUE]]
      /\ pc' = [pc EXCEPT ![u] = "written"]
      /\ UNCHANGED <<dir, fd, rfd, got>>
  BY <1>2 DEF Write
<1>4. Live' = Live
  BY <1>1, <1>3 DEF Live
<1>5. OnePerPid'
  BY <1>4 DEF OnePerPid
<1>6. ASSUME NEW w \in Live'
      PROVE  OwnsTemp(w)'
  <2>1. CASE w = u
    BY <2>1, <1>2, <1>3 DEF OwnsTemp, Tmp
  <2>2. CASE w # u
    <3>1. w \in Live /\ w \in Writers
      BY <1>4 DEF Live
    <3>2. Tmp(w) # Tmp(u)
      BY <3>1, <1>1, <2>2 DEF Tmp, OnePerPid
    <3>3. dir[Tmp(w)] = fd[w] /\ Tmp(w) \in Names /\ Tmp(u) \in Names
      BY <3>1 DEF OwnsTemp
    <3>4. fd[w] # fd[u]
      BY <3>2, <3>3, <1>2 DEF OneNamePerInode
    <3>. QED
      BY <3>1, <3>4, <2>2, <1>3 DEF OwnsTemp, Tmp
  <2>. QED
    BY <2>1, <2>2
<1>7. OneNamePerInode'
  BY <1>3 DEF OneNamePerInode
<1>8. TargetWhole'
  BY <1>2, <1>3 DEF TargetWhole
<1>9. ASSUME NEW r \in Readers
      PROVE  OpenIsWhole(r)'
  BY <1>2, <1>3 DEF OpenIsWhole
<1>10. ASSUME NEW w \in Writers
       PROVE  FreshInode(w)'
  BY <1>1, <1>3 DEF FreshInode
<1>11. \A r \in Readers : got'[r] # NoInode => got'[r].whole
  BY <1>3
<1>. QED
  BY <1>3, <1>5, <1>6, <1>7, <1>8, <1>9, <1>10, <1>11

\* Leaving the call, by a rename, an error or a crash, touches no bytes and frees the
\* caller's temp name at most; the target may take over the caller's complete inode.
LEMMA LeaveKeepsIInv ==
  ASSUME IInv, ~Threads, NEW u \in Writers, Rename(u) \/ FailCreate(u) \/ FailStep(u) \/ Crash(u), TypeOK'
  PROVE  IInv'
<1>. USE PidAssumption, NamesAssumption, InodesAssumption, TmpInNames
     DEF IInv, TypeOK, Names, Inodes
<1>1. /\ pc'[u] \notin {"idle", "created", "written"}
      /\ \A w \in Writers : w # u => pc'[w] = pc[w]
      /\ UNCHANGED <<data, fd, rfd, got>>
  BY DEF Rename, FailCreate, FailStep, Crash
<1>2. Live' = Live \ {u}
  BY <1>1 DEF Live
<1>3. \A n \in Names : n \notin {Tmp(u), Target} => dir'[n] = dir[n]
  BY DEF Rename, FailCreate, FailStep, Crash
<1>4. \/ dir' = dir
      \/ dir' = [dir EXCEPT ![Tmp(u)] = NoInode]
      \/ /\ u \in Live
         /\ pc[u] = "written"
         /\ dir[Tmp(u)] # NoInode
         /\ dir' = [dir EXCEPT ![Target] = dir[Tmp(u)], ![Tmp(u)] = NoInode]
  BY DEF Rename, FailCreate, FailStep, Crash, Live
<1>5. OnePerPid'
  BY <1>2 DEF OnePerPid
<1>6. u \in Live \/ \A v \in Live : PidOf[v] # PidOf[u]
  BY DEF Rename, FailCreate, FailStep, Crash, Live, MayRun
<1>7. ASSUME NEW w \in Live'
      PROVE  OwnsTemp(w)'
  <2>1. w \in Live /\ w \in Writers /\ w # u
    BY <1>2 DEF Live
  <2>2. Tmp(w) # Tmp(u)
    BY <2>1, <1>6 DEF OnePerPid, Tmp
  <2>3. dir'[Tmp(w)] = dir[Tmp(w)] /\ pc'[w] = pc[w] /\ fd'[w] = fd[w] /\ data' = data
    BY <2>1, <2>2, <1>1, <1>3
  <2>4. OwnsTemp(w)
    BY <2>1
  <2>. QED
    BY <2>3, <2>4 DEF OwnsTemp, Tmp
<1>8. OneNamePerInode'
  <2>1. CASE dir' = dir
    BY <2>1 DEF OneNamePerInode
  <2>2. CASE dir' = [dir EXCEPT ![Tmp(u)] = NoInode]
    BY <2>2 DEF OneNamePerInode
  <2>3. CASE dir' = [dir EXCEPT ![Target] = dir[Tmp(u)], ![Tmp(u)] = NoInode]
    <3>1. /\ dir'[Target] = dir[Tmp(u)]
          /\ dir'[Tmp(u)] = NoInode
          /\ \A n \in Names : n \notin {Tmp(u), Target} => dir'[n] = dir[n]
      BY <2>3, <1>3
    <3>. QED
      BY <3>1 DEF OneNamePerInode
  <2>. QED
    BY <1>4, <2>1, <2>2, <2>3
<1>9. u \in Live => OwnsTemp(u)
  OBVIOUS
<1>10. TargetWhole'
  <2>1. CASE dir' = dir
    BY <2>1, <1>1 DEF TargetWhole
  <2>2. CASE dir' = [dir EXCEPT ![Tmp(u)] = NoInode]
    BY <2>2, <1>1 DEF TargetWhole
  <2>3. CASE /\ u \in Live
             /\ pc[u] = "written"
             /\ dir' = [dir EXCEPT ![Target] = dir[Tmp(u)], ![Tmp(u)] = NoInode]
    <3>1. data[dir[Tmp(u)]] = [by |-> u, whole |-> TRUE]
      BY <2>3, <1>9 DEF OwnsTemp
    <3>2. dir'[Target] = dir[Tmp(u)]
      BY <2>3
    <3>. QED
      BY <3>1, <3>2, <1>1 DEF TargetWhole
  <2>. QED
    BY <1>4, <2>1, <2>2, <2>3
<1>11. ASSUME NEW r \in Readers
       PROVE  OpenIsWhole(r)'
  BY <1>1, <1>4 DEF OpenIsWhole
<1>12. ASSUME NEW w \in Writers
       PROVE  FreshInode(w)'
  BY <1>1, <1>4 DEF FreshInode
<1>13. \A r \in Readers : got'[r] # NoInode => got'[r].whole
  BY <1>1
<1>. QED
  BY <1>5, <1>7, <1>8, <1>10, <1>11, <1>12, <1>13

LEMMA ReaderKeepsIInv ==
  ASSUME IInv, NEW q \in Readers, Open(q) \/ Read(q), TypeOK'
  PROVE  IInv'
<1>. USE NamesAssumption, InodesAssumption DEF IInv, TypeOK, Names, Inodes
<1>1. UNCHANGED <<dir, data, pc, fd>>
  BY DEF Open, Read
<1>2. Live' = Live
  BY <1>1 DEF Live
<1>3. OnePerPid' /\ OneNamePerInode' /\ TargetWhole'
  BY <1>1, <1>2 DEF OnePerPid, OneNamePerInode, TargetWhole
<1>4. \A w \in Live' : OwnsTemp(w)'
  BY <1>1, <1>2 DEF OwnsTemp, Tmp
<1>5. \A p \in Pids : rfd[q] = NoInode /\ dir[Target] # NoInode => dir[p] # dir[Target]
  BY DEF OneNamePerInode
<1>6. ASSUME NEW r \in Readers
      PROVE  OpenIsWhole(r)'
  BY <1>1, <1>5 DEF Open, Read, OpenIsWhole, TargetWhole
<1>7. ASSUME NEW w \in Writers
      PROVE  FreshInode(w)'
  BY <1>1 DEF Open, Read, FreshInode
<1>8. ASSUME NEW r \in Readers, got'[r] # NoInode
      PROVE  got'[r].whole
  BY <1>8 DEF Open, Read, OpenIsWhole
<1>. QED
  BY <1>3, <1>4, <1>6, <1>7, <1>8

LEMMA NextKeepsIInv == ~Threads /\ IInv /\ TypeOK' /\ [Next]_vars => IInv'
<1>. SUFFICES ASSUME ~Threads, IInv, TypeOK', [Next]_vars
              PROVE  IInv'
  OBVIOUS
<1>1. CASE \E w \in Writers : Create(w)
  BY <1>1, CreateKeepsIInv
<1>2. CASE \E w \in Writers : Write(w)
  BY <1>2, WriteKeepsIInv
<1>3. CASE \E w \in Writers : Rename(w) \/ FailCreate(w) \/ FailStep(w) \/ Crash(w)
  BY <1>3, LeaveKeepsIInv
<1>4. CASE \E r \in Readers : Open(r) \/ Read(r)
  BY <1>4, ReaderKeepsIInv
<1>5. CASE UNCHANGED vars
  BY <1>5 DEF vars, IInv, TypeOK, OnePerPid, Live, OwnsTemp, Tmp, OneNamePerInode,
              TargetWhole, OpenIsWhole, FreshInode
<1>. QED
  BY <1>1, <1>2, <1>3, <1>4, <1>5 DEF Next

LEMMA Inductive == ASSUME ~Threads PROVE Spec => []IInv
<1>1. Init => IInv
  BY InitIInv
<1>2. TypeOK' /\ IInv /\ [Next]_vars => IInv'
  BY NextKeepsIInv
<1>. QED
  BY <1>1, <1>2, TypeCorrect, PTL DEF Spec

\* Unless two threads of one process write at once, the file at the target path is
\* complete in every reachable state, across failures, crashes and pid reuse.
THEOREM NeverTorn == ASSUME ~Threads PROVE Spec => []TargetWhole
<1>1. IInv => TargetWhole
  BY DEF IInv
<1>. QED
  BY <1>1, Inductive, PTL

-----------------------------------------------------------------------------
(***************************************************************************)
(* Refinement.                                                             *)
(***************************************************************************)

\* Both the file and the readers' open descriptors show inodes that no call in
\* progress owns, so a step that only writes a live call's inode changes neither.
LEMMA HiddenWrite ==
  ASSUME NEW i \in Inodes,
         \A j \in Inodes : j # i => data'[j] = data[j],
         dir'[Target] = dir[Target], dir[Target] # i, TypeOK,
         UNCHANGED <<rfd, got>>, \A r \in Readers : rfd[r] # i
  PROVE  UNCHANGED <<FileVersion, OpenVersions, VersionsRead>>
<1>. USE DEF TypeOK, Names
<1>1. FileVersion' = FileVersion
  BY DEF FileVersion, Version
<1>2. \A r \in Readers : rfd[r] # NoInode => Version(rfd[r])' = Version(rfd[r])
  BY DEF Version
<1>3. OpenVersions' = OpenVersions
  BY <1>2 DEF OpenVersions
<1>4. VersionsRead' = VersionsRead
  BY DEF VersionsRead
<1>. QED
  BY <1>1, <1>3, <1>4

\* Creating and writing the temp file are invisible at the path.
LEMMA TempStepsStutter ==
  ASSUME IInv, ~Threads, NEW u \in Writers, Create(u) \/ Write(u), TypeOK'
  PROVE  UNCHANGED Abs!vars
<1>. USE NamesAssumption, InodesAssumption, TmpInNames DEF TypeOK, Names, Inodes, IInv
<1>1. Results' = Results
  BY DEF Create, Write, Results, Outcome
<1>2. CASE Create(u)
  <2>. DEFINE inode == IF dir[Tmp(u)] = NoInode THEN u ELSE dir[Tmp(u)]
  <2>1. inode \in Inodes
    OBVIOUS
  <2>2. dir[Target] # inode /\ \A r \in Readers : rfd[r] # inode
    BY <1>2 DEF Create, OneNamePerInode, FreshInode, OpenIsWhole
  <2>3. /\ dir'[Target] = dir[Target]
        /\ \A j \in Inodes : j # inode => data'[j] = data[j]
        /\ UNCHANGED <<rfd, got>>
    BY <1>2 DEF Create
  <2>. HIDE DEF inode
  <2>. QED
    BY <1>1, <2>1, <2>2, <2>3, HiddenWrite DEF Abs!vars
<1>3. CASE Write(u)
  <2>1. u \in Live
    BY <1>3 DEF Write, Live
  <2>2. fd[u] \in Inodes /\ dir[Tmp(u)] = fd[u]
    BY <2>1 DEF OwnsTemp
  <2>3. dir[Target] # fd[u] /\ \A r \in Readers : rfd[r] # fd[u]
    BY <2>2 DEF OneNamePerInode, OpenIsWhole
  <2>4. /\ dir'[Target] = dir[Target]
        /\ \A j \in Inodes : j # fd[u] => data'[j] = data[j]
        /\ UNCHANGED <<rfd, got>>
    BY <1>3 DEF Write
  <2>. QED
    BY <1>1, <2>2, <2>3, <2>4, HiddenWrite DEF Abs!vars
<1>. QED
  BY <1>2, <1>3

\* A rename is the abstract replacement.
LEMMA RenameReplaces ==
  ASSUME IInv, NEW u \in Writers, Rename(u), TypeOK'
  PROVE  Abs!Replace(u)
<1>. USE NamesAssumption, InodesAssumption, TmpInNames DEF TypeOK, Names, Inodes, IInv
<1>1. u \in Live /\ pc[u] = "written" /\ pc' = [pc EXCEPT ![u] = "ok"]
  BY DEF Rename, Live
<1>2. OwnsTemp(u)
  BY <1>1
<1>3. dir'[Target] = fd[u] /\ fd[u] # NoInode /\ UNCHANGED <<data, rfd, got>>
  BY <1>2 DEF Rename, OwnsTemp
<1>4. data[fd[u]] = [by |-> u, whole |-> TRUE]
  BY <1>1, <1>2 DEF OwnsTemp
<1>5. FileVersion' = u
  BY <1>3, <1>4 DEF FileVersion, Version
<1>6. Results[u] = "pending" /\ Results' = [Results EXCEPT ![u] = "ok"]
  BY <1>1 DEF Results, Outcome
<1>7. OpenVersions' = OpenVersions /\ VersionsRead' = VersionsRead
  BY <1>3 DEF OpenVersions, VersionsRead, Version
<1>. QED
  BY <1>5, <1>6, <1>7 DEF Abs!Replace

\* A failure and a crash leave the published file alone.
LEMMA FailureLeavesAlone ==
  ASSUME IInv, NEW u \in Writers, FailCreate(u) \/ FailStep(u) \/ Crash(u), TypeOK'
  PROVE  Abs!LeaveAlone(u)
<1>. USE NamesAssumption, TmpInNames DEF TypeOK, Names, IInv
<1>1. PICK end \in {"err", "left", "dead"} : pc' = [pc EXCEPT ![u] = end]
  BY DEF FailCreate, FailStep, Crash
<1>. DEFINE outcome == IF end = "dead" THEN "dead" ELSE "err"
<1>2. /\ pc[u] \in {"idle", "created", "written"}
      /\ dir'[Target] = dir[Target]
      /\ UNCHANGED <<data, rfd, got>>
  BY DEF FailCreate, FailStep, Crash
<1>3. Results[u] = "pending" /\ Results' = [Results EXCEPT ![u] = outcome]
  BY <1>1, <1>2 DEF Results, Outcome
<1>4. UNCHANGED <<FileVersion, OpenVersions, VersionsRead>>
  BY <1>2 DEF FileVersion, OpenVersions, VersionsRead, Version
<1>. QED
  BY <1>3, <1>4 DEF Abs!LeaveAlone

\* A reader opens and reads one whole version.
LEMMA ReaderSimulates ==
  ASSUME IInv, NEW q \in Readers, Open(q) \/ Read(q), TypeOK'
  PROVE  Abs!Open(q) \/ Abs!Read(q)
<1>. USE NamesAssumption, InodesAssumption DEF TypeOK, Names, Inodes, Contents, IInv
<1>1. FileVersion' = FileVersion /\ Results' = Results
  BY DEF Open, Read, FileVersion, Results, Outcome, Version
<1>2. CASE Open(q)
  <2>1. /\ rfd[q] = NoInode /\ dir[Target] # NoInode
        /\ rfd' = [rfd EXCEPT ![q] = dir[Target]]
        /\ UNCHANGED <<data, got>>
    BY <1>2 DEF Open
  <2>2. Version(dir[Target]) \in Inodes /\ FileVersion = Version(dir[Target])
    BY <2>1 DEF TargetWhole, Version, FileVersion
  <2>3. OpenVersions[q] = NoInode /\ OpenVersions'[q] = FileVersion
    BY <2>1, <2>2 DEF OpenVersions, Version
  <2>5. \A r \in Readers : r # q => OpenVersions'[r] = OpenVersions[r]
    BY <2>1 DEF OpenVersions, Version
  <2>6. OpenVersions' = [OpenVersions EXCEPT ![q] = FileVersion]
    BY <2>3, <2>5 DEF OpenVersions
  <2>4. VersionsRead' = VersionsRead
    BY <2>1 DEF VersionsRead
  <2>. QED
    BY <1>1, <2>2, <2>3, <2>4, <2>6 DEF Abs!Open
<1>3. CASE Read(q)
  <2>1. /\ rfd[q] # NoInode
        /\ got' = [got EXCEPT ![q] = data[rfd[q]]]
        /\ rfd' = [rfd EXCEPT ![q] = NoInode]
        /\ UNCHANGED data
    BY <1>3 DEF Read
  <2>2. Version(rfd[q]) \in Inodes /\ OpenVersions[q] = Version(rfd[q])
    BY <2>1 DEF OpenIsWhole, Version, OpenVersions
  <2>3. OpenVersions' = [OpenVersions EXCEPT ![q] = NoInode]
    BY <2>1 DEF OpenVersions, Version
  <2>4. got'[q] # NoInode /\ got'[q].whole /\ got'[q].by = OpenVersions[q]
    BY <2>1, <2>2, ContentsAssumption DEF OpenIsWhole, Version
  <2>5. VersionsRead' = [VersionsRead EXCEPT ![q] = OpenVersions[q]]
    BY <2>1, <2>4 DEF VersionsRead
  <2>. QED
    BY <1>1, <2>2, <2>3, <2>5 DEF Abs!Read
<1>. QED
  BY <1>2, <1>3

LEMMA StepSimulation ==
  ASSUME ~Threads
  PROVE  IInv /\ TypeOK' /\ [Next]_vars => [Abs!Next]_(Abs!vars)
<1>. SUFFICES ASSUME IInv, TypeOK', [Next]_vars
              PROVE  [Abs!Next]_(Abs!vars)
  OBVIOUS
<1>1. ASSUME NEW u \in Writers, Create(u) \/ Write(u)
      PROVE  UNCHANGED Abs!vars
  BY <1>1, TempStepsStutter
<1>2. ASSUME NEW u \in Writers, Rename(u)
      PROVE  Abs!Next
  BY <1>2, RenameReplaces DEF Abs!Next
<1>3. ASSUME NEW u \in Writers, FailCreate(u) \/ FailStep(u) \/ Crash(u)
      PROVE  Abs!Next
  BY <1>3, FailureLeavesAlone DEF Abs!Next
<1>4. ASSUME NEW q \in Readers, Open(q) \/ Read(q)
      PROVE  Abs!Next
  BY <1>4, ReaderSimulates DEF Abs!Next
<1>5. CASE UNCHANGED vars
  BY <1>5 DEF vars, Abs!vars, FileVersion, Results, OpenVersions, VersionsRead,
              Outcome, Version
<1>. QED
  BY <1>1, <1>2, <1>3, <1>4, <1>5 DEF Next

\* Unless two threads of one process write at once, the temp-file-and-rename protocol
\* of atomic_write implements the abstract atomic file for any number of calls,
\* readers and pids.
THEOREM Implements == ASSUME ~Threads PROVE Spec => ImplementsAtomicFile
<1>1. Init => Abs!Init
  BY NamesAssumption, InodesAssumption
     DEF Init, Abs!Init, FileVersion, Results, OpenVersions, VersionsRead, Outcome,
         Version, Names, Inodes
<1>2. IInv /\ TypeOK' /\ [Next]_vars => [Abs!Next]_(Abs!vars)
  BY StepSimulation
<1>. QED
  BY <1>1, <1>2, Inductive, TypeCorrect, PTL DEF Spec, ImplementsAtomicFile, Abs!Spec
=============================================================================
