----------------------------- MODULE AtomicFile -----------------------------
(***************************************************************************)
(* What the bundle's writers promise about one file: a write either        *)
(* replaces the whole file or leaves it alone, and a reader sees, from     *)
(* open to close, one whole version of it.                                 *)
(*                                                                         *)
(* AtomicWrite implements this specification with a temporary file and a   *)
(* rename.                                                                 *)
(***************************************************************************)
CONSTANTS
  Writers,   \* the calls of the write helper; a version is the call that wrote it
  Readers,   \* the readers of the file
  Old,       \* the version that may be there before any call
  Absent     \* no file, or no version seen yet

VARIABLES
  file,      \* the version at the path, Absent when there is none
  result,    \* per call: "pending", "ok", "err" or "dead"
  snap,      \* per reader: the version its open file descriptor shows
  seen       \* per reader: the version it read last

vars == <<file, result, snap, seen>>

Versions == Writers \union {Old, Absent}

Init ==
  /\ file \in {Old, Absent}
  /\ result = [w \in Writers |-> "pending"]
  /\ snap = [r \in Readers |-> Absent]
  /\ seen = [r \in Readers |-> Absent]

\* The call returns Ok: the path now holds the bytes it was given.
Replace(w) ==
  /\ result[w] = "pending"
  /\ file' = w
  /\ result' = [result EXCEPT ![w] = "ok"]
  /\ UNCHANGED <<snap, seen>>

\* The call returns an error, or its process dies: the path is untouched.
LeaveAlone(w) ==
  /\ result[w] = "pending"
  /\ \E outcome \in {"err", "dead"} : result' = [result EXCEPT ![w] = outcome]
  /\ UNCHANGED <<file, snap, seen>>

Open(r) ==
  /\ file # Absent
  /\ snap[r] = Absent
  /\ snap' = [snap EXCEPT ![r] = file]
  /\ UNCHANGED <<file, result, seen>>

Read(r) ==
  /\ snap[r] # Absent
  /\ seen' = [seen EXCEPT ![r] = snap[r]]
  /\ snap' = [snap EXCEPT ![r] = Absent]
  /\ UNCHANGED <<file, result>>

Next ==
  \/ \E w \in Writers : Replace(w) \/ LeaveAlone(w)
  \/ \E r \in Readers : Open(r) \/ Read(r)

Spec == Init /\ [][Next]_vars
=============================================================================
