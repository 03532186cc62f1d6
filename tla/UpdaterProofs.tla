--------------------------- MODULE UpdaterProofs ----------------------------
(***************************************************************************)
(* Proofs about Updater, for every set of releases, every choice of those  *)
(* that do not run, and any number of faults and crashes: the types on     *)
(* every platform; on Linux, where a process replaces its program file at  *)
(* most once, that the backup is kept and that AgentBinary is implemented. *)
(***************************************************************************)
EXTENDS Updater, TLAPS

(* What the steps of an installation rely on: the download is the verified
   release of the manifest until it is renamed, and the backup is whole from
   the moment a rollback may need it. *)
DownloadInv ==
  /\ pc \in {"mode", "backup", "copy", "swap"} => temp = manifest
  /\ pc \in {"download", "mode", "backup", "copy", "swap"} => is_newer(manifest, current)
  /\ pc \in {"swap", "smoke", "rollback"} => bak \in Versions

(* The order of backup, swap and rollback on Linux, and that the program file is
   the release known to run as long as the process can still name it. *)
SwapInv ==
  /\ pc \in {"backup", "copy", "swap"} => exe
  /\ pc = "swap" => bak = binary
  /\ pc \in {"smoke", "rollback"} => ~exe /\ binary = manifest /\ bak = current
  /\ pc # "down" /\ exe => binary = current

-----------------------------------------------------------------------------
(* The types hold initially. *)
LEMMA TypeInit == Init => TypeOK /\ DownloadInv
BY UpdaterAssumption DEF Init, TypeOK, Contents, DownloadInv

(* Every step keeps what the later steps of the installation rely on. *)
LEMMA DownloadNext == TypeOK /\ DownloadInv /\ [Next]_vars => DownloadInv'
BY DEF TypeOK, DownloadInv, Next, install_update, vars, files, env, fault, check_for_update, Tick,
   Verified, DownloadFails, PreserveMode, PreserveModeFails, Backup, Copied, CopyFails, Swap,
   SwapFails, SmokePasses, SmokeFails, rollback, RollbackFails, Advertise, Stop, Crash, Restart

(* The counters of the model stay within their bounds. *)
LEMMA BoundsNext ==
  TypeOK /\ [Next]_vars => faults' \in 0..MaxFaults /\ crashes' \in 0..MaxCrashes
BY UpdaterAssumption DEF TypeOK, Next, install_update, vars, files, env, fault, Tick,
   Verified, DownloadFails, PreserveMode, PreserveModeFails, Backup, Copied, CopyFails, Swap,
   SwapFails, SmokePasses, SmokeFails, rollback, RollbackFails, Advertise, Stop, Crash, Restart

(* Every step keeps the types: the program file is only ever replaced by the
   verified download or by its whole backup. *)
LEMMA TypeNext == TypeOK /\ DownloadInv /\ [Next]_vars => TypeOK'
<1> SUFFICES ASSUME TypeOK, DownloadInv, [Next]_vars PROVE TypeOK'
  OBVIOUS
<1>1. faults' \in 0..MaxFaults /\ crashes' \in 0..MaxCrashes
  BY BoundsNext
<1> QED
  BY <1>1, UpdaterAssumption DEF TypeOK, Contents, DownloadInv, Next, install_update, vars, files,
     env, fault, Tick, Verified, DownloadFails, PreserveMode, PreserveModeFails, Backup, Copied,
     CopyFails, Swap, SwapFails, SmokePasses, SmokeFails, rollback, RollbackFails, Advertise, Stop,
     Crash, Restart

(* The program file is a whole, verified release at every moment: also between
   two steps of install_update and after a crash (TypeOK of Updater). *)
THEOREM TypeCorrect == Spec => [](TypeOK /\ DownloadInv)
<1>1. TypeOK /\ DownloadInv /\ [Next]_vars => (TypeOK /\ DownloadInv)'
  BY DownloadNext, TypeNext
<1> QED
  BY TypeInit, <1>1, PTL DEF Spec

-----------------------------------------------------------------------------
(* On Linux, every step keeps the order of backup, swap and rollback. *)
LEMMA SwapNext ==
  ASSUME Linux, TypeOK, DownloadInv, SwapInv, BackupIsKept, [Next]_vars
  PROVE  SwapInv' /\ BackupIsKept'
<1> USE DEF SwapInv, BackupIsKept
<1>1. CASE Tick
  BY <1>1 DEF Tick
<1>2. CASE Verified \/ DownloadFails \/ PreserveMode \/ PreserveModeFails
  BY <1>2 DEF files, env, fault, Verified, DownloadFails, PreserveMode, PreserveModeFails
<1>3. CASE Backup \/ Copied \/ CopyFails
  BY <1>3 DEF files, env, fault, Backup, Copied, CopyFails
<1>4. CASE Swap \/ SwapFails
  BY <1>4 DEF DownloadInv, files, env, fault, Swap, SwapFails
<1>5. CASE SmokePasses \/ SmokeFails \/ rollback \/ RollbackFails
  BY <1>5 DEF files, env, fault, SmokePasses, SmokeFails, rollback, RollbackFails
<1>6. CASE Advertise \/ Stop \/ Crash \/ Restart \/ UNCHANGED vars
  BY <1>6 DEF Advertise, Stop, Crash, Restart, vars, files, env
<1> QED
  BY <1>1, <1>2, <1>3, <1>4, <1>5, <1>6 DEF Next, install_update

(* On Linux, whenever the program file is not known to run, .bak is the release
   that is: after any crash or failed rollback there is something to restore
   from (installer.rs, install_update and rollback). *)
THEOREM BackupIsKeptCorrect ==
  ASSUME Linux
  PROVE  Spec => [](SwapInv /\ BackupIsKept)
<1>1. Init => SwapInv /\ BackupIsKept
  BY DEF Init, SwapInv, BackupIsKept
<1>2. TypeOK /\ DownloadInv /\ SwapInv /\ BackupIsKept /\ [Next]_vars => (SwapInv /\ BackupIsKept)'
  BY SwapNext
<1> QED
  BY <1>1, <1>2, TypeCorrect, PTL DEF Spec

-----------------------------------------------------------------------------
(* The comparison of AgentBinary is the one of Updater. *)
LEMMA SameOrder == \A a, b : Binary!is_newer(a, b) <=> is_newer(a, b)
BY DEF Binary!is_newer, Binary!vec_gt, Binary!resize, is_newer, vec_gt, resize

(* Every step is a step of AgentBinary or leaves its variables alone: Swap
   upgrades, a passed smoke test and a restart prove, rollback takes back. *)
LEMMA BinaryNext ==
  ASSUME Linux, TypeOK, DownloadInv, SwapInv, [Next]_vars
  PROVE  [Binary!Next]_(Binary!binaryVars)
<1> USE DEF Binary!binaryVars
<1>1. CASE Swap
  BY <1>1, SameOrder DEF TypeOK, DownloadInv, SwapInv, Swap, Binary!Next, Binary!Upgrade
<1>2. CASE SmokePasses
  BY <1>2 DEF SwapInv, SmokePasses, files, Binary!Next, Binary!Prove
<1>3. CASE rollback
  BY <1>3 DEF SwapInv, rollback, Binary!Next, Binary!TakeBack
<1>4. CASE Restart
  BY <1>4 DEF Restart, Binary!Next, Binary!Prove
<1>5. CASE Tick \/ Advertise \/ Stop \/ Crash \/ UNCHANGED vars
  BY <1>5 DEF Tick, Advertise, Stop, Crash, vars, files
<1>6. CASE install_update /\ ~Swap /\ ~SmokePasses /\ ~rollback
  BY <1>6 DEF install_update, files, fault, Verified, DownloadFails, PreserveMode,
     PreserveModeFails, Backup, Copied, CopyFails, SwapFails, SmokeFails, RollbackFails
<1> QED
  BY <1>1, <1>2, <1>3, <1>4, <1>5, <1>6 DEF Next

(* On Linux the updater implements AgentBinary: the program file changes only
   from a release known to run to a newer one, at once, and back to it. *)
THEOREM Implementation ==
  ASSUME Linux
  PROVE  Spec => ImplementsBinary
<1>1. Init => Binary!Init
  BY UpdaterAssumption DEF Init, Binary!Init
<1>2. TypeOK /\ DownloadInv /\ SwapInv /\ [Next]_vars => [Binary!Next]_(Binary!binaryVars)
  BY BinaryNext
<1> QED
  BY <1>1, <1>2, TypeCorrect, BackupIsKeptCorrect, PTL DEF Spec, ImplementsBinary, Binary!Spec
-----------------------------------------------------------------------------
(* Segment i of v, padded with zeros for ever. *)
segment(v, i) == IF i \in 1..Len(v) THEN v[i] ELSE 0

(* The first segment in which a and b differ is larger in a. *)
LargerAt(a, b, i) ==
  segment(a, i) > segment(b, i) /\ \A j \in 1..(i - 1) : segment(a, j) = segment(b, j)

(* Padded segments are numbers. *)
LEMMA SegmentIsNat ==
  ASSUME NEW v \in Segments, NEW i \in Nat
  PROVE  segment(v, i) \in Nat
BY DEF segment, Segments

(* How much the vectors are padded makes no difference. *)
LEMMA NewerIsLargerAt ==
  ASSUME NEW a \in Segments, NEW b \in Segments
  PROVE  is_newer(a, b) <=> \E i \in Nat \ {0} : LargerAt(a, b, i)
<1> DEFINE len == IF Len(a) > Len(b) THEN Len(a) ELSE Len(b)
           ra == resize(a, len)
           rb == resize(b, len)
<1>1. Len(a) \in Nat /\ Len(b) \in Nat /\ len \in Nat /\ Len(a) <= len /\ Len(b) <= len
  BY DEF Segments
<1>2. Len(ra) = len /\ Len(rb) = len
  BY <1>1 DEF resize
<1>3. \A i \in 1..len : ra[i] = segment(a, i) /\ rb[i] = segment(b, i)
  BY <1>1 DEF resize, segment
<1>4. \A i \in Nat \ {0} : i > len => segment(a, i) = 0 /\ segment(b, i) = 0
  BY <1>1 DEF segment
<1>5. is_newer(a, b) <=> vec_gt(ra, rb)
  BY DEF is_newer
<1> HIDE DEF ra, rb, len
<1>6. vec_gt(ra, rb) <=> \E i \in 1..len : ra[i] > rb[i] /\ \A j \in 1..(i - 1) : ra[j] = rb[j]
  BY <1>1, <1>2 DEF vec_gt
<1>7. \A i \in 1..len :
        (ra[i] > rb[i] /\ \A j \in 1..(i - 1) : ra[j] = rb[j]) <=> LargerAt(a, b, i)
  BY <1>1, <1>3 DEF LargerAt
<1>8. \A i \in Nat \ {0} : LargerAt(a, b, i) => i \in 1..len
  BY <1>1, <1>4 DEF LargerAt
<1> QED
  BY <1>1, <1>5, <1>6, <1>7, <1>8

(* is_newer is asymmetric and transitive on all versions: no run of updates,
   each to a newer version, ever ends at or below where it began (checker.rs,
   is_newer). *)
THEOREM NewerOrder ==
  ASSUME NEW a \in Segments, NEW b \in Segments, NEW c \in Segments
  PROVE  /\ is_newer(a, b) => ~is_newer(b, a)
         /\ is_newer(a, b) /\ is_newer(b, c) => is_newer(a, c)
<1>1. \A i \in Nat : segment(a, i) \in Nat /\ segment(b, i) \in Nat /\ segment(c, i) \in Nat
  BY SegmentIsNat
<1>2. ASSUME is_newer(a, b), is_newer(b, a)
      PROVE  FALSE
  <2>1. PICK i \in Nat \ {0} : LargerAt(a, b, i)
    BY <1>2, NewerIsLargerAt
  <2>2. PICK k \in Nat \ {0} : LargerAt(b, a, k)
    BY <1>2, NewerIsLargerAt
  <2>3. CASE i < k
    BY <1>1, <2>1, <2>2, <2>3 DEF LargerAt
  <2>4. CASE i > k
    BY <1>1, <2>1, <2>2, <2>4 DEF LargerAt
  <2>5. CASE i = k
    BY <1>1, <2>1, <2>2, <2>5 DEF LargerAt
  <2> QED
    BY <2>3, <2>4, <2>5
<1>3. ASSUME is_newer(a, b), is_newer(b, c)
      PROVE  is_newer(a, c)
  <2>1. PICK i \in Nat \ {0} : LargerAt(a, b, i)
    BY <1>3, NewerIsLargerAt
  <2>2. PICK k \in Nat \ {0} : LargerAt(b, c, k)
    BY <1>3, NewerIsLargerAt
  <2>3. CASE i < k
    <3>1. LargerAt(a, c, i)
      BY <1>1, <2>1, <2>2, <2>3 DEF LargerAt
    <3> QED
      BY <3>1, NewerIsLargerAt
  <2>4. CASE i > k
    <3>1. LargerAt(a, c, k)
      BY <1>1, <2>1, <2>2, <2>4 DEF LargerAt
    <3> QED
      BY <3>1, NewerIsLargerAt
  <2>5. CASE i = k
    <3>1. LargerAt(a, c, i)
      BY <1>1, <2>1, <2>2, <2>5 DEF LargerAt
    <3> QED
      BY <3>1, NewerIsLargerAt
  <2> QED
    BY <2>3, <2>4, <2>5
<1> QED
  BY <1>2, <1>3
=============================================================================
