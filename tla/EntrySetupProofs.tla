--------------------------- MODULE EntrySetupProofs ---------------------------
(***************************************************************************)
(* TypeOK, PackIsWhole and CoordinatorsHaveAnEntry of EntrySetup, for any  *)
(* entries, files, flows that provision and number of faults.              *)
(*                                                                         *)
(* The pack: a publication under way has replaced the files up to written, *)
(* and its rollback has put back those up to restored; the others are as   *)
(* it found them.  One publication runs at a time, by the lock.            *)
(* The coordinators: one that is live outside the stages that own it is    *)
(* the price of a late failure, as is one that was replaced.               *)
(***************************************************************************)
EXTENDS EntrySetup, TLAPS

Going == {"writing", "rolling back"}
AllOf(generation) == [f \in Files |-> generation]
Partial(from, to) == [f \in Files |-> IF from < f /\ f <= to THEN next - 1 ELSE backup[f]]

PTypes ==
    /\ disk \in [Files -> Generations] /\ backup \in [Files -> Generations]
    /\ published \in Generations /\ next \in 2 .. MaxPacks + 2
    /\ request \in [Requests -> {"none", "waiting"} \cup Publishing]
    /\ written \in 0 .. NFiles /\ restored \in 0 .. written
    /\ damaged \in BOOLEAN /\ unannounced \in BOOLEAN /\ faults \in 0 .. MaxFaults
OneAtATime == \A r, q \in Requests : request[r] \in Publishing /\ request[q] \in Publishing => r = q
AtRest ==
    (\A r \in Requests : request[r] \notin Going)
        => written = 0 /\ restored = 0 /\ (~damaged => disk = AllOf(published))
UnderWay ==
    \A r \in Requests : request[r] \in Going =>
        /\ request[r] = "writing" => restored = 0
        /\ request[r] = "writing" \/ ~damaged => disk = Partial(restored, written)
        /\ ~damaged => backup = AllOf(published)
PInv == PTypes /\ OneAtATime /\ AtRest /\ UnderWay

\* What a change to one request does to the set of all requests.
LEMMA RequestSet ==
    ASSUME PTypes, NEW r \in Requests, NEW s \in {"none", "waiting"} \cup Publishing,
           request' = [request EXCEPT ![r] = s]
    PROVE  /\ request' \in [Requests -> {"none", "waiting"} \cup Publishing]
           /\ request'[r] = s /\ \A q \in Requests \ {r} : request'[q] = request[q]
BY DEF PTypes

(* A request that neither publishes before the step nor after it.          *)
LEMMA QuietRequest ==
    ASSUME PInv, NEW r \in Requests, NEW s \in {"none", "waiting"} \cup Publishing,
           request' = [request EXCEPT ![r] = s],
           request[r] \notin Going, s \notin Going,
           s \in Publishing => request[r] \in Publishing \/ Lock = {},
           UNCHANGED <<disk, backup, published, next, written, restored, damaged, unannounced, faults>>
    PROVE  PInv'
<1>1. /\ request' \in [Requests -> {"none", "waiting"} \cup Publishing]
      /\ request'[r] = s /\ \A q \in Requests \ {r} : request'[q] = request[q]
  BY RequestSet DEF PInv
<1>2. PTypes'
  BY <1>1 DEF PInv, PTypes
<1>3. OneAtATime'
  BY <1>1 DEF PInv, OneAtATime, Lock
<1>4. \A q \in Requests : (request'[q] \in Going <=> request[q] \in Going)
                            /\ (request[q] \in Going => request'[q] = request[q])
  BY <1>1
<1>5. AtRest'
  BY <1>4 DEF PInv, AtRest, AllOf, Files
<1>6. UnderWay'
  BY <1>4 DEF PInv, UnderWay, AllOf, Partial, Files
<1> QED  BY <1>2, <1>3, <1>5, <1>6 DEF PInv

(* The publication starts: it has found what is there.                     *)
LEMMA StagedStep == ASSUME PInv, NEW r \in Requests, Staged(r) PROVE PInv'
<1>0. NFiles \in Nat /\ MaxPacks \in Nat /\ request' = [request EXCEPT ![r] = "writing"]
      /\ UNCHANGED <<disk, published, written, restored, damaged, unannounced, faults>>
      /\ next' = next + 1 /\ backup' = disk /\ request[r] = "downloading" /\ next <= MaxPacks + 1
  BY PackAssumption DEF Staged
<1>1. /\ request' \in [Requests -> {"none", "waiting"} \cup Publishing]
      /\ request'[r] = "writing" /\ \A q \in Requests \ {r} : request'[q] = request[q]
  BY <1>0, RequestSet DEF PInv, Publishing
<1>2. \A q \in Requests : request[q] \notin Going
  BY <1>0 DEF PInv, OneAtATime, Publishing, Going
<1>3. written = 0 /\ restored = 0 /\ (~damaged => disk = AllOf(published))
  BY <1>2 DEF PInv, AtRest
<1>4. PTypes'
  BY <1>0, <1>1, <1>3 DEF PInv, PTypes
<1>5. OneAtATime'
  BY <1>0, <1>1 DEF PInv, OneAtATime, Publishing
<1>6. disk' = Partial(restored, written)'
  <2>1. \A f \in Files : ~(restored' < f /\ f <= written')
    BY <1>0, <1>3 DEF Files
  <2>2. disk' = [f \in Files |-> backup'[f]]
    BY <1>0 DEF PInv, PTypes
  <2> QED  BY <2>1, <2>2 DEF Partial
<1>7. AtRest' /\ UnderWay'
  <2>1. request'[r] \in Going
    BY <1>1 DEF Going
  <2>2. \A q \in Requests : request'[q] \in Going => q = r
    BY <1>1, <1>2
  <2>3. ~damaged' => backup' = AllOf(published)'
    BY <1>0, <1>3 DEF AllOf, Files
  <2> QED  BY <1>0, <1>3, <1>6, <2>1, <2>2, <2>3 DEF AtRest, UnderWay
<1> QED  BY <1>4, <1>5, <1>7 DEF PInv

(* A step of the publication under way, which is alone.                    *)
LEMMA Alone ==
    ASSUME PInv, NEW r \in Requests, request[r] \in Going
    PROVE  /\ \A q \in Requests \ {r} : request[q] \notin Publishing
           /\ request[r] = "writing" => restored = 0
           /\ request[r] = "writing" \/ ~damaged => disk = Partial(restored, written)
           /\ ~damaged => backup = AllOf(published)
BY DEF PInv, OneAtATime, UnderWay, Going, Publishing

\* A step of one request that stays within the publication keeps the invariant of the pack.
LEMMA GoesOn ==
    ASSUME PInv, NEW r \in Requests, request[r] \in Going, request'[r] \in Going, PTypes',
           \A q \in Requests \ {r} : request'[q] = request[q],
           /\ request'[r] = "writing" => restored' = 0
           /\ request'[r] = "writing" \/ ~damaged' => disk' = Partial(restored, written)'
           /\ ~damaged' => backup' = AllOf(published)'
    PROVE  PInv'
<1>1. \A q \in Requests \ {r} : request'[q] \notin Publishing
  BY Alone
<1>2. OneAtATime'
  BY <1>1 DEF OneAtATime
<1>3. AtRest'
  BY DEF AtRest
<1>4. UnderWay'
  BY <1>1 DEF UnderWay, Going, Publishing
<1> QED  BY <1>2, <1>3, <1>4 DEF PInv

\* A publication that ends keeps the invariant of the pack.
LEMMA Ends ==
    ASSUME PInv, NEW r \in Requests, request[r] \in Going, request' = [request EXCEPT ![r] = "none"], PTypes',
           written' = 0 /\ restored' = 0 /\ (~damaged' => disk' = AllOf(published)')
    PROVE  PInv'
<1>1. request'[r] = "none" /\ \A q \in Requests \ {r} : request'[q] = request[q]
  BY RequestSet DEF PInv, Publishing
<1>2. \A q \in Requests : request'[q] \notin Publishing
  BY <1>1, Alone DEF Publishing
<1>3. OneAtATime' /\ UnderWay'
  BY <1>2 DEF OneAtATime, UnderWay, Publishing, Going
<1>4. AtRest'
  BY DEF AtRest
<1> QED  BY <1>3, <1>4 DEF PInv

\* Replacing one file keeps the invariant of the pack.
LEMMA ReplaceFileStep == ASSUME PInv, NEW r \in Requests, ReplaceFile(r) PROVE PInv'
<1>0. /\ NFiles \in Nat /\ MaxPacks \in Nat /\ written \in 0 .. NFiles /\ next \in 2 .. MaxPacks + 2
      /\ request[r] = "writing" /\ written < NFiles /\ written' = written + 1
      /\ disk' = [disk EXCEPT ![written + 1] = next - 1]
      /\ UNCHANGED <<backup, published, next, request, restored, damaged, unannounced, faults>>
  BY PackAssumption DEF ReplaceFile, PInv, PTypes
<1>1. restored = 0 /\ disk = Partial(0, written) /\ (~damaged => backup = AllOf(published))
  BY <1>0, Alone DEF Going
<1>2. next - 1 \in Generations /\ written + 1 \in Files
  BY <1>0 DEF Generations, Files
<1>3. PTypes'
  <2>1. disk' \in [Files -> Generations]
    BY <1>0, <1>2 DEF PInv, PTypes
  <2>2. written' \in 0 .. NFiles /\ restored' \in 0 .. written'
    BY <1>0, <1>1
  <2> QED  BY <1>0, <2>1, <2>2 DEF PInv, PTypes
<1>4. disk' = Partial(restored, written)'
  <2>1. \A f \in Files : disk'[f] = IF f <= written + 1 THEN next - 1 ELSE backup[f]
    <3>1. TAKE f \in Files
    <3>2. f \in 1 .. NFiles /\ disk[f] = IF 0 < f /\ f <= written THEN next - 1 ELSE backup[f]
      BY <1>1 DEF Partial, Files
    <3>3. disk'[f] = IF f = written + 1 THEN next - 1 ELSE disk[f]
      BY <1>0, <1>2, <3>1 DEF PInv, PTypes
    <3> QED  BY <1>0, <3>2, <3>3
  <2>2. disk' = [f \in Files |-> disk'[f]]
    BY <1>3 DEF PTypes
  <2>3. \A f \in Files : (IF f <= written + 1 THEN next - 1 ELSE backup[f])
            = (IF restored' < f /\ f <= written' THEN next' - 1 ELSE backup'[f])
    BY <1>0, <1>1 DEF Files
  <2> QED  BY <2>1, <2>2, <2>3 DEF Partial
<1>5. ~damaged' => backup' = AllOf(published)'
  BY <1>0, <1>1 DEF AllOf, Files
<1> QED  BY <1>0, <1>1, <1>3, <1>4, <1>5, GoesOn DEF Going

\* A replacement that fails keeps the invariant of the pack.
LEMMA ReplaceFailsStep == ASSUME PInv, NEW r \in Requests, ReplaceFails(r) PROVE PInv'
<1>0. /\ request[r] = "writing" /\ request' = [request EXCEPT ![r] = "rolling back"]
      /\ faults < MaxFaults /\ faults' = faults + 1 /\ unannounced' = (unannounced \/ written > 0)
      /\ UNCHANGED <<disk, backup, published, next, written, restored, damaged>>
  BY DEF ReplaceFails
<1>1. disk = Partial(restored, written) /\ (~damaged => backup = AllOf(published))
  BY <1>0, Alone DEF Going
<1>2. /\ request' \in [Requests -> {"none", "waiting"} \cup Publishing]
      /\ request'[r] = "rolling back" /\ \A q \in Requests \ {r} : request'[q] = request[q]
  BY <1>0, RequestSet DEF PInv, Publishing
<1>3. faults' \in 0 .. MaxFaults
  <2>1. faults \in 0 .. MaxFaults /\ MaxFaults \in Nat /\ faults < MaxFaults /\ faults' = faults + 1
    BY <1>0, PackAssumption DEF PInv, PTypes
  <2> QED  BY <2>1
<1>4. unannounced' \in BOOLEAN
  BY <1>0
<1>5. PTypes'
  BY <1>0, <1>2, <1>3, <1>4 DEF PInv, PTypes
<1>6. disk' = Partial(restored, written)' /\ (~damaged' => backup' = AllOf(published)')
  BY <1>0, <1>1 DEF Partial, AllOf, Files
<1> QED  BY <1>0, <1>2, <1>5, <1>6, GoesOn DEF Going

\* Restoring one file keeps the invariant of the pack.
LEMMA RollBackFileStep == ASSUME PInv, NEW r \in Requests, RollBackFile(r) PROVE PInv'
<1>0. /\ NFiles \in Nat /\ MaxFaults \in Nat /\ written \in 0 .. NFiles /\ restored \in 0 .. written
      /\ request[r] = "rolling back" /\ restored < written /\ restored' = restored + 1
      /\ UNCHANGED <<backup, published, next, request, written, unannounced>>
  BY PackAssumption DEF RollBackFile, PInv, PTypes
<1>n. NFiles \in Nat /\ MaxFaults \in Nat /\ written \in 0 .. NFiles /\ restored \in 0 .. written /\ restored < written
  BY <1>0
<1>1. ~damaged => disk = Partial(restored, written) /\ backup = AllOf(published)
  BY <1>0, Alone DEF Going
<1>2. restored' \in 0 .. written' /\ restored + 1 \in Files
  <2>1. NFiles \in Nat /\ written \in 0 .. NFiles /\ restored \in 0 .. written /\ restored < written
    BY <1>0
  <2>2. restored + 1 \in 0 .. written /\ restored + 1 \in 1 .. NFiles
    BY <2>1
  <2> QED  BY <1>0, <2>2 DEF Files
<1>3. CASE disk' = [disk EXCEPT ![restored + 1] = backup[restored + 1]] /\ UNCHANGED <<damaged, faults>>
  <2>1. disk' \in [Files -> Generations]
    BY <1>2, <1>3 DEF PInv, PTypes
  <2>2. PTypes'
    BY <1>0, <1>2, <1>3, <2>1 DEF PInv, PTypes
  <2>3. ASSUME ~damaged PROVE disk' = Partial(restored, written)'
    <3>1. ASSUME NEW f \in Files
          PROVE  disk'[f] = IF restored + 1 < f /\ f <= written THEN next - 1 ELSE backup[f]
      <4>1. f \in 1 .. NFiles /\ disk[f] = IF restored < f /\ f <= written THEN next - 1 ELSE backup[f]
        BY <1>1, <2>3 DEF Partial, Files
      <4>2. disk'[f] = IF f = restored + 1 THEN backup[f] ELSE disk[f]
        BY <1>2, <1>3 DEF PInv, PTypes
      <4>3. f \in Nat /\ written \in Nat /\ restored \in Nat /\ restored < written
        BY <1>n, <4>1
      <4>4. CASE f = restored + 1
        BY <4>2, <4>3, <4>4
      <4>5. CASE f # restored + 1
        BY <4>1, <4>2, <4>3, <4>5
      <4> QED  BY <4>4, <4>5
    <3>2. disk' = [f \in Files |-> disk'[f]]
      BY <2>1
    <3>3. \A f \in Files : (IF restored + 1 < f /\ f <= written THEN next - 1 ELSE backup[f])
              = (IF restored' < f /\ f <= written' THEN next' - 1 ELSE backup'[f])
      BY <1>0
    <3> QED  BY <3>1, <3>2, <3>3 DEF Partial
  <2>4. ~damaged' => backup' = AllOf(published)'
    BY <1>0, <1>1, <1>3 DEF AllOf, Files
  <2> QED  BY <1>0, <1>3, <2>2, <2>3, <2>4, GoesOn DEF Going
<1>4. CASE faults < MaxFaults /\ faults' = faults + 1 /\ damaged' = TRUE /\ UNCHANGED disk
  <2>1. faults' \in 0 .. MaxFaults /\ damaged' \in BOOLEAN
    <3>1. faults \in 0 .. MaxFaults
      BY DEF PInv, PTypes
    <3>2. faults < MaxFaults /\ faults' = faults + 1 /\ MaxFaults \in Nat
      BY <1>0, <1>4
    <3>3. faults' \in 0 .. MaxFaults
      BY <3>1, <3>2
    <3> QED  BY <1>4, <3>3
  <2>2. PTypes'
    BY <1>0, <1>2, <1>4, <2>1 DEF PInv, PTypes
  <2> QED  BY <1>0, <1>4, <2>2, GoesOn DEF Going
<1> QED  BY <1>3, <1>4 DEF RollBackFile

\* The last steps of a publication keep the invariant of the pack.
LEMMA EndSteps ==
    ASSUME PInv, NEW r \in Requests, NEW forget, NEW announced \in BOOLEAN,
           RolledBack(r) \/ Published(r, forget, announced)
    PROVE  PInv'
<1>0. /\ NFiles \in Nat /\ MaxPacks \in Nat /\ written \in 0 .. NFiles /\ restored \in 0 .. written
      /\ next \in 2 .. MaxPacks + 2
  BY PackAssumption DEF PInv, PTypes
<1>1. CASE RolledBack(r)
  <2>1. /\ request[r] = "rolling back" /\ restored = written
        /\ request' = [request EXCEPT ![r] = "none"] /\ written' = 0 /\ restored' = 0
        /\ UNCHANGED <<disk, backup, published, next, damaged, unannounced, faults>>
    BY <1>1 DEF RolledBack
  <2>2. request' \in [Requests -> {"none", "waiting"} \cup Publishing]
    BY <2>1, RequestSet DEF PInv, Publishing
  <2>3. PTypes'
    <3>1. written' \in 0 .. NFiles /\ restored' \in 0 .. written'
      <4>1. written' = 0 /\ restored' = 0 /\ NFiles \in Nat
        BY <1>0, <2>1
      <4> QED  BY <4>1
    <3> QED  BY <2>1, <2>2, <3>1 DEF PInv, PTypes
  <2>4. ASSUME ~damaged PROVE disk' = AllOf(published)'
    <3>1. disk = Partial(written, written) /\ backup = AllOf(published)
      BY <2>1, <2>4, Alone DEF Going
    <3>2. Partial(written, written) = [f \in Files |-> backup[f]]
      BY <1>0 DEF Partial, Files
    <3> QED  BY <2>1, <3>1, <3>2 DEF AllOf, Files
  <2> QED  BY <2>1, <2>3, <2>4, Ends DEF Going
<1>2. CASE Published(r, forget, announced)
  <2>1. /\ request[r] = "writing" /\ written = NFiles /\ request' = [request EXCEPT ![r] = "none"]
        /\ published' = next - 1 /\ written' = 0 /\ damaged' = FALSE
        /\ UNCHANGED <<disk, backup, next, restored, faults>>
    BY <1>2 DEF Published
  <2>2. restored = 0 /\ disk = Partial(0, NFiles)
    BY <2>1, Alone DEF Going
  <2>3. request' \in [Requests -> {"none", "waiting"} \cup Publishing]
    BY <2>1, RequestSet DEF PInv, Publishing
  <2>4. published' \in Generations /\ unannounced' \in BOOLEAN
    BY <1>0, <1>2, <2>1 DEF Published, Generations
  <2>5. PTypes'
    <3>1. written' \in 0 .. NFiles /\ restored' \in 0 .. written' /\ damaged' \in BOOLEAN
      <4>1. written' = 0 /\ restored' = 0 /\ NFiles \in Nat
        BY <1>0, <2>1, <2>2
      <4>2. written' \in 0 .. NFiles /\ restored' \in 0 .. written'
        BY <4>1
      <4> QED  BY <4>2, <2>1
    <3> QED  BY <2>1, <2>3, <2>4, <3>1 DEF PInv, PTypes
  <2>6. disk' = AllOf(published)'
    BY <1>0, <2>1, <2>2 DEF Partial, AllOf, Files
  <2> QED  BY <2>1, <2>2, <2>5, <2>6, Ends DEF Going
<1> QED  BY <1>1, <1>2

\* A crash amid a publication keeps the invariant of the pack.
LEMMA CrashStep == ASSUME PInv, PackCrash PROVE PInv'
<1>0. /\ NFiles \in Nat /\ MaxFaults \in Nat /\ faults' = faults + 1 /\ faults < MaxFaults
      /\ request' = [r \in Requests |-> "none"] /\ written' = 0 /\ restored' = 0 /\ unannounced' = FALSE
      /\ UNCHANGED <<disk, backup, published, next>>
      /\ damaged' = (damaged \/ \E r \in Requests : request[r] \in {"writing", "rolling back"} /\ written > 0)
  BY PackAssumption DEF PackCrash
<1>1. damaged' \in BOOLEAN
  BY <1>0
<1>2. PTypes'
  <2>1. faults' \in 0 .. MaxFaults /\ request' \in [Requests -> {"none", "waiting"} \cup Publishing]
    <3>1. faults \in 0 .. MaxFaults
      BY DEF PInv, PTypes
    <3>2. MaxFaults \in Nat /\ faults' = faults + 1 /\ faults < MaxFaults
      BY <1>0
    <3>3. faults' \in 0 .. MaxFaults
      BY <3>1, <3>2
    <3> QED  BY <1>0, <3>3
  <2>2. written' \in 0 .. NFiles /\ restored' \in 0 .. written' /\ unannounced' \in BOOLEAN
    <3>1. written' = 0 /\ restored' = 0 /\ NFiles \in Nat
      BY <1>0
    <3>2. written' \in 0 .. NFiles /\ restored' \in 0 .. written'
      BY <3>1
    <3> QED  BY <1>0, <3>2
  <2> QED  BY <1>0, <1>1, <2>1, <2>2 DEF PInv, PTypes
<1>3. ASSUME ~damaged' PROVE disk' = AllOf(published)'
  <2>1. ~damaged /\ \A r \in Requests : request[r] \in Going => ~(written > 0)
    BY <1>0, <1>3 DEF Going
  <2>2. CASE \A r \in Requests : request[r] \notin Going
    BY <1>0, <2>1, <2>2 DEF PInv, AtRest, AllOf, Files
  <2>3. ASSUME NEW r \in Requests, request[r] \in Going PROVE disk' = AllOf(published)'
    <3>1. written = 0 /\ restored \in 0 .. written
      <4>1. written \in 0 .. NFiles /\ restored \in 0 .. written /\ NFiles \in Nat /\ ~(written > 0)
        BY <1>0, <2>1, <2>3 DEF PInv, PTypes
      <4> QED  BY <4>1
    <3>2. disk = Partial(restored, written) /\ backup = AllOf(published)
      BY <2>1, <2>3, Alone
    <3>3. Partial(restored, written) = [f \in Files |-> backup[f]]
      BY <1>0, <3>1 DEF Partial, Files
    <3> QED  BY <1>0, <3>2, <3>3 DEF AllOf, Files
  <2> QED  BY <2>2, <2>3
<1>4. OneAtATime' /\ UnderWay' /\ AtRest'
  BY <1>0, <1>3 DEF OneAtATime, UnderWay, AtRest, Publishing, Going
<1> QED  BY <1>2, <1>4 DEF PInv

---------------------------------------------------------------------------
(* The entries.                                                            *)
Owners == {"forward", "loaded", "stopping"}
Sessions == {"none", "live", "dead"}
Stray(e) == IF session[e] = "live" /\ stage[e] \notin Owners THEN 1 ELSE 0
Cached == [Files -> Generations \cup {Uncached}]
STypes ==
    /\ stage \in [Entries -> Stages] /\ read \in [Entries -> 0 .. NFiles]
    /\ \A e \in Entries : stage[e] = "warming" => read[e] < NFiles
    /\ built \in [Entries -> Cached] /\ cache \in Cached
    /\ session \in [Entries -> Sessions] /\ orphans \in [Entries -> Nat]
    /\ reload \in SUBSET Entries /\ late \in 0 .. MaxLate
Owned ==
    \A e \in Entries : /\ stage[e] \in Owners => session[e] = "live"
                       /\ stage[e] \in {"off", "unloading"} => session[e] # "live"
                       /\ orphans[e] + Stray(e) <= late
SInv == STypes /\ Owned

(* A step of one entry.                                                    *)
LEMMA EntryMoves ==
    ASSUME SInv, NEW e \in Entries, NEW t \in Stages, stage' = [stage EXCEPT ![e] = t],
           read' \in [Entries -> 0 .. NFiles], t = "warming" => read'[e] < NFiles,
           built' \in [Entries -> Cached], cache' \in Cached,
           session' \in [Entries -> Sessions], orphans' \in [Entries -> Nat],
           \A d \in Entries \ {e} : read'[d] = read[d] /\ session'[d] = session[d] /\ orphans'[d] = orphans[d],
           reload' \in SUBSET Entries, late' \in 0 .. MaxLate, late <= late',
           t \in Owners => session'[e] = "live",
           t \in {"off", "unloading"} => session'[e] # "live",
           orphans'[e] + (IF session'[e] = "live" /\ t \notin Owners THEN 1 ELSE 0) <= late'
    PROVE  SInv'
<1>1. stage' \in [Entries -> Stages] /\ stage'[e] = t /\ \A d \in Entries \ {e} : stage'[d] = stage[d]
  BY DEF SInv, STypes
<1>2. \A d \in Entries : stage'[d] = "warming" => read'[d] < NFiles
  BY <1>1 DEF SInv, STypes
<1>3. STypes'
  BY <1>1, <1>2 DEF STypes
<1>4. ASSUME NEW d \in Entries
      PROVE  /\ stage'[d] \in Owners => session'[d] = "live"
             /\ stage'[d] \in {"off", "unloading"} => session'[d] # "live"
             /\ orphans'[d] + Stray(d)' <= late'
  <2>1. CASE d = e
    BY <1>1, <2>1 DEF Stray
  <2>2. CASE d # e
    <3>1. /\ stage'[d] = stage[d] /\ session'[d] = session[d] /\ orphans'[d] = orphans[d] /\ Stray(d)' = Stray(d)
      BY <1>1, <2>2 DEF Stray
    <3>2. /\ stage[d] \in Owners => session[d] = "live"
          /\ stage[d] \in {"off", "unloading"} => session[d] # "live"
          /\ orphans[d] + Stray(d) <= late /\ orphans[d] \in Nat /\ Stray(d) \in Nat /\ late \in Int /\ late' \in Int
      BY DEF SInv, STypes, Owned, Stray
    <3> QED  BY <3>1, <3>2
  <2> QED  BY <2>1, <2>2
<1> QED  BY <1>3, <1>4 DEF SInv, Owned

(* What a step of one entry has to say of the coordinators, when it leaves them alone. *)
LEMMA CoordinatorsStay ==
    ASSUME SInv, NEW e \in Entries, UNCHANGED <<session, orphans>>
    PROVE  /\ session' \in [Entries -> Sessions] /\ orphans' \in [Entries -> Nat] /\ late \in Nat
           /\ \A d \in Entries \ {e} : session'[d] = session[d] /\ orphans'[d] = orphans[d]
           /\ stage[e] \in Owners => session'[e] = "live" /\ orphans'[e] <= late
           /\ stage[e] \notin Owners => orphans'[e] + (IF session'[e] = "live" THEN 1 ELSE 0) <= late
<1>1. late \in Nat
  BY SetupAssumption DEF SInv, STypes
<1>2. session \in [Entries -> Sessions] /\ orphans \in [Entries -> Nat]
  BY DEF SInv, STypes
<1>3. (stage[e] \in Owners => session[e] = "live") /\ orphans[e] + Stray(e) <= late
  BY DEF SInv, Owned
<1> QED  BY <1>1, <1>2, <1>3 DEF Stray

(* A step of a set-up that has not started its session, or of one that did not get there. *)
LEMMA WithoutCoordinator ==
    ASSUME SInv, NEW e \in Entries, NEW t \in {"warming", "retry", "auth", "refresh", "error"},
           stage[e] \notin Owners, stage' = [stage EXCEPT ![e] = t],
           read' \in [Entries -> 0 .. NFiles], t = "warming" => read'[e] < NFiles,
           \A d \in Entries \ {e} : read'[d] = read[d],
           cache' \in Cached, reload' \in SUBSET Entries, UNCHANGED <<session, orphans, built, late>>
    PROVE  SInv'
<1>1. /\ session' \in [Entries -> Sessions] /\ orphans' \in [Entries -> Nat] /\ built' \in [Entries -> Cached]
      /\ late' \in 0 .. MaxLate /\ late' = late
  BY DEF SInv, STypes
<1>2. late <= late'
  BY <1>1, SetupAssumption
<1>3. t \in Stages /\ t \notin Owners /\ t \notin {"off", "unloading"}
  BY DEF Stages, Owners
<1>4. orphans'[e] + (IF session'[e] = "live" /\ t \notin Owners THEN 1 ELSE 0) <= late'
  BY <1>1, <1>3, CoordinatorsStay
<1>5. \A d \in Entries \ {e} : read'[d] = read[d] /\ session'[d] = session[d] /\ orphans'[d] = orphans[d]
  OBVIOUS
<1> HIDE DEF Owners
<1> QED  BY <1>1, <1>2, <1>3, <1>4, <1>5, EntryMoves

(* A step that hands the entry on with its coordinator live.               *)
LEMMA WithCoordinator ==
    ASSUME SInv, NEW e \in Entries, NEW t \in Owners, stage' = [stage EXCEPT ![e] = t],
           session' \in [Entries -> Sessions], orphans' \in [Entries -> Nat], built' \in [Entries -> Cached],
           \A d \in Entries \ {e} : session'[d] = session[d] /\ orphans'[d] = orphans[d],
           session'[e] = "live", orphans'[e] <= late,
           cache' \in Cached, UNCHANGED <<read, reload, late>>
    PROVE  SInv'
<1>1. /\ read' \in [Entries -> 0 .. NFiles] /\ reload' \in SUBSET Entries
      /\ late' \in 0 .. MaxLate /\ late' = late /\ orphans'[e] \in Nat
  BY DEF SInv, STypes
<1>2. late <= late'
  BY <1>1, SetupAssumption
<1>3. t \in Stages /\ t # "warming" /\ t \notin {"off", "unloading"}
  BY DEF Stages, Owners
<1>4. orphans'[e] + (IF session'[e] = "live" /\ t \notin Owners THEN 1 ELSE 0) <= late'
  BY <1>1
<1>5. \A d \in Entries \ {e} : read'[d] = read[d] /\ session'[d] = session[d] /\ orphans'[d] = orphans[d]
  OBVIOUS
<1> QED  BY <1>1, <1>2, <1>3, <1>4, <1>5, EntryMoves

(* A step that leaves the entry without a live coordinator.                *)
LEMMA CoordinatorGone ==
    ASSUME SInv, NEW e \in Entries, NEW t \in {"off", "unloading", "stuck"}, stage' = [stage EXCEPT ![e] = t],
           session' \in [Entries -> Sessions], built' \in [Entries -> Cached],
           \A d \in Entries \ {e} : session'[d] = session[d],
           session'[e] # "live", orphans[e] <= late, reload' \in SUBSET Entries,
           late' \in 0 .. MaxLate, late <= late',
           UNCHANGED <<read, cache, orphans>>
    PROVE  SInv'
<1>1. /\ read' \in [Entries -> 0 .. NFiles] /\ cache' \in Cached
      /\ orphans' \in [Entries -> Nat] /\ orphans' = orphans /\ late \in 0 .. MaxLate
  BY DEF SInv, STypes
<1>2. orphans'[e] \in Nat /\ orphans[e] \in Nat /\ orphans'[e] = orphans[e] /\ late \in Int /\ late' \in Int
  BY <1>1
<1>3. t \in Stages /\ t # "warming" /\ t \notin Owners
  BY DEF Stages, Owners
<1>4. orphans'[e] + (IF session'[e] = "live" /\ t \notin Owners THEN 1 ELSE 0) <= late'
  BY <1>2
<1>5. \A d \in Entries \ {e} : read'[d] = read[d] /\ session'[d] = session[d] /\ orphans'[d] = orphans[d]
  OBVIOUS
<1> QED  BY <1>1, <1>3, <1>4, <1>5, EntryMoves

(* The caches are filled from the disk, or emptied.                        *)
LEMMA CacheTypes ==
    ASSUME PInv, SInv, ForgetAll \/ UNCHANGED cache \/ (\E f \in Files : Read(f))
                         \/ cache' = [f \in Files |-> IF cache[f] = Uncached THEN disk[f] ELSE cache[f]]
    PROVE  cache' \in Cached
<1>1. cache \in Cached /\ disk \in [Files -> Generations]
  BY DEF PInv, PTypes, SInv, STypes
<1>2. CASE ForgetAll \/ UNCHANGED cache
  BY <1>1, <1>2 DEF ForgetAll, Cached
<1>3. CASE \E f \in Files : Read(f)
  BY <1>1, <1>3 DEF Read, Cached
<1>4. CASE cache' = [f \in Files |-> IF cache[f] = Uncached THEN disk[f] ELSE cache[f]]
  BY <1>1, <1>4 DEF Cached
<1> QED  BY <1>2, <1>3, <1>4

\* Each step of a set-up keeps the invariant of the entries.
LEMMA SetupSteps == ASSUME PInv, SInv, NEW e \in Entries, SetupStep(e) PROVE SInv'
<1>n. NFiles \in Nat /\ MaxLate \in Nat /\ late \in 0 .. MaxLate
  BY PackAssumption, SetupAssumption DEF SInv, STypes
<1>0. /\ read \in [Entries -> 0 .. NFiles] /\ built \in [Entries -> Cached] /\ cache \in Cached
      /\ reload \in SUBSET Entries
      /\ session \in [Entries -> Sessions] /\ orphans \in [Entries -> Nat]
      /\ \A d \in Entries : stage[d] = "warming" => read[d] < NFiles
  BY DEF SInv, STypes
<1>1. CASE Begin(e)
  <2>1. stage[e] \notin Owners /\ UNCHANGED <<session, orphans, built, late>>
    BY <1>1 DEF Begin, Owners, UnchangedCoordinators
  <2>2. read' \in [Entries -> 0 .. NFiles] /\ read'[e] = 0 /\ \A d \in Entries \ {e} : read'[d] = read[d]
    BY <1>0, <1>1, <1>n DEF Begin
  <2>3. reload' \in SUBSET Entries
    BY <1>0, <1>1 DEF Begin
  <2>4. cache' \in Cached
    BY <1>1, CacheTypes DEF Begin
  <2>5. PICK t \in {"warming", "retry"} : stage' = [stage EXCEPT ![e] = t]
    BY <1>1 DEF Begin, Move
  <2>6. 0 < NFiles
    BY PackAssumption
  <2> QED  BY <2>1, <2>2, <2>3, <2>4, <2>5, <2>6, WithoutCoordinator
<1>2. CASE Warm(e)
  <2>1. stage[e] = "warming" /\ UNCHANGED <<session, orphans, built, reload, issue, late>>
    BY <1>2 DEF Warm, UnchangedCoordinators
  <2>2. read[e] < NFiles /\ read[e] \in 0 .. NFiles
    BY <1>0, <2>1
  <2>3. read[e] + 1 \in Files /\ read[e] + 1 \in 0 .. NFiles
    BY <1>n, <2>2 DEF Files
  <2>4. cache' \in Cached
    BY <1>2, <2>3, CacheTypes DEF Warm
  <2>5. CASE Move(e, "retry") /\ UNCHANGED <<cache, read>>
    BY <1>0, <2>1, <2>4, <2>5, WithoutCoordinator DEF Move, Owners
  <2>6. CASE read' = [read EXCEPT ![e] = read[e] + 1] /\ (IF read[e] + 1 = NFiles THEN Move(e, "auth") ELSE UNCHANGED stage)
    <3>1. read' \in [Entries -> 0 .. NFiles] /\ read'[e] = read[e] + 1 /\ \A d \in Entries \ {e} : read'[d] = read[d]
      BY <1>0, <2>3, <2>6
    <3>2. CASE read[e] + 1 = NFiles
      <4>1. Move(e, "auth")
        BY <2>6, <3>2
      <4> QED  BY <1>0, <2>1, <2>4, <3>1, <4>1, WithoutCoordinator DEF Move, Owners
    <3>3. CASE read[e] + 1 # NFiles
      <4>1. stage' = [stage EXCEPT ![e] = "warming"]
        BY <2>1, <2>6, <3>3 DEF SInv, STypes
      <4>2. read'[e] < NFiles
        BY <1>n, <2>2, <3>1, <3>3
      <4> QED  BY <1>0, <2>1, <2>4, <3>1, <4>1, <4>2, WithoutCoordinator DEF Owners
    <3> QED  BY <3>2, <3>3
  <2> QED  BY <1>2, <2>5, <2>6 DEF Warm
<1>3. CASE NotReady(e) \/ Authenticated(e)
  <2>1. stage[e] \in {"auth", "refresh"} /\ UNCHANGED <<session, orphans, cache, read, built, reload, issue, late>>
    BY <1>3 DEF NotReady, Authenticated, UnchangedCoordinators
  <2>2. PICK t \in {"retry", "error", "refresh"} : stage' = [stage EXCEPT ![e] = t]
    BY <1>3 DEF NotReady, Authenticated, Move
  <2> QED  BY <1>0, <2>1, <2>2, WithoutCoordinator DEF Owners
<1>4. CASE Refreshed(e)
  <2>1. /\ stage[e] = "refresh" /\ stage' = [stage EXCEPT ![e] = "forward"]
        /\ session' = [session EXCEPT ![e] = "live"]
        /\ orphans' = [orphans EXCEPT ![e] = @ + (IF session[e] = "live" THEN 1 ELSE 0)]
        /\ UNCHANGED <<cache, read, built, reload, issue, late>>
    BY <1>4 DEF Refreshed, Move
  <2>2. orphans[e] \in Nat /\ orphans[e] + (IF session[e] = "live" THEN 1 ELSE 0) <= late
    BY <1>0, <2>1 DEF SInv, Owned, Stray, Owners
  <2>3. /\ session' \in [Entries -> Sessions] /\ session'[e] = "live" /\ orphans' \in [Entries -> Nat]
        /\ \A d \in Entries \ {e} : session'[d] = session[d] /\ orphans'[d] = orphans[d]
    BY <1>0, <2>1, <2>2 DEF Sessions
  <2>4. orphans'[e] <= late
    BY <1>0, <2>1, <2>2
  <2>5. orphans'[e] \in Nat
    BY <2>3
  <2> QED  BY <1>0, <2>1, <2>3, <2>4, WithCoordinator DEF Owners
<1>5. CASE Forwarded(e)
  <2>1. /\ stage[e] = "forward" /\ stage' = [stage EXCEPT ![e] = "loaded"]
        /\ UNCHANGED <<session, orphans, read, reload, issue, late>> /\ built' = [built EXCEPT ![e] = cache']
    BY <1>5 DEF Forwarded, Move, UnchangedCoordinators
  <2>2. cache' \in Cached
    BY <1>5, CacheTypes DEF Forwarded
  <2>3. built' \in [Entries -> Cached]
    BY <1>0, <2>1, <2>2
  <2>4. session'[e] = "live" /\ orphans'[e] <= late /\ orphans' \in [Entries -> Nat]
    BY <2>1, CoordinatorsStay DEF Owners
  <2> QED  BY <1>0, <2>1, <2>2, <2>3, <2>4, WithCoordinator DEF Owners
<1>6. CASE LateFailure(e)
  <2>1. /\ stage[e] = "forward" /\ stage' = [stage EXCEPT ![e] = "error"] /\ late < MaxLate /\ late' = late + 1
        /\ UNCHANGED <<session, orphans, cache, read, built, reload, issue>>
    BY <1>6 DEF LateFailure, Move, UnchangedCoordinators
  <2>2. orphans'[e] <= late /\ orphans'[e] \in Nat
    BY <1>0, <2>1, CoordinatorsStay DEF Owners
  <2>3. late' \in 0 .. MaxLate /\ late <= late' /\ orphans'[e] + 1 <= late'
    BY <1>n, <2>1, <2>2
  <2>4. orphans'[e] + (IF session'[e] = "live" /\ "error" \notin Owners THEN 1 ELSE 0) <= late'
    BY <1>n, <2>1, <2>2, <2>3
  <2> QED  BY <1>0, <1>n, <2>1, <2>3, <2>4, EntryMoves DEF Stages, Owners
<1> QED  BY <1>1, <1>2, <1>3, <1>4, <1>5, <1>6 DEF SetupStep

\* Each step of an unload keeps the invariant of the entries.
LEMMA UnloadSteps ==
    ASSUME PInv, SInv, NEW e \in Entries, Unload(e) \/ UnloadStep(e) \/ AskReload(e) \/ LookUp(e)
    PROVE  SInv'
<1>n. NFiles \in Nat /\ MaxLate \in Nat /\ late \in 0 .. MaxLate
  BY PackAssumption, SetupAssumption DEF SInv, STypes
<1>0. /\ read \in [Entries -> 0 .. NFiles] /\ built \in [Entries -> Cached] /\ cache \in Cached
      /\ reload \in SUBSET Entries
      /\ session \in [Entries -> Sessions] /\ orphans \in [Entries -> Nat]
      /\ \A d \in Entries : stage[d] = "warming" => read[d] < NFiles
  BY DEF SInv, STypes
<1>1. CASE Unload(e)
  <2>1. /\ stage[e] = "loaded" /\ stage' = [stage EXCEPT ![e] = "stopping"]
        /\ UNCHANGED <<session, orphans, cache, read, built, reload, issue, late>>
    BY <1>1 DEF Unload, Move, UnchangedCoordinators
  <2>2. session'[e] = "live" /\ orphans'[e] <= late /\ orphans' \in [Entries -> Nat]
    BY <2>1, CoordinatorsStay DEF Owners
  <2> QED  BY <1>0, <2>1, <2>2, WithCoordinator DEF Owners
<1>2. CASE ShutDown(e)
  <2>1. /\ stage[e] = "stopping" /\ stage' = [stage EXCEPT ![e] = "unloading"]
        /\ session' = [session EXCEPT ![e] = "dead"]
        /\ UNCHANGED <<orphans, cache, read, built, reload, issue, late>>
    BY <1>2 DEF ShutDown, Move
  <2>2. session' \in [Entries -> Sessions] /\ session'[e] = "dead" /\ \A d \in Entries \ {e} : session'[d] = session[d]
    BY <1>0, <2>1 DEF Sessions
  <2>3. orphans[e] <= late /\ orphans[e] \in Nat
    BY <1>0, <2>1 DEF SInv, Owned, Stray, Owners
  <2>4. late <= late' /\ late' \in 0 .. MaxLate
    BY <1>n, <2>1
  <2> QED  BY <1>0, <2>1, <2>2, <2>3, <2>4, CoordinatorGone
<1>3. CASE Unloaded(e)
  <2>0. stage[e] = "unloading" /\ session[e] # "live"
    BY <1>3 DEF Unloaded, SInv, Owned
  <2>1. orphans[e] <= late /\ orphans[e] \in Nat
    BY <1>0, <2>0 DEF SInv, Owned, Stray, Owners
  <2>2. CASE /\ Move(e, "off") /\ session' = [session EXCEPT ![e] = "none"]
             /\ built' = [built EXCEPT ![e] = NoBuild] /\ UNCHANGED <<reload, late>>
    <3>1. /\ session' \in [Entries -> Sessions] /\ session'[e] = "none"
          /\ \A d \in Entries \ {e} : session'[d] = session[d]
      BY <1>0, <2>2 DEF Sessions
    <3>2. NoBuild \in Cached
      BY DEF NoBuild, Cached
    <3>3. built' \in [Entries -> Cached]
      BY <1>0, <2>2, <3>2
    <3>4. UNCHANGED <<orphans, cache, read, issue>>
      BY <1>3 DEF Unloaded
    <3>5. late <= late' /\ late' \in 0 .. MaxLate
      BY <1>n, <2>2
    <3> QED  BY <1>0, <2>1, <2>2, <3>1, <3>3, <3>4, <3>5, CoordinatorGone DEF Move
  <2>3. CASE /\ late < MaxLate /\ late' = late + 1 /\ Move(e, "stuck")
             /\ reload' = reload \ {e} /\ UNCHANGED <<session, built>>
    <3>1. UNCHANGED <<orphans, cache, read, issue>>
      BY <1>3 DEF Unloaded
    <3>2. late' \in 0 .. MaxLate /\ late <= late' /\ orphans'[e] <= late'
      BY <1>n, <2>1, <2>3, <3>1
    <3>3. session'[e] # "live"
      BY <2>0, <2>3
    <3> QED  BY <1>0, <2>1, <2>3, <3>1, <3>2, <3>3, CoordinatorGone DEF Move
  <2> QED  BY <1>3, <2>2, <2>3 DEF Unloaded
<1>4. CASE AskReload(e) \/ ReloadRefused(e)
  <2>1. UNCHANGED <<cache, stage, read, built, session, orphans, issue, late>> /\ reload' \in SUBSET Entries
    BY <1>0, <1>4 DEF AskReload, ReloadRefused, packVars
  <2> QED  BY <2>1 DEF SInv, STypes, Owned, Stray
<1>5. CASE LookUp(e)
  <2>1. UNCHANGED <<stage, read, built, session, orphans, reload, issue, late>>
    BY <1>5 DEF LookUp, setupVars
  <2>2. cache' \in Cached
    BY <1>5, CacheTypes DEF LookUp
  <2> QED  BY <2>1, <2>2 DEF SInv, STypes, Owned, Stray
<1> QED  BY <1>1, <1>2, <1>3, <1>4, <1>5 DEF UnloadStep, ReloadUnloads

---------------------------------------------------------------------------
(* The whole.                                                              *)
IInv == PInv /\ SInv /\ issue \in BOOLEAN

\* A step that leaves the pack alone keeps its invariant.
LEMMA PackStays == PInv /\ UnchangedPack => PInv'
BY DEF PInv, PTypes, OneAtATime, AtRest, UnderWay, AllOf, Partial, Files, UnchangedPack

\* The steps of the requests keep both invariants.
LEMMA FlowSteps ==
    ASSUME IInv, NEW r \in Requests, Ask(r) \/ Provision(r) \/ Provisioned(r)
    PROVE  IInv'
<1>1. PInv'
  <2>1. CASE AskFor(r) \/ TakeLock(r) \/ BuildFails(r)
    <3>1. PICK s \in {"none", "waiting", "downloading"} :
             /\ request' = [request EXCEPT ![r] = s]
             /\ s = "downloading" => Lock = {}
      BY <2>1 DEF AskFor, TakeLock, BuildFails
    <3>2. request[r] \notin Going
          /\ UNCHANGED <<disk, backup, published, next, written, restored, damaged, unannounced, faults>>
      BY <2>1 DEF AskFor, TakeLock, BuildFails, Going
    <3> QED  BY <3>1, <3>2, QuietRequest DEF IInv, Publishing, Going
  <2>2. CASE Staged(r) \/ ReplaceFile(r) \/ ReplaceFails(r) \/ RollBackFile(r) \/ RolledBack(r)
    BY <2>2, StagedStep, ReplaceFileStep, ReplaceFailsStep, RollBackFileStep, EndSteps DEF IInv
  <2>3. CASE Provisioned(r)
    <3>1. Published(r, IF r = <<"user">> THEN Files ELSE {OAuth}, r # <<"user">>)
      BY <2>3 DEF Provisioned
    <3> QED  BY <3>1, EndSteps DEF IInv
  <2> QED  BY <2>1, <2>2, <2>3 DEF Ask, Provision
<1>2. SInv' /\ issue' \in BOOLEAN
  <2>1. CASE Ask(r) \/ Provision(r)
    <3>1. UNCHANGED <<stage, read, built, session, orphans, reload, issue, late>>
      BY <2>1 DEF Ask, Provision, setupVars
    <3>2. UNCHANGED cache
      BY <2>1 DEF Ask, Provision, AskFor, TakeLock, BuildFails, Staged, ReplaceFile, ReplaceFails,
                  RollBackFile, RolledBack
    <3> QED  BY <3>1, <3>2 DEF IInv, SInv, STypes, Owned, Stray
  <2>2. CASE Provisioned(r)
    <3>1. UNCHANGED <<stage, read, built, session, orphans, issue, late>>
      BY <2>2 DEF Provisioned
    <3>2. cache' \in Cached
      <4>1. PICK forget : cache' = [f \in Files |-> IF f \in forget THEN Uncached ELSE cache[f]]
        BY <2>2 DEF Provisioned, Published
      <4> QED  BY <4>1 DEF IInv, SInv, STypes, Cached
    <3>3. reload' \in SUBSET Entries
      <4>1. r \notin {<<"user">>, <<"repair">>} => r[2] \in Entries
        BY RequestsAssumption DEF Kinds
      <4>2. reload \in SUBSET Entries
        BY DEF IInv, SInv, STypes
      <4>3. CASE r = <<"user">>
        <5>1. reload' = reload \cup {}
          BY <2>2, <4>3 DEF Provisioned
        <5> QED  BY <4>2, <5>1
      <4>4. CASE r = <<"repair">>
        <5>1. <<"repair">> # <<"user">>
          OBVIOUS
        <5>2. reload' = reload \cup Entries
          BY <2>2, <4>4, <5>1 DEF Provisioned
        <5> QED  BY <4>2, <5>2
      <4>5. CASE r \notin {<<"user">>, <<"repair">>}
        <5>1. reload' = reload \cup FormReloads(r[2]) \cup BaseClassReloads(r[2])
          BY <2>2, <4>5 DEF Provisioned
        <5> QED  BY <4>1, <4>2, <4>5, <5>1 DEF FormReloads, BaseClassReloads
      <4> QED  BY <4>3, <4>4, <4>5
    <3> QED  BY <3>1, <3>2, <3>3 DEF IInv, SInv, STypes, Owned, Stray
  <2> QED  BY <2>1, <2>2
<1> QED  BY <1>1, <1>2 DEF IInv

\* A restart of the host keeps both invariants.
LEMMA CrashesKeep == ASSUME IInv, Crash PROVE IInv'
<1>1. PInv'
  BY CrashStep DEF Crash, IInv
<1>2. /\ stage' = [e \in Entries |-> "off"] /\ read' = [e \in Entries |-> 0]
      /\ built' = [e \in Entries |-> NoBuild] /\ session' = [e \in Entries |-> "none"]
      /\ orphans' = [e \in Entries |-> 0] /\ reload' = {} /\ issue' = issue /\ late' = late
      /\ cache' = [f \in Files |-> Uncached]
  BY DEF Crash, PackCrash, ForgetAll
<1>3. STypes'
  <2>1. stage' \in [Entries -> Stages] /\ session' \in [Entries -> Sessions] /\ cache' \in Cached /\ NoBuild \in Cached
    BY <1>2 DEF Stages, Sessions, Cached, NoBuild
  <2>2. read' \in [Entries -> 0 .. NFiles] /\ orphans' \in [Entries -> Nat]
    BY <1>2, PackAssumption
  <2> QED  BY <1>2, <2>1, <2>2 DEF IInv, SInv, STypes
<1>4. Owned'
  BY <1>2, SetupAssumption DEF IInv, SInv, STypes, Owned, Stray, Owners
<1> QED  BY <1>1, <1>2, <1>3, <1>4 DEF IInv, SInv

\* Every step keeps the invariants: one case per group of actions.
LEMMA InvStep == IInv /\ [Next]_vars => IInv'
<1> SUFFICES ASSUME IInv, [Next]_vars PROVE IInv'
    OBVIOUS
<1>1. ASSUME NEW e \in Entries, SetupStep(e) \/ LookUp(e) \/ Unload(e) \/ UnloadStep(e) \/ AskReload(e)
      PROVE  IInv'
  <2>1. SInv'
    BY <1>1, SetupSteps, UnloadSteps DEF IInv
  <2>2. PInv'
    <3>1. UnchangedPack
      BY <1>1 DEF SetupStep, Begin, Warm, NotReady, Authenticated, Refreshed, Forwarded, LateFailure, LookUp,
                  Unload, UnloadStep, ShutDown, Unloaded, ReloadUnloads, ReloadRefused, AskReload,
                  UnchangedPack, packVars
    <3> QED  BY <3>1, PackStays DEF IInv
  <2>3. issue' \in {issue, TRUE, FALSE}
    BY <1>1 DEF SetupStep, Begin, Warm, NotReady, Authenticated, Refreshed, Forwarded, LateFailure, LookUp,
                Unload, UnloadStep, ShutDown, Unloaded, ReloadUnloads, ReloadRefused, AskReload, setupVars
  <2> QED  BY <2>1, <2>2, <2>3 DEF IInv
<1>2. ASSUME NEW r \in Requests, Ask(r) \/ Provision(r) \/ Provisioned(r) PROVE IInv'
  BY <1>2, FlowSteps
<1>3. CASE Crash
  BY <1>3, CrashesKeep
<1>4. CASE UNCHANGED vars
  <2>1. UnchangedPack /\ UNCHANGED <<cache, stage, read, built, session, orphans, reload, issue, late>>
    BY <1>4 DEF vars, UnchangedPack
  <2>2. SInv'
    BY <2>1 DEF IInv, SInv, STypes, Owned, Stray
  <2> QED  BY <2>1, <2>2, PackStays DEF IInv
<1> QED  BY <1>1, <1>2, <1>3, <1>4 DEF Next

\* The entries start unloaded over a whole pack.
LEMMA InitInv == Init => IInv
<1> SUFFICES ASSUME Init PROVE IInv
    OBVIOUS
<1>0. NFiles \in Nat \ {0} /\ MaxPacks \in Nat /\ MaxFaults \in Nat /\ MaxLate \in Nat
  BY PackAssumption, SetupAssumption
<1>1. PICK g \in {0, 1} : disk = [f \in Files |-> g]
  BY DEF Init, PackInit
<1>2. /\ backup = disk /\ published = g /\ next = 2 /\ request = [r \in Requests |-> "none"]
      /\ written = 0 /\ restored = 0 /\ damaged = FALSE /\ unannounced = FALSE /\ faults = 0
      /\ cache = [f \in Files |-> Uncached]
  BY <1>0, <1>1 DEF Init, PackInit, Files, OAuth
<1>3. PTypes
  <2>1. g \in Generations /\ next \in 2 .. MaxPacks + 2 /\ written \in 0 .. NFiles /\ restored \in 0 .. written
        /\ faults \in 0 .. MaxFaults
    <3>1. g \in 0 .. MaxPacks + 1 /\ 2 \in 2 .. MaxPacks + 2 /\ 0 \in 0 .. NFiles /\ 0 \in 0 .. 0 /\ 0 \in 0 .. MaxFaults
      BY <1>0
    <3> QED  BY <1>2, <3>1 DEF Generations
  <2> QED  BY <1>1, <1>2, <2>1 DEF PTypes
<1>4. OneAtATime /\ AtRest /\ UnderWay
  BY <1>1, <1>2 DEF OneAtATime, AtRest, UnderWay, Publishing, Going, AllOf
<1>5. STypes
  <2>1. 0 \in 0 .. NFiles /\ 0 \in 0 .. MaxLate
    BY <1>0
  <2>2. stage \in [Entries -> Stages] /\ session \in [Entries -> Sessions] /\ cache \in Cached /\ NoBuild \in Cached
    BY <1>2 DEF Init, SetupInit, Stages, Sessions, Cached, NoBuild
  <2> QED  BY <2>1, <2>2 DEF Init, SetupInit, STypes
<1>6. Owned
  BY DEF Init, SetupInit, Owned, Stray, Owners
<1> QED  BY <1>3, <1>4, <1>5, <1>6 DEF IInv, PInv, SInv, Init, SetupInit

\* The invariants hold in every reachable state.
THEOREM IInvAlways == Spec => []IInv
<1> QED  BY InitInv, InvStep, PTL DEF Spec

(* The bookkeeping of publications, rollbacks, set-ups and unloads keeps to
   its types: a publication never runs past its files, nor a rollback past it. *)
THEOREM TypeCorrect == Spec => []TypeOK
<1>1. IInv => TypeOK
  <2> SUFFICES ASSUME IInv PROVE TypeOK
      OBVIOUS
  <2>1. PackTypeOK
    <3>1. next \in Generations \cup {MaxPacks + 2}
      <4>1. next \in 2 .. MaxPacks + 2 /\ MaxPacks \in Nat
        BY PackAssumption DEF IInv, PInv, PTypes
      <4> QED  BY <4>1 DEF Generations
    <3>2. restored \in 0 .. NFiles
      <4>1. restored \in 0 .. written /\ written \in 0 .. NFiles /\ NFiles \in Nat
        BY PackAssumption DEF IInv, PInv, PTypes
      <4> QED  BY <4>1
    <3> QED  BY <3>1, <3>2 DEF PackTypeOK, IInv, PInv, PTypes, SInv, STypes, Cached
  <2>2. orphans \in [Entries -> 0 .. MaxLate]
    <3>1. ASSUME NEW e \in Entries PROVE orphans[e] \in 0 .. MaxLate
      <4>1. orphans[e] \in Nat /\ Stray(e) \in Nat /\ orphans[e] + Stray(e) <= late /\ late \in 0 .. MaxLate
            /\ MaxLate \in Nat
        BY SetupAssumption DEF IInv, SInv, STypes, Owned, Stray
      <4> QED  BY <4>1
    <3> QED  BY <3>1 DEF IInv, SInv, STypes
  <2> QED  BY <2>1, <2>2 DEF TypeOK, IInv, SInv, STypes, Sessions, Cached
<1> QED  BY <1>1, IInvAlways, PTL

(* Whenever no publication runs, the files are all of the pack that was last
   published, wherever one failed and whoever waited for the lock meanwhile;
   short of a rollback that failed too, or a process that died half way.      *)
THEOREM ThePackIsWhole == Spec => []PackIsWhole
<1>1. IInv => PackIsWhole
  BY DEF IInv, PInv, AtRest, Going, AllOf, PackIsWhole
<1> QED  BY <1>1, IInvAlways, PTL

(* Coordinators are live exactly while their entry is being set up or loaded,
   and each failure of a later step leaves at most one behind.               *)
THEOREM CoordinatorsBelong == Spec => []CoordinatorsHaveAnEntry
<1>1. IInv => CoordinatorsHaveAnEntry
  <2> SUFFICES ASSUME IInv, NEW e \in Entries
               PROVE  /\ stage[e] \in Owners => session[e] = "live"
                      /\ stage[e] \in {"off", "unloading"} => session[e] # "live"
                      /\ late = 0 => orphans[e] = 0 /\ (session[e] = "live" => stage[e] \in Owners)
                      /\ orphans[e] + (IF stage[e] = "error" /\ session[e] = "live" THEN 1 ELSE 0) <= late
      BY DEF CoordinatorsHaveAnEntry, Owners
  <2>1. /\ stage[e] \in Owners => session[e] = "live"
        /\ stage[e] \in {"off", "unloading"} => session[e] # "live"
        /\ orphans[e] + Stray(e) <= late /\ orphans[e] \in Nat /\ late \in Nat
    BY SetupAssumption DEF IInv, SInv, STypes, Owned
  <2>2. late = 0 => orphans[e] = 0 /\ Stray(e) = 0
    BY <2>1 DEF Stray
  <2>3. orphans[e] + (IF stage[e] = "error" /\ session[e] = "live" THEN 1 ELSE 0) <= late
    BY <2>1 DEF Stray, Owners
  <2> QED  BY <2>1, <2>2, <2>3 DEF Stray
<1> QED  BY <1>1, IInvAlways, PTL
=============================================================================
