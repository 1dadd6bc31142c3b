---------------------------- MODULE InstallerProofs ----------------------------
(***************************************************************************)
(* Proofs about Installer, for any disks and disturbances: nothing is      *)
(* written outside a virtual machine without the flag that allows it, or   *)
(* to a disk that was not confirmed unless it changed after the check that *)
(* guards the write; what the page says of the disk is true; and what is   *)
(* held once it says so was hidden from the cleanup, could not be released *)
(* or was left by a cleanup that a signal ended.                           *)
(***************************************************************************)
EXTENDS Installer, FiniteSetTheorems, TLAPS

\* The generations seen so far, and the steps that follow the marker.
Gens == 1..(Cardinality(Paths) + faults)
Writing == {"partition", "identity", "format", "open", "mount", "subvolumes", "install"}

\* A generation belongs to one disk for good, so a disk that was written to
\* is never offered again.
DisksApart ==
    /\ \A p \in Paths : disk[p].gen \in Gens
    /\ \A p, q \in Paths : p # q => disk[p].gen # disk[q].gen
    /\ \A p \in Paths : disk[p].content = "blank" => disk[p].gen \notin erased
    /\ \A c \in choices : c.disk.gen \in Gens
    /\ id \in Gens \cup {0} /\ erased \subseteq Gens

\* The script runs behind the progress page or on the console, and gets past
\* its first check only in a virtual machine or with the flag.
Permits == machine = "vm" \/ (experimental /\ view = "console")
ScriptRuns ==
    /\ pc = "off" <=> view \notin {"progress", "console"}
    /\ pc # "off" => target \in Paths
    /\ pc \in {"prepare", "recheck", "mark"} \cup Writing => Permits
    /\ experimental => view = "console"

\* Until the marker is read nothing of the selected disk is written.
MarkedFirst ==
    /\ ~marked /\ view # "console" => id \notin erased
    /\ view = "install" => ~marked /\ \A c \in choices : c.disk.gen \notin erased
    /\ pc \in Writing => marked

\* What each check leaves to be true at the write that follows it.
ChecksHold ==
    /\ pc \in {"mark", "partition"} /\ ~late =>
         disk[target].gen = id /\ disk[target].content = "blank"
    /\ pc = "identity" /\ disk[target].gen = id => disk[target].content = "written"
    /\ pc = "format" /\ ~late => disk[target].gen = id /\ disk[target].content = "written"

\* The cleanup knows what is held, or the leak is on record.
HeldIsKnown ==
    /\ leak \/ cut \/ ((mounted => "mounted" \in flags) /\ (mapped => "mapped" \in flags))
    /\ pc = "close" => leak \/ cut \/ (~mounted /\ "mounted" \notin flags)
    /\ pc = "unkey" => leak \/ cut \/ (~mounted /\ ~mapped)
    /\ pc \in {"off", "ended"} => flags = {} /\ ("script" \in keys => cut)
    /\ "old" \in keys => cut
    /\ pc = "off" => "page" \notin keys

InstallerInv ==
    TypeOK /\ DisksApart /\ ScriptRuns /\ MarkedFirst /\ ChecksHold /\ HeldIsKnown

LEMMA PathCount == Cardinality(Paths) \in Nat
BY InstallerAssumption, FS_CardinalityType DEF InstallerAssumption

\* A disturbance only makes room for more generations.
LEMMA ApartStays ==
    ASSUME TypeOK, DisksApart, NoStrike \/ \E f \in Disturbances : Strike(f),
           UNCHANGED <<disk, choices, id, erased>>
    PROVE  DisksApart' /\ faults' \in 0..MaxFaults
BY InstallerAssumption, PathCount
   DEF InstallerAssumption, TypeOK, DisksApart, Gens, Strike, NoStrike

LEMMA InitInstaller == Init => InstallerInv
<1>. SUFFICES ASSUME Init PROVE InstallerInv
  OBVIOUS
<1>. USE InstallerAssumption, PathCount DEF InstallerAssumption
<1>1. /\ online \in BOOLEAN /\ marked \in BOOLEAN /\ mapped \in BOOLEAN /\ mounted \in BOOLEAN
      /\ late \in BOOLEAN /\ leak \in BOOLEAN /\ cut \in BOOLEAN /\ experimental \in BOOLEAN
  BY Zenon DEF Init
<1>2. PICK g \in [Paths -> 1..Cardinality(Paths)],
           c \in [Paths -> {"blank", "label", "data", "boot"}] :
          /\ \A p, q \in Paths : p # q => g[p] # g[q]
          /\ disk = [p \in Paths |-> [gen |-> g[p], content |-> c[p]]]
  BY Zenon DEF Init
<1>3. disk \in [Paths -> Disk] /\ DisksApart
  BY <1>2 DEF Init, Disk, Contents, DisksApart, Gens
<1>4. TypeOK
  BY <1>1, <1>3 DEF Init, TypeOK
<1>5. ScriptRuns /\ MarkedFirst /\ ChecksHold /\ HeldIsKnown
  BY DEF Init, ScriptRuns, MarkedFirst, ChecksHold, HeldIsKnown, Writing, Permits
<1>. QED  BY <1>3, <1>4, <1>5 DEF InstallerInv

\* The steps of the page, which touch no disk.
LEMMA PageKeeps ==
    ASSUME InstallerInv, \/ Probe \/ Probed \/ ShowInstall \/ Back \/ FinishInstall \/ FinishByHand
                         \/ \E p \in Paths : Type(p)
                         \/ \E c \in choices : Select(c)
    PROVE  InstallerInv'
<1>. USE InstallerAssumption, PathCount
     DEF InstallerAssumption, InstallerInv, TypeOK, DisksApart, ScriptRuns, MarkedFirst,
         ChecksHold, HeldIsKnown, Writing, Permits, Gens, hardware, page, script, past, Strike, NoStrike,
         Unguarded
<1>1. CASE Probe
  BY <1>1 DEF Probe, StartProbe
<1>2. CASE Probed
  BY <1>2 DEF Probed
<1>3. CASE ShowInstall
  <2>1. marked' = FALSE /\ marked' \in BOOLEAN
    BY <1>3, Zenon DEF ShowInstall
  <2>2. choices' = {} \/ choices' = {[path |-> p, disk |-> disk[p]] : p \in {q \in Paths : Eligible(q)}}
    BY <1>3, Zenon DEF ShowInstall
  <2>3. /\ choices' \subseteq [path : Paths, disk : Disk]
        /\ \A c \in choices' : c.disk.gen \in Gens /\ c.disk.gen \notin erased
    BY <2>2 DEF Eligible
  <2>4. NoStrike \/ (faults' = faults + 1 /\ faults' \in 0..MaxFaults)
    BY <1>3 DEF ShowInstall, InVM, Unknown
  <2>5. 0 \notin erased
    OBVIOUS
  <2>. QED  BY <1>3, <2>1, <2>3, <2>4, <2>5 DEF ShowInstall, StartProbe
<1>4. CASE Back
  BY <1>4 DEF Back, StartProbe
<1>5. CASE FinishInstall
  BY <1>5 DEF FinishInstall
<1>8. CASE FinishByHand
  <2>1. marked' = FALSE /\ marked' \in BOOLEAN /\ experimental' = FALSE /\ experimental' \in BOOLEAN
    BY <1>8, Zenon DEF FinishByHand
  <2>2. 0 \notin erased
    OBVIOUS
  <2>. QED  BY <1>8, <2>1, <2>2 DEF FinishByHand
<1>6. ASSUME NEW p \in Paths, Type(p) PROVE InstallerInv'
  BY <1>6 DEF Type
<1>7. ASSUME NEW c \in choices, Select(c) PROVE InstallerInv'
  BY <1>7 DEF Select, Disk
<1>. QED  BY <1>1, <1>2, <1>3, <1>4, <1>5, <1>6, <1>7, <1>8

\* A run begins, from the page or by hand.
LEMMA StartKeeps ==
    ASSUME InstallerInv, StartInstall \/ \E p \in Paths : StartByHand(p, p) \/ StartByHand(p, NoPath)
    PROVE  InstallerInv'
<1>. USE InstallerAssumption, PathCount
     DEF InstallerAssumption, InstallerInv, TypeOK, DisksApart, ScriptRuns, MarkedFirst,
         ChecksHold, HeldIsKnown, Writing, Permits, Gens, hardware, NoStrike, Unguarded
<1>1. ASSUME Begin
      PROVE  /\ pc' = "validate" /\ ~mounted' /\ ~late' /\ code' = "none"
             /\ mounted' \in BOOLEAN /\ late' \in BOOLEAN /\ leak' \in BOOLEAN /\ cut' \in BOOLEAN
             /\ (mapped => leak') /\ (keys # {} => cut')
  BY <1>1, Zenon DEF Begin, InstallerInv, TypeOK
<1>2. ASSUME Begin
      PROVE  /\ keys' \subseteq {"page", "old"} /\ ("old" \in keys' => keys # {})
             /\ UNCHANGED <<hardware, archive, mapped, flags, erased, harmed>>
  <2>1. keys' \in {{}, {"page"}} \/ (keys # {} /\ keys' \in {{"old"}, {"old", "page"}})
    BY <1>2 DEF Begin
  <2>2. UNCHANGED <<hardware, archive, mapped, flags, erased, harmed>>
    BY <1>2 DEF Begin
  <2>. QED  BY <2>1, <2>2
<1>3. CASE StartInstall
  <2>1. experimental' = FALSE /\ experimental' \in BOOLEAN
    BY <1>3, Zenon DEF StartInstall
  <2>2. /\ view = "install" /\ view' = "progress" /\ target \in Paths /\ machine = "vm" /\ Begin
        /\ faults' = faults /\ UNCHANGED <<choices, target, id, typed, marked>>
    BY <1>3 DEF StartInstall, InVM
  <2>3. TypeOK'
    BY <1>1, <1>2, <2>1, <2>2
  <2>4. HeldIsKnown'
    BY <1>1, <1>2, <2>2
  <2>. QED  BY <1>1, <1>2, <2>1, <2>2, <2>3, <2>4
<1>4. ASSUME NEW p \in Paths, NEW c \in Paths \cup {NoPath}, StartByHand(p, c)
      PROVE  InstallerInv'
  <2>1. marked' = FALSE /\ marked' \in BOOLEAN /\ experimental' \in BOOLEAN /\ Begin
    BY <1>4, Zenon DEF StartByHand
  <2>2. /\ view' = "console" /\ choices' = {} /\ target' = p /\ id' = disk[p].gen /\ typed' = c
        /\ view = "welcome" /\ faults' = faults
    BY <1>4 DEF StartByHand, Identity
  <2>3. disk[p].gen \in Gens /\ Gens \subseteq Nat
    OBVIOUS
  <2>6. TypeOK'
    BY <1>1, <1>2, <2>1, <2>2, <2>3
  <2>4. HeldIsKnown'
    BY <1>1, <1>2, <2>1
  <2>7. disk' = disk /\ erased' = erased /\ Gens' = Gens
    BY <1>2, <2>1, <2>2
  <2>5. DisksApart'
    BY <2>2, <2>3, <2>7
  <2>. QED  BY <1>1, <1>2, <2>1, <2>2, <2>4, <2>5, <2>6
<1>. QED  BY <1>3, <1>4

\* A disk that has been written to, and what that changes.
LEMMA DestroyKeeps ==
    ASSUME InstallerInv, NEW p \in Paths, Destroy(p)
    PROVE  /\ disk' \in [Paths -> Disk]
           /\ disk'[p].gen = disk[p].gen /\ disk'[p].content = "written"
           /\ \A q \in Paths : q # p => disk'[q] = disk[q]
           /\ erased' = erased \cup {disk[p].gen} /\ harmed' \subseteq erased'
           /\ disk[p].gen = id /\ disk[p].content \in {"blank", "written"} => harmed' = harmed
           /\ erased' \subseteq Gens
           /\ \A q, r \in Paths : q # r => disk'[q].gen # disk'[r].gen
           /\ \A q \in Paths : disk'[q].gen \in Gens
           /\ \A q \in Paths : disk'[q].content = "blank" => disk'[q].gen \notin erased'
<1>1. disk[p] \in Disk
  BY DEF InstallerInv, TypeOK
<1>2. disk' = [disk EXCEPT ![p] = [gen |-> disk[p].gen, content |-> "written"]]
  <2>1. disk' = [disk EXCEPT ![p] = [disk[p] EXCEPT !.content = "written"]]
    BY Zenon DEF Destroy
  <2>2. [disk[p] EXCEPT !.content = "written"] = [gen |-> disk[p].gen, content |-> "written"]
    BY <1>1 DEF Disk
  <2>. QED  BY <2>1, <2>2, Zenon
<1>. QED
  BY <1>1, <1>2 DEF Destroy, Disk, Contents, InstallerInv, TypeOK, DisksApart

\* The steps of the script that only look.
LEMMA LooksKeep ==
    ASSUME InstallerInv, Validate \/ Prepare \/ Mark \/ CheckIdentity
    PROVE  InstallerInv'
<1>. USE InstallerAssumption, PathCount
     DEF InstallerAssumption, InstallerInv, TypeOK, DisksApart, ScriptRuns, MarkedFirst,
         ChecksHold, HeldIsKnown, Writing, Permits, Gens, hardware, page, script, past, Strike, NoStrike,
         Unguarded, Goto, Fails, CommandFails, Interrupted
<1>1. CASE Validate
  <2>1. late' \in BOOLEAN
    BY <1>1, Zenon DEF Validate
  <2>. QED  BY <1>1, <2>1 DEF Validate, Permitted, Unknown, Valid, Same, Identity, Eligible
<1>2. CASE Prepare
  BY <1>2 DEF Prepare
<1>3. CASE Mark
  <2>1. marked' \in BOOLEAN /\ marked' = TRUE
    BY <1>3, Zenon DEF Mark
  <2>. QED  BY <1>3, <2>1 DEF Mark
<1>4. CASE CheckIdentity
  <2>1. late' \in BOOLEAN
    BY <1>4, Zenon DEF CheckIdentity
  <2>. QED  BY <1>4, <2>1 DEF CheckIdentity, Permitted, Unknown, Same, Identity
<1>. QED  BY <1>1, <1>2, <1>3, <1>4

\* The two steps that write to the disk.
LEMMA WritesKeep ==
    ASSUME InstallerInv, Partition \/ Format
    PROVE  InstallerInv'
<1>1. target \in Paths
  BY DEF InstallerInv, ScriptRuns, Partition, Format
<1>2. NoStrike \/ \E f \in Disturbances : Strike(f)
  BY DEF Partition, Format, CommandFails, Interrupted, Disturbances
<1>3. faults' \in 0..MaxFaults /\ faults' >= faults
  BY <1>2, InstallerAssumption DEF InstallerAssumption, InstallerInv, TypeOK, Strike, NoStrike
<1>4. /\ pc' \in {"identity", "mount", "open", "cleanup"} /\ pc \in {"partition", "format"}
      /\ pc' = "identity" => pc = "partition" /\ Destroy(target)
      /\ code' \in {code, "failed"}
      /\ UNCHANGED <<machine, online, page, archive, script, late, leak, cut>>
  BY DEF Partition, Format, Goto, Fails, CommandFails, Interrupted
<1>5. Gens \subseteq Nat /\ Gens \subseteq Gens'
  BY <1>3, PathCount DEF Gens, InstallerInv, TypeOK
<1>6. TypeOK' /\ DisksApart'
  <2>1. CASE Destroy(target)
    <3>1. /\ disk' \in [Paths -> Disk] /\ erased' \subseteq Gens /\ harmed' \subseteq erased'
          /\ \A q, r \in Paths : q # r => disk'[q].gen # disk'[r].gen
          /\ \A q \in Paths : disk'[q].gen \in Gens
          /\ \A q \in Paths : disk'[q].content = "blank" => disk'[q].gen \notin erased'
      BY <1>1, <2>1, DestroyKeeps
    <3>2. TypeOK'
      BY <1>3, <1>4, <1>5, <3>1 DEF InstallerInv, TypeOK, page, script, Unguarded
    <3>3. DisksApart'
      BY <1>4, <1>5, <3>1 DEF InstallerInv, DisksApart, page
    <3>. QED  BY <3>2, <3>3
  <2>2. CASE Spare
    BY <1>2, <1>4, <2>2, ApartStays DEF InstallerInv, TypeOK, page, script, Spare, Unguarded
  <2>. QED  BY <2>1, <2>2 DEF Partition, Format
<1>7. ScriptRuns' /\ MarkedFirst' /\ HeldIsKnown'
  BY <1>4 DEF InstallerInv, ScriptRuns, MarkedFirst, HeldIsKnown, page, script, Writing, Permits,
       Partition, Format, Spare
<1>8. ChecksHold'
  <2>1. pc' = "identity" => disk'[target].content = "written"
    BY <1>1, <1>4, DestroyKeeps
  <2>. QED  BY <1>4, <2>1 DEF ChecksHold, page
<1>. QED  BY <1>6, <1>7, <1>8 DEF InstallerInv

\* The steps that take what the cleanup will release, and those that release
\* it.
LEMMA MountsKeep ==
    ASSUME InstallerInv,
           \/ OpenMapping \/ Mount \/ Remount \/ InstallSystem
           \/ CleanupMount \/ CleanupMapping \/ CleanupKey
    PROVE  InstallerInv'
<1>. USE DEF Goto, Fails, CommandFails, Interrupted, Cut, Unmount, Close, RemoveKey
<1>1. NoStrike \/ \E f \in Disturbances : Strike(f)
  BY DEF OpenMapping, Mount, Remount, InstallSystem, CleanupMount, CleanupMapping, CleanupKey,
         Disturbances
<1>2. /\ UNCHANGED <<hardware, page, archive, erased, harmed, late>>
      /\ pc \in {"open", "mount", "subvolumes", "install", "cleanup", "close", "unkey"}
      /\ pc' \in {"mount", "subvolumes", "install", "cleanup", "close", "unkey", "ended"}
      /\ code' \in {code, "ok", "failed"} /\ keys' \subseteq keys
      /\ pc \in {"cleanup", "close", "unkey"} => pc' \in {"close", "unkey", "ended"}
  BY DEF OpenMapping, Mount, Remount, InstallSystem, CleanupMount, CleanupMapping, CleanupKey,
         past, script
<1>3. mapped' \in BOOLEAN /\ mounted' \in BOOLEAN /\ leak' \in BOOLEAN /\ cut' \in BOOLEAN
      /\ flags' \subseteq {"mapped", "mounted"}
  <2>1. mapped' \in {mapped, TRUE, FALSE} /\ mounted' \in {mounted, TRUE, FALSE}
        /\ leak' \in {leak, TRUE} /\ cut' \in {cut, TRUE}
    BY Zenon DEF OpenMapping, Mount, Remount, InstallSystem, CleanupMount, CleanupMapping,
                 CleanupKey, past, script
  <2>2. flags' \in {flags, {}, flags \cup {"mapped"}, flags \cup {"mounted"}, flags \ {"mounted"}}
    BY DEF OpenMapping, Mount, Remount, InstallSystem, CleanupMount, CleanupMapping, CleanupKey,
           script
  <2>. QED  BY <2>1, <2>2 DEF InstallerInv, TypeOK
<1>4. DisksApart' /\ faults' \in 0..MaxFaults
  BY <1>1, <1>2, ApartStays DEF InstallerInv, hardware, page
<1>5. TypeOK'
  BY <1>2, <1>3, <1>4 DEF InstallerInv, TypeOK, hardware, page, Unguarded
<1>6. ScriptRuns' /\ MarkedFirst' /\ ChecksHold'
  BY <1>2 DEF InstallerInv, ScriptRuns, MarkedFirst, ChecksHold, Writing, Permits, hardware, page
<1>7. HeldIsKnown'
  <2>. USE <1>2, <1>3 DEF InstallerInv, TypeOK, HeldIsKnown
  <2>1. CASE OpenMapping \/ Mount \/ Remount \/ InstallSystem
    BY <2>1 DEF OpenMapping, Mount, Remount, InstallSystem, past, script
  <2>2. CASE CleanupMount
    BY <2>2 DEF CleanupMount
  <2>3. CASE CleanupMapping
    BY <2>3 DEF CleanupMapping
  <2>4. CASE CleanupKey
    BY <2>4 DEF CleanupKey
  <2>. QED  BY <2>1, <2>2, <2>3, <2>4
<1>. QED  BY <1>4, <1>5, <1>6, <1>7 DEF InstallerInv

\* What happens to the machine meanwhile.
LEMMA MachineKeeps ==
    ASSUME InstallerInv, Network \/ \E p \in Paths : Swap(p) \/ Use(p)
    PROVE  InstallerInv'
<1>. USE InstallerAssumption, PathCount
     DEF InstallerAssumption, InstallerInv, TypeOK, DisksApart, ScriptRuns, MarkedFirst,
         ChecksHold, HeldIsKnown, Writing, Permits, Gens, page, script, past, Strike, Unguarded
<1>1. CASE Network
  <2>1. online' \in BOOLEAN
    BY <1>1, Zenon DEF Network
  <2>. QED  BY <1>1, <2>1 DEF Network
<1>2. ASSUME NEW p \in Paths, Swap(p) PROVE InstallerInv'
  <2>1. late' \in BOOLEAN /\ late' = (late \/ pc \in Unguarded)
    BY <1>2, Zenon DEF Swap, Disturbed
  <2>2. PICK c \in {"absent", "blank", "data"} :
           disk' = [disk EXCEPT ![p] = [gen |-> NextGen, content |-> c]]
    BY <1>2 DEF Swap
  <2>3. /\ faults' \in 0..MaxFaults /\ faults' = faults + 1
        /\ UNCHANGED <<machine, online, page, archive, pc, script, code, erased, harmed, leak, cut>>
    BY <1>2 DEF Swap
  <2>4. NextGen \in Nat /\ NextGen \notin Gens /\ NextGen \in Gens' /\ Gens \subseteq Gens'
    BY <2>3 DEF NextGen
  <2>5. disk' \in [Paths -> Disk] /\ disk'[p].gen = NextGen
        /\ \A q \in Paths : q # p => disk'[q] = disk[q]
    BY <2>2, <2>4 DEF Disk, Contents
  <2>6. TypeOK'
    BY <2>1, <2>3, <2>5
  <2>7. DisksApart'
    BY <2>3, <2>4, <2>5
  <2>8. ScriptRuns' /\ MarkedFirst' /\ HeldIsKnown'
    BY <2>3
  <2>9. ChecksHold'
    <3>1. pc \in {"mark", "partition", "format"} => late'
      BY <2>1
    <3>2. NextGen # id
      BY <2>4
    <3>3. pc = "identity" => disk'[target] = disk[target] \/ disk'[target].gen # id
      BY <2>3, <2>5, <3>2
    <3>. QED  BY <2>3, <2>5, <3>1, <3>3
  <2>. QED  BY <2>6, <2>7, <2>8, <2>9
<1>3. ASSUME NEW p \in Paths, Use(p) PROVE InstallerInv'
  <2>1. late' \in BOOLEAN /\ late' = (late \/ pc \in Unguarded)
    BY <1>3, Zenon DEF Use, Disturbed
  <2>2. PICK c \in {"label", "data"} : disk' = [disk EXCEPT ![p].content = c]
    BY <1>3 DEF Use
  <2>3. /\ faults' \in 0..MaxFaults /\ faults' = faults + 1 /\ disk[p].content = "blank"
        /\ UNCHANGED <<machine, online, page, archive, pc, script, code, erased, harmed, leak, cut>>
    BY <1>3 DEF Use
  <2>4. disk[p] \in Disk /\ Gens \subseteq Gens'
    BY <2>3
  <2>5. /\ disk' \in [Paths -> Disk]
        /\ disk'[p].gen = disk[p].gen /\ disk'[p].content # "blank"
        /\ \A q \in Paths : q # p => disk'[q] = disk[q]
    BY <2>2, <2>4 DEF Disk, Contents
  <2>6. TypeOK'
    BY <2>1, <2>3, <2>5
  <2>7. DisksApart'
    BY <2>3, <2>4, <2>5
  <2>8. ScriptRuns' /\ MarkedFirst' /\ HeldIsKnown'
    BY <2>3
  <2>9. ChecksHold'
    <3>1. pc \in {"mark", "partition", "format"} => late'
      BY <2>1
    <3>2. pc = "identity" => disk'[target] = disk[target] \/ disk[target].gen # id
      BY <2>3, <2>5
    <3>. QED  BY <2>3, <2>5, <3>1, <3>2
  <2>. QED  BY <2>6, <2>7, <2>8, <2>9
<1>. QED  BY <1>1, <1>2, <1>3

LEMMA NextInstaller == InstallerInv /\ [Next]_vars => InstallerInv'
<1>. SUFFICES ASSUME InstallerInv, [Next]_vars PROVE InstallerInv'
  OBVIOUS
<1>1. CASE UNCHANGED vars
  BY <1>1 DEF vars, hardware, page, script, past, InstallerInv, TypeOK, DisksApart, ScriptRuns,
       MarkedFirst, ChecksHold, HeldIsKnown, Gens, Writing, Permits
<1>. QED
  BY <1>1, PageKeeps, StartKeeps, LooksKeep, WritesKeep, MountsKeep, MachineKeeps DEF Next, Script

THEOREM AlwaysInstallerInv == Spec => []InstallerInv
<1>. QED  BY InitInstaller, NextInstaller, PTL DEF Spec

\* Every variable keeps its type.
THEOREM TypeCorrect == Spec => []TypeOK
<1>1. InstallerInv => TypeOK
  BY DEF InstallerInv
<1>. QED  BY <1>1, AlwaysInstallerInv, PTL

\* Only the two steps that write put a disk among the erased.
LEMMA ErasedByWriting ==
    ASSUME InstallerInv, Next, erased' # erased \/ harmed' # harmed
    PROVE  Partition \/ Format
BY DEF Next, Script, vars, past, hardware, page, script, Probe, Probed, ShowInstall, Back,
       StartInstall, StartByHand, Begin, FinishInstall, FinishByHand, Type, Select, Swap, Use,
       Network, Validate, Prepare, Mark, CheckIdentity, OpenMapping, Mount, Remount,
       InstallSystem, CleanupMount, CleanupMapping, CleanupKey

\* No disk is written on a machine that is not known to be virtual, unless the
\* run was told to by hand.
THEOREM ErasedInVM == Spec => ErasesOnlyInVM
<1>1. ASSUME InstallerInv, [Next]_vars, erased' # erased
      PROVE  machine = "vm" \/ (experimental /\ view = "console")
  <2>1. Partition \/ Format
    BY <1>1, ErasedByWriting DEF vars, past
  <2>. QED  BY <1>1, <2>1 DEF Partition, Format, InstallerInv, ScriptRuns, Permits, Writing
<1>2. InstallerInv /\ [Next]_vars =>
        [erased' # erased => machine = "vm" \/ (experimental /\ view = "console")]_vars
  BY <1>1
<1>. QED  BY <1>2, AlwaysInstallerInv, PTL DEF Spec, ErasesOnlyInVM

\* When the page says that the disk was not changed, it was not.
THEOREM UnchangedIsTrue == Spec => []UnchangedMeansUnchanged
<1>1. InstallerInv => UnchangedMeansUnchanged
  BY DEF InstallerInv, MarkedFirst, UnchangedMeansUnchanged, SaysUnchanged
<1>. QED  BY <1>1, AlwaysInstallerInv, PTL

\* With the result no passphrase is in a file, and nothing else is held but what
\* the cleanup was not told of or failed to release, unless a signal ended it.
THEOREM AllReleased == Spec => []NothingHeld
<1>1. InstallerInv => NothingHeld
  BY DEF InstallerInv, TypeOK, ScriptRuns, HeldIsKnown, NothingHeld
<1>. QED  BY <1>1, AlwaysInstallerInv, PTL

\* Only the confirmed disk is written, and only while it was blank, unless it
\* changed after the check that guards the write.
THEOREM ConfirmedErased == Spec => OnlyConfirmedErased
<1>1. ASSUME InstallerInv, [Next]_vars, harmed' # harmed PROVE late
  <2>1. Partition \/ Format
    BY <1>1, ErasedByWriting DEF vars, past
  <2>2. Destroy(target) /\ target \in Paths
    BY <1>1, <2>1 DEF Partition, Format, Spare, InstallerInv, ScriptRuns
  <2>3. ~(disk[target].gen = id /\ disk[target].content \in {"blank", "written"})
    BY <1>1, <2>2, DestroyKeeps
  <2>. QED  BY <1>1, <2>1, <2>3 DEF Partition, Format, InstallerInv, ChecksHold
<1>2. InstallerInv /\ [Next]_vars => [harmed' # harmed => late]_vars
  BY <1>1
<1>. QED  BY <1>2, AlwaysInstallerInv, PTL DEF Spec, OnlyConfirmedErased
=============================================================================
