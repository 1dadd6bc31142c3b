------------------------------ MODULE Installer ------------------------------
(***************************************************************************)
(* The disk installer of the live medium: clawos-live-welcome lists the    *)
(* blank disks, lets a person select one and confirm its erasure, and runs *)
(* clawos-install-dev, which checks the disk again through the same        *)
(* clawos_install_targets.py before it erases, formats and mounts it,      *)
(* while disks may be replaced or put to use at any moment.  The script    *)
(* can be run by hand too, and then told to accept a physical machine.     *)
(***************************************************************************)
EXTENDS FiniteSets, Disturb

CONSTANTS
    Paths,      \* whole-disk device paths
    NoPath

\* A bare partition-table label, partitions or file systems, the live medium.
Contents == {"absent", "blank", "label", "data", "boot", "written"}
Disturbances == {"swap", "use", "detect", "network", "command", "signal", "umount"}

ASSUME InstallerAssumption ==
    /\ NoPath \notin Paths /\ IsFiniteSet(Paths)
    /\ Faults \subseteq Disturbances /\ MaxFaults \in Nat

VARIABLES
    machine,    \* what the machine is: "vm" or "physical"
    disk,       \* at each path: the kernel's generation and the content
    online,     \* the package archive can be reached
    \* clawos-live-welcome
    view,       \* the page that is shown
    choices,    \* the disks it offers, as lsblk described them
    target,     \* the selected path, or the --target of a run by hand
    id,         \* and the identity it had when it was listed
    typed,      \* the path in the typed confirmation
    experimental,   \* the run was given --experimental-hardware
    archive,    \* the last probe of the archive
    marked,     \* the installer's marker line was read
    \* clawos-install-dev
    pc,         \* its next step
    mapped,     \* the encrypted mapping exists
    mounted,    \* this run's target is mounted
    flags,      \* what its cleanup knows of the two
    keys,       \* files that hold the passphrase
    code,       \* its exit: "none", "ok" or "failed"
    \* history, for the properties
    erased,     \* generations it wrote to
    harmed,     \* those it should not have
    late,       \* a disk changed after the check that guards the next write
    leak,       \* it could not release what it holds, or was not told of it
    cut         \* a signal has ended the cleanup itself

hardware == <<machine, disk, online>>
page == <<view, choices, target, id, typed, experimental, marked>>
script == <<mapped, mounted, flags, keys>>
past == <<erased, harmed, late, leak, cut>>
vars == <<hardware, page, archive, pc, script, code, faults, past>>

Disk == [gen : Nat, content : Contents]

-----------------------------------------------------------------------------
(* clawos_install_targets.py.                                               *)

\* The identity covers the kernel's generation of the disk, which a disk that
\* takes the path of another does not share.
Identity(p) == disk[p].gen

Eligible(p) == disk[p].content = "blank"

\* wipefs knows the label too.
Signatures(p) == disk[p].content \notin {"absent", "blank"}

\* A detector that fails proves nothing; Unknown is what it then reports.
InVM == machine = "vm" /\ NoStrike
Unknown == Strike("detect")

\* require_install_environment: the flag stands in for a virtual machine.
Permitted == (machine = "vm" \/ experimental) /\ NoStrike

\* The identity check of validate and of check-identity.
Same(p, i) == disk[p].content # "absent" /\ Identity(p) = i

Valid(p, i, confirmation) ==
    Same(p, i) /\ Eligible(p) /\ confirmation = p /\ ~Signatures(p)

-----------------------------------------------------------------------------
(* clawos_archive_probe.py and the page's probes.                           *)

StartProbe == archive' = "checking"

\* One probe at a time, while nothing is being installed.
Probe ==
    /\ view \notin {"progress", "console"} /\ archive # "checking" /\ StartProbe
    /\ UNCHANGED <<hardware, page, pc, script, code, faults, past>>

\* Anything but the pinned database's 200 is unreachable.
Probed ==
    /\ archive = "checking"
    /\ archive' = IF online THEN "reachable" ELSE "unreachable"
    /\ UNCHANGED <<hardware, page, pc, script, code, faults, past>>

-----------------------------------------------------------------------------
(* clawos-live-welcome.                                                     *)

\* The page forgets the selection, lists the eligible disks and probes anew.
ShowInstall ==
    /\ view = "welcome" \/ (view = "result" /\ code = "failed")
    /\ view' = "install"
    /\ \/ InVM /\ choices' = {[path |-> p, disk |-> disk[p]] : p \in {q \in Paths : Eligible(q)}}
       \/ machine # "vm" /\ choices' = {} /\ NoStrike
       \/ Unknown /\ choices' = {}
    /\ target' = NoPath /\ id' = 0 /\ typed' = NoPath /\ marked' = FALSE
    /\ StartProbe /\ code' = "none"
    /\ UNCHANGED <<hardware, experimental, pc, script, past>>

Back ==
    /\ view = "install" /\ view' = "welcome" /\ StartProbe
    /\ UNCHANGED <<hardware, choices, target, id, typed, experimental, marked,
                   pc, script, code, faults, past>>

\* Another selection clears the confirmation.
Select(c) ==
    /\ view = "install" /\ c \in choices
    /\ target' = c.path /\ id' = c.disk.gen /\ typed' = NoPath
    /\ UNCHANGED <<hardware, view, choices, experimental, marked, archive,
                   pc, script, code, faults, past>>

Type(p) ==
    /\ view = "install" /\ typed' = p
    /\ UNCHANGED <<hardware, view, choices, target, id, experimental, marked, archive,
                   pc, script, code, faults, past>>

\* A passphrase, unless setup without one is chosen, goes to a file of the
\* caller's; what an earlier run has left behind is not this run's.
Begin ==
    /\ pc' = "validate" /\ mounted' = FALSE /\ leak' = mapped /\ cut' = (keys # {})
    /\ LET left == IF keys = {} THEN {} ELSE {"old"} IN keys' \in {left, left \cup {"page"}}
    /\ code' = "none" /\ late' = FALSE
    /\ UNCHANGED <<hardware, archive, mapped, flags, erased, harmed>>

\* The button, and Enter in the second entry, which works without it.  The page
\* has no --experimental-hardware.
StartInstall ==
    /\ view = "install" /\ archive = "reachable"
    /\ target # NoPath /\ typed = target
    /\ InVM
    /\ view' = "progress" /\ experimental' = FALSE /\ Begin
    /\ UNCHANGED <<choices, target, id, typed, marked>>

\* The script run from the console while the page is left alone, for a disk and
\* its identity from list, with its confirmation or none.
StartByHand(p, c) ==
    /\ view = "welcome" /\ choices' = {} /\ NoStrike
    /\ view' = "console" /\ experimental' \in BOOLEAN /\ Begin
    /\ target' = p /\ id' = Identity(p) /\ typed' = c /\ marked' = FALSE

\* The installer's output ends: the page removes the file and says how it went.
FinishInstall ==
    /\ view = "progress" /\ pc = "ended" /\ view' = "result" /\ pc' = "off"
    /\ keys' = keys \ {"page"}
    /\ UNCHANGED <<hardware, choices, target, id, typed, experimental, marked, archive,
                   mapped, mounted, flags, code, faults, past>>

FinishByHand ==
    /\ view = "console" /\ pc = "ended" /\ view' = "welcome" /\ pc' = "off"
    /\ keys' = keys \ {"page"}
    /\ target' = NoPath /\ id' = 0 /\ typed' = NoPath /\ experimental' = FALSE /\ marked' = FALSE
    /\ code' = "none"
    /\ UNCHANGED <<hardware, choices, archive, mapped, mounted, flags, faults, past>>

SaysUnchanged == view = "result" /\ code = "failed" /\ ~marked

-----------------------------------------------------------------------------
(* clawos-install-dev.                                                      *)

Goto(l) == pc' = l
Fails == Goto("cleanup") /\ code' = "failed"

\* A failing command ends the script through its cleanup.
CommandFails == Fails /\ Strike("command")

\* Under a signal the running command ends first, then the cleanup runs.
Interrupted == Fails /\ Strike("signal")

\* What is written to is the disk at the path, whichever it is.
Destroy(p) ==
    LET d == disk[p] IN
    /\ disk' = [disk EXCEPT ![p].content = "written"]
    /\ erased' = erased \cup {d.gen}
    /\ harmed' = IF d.gen = id /\ d.content \in {"blank", "written"}
                 THEN harmed ELSE harmed \cup {d.gen}
Spare == UNCHANGED <<disk, erased, harmed>>

\* The check before anything is touched, and the check that guards the erasure.
Validate ==
    /\ pc \in {"validate", "recheck"}
    /\ \/ /\ Permitted /\ Valid(target, id, typed)
          /\ Goto(IF pc = "validate" THEN "prepare" ELSE "mark") /\ UNCHANGED code
       \/ NoStrike /\ ~(Permitted /\ Valid(target, id, typed)) /\ Fails
       \/ Unknown /\ Fails
    /\ late' = (late /\ pc # "recheck")
    /\ UNCHANGED <<hardware, page, archive, script, erased, harmed, leak, cut>>

\* The key is copied, a mapping left open refuses it, then the packages are
\* fetched and verified.
Prepare ==
    /\ pc = "prepare"
    /\ keys' = IF "page" \in keys THEN keys \cup {"script"} ELSE keys
    /\ LET refused == ~online \/ ("page" \in keys /\ mapped) IN
       \/ ~refused /\ Goto("recheck") /\ UNCHANGED code /\ NoStrike
       \/ refused /\ Fails /\ NoStrike
       \/ CommandFails \/ Interrupted
    /\ UNCHANGED <<hardware, page, archive, mapped, mounted, flags, past>>

\* Mutant of Mark: the page does not recognise the line.
MarkMissed ==
    /\ pc = "mark" /\ UNCHANGED marked /\ Goto("partition")
    /\ UNCHANGED <<hardware, view, choices, target, id, typed, experimental, archive, script,
                   code, faults, past>>

\* From here on the page says that the disk may be partially installed.
Mark ==
    /\ pc = "mark" /\ marked' = TRUE /\ Goto("partition")
    /\ UNCHANGED <<hardware, view, choices, target, id, typed, experimental, archive, script,
                   code, faults, past>>

Partition ==
    /\ pc = "partition"
    /\ LET present == disk[target].content # "absent" IN
       \/ present /\ Destroy(target) /\ Goto("identity") /\ UNCHANGED code /\ NoStrike
       \/ present /\ Destroy(target) /\ (CommandFails \/ Interrupted)
       \/ present /\ Spare /\ CommandFails
       \/ ~present /\ Spare /\ Fails /\ NoStrike
    /\ UNCHANGED <<machine, online, page, archive, script, late, leak, cut>>

\* Mutant of CheckIdentity: the check before the format looks for any disk.
CheckPresence ==
    /\ pc = "identity"
    /\ \/ Permitted /\ disk[target].content # "absent" /\ Goto("format") /\ UNCHANGED code
       \/ Permitted /\ disk[target].content = "absent" /\ Fails
    /\ late' = FALSE
    /\ UNCHANGED <<hardware, page, archive, script, erased, harmed, leak, cut>>

\* After the partitions have appeared and before the first format.
CheckIdentity ==
    /\ pc = "identity"
    /\ \/ Permitted /\ Same(target, id) /\ Goto("format") /\ UNCHANGED code
       \/ Permitted /\ ~Same(target, id) /\ Fails
       \/ Unknown /\ Fails
    /\ late' = FALSE
    /\ UNCHANGED <<hardware, page, archive, script, erased, harmed, leak, cut>>

\* The partitions get file systems, or the encrypted container.
Format ==
    /\ pc = "format"
    /\ LET partitioned == disk[target].content \in {"data", "written"} IN
       \/ /\ partitioned /\ Destroy(target)
          /\ Goto(IF "page" \in keys THEN "open" ELSE "mount") /\ UNCHANGED code /\ NoStrike
       \/ partitioned /\ Destroy(target) /\ (CommandFails \/ Interrupted)
       \/ ~partitioned /\ Spare /\ Fails /\ NoStrike
    /\ UNCHANGED <<machine, online, page, archive, script, late, leak, cut>>

\* The cleanup learns of the mapping in the next line of the script.
OpenMapping ==
    /\ pc = "open"
    /\ \/ mapped' = TRUE /\ flags' = flags \cup {"mapped"}
          /\ Goto("mount") /\ UNCHANGED code /\ NoStrike
          /\ UNCHANGED leak
       \/ mapped' = TRUE /\ UNCHANGED flags /\ Interrupted /\ leak' = TRUE
       \/ UNCHANGED <<mapped, flags, leak>> /\ CommandFails
    /\ UNCHANGED <<hardware, page, archive, mounted, keys, erased, harmed, late, cut>>

Mount ==
    /\ pc = "mount"
    /\ \/ mounted' = TRUE /\ flags' = flags \cup {"mounted"}
          /\ Goto("subvolumes") /\ UNCHANGED code /\ NoStrike
          /\ UNCHANGED leak
       \/ mounted' = TRUE /\ UNCHANGED flags /\ Interrupted /\ leak' = TRUE
       \/ UNCHANGED <<mounted, flags, leak>> /\ CommandFails
    /\ UNCHANGED <<hardware, page, archive, mapped, keys, erased, harmed, late, cut>>

\* It is unmounted, then mounted again as the new system has it.
Remount ==
    /\ pc = "subvolumes"
    /\ \/ Goto("install") /\ UNCHANGED <<mounted, flags, code, leak>> /\ NoStrike
       \/ UNCHANGED <<mounted, flags, leak>> /\ (CommandFails \/ Interrupted)
       \/ /\ mounted' = FALSE /\ flags' = flags \ {"mounted"}
          /\ (CommandFails \/ Interrupted) /\ UNCHANGED leak
       \/ mounted' = FALSE /\ UNCHANGED flags /\ Interrupted /\ leak' = TRUE
       \/ mounted' = TRUE /\ flags' = flags \ {"mounted"} /\ Interrupted /\ leak' = TRUE
    /\ UNCHANGED <<hardware, page, archive, mapped, keys, erased, harmed, late, cut>>

InstallSystem ==
    /\ pc = "install"
    /\ \/ Goto("cleanup") /\ code' = "ok" /\ NoStrike
       \/ CommandFails \/ Interrupted
    /\ UNCHANGED <<hardware, page, archive, script, past>>

\* A signal in the cleanup ends it: it is the exit trap already, or the traps
\* were reset before it.  The command under way ends or not.
Cut(done) ==
    /\ Strike("signal") /\ Goto("ended") /\ code' = "failed" /\ cut' = TRUE
    /\ flags' = {} /\ (done \/ UNCHANGED <<mounted, mapped, keys>>) /\ UNCHANGED leak

\* What the flags name is released, the mapping only once nothing is mounted,
\* and the copy of the key removed last, whether or not that succeeded.
Unmount == mounted' = (mounted /\ "mounted" \notin flags) /\ UNCHANGED <<mapped, keys>>

CleanupMount ==
    /\ pc = "cleanup"
    /\ \/ Unmount /\ flags' = flags \ {"mounted"} /\ Goto("close") /\ NoStrike
          /\ UNCHANGED <<code, leak, cut>>
       \/ /\ "mounted" \in flags /\ Strike("umount") /\ leak' = TRUE /\ Goto("close")
          /\ UNCHANGED <<mounted, mapped, keys, flags, code, cut>>
       \/ Cut(Unmount)
    /\ UNCHANGED <<hardware, page, archive, erased, harmed, late>>

\* A mapping whose file system is mounted, known or not, is busy.
Close ==
    /\ mapped' = (mapped /\ (mounted \/ "mounted" \in flags \/ "mapped" \notin flags))
    /\ UNCHANGED <<mounted, keys>>

CleanupMapping ==
    /\ pc = "close"
    /\ \/ Close /\ Goto("unkey") /\ NoStrike /\ UNCHANGED <<flags, code, leak, cut>>
       \/ /\ "mapped" \in flags /\ Strike("umount") /\ leak' = TRUE /\ Goto("unkey")
          /\ UNCHANGED <<mounted, mapped, keys, flags, code, cut>>
       \/ Cut(Close)
    /\ UNCHANGED <<hardware, page, archive, erased, harmed, late>>

RemoveKey == keys' = keys \ {"script"} /\ UNCHANGED <<mounted, mapped>>

\* Mutant of CleanupKey: a failed release ends the cleanup before it.
CleanupKeyUnlessHeld ==
    /\ pc = "unkey"
    /\ keys' = IF leak THEN keys ELSE keys \ {"script"}
    /\ flags' = {} /\ Goto("ended") /\ NoStrike /\ UNCHANGED <<mounted, mapped, code, leak, cut>>
    /\ UNCHANGED <<hardware, page, archive, erased, harmed, late>>

CleanupKey ==
    /\ pc = "unkey"
    /\ \/ RemoveKey /\ flags' = {} /\ Goto("ended") /\ NoStrike /\ UNCHANGED <<code, leak, cut>>
       \/ Cut(RemoveKey)
    /\ UNCHANGED <<hardware, page, archive, erased, harmed, late>>

Script ==
    \/ Validate \/ Prepare \/ Mark \/ Partition \/ CheckIdentity \/ Format
    \/ OpenMapping \/ Mount \/ Remount \/ InstallSystem
    \/ CleanupMount \/ CleanupMapping \/ CleanupKey

-----------------------------------------------------------------------------
(* The machine.                                                             *)

Unguarded == {"mark", "partition", "format", "open", "mount", "subvolumes", "install"}
Disturbed == late' = (late \/ pc \in Unguarded)

NextGen == 1 + Cardinality(Paths) + faults

\* A disk is removed, or another one takes its path with a new generation.
Swap(p) ==
    /\ disk[p].content # "boot" /\ Strike("swap")
    /\ \E c \in {"absent", "blank", "data"} :
          disk' = [disk EXCEPT ![p] = [gen |-> NextGen, content |-> c]]
    /\ Disturbed
    /\ UNCHANGED <<machine, online, page, archive, pc, script, code, erased, harmed, leak, cut>>

\* Somebody labels a blank disk, or puts data on it.
Use(p) ==
    /\ disk[p].content = "blank" /\ Strike("use")
    /\ \E c \in {"label", "data"} : disk' = [disk EXCEPT ![p].content = c]
    /\ Disturbed
    /\ UNCHANGED <<machine, online, page, archive, pc, script, code, erased, harmed, leak, cut>>

Network ==
    /\ Strike("network") /\ online' = ~online
    /\ UNCHANGED <<machine, disk, page, archive, pc, script, code, past>>

-----------------------------------------------------------------------------

Init ==
    /\ machine \in {"vm", "physical"}
    /\ \E g \in [Paths -> 1..Cardinality(Paths)],
          c \in [Paths -> {"blank", "label", "data", "boot"}] :
          /\ \A p, q \in Paths : p # q => g[p] # g[q]
          /\ disk = [p \in Paths |-> [gen |-> g[p], content |-> c[p]]]
    /\ online = TRUE
    /\ view = "welcome" /\ choices = {}
    /\ target = NoPath /\ id = 0 /\ typed = NoPath
    /\ archive = "unreachable" /\ marked = FALSE /\ experimental = FALSE
    /\ pc = "off" /\ mapped = FALSE /\ mounted = FALSE /\ flags = {} /\ keys = {}
    /\ code = "none" /\ faults = 0
    /\ erased = {} /\ harmed = {} /\ late = FALSE /\ leak = FALSE /\ cut = FALSE

Next ==
    \/ Probe \/ Probed \/ ShowInstall \/ Back \/ StartInstall
    \/ FinishInstall \/ FinishByHand
    \/ \E p \in Paths : StartByHand(p, p) \/ StartByHand(p, NoPath)
    \/ \E p \in Paths : Type(p) \/ Swap(p) \/ Use(p)
    \/ \E c \in choices : Select(c)
    \/ Script \/ Network

Spec == Init /\ [][Next]_vars

-----------------------------------------------------------------------------

\* Every variable has its type.
TypeOK ==
    /\ machine \in {"vm", "physical"} /\ online \in BOOLEAN
    /\ disk \in [Paths -> Disk]
    /\ view \in {"welcome", "install", "progress", "result", "console"}
    /\ choices \subseteq [path : Paths, disk : Disk]
    /\ target \in Paths \cup {NoPath} /\ typed \in Paths \cup {NoPath} /\ id \in Nat
    /\ archive \in {"checking", "reachable", "unreachable"} /\ marked \in BOOLEAN
    /\ experimental \in BOOLEAN
    /\ pc \in Unguarded \cup {"off", "validate", "prepare", "recheck", "identity",
                            "cleanup", "close", "unkey", "ended"}
    /\ mapped \in BOOLEAN /\ mounted \in BOOLEAN
    /\ flags \subseteq {"mapped", "mounted"} /\ keys \subseteq {"page", "script", "old"}
    /\ code \in {"none", "ok", "failed"} /\ faults \in 0..MaxFaults
    /\ erased \subseteq Nat /\ harmed \subseteq erased
    /\ late \in BOOLEAN /\ leak \in BOOLEAN /\ cut \in BOOLEAN

\* The installer writes only to the disk that was confirmed, and to that one
\* only if it was blank, unless the disk changed after the check that guards
\* the write: recheck validate before sfdisk, check-identity before mkfs.
OnlyConfirmedErased == [][harmed' # harmed => late]_vars

\* "The target disk was not changed." is said only when it was not: the marker
\* is printed before the first write and read before the result is shown.
UnchangedMeansUnchanged == SaysUnchanged => id \notin erased

\* No disk is written unless the machine is known to be virtual, whichever of
\* the looks at the detector fails, or the very run that writes was given
\* --experimental-hardware, which the page never gives.
ErasesOnlyInVM ==
    [][erased' # erased => machine = "vm" \/ (experimental /\ view = "console")]_vars

\* Once the result is shown the passphrase is in no file, the target is not
\* mounted and its mapping is closed.  A mount or mapping may stay if releasing
\* it failed or a signal came between a command and the assignment that tells
\* the cleanup of it (leak); the passphrase goes even then.  All three may stay
\* only if a signal ended a cleanup itself (cut).
NothingHeld == view = "result" /\ ~cut => keys = {} /\ (leak \/ (~mounted /\ ~mapped))

=============================================================================
