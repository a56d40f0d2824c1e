----------------------------- MODULE ArtifactStore -----------------------------
(***************************************************************************)
(* The managed artifact directory of impossible-inferences-artifacts:      *)
(* setup (online and offline) under the install lock, and the server's     *)
(* resolve_installed, which reads the same files without the lock.         *)
(*                                                                         *)
(* Files are abstracted to what verification tells apart: absent, present  *)
(* with the pinned content, or anything else.  The runtime tree is one     *)
(* entry.  A directory is created, marked, filled, renamed and deleted in  *)
(* the order of the code; deletion takes one entry at a time in any order, *)
(* as fs::remove_dir_all does.                                             *)
(***************************************************************************)
EXTENDS Naturals, Sequences, FiniteSets

CONSTANTS Setups,       \* processes that run `setup`
          Readers,      \* processes that run `serve` once
          MaxCrashes,   \* bound on crashes and local I/O errors
          MaxFailures,  \* bound on failed downloads and promotion renames
          MaxDamage,    \* bound on damage to the installed files from outside
          MaxOffline,   \* bound on `setup --offline` calls
          MaxMisreads,  \* bound on failed reads that setup does not notice
          MaxEvents     \* bound on all of these and the reads together

ASSUME BoundsOK ==
    {MaxCrashes, MaxFailures, MaxDamage, MaxOffline, MaxMisreads, MaxEvents} \subseteq Nat

Nobody == "nobody"
ASSUME NobodyOK == Nobody \notin Setups

Dirs == {"current", "staging", "previous", "recovery"}
Parts == {"marker", "state", "archive", "model", "runtime"}
Content == {"none", "bad", "good"}
Empty == [f \in Parts |-> "none"]

VARIABLES present,  \* the managed directories that exist
          files,    \* what each of them holds
          lock,     \* holder of install.lock
          pc, mode, \* where each setup is, and whether it may use the network
          deleting, \* whether it is inside remove_dir_all
          reader,   \* state of each resolve_installed
          at,       \* the check it makes next
          since,    \* the damage count when it began (history)
          damaged,  \* parts of the installation spoilt from outside (history)
          condemned,\* parts that setup gives up after a misread (history)
          spent     \* bounded events so far

spoilt == <<damaged, condemned>>
disk == <<present, files, spoilt>>
local == <<mode, deleting>>
serving == <<reader, at, since>>
vars == <<disk, lock, pc, local, serving, spent>>

\* Which part verify_current reads at each step of resolve_installed.
CheckedFast == <<"marker", "state", "archive", "model">>
Checked == <<"marker", "state", "archive", "model", "runtime">>

\* The write steps of setup: directory, entry, step that follows.
Writes ==
    [mark_staging |-> <<"staging", "marker", "fetch_archive">>,
     fetch_archive |-> <<"staging", "archive", "fetch_model">>,
     fetch_model |-> <<"staging", "model", "extract">>,
     extract |-> <<"staging", "runtime", "write_state">>,
     write_state |-> <<"staging", "state", "verify_staging">>,
     mark_recovery |-> <<"recovery", "marker", "extract_recovery">>,
     extract_recovery |-> <<"recovery", "runtime", "remove_runtime">>]

\* Broken variant of the table of removals: a stale .staging is not cleared, the
\* recovery directory is instead.
RemovalsKeepStaging ==
    [clear_staging |-> <<"recovery", "create_staging">>,
     clear_previous |-> <<"previous", "retire_current">>,
     drop_previous |-> <<"previous", "verify_installed">>,
     clear_recovery |-> <<"recovery", "create_recovery">>,
     drop_recovery |-> <<"recovery", "verify_installed">>]

\* The calls of remove_managed_directory_if_present: directory, step that follows.
Removals ==
    [clear_staging |-> <<"staging", "create_staging">>,
     clear_previous |-> <<"previous", "retire_current">>,
     drop_previous |-> <<"previous", "verify_installed">>,
     clear_recovery |-> <<"recovery", "create_recovery">>,
     drop_recovery |-> <<"recovery", "verify_installed">>]

\* The calls of fs::create_dir.
Creations ==
    [create_staging |-> <<"staging", "mark_staging">>,
     create_recovery |-> <<"recovery", "mark_recovery">>]

Steps == DOMAIN Writes \cup DOMAIN Removals \cup DOMAIN Creations \cup
         {"lock", "verify", "verify_staging", "retire_current", "install",
          "remove_runtime", "move_runtime", "verify_installed"}

TypeOK ==
    /\ present \subseteq Dirs
    /\ files \in [Dirs -> [Parts -> Content]]
    /\ \A d \in Dirs \ present : files[d] = Empty
    /\ lock \in Setups \cup {Nobody}
    /\ pc \in [Setups -> Steps \cup {"idle"}]
    /\ mode \in [Setups -> {"online", "offline"}]
    /\ deleting \in [Setups -> BOOLEAN]
    /\ reader \in [Readers -> {"idle", "reading", "resolved", "failed"}]
    /\ at \in [Readers -> 1 .. Len(Checked) + 1]
    /\ since \in [Readers -> 0 .. MaxDamage]
    /\ damaged \subseteq Parts /\ condemned \subseteq Parts
    /\ spent \in [crashes : 0 .. MaxCrashes, failures : 0 .. MaxFailures,
                  damage : 0 .. MaxDamage, offline : 0 .. MaxOffline,
                  misreads : 0 .. MaxMisreads]

Init ==
    /\ present = {} /\ files = [d \in Dirs |-> Empty]
    /\ lock = Nobody
    /\ pc = [p \in Setups |-> "idle"]
    /\ mode = [p \in Setups |-> "online"]
    /\ deleting = [p \in Setups |-> FALSE]
    /\ reader = [r \in Readers |-> "idle"]
    /\ at = [r \in Readers |-> 1]
    /\ since = [r \in Readers |-> 0]
    /\ damaged = {} /\ condemned = {}
    /\ spent = [crashes |-> 0, failures |-> 0, damage |-> 0, offline |-> 0,
                misreads |-> 0]

-----------------------------------------------------------------------------
(* What verification sees *)

\* verify_current with Full verification.
Intact(d) == d \in present /\ \A f \in Parts : files[d][f] = "good"

\* The checks of recover_runtime: everything but the extracted runtime.
Repairable(d) == d \in present /\ \A f \in Parts \ {"runtime"} : files[d][f] = "good"

Goto(p, step) == pc' = [pc EXCEPT ![p] = step]

\* setup returns, with a status or an error: the lock file is closed.
Return(p) ==
    /\ Goto(p, "idle")
    /\ lock' = Nobody
    /\ deleting' = [deleting EXCEPT ![p] = FALSE]

\* Bounded events and reads so far.
Happened ==
    spent.crashes + spent.failures + spent.damage + spent.offline + spent.misreads
        + Cardinality({r \in Readers : reader[r] # "idle"})

Spend(what, limit) ==
    /\ spent[what] < limit /\ Happened < MaxEvents
    /\ spent' = [spent EXCEPT ![what] = @ + 1]

Put(d, f, content) == files' = [files EXCEPT ![d][f] = content]

-----------------------------------------------------------------------------
(* setup: the lock and the first verification *)

\* A call of setup.  install.lock is opened, its lock not yet taken.
Start(p, m) ==
    /\ pc[p] = "idle"
    /\ IF m = "offline" THEN Spend("offline", MaxOffline) ELSE UNCHANGED spent
    /\ mode' = [mode EXCEPT ![p] = m]
    /\ Goto(p, "lock")
    /\ UNCHANGED <<disk, lock, deleting, serving>>

\* Broken variant: the lock is shared.
LockShared(p) ==
    /\ pc[p] = "lock"
    /\ lock' = p
    /\ Goto(p, "verify")
    /\ UNCHANGED <<disk, local, serving, spent>>

\* lock_exclusive.
Lock(p) ==
    /\ pc[p] = "lock" /\ lock = Nobody
    /\ lock' = p
    /\ Goto(p, "verify")
    /\ UNCHANGED <<disk, local, serving, spent>>

\* The first verification has failed: online setup builds a new installation,
\* offline setup repairs the runtime.  The options are not looked at again
\* (mode is reset, to have fewer states).
Rebuild(p) ==
    /\ Goto(p, IF mode[p] = "online" THEN "clear_staging" ELSE "clear_recovery")
    /\ mode' = [mode EXCEPT ![p] = "online"]
    /\ UNCHANGED <<present, files, damaged, lock, deleting, serving>>

\* An intact installation is left alone.  Otherwise setup goes on, offline only
\* if all but the runtime is there.
VerifyCurrent(p) ==
    /\ pc[p] = "verify"
    /\ \/ /\ Intact("current")
          /\ Return(p)
          /\ condemned' = {}
          /\ mode' = [mode EXCEPT ![p] = "online"]
          /\ UNCHANGED <<present, files, damaged, serving>>
       \/ /\ ~Intact("current") /\ mode[p] = "offline" /\ ~Repairable("current")
          /\ Return(p)
          /\ mode' = [mode EXCEPT ![p] = "online"]
          /\ UNCHANGED <<disk, serving>>
       \/ /\ ~Intact("current") /\ (mode[p] = "online" \/ Repairable("current"))
          /\ Rebuild(p)
          /\ UNCHANGED condemned
    /\ UNCHANGED spent

\* `verify_current(..).is_ok()`: a part of an intact installation cannot be
\* read, and setup takes that for damage.  The installation is given up: the
\* next steps rename it away, or delete its runtime.
VerifyMisread(p) ==
    /\ pc[p] = "verify" /\ Intact("current")
    /\ Spend("misreads", MaxMisreads)
    /\ Rebuild(p)
    /\ condemned' = condemned \cup {"runtime"}

-----------------------------------------------------------------------------
(* Managed directories *)

\* remove_managed_directory_if_present up to the deletion: an absent directory
\* is fine, one without a valid marker is an error.
Remove(p) ==
    /\ pc[p] \in DOMAIN Removals /\ ~deleting[p]
    /\ LET d == Removals[pc[p]][1] IN
       IF d \notin present
       THEN Goto(p, Removals[pc[p]][2]) /\ UNCHANGED <<lock, deleting>>
       ELSE IF files[d]["marker"] = "good"
       THEN deleting' = [deleting EXCEPT ![p] = TRUE] /\ UNCHANGED <<lock, pc>>
       ELSE Return(p)
    /\ UNCHANGED <<disk, mode, serving, spent>>

\* Path::exists is false when the directory cannot be looked at, and setup goes
\* on as if it were gone.  What an earlier promotion left in .previous may then
\* be renamed back to `current`.
RemoveOverlooked(p) ==
    /\ pc[p] \in DOMAIN Removals /\ ~deleting[p]
    /\ Removals[pc[p]][1] \in present
    /\ Spend("misreads", MaxMisreads)
    /\ Goto(p, Removals[pc[p]][2])
    /\ condemned' = IF pc[p] = "clear_previous" /\ "current" \notin present
                    THEN Parts ELSE condemned
    /\ UNCHANGED <<present, files, damaged, lock, local, serving>>

\* remove_dir_all takes one entry, in no particular order ...
RemoveEntry(p) ==
    /\ deleting[p]
    /\ LET d == Removals[pc[p]][1] IN
       \E f \in Parts : files[d][f] # "none" /\ Put(d, f, "none")
    /\ UNCHANGED <<present, spoilt, lock, pc, local, serving, spent>>

\* ... and the directory itself when it is empty.
RemoveDirectory(p) ==
    /\ deleting[p]
    /\ files[Removals[pc[p]][1]] = Empty
    /\ present' = present \ {Removals[pc[p]][1]}
    /\ Goto(p, Removals[pc[p]][2])
    /\ deleting' = [deleting EXCEPT ![p] = FALSE]
    /\ UNCHANGED <<files, spoilt, lock, mode, serving, spent>>

\* fs::create_dir: an error if the directory exists.
Create(p) ==
    /\ pc[p] \in DOMAIN Creations
    /\ IF Creations[pc[p]][1] \in present
       THEN Return(p) /\ UNCHANGED present
       ELSE /\ present' = present \cup {Creations[pc[p]][1]}
            /\ Goto(p, Creations[pc[p]][2])
            /\ UNCHANGED <<lock, deleting>>
    /\ UNCHANGED <<files, spoilt, mode, serving, spent>>

\* The archive that an extraction reads: it was verified before, but the
\* installed one may have been damaged meanwhile.
Source(step) == files[IF step = "extract" THEN "staging" ELSE "current"]["archive"]

\* A write step completes.  Downloads are renamed into place only after their
\* digest matched.
Write(p) ==
    /\ pc[p] \in DOMAIN Writes
    /\ LET f == Writes[pc[p]][2] IN
       /\ f = "runtime" => Source(pc[p]) # "none"
       /\ Put(Writes[pc[p]][1], f, IF f = "runtime" THEN Source(pc[p]) ELSE "good")
    /\ Goto(p, Writes[pc[p]][3])
    /\ UNCHANGED <<present, spoilt, lock, local, serving, spent>>

\* extract_runtime rejects an archive that is missing or not the pinned one.
ExtractFails(p) ==
    /\ pc[p] \in {"extract", "extract_recovery"}
    /\ Source(pc[p]) # "good"
    /\ Return(p)
    /\ UNCHANGED <<disk, mode, serving, spent>>

\* The download fails or its digest does not match.
DownloadFails(p) ==
    /\ pc[p] \in {"fetch_archive", "fetch_model"}
    /\ Spend("failures", MaxFailures)
    /\ Return(p)
    /\ UNCHANGED <<disk, mode, serving>>

-----------------------------------------------------------------------------
(* promote *)

VerifyStaging(p) ==
    /\ pc[p] = "verify_staging"
    /\ IF Intact("staging")
       THEN Goto(p, "clear_previous") /\ UNCHANGED <<lock, deleting>>
       ELSE Return(p)
    /\ UNCHANGED <<disk, mode, serving, spent>>

\* A directory is renamed to a name that is free, or that of an empty directory.
Rename(from, to) ==
    /\ present' = (present \ {from}) \cup {to}
    /\ files' = [files EXCEPT ![to] = files[from], ![from] = Empty]

\* current, if it exists, is renamed to .previous.  That is an error if current
\* has no marker, or if .previous was overlooked and holds something.
RetireCurrent(p) ==
    /\ pc[p] = "retire_current"
    /\ \/ /\ "current" \notin present
          /\ Goto(p, "install")
          /\ UNCHANGED <<present, files, lock, deleting>>
       \/ /\ "current" \in present
          /\ files["current"]["marker"] # "good" \/ files["previous"] # Empty
          /\ Return(p)
          /\ UNCHANGED <<present, files>>
       \/ /\ "current" \in present
          /\ files["current"]["marker"] = "good" /\ files["previous"] = Empty
          /\ Rename("current", "previous")
          /\ Goto(p, "install")
          /\ UNCHANGED <<lock, deleting>>
    /\ UNCHANGED <<spoilt, mode, serving, spent>>

Install(p) ==
    /\ pc[p] = "install"
    /\ Rename("staging", "current")
    /\ damaged' = {} /\ condemned' = {}
    /\ Goto(p, "drop_previous")
    /\ UNCHANGED <<lock, local, serving, spent>>

\* The rename fails: .previous is renamed back, if that succeeds.
InstallFails(p) ==
    /\ pc[p] = "install"
    /\ Spend("failures", MaxFailures)
    /\ IF "previous" \in present /\ "current" \notin present
       THEN Rename("previous", "current") \/ UNCHANGED <<present, files>>
       ELSE UNCHANGED <<present, files>>
    /\ Return(p)
    /\ UNCHANGED <<spoilt, mode, serving>>

\* The last verification decides only the status that setup returns.
VerifyInstalled(p) ==
    /\ pc[p] = "verify_installed"
    /\ Return(p)
    /\ UNCHANGED <<disk, mode, serving, spent>>

-----------------------------------------------------------------------------
(* recover_runtime *)

\* The installed runtime is deleted, file by file ...
RemoveRuntime(p) ==
    /\ pc[p] = "remove_runtime"
    /\ \/ /\ files["current"]["runtime"] = "good"
          /\ Put("current", "runtime", "bad")
          /\ UNCHANGED pc
       \/ /\ Put("current", "runtime", "none")
          /\ Goto(p, "move_runtime")
    /\ UNCHANGED <<present, spoilt, lock, local, serving, spent>>

\* ... and the recovered one renamed into its place, if nothing stands there.
MoveRuntime(p) ==
    /\ pc[p] = "move_runtime"
    /\ \/ /\ files["current"]["runtime"] # "none"
          /\ Return(p)
          /\ UNCHANGED disk
       \/ LET moved == files["recovery"]["runtime"]
              repaired == IF moved = "good" THEN {"runtime"} ELSE {} IN
          /\ files["current"]["runtime"] = "none"
          /\ files' = [files EXCEPT !["current"]["runtime"] = moved,
                                    !["recovery"]["runtime"] = "none"]
          /\ damaged' = damaged \ repaired /\ condemned' = condemned \ repaired
          /\ Goto(p, "drop_recovery")
          /\ UNCHANGED <<present, lock, deleting>>
    /\ UNCHANGED <<mode, serving, spent>>

-----------------------------------------------------------------------------
(* Crashes and damage *)

\* The process dies, or an I/O error that setup notices ends it early: in both
\* cases the directories stay as they are, with the entry being written possibly
\* torn.  (It does not notice those of VerifyMisread and RemoveOverlooked.  To
\* overlook `current` at 962 or its runtime at 937 makes the next rename fail.)
Crash(p) ==
    /\ pc[p] # "idle"
    /\ Spend("crashes", MaxCrashes)
    /\ \/ UNCHANGED files
       \/ /\ pc[p] \in DOMAIN Writes \ {"fetch_archive", "fetch_model"}
          /\ Put(Writes[pc[p]][1], Writes[pc[p]][2], "bad")
    /\ Goto(p, "idle")
    /\ deleting' = [deleting EXCEPT ![p] = FALSE]
    /\ lock' = IF lock = p THEN Nobody ELSE lock
    /\ UNCHANGED <<present, spoilt, mode, serving>>

\* An installed file other than the marker is changed or deleted by something
\* that is not setup.
Damage ==
    /\ "current" \in present
    /\ Spend("damage", MaxDamage)
    /\ \E f \in Parts \ {"marker"}, content \in {"none", "bad"} :
          /\ Put("current", f, content)
          /\ damaged' = damaged \cup {f}
    /\ UNCHANGED <<present, condemned, lock, pc, local, serving>>

-----------------------------------------------------------------------------
(* resolve_installed, as start_from_store calls it: Full, without the lock *)

ReadBegin(r) ==
    /\ reader[r] = "idle" /\ Happened < MaxEvents
    /\ reader' = [reader EXCEPT ![r] = "reading"]
    /\ since' = [since EXCEPT ![r] = spent.damage]
    /\ UNCHANGED <<disk, lock, pc, local, at, spent>>

\* resolve_installed returns (its locals are reset).
ReadEnds(r, how) ==
    /\ reader' = [reader EXCEPT ![r] = how]
    /\ at' = [at EXCEPT ![r] = 1]
    /\ since' = [since EXCEPT ![r] = IF how = "failed" THEN 0 ELSE @]

\* verify_current looks at one part after the other.  Here an error of a read
\* ends the call: serve reports it.
ReadPart(r) ==
    /\ reader[r] = "reading" /\ at[r] <= Len(Checked)
    /\ \/ /\ files["current"][Checked[at[r]]] = "good"
          /\ at' = [at EXCEPT ![r] = @ + 1]
          /\ UNCHANGED <<reader, since>>
       \/ ReadEnds(r, "failed")
    /\ UNCHANGED <<disk, lock, pc, local, spent>>

\* The record is read again and the paths it names are canonicalized.
ReadPaths(r) ==
    /\ reader[r] = "reading" /\ at[r] = Len(Checked) + 1
    /\ \/ /\ files["current"]["state"] = "good"
          /\ files["current"]["runtime"] # "none" /\ files["current"]["model"] # "none"
          /\ ReadEnds(r, "resolved")
       \/ ReadEnds(r, "failed")
    /\ UNCHANGED <<disk, lock, pc, local, spent>>

-----------------------------------------------------------------------------
\* What a running setup does next by itself.
SetupStep(p) ==
    \/ Lock(p) \/ VerifyCurrent(p)
    \/ Remove(p) \/ RemoveEntry(p) \/ RemoveDirectory(p)
    \/ Create(p) \/ Write(p) \/ ExtractFails(p)
    \/ VerifyStaging(p) \/ RetireCurrent(p) \/ Install(p) \/ VerifyInstalled(p)
    \/ RemoveRuntime(p) \/ MoveRuntime(p)

Next ==
    \/ \E p \in Setups :
          \/ \E m \in {"online", "offline"} : Start(p, m)
          \/ SetupStep(p)
          \/ DownloadFails(p) \/ InstallFails(p) \/ Crash(p)
          \/ VerifyMisread(p) \/ RemoveOverlooked(p)
    \/ Damage
    \/ \E r \in Readers : ReadBegin(r) \/ ReadPart(r) \/ ReadPaths(r)

Spec == Init /\ [][Next]_vars

\* A running setup goes on, and the operator runs `setup` again after it ended.
FairSpec ==
    /\ Spec
    /\ \A p \in Setups : WF_vars(SetupStep(p)) /\ WF_vars(Start(p, "online"))

-----------------------------------------------------------------------------
(* Properties *)

\* Whatever crashes and whoever runs concurrently, what stands at `current` was
\* complete and verified when it came there, and no step of setup has spoilt a
\* part of it: only outside damage does, and setup itself only after a read
\* error that it took for damage, and then no more than the parts condemned by it.
OnlyDamageSpoils ==
    "current" \in present =>
        \A f \in Parts \ (damaged \cup condemned) : files["current"][f] = "good"

\* A server that resolved the installation, reading it part by part without the
\* lock while setup may replace or repair it, has an intact one.  After a
\* misread setup may take it away from a running server, or its condemned parts.
ResolvedIsIntact ==
    \A r \in Readers :
        reader[r] = "resolved" /\ spent.damage = since[r] =>
            /\ condemned = {} => Intact("current")
            /\ "current" \in present =>
                  \A f \in Parts \ condemned : files["current"][f] = "good"

\* A managed directory that setup refuses to touch: it has lost its marker, or
\* never got one.
Wedged(d) == d \in present /\ files[d]["marker"] # "good"

\* Crashes, failed downloads, read errors and damage are overcome by running
\* setup again: the installation becomes intact and stays so, unless a directory
\* that setup needs is left without its marker for ever.
SetupConverges ==
    <>[]Intact("current") \/ \E d \in Dirs \ {"recovery"} : <>[]Wedged(d)

\* docs/product-contract.md promises more: "Checksum-verified, staged,
\* recoverable model and runtime installation."
InstallRecoverable == ~Intact("current") ~> Intact("current")
=============================================================================
