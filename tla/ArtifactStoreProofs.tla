-------------------------- MODULE ArtifactStoreProofs --------------------------
(***************************************************************************)
(* Two facts about the artifact store, for any number of setups and        *)
(* readers and any number of crashes, failures and damages.                *)
(*                                                                         *)
(* Setup never spoils what stands at `current`: only the holder of         *)
(* install.lock touches a directory.  It moves the staging directory to    *)
(* `current` when it has just verified it, moves back only what it has     *)
(* taken from there, and deletes the runtime only after having seen that   *)
(* somebody else has spoilt it, or after a read error that it took for     *)
(* that: what it may spoil then is the runtime.  To overlook a .previous   *)
(* directory may cost more, but only while nothing stands at `current`.    *)
(*                                                                         *)
(* A server that reads `current` without the lock still resolves only an   *)
(* intact installation: setup replaces or repairs nothing that is intact,  *)
(* unless it could not read it, and what it puts there is intact, so that  *)
(* a part found good stays good, or is condemned.                          *)
(***************************************************************************)
EXTENDS ArtifactStore, TLAPS

Steady(d) == \A f \in Parts \ (damaged \cup condemned) : files[d][f] = "good"

DiskOK ==
    /\ present \subseteq Dirs /\ damaged \subseteq Parts /\ condemned \subseteq Parts
    /\ files \in [Dirs -> [Parts -> Content]]

\* Who is beyond the lock holds it.
LockInv ==
    /\ pc \in [Setups -> Steps \cup {"idle"}]
    /\ deleting \in [Setups -> BOOLEAN]
    /\ \A p \in Setups : pc[p] \in Steps \ {"lock"} => lock = p
    /\ \A p \in Setups : deleting[p] => pc[p] \in DOMAIN Removals

Modes == mode \in [Setups -> {"online", "offline"}]

\* What the steps before and after a promotion rely on.
PromoteInv(p) ==
    /\ pc[p] \in {"clear_previous", "retire_current", "install"} => Intact("staging")
    /\ pc[p] = "retire_current" /\ "previous" \in present /\ "current" \notin present
           => condemned = Parts
    /\ pc[p] = "install" =>
          "current" \notin present /\ ("previous" \in present => Steady("previous"))

\* Where a repair of the runtime is under way, it needs one, or seemed to.
RepairInv(p) ==
    pc[p] \in {"clear_recovery", "create_recovery", "mark_recovery", "extract_recovery",
               "remove_runtime", "move_runtime"}
        => "runtime" \in damaged \cup condemned

IInv ==
    /\ DiskOK /\ LockInv /\ OnlyDamageSpoils
    /\ \A p \in Setups : PromoteInv(p) /\ RepairInv(p)

-----------------------------------------------------------------------------
(* The tables of steps *)

LEMMA RemovalsTable ==
    /\ DOMAIN Removals = {"clear_staging", "clear_previous", "drop_previous",
                          "clear_recovery", "drop_recovery"}
    /\ \A s \in DOMAIN Removals :
          /\ Removals[s][1] \in {"staging", "previous", "recovery"}
          /\ Removals[s][2] \in {"create_staging", "retire_current", "verify_installed",
                                 "create_recovery"}
          /\ s = "clear_previous" => Removals[s][1] = "previous"
          /\ Removals[s][2] = "retire_current" => s = "clear_previous"
          /\ Removals[s][2] = "create_recovery" => s = "clear_recovery"
  BY DEF Removals

LEMMA CreationsTable ==
    /\ DOMAIN Creations = {"create_staging", "create_recovery"}
    /\ \A s \in DOMAIN Creations :
          /\ Creations[s][1] \in {"staging", "recovery"}
          /\ Creations[s][2] \in {"mark_staging", "mark_recovery"}
          /\ Creations[s][2] = "mark_recovery" => s = "create_recovery"
  BY DEF Creations

LEMMA WritesTable ==
    /\ DOMAIN Writes = {"mark_staging", "fetch_archive", "fetch_model", "extract",
                        "write_state", "mark_recovery", "extract_recovery"}
    /\ \A s \in DOMAIN Writes :
          /\ Writes[s][1] \in {"staging", "recovery"} /\ Writes[s][2] \in Parts
          /\ Writes[s][3] \in {"fetch_archive", "fetch_model", "extract", "write_state",
                               "verify_staging", "extract_recovery", "remove_runtime"}
          /\ Writes[s][3] \in {"extract_recovery", "remove_runtime"} =>
                s \in {"mark_recovery", "extract_recovery"}
  BY DEF Writes, Parts

\* The steps by name.
LEMMA StepNames ==
    Steps = {"mark_staging", "fetch_archive", "fetch_model", "extract", "write_state",
             "mark_recovery", "extract_recovery", "clear_staging", "clear_previous",
             "drop_previous", "clear_recovery", "drop_recovery", "create_staging",
             "create_recovery", "lock", "verify", "verify_staging", "retire_current",
             "install", "remove_runtime", "move_runtime", "verify_installed"}
  BY RemovalsTable, CreationsTable, WritesTable DEF Steps

LEMMA InitIInv == Init => IInv
<1> SUFFICES ASSUME Init PROVE IInv
  OBVIOUS
<1>1. DiskOK
  BY DEF Init, DiskOK, Empty, Content
<1>2. LockInv
  BY StepNames DEF Init, LockInv
<1>3. OnlyDamageSpoils /\ \A p \in Setups : PromoteInv(p) /\ RepairInv(p)
  BY DEF Init, OnlyDamageSpoils, PromoteInv, RepairInv
<1> QED BY <1>1, <1>2, <1>3 DEF IInv

-----------------------------------------------------------------------------
(* Steps *)

\* Nobody but the holder of the lock has anything to lose.
LEMMA OthersAreOut ==
    ASSUME IInv, NEW p \in Setups, lock = p \/ lock = Nobody, NEW q \in Setups \ {p}
    PROVE  pc[q] \in {"idle", "lock"} /\ ~deleting[q]
<1>1. pc[q] \in {"idle", "lock"}
  BY NobodyOK DEF IInv, LockInv
<1> QED BY <1>1, RemovalsTable DEF IInv, LockInv

\* A step of p, alone, that leaves p in a place consistent with the disk.
LEMMA SetupIInv ==
    ASSUME IInv, NEW p \in Setups, lock = p \/ lock = Nobody,
           NEW where \in Steps \cup {"idle"}, Goto(p, where),
           deleting' \in [Setups -> BOOLEAN],
           \A q \in Setups \ {p} : deleting'[q] = deleting[q],
           deleting'[p] => where \in DOMAIN Removals,
           where \in Steps \ {"lock"} => lock' = p,
           DiskOK', OnlyDamageSpoils', PromoteInv(p)', RepairInv(p)'
    PROVE  IInv'
<1>1. \A q \in Setups \ {p} : pc'[q] = pc[q] /\ pc'[q] \in {"idle", "lock"} /\ ~deleting'[q]
  BY OthersAreOut DEF Goto, IInv, LockInv
<1>2. pc'[p] = where
  BY DEF Goto, IInv, LockInv
<1>3. LockInv'
  <2>1. pc' \in [Setups -> Steps \cup {"idle"}]
    BY DEF Goto, IInv, LockInv
  <2>2. ASSUME NEW q \in Setups
        PROVE  /\ pc'[q] \in Steps \ {"lock"} => lock' = q
               /\ deleting'[q] => pc'[q] \in DOMAIN Removals
    <3>1. CASE q = p
      BY <1>2, <3>1
    <3>2. CASE q # p
      BY <1>1, <3>2, StepNames
    <3> QED BY <3>1, <3>2
  <2> QED BY <2>1, <2>2 DEF LockInv
<1>4. \A q \in Setups : PromoteInv(q)' /\ RepairInv(q)'
  BY <1>1 DEF PromoteInv, RepairInv
<1> QED BY <1>3, <1>4 DEF IInv

\* A call of setup begins or ends, and leaves the disk as it is.
LEMMA CallIInv ==
    ASSUME IInv, NEW p \in Setups, NEW where \in {"idle", "lock"}, Goto(p, where),
           UNCHANGED disk, lock' = lock \/ lock = p,
           deleting' = [deleting EXCEPT ![p] = FALSE] \/ (deleting' = deleting /\ ~deleting[p])
    PROVE  IInv'
<1>1. pc' = [pc EXCEPT ![p] = where] /\ where \in Steps \cup {"idle"}
  BY StepNames DEF Goto
<1>2. ~deleting'[p] /\ \A q \in Setups \ {p} : deleting'[q] = deleting[q]
  BY DEF IInv, LockInv
<1>3. DiskOK' /\ OnlyDamageSpoils'
  BY DEF disk, spoilt, IInv, DiskOK, OnlyDamageSpoils
<1>4. LockInv'
  <2>1. pc' \in [Setups -> Steps \cup {"idle"}] /\ deleting' \in [Setups -> BOOLEAN]
    BY <1>1 DEF IInv, LockInv
  <2>2. ASSUME NEW q \in Setups
        PROVE  /\ pc'[q] \in Steps \ {"lock"} => lock' = q
               /\ deleting'[q] => pc'[q] \in DOMAIN Removals
    <3>1. CASE q = p
      BY <1>1, <1>2, <3>1, StepNames DEF IInv, LockInv
    <3>2. CASE q # p
      <4>1. pc'[q] = pc[q] /\ deleting'[q] = deleting[q]
        BY <1>1, <1>2, <3>2 DEF IInv, LockInv
      <4> QED BY <3>2, <4>1 DEF IInv, LockInv
    <3> QED BY <3>1, <3>2
  <2> QED BY <2>1, <2>2 DEF LockInv
<1>5. ASSUME NEW q \in Setups PROVE PromoteInv(q)' /\ RepairInv(q)'
  BY <1>1 DEF disk, spoilt, IInv, LockInv, PromoteInv, RepairInv, Intact, Steady
<1> QED BY <1>3, <1>4, <1>5 DEF IInv

LEMMA ReturnIInv ==
    ASSUME IInv, NEW p \in Setups, Return(p), pc[p] \in Steps \ {"lock"}, UNCHANGED disk
    PROVE  IInv'
<1>1. lock = p
  BY DEF IInv, LockInv
<1>2. Goto(p, "idle") /\ deleting' = [deleting EXCEPT ![p] = FALSE]
  BY DEF Return
<1> QED BY <1>1, <1>2, CallIInv

\* The holder of the lock goes on and the disk stays.
LEMMA GoOnIInv ==
    ASSUME IInv, NEW p \in Setups, pc[p] \in Steps \ {"lock"}, NEW where \in Steps,
           Goto(p, where), lock' = lock, UNCHANGED <<present, files, damaged, deleting>>,
           condemned \subseteq condemned', condemned' \subseteq Parts, ~deleting[p],
           where \in {"clear_previous", "retire_current", "install"} => Intact("staging"),
           where \in {"retire_current", "install"} =>
               ("previous" \in present /\ "current" \notin present => condemned' = Parts),
           where = "install" => "current" \notin present,
           where \in {"clear_recovery", "create_recovery", "mark_recovery",
                      "extract_recovery", "remove_runtime", "move_runtime"}
               => "runtime" \in damaged \cup condemned'
    PROVE  IInv'
<1>1. lock = p /\ pc'[p] = where
  BY DEF Goto, IInv, LockInv
<1>2. DiskOK' /\ OnlyDamageSpoils'
  BY DEF IInv, DiskOK, OnlyDamageSpoils
<1>3. PromoteInv(p)' /\ RepairInv(p)'
  BY <1>1 DEF PromoteInv, RepairInv, Intact, Steady
<1>4. deleting' \in [Setups -> BOOLEAN]
  BY DEF IInv, LockInv
<1> QED BY <1>1, <1>2, <1>3, <1>4, SetupIInv

\* Another directory than `current` changes under the holder of the lock.
LEMMA ElsewhereIInv ==
    ASSUME IInv, NEW p \in Setups, pc[p] \in Steps \ {"lock"},
           NEW where \in Steps, Goto(p, where), lock' = lock,
           deleting' \in [Setups -> BOOLEAN],
           \A q \in Setups \ {p} : deleting'[q] = deleting[q],
           deleting'[p] => where \in DOMAIN Removals,
           NEW d \in Dirs \ {"current"}, UNCHANGED spoilt, DiskOK',
           \A e \in Dirs \ {d} : files'[e] = files[e] /\ (e \in present' <=> e \in present),
           PromoteInv(p)', RepairInv(p)'
    PROVE  IInv'
<1>1. lock = p
  BY DEF IInv, LockInv
<1>2. OnlyDamageSpoils'
  BY DEF spoilt, IInv, OnlyDamageSpoils, Dirs
<1>3. where \in Steps \cup {"idle"}
  OBVIOUS
<1> QED BY <1>1, <1>2, <1>3, SetupIInv

-----------------------------------------------------------------------------
(* One lemma per action that touches a directory *)

LEMMA VerifyIInv ==
    ASSUME IInv, NEW p \in Setups,
           \/ Lock(p) \/ VerifyCurrent(p) \/ VerifyMisread(p)
           \/ VerifyStaging(p) \/ VerifyInstalled(p)
    PROVE  IInv'
<1>1. CASE Lock(p)
  <2>1. DiskOK' /\ OnlyDamageSpoils'
    BY <1>1 DEF Lock, disk, spoilt, IInv, DiskOK, OnlyDamageSpoils
  <2>2. /\ "verify" \in Steps \cup {"idle"} /\ Goto(p, "verify") /\ pc'[p] = "verify"
        /\ lock = Nobody /\ lock' = p /\ deleting' = deleting /\ ~deleting[p]
    BY <1>1, StepNames, RemovalsTable DEF Lock, Goto, local, IInv, LockInv
  <2>3. PromoteInv(p)' /\ RepairInv(p)'
    BY <2>2 DEF PromoteInv, RepairInv
  <2>4. deleting' \in [Setups -> BOOLEAN]
    BY <2>2 DEF IInv, LockInv
  <2> QED BY <2>1, <2>2, <2>3, <2>4, SetupIInv
<1>2. CASE VerifyCurrent(p)
  <2>1. pc[p] = "verify" /\ pc[p] \in Steps \ {"lock"} /\ ~deleting[p] /\ lock = p
    BY <1>2, StepNames, RemovalsTable DEF VerifyCurrent, IInv, LockInv
  <2>2. CASE Return(p) /\ UNCHANGED disk
    BY <2>1, <2>2, ReturnIInv
  <2>3. CASE /\ Return(p) /\ Intact("current") /\ condemned' = {}
             /\ UNCHANGED <<present, files, damaged>>
    <3>1. DiskOK' /\ OnlyDamageSpoils'
      BY <2>3 DEF IInv, DiskOK, OnlyDamageSpoils, Intact
    <3>2. /\ Goto(p, "idle") /\ "idle" \in Steps \cup {"idle"} /\ "idle" \notin Steps
          /\ pc'[p] = "idle" /\ deleting' = [deleting EXCEPT ![p] = FALSE]
      BY <2>3, StepNames DEF Return, Goto, IInv, LockInv
    <3>3. /\ PromoteInv(p)' /\ RepairInv(p)' /\ ~deleting'[p]
          /\ deleting' \in [Setups -> BOOLEAN]
          /\ \A q \in Setups \ {p} : deleting'[q] = deleting[q]
      BY <3>2 DEF PromoteInv, RepairInv, IInv, LockInv
    <3> QED BY <2>1, <3>1, <3>2, <3>3, SetupIInv
  <2>4. CASE /\ ~Intact("current") /\ (mode[p] = "online" \/ Repairable("current"))
             /\ Rebuild(p) /\ UNCHANGED condemned
    <3>1. condemned \subseteq condemned' /\ condemned' \subseteq Parts
      BY <2>4 DEF IInv, DiskOK
    <3>2. Repairable("current") => "runtime" \in damaged \cup condemned
      BY <2>4 DEF IInv, OnlyDamageSpoils, Intact, Repairable, Parts
    <3>3. /\ UNCHANGED <<present, files, damaged, lock, deleting>>
          /\ Goto(p, IF mode[p] = "online" THEN "clear_staging" ELSE "clear_recovery")
      BY <2>4 DEF Rebuild
    <3>4. CASE mode[p] = "online"
      BY <2>1, <3>1, <3>3, <3>4, GoOnIInv, StepNames
    <3>5. CASE mode[p] # "online"
      BY <2>1, <2>4, <3>1, <3>2, <3>3, <3>5, GoOnIInv, StepNames
    <3> QED BY <3>4, <3>5
  <2> QED BY <1>2, <2>2, <2>3, <2>4 DEF VerifyCurrent
<1>5. CASE VerifyMisread(p)
  <2>1. pc[p] \in Steps \ {"lock"} /\ ~deleting[p]
    BY <1>5, StepNames, RemovalsTable DEF VerifyMisread, IInv, LockInv
  <2>2. /\ condemned \subseteq condemned' /\ condemned' \subseteq Parts
        /\ "runtime" \in damaged \cup condemned'
    BY <1>5 DEF VerifyMisread, IInv, DiskOK, Parts
  <2>3. /\ UNCHANGED <<present, files, damaged, lock, deleting>>
        /\ Goto(p, IF mode[p] = "online" THEN "clear_staging" ELSE "clear_recovery")
    BY <1>5 DEF VerifyMisread, Rebuild
  <2>4. CASE mode[p] = "online"
    BY <2>1, <2>2, <2>3, <2>4, GoOnIInv, StepNames
  <2>5. CASE mode[p] # "online"
    BY <2>1, <2>2, <2>3, <2>5, GoOnIInv, StepNames
  <2> QED BY <2>4, <2>5
<1>3. CASE VerifyStaging(p)
  <2>1. /\ pc[p] = "verify_staging" /\ pc[p] \in Steps \ {"lock"} /\ ~deleting[p]
        /\ UNCHANGED <<disk, present, files, damaged, condemned>> /\ condemned \subseteq Parts
    BY <1>3, StepNames, RemovalsTable DEF VerifyStaging, disk, spoilt, IInv, DiskOK, LockInv
  <2>2. CASE Return(p)
    BY <2>1, <2>2, ReturnIInv
  <2>3. CASE Intact("staging") /\ Goto(p, "clear_previous") /\ UNCHANGED <<lock, deleting>>
    BY <2>1, <2>3, GoOnIInv, StepNames
  <2> QED BY <1>3, <2>2, <2>3 DEF VerifyStaging
<1>4. CASE VerifyInstalled(p)
  BY <1>4, ReturnIInv, StepNames DEF VerifyInstalled
<1> QED BY <1>1, <1>2, <1>3, <1>4, <1>5

LEMMA RemoveIInv ==
    ASSUME IInv, NEW p \in Setups, Remove(p) \/ RemoveOverlooked(p)
    PROVE  IInv'
<1> DEFINE d == Removals[pc[p]][1]
<1> DEFINE next == Removals[pc[p]][2]
<1>1. /\ pc[p] \in DOMAIN Removals /\ pc[p] \in Steps \ {"lock"} /\ next \in Steps
      /\ UNCHANGED <<present, files, damaged>> /\ ~deleting[p] /\ lock = p
      /\ condemned \subseteq condemned' /\ condemned' \subseteq Parts
      /\ Remove(p) => UNCHANGED disk
  BY StepNames, RemovalsTable
     DEF Remove, RemoveOverlooked, disk, spoilt, IInv, DiskOK, LockInv
<1>2. CASE /\ Goto(p, next) /\ UNCHANGED <<lock, deleting>>
           /\ pc[p] = "clear_previous" /\ "previous" \in present /\ "current" \notin present
                 => condemned' = Parts
  <2>1. next \in {"clear_previous", "retire_current", "install"} =>
            Intact("staging") /\ next = "retire_current" /\ pc[p] = "clear_previous"
    BY <1>1, RemovalsTable DEF IInv, PromoteInv
  <2>2. next \in {"clear_recovery", "create_recovery", "mark_recovery",
                  "extract_recovery", "remove_runtime", "move_runtime"} =>
            "runtime" \in damaged \cup condemned'
    BY <1>1, RemovalsTable DEF IInv, RepairInv
  <2> HIDE DEF next
  <2> QED BY <1>1, <1>2, <2>1, <2>2, GoOnIInv
<1>3. CASE Remove(p) /\ deleting' = [deleting EXCEPT ![p] = TRUE] /\ UNCHANGED <<lock, pc>>
  <2>1. DiskOK' /\ OnlyDamageSpoils' /\ PromoteInv(p)' /\ RepairInv(p)'
    BY <1>1, <1>3 DEF disk, spoilt, IInv, DiskOK, OnlyDamageSpoils, PromoteInv, RepairInv,
                      Intact, Steady
  <2>2. Goto(p, pc[p]) /\ deleting' \in [Setups -> BOOLEAN]
    BY <1>3 DEF Goto, IInv, LockInv
  <2>3. \A q \in Setups \ {p} : deleting'[q] = deleting[q]
    BY <1>3 DEF IInv, LockInv
  <2> QED BY <1>1, <1>3, <2>1, <2>2, <2>3, SetupIInv
<1>4. CASE Remove(p) /\ Return(p)
  BY <1>1, <1>4, ReturnIInv
<1>5. CASE Remove(p) /\ d \notin present /\ Goto(p, next) /\ UNCHANGED <<lock, deleting>>
  <2>1. pc[p] = "clear_previous" => d = "previous"
    BY <1>1, RemovalsTable
  <2> QED BY <1>2, <1>5, <2>1
<1>6. CASE RemoveOverlooked(p)
  BY <1>2, <1>6 DEF RemoveOverlooked, local
<1> QED BY <1>3, <1>4, <1>5, <1>6 DEF Remove

LEMMA DeleteIInv ==
    ASSUME IInv, NEW p \in Setups, RemoveEntry(p) \/ RemoveDirectory(p)
    PROVE  IInv'
<1> DEFINE d == Removals[pc[p]][1]
<1> DEFINE next == Removals[pc[p]][2]
<1>1. /\ deleting[p] /\ pc[p] \in DOMAIN Removals /\ pc[p] \in Steps \ {"lock"}
      /\ next \in Steps /\ d \in Dirs \ {"current"}
  BY StepNames, RemovalsTable DEF RemoveEntry, RemoveDirectory, IInv, LockInv, Dirs
<1>2. CASE RemoveEntry(p)
  <2>1. /\ Goto(p, pc[p]) /\ UNCHANGED <<present, damaged, condemned, lock, pc, deleting>>
        /\ deleting' \in [Setups -> BOOLEAN]
    BY <1>2 DEF RemoveEntry, spoilt, Goto, local, IInv, LockInv
  <2>2. PICK f \in Parts : files' = [files EXCEPT ![d][f] = "none"]
    BY <1>2 DEF RemoveEntry, Put
  <2>3. \A e \in Dirs \ {d} : files'[e] = files[e]
    BY <2>2 DEF IInv, DiskOK
  <2>4. DiskOK'
    <3>1. files[d] \in [Parts -> Content] /\ "none" \in Content
      BY <1>1 DEF IInv, DiskOK, Content
    <3> HIDE DEF d
    <3> QED BY <2>1, <2>2, <3>1 DEF IInv, DiskOK
  <2>5. PromoteInv(p)'
    <3>1. pc[p] = "clear_previous" => Intact("staging") /\ d = "previous"
      BY <1>1, RemovalsTable DEF IInv, PromoteInv
    <3>2. pc[p] \notin {"retire_current", "install"}
      BY <1>1, RemovalsTable
    <3> QED BY <2>1, <2>3, <3>1, <3>2 DEF PromoteInv, Intact, Dirs
  <2>6. RepairInv(p)'
    BY <2>1 DEF IInv, RepairInv
  <2> HIDE DEF d
  <2> QED BY <1>1, <2>1, <2>3, <2>4, <2>5, <2>6, ElsewhereIInv DEF spoilt
<1>3. CASE RemoveDirectory(p)
  <2>1. /\ Goto(p, next) /\ UNCHANGED <<files, damaged, condemned, lock>>
        /\ present' = present \ {d} /\ deleting' = [deleting EXCEPT ![p] = FALSE]
    BY <1>3 DEF RemoveDirectory, spoilt
  <2>2. pc'[p] = next
    BY <2>1 DEF Goto, IInv, LockInv
  <2>3. DiskOK'
    BY <2>1 DEF IInv, DiskOK
  <2>4. PromoteInv(p)' /\ RepairInv(p)'
    <3>1. next = "retire_current" => Intact("staging") /\ d = "previous"
      BY <1>1, RemovalsTable DEF IInv, PromoteInv
    <3>2. next \notin {"clear_previous", "install"}
      BY <1>1, RemovalsTable
    <3>3. next \in {"clear_recovery", "create_recovery", "mark_recovery",
                    "extract_recovery", "remove_runtime", "move_runtime"} =>
              "runtime" \in damaged \cup condemned
      BY <1>1, RemovalsTable DEF IInv, RepairInv
    <3> HIDE DEF d, next
    <3> QED BY <2>1, <2>2, <3>1, <3>2, <3>3 DEF PromoteInv, RepairInv, Intact
  <2>5. /\ deleting' \in [Setups -> BOOLEAN] /\ ~deleting'[p]
        /\ \A q \in Setups \ {p} : deleting'[q] = deleting[q]
    BY <2>1 DEF IInv, LockInv
  <2> HIDE DEF d, next
  <2> QED BY <1>1, <2>1, <2>3, <2>4, <2>5, ElsewhereIInv DEF spoilt
<1> QED BY <1>2, <1>3

LEMMA CreateIInv ==
    ASSUME IInv, NEW p \in Setups, Create(p)
    PROVE  IInv'
<1> DEFINE d == Creations[pc[p]][1]
<1> DEFINE next == Creations[pc[p]][2]
<1>1. /\ pc[p] \in DOMAIN Creations /\ pc[p] \in Steps \ {"lock"} /\ next \in Steps
      /\ d \in Dirs \ {"current"} /\ UNCHANGED <<files, spoilt>> /\ ~deleting[p]
  BY StepNames, CreationsTable, RemovalsTable DEF Create, IInv, LockInv, Dirs
<1>2. CASE Return(p) /\ UNCHANGED present
  BY <1>1, <1>2, ReturnIInv DEF disk, spoilt
<1>3. CASE present' = present \cup {d} /\ Goto(p, next) /\ UNCHANGED <<lock, deleting>>
  <2>1. pc'[p] = next /\ DiskOK'
    BY <1>1, <1>3 DEF spoilt, Goto, IInv, LockInv, DiskOK
  <2>2. /\ next \in {"mark_staging", "mark_recovery"}
        /\ next = "mark_recovery" => "runtime" \in damaged \cup condemned
    BY <1>1, CreationsTable DEF IInv, RepairInv
  <2>3. PromoteInv(p)' /\ RepairInv(p)'
    BY <1>1, <2>1, <2>2 DEF spoilt, PromoteInv, RepairInv
  <2>4. deleting' \in [Setups -> BOOLEAN] /\ \A q \in Setups : deleting'[q] = deleting[q]
    BY <1>3 DEF IInv, LockInv
  <2> HIDE DEF d, next
  <2> QED BY <1>1, <1>3, <2>1, <2>3, <2>4, ElsewhereIInv
<1> QED BY <1>2, <1>3 DEF Create

\* An entry of a directory under construction changes.
LEMMA WriteIInv ==
    ASSUME IInv, NEW p \in Setups, Write(p)
    PROVE  IInv'
<1> DEFINE d == Writes[pc[p]][1]
<1> DEFINE f == Writes[pc[p]][2]
<1> DEFINE next == Writes[pc[p]][3]
<1>1. /\ pc[p] \in DOMAIN Writes /\ pc[p] \in Steps \ {"lock"} /\ next \in Steps
      /\ d \in Dirs \ {"current"} /\ f \in Parts /\ ~deleting[p]
      /\ UNCHANGED <<present, spoilt, lock, deleting>> /\ Goto(p, next)
  BY StepNames, WritesTable, RemovalsTable DEF Write, IInv, LockInv, Dirs, local
<1>2. PICK content \in Content : files' = [files EXCEPT ![d][f] = content]
  <2>1. Source(pc[p]) \in Content
    BY DEF Source, IInv, DiskOK, Dirs, Parts
  <2> QED BY <2>1 DEF Write, Put, Content
<1>3. pc'[p] = next
  BY <1>1 DEF Goto, IInv, LockInv
<1>4. DiskOK' /\ \A e \in Dirs \ {d} : files'[e] = files[e]
  <2> HIDE DEF d, f, next
  <2> QED BY <1>1, <1>2 DEF spoilt, IInv, DiskOK
<1>5. PromoteInv(p)' /\ RepairInv(p)'
  <2>1. /\ next \notin {"clear_previous", "retire_current", "install", "clear_recovery",
                        "create_recovery", "mark_recovery", "move_runtime"}
        /\ next \in {"extract_recovery", "remove_runtime"} => "runtime" \in damaged \cup condemned
    BY <1>1, WritesTable DEF IInv, RepairInv
  <2> HIDE DEF next
  <2> QED BY <1>1, <1>3, <2>1 DEF spoilt, PromoteInv, RepairInv
<1>6. deleting' \in [Setups -> BOOLEAN]
  BY <1>1 DEF IInv, LockInv
<1> HIDE DEF d, f, next
<1> QED BY <1>1, <1>4, <1>5, <1>6, ElsewhereIInv

\* A failed extraction or download ends the call.
LEMMA FailsIInv ==
    ASSUME IInv, NEW p \in Setups, ExtractFails(p) \/ DownloadFails(p)
    PROVE  IInv'
  BY ReturnIInv, StepNames DEF ExtractFails, DownloadFails

-----------------------------------------------------------------------------
(* The steps that touch what stands at `current` *)

LEMMA Renamed ==
    ASSUME DiskOK, NEW from \in Dirs, NEW to \in Dirs \ {from}, Rename(from, to),
           damaged' \subseteq Parts, condemned' \subseteq Parts
    PROVE  /\ DiskOK'
           /\ files'[to] = files[from] /\ from \notin present' /\ to \in present'
           /\ \A e \in Dirs \ {from, to} :
                 files'[e] = files[e] /\ (e \in present' <=> e \in present)
<1>1. Empty \in [Parts -> Content]
  BY DEF Empty, Content
<1> QED BY <1>1 DEF Rename, DiskOK

LEMMA RetireIInv ==
    ASSUME IInv, NEW p \in Setups, RetireCurrent(p)
    PROVE  IInv'
<1>1. /\ pc[p] = "retire_current" /\ pc[p] \in Steps \ {"lock"} /\ UNCHANGED spoilt
      /\ damaged' = damaged /\ condemned' = condemned /\ condemned \subseteq Parts
      /\ ~deleting[p] /\ lock = p /\ Intact("staging")
      /\ "previous" \in present /\ "current" \notin present => condemned = Parts
  BY StepNames, RemovalsTable DEF RetireCurrent, spoilt, IInv, DiskOK, LockInv, PromoteInv
<1>2. CASE Return(p) /\ UNCHANGED <<present, files>>
  BY <1>1, <1>2, ReturnIInv DEF disk, spoilt
<1>3. CASE /\ "current" \notin present /\ Goto(p, "install")
           /\ UNCHANGED <<present, files, lock, deleting>>
  BY <1>1, <1>3, GoOnIInv, StepNames
<1>4. CASE /\ "current" \in present /\ Rename("current", "previous")
           /\ Goto(p, "install") /\ UNCHANGED <<lock, deleting>>
  <2>1. {"current", "previous", "staging"} \subseteq Dirs
    BY DEF Dirs
  <2>2. /\ DiskOK' /\ files'["previous"] = files["current"] /\ "current" \notin present'
        /\ files'["staging"] = files["staging"]
        /\ "staging" \in present' <=> "staging" \in present
    BY <1>1, <1>4, <2>1, Renamed DEF IInv, DiskOK
  <2>3. OnlyDamageSpoils'
    BY <2>2 DEF OnlyDamageSpoils
  <2>4. "install" \in Steps \cup {"idle"} /\ pc'[p] = "install"
    BY <1>4, StepNames DEF Goto, IInv, LockInv
  <2>5. PromoteInv(p)'
    BY <1>1, <1>4, <2>2, <2>4 DEF IInv, OnlyDamageSpoils, PromoteInv, Intact, Steady
  <2>6. RepairInv(p)' /\ deleting' \in [Setups -> BOOLEAN]
    BY <1>4, <2>4 DEF RepairInv, IInv, LockInv
  <2> QED BY <1>1, <1>4, <2>2, <2>3, <2>4, <2>5, <2>6, SetupIInv
<1> QED BY <1>2, <1>3, <1>4 DEF RetireCurrent

LEMMA InstallIInv ==
    ASSUME IInv, NEW p \in Setups, Install(p) \/ InstallFails(p)
    PROVE  IInv'
<1>1. /\ pc[p] = "install" /\ pc[p] \in Steps \ {"lock"} /\ ~deleting[p] /\ lock = p
      /\ Intact("staging") /\ "current" \notin present
      /\ "previous" \in present => Steady("previous")
  BY StepNames, RemovalsTable DEF Install, InstallFails, IInv, LockInv, PromoteInv
<1>2. {"current", "previous", "staging"} \subseteq Dirs
  BY DEF Dirs
<1>3. CASE Install(p)
  <2>1. DiskOK' /\ files'["current"] = files["staging"]
    BY <1>2, <1>3, Renamed DEF Install, IInv
  <2>2. OnlyDamageSpoils'
    BY <1>1, <2>1 DEF OnlyDamageSpoils, Intact
  <2>3. /\ Goto(p, "drop_previous") /\ "drop_previous" \in Steps \cup {"idle"}
        /\ pc'[p] = "drop_previous" /\ lock' = lock /\ deleting' = deleting
    BY <1>3, StepNames DEF Install, Goto, local, IInv, LockInv
  <2>4. PromoteInv(p)' /\ RepairInv(p)' /\ deleting' \in [Setups -> BOOLEAN]
    BY <2>3 DEF PromoteInv, RepairInv, IInv, LockInv
  <2> QED BY <1>1, <2>1, <2>2, <2>3, <2>4, SetupIInv
<1>4. CASE InstallFails(p)
  <2>1. Return(p) /\ UNCHANGED spoilt /\ damaged' = damaged /\ condemned' = condemned
    BY <1>4 DEF InstallFails, spoilt
  <2>2. CASE UNCHANGED <<present, files>>
    BY <1>1, <2>1, <2>2, ReturnIInv DEF disk, spoilt
  <2>3. CASE "previous" \in present /\ Rename("previous", "current")
    <3>1. DiskOK' /\ files'["current"] = files["previous"]
      BY <1>2, <2>1, <2>3, Renamed DEF IInv, DiskOK
    <3>2. OnlyDamageSpoils'
      BY <1>1, <2>1, <2>3, <3>1 DEF OnlyDamageSpoils, Steady
    <3>3. /\ Goto(p, "idle") /\ "idle" \in Steps \cup {"idle"} /\ pc'[p] = "idle"
          /\ deleting' = [deleting EXCEPT ![p] = FALSE] /\ "idle" \notin Steps
      BY <2>1, StepNames DEF Return, Goto, IInv, LockInv
    <3>4. /\ PromoteInv(p)' /\ RepairInv(p)' /\ ~deleting'[p]
          /\ deleting' \in [Setups -> BOOLEAN]
          /\ \A q \in Setups \ {p} : deleting'[q] = deleting[q]
      BY <3>3 DEF PromoteInv, RepairInv, IInv, LockInv
    <3> QED BY <1>1, <3>1, <3>2, <3>3, <3>4, SetupIInv
  <2> QED BY <1>4, <2>2, <2>3 DEF InstallFails
<1> QED BY <1>3, <1>4

LEMMA RepairIInv ==
    ASSUME IInv, NEW p \in Setups, RemoveRuntime(p) \/ MoveRuntime(p)
    PROVE  IInv'
<1>1. /\ pc[p] \in {"remove_runtime", "move_runtime"} /\ pc[p] \in Steps \ {"lock"}
      /\ ~deleting[p] /\ lock = p /\ "runtime" \in damaged \cup condemned
      /\ UNCHANGED present
  BY StepNames, RemovalsTable
     DEF RemoveRuntime, MoveRuntime, disk, spoilt, IInv, LockInv, RepairInv
<1>2. /\ "current" \in Dirs /\ "recovery" \in Dirs /\ "runtime" \in Parts
      /\ {"none", "bad"} \subseteq Content
  BY DEF Dirs, Parts, Content
<1>3. CASE RemoveRuntime(p)
  <2>1. PICK content \in {"none", "bad"} :
            files' = [files EXCEPT !["current"]["runtime"] = content]
    BY <1>3 DEF RemoveRuntime, Put
  <2>2. /\ UNCHANGED <<lock, deleting, damaged, condemned>>
        /\ pc' = pc \/ Goto(p, "move_runtime")
    BY <1>3 DEF RemoveRuntime, local, spoilt
  <2>3. PICK where \in {"remove_runtime", "move_runtime"} : Goto(p, where) /\ pc'[p] = where
    BY <1>1, <1>3, <2>2 DEF RemoveRuntime, Goto, IInv, LockInv
  <2>4. /\ DiskOK'
        /\ \A f \in Parts \ {"runtime"} : files'["current"][f] = files["current"][f]
    BY <1>1, <1>2, <2>1, <2>2 DEF IInv, DiskOK
  <2>5. OnlyDamageSpoils'
    BY <1>1, <2>2, <2>4 DEF IInv, OnlyDamageSpoils
  <2>6. PromoteInv(p)' /\ RepairInv(p)' /\ deleting' \in [Setups -> BOOLEAN]
    BY <1>1, <2>2, <2>3 DEF PromoteInv, RepairInv, IInv, LockInv
  <2>7. where \in Steps \cup {"idle"}
    BY StepNames
  <2> QED BY <1>1, <2>2, <2>3, <2>4, <2>5, <2>6, <2>7, SetupIInv
<1>4. CASE MoveRuntime(p) /\ Return(p) /\ UNCHANGED disk
  BY <1>1, <1>4, ReturnIInv
<1>5. CASE MoveRuntime(p) /\ ~(Return(p) /\ UNCHANGED disk)
  <2>1. /\ files' = [files EXCEPT !["current"]["runtime"] = files["recovery"]["runtime"],
                                  !["recovery"]["runtime"] = "none"]
        /\ Goto(p, "drop_recovery") /\ UNCHANGED <<lock, deleting>>
        /\ \/ /\ files["recovery"]["runtime"] = "good"
              /\ damaged' = damaged \ {"runtime"} /\ condemned' = condemned \ {"runtime"}
           \/ damaged' = damaged /\ condemned' = condemned
    BY <1>5 DEF MoveRuntime
  <2>2. files["recovery"]["runtime"] \in Content
    BY <1>2 DEF IInv, DiskOK
  <2>3. /\ DiskOK'
        /\ \A f \in Parts \ {"runtime"} : files'["current"][f] = files["current"][f]
        /\ files'["current"]["runtime"] = files["recovery"]["runtime"]
    BY <1>1, <1>2, <2>1, <2>2 DEF IInv, DiskOK
  <2>4. OnlyDamageSpoils'
    BY <1>1, <2>1, <2>3 DEF IInv, OnlyDamageSpoils
  <2>5. pc'[p] = "drop_recovery" /\ "drop_recovery" \in Steps \cup {"idle"}
    BY <2>1, StepNames DEF Goto, IInv, LockInv
  <2>6. PromoteInv(p)' /\ RepairInv(p)' /\ deleting' \in [Setups -> BOOLEAN]
    BY <2>1, <2>5 DEF PromoteInv, RepairInv, IInv, LockInv
  <2> QED BY <1>1, <2>1, <2>3, <2>4, <2>5, <2>6, SetupIInv
<1> QED BY <1>3, <1>4, <1>5

LEMMA CrashIInv ==
    ASSUME IInv, NEW p \in Setups, Crash(p)
    PROVE  IInv'
<1>1. /\ Goto(p, "idle") /\ deleting' = [deleting EXCEPT ![p] = FALSE]
      /\ lock' = (IF lock = p THEN Nobody ELSE lock) /\ UNCHANGED <<present, spoilt>>
      /\ damaged' = damaged /\ condemned' = condemned
  BY DEF Crash, spoilt
<1>2. CASE UNCHANGED files
  BY <1>1, <1>2, CallIInv DEF disk, spoilt
<1>3. CASE /\ pc[p] \in DOMAIN Writes
           /\ Put(Writes[pc[p]][1], Writes[pc[p]][2], "bad")
  <2> DEFINE d == Writes[pc[p]][1]
  <2> DEFINE f == Writes[pc[p]][2]
  <2>1. d \in Dirs \ {"current"} /\ f \in Parts /\ files' = [files EXCEPT ![d][f] = "bad"]
    BY <1>3, WritesTable DEF Put, Dirs
  <2>2. DiskOK' /\ files'["current"] = files["current"]
    <3>1. "bad" \in Content /\ "current" \in Dirs
      BY DEF Content, Dirs
    <3> HIDE DEF d, f
    <3> QED BY <1>1, <2>1, <3>1 DEF IInv, DiskOK
  <2>3. lock = p
    BY <1>3, WritesTable, StepNames DEF IInv, LockInv
  <2>4. OnlyDamageSpoils'
    BY <1>1, <2>2 DEF IInv, OnlyDamageSpoils
  <2>5. pc'[p] = "idle" /\ "idle" \in Steps \cup {"idle"} /\ "idle" \notin Steps
    BY <1>1, StepNames DEF Goto, IInv, LockInv
  <2>6. /\ PromoteInv(p)' /\ RepairInv(p)' /\ ~deleting'[p]
        /\ deleting' \in [Setups -> BOOLEAN]
        /\ \A q \in Setups \ {p} : deleting'[q] = deleting[q]
    BY <1>1, <2>5 DEF PromoteInv, RepairInv, IInv, LockInv
  <2> QED BY <1>1, <2>2, <2>3, <2>4, <2>5, <2>6, SetupIInv
<1> QED BY <1>2, <1>3 DEF Crash

\* Damage finds nothing at `current` while a promotion is between its renames.
LEMMA DamageIInv ==
    ASSUME IInv, Damage
    PROVE  IInv'
<1>1. PICK f \in Parts, content \in {"none", "bad"} :
          /\ files' = [files EXCEPT !["current"][f] = content]
          /\ damaged' = damaged \cup {f}
  BY DEF Damage, Put
<1>2. "current" \in present /\ UNCHANGED <<present, condemned, lock, pc, deleting>>
  BY DEF Damage, local
<1>3. "current" \in Dirs /\ "staging" \in Dirs /\ content \in Content
  BY DEF Dirs, Content
<1>4. /\ DiskOK' /\ files'["staging"] = files["staging"]
      /\ \A g \in Parts \ {f} : files'["current"][g] = files["current"][g]
  BY <1>1, <1>2, <1>3 DEF IInv, DiskOK
<1>5. OnlyDamageSpoils'
  BY <1>1, <1>2, <1>4 DEF IInv, OnlyDamageSpoils
<1>6. LockInv'
  BY <1>2 DEF IInv, LockInv
<1>7. ASSUME NEW p \in Setups PROVE PromoteInv(p)' /\ RepairInv(p)'
  BY <1>1, <1>2, <1>4 DEF IInv, PromoteInv, RepairInv, Intact
<1> QED BY <1>4, <1>5, <1>6, <1>7 DEF IInv

LEMMA DiskStays ==
    ASSUME IInv, UNCHANGED <<disk, lock, pc, local>>
    PROVE  IInv'
<1>1. DiskOK' /\ LockInv' /\ OnlyDamageSpoils'
  BY DEF disk, spoilt, local, IInv, DiskOK, LockInv, OnlyDamageSpoils
<1>2. ASSUME NEW p \in Setups PROVE PromoteInv(p)' /\ RepairInv(p)'
  BY DEF disk, spoilt, IInv, PromoteInv, RepairInv, Intact, Steady
<1> QED BY <1>1, <1>2 DEF IInv

LEMMA StartIInv ==
    ASSUME IInv, NEW p \in Setups, NEW m \in {"online", "offline"}, Start(p, m)
    PROVE  IInv'
<1>1. /\ Goto(p, "lock") /\ UNCHANGED <<disk, lock, deleting>> /\ ~deleting[p]
  BY StepNames, RemovalsTable DEF Start, IInv, LockInv
<1> QED BY <1>1, CallIInv

LEMMA StepModes ==
    ASSUME Modes, [Next]_vars
    PROVE  Modes'
<1>1. UNCHANGED mode \/ \E p \in Setups, m \in {"online", "offline"} : mode' = [mode EXCEPT ![p] = m]
  BY DEF Next, Start, SetupStep, Lock, VerifyCurrent, Remove, RemoveEntry, RemoveDirectory,
         Create, Write, ExtractFails, VerifyStaging, RetireCurrent, Install, VerifyInstalled,
         RemoveRuntime, MoveRuntime, DownloadFails, InstallFails, Crash, Damage, ReadBegin,
         ReadPart, ReadPaths, VerifyMisread, RemoveOverlooked, Rebuild, vars, local
<1> QED BY <1>1 DEF Modes

LEMMA StepIInv ==
    ASSUME IInv, [Next]_vars
    PROVE  IInv'
<1>1. ASSUME NEW p \in Setups, SetupStep(p) PROVE IInv'
  BY <1>1, VerifyIInv, RemoveIInv, DeleteIInv, CreateIInv, WriteIInv, FailsIInv,
     RetireIInv, InstallIInv, RepairIInv DEF SetupStep
<1>2. ASSUME NEW p \in Setups,
             \/ DownloadFails(p) \/ InstallFails(p) \/ Crash(p)
             \/ VerifyMisread(p) \/ RemoveOverlooked(p)
      PROVE  IInv'
  BY <1>2, FailsIInv, InstallIInv, CrashIInv, VerifyIInv, RemoveIInv
<1>3. ASSUME NEW r \in Readers, ReadBegin(r) \/ ReadPart(r) \/ ReadPaths(r) PROVE IInv'
  BY <1>3, DiskStays DEF ReadBegin, ReadPart, ReadPaths
<1>4. CASE UNCHANGED vars
  BY <1>4, DiskStays DEF vars
<1> QED BY <1>1, <1>2, <1>3, <1>4, StartIInv, DamageIInv DEF Next

-----------------------------------------------------------------------------
\* What stands at `current` is complete but for what outside damage has spoilt
\* and what setup condemned by a read error it did not notice, whatever crashes
\* and however many setups run: setup never puts anything there that it has not
\* verified, and takes no other part of it away.
THEOREM SetupNeverSpoils == Spec => []OnlyDamageSpoils
<1>1. Init => IInv
  BY InitIInv
<1>2. IInv /\ [Next]_vars => IInv'
  BY StepIInv
<1>3. IInv => OnlyDamageSpoils
  BY DEF IInv
<1> QED BY <1>1, <1>2, <1>3, PTL DEF Spec

-----------------------------------------------------------------------------
(* The servers that read without the lock.  What a reader relies on is that *)
(* a part it has found good stays good at `current`, although `current`     *)
(* itself may be another directory by then: a setup replaces or repairs     *)
(* only an installation that it has seen to be spoilt, so that a reader who *)
(* gets to the end has seen the last part of one that nobody will touch --  *)
(* but for a setup that could not read it, and then condemns some part.     *)

Shape == \A d \in Dirs \ present : files[d] = Empty

Counts == [crashes : 0 .. MaxCrashes, failures : 0 .. MaxFailures,
           damage : 0 .. MaxDamage, offline : 0 .. MaxOffline,
           misreads : 0 .. MaxMisreads]

Books ==
    /\ lock \in Setups \cup {Nobody}
    /\ reader \in [Readers -> {"idle", "reading", "resolved", "failed"}]
    /\ at \in [Readers -> 1 .. Len(Checked) + 1]
    /\ since \in [Readers -> 0 .. MaxDamage]
    /\ spent \in Counts
    /\ \A r \in Readers : since[r] <= spent.damage /\ (reader[r] = "idle" => at[r] = 1)

Filling == {"mark_staging", "fetch_archive", "fetch_model", "extract", "write_state",
            "verify_staging"}
Building == Filling \cup {"clear_staging", "create_staging", "clear_previous",
                          "retire_current", "install"}
Recovering == {"mark_recovery", "extract_recovery", "remove_runtime", "move_runtime"}
Repairing == Recovering \cup {"clear_recovery", "create_recovery"}

\* The directory a setup works in exists, and what it is about to replace or
\* repair needs that, or is condemned.
PlaceInv(p) ==
    /\ pc[p] \in Filling => "staging" \in present
    /\ pc[p] \in Recovering => "recovery" \in present
    /\ pc[p] \in Building => ~Intact("current") \/ condemned # {}
    /\ pc[p] \in Repairing =>
          /\ "current" \in present
          /\ files["current"]["runtime"] # "good" \/ "runtime" \in condemned

\* f is good at `current`, or will be when a directory is moved there, unless it
\* is condemned.
Held(f) ==
    f \notin condemned =>
        /\ "current" \in present => files["current"][f] = "good"
        /\ \A p \in Setups :
              pc[p] = "install" /\ "previous" \in present => files["previous"][f] = "good"

\* The parts that r has found good.
Seen(r) == IF reader[r] = "resolved" THEN Parts ELSE {Checked[i] : i \in 1 .. at[r] - 1}

ReaderInv(r) ==
    reader[r] \in {"reading", "resolved"} /\ spent.damage = since[r] =>
        /\ \A f \in Seen(r) : Held(f)
        /\ reader[r] = "resolved" => "current" \in present \/ condemned # {}

RInv ==
    /\ Shape /\ Books
    /\ \A p \in Setups : PlaceInv(p)
    /\ \A r \in Readers : ReaderInv(r)

LEMMA CheckedParts == Len(Checked) = 5 /\ \A i \in 1 .. 5 : Checked[i] \in Parts
  BY DEF Checked, Parts

\* All parts have been read by the time the fifth has.
LEMMA CheckedAll == \A f \in Parts : \E i \in 1 .. 5 : Checked[i] = f
<1>1. /\ Checked[1] = "marker" /\ Checked[2] = "state" /\ Checked[3] = "archive"
      /\ Checked[4] = "model" /\ Checked[5] = "runtime"
  BY DEF Checked
<1> QED BY <1>1 DEF Parts

LEMMA InitRInv == Init => RInv
<1> SUFFICES ASSUME Init PROVE RInv
  OBVIOUS
<1>1. Shape /\ \A p \in Setups : PlaceInv(p)
  BY DEF Init, Shape, PlaceInv, Filling, Building, Recovering, Repairing
<1>2. Books
  <2>1. 1 \in 1 .. Len(Checked) + 1 /\ 0 \in 0 .. MaxDamage
    BY CheckedParts, BoundsOK
  <2> QED BY <2>1, BoundsOK DEF Init, Books, Counts
<1>3. \A r \in Readers : ReaderInv(r)
  BY DEF Init, ReaderInv
<1> QED BY <1>1, <1>2, <1>3 DEF RInv

-----------------------------------------------------------------------------
(* The books: what is counted, and who reads where *)

LEMMA SpendBooks ==
    ASSUME Books,
           \/ Spend("crashes", MaxCrashes) \/ Spend("failures", MaxFailures)
           \/ Spend("offline", MaxOffline) \/ Spend("misreads", MaxMisreads)
    PROVE  spent' \in Counts /\ spent'.damage = spent.damage
<1> spent \in Counts
  BY DEF Books
<1>1. {MaxCrashes, MaxFailures, MaxOffline, MaxMisreads} \subseteq Nat
  BY BoundsOK
<1>2. /\ spent.crashes \in 0 .. MaxCrashes /\ spent.failures \in 0 .. MaxFailures
      /\ spent.offline \in 0 .. MaxOffline /\ spent.misreads \in 0 .. MaxMisreads
  BY DEF Counts
<1>3. CASE Spend("crashes", MaxCrashes)
  <2>1. spent' = [spent EXCEPT !.crashes = @ + 1] /\ spent.crashes < MaxCrashes
    BY <1>3 DEF Spend
  <2>2. spent.crashes + 1 \in 0 .. MaxCrashes
    BY <1>1, <1>2, <2>1
  <2> QED BY <2>1, <2>2 DEF Counts
<1>4. CASE Spend("failures", MaxFailures)
  <2>1. spent' = [spent EXCEPT !.failures = @ + 1] /\ spent.failures < MaxFailures
    BY <1>4 DEF Spend
  <2>2. spent.failures + 1 \in 0 .. MaxFailures
    BY <1>1, <1>2, <2>1
  <2> QED BY <2>1, <2>2 DEF Counts
<1>5. CASE Spend("offline", MaxOffline)
  <2>1. spent' = [spent EXCEPT !.offline = @ + 1] /\ spent.offline < MaxOffline
    BY <1>5 DEF Spend
  <2>2. spent.offline + 1 \in 0 .. MaxOffline
    BY <1>1, <1>2, <2>1
  <2> QED BY <2>1, <2>2 DEF Counts
<1>6. CASE Spend("misreads", MaxMisreads)
  <2>1. spent' = [spent EXCEPT !.misreads = @ + 1] /\ spent.misreads < MaxMisreads
    BY <1>6 DEF Spend
  <2>2. spent.misreads + 1 \in 0 .. MaxMisreads
    BY <1>1, <1>2, <2>1
  <2> QED BY <2>1, <2>2 DEF Counts
<1> QED BY <1>3, <1>4, <1>5, <1>6

\* What every step of a setup leaves alone.
LEMMA SetupBooks ==
    ASSUME Books, NEW p \in Setups,
           \/ SetupStep(p) \/ DownloadFails(p) \/ InstallFails(p) \/ Crash(p)
           \/ VerifyMisread(p) \/ RemoveOverlooked(p)
           \/ \E m \in {"online", "offline"} : Start(p, m)
    PROVE  Books' /\ UNCHANGED serving /\ spent'.damage = spent.damage
<1>1. UNCHANGED serving
  BY DEF SetupStep, Start, Lock, VerifyCurrent, VerifyMisread, Rebuild, Remove,
         RemoveOverlooked, RemoveEntry, RemoveDirectory, Create, Write, ExtractFails,
         VerifyStaging, RetireCurrent, Install, VerifyInstalled, RemoveRuntime,
         MoveRuntime, DownloadFails, InstallFails, Crash
<1>2. lock' \in {lock, p, Nobody}
  BY DEF SetupStep, Start, Lock, VerifyCurrent, VerifyMisread, Rebuild, Remove,
         RemoveOverlooked, RemoveEntry, RemoveDirectory, Create, Write, ExtractFails,
         VerifyStaging, RetireCurrent, Install, VerifyInstalled, RemoveRuntime,
         MoveRuntime, DownloadFails, InstallFails, Crash, Return
<1>3. \/ UNCHANGED spent
      \/ Spend("crashes", MaxCrashes) \/ Spend("failures", MaxFailures)
      \/ Spend("offline", MaxOffline) \/ Spend("misreads", MaxMisreads)
  BY DEF SetupStep, Start, Lock, VerifyCurrent, VerifyMisread, Rebuild, Remove,
         RemoveOverlooked, RemoveEntry, RemoveDirectory, Create, Write, ExtractFails,
         VerifyStaging, RetireCurrent, Install, VerifyInstalled, RemoveRuntime,
         MoveRuntime, DownloadFails, InstallFails, Crash
<1>4. spent' \in Counts /\ spent'.damage = spent.damage
  BY <1>3, SpendBooks DEF Books
<1> QED BY <1>1, <1>2, <1>4 DEF Books, serving

-----------------------------------------------------------------------------
(* Steps of setup *)

\* A step of p, alone, that keeps good at `current` what is.
LEMMA SetupRInv ==
    ASSUME IInv, RInv, NEW p \in Setups, lock = p \/ lock = Nobody,
           \A q \in Setups \ {p} : pc'[q] = pc[q],
           Books', UNCHANGED serving, spent'.damage = spent.damage,
           Shape', PlaceInv(p)',
           \A f \in Parts : Held(f) => Held(f)',
           Intact("current") \/ condemned # {} => "current" \in present' \/ condemned' # {}
    PROVE  RInv'
<1>1. ASSUME NEW q \in Setups \ {p} PROVE PlaceInv(q)'
  <2>1. pc'[q] \in {"idle", "lock"}
    BY OthersAreOut
  <2> QED BY <2>1 DEF PlaceInv, Filling, Building, Recovering, Repairing
<1>2. ASSUME NEW r \in Readers PROVE ReaderInv(r)'
  <2> SUFFICES ASSUME reader[r] \in {"reading", "resolved"}, spent.damage = since[r]
               PROVE  /\ \A f \in Seen(r) : Held(f)'
                      /\ reader[r] = "resolved" => "current" \in present' \/ condemned' # {}
    BY DEF ReaderInv, Seen, serving
  <2>1. Seen(r) \subseteq Parts
    BY CheckedParts DEF Seen, RInv, Books
  <2>2. \A f \in Seen(r) : Held(f)'
    BY <2>1 DEF RInv, ReaderInv
  <2>3. reader[r] = "resolved" => Intact("current") \/ condemned # {}
    BY DEF RInv, ReaderInv, Seen, Held, Intact
  <2> QED BY <2>2, <2>3
<1> QED BY <1>1, <1>2 DEF RInv

\* What is at `current` stays, and p is not between the renames of a promotion.
LEMMA ElsewhereRInv ==
    ASSUME IInv, RInv, NEW p \in Setups, lock = p \/ lock = Nobody,
           \A q \in Setups \ {p} : pc'[q] = pc[q], pc'[p] # "install",
           Books', UNCHANGED serving, spent'.damage = spent.damage,
           Shape', PlaceInv(p)', condemned \subseteq condemned',
           files'["current"] = files["current"],
           "current" \in present' <=> "current" \in present
    PROVE  RInv'
<1>1. ASSUME NEW q \in Setups PROVE pc'[q] # "install"
  BY OthersAreOut
<1>2. \A f \in Parts : Held(f) => Held(f)'
  BY <1>1 DEF Held
<1>3. Intact("current") \/ condemned # {} => "current" \in present' \/ condemned' # {}
  BY DEF Intact
<1> QED BY <1>2, <1>3, SetupRInv

\* Nothing moves on disk.
LEMMA DiskStaysRInv ==
    ASSUME IInv, RInv, NEW p \in Setups, lock = p \/ lock = Nobody,
           NEW where \in Steps \cup {"idle"}, where # "install", Goto(p, where),
           UNCHANGED <<present, files>>, condemned \subseteq condemned',
           Books', UNCHANGED serving, spent'.damage = spent.damage,
           where \in Filling => pc[p] \in Filling,
           where \in Recovering => pc[p] \in Recovering,
           where \in Building => ~Intact("current") \/ condemned' # {},
           where \in Repairing =>
               /\ "current" \in present
               /\ files["current"]["runtime"] # "good" \/ "runtime" \in condemned'
    PROVE  RInv'
<1>1. pc'[p] = where /\ \A q \in Setups \ {p} : pc'[q] = pc[q]
  BY DEF Goto, IInv, LockInv
<1>2. Shape'
  BY DEF RInv, Shape
<1>3. PlaceInv(p)'
  BY <1>1 DEF RInv, PlaceInv, Intact
<1> QED BY <1>1, <1>2, <1>3, ElsewhereRInv

\* setup ends, and leaves what is at `current`.
LEMMA IdleRInv ==
    ASSUME IInv, RInv, NEW p \in Setups, lock = p \/ lock = Nobody,
           NEW where \in {"idle", "lock"}, Goto(p, where), Shape',
           Books', UNCHANGED serving, spent'.damage = spent.damage,
           files'["current"] = files["current"], UNCHANGED <<present, condemned>>
    PROVE  RInv'
<1>1. pc'[p] = where /\ \A q \in Setups \ {p} : pc'[q] = pc[q]
  BY StepNames DEF Goto, IInv, LockInv
<1>2. PlaceInv(p)'
  BY <1>1 DEF PlaceInv, Filling, Building, Recovering, Repairing
<1> QED BY <1>1, <1>2, ElsewhereRInv

-----------------------------------------------------------------------------
(* One lemma per group of actions, as above *)

\* What is used of the tables of steps.
LEMMA PlaceTable ==
    /\ \A s \in DOMAIN Removals :
          /\ s \in Building => s \in {"clear_staging", "clear_previous"}
          /\ s \in Repairing => s = "clear_recovery"
          /\ s \notin Filling \cup Recovering
          /\ Removals[s][2] \in Building => s \in Building
          /\ Removals[s][2] \in Repairing => s \in Repairing
          /\ Removals[s][2] \notin Filling \cup Recovering
          /\ Removals[s][2] # "install"
    /\ \A s \in DOMAIN Creations :
          /\ Creations[s][2] \in Building => s \in Building
          /\ Creations[s][2] \in Repairing => s \in Repairing
          /\ Creations[s][2] \in Filling => Creations[s][1] = "staging"
          /\ Creations[s][2] \in Recovering => Creations[s][1] = "recovery"
          /\ Creations[s][2] # "install"
    /\ \A s \in DOMAIN Writes :
          /\ s \in Filling => Writes[s][1] = "staging" /\ Writes[s][3] \notin Repairing
          /\ s \in Recovering => Writes[s][1] = "recovery" /\ Writes[s][3] \notin Building
          /\ s \in Filling \cup Recovering
          /\ Writes[s][3] # "install"
  BY DEF Removals, Creations, Writes, Filling, Building, Recovering, Repairing

LEMMA VerifyRInv ==
    ASSUME IInv, RInv, NEW p \in Setups, Books', UNCHANGED serving,
           spent'.damage = spent.damage,
           \/ Lock(p) \/ VerifyCurrent(p) \/ VerifyMisread(p)
           \/ VerifyStaging(p) \/ VerifyInstalled(p)
    PROVE  RInv'
<1>1. UNCHANGED <<present, files>> /\ Shape'
  BY DEF Lock, VerifyCurrent, VerifyMisread, Rebuild, VerifyStaging, VerifyInstalled,
         disk, RInv, Shape
<1>2. CASE Lock(p)
  <2>1. /\ Goto(p, "verify") /\ lock = Nobody /\ "verify" \in Steps \cup {"idle"}
        /\ condemned' = condemned
    BY <1>2, StepNames DEF Lock, disk, spoilt
  <2> QED BY <1>1, <2>1, DiskStaysRInv DEF Filling, Building, Recovering, Repairing
<1>3. CASE VerifyCurrent(p) \/ VerifyMisread(p)
  <2>1. lock = p /\ {"clear_staging", "clear_recovery"} \subseteq Steps \cup {"idle"}
    BY <1>3, StepNames DEF VerifyCurrent, VerifyMisread, IInv, LockInv
  <2>2. CASE Return(p) /\ condemned' = condemned
    BY <1>1, <2>1, <2>2, IdleRInv DEF Return
  <2>3. CASE Return(p) /\ Intact("current") /\ condemned' = {}
    <3>1. pc'[p] = "idle" /\ \A q \in Setups \ {p} : pc'[q] = pc[q]
      BY <2>3 DEF Return, Goto, IInv, LockInv
    <3>2. PlaceInv(p)'
      BY <3>1 DEF PlaceInv, Filling, Building, Recovering, Repairing
    <3>3. \A q \in Setups : pc'[q] # "install"
      BY <2>1, <3>1, OthersAreOut
    <3>4. \A f \in Parts : Held(f)'
      BY <1>1, <2>3, <3>3 DEF Held, Intact
    <3>5. "current" \in present'
      BY <1>1, <2>3 DEF Intact
    <3> QED BY <1>1, <2>1, <3>1, <3>2, <3>4, <3>5, SetupRInv
  <2>4. CASE /\ Goto(p, "clear_staging") \/ (Goto(p, "clear_recovery") /\ "current" \in present)
             /\ \/ condemned' = condemned \cup {"runtime"}
                \/ /\ condemned' = condemned /\ ~Intact("current")
                   /\ Goto(p, "clear_staging") \/ files["current"]["runtime"] # "good"
    BY <1>1, <2>1, <2>4, DiskStaysRInv DEF Filling, Building, Recovering, Repairing
  <2>5. CASE VerifyMisread(p)
    BY <2>4, <2>5 DEF VerifyMisread, Rebuild, Intact
  <2>6. CASE VerifyCurrent(p)
    BY <2>2, <2>3, <2>4, <2>6
       DEF VerifyCurrent, Rebuild, Repairable, Intact, disk, spoilt
  <2> QED BY <1>3, <2>5, <2>6
<1>4. CASE VerifyStaging(p) \/ VerifyInstalled(p)
  <2>1. lock = p /\ condemned' = condemned /\ "clear_previous" \in Steps \cup {"idle"}
    BY <1>4, StepNames DEF VerifyStaging, VerifyInstalled, disk, spoilt, IInv, LockInv
  <2>2. CASE Return(p)
    BY <1>1, <2>1, <2>2, IdleRInv DEF Return
  <2>3. CASE VerifyStaging(p) /\ ~Return(p)
    <3>1. Goto(p, "clear_previous") /\ (~Intact("current") \/ condemned # {})
      BY <2>3 DEF VerifyStaging, RInv, PlaceInv, Filling, Building
    <3> QED BY <1>1, <2>1, <3>1, DiskStaysRInv DEF Filling, Building, Recovering, Repairing
  <2> QED BY <1>4, <2>2, <2>3 DEF VerifyInstalled
<1> QED BY <1>2, <1>3, <1>4

LEMMA RemoveRInv ==
    ASSUME IInv, RInv, NEW p \in Setups, Books', UNCHANGED serving,
           spent'.damage = spent.damage,
           \/ Remove(p) \/ RemoveOverlooked(p)
           \/ RemoveEntry(p) \/ RemoveDirectory(p)
    PROVE  RInv'
<1> DEFINE d == Removals[pc[p]][1]
<1> DEFINE next == Removals[pc[p]][2]
<1>1. /\ pc[p] \in DOMAIN Removals /\ lock = p /\ next \in Steps \cup {"idle"}
      /\ d \in Dirs \ {"current"} /\ pc[p] # "install" /\ pc[p] \in Steps
      /\ pc[p] \in Building => d # "current"
  BY StepNames, RemovalsTable
     DEF Remove, RemoveOverlooked, RemoveEntry, RemoveDirectory, IInv, LockInv, Dirs
<1>2. /\ pc[p] \in Building => ~Intact("current") \/ condemned # {}
      /\ pc[p] \in Repairing =>
            /\ "current" \in present
            /\ files["current"]["runtime"] # "good" \/ "runtime" \in condemned
      /\ condemned \subseteq condemned'
  BY DEF RInv, PlaceInv, Remove, RemoveOverlooked, RemoveEntry, RemoveDirectory,
         disk, spoilt, IInv, DiskOK
<1>3. CASE Remove(p) \/ RemoveOverlooked(p)
  <2>1. UNCHANGED <<present, files>> /\ Shape'
    BY <1>3 DEF Remove, RemoveOverlooked, disk, spoilt, RInv, Shape
  <2>2. Goto(p, pc[p]) \/ Goto(p, next) \/ (Goto(p, "idle") /\ condemned' = condemned)
    BY <1>3 DEF Remove, RemoveOverlooked, disk, spoilt, Return, Goto, IInv, LockInv
  <2>3. CASE Goto(p, "idle") /\ condemned' = condemned
    BY <1>1, <2>1, <2>3, IdleRInv
  <2>4. CASE Goto(p, pc[p])
    BY <1>1, <1>2, <2>1, <2>4, DiskStaysRInv
  <2>5. CASE Goto(p, next)
    <3>1. /\ next \notin Filling \cup Recovering /\ next # "install"
          /\ next \in Building => pc[p] \in Building
          /\ next \in Repairing => pc[p] \in Repairing
      BY <1>1, PlaceTable
    <3> HIDE DEF next
    <3> QED BY <1>1, <1>2, <2>1, <2>5, <3>1, DiskStaysRInv
  <2> QED BY <2>2, <2>3, <2>4, <2>5
<1>4. CASE RemoveEntry(p)
  <2>1. PICK f \in Parts :
            files[d][f] # "none" /\ files' = [files EXCEPT ![d][f] = "none"]
    BY <1>4 DEF RemoveEntry, Put
  <2>2. d \in present
    BY <1>1, <2>1 DEF RInv, Shape, Empty
  <2>3. UNCHANGED <<present, pc, condemned>>
    BY <1>4 DEF RemoveEntry, spoilt
  <2>4. \A e \in Dirs \ {d} : files'[e] = files[e]
    BY <2>1 DEF IInv, DiskOK
  <2>5. Shape' /\ files'["current"] = files["current"]
    BY <1>1, <2>2, <2>3, <2>4 DEF RInv, Shape, Dirs
  <2>6. PlaceInv(p)'
    BY <2>3, <2>5 DEF RInv, PlaceInv, Intact
  <2> QED BY <1>1, <1>2, <2>3, <2>5, <2>6, ElsewhereRInv
<1>5. CASE RemoveDirectory(p)
  <2>1. /\ Goto(p, next) /\ files' = files /\ files[d] = Empty /\ present' = present \ {d}
    BY <1>5 DEF RemoveDirectory
  <2>2. pc'[p] = next /\ \A q \in Setups \ {p} : pc'[q] = pc[q]
    BY <2>1 DEF Goto, IInv, LockInv
  <2>3. Shape'
    BY <2>1 DEF RInv, Shape
  <2>4. /\ next \notin Filling \cup Recovering /\ next # "install"
        /\ next \in Building => pc[p] \in Building
        /\ next \in Repairing => pc[p] \in Repairing
    BY <1>1, PlaceTable
  <2> HIDE DEF next, d
  <2>5. PlaceInv(p)'
    BY <1>1, <1>2, <2>1, <2>2, <2>4 DEF PlaceInv, Intact
  <2> QED BY <1>1, <1>2, <2>1, <2>2, <2>3, <2>4, <2>5, ElsewhereRInv
<1> QED BY <1>3, <1>4, <1>5

LEMMA CreateRInv ==
    ASSUME IInv, RInv, NEW p \in Setups, Books', UNCHANGED serving,
           spent'.damage = spent.damage, Create(p)
    PROVE  RInv'
<1> DEFINE d == Creations[pc[p]][1]
<1> DEFINE next == Creations[pc[p]][2]
<1>1. /\ pc[p] \in DOMAIN Creations /\ lock = p /\ d \in Dirs \ {"current"}
      /\ UNCHANGED <<files, condemned>>
  BY StepNames, CreationsTable DEF Create, spoilt, IInv, LockInv, Dirs
<1>2. CASE Return(p) /\ UNCHANGED present
  <2>1. Shape' /\ Goto(p, "idle")
    BY <1>1, <1>2 DEF RInv, Shape, Return
  <2> QED BY <1>1, <1>2, <2>1, IdleRInv
<1>3. CASE present' = present \cup {d} /\ Goto(p, next)
  <2>1. pc'[p] = next /\ \A q \in Setups \ {p} : pc'[q] = pc[q]
    BY <1>3 DEF Goto, IInv, LockInv
  <2>2. Shape'
    BY <1>1, <1>3 DEF RInv, Shape
  <2>3. /\ next \in Building => pc[p] \in Building
        /\ next \in Repairing => pc[p] \in Repairing
        /\ next \in Filling => d = "staging"
        /\ next \in Recovering => d = "recovery"
        /\ next # "install"
    BY <1>1, PlaceTable
  <2> HIDE DEF d, next
  <2>4. PlaceInv(p)'
    BY <1>1, <1>3, <2>1, <2>3 DEF RInv, PlaceInv, Intact
  <2> QED BY <1>1, <1>3, <2>1, <2>2, <2>3, <2>4, ElsewhereRInv
<1> QED BY <1>2, <1>3 DEF Create

LEMMA WriteRInv ==
    ASSUME IInv, RInv, NEW p \in Setups, Books', UNCHANGED serving,
           spent'.damage = spent.damage, Write(p)
    PROVE  RInv'
<1> DEFINE d == Writes[pc[p]][1]
<1> DEFINE next == Writes[pc[p]][3]
<1>1. /\ pc[p] \in DOMAIN Writes /\ lock = p /\ d \in Dirs \ {"current"}
      /\ UNCHANGED <<present, condemned>> /\ Goto(p, next)
  BY StepNames, WritesTable DEF Write, spoilt, IInv, LockInv, Dirs
<1>2. \A e \in Dirs \ {d} : files'[e] = files[e]
  BY DEF Write, Put, IInv, DiskOK
<1>3. pc'[p] = next /\ \A q \in Setups \ {p} : pc'[q] = pc[q]
  BY <1>1 DEF Goto, IInv, LockInv
<1>4. /\ pc[p] \in Filling => d = "staging" /\ next \notin Repairing
      /\ pc[p] \in Recovering => d = "recovery" /\ next \notin Building
      /\ pc[p] \in Filling \cup Recovering
      /\ next # "install"
  BY <1>1, PlaceTable
<1> HIDE DEF d, next
<1>5. d \in present
  BY <1>4 DEF RInv, PlaceInv
<1>6. Shape' /\ files'["current"] = files["current"]
  BY <1>1, <1>2, <1>5 DEF RInv, Shape, Dirs
<1>7. PlaceInv(p)'
  BY <1>1, <1>3, <1>4, <1>6 DEF RInv, PlaceInv, Intact, Building, Repairing
<1> QED BY <1>1, <1>3, <1>4, <1>6, <1>7, ElsewhereRInv

LEMMA FailsRInv ==
    ASSUME IInv, RInv, NEW p \in Setups, Books', UNCHANGED serving,
           spent'.damage = spent.damage, ExtractFails(p) \/ DownloadFails(p)
    PROVE  RInv'
<1>1. lock = p /\ Goto(p, "idle") /\ UNCHANGED <<present, files, condemned>>
  BY StepNames DEF ExtractFails, DownloadFails, Return, disk, spoilt, IInv, LockInv
<1>2. Shape'
  BY <1>1 DEF RInv, Shape
<1> QED BY <1>1, <1>2, IdleRInv

\* A torn entry is not at `current`.
LEMMA CrashRInv ==
    ASSUME IInv, RInv, NEW p \in Setups, Books', UNCHANGED serving,
           spent'.damage = spent.damage, Crash(p)
    PROVE  RInv'
<1>1. Goto(p, "idle") /\ UNCHANGED <<present, condemned>> /\ pc[p] # "idle"
  BY DEF Crash, spoilt
<1>2. CASE UNCHANGED files /\ lock \in {p, Nobody}
  <2>1. Shape'
    BY <1>1, <1>2 DEF RInv, Shape
  <2> QED BY <1>1, <1>2, <2>1, IdleRInv
<1>3. CASE UNCHANGED files /\ lock \notin {p, Nobody}
  <2>1. pc[p] = "lock"
    BY <1>1, <1>3, StepNames DEF IInv, LockInv
  <2>2. pc' = [pc EXCEPT ![p] = "idle"] /\ pc \in [Setups -> Steps \cup {"idle"}]
    BY <1>1 DEF Goto, IInv, LockInv
  <2>3. ASSUME NEW q \in Setups PROVE PlaceInv(q)'
    BY <1>1, <1>3, <2>2
       DEF RInv, PlaceInv, Intact, Filling, Building, Recovering, Repairing
  <2>4. \A f \in Parts : Held(f) => Held(f)'
    BY <1>1, <1>3, <2>2 DEF Held
  <2>5. \A r \in Readers : Seen(r) \subseteq Parts
    BY CheckedParts DEF Seen, RInv, Books
  <2>6. ASSUME NEW r \in Readers PROVE ReaderInv(r)'
    <3>1. ReaderInv(r) /\ Seen(r)' = Seen(r)
      BY DEF RInv, Seen, serving
    <3> QED BY <1>1, <2>4, <2>5, <3>1 DEF ReaderInv, serving
  <2>7. Shape'
    BY <1>1, <1>3 DEF RInv, Shape
  <2> QED BY <2>3, <2>6, <2>7 DEF RInv
<1>4. CASE /\ pc[p] \in DOMAIN Writes
           /\ Put(Writes[pc[p]][1], Writes[pc[p]][2], "bad")
  <2> DEFINE d == Writes[pc[p]][1]
  <2>1. lock = p /\ d \in Dirs \ {"current"}
    BY <1>4, StepNames, WritesTable DEF IInv, LockInv, Dirs
  <2>2. \A e \in Dirs \ {d} : files'[e] = files[e]
    BY <1>4 DEF Put, IInv, DiskOK
  <2>3. d \in present
    BY <1>4, PlaceTable DEF RInv, PlaceInv
  <2> HIDE DEF d
  <2>4. Shape' /\ files'["current"] = files["current"]
    BY <1>1, <2>1, <2>2, <2>3 DEF RInv, Shape, Dirs
  <2> QED BY <1>1, <2>1, <2>4, IdleRInv
<1> QED BY <1>2, <1>3, <1>4 DEF Crash

\* Only an installation that is not intact, or is condemned, is retired: no reader
\* has seen all of it, and what one has seen is still there if it is moved back.
LEMMA RetireRInv ==
    ASSUME IInv, RInv, NEW p \in Setups, Books', UNCHANGED serving,
           spent'.damage = spent.damage, RetireCurrent(p)
    PROVE  RInv'
<1>1. /\ pc[p] = "retire_current" /\ lock = p /\ Intact("staging")
      /\ ~Intact("current") \/ condemned # {}
      /\ "previous" \in present /\ "current" \notin present => condemned = Parts
      /\ UNCHANGED condemned
  BY StepNames
     DEF RetireCurrent, spoilt, IInv, LockInv, PromoteInv, RInv, PlaceInv, Building
<1>2. CASE Return(p) /\ UNCHANGED <<present, files>>
  <2>1. Shape' /\ Goto(p, "idle")
    BY <1>2 DEF RInv, Shape, Return
  <2> QED BY <1>1, <1>2, <2>1, IdleRInv
<1>3. CASE ~(Return(p) /\ UNCHANGED <<present, files>>)
  <2>1. pc'[p] = "install" /\ \A q \in Setups \ {p} : pc'[q] = pc[q]
    BY <1>3 DEF RetireCurrent, Goto, IInv, LockInv
  <2>2. \/ "current" \notin present /\ UNCHANGED <<present, files>>
        \/ "current" \in present /\ Rename("current", "previous")
    BY <1>3 DEF RetireCurrent
  <2>3. {"current", "previous", "staging"} \subseteq Dirs
    BY DEF Dirs
  <2>4. /\ "current" \notin present'
        /\ "previous" \in present' =>
              \/ "current" \in present /\ files'["previous"] = files["current"]
              \/ condemned = Parts
        /\ Shape' /\ "staging" \in present'
    <3>1. CASE "current" \notin present /\ UNCHANGED <<present, files>>
      BY <1>1, <3>1 DEF RInv, Shape, Intact
    <3>2. CASE "current" \in present /\ Rename("current", "previous")
      BY <1>1, <2>3, <3>2 DEF Rename, RInv, Shape, Intact, IInv, DiskOK
    <3> QED BY <2>2, <3>1, <3>2
  <2>5. \A q \in Setups : pc'[q] = "install" => q = p
    BY <1>1, <2>1, OthersAreOut
  <2>6. \A f \in Parts : Held(f) => Held(f)'
    BY <1>1, <2>4, <2>5 DEF Held
  <2>7. PlaceInv(p)'
    BY <2>1, <2>4 DEF PlaceInv, Intact, Filling, Recovering, Repairing
  <2> QED BY <1>1, <2>1, <2>4, <2>6, <2>7, SetupRInv
<1> QED BY <1>2, <1>3

\* What is installed is intact.  What is moved back has the parts it had.
LEMMA InstallRInv ==
    ASSUME IInv, RInv, NEW p \in Setups, Books', UNCHANGED serving,
           spent'.damage = spent.damage, Install(p) \/ InstallFails(p)
    PROVE  RInv'
<1>1. /\ pc[p] = "install" /\ lock = p /\ Intact("staging") /\ "current" \notin present
  BY StepNames DEF Install, InstallFails, IInv, LockInv, PromoteInv
<1>2. {"current", "previous", "staging"} \subseteq Dirs
  BY DEF Dirs
<1>3. /\ pc'[p] \in {"drop_previous", "idle"} /\ \A q \in Setups \ {p} : pc'[q] = pc[q]
  BY DEF Install, InstallFails, Return, Goto, IInv, LockInv
<1>4. PlaceInv(p)'
  BY <1>3 DEF PlaceInv, Filling, Building, Recovering, Repairing
<1>5. \A q \in Setups : pc'[q] # "install"
  BY <1>1, <1>3, OthersAreOut
<1>6. ~Intact("current")
  BY <1>1 DEF Intact
<1>7. /\ Shape'
      /\ \/ \A f \in Parts : files'["current"][f] = "good"
         \/ /\ condemned' = condemned
            /\ "current" \in present' =>
                  "previous" \in present /\ files'["current"] = files["previous"]
      /\ condemned' = condemned \/ "current" \in present'
  <2>1. CASE Install(p)
    BY <1>1, <1>2, <2>1 DEF Install, Rename, RInv, Shape, Intact, IInv, DiskOK
  <2>2. CASE UNCHANGED <<present, files, condemned>>
    BY <1>1, <2>2 DEF RInv, Shape
  <2>3. CASE "previous" \in present /\ Rename("previous", "current") /\ UNCHANGED condemned
    BY <1>1, <1>2, <2>3 DEF Rename, RInv, Shape, IInv, DiskOK
  <2> QED BY <2>1, <2>2, <2>3 DEF InstallFails, spoilt
<1>8. \A f \in Parts : Held(f) => Held(f)'
  BY <1>1, <1>5, <1>7 DEF Held
<1> QED BY <1>1, <1>3, <1>4, <1>6, <1>7, <1>8, SetupRInv

\* The runtime that a repair takes away has not been good since it began, or is
\* condemned.
LEMMA RepairRInv ==
    ASSUME IInv, RInv, NEW p \in Setups, Books', UNCHANGED serving,
           spent'.damage = spent.damage, RemoveRuntime(p) \/ MoveRuntime(p)
    PROVE  RInv'
<1>1. /\ pc[p] \in {"remove_runtime", "move_runtime"} /\ lock = p
      /\ "current" \in present /\ "recovery" \in present /\ UNCHANGED present
      /\ files["current"]["runtime"] # "good" \/ "runtime" \in condemned
  BY StepNames
     DEF RemoveRuntime, MoveRuntime, disk, IInv, LockInv, RInv, PlaceInv, Recovering, Repairing
<1>2. "current" \in Dirs /\ "recovery" \in Dirs /\ "runtime" \in Parts
  BY DEF Dirs, Parts
<1>3. CASE MoveRuntime(p) /\ Return(p) /\ UNCHANGED disk
  <2>1. Goto(p, "idle") /\ UNCHANGED <<present, files, condemned>> /\ Shape'
    BY <1>3 DEF Return, disk, spoilt, RInv, Shape
  <2> QED BY <1>1, <2>1, IdleRInv
<1>4. CASE ~(MoveRuntime(p) /\ Return(p) /\ UNCHANGED disk)
  <2>1. /\ \A d \in Dirs \ {"current", "recovery"} : files'[d] = files[d]
        /\ \A f \in Parts \ {"runtime"} : files'["current"][f] = files["current"][f]
    BY <1>2, <1>4 DEF RemoveRuntime, MoveRuntime, Put, IInv, DiskOK
  <2>2. \/ condemned' = condemned /\ (RemoveRuntime(p) => files'["current"]["runtime"] # "good")
        \/ /\ condemned' = condemned \ {"runtime"} /\ ~RemoveRuntime(p)
           /\ files'["current"]["runtime"] = "good"
    <3>1. CASE RemoveRuntime(p)
      BY <1>2, <3>1 DEF RemoveRuntime, Put, spoilt, IInv, DiskOK
    <3>2. CASE MoveRuntime(p)
      <4>1. /\ files' = [files EXCEPT !["current"]["runtime"] = files["recovery"]["runtime"],
                                      !["recovery"]["runtime"] = "none"]
            /\ IF files["recovery"]["runtime"] = "good"
               THEN condemned' = condemned \ {"runtime"} ELSE condemned' = condemned
        BY <1>4, <3>2 DEF MoveRuntime
      <4>2. files'["current"]["runtime"] = files["recovery"]["runtime"]
        BY <1>2, <4>1 DEF IInv, DiskOK
      <4>3. ~RemoveRuntime(p)
        BY <3>2 DEF MoveRuntime, RemoveRuntime
      <4> QED BY <4>1, <4>2, <4>3
    <3> QED BY <3>1, <3>2
  <2>3. /\ RemoveRuntime(p) => pc'[p] \in {"remove_runtime", "move_runtime"}
        /\ MoveRuntime(p) => pc'[p] = "drop_recovery"
        /\ \A q \in Setups \ {p} : pc'[q] = pc[q]
    BY <1>1, <1>4 DEF RemoveRuntime, MoveRuntime, Goto, IInv, LockInv
  <2>4. Shape'
    BY <1>1, <2>1 DEF RInv, Shape
  <2>5. PlaceInv(p)'
    <3>1. RemoveRuntime(p) => files'["current"]["runtime"] # "good" \/ "runtime" \in condemned'
      BY <2>2
    <3>2. pc'[p] \notin Filling \cup Building
      BY <2>3 DEF Filling, Building
    <3> QED BY <1>1, <2>3, <3>1, <3>2 DEF PlaceInv, Recovering, Repairing
  <2>6. \A q \in Setups : pc'[q] # "install"
    BY <1>1, <2>3, OthersAreOut
  <2>7. \A f \in Parts : Held(f) => Held(f)'
    <3> SUFFICES ASSUME NEW f \in Parts, Held(f), f \notin condemned'
                 PROVE  files'["current"][f] = "good"
      BY <2>6 DEF Held
    <3>1. CASE f # "runtime"
      BY <1>1, <2>1, <2>2, <3>1 DEF Held
    <3>2. CASE f = "runtime"
      BY <1>1, <2>2, <3>2 DEF Held
    <3> QED BY <3>1, <3>2
  <2> QED BY <1>1, <2>3, <2>4, <2>5, <2>7, SetupRInv
<1> QED BY <1>3, <1>4

LEMMA StartRInv ==
    ASSUME IInv, RInv, NEW p \in Setups, Books', UNCHANGED serving,
           spent'.damage = spent.damage, NEW m, Start(p, m)
    PROVE  RInv'
<1>1. /\ pc' = [pc EXCEPT ![p] = "lock"] /\ pc[p] = "idle"
      /\ UNCHANGED <<present, files, condemned>>
      /\ pc \in [Setups -> Steps \cup {"idle"}]
  BY DEF Start, Goto, disk, spoilt, IInv, LockInv
<1>2. ASSUME NEW q \in Setups PROVE PlaceInv(q)'
  BY <1>1 DEF RInv, PlaceInv, Intact, Filling, Building, Recovering, Repairing
<1>3. \A f \in Parts : Held(f) => Held(f)'
  BY <1>1 DEF Held
<1>4. ASSUME NEW r \in Readers PROVE ReaderInv(r)'
  <2>1. ReaderInv(r) /\ Seen(r)' = Seen(r) /\ Seen(r) \subseteq Parts
    BY CheckedParts DEF RInv, Seen, serving, Books
  <2> QED BY <1>1, <1>3, <2>1 DEF ReaderInv, serving
<1>5. Shape'
  BY <1>1 DEF RInv, Shape
<1> QED BY <1>2, <1>4, <1>5 DEF RInv

\* Damage releases every reader that has begun.
LEMMA DamageRInv ==
    ASSUME IInv, RInv, Damage
    PROVE  RInv'
<1>1. PICK f \in Parts, content \in {"none", "bad"} :
          files' = [files EXCEPT !["current"][f] = content]
  BY DEF Damage, Put
<1>2. /\ "current" \in present /\ "current" \in Dirs
      /\ UNCHANGED <<present, condemned, lock, pc, serving>>
  BY DEF Damage, Dirs
<1>3. spent' = [spent EXCEPT !["damage"] = @ + 1] /\ spent.damage < MaxDamage
  BY DEF Damage, Spend
<1>4. spent \in Counts /\ MaxDamage \in Nat /\ spent.damage \in 0 .. MaxDamage
  BY BoundsOK DEF RInv, Books, Counts
<1>5. spent' \in Counts /\ spent'.damage = spent.damage + 1
  <2>1. spent' = [spent EXCEPT !.damage = @ + 1]
    BY <1>3
  <2>2. spent.damage + 1 \in 0 .. MaxDamage
    BY <1>3, <1>4
  <2> QED BY <1>4, <2>1, <2>2 DEF Counts
<1>6. Books'
  BY <1>2, <1>4, <1>5 DEF RInv, Books, serving
<1>7. Shape' /\ \A g \in Parts : files'["current"][g] # "good" \/ files'["current"][g] = files["current"][g]
  BY <1>1, <1>2 DEF RInv, Shape, IInv, DiskOK
<1>8. ASSUME NEW p \in Setups PROVE PlaceInv(p)'
  <2>1. ~Intact("current") => ~Intact("current")'
    BY <1>2, <1>7 DEF Intact
  <2>2. files["current"]["runtime"] # "good" => files'["current"]["runtime"] # "good"
    BY <1>7 DEF Parts
  <2> QED BY <1>2, <2>1, <2>2 DEF RInv, PlaceInv
<1>9. ASSUME NEW r \in Readers PROVE ReaderInv(r)'
  <2>1. since'[r] = since[r] /\ since[r] <= spent.damage /\ since[r] \in 0 .. MaxDamage
    BY <1>2 DEF serving, RInv, Books
  <2> QED BY <1>4, <1>5, <2>1 DEF ReaderInv
<1> QED BY <1>6, <1>7, <1>8, <1>9 DEF RInv

-----------------------------------------------------------------------------
(* Steps of the readers *)

LEMMA ReaderRInv ==
    ASSUME IInv, RInv, NEW r \in Readers, ReadBegin(r) \/ ReadPart(r) \/ ReadPaths(r)
    PROVE  RInv'
<1>1. UNCHANGED <<disk, lock, pc, spent>>
  BY DEF ReadBegin, ReadPart, ReadPaths
<1>2. Shape' /\ \A p \in Setups : PlaceInv(p)'
  BY <1>1 DEF disk, spoilt, RInv, Shape, PlaceInv, Intact
<1>3. \A f : Held(f)' <=> Held(f)
  BY <1>1 DEF disk, spoilt, Held
<1>4. /\ reader[r] = "resolved" => FALSE
      /\ \A q \in Readers \ {r} : /\ reader'[q] = reader[q] /\ at'[q] = at[q]
                                  /\ since'[q] = since[q]
  BY DEF ReadBegin, ReadPart, ReadPaths, ReadEnds, RInv, Books
<1>5. Books'
  <2>1. Len(Checked) = 5 /\ spent.damage \in 0 .. MaxDamage /\ MaxDamage \in Nat
    BY CheckedParts, BoundsOK DEF RInv, Books, Counts
  <2> QED BY <1>1, <2>1 DEF ReadBegin, ReadPart, ReadPaths, ReadEnds, RInv, Books
<1>6. ASSUME NEW q \in Readers \ {r} PROVE ReaderInv(q)'
  BY <1>1, <1>3, <1>4 DEF disk, spoilt, RInv, ReaderInv, Seen
<1>7. ReaderInv(r)'
  <2>1. CASE ReadBegin(r)
    <3>1. reader'[r] = "reading"
      BY <2>1 DEF ReadBegin, RInv, Books
    <3>2. at'[r] = 1
      BY <2>1 DEF ReadBegin, RInv, Books
    <3> QED BY <3>1, <3>2 DEF ReaderInv, Seen
  <2>2. CASE ReadPart(r) /\ reader'[r] # "failed"
    <3>1. /\ reader[r] = "reading" /\ at[r] \in 1 .. 5 /\ UNCHANGED <<reader, since>>
          /\ files["current"][Checked[at[r]]] = "good" /\ at'[r] = at[r] + 1
      BY <2>2, CheckedParts DEF ReadPart, ReadEnds, RInv, Books
    <3>2. "current" \in present
      BY <3>1, CheckedParts DEF RInv, Shape, Empty, Dirs
    <3>3. Held(Checked[at[r]])
      BY <3>1, <3>2 DEF Held, IInv, PromoteInv
    <3>4. Seen(r)' = Seen(r) \cup {Checked[at[r]]}
      BY <3>1 DEF Seen
    <3> QED BY <1>1, <1>3, <3>1, <3>3, <3>4 DEF RInv, ReaderInv
  <2>3. CASE ReadPaths(r) /\ reader'[r] # "failed"
    <3>1. /\ reader[r] = "reading" /\ at[r] = 6 /\ reader'[r] = "resolved"
          /\ since'[r] = since[r] /\ files["current"]["state"] = "good"
      BY <2>3, CheckedParts DEF ReadPaths, ReadEnds, RInv, Books
    <3>2. "current" \in present
      BY <3>1 DEF RInv, Shape, Empty, Dirs, Parts
    <3>3. Seen(r) = {Checked[i] : i \in 1 .. 5}
      BY <3>1 DEF Seen
    <3>4. Seen(r) = Parts
      <4>1. Seen(r) \subseteq Parts
        BY <3>3, CheckedParts
      <4>2. Parts \subseteq Seen(r)
        BY <3>3, CheckedAll
      <4> QED BY <4>1, <4>2
    <3>5. Seen(r)' = Parts
      BY <3>1 DEF Seen
    <3> QED BY <1>1, <1>3, <3>1, <3>2, <3>4, <3>5 DEF disk, spoilt, RInv, ReaderInv
  <2>4. CASE reader'[r] = "failed"
    BY <2>4 DEF ReaderInv
  <2> QED BY <2>1, <2>2, <2>3, <2>4
<1> QED BY <1>2, <1>5, <1>6, <1>7 DEF RInv

LEMMA StepRInv ==
    ASSUME IInv, RInv, [Next]_vars
    PROVE  RInv'
<1>1. ASSUME NEW p \in Setups, SetupStep(p) PROVE RInv'
  <2>1. Books' /\ UNCHANGED serving /\ spent'.damage = spent.damage
    BY <1>1, SetupBooks DEF RInv
  <2> QED BY <1>1, <2>1, VerifyRInv, RemoveRInv, CreateRInv, WriteRInv, FailsRInv, RetireRInv,
          InstallRInv, RepairRInv DEF SetupStep
<1>2. ASSUME NEW p \in Setups,
             \/ DownloadFails(p) \/ InstallFails(p) \/ Crash(p)
             \/ VerifyMisread(p) \/ RemoveOverlooked(p)
      PROVE  RInv'
  <2>1. Books' /\ UNCHANGED serving /\ spent'.damage = spent.damage
    BY <1>2, SetupBooks DEF RInv
  <2> QED BY <1>2, <2>1, FailsRInv, InstallRInv, CrashRInv, VerifyRInv, RemoveRInv
<1>3. ASSUME NEW p \in Setups, NEW m \in {"online", "offline"}, Start(p, m) PROVE RInv'
  <2>1. Books' /\ UNCHANGED serving /\ spent'.damage = spent.damage
    BY <1>3, SetupBooks DEF RInv
  <2> QED BY <1>3, <2>1, StartRInv
<1>4. CASE UNCHANGED vars
  BY <1>4 DEF vars, disk, spoilt, serving, RInv, Shape, Books, PlaceInv, Intact, ReaderInv, Seen, Held
<1> QED BY <1>1, <1>2, <1>3, <1>4, DamageRInv, ReaderRInv DEF Next

LEMMA Invariance == Spec => [](IInv /\ Modes /\ RInv)
<1>1. Init => IInv /\ Modes /\ RInv
  BY InitIInv, InitRInv DEF Init, Modes
<1>2. (IInv /\ Modes /\ RInv) /\ [Next]_vars => (IInv /\ Modes /\ RInv)'
  BY StepIInv, StepModes, StepRInv
<1> QED BY <1>1, <1>2, PTL DEF Spec

\* Every variable keeps its type, and a directory that does not exist is empty.
THEOREM TypeCorrect == Spec => []TypeOK
<1>1. IInv /\ Modes /\ RInv => TypeOK
  BY DEF IInv, DiskOK, LockInv, Modes, RInv, Shape, Books, Counts, TypeOK
<1> QED BY <1>1, Invariance, PTL

\* A server that resolved the installation without the lock, part by part, while
\* setups replace or repair it and crash, has an intact one, unless it was
\* damaged from outside meanwhile, or some setup could not read it: then what
\* stands at `current`, if anything, is intact but for the condemned parts.
THEOREM ReadersSeeIntact == Spec => []ResolvedIsIntact
<1>1. RInv => ResolvedIsIntact
  BY DEF RInv, ReaderInv, Seen, Held, ResolvedIsIntact, Intact
<1> QED BY <1>1, Invariance, PTL
=============================================================================
