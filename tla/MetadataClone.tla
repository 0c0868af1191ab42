--------------------------- MODULE MetadataClone ---------------------------
(***************************************************************************)
(* The metadata clone manager (internal/metadata/manager.go): a plan is    *)
(* prepared against a dump of the locked infobase, and later applied,      *)
(* rolled back or discarded.  A plan lives in a directory of its own that  *)
(* outlives the server: manifest.json, the canonical dump and the CF       *)
(* backup.  The infobase has a main configuration (what Designer edits)    *)
(* and a database configuration (what UpdateDBCfg makes of it).            *)
(*                                                                         *)
(* A configuration is the set of the metadata objects it contains, and its *)
(* fingerprint is the configuration itself.  Every call of Designer may    *)
(* fail, with or without its effect (a timeout, a non-zero exit, an error  *)
(* in the log).  A server is one STDIO process: its mutex makes it run one *)
(* call at a time, and nothing orders the calls of two servers.            *)
(***************************************************************************)
EXTENDS Naturals

CONSTANTS
  Servers,      \* server processes that share a work directory
  Plans,        \* plan identifiers the random generator may draw
  Objects,      \* metadata objects of one type
  MaxEdits,     \* bound: edits of the infobase made outside the servers
  MaxCrashes,   \* bound: kills of a server process
  NoPlan, NoObject   \* model values

Configs == SUBSET Objects

\* A dump or a CF file: whole, with a configuration in it, or not usable (it is
\* not there, or the Designer call that wrote it was cut short).
Files == [whole : BOOLEAN, config : Configs]
Whole(config) == [whole |-> TRUE, config |-> config]
NoFile == [whole |-> FALSE, config |-> {}]

ASSUME ConstantsAssumption ==
  /\ MaxEdits \in Nat /\ MaxCrashes \in Nat
  /\ NoPlan \notin Plans /\ NoObject \notin Objects

VARIABLES
  main,       \* main configuration of the infobase
  db,         \* database configuration of the infobase
  plan,       \* plan[id]: manifest.json of the plan
  canonical,  \* canonical[id]: the validated dump with the clone in it
  backup,     \* backup[id]: backup-before-apply.cf
  drawn,      \* plan identifiers drawn so far
  pc, cur, mem,  \* the call a server runs, its plan and its copy of the manifest
  edits, crashes, \* counters of the two bounds
  \* history, read by no guard:
  origin,     \* the plan whose LoadConfigFromFiles wrote main last, if any
  raced,      \* plans during whose apply the main configuration was edited
  removed     \* plans whose directory a RemoveAll was called on

infobase == <<main, db>>
disk == <<plan, canonical, backup>>
call == <<pc, cur, mem>>
bounds == <<edits, crashes>>
history == <<origin, raced, removed>>
vars == <<main, db, plan, canonical, backup, drawn, pc, cur, mem,
          edits, crashes, origin, raced, removed>>

Settled == {"applied", "rolled_back", "rollback_failed"}

Manifest == [state : {"none", "prepared"} \cup Settled, base : Configs,
             target : Objects \cup {NoObject}, noted : BOOLEAN]

NoManifest == [state |-> "none", base |-> {}, target |-> NoObject, noted |-> FALSE]

Preparing == {"validate", "save", "tidy"}
Applying == {"check", "backup", "record", "load", "update", "verify", "commit",
             "restore", "reupdate", "markRolledBack", "markFailed"}

\* The dump after Clone has added the target object to it.
CloneOf(m) == m.base \cup {m.target}

Init ==
  /\ main \in Configs /\ db \in Configs
  /\ plan = [id \in Plans |-> NoManifest]
  /\ canonical = [id \in Plans |-> NoFile]
  /\ backup = [id \in Plans |-> NoFile]
  /\ drawn = {}
  /\ pc = [p \in Servers |-> "idle"]
  /\ cur = [p \in Servers |-> NoPlan]
  /\ mem = [p \in Servers |-> NoManifest]
  /\ edits = 0 /\ crashes = 0
  /\ origin = NoPlan /\ raced = {} /\ removed = {}

-----------------------------------------------------------------------------
(* Steps of a call *)

Enter(p, id, m, next) ==
  /\ pc[p] = "idle"
  /\ pc' = [pc EXCEPT ![p] = next]
  /\ cur' = [cur EXCEPT ![p] = id]
  /\ mem' = [mem EXCEPT ![p] = m]

Goto(p, from, next) ==
  /\ pc[p] = from
  /\ pc' = [pc EXCEPT ![p] = next]
  /\ UNCHANGED <<cur, mem>>

Return(p) ==
  /\ pc' = [pc EXCEPT ![p] = "idle"]
  /\ cur' = [cur EXCEPT ![p] = NoPlan]
  /\ mem' = [mem EXCEPT ![p] = NoManifest]

\* savePlan: the manifest is written aside and renamed over the old one, so a
\* reader sees the old one or the new one.
SavePlan(id, m) == plan' = [plan EXCEPT ![id] = m]

\* os.RemoveAll(planDir): everything goes, or (a file is in use) some of it stays.
RemovePlanDir(id) ==
  /\ \E keep \in SUBSET {"manifest", "canonical", "backup"} :
       /\ plan' = [plan EXCEPT ![id] = IF "manifest" \in keep THEN @ ELSE NoManifest]
       /\ canonical' = [canonical EXCEPT ![id] = IF "canonical" \in keep THEN @ ELSE NoFile]
       /\ backup' = [backup EXCEPT ![id] = IF "backup" \in keep THEN @ ELSE NoFile]
  /\ removed' = removed \cup {id}

-----------------------------------------------------------------------------
(* Prepare *)

\* Mutant: nothing is validated before the plan is saved.
PrepareStageUnvalidated(p, id, source, target) ==
  /\ id \notin drawn /\ source # target /\ source \in main /\ target \notin main
  /\ drawn' = drawn \cup {id}
  /\ Enter(p, id, [state |-> "prepared", base |-> main, target |-> target,
                   noted |-> FALSE], "save")
  /\ UNCHANGED <<infobase, disk, bounds, history>>

\* The names are checked, a fresh directory is made, the infobase is dumped into
\* it, fingerprinted, and the clone added: the source must exist, the target not.
PrepareStage(p, id, source, target) ==
  /\ id \notin drawn
  /\ source # target /\ source \in main /\ target \notin main
  /\ drawn' = drawn \cup {id}
  /\ Enter(p, id, [state |-> "prepared", base |-> main, target |-> target,
                   noted |-> FALSE], "validate")
  /\ UNCHANGED <<infobase, disk, bounds, history>>

\* The staged dump is loaded into a throw-away infobase, updated, dumped again
\* and compared with the source object.
PrepareValidate(p) ==
  /\ Goto(p, "validate", "save")
  /\ canonical' = [canonical EXCEPT ![cur[p]] = Whole(CloneOf(mem[p]))]
  /\ UNCHANGED <<infobase, plan, backup, drawn, bounds, history>>

PrepareSave(p) ==
  /\ Goto(p, "save", "tidy")
  /\ SavePlan(cur[p], mem[p])
  /\ UNCHANGED <<infobase, canonical, backup, drawn, bounds, history>>

\* The staged dump and the validation infobase are removed: the call succeeds.
PrepareFinish(p) ==
  /\ pc[p] = "tidy"
  /\ Return(p)
  /\ UNCHANGED <<infobase, disk, drawn, bounds, history>>

\* Any failure on the way, the removal of the leftovers included, runs the
\* deferred RemoveAll of the plan directory, whose own error is ignored.
PrepareFail(p) ==
  /\ pc[p] \in Preparing
  /\ RemovePlanDir(cur[p])
  /\ Return(p)
  /\ UNCHANGED <<infobase, drawn, bounds, origin, raced>>

-----------------------------------------------------------------------------
(* Apply *)

\* Mutant: a plan may be applied whatever became of it.
ApplyBeginAnyState(p, id) ==
  /\ plan[id].state # "none"
  /\ Enter(p, id, plan[id], "check")
  /\ UNCHANGED <<infobase, disk, drawn, bounds, history>>

ApplyBegin(p, id) ==
  /\ plan[id].state = "prepared"
  /\ Enter(p, id, plan[id], "check")
  /\ UNCHANGED <<infobase, disk, drawn, bounds, history>>

\* Mutant: the fingerprint is not compared.
ApplyCheckAnything(p) ==
  /\ Goto(p, "check", "backup")
  /\ UNCHANGED <<infobase, disk, drawn, bounds, history>>

\* A fresh dump has the fingerprint of the one the plan was prepared from.
ApplyCheck(p) ==
  /\ main = mem[p].base
  /\ Goto(p, "check", "backup")
  /\ UNCHANGED <<infobase, disk, drawn, bounds, history>>

\* The dump fails or its fingerprint differs.
ApplyRefuse(p) ==
  /\ pc[p] = "check"
  /\ Return(p)
  /\ UNCHANGED <<infobase, disk, drawn, bounds, history>>

ApplyBackup(p) ==
  /\ Goto(p, "backup", "record")
  /\ backup' = [backup EXCEPT ![cur[p]] = Whole(main)]
  /\ UNCHANGED <<infobase, plan, canonical, drawn, bounds, history>>

ApplyBackupFail(p) ==
  /\ pc[p] = "backup"
  /\ \E file \in {backup[cur[p]], Whole(main), NoFile} : backup' = [backup EXCEPT ![cur[p]] = file]
  /\ Return(p)
  /\ UNCHANGED <<infobase, plan, canonical, drawn, bounds, history>>

\* Mutant: the manifest is not saved before the infobase is touched.
ApplyRecordUnsaved(p) ==
  /\ pc[p] = "record"
  /\ pc' = [pc EXCEPT ![p] = "load"]
  /\ mem' = [mem EXCEPT ![p].noted = TRUE]
  /\ UNCHANGED <<infobase, disk, drawn, cur, bounds, history>>

\* plan.BackupCF is set and the manifest saved before the infobase is touched.
ApplyRecord(p) ==
  /\ pc[p] = "record"
  /\ pc' = [pc EXCEPT ![p] = "load"]
  /\ mem' = [mem EXCEPT ![p].noted = TRUE]
  /\ SavePlan(cur[p], mem'[p])
  /\ UNCHANGED <<infobase, canonical, backup, drawn, cur, bounds, history>>

ApplyRecordFail(p) ==
  /\ pc[p] = "record"
  /\ Return(p)
  /\ UNCHANGED <<infobase, disk, drawn, bounds, history>>

LoadCanonical(id) ==
  /\ canonical[id].whole
  /\ main' = canonical[id].config
  /\ origin' = id

ApplyLoad(p) ==
  /\ Goto(p, "load", "update")
  /\ LoadCanonical(cur[p])
  /\ UNCHANGED <<db, disk, drawn, bounds, raced, removed>>

ApplyLoadFail(p) ==
  /\ Goto(p, "load", "restore")
  /\ \/ LoadCanonical(cur[p])
     \/ UNCHANGED <<main, origin>>
  /\ UNCHANGED <<db, disk, drawn, bounds, raced, removed>>

ApplyUpdate(p) ==
  /\ Goto(p, "update", "verify")
  /\ db' = main
  /\ UNCHANGED <<main, disk, drawn, bounds, history>>

\* Mutants: a failed update is taken for a success, or the load is tried again.
ApplyUpdateFailIgnored(p) ==
  /\ Goto(p, "update", "verify")
  /\ db' \in {db, main}
  /\ UNCHANGED <<main, disk, drawn, bounds, history>>

ApplyUpdateFailRetried(p) ==
  /\ Goto(p, "update", "load")
  /\ db' \in {db, main}
  /\ UNCHANGED <<main, disk, drawn, bounds, history>>

ApplyUpdateFail(p) ==
  /\ Goto(p, "update", "restore")
  /\ db' \in {db, main}
  /\ UNCHANGED <<main, disk, drawn, bounds, history>>

\* Another fresh dump contains the target object.
ApplyVerify(p) ==
  /\ mem[p].target \in main
  /\ Goto(p, "verify", "commit")
  /\ UNCHANGED <<infobase, disk, drawn, bounds, history>>

ApplyVerifyMissing(p) ==
  /\ mem[p].target \notin main
  /\ Goto(p, "verify", "restore")
  /\ UNCHANGED <<infobase, disk, drawn, bounds, history>>

\* The verification dump itself fails: the error is returned as it is, the
\* manifest still says "prepared" and no rollback is tried.
ApplyVerifyUnreadable(p) ==
  /\ pc[p] = "verify"
  /\ Return(p)
  /\ UNCHANGED <<infobase, disk, drawn, bounds, history>>

\* The last save of an apply that ended in `state`; a failed save returns an
\* error (commit) or is ignored (rollback), and leaves the manifest as it was.
Close(p, from, state) ==
  /\ pc[p] = from
  /\ \/ SavePlan(cur[p], [mem[p] EXCEPT !.state = state])
     \/ UNCHANGED plan
  /\ Return(p)
  /\ UNCHANGED <<infobase, canonical, backup, drawn, bounds, history>>

ApplyCommit(p) == Close(p, "commit", "applied")

-----------------------------------------------------------------------------
(* rollback *)

Restore(id) ==
  /\ backup[id].whole
  /\ main' = backup[id].config
  /\ origin' = NoPlan

RollbackLoad(p) ==
  /\ Goto(p, "restore", "reupdate")
  /\ Restore(cur[p])
  /\ UNCHANGED <<db, disk, drawn, bounds, raced, removed>>

RollbackLoadFail(p) ==
  /\ Goto(p, "restore", "markFailed")
  /\ \/ Restore(cur[p])
     \/ UNCHANGED <<main, origin>>
  /\ UNCHANGED <<db, disk, drawn, bounds, raced, removed>>

RollbackUpdate(p) ==
  /\ Goto(p, "reupdate", "markRolledBack")
  /\ db' = main
  /\ UNCHANGED <<main, disk, drawn, bounds, history>>

RollbackUpdateFail(p) ==
  /\ Goto(p, "reupdate", "markFailed")
  /\ db' \in {db, main}
  /\ UNCHANGED <<main, disk, drawn, bounds, history>>

RollbackDone(p) == Close(p, "markRolledBack", "rolled_back")

\* Mutant: a state that loadPlan knows nothing about.
RollbackFailedMisnamed(p) == Close(p, "markFailed", "failed")

RollbackFailed(p) == Close(p, "markFailed", "rollback_failed")

-----------------------------------------------------------------------------
(* Discard *)

DiscardBegin(p, id) ==
  /\ plan[id].state = "prepared"
  /\ Enter(p, id, plan[id], "remove")
  /\ UNCHANGED <<infobase, disk, drawn, bounds, history>>

DiscardRemove(p) ==
  /\ pc[p] = "remove"
  /\ RemovePlanDir(cur[p])
  /\ Return(p)
  /\ UNCHANGED <<infobase, drawn, bounds, origin, raced>>

-----------------------------------------------------------------------------
(* The environment *)

\* The server process is killed: what it had in memory is lost, what Designer
\* and the disk have is kept.  A Designer call cut short is its failing step
\* followed by this one.
Crash(p) ==
  /\ pc[p] # "idle" /\ crashes < MaxCrashes
  /\ crashes' = crashes + 1
  /\ Return(p)
  /\ UNCHANGED <<infobase, disk, drawn, edits, history>>

\* Somebody edits the configuration in an interactive Configurator ...
EditMain ==
  /\ edits < MaxEdits
  /\ edits' = edits + 1
  /\ main' \in Configs \ {main}
  /\ origin' = NoPlan
  /\ raced' = raced \cup {cur[p] : p \in {q \in Servers : pc[q] \in Applying}}
  /\ UNCHANGED <<db, disk, drawn, call, crashes, removed>>

\* ... or updates the database configuration.
EditDb ==
  /\ edits < MaxEdits
  /\ edits' = edits + 1
  /\ db' = main
  /\ UNCHANGED <<main, disk, drawn, call, crashes, history>>

-----------------------------------------------------------------------------
Step(p) ==
  \/ PrepareValidate(p) \/ PrepareSave(p) \/ PrepareFinish(p) \/ PrepareFail(p)
  \/ ApplyCheck(p) \/ ApplyRefuse(p) \/ ApplyBackup(p) \/ ApplyBackupFail(p)
  \/ ApplyRecord(p) \/ ApplyRecordFail(p) \/ ApplyLoad(p) \/ ApplyLoadFail(p)
  \/ ApplyUpdate(p) \/ ApplyUpdateFail(p)
  \/ ApplyVerify(p) \/ ApplyVerifyMissing(p) \/ ApplyVerifyUnreadable(p)
  \/ ApplyCommit(p)
  \/ RollbackLoad(p) \/ RollbackLoadFail(p)
  \/ RollbackUpdate(p) \/ RollbackUpdateFail(p)
  \/ RollbackDone(p) \/ RollbackFailed(p)
  \/ DiscardRemove(p)

Request(p) ==
  \/ \E id \in Plans, source, target \in Objects : PrepareStage(p, id, source, target)
  \/ \E id \in Plans : ApplyBegin(p, id) \/ DiscardBegin(p, id)

Next ==
  \/ \E p \in Servers : Step(p) \/ Request(p) \/ Crash(p)
  \/ EditMain \/ EditDb

Spec == Init /\ [][Next]_vars

\* Designer is killed after its 30-minute timeout, so every step of a call ends.
FairSpec == Spec /\ \A p \in Servers : WF_vars(Step(p))

-----------------------------------------------------------------------------
(* Properties *)

\* Every variable has its type.
TypeOK ==
  /\ main \in Configs /\ db \in Configs
  /\ plan \in [Plans -> Manifest]
  /\ canonical \in [Plans -> Files]
  /\ backup \in [Plans -> Files]
  /\ drawn \in SUBSET Plans
  /\ pc \in [Servers -> {"idle", "remove"} \cup Preparing \cup Applying]
  /\ cur \in [Servers -> Plans \cup {NoPlan}]
  /\ mem \in [Servers -> Manifest]
  /\ edits \in 0..MaxEdits /\ crashes \in 0..MaxCrashes
  /\ origin \in Plans \cup {NoPlan}
  /\ raced \in SUBSET Plans
  /\ removed \in SUBSET Plans

\* While the infobase holds what a plan loaded into it, and nobody has deleted
\* the plan's directory, the plan's manifest names a complete backup; unless the
\* configuration was edited under the apply, that backup is the configuration
\* the plan was prepared from.  A crash, a failed dump or a second apply of the
\* same plan must not overwrite it (Apply: fingerprint check, DumpCfg, savePlan,
\* LoadConfigFromFiles, in this order).
BackupOutlivesChange ==
  \A id \in Plans \ removed : origin = id =>
    /\ plan[id].noted
    /\ backup[id].whole
    /\ id \notin raced => backup[id].config = plan[id].base

\* A manifest that can be found, whatever crashed or failed, belongs to a plan
\* that was validated to the end: its canonical dump is the base with the clone
\* in it (Prepare: savePlan comes after the equivalence check).
PreparedIsComplete ==
  \A id \in Plans \ removed : plan[id].state # "none" =>
    /\ canonical[id] = Whole(CloneOf(plan[id]))
    /\ plan[id].target \notin plan[id].base

Becomes(id, state) == plan[id].state # state /\ plan'[id].state = state

\* What a manifest says when an apply ends is what the infobase holds: "applied"
\* means both configurations are the canonical dump, "rolled_back" that both are
\* the one the plan was prepared from (Apply and rollback), unless the
\* configuration was edited meanwhile.
SettlesTruthfully ==
  [][\A id \in Plans \ raced :
       /\ Becomes(id, "applied") => main = CloneOf(plan[id]) /\ db = main
       /\ Becomes(id, "rolled_back") => main = plan[id].base /\ db = main]_vars

\* A plan is loaded into the infobase only while its manifest says "prepared"
\* and names the backup, and, unless the configuration was edited under the
\* apply, only over the configuration it was prepared from (Apply refuses stale
\* and used plans).
LoadsOnlyFreshPlan ==
  [][\A id \in Plans : (origin # id /\ origin' = id) =>
       /\ plan[id].state = "prepared" /\ plan[id].noted
       /\ id \notin raced => main = plan[id].base]_vars

\* A call that has started returns (every step is bounded by the Designer timeout).
EveryCallReturns ==
  \A p \in Servers : pc[p] # "idle" ~> pc[p] = "idle"

\* The abstract view of a plan, and the promise about it.
Status(id) ==
  IF plan[id].state = "none" /\ id \in removed THEN "gone" ELSE plan[id].state

Lifecycle == INSTANCE PlanLifecycle WITH status <- [id \in Plans |-> Status(id)],
                                         holder <- origin

\* Seen from outside, plans follow the life cycle of PlanLifecycle.
FollowsLifecycle == Lifecycle!Spec

-----------------------------------------------------------------------------
(* What the tool descriptions say and the code does not do *)

\* "creates a CF backup and attempts automatic rollback on failure": once no call
\* works on a plan whose objects are in the infobase, its manifest says how the
\* apply ended.
ChangeIsAccountedFor ==
  \A id \in Plans : (origin = id /\ \A p \in Servers : cur[p] # id) =>
    plan[id].state \in {"applied", "rollback_failed"}

=============================================================================
