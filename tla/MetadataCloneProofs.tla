------------------------ MODULE MetadataCloneProofs ------------------------
(***************************************************************************)
(* Proofs about the metadata clone manager, for any number of plans and    *)
(* objects, edits and crashes.  The type invariant holds for any number of *)
(* server processes; everything else is proved for one process, because    *)
(* the mutex that orders the calls is local to the process: two of them    *)
(* overwrite each other's backups.                                         *)
(***************************************************************************)
EXTENDS MetadataClone, TLAPS

\* A call works on a plan, and has been given a target when it validates a dump.
Engaged ==
  \A p \in Servers :
    /\ pc[p] # "idle" => cur[p] \in Plans
    /\ pc[p] = "validate" => mem[p].target \in Objects

OneServer == \A p, q \in Servers : p = q

\* A plan identifier that was not drawn yet has left no trace.
FreshIds ==
  \A id \in Plans \ drawn :
    /\ plan[id].state = "none"
    /\ id \notin removed
    /\ origin # id

\* A call works on a plan that was drawn.
CallsUseDrawnIds == \A p \in Servers : pc[p] # "idle" => cur[p] \in drawn

\* What a server has in memory of the plan its call works on.
CallKnowsItsPlan(p) ==
    /\ pc[p] \in {"validate", "save"} =>
         /\ plan[cur[p]].state = "none" /\ cur[p] \notin removed
         /\ mem[p].state = "prepared" /\ mem[p].target \notin mem[p].base
    /\ pc[p] = "save" => canonical[cur[p]] = Whole(CloneOf(mem[p]))
    /\ pc[p] \in {"tidy"} \cup Applying =>
         plan[cur[p]] = mem[p] /\ mem[p].state = "prepared"
    /\ pc[p] \in Applying \ {"check", "backup", "record"} => mem[p].noted
    /\ pc[p] = "remove" => plan[cur[p]].state = "prepared"

CallsKnowTheirPlan == \A p \in Servers : CallKnowsItsPlan(p)

\* The dump of a plan with a manifest is the base with the clone in it; only the
\* removal of the plan's directory can take it away.
DumpMatches(id) ==
  plan[id].state # "none" =>
    /\ plan[id].target \notin plan[id].base
    /\ canonical[id].whole => canonical[id] = Whole(CloneOf(plan[id]))
    /\ id \notin removed => canonical[id].whole

DumpsMatch == \A id \in Plans : DumpMatches(id)

\* Where the infobase stands at each step of an apply that nobody raced.
InfobaseFollowsCall ==
  \A p \in Servers : (pc[p] \in Applying /\ cur[p] \notin raced) =>
    /\ pc[p] \in {"backup", "record", "load", "reupdate", "markRolledBack"} =>
         main = mem[p].base
    /\ pc[p] \in {"update", "verify", "commit"} => main = CloneOf(mem[p])
    /\ pc[p] \in {"verify", "commit", "markRolledBack"} => db = main

\* From the backup on the CF file is whole, and before the load and after the
\* restore the infobase does not hold the plan.
BackupFollowsCall ==
  \A p \in Servers :
    /\ pc[p] \in Applying \ {"check", "backup"} =>
         /\ backup[cur[p]].whole
         /\ cur[p] \notin raced => backup[cur[p]].config = mem[p].base
    /\ pc[p] \in {"backup", "record", "load", "reupdate", "markRolledBack"} =>
         origin # cur[p]

\* A plan whose content was loaded last is what the infobase holds, and its
\* backup is there.
HolderBackedUp(id) ==
  origin = id =>
    /\ plan[id].state # "none" => main = CloneOf(plan[id])
    /\ id \notin removed =>
         /\ plan[id].state # "none" /\ plan[id].noted
         /\ backup[id].whole
         /\ id \notin raced => backup[id].config = plan[id].base

HolderIsBackedUp == \A id \in Plans : HolderBackedUp(id)

IInv ==
  /\ TypeOK /\ Engaged /\ FreshIds /\ CallsUseDrawnIds /\ CallsKnowTheirPlan /\ DumpsMatch
  /\ InfobaseFollowsCall /\ BackupFollowsCall /\ HolderIsBackedUp

-----------------------------------------------------------------------------
(* Type correctness *)

\* The values the steps build belong to the sets of TypeOK.
LEMMA Values ==
  /\ NoManifest \in Manifest /\ NoFile \in Files
  /\ \A config \in Configs : Whole(config) \in Files
  /\ \A file \in Files : file.config \in Configs
  /\ \A m \in Manifest : m.target \in Objects => CloneOf(m) \in Configs
  /\ \A m \in Manifest, state \in Settled : [m EXCEPT !.state = state] \in Manifest
  /\ \A m \in Manifest : [m EXCEPT !.noted = TRUE] \in Manifest
  /\ \A config \in Configs, o \in Objects :
       [state |-> "prepared", base |-> config, target |-> o, noted |-> FALSE] \in Manifest
  BY DEF Configs, Files, Whole, NoFile, Manifest, NoManifest, Settled, CloneOf

\* Every variable stays typed through every action, whoever else is running.
LEMMA TypeStep ==
  TypeOK /\ Engaged /\ [Next]_vars => TypeOK' /\ Engaged'
<1> SUFFICES ASSUME TypeOK, Engaged, [Next]_vars PROVE TypeOK' /\ Engaged'
  OBVIOUS
<1> USE ConstantsAssumption, Values DEF TypeOK, Engaged, Preparing, Applying,
        infobase, disk, call, bounds, history
<1>1. CASE UNCHANGED vars
  BY <1>1 DEF vars
<1>2. ASSUME NEW p \in Servers, NEW id \in Plans, NEW source \in Objects, NEW target \in Objects,
            PrepareStage(p, id, source, target)
     PROVE TypeOK' /\ Engaged'
  BY <1>2 DEF PrepareStage, Enter
<1>3. ASSUME NEW p \in Servers, NEW id \in Plans, ApplyBegin(p, id) \/ DiscardBegin(p, id)
     PROVE TypeOK' /\ Engaged'
  BY <1>3 DEF ApplyBegin, DiscardBegin, Enter
<1>4. ASSUME NEW p \in Servers, PrepareValidate(p) PROVE TypeOK' /\ Engaged'
  BY <1>4 DEF PrepareValidate, Goto, Return
<1>5. ASSUME NEW p \in Servers, PrepareSave(p) PROVE TypeOK' /\ Engaged'
  BY <1>5 DEF PrepareSave, Goto, Return, SavePlan
<1>6. ASSUME NEW p \in Servers, PrepareFinish(p) PROVE TypeOK' /\ Engaged'
  BY <1>6 DEF PrepareFinish, Goto, Return
<1>7. ASSUME NEW p \in Servers, PrepareFail(p) PROVE TypeOK' /\ Engaged'
  BY <1>7 DEF PrepareFail, Goto, Return, RemovePlanDir
<1>8. ASSUME NEW p \in Servers, ApplyCheck(p) PROVE TypeOK' /\ Engaged'
  BY <1>8 DEF ApplyCheck, Goto, Return
<1>9. ASSUME NEW p \in Servers, ApplyRefuse(p) PROVE TypeOK' /\ Engaged'
  BY <1>9 DEF ApplyRefuse, Goto, Return
<1>10. ASSUME NEW p \in Servers, ApplyBackup(p) PROVE TypeOK' /\ Engaged'
  BY <1>10 DEF ApplyBackup, Goto, Return
<1>11. ASSUME NEW p \in Servers, ApplyBackupFail(p) PROVE TypeOK' /\ Engaged'
  BY <1>11 DEF ApplyBackupFail, Goto, Return
<1>12. ASSUME NEW p \in Servers, ApplyRecord(p) PROVE TypeOK' /\ Engaged'
  BY <1>12 DEF ApplyRecord, Goto, Return, SavePlan
<1>13. ASSUME NEW p \in Servers, ApplyRecordFail(p) PROVE TypeOK' /\ Engaged'
  BY <1>13 DEF ApplyRecordFail, Goto, Return
<1>14. ASSUME NEW p \in Servers, ApplyLoad(p) PROVE TypeOK' /\ Engaged'
  BY <1>14 DEF ApplyLoad, Goto, Return, LoadCanonical
<1>15. ASSUME NEW p \in Servers, ApplyLoadFail(p) PROVE TypeOK' /\ Engaged'
  BY <1>15 DEF ApplyLoadFail, Goto, Return, LoadCanonical
<1>16. ASSUME NEW p \in Servers, ApplyUpdate(p) PROVE TypeOK' /\ Engaged'
  BY <1>16 DEF ApplyUpdate, Goto, Return
<1>17. ASSUME NEW p \in Servers, ApplyUpdateFail(p) PROVE TypeOK' /\ Engaged'
  BY <1>17 DEF ApplyUpdateFail, Goto, Return
<1>18. ASSUME NEW p \in Servers, ApplyVerify(p) PROVE TypeOK' /\ Engaged'
  BY <1>18 DEF ApplyVerify, Goto, Return
<1>19. ASSUME NEW p \in Servers, ApplyVerifyMissing(p) PROVE TypeOK' /\ Engaged'
  BY <1>19 DEF ApplyVerifyMissing, Goto, Return
<1>20. ASSUME NEW p \in Servers, ApplyVerifyUnreadable(p) PROVE TypeOK' /\ Engaged'
  BY <1>20 DEF ApplyVerifyUnreadable, Goto, Return
<1>21. ASSUME NEW p \in Servers, ApplyCommit(p) PROVE TypeOK' /\ Engaged'
  <2>1. [mem[p] EXCEPT !.state = "applied"] \in Manifest
    BY DEF Settled
  <2>2. QED
    BY <1>21, <2>1 DEF ApplyCommit, Return, Close, SavePlan
<1>22. ASSUME NEW p \in Servers, RollbackLoad(p) PROVE TypeOK' /\ Engaged'
  BY <1>22 DEF RollbackLoad, Goto, Return, Restore
<1>23. ASSUME NEW p \in Servers, RollbackLoadFail(p) PROVE TypeOK' /\ Engaged'
  BY <1>23 DEF RollbackLoadFail, Goto, Return, Restore
<1>24. ASSUME NEW p \in Servers, RollbackUpdate(p) PROVE TypeOK' /\ Engaged'
  BY <1>24 DEF RollbackUpdate, Goto, Return
<1>25. ASSUME NEW p \in Servers, RollbackUpdateFail(p) PROVE TypeOK' /\ Engaged'
  BY <1>25 DEF RollbackUpdateFail, Goto, Return
<1>26. ASSUME NEW p \in Servers, RollbackDone(p) PROVE TypeOK' /\ Engaged'
  <2>1. [mem[p] EXCEPT !.state = "rolled_back"] \in Manifest
    BY DEF Settled
  <2>2. QED
    BY <1>26, <2>1 DEF RollbackDone, Return, Close, SavePlan
<1>27. ASSUME NEW p \in Servers, RollbackFailed(p) PROVE TypeOK' /\ Engaged'
  <2>1. [mem[p] EXCEPT !.state = "rollback_failed"] \in Manifest
    BY DEF Settled
  <2>2. QED
    BY <1>27, <2>1 DEF RollbackFailed, Return, Close, SavePlan
<1>28. ASSUME NEW p \in Servers, DiscardRemove(p) PROVE TypeOK' /\ Engaged'
  BY <1>28 DEF DiscardRemove, Goto, Return, RemovePlanDir
<1>29. ASSUME NEW p \in Servers, Crash(p) PROVE TypeOK' /\ Engaged'
  BY <1>29 DEF Crash, Return
<1>30. CASE EditMain
  BY <1>30 DEF EditMain
<1>31. CASE EditDb
  BY <1>31 DEF EditDb
<1>32. QED
  BY <1>1, <1>2, <1>3, <1>4, <1>5, <1>6, <1>7, <1>8, <1>9, <1>10, <1>11, <1>12, <1>13, <1>14, <1>15, <1>16, <1>17, <1>18, <1>19, <1>20, <1>21, <1>22, <1>23, <1>24, <1>25, <1>26, <1>27, <1>28, <1>29, <1>30, <1>31 DEF Next, Step, Request

\* Every reachable state is typed, for any number of servers.
THEOREM TypeCorrect == Spec => []TypeOK
<1>1. Init => TypeOK /\ Engaged
  BY ConstantsAssumption, Values DEF Init, TypeOK, Engaged
<1>2. QED
  BY <1>1, TypeStep, PTL DEF Spec

-----------------------------------------------------------------------------
(* The inductive invariant *)

Strengthening ==
  FreshIds /\ CallsUseDrawnIds /\ CallsKnowTheirPlan /\ DumpsMatch
    /\ InfobaseFollowsCall /\ BackupFollowsCall /\ HolderIsBackedUp

\* What a manifest says of the dump does not depend on its state, nor on whether
\* the backup is noted.
LEMMA SettledManifest ==
  ASSUME NEW m \in Manifest, NEW state \in Settled, NEW n, n = [m EXCEPT !.state = state]
  PROVE  /\ n \in Manifest /\ n.state = state
         /\ n.base = m.base /\ n.target = m.target /\ n.noted = m.noted
         /\ CloneOf(n) = CloneOf(m)
  BY DEF Manifest, CloneOf, Settled

\* Likewise when ApplyRecord notes the backup in it.
LEMMA NotedManifest ==
  ASSUME NEW m \in Manifest, NEW n, n = [m EXCEPT !.noted = TRUE]
  PROVE  /\ n \in Manifest /\ n.state = m.state /\ n.noted
         /\ n.base = m.base /\ n.target = m.target
         /\ CloneOf(n) = CloneOf(m)
  BY DEF Manifest, CloneOf

\* A clone adds its target to the base, so it differs from it.
LEMMA CloneDiffers ==
  ASSUME NEW m, m.target \notin m.base PROVE CloneOf(m) # m.base
  BY DEF CloneOf

\* The last save of an apply keeps what the strengthening says: the plan it
\* settles is the one the call knows, and nothing but its state changes.
LEMMA CloseStep ==
  ASSUME OneServer, IInv, NEW p \in Servers, NEW state \in Settled,
         NEW from \in {"commit", "markRolledBack", "markFailed"}, Close(p, from, state)
  PROVE  Strengthening'
<1> USE ConstantsAssumption DEF IInv, TypeOK
<1> DEFINE id == cur[p]
<1>1. /\ id \in drawn /\ id \in Plans /\ plan[id] = mem[p] /\ mem[p] \in Manifest
      /\ mem[p].state = "prepared" /\ mem[p].noted
  BY DEF Close, Engaged, Applying, CallsUseDrawnIds, CallsKnowTheirPlan, CallKnowsItsPlan
<1>2. /\ \A q \in Servers : q = p
      /\ pc'[p] = "idle"
      /\ UNCHANGED <<main, db, canonical, backup, drawn, origin, raced, removed>>
  BY DEF OneServer, Close, Return, infobase, bounds, history
<1>3. /\ plan'[id].base = mem[p].base /\ plan'[id].target = mem[p].target
      /\ plan'[id].noted /\ plan'[id].state # "none"
      /\ CloneOf(plan'[id]) = CloneOf(mem[p])
  <2>1. CASE plan' = [plan EXCEPT ![id] = [mem[p] EXCEPT !.state = state]]
    <3>1. plan'[id] = [mem[p] EXCEPT !.state = state]
      BY <1>1, <2>1
    <3>2. QED
      BY <1>1, <3>1, SettledManifest DEF Settled
  <2>2. CASE UNCHANGED plan
    BY <1>1, <2>2
  <2>3. QED
    BY <2>1, <2>2 DEF Close, SavePlan
<1>4. \A other \in Plans : other # id => plan'[other] = plan[other]
  BY DEF Close, SavePlan
<1>5. FreshIds'
  BY <1>1, <1>2, <1>4 DEF FreshIds
<1>6. CallsUseDrawnIds' /\ CallsKnowTheirPlan' /\ InfobaseFollowsCall' /\ BackupFollowsCall'
  BY <1>2 DEF CallsUseDrawnIds, CallsKnowTheirPlan, CallKnowsItsPlan, InfobaseFollowsCall,
              BackupFollowsCall, Applying
<1>7. DumpsMatch'
  <2> SUFFICES ASSUME NEW other \in Plans PROVE DumpMatches(other)'
    BY DEF DumpsMatch
  <2>1. CASE other = id
    BY <1>1, <1>2, <1>3, <2>1 DEF DumpsMatch, DumpMatches
  <2>2. CASE other # id
    BY <1>2, <1>4, <2>2 DEF DumpsMatch, DumpMatches, CloneOf
  <2>3. QED
    BY <2>1, <2>2
<1>8. HolderIsBackedUp'
  <2> SUFFICES ASSUME NEW other \in Plans PROVE HolderBackedUp(other)'
    BY DEF HolderIsBackedUp
  <2>1. CASE other = id
    BY <1>1, <1>2, <1>3, <2>1 DEF HolderIsBackedUp, HolderBackedUp
  <2>2. CASE other # id
    BY <1>2, <1>4, <2>2 DEF HolderIsBackedUp, HolderBackedUp, CloneOf
  <2>3. QED
    BY <2>1, <2>2
<1>9. QED
  BY <1>5, <1>6, <1>7, <1>8 DEF Strengthening

\* Each action of a single server keeps what the strengthening says.
LEMMA StrengtheningStep ==
  ASSUME OneServer, IInv, [Next]_vars
  PROVE  Strengthening'
<1> USE ConstantsAssumption DEF IInv, TypeOK, Engaged, Preparing, Applying,
        Manifest, Files, NoFile, NoManifest, Whole,
        infobase, disk, call, bounds, history
<1>1. CASE UNCHANGED vars
  BY <1>1, OneServer DEF vars, OneServer, Strengthening, FreshIds, CallsUseDrawnIds,
     CallsKnowTheirPlan, CallKnowsItsPlan, DumpsMatch, DumpMatches, InfobaseFollowsCall,
     BackupFollowsCall, HolderIsBackedUp, HolderBackedUp, CloneOf
<1>2. ASSUME NEW p \in Servers, NEW id \in Plans, NEW source \in Objects, NEW target \in Objects,
            PrepareStage(p, id, source, target)
     PROVE Strengthening'
  <2>1. FreshIds'
    BY <1>2, OneServer DEF OneServer, PrepareStage, Enter, FreshIds, CallsUseDrawnIds
  <2>2. CallsUseDrawnIds'
    BY <1>2, OneServer DEF OneServer, PrepareStage, Enter, FreshIds, CallsUseDrawnIds
  <2>3. CallsKnowTheirPlan'
    BY <1>2, OneServer DEF OneServer, PrepareStage, Enter, FreshIds, CallsKnowTheirPlan, CallKnowsItsPlan
  <2>4. DumpsMatch'
    BY <1>2, OneServer DEF OneServer, PrepareStage, Enter, CallsKnowTheirPlan, CallKnowsItsPlan, DumpsMatch, DumpMatches
  <2>5. InfobaseFollowsCall'
    BY <1>2, OneServer DEF OneServer, PrepareStage, Enter, CallsKnowTheirPlan, CallKnowsItsPlan, DumpsMatch, DumpMatches, InfobaseFollowsCall, BackupFollowsCall
  <2>6. BackupFollowsCall'
    BY <1>2, OneServer DEF OneServer, PrepareStage, Enter, CallsKnowTheirPlan, CallKnowsItsPlan, InfobaseFollowsCall, BackupFollowsCall, HolderIsBackedUp, HolderBackedUp
  <2>7. HolderIsBackedUp'
    BY <1>2, OneServer DEF OneServer, PrepareStage, Enter, CallsKnowTheirPlan, CallKnowsItsPlan, DumpsMatch, DumpMatches, BackupFollowsCall, HolderIsBackedUp, HolderBackedUp
  <2>8. QED
    BY <2>1, <2>2, <2>3, <2>4, <2>5, <2>6, <2>7 DEF Strengthening
<1>3. ASSUME NEW p \in Servers, NEW id \in Plans, ApplyBegin(p, id)
     PROVE Strengthening'
  <2>1. FreshIds'
    BY <1>3, OneServer DEF OneServer, ApplyBegin, Enter, FreshIds, CallsUseDrawnIds
  <2>2. CallsUseDrawnIds'
    BY <1>3, OneServer DEF OneServer, ApplyBegin, Enter, FreshIds, CallsUseDrawnIds
  <2>3. CallsKnowTheirPlan'
    BY <1>3, OneServer DEF OneServer, ApplyBegin, Enter, FreshIds, CallsKnowTheirPlan, CallKnowsItsPlan
  <2>4. DumpsMatch'
    BY <1>3, OneServer DEF OneServer, ApplyBegin, Enter, CallsKnowTheirPlan, CallKnowsItsPlan, DumpsMatch, DumpMatches
  <2>5. InfobaseFollowsCall'
    BY <1>3, OneServer DEF OneServer, ApplyBegin, Enter, CallsKnowTheirPlan, CallKnowsItsPlan, DumpsMatch, DumpMatches, InfobaseFollowsCall, BackupFollowsCall
  <2>6. BackupFollowsCall'
    BY <1>3, OneServer DEF OneServer, ApplyBegin, Enter, CallsKnowTheirPlan, CallKnowsItsPlan, InfobaseFollowsCall, BackupFollowsCall, HolderIsBackedUp, HolderBackedUp
  <2>7. HolderIsBackedUp'
    BY <1>3, OneServer DEF OneServer, ApplyBegin, Enter, CallsKnowTheirPlan, CallKnowsItsPlan, DumpsMatch, DumpMatches, BackupFollowsCall, HolderIsBackedUp, HolderBackedUp
  <2>8. QED
    BY <2>1, <2>2, <2>3, <2>4, <2>5, <2>6, <2>7 DEF Strengthening
<1>4. ASSUME NEW p \in Servers, NEW id \in Plans, DiscardBegin(p, id)
     PROVE Strengthening'
  <2>1. FreshIds'
    BY <1>4, OneServer DEF OneServer, DiscardBegin, Enter, FreshIds, CallsUseDrawnIds
  <2>2. CallsUseDrawnIds'
    BY <1>4, OneServer DEF OneServer, DiscardBegin, Enter, FreshIds, CallsUseDrawnIds
  <2>3. CallsKnowTheirPlan'
    BY <1>4, OneServer DEF OneServer, DiscardBegin, Enter, FreshIds, CallsKnowTheirPlan, CallKnowsItsPlan
  <2>4. DumpsMatch'
    BY <1>4, OneServer DEF OneServer, DiscardBegin, Enter, CallsKnowTheirPlan, CallKnowsItsPlan, DumpsMatch, DumpMatches
  <2>5. InfobaseFollowsCall'
    BY <1>4, OneServer DEF OneServer, DiscardBegin, Enter, CallsKnowTheirPlan, CallKnowsItsPlan, DumpsMatch, DumpMatches, InfobaseFollowsCall, BackupFollowsCall
  <2>6. BackupFollowsCall'
    BY <1>4, OneServer DEF OneServer, DiscardBegin, Enter, CallsKnowTheirPlan, CallKnowsItsPlan, InfobaseFollowsCall, BackupFollowsCall, HolderIsBackedUp, HolderBackedUp
  <2>7. HolderIsBackedUp'
    BY <1>4, OneServer DEF OneServer, DiscardBegin, Enter, CallsKnowTheirPlan, CallKnowsItsPlan, DumpsMatch, DumpMatches, BackupFollowsCall, HolderIsBackedUp, HolderBackedUp
  <2>8. QED
    BY <2>1, <2>2, <2>3, <2>4, <2>5, <2>6, <2>7 DEF Strengthening
<1>5. ASSUME NEW p \in Servers, PrepareValidate(p) PROVE Strengthening'
  <2>1. FreshIds'
    BY <1>5, OneServer DEF OneServer, PrepareValidate, Goto, Return, FreshIds, CallsUseDrawnIds
  <2>2. CallsUseDrawnIds'
    BY <1>5, OneServer DEF OneServer, PrepareValidate, Goto, Return, FreshIds, CallsUseDrawnIds
  <2>3. CallsKnowTheirPlan'
    <3> SUFFICES ASSUME NEW q \in Servers PROVE CallKnowsItsPlan(q)'
      BY DEF CallsKnowTheirPlan
    <3>1. q = p /\ cur[p] \in Plans
      BY <1>5, OneServer DEF OneServer, PrepareValidate, Goto
    <3>2. pc'[p] = "save" /\ canonical'[cur[p]] = Whole(CloneOf(mem[p])) /\ UNCHANGED <<plan, cur, mem, removed>>
      BY <1>5, <3>1 DEF PrepareValidate, Goto
    <3>3. CloneOf(mem[p])' = CloneOf(mem[p])
      BY <3>2 DEF CloneOf
    <3>4. QED
      BY <1>5, <3>1, <3>2, <3>3 DEF PrepareValidate, Goto, CallsKnowTheirPlan, CallKnowsItsPlan
  <2>4. DumpsMatch'
    BY <1>5, OneServer DEF OneServer, PrepareValidate, Goto, Return, CallsKnowTheirPlan, CallKnowsItsPlan, DumpsMatch, DumpMatches
  <2>5. InfobaseFollowsCall'
    BY <1>5, OneServer DEF OneServer, PrepareValidate, Goto, Return, CallsKnowTheirPlan, CallKnowsItsPlan, DumpsMatch, DumpMatches, InfobaseFollowsCall, BackupFollowsCall
  <2>6. BackupFollowsCall'
    BY <1>5, OneServer DEF OneServer, PrepareValidate, Goto, Return, CallsKnowTheirPlan, CallKnowsItsPlan, InfobaseFollowsCall, BackupFollowsCall, HolderIsBackedUp, HolderBackedUp
  <2>7. HolderIsBackedUp'
    BY <1>5, OneServer DEF OneServer, PrepareValidate, Goto, Return, CallsKnowTheirPlan, CallKnowsItsPlan, DumpsMatch, DumpMatches, BackupFollowsCall, HolderIsBackedUp, HolderBackedUp
  <2>8. QED
    BY <2>1, <2>2, <2>3, <2>4, <2>5, <2>6, <2>7 DEF Strengthening
<1>6. ASSUME NEW p \in Servers, PrepareSave(p) PROVE Strengthening'
  <2>1. FreshIds'
    BY <1>6, OneServer DEF OneServer, PrepareSave, Goto, Return, SavePlan, FreshIds, CallsUseDrawnIds
  <2>2. CallsUseDrawnIds'
    BY <1>6, OneServer DEF OneServer, PrepareSave, Goto, Return, SavePlan, FreshIds, CallsUseDrawnIds
  <2>3. CallsKnowTheirPlan'
    BY <1>6, OneServer DEF OneServer, PrepareSave, Goto, Return, SavePlan, FreshIds, CallsKnowTheirPlan, CallKnowsItsPlan
  <2>4. DumpsMatch'
    <3> SUFFICES ASSUME NEW id \in Plans PROVE DumpMatches(id)'
      BY DEF DumpsMatch
    <3>1. CASE id = cur[p]
      <4>1. plan'[id] = mem[p] /\ UNCHANGED <<canonical, removed>>
        BY <1>6, <3>1 DEF PrepareSave, Goto, SavePlan
      <4>2. CloneOf(plan'[id]) = CloneOf(mem[p])
        BY <4>1
      <4>3. /\ mem[p].target \notin mem[p].base
            /\ canonical[id] = Whole(CloneOf(mem[p]))
        BY <1>6, <3>1 DEF PrepareSave, Goto, CallsKnowTheirPlan, CallKnowsItsPlan
      <4>4. QED
        BY <4>1, <4>2, <4>3 DEF DumpMatches, CloneOf
    <3>2. CASE id # cur[p]
      BY <1>6, <3>2 DEF PrepareSave, Goto, SavePlan, DumpsMatch, DumpMatches
    <3>3. QED
      BY <3>1, <3>2
  <2>5. InfobaseFollowsCall'
    BY <1>6, OneServer DEF OneServer, PrepareSave, Goto, Return, SavePlan, CallsKnowTheirPlan, CallKnowsItsPlan, DumpsMatch, DumpMatches, InfobaseFollowsCall, BackupFollowsCall
  <2>6. BackupFollowsCall'
    BY <1>6, OneServer DEF OneServer, PrepareSave, Goto, Return, SavePlan, CallsKnowTheirPlan, CallKnowsItsPlan, InfobaseFollowsCall, BackupFollowsCall, HolderIsBackedUp, HolderBackedUp
  <2>7. HolderIsBackedUp'
    <3> SUFFICES ASSUME NEW id \in Plans PROVE HolderBackedUp(id)'
      BY DEF HolderIsBackedUp
    <3>1. CASE id = cur[p]
      BY <1>6, <3>1 DEF PrepareSave, Goto, SavePlan, CallsKnowTheirPlan, CallKnowsItsPlan, BackupFollowsCall, DumpsMatch, DumpMatches, HolderIsBackedUp, HolderBackedUp
    <3>2. CASE id # cur[p]
      BY <1>6, <3>2 DEF PrepareSave, Goto, SavePlan, HolderIsBackedUp, HolderBackedUp
    <3>3. QED
      BY <3>1, <3>2
  <2>8. QED
    BY <2>1, <2>2, <2>3, <2>4, <2>5, <2>6, <2>7 DEF Strengthening
<1>7. ASSUME NEW p \in Servers, PrepareFinish(p) PROVE Strengthening'
  BY <1>7, OneServer DEF PrepareFinish, Goto, Return, OneServer, Strengthening, FreshIds, CallsUseDrawnIds,
     CallsKnowTheirPlan, CallKnowsItsPlan, DumpsMatch, DumpMatches, InfobaseFollowsCall,
     BackupFollowsCall, HolderIsBackedUp, HolderBackedUp, CloneOf
<1>8. ASSUME NEW p \in Servers, PrepareFail(p) PROVE Strengthening'
  <2>1. FreshIds'
    BY <1>8, OneServer DEF OneServer, PrepareFail, Goto, Return, RemovePlanDir, FreshIds, CallsUseDrawnIds
  <2>2. CallsUseDrawnIds'
    BY <1>8, OneServer DEF OneServer, PrepareFail, Goto, Return, RemovePlanDir, FreshIds, CallsUseDrawnIds
  <2>3. CallsKnowTheirPlan'
    BY <1>8, OneServer DEF OneServer, PrepareFail, Goto, Return, RemovePlanDir, FreshIds, CallsKnowTheirPlan, CallKnowsItsPlan
  <2>4. DumpsMatch'
    <3> SUFFICES ASSUME NEW id \in Plans PROVE DumpMatches(id)'
      BY DEF DumpsMatch
    <3>1. CASE id = cur[p]
      BY <1>8, <3>1 DEF PrepareFail, RemovePlanDir, Return, CallsKnowTheirPlan, CallKnowsItsPlan, DumpsMatch, DumpMatches
    <3>2. CASE id # cur[p]
      BY <1>8, <3>2 DEF PrepareFail, RemovePlanDir, Return, DumpsMatch, DumpMatches
    <3>3. QED
      BY <3>1, <3>2
  <2>5. InfobaseFollowsCall'
    BY <1>8, OneServer DEF OneServer, PrepareFail, Goto, Return, RemovePlanDir, CallsKnowTheirPlan, CallKnowsItsPlan, DumpsMatch, DumpMatches, InfobaseFollowsCall, BackupFollowsCall
  <2>6. BackupFollowsCall'
    BY <1>8, OneServer DEF OneServer, PrepareFail, Goto, Return, RemovePlanDir, CallsKnowTheirPlan, CallKnowsItsPlan, InfobaseFollowsCall, BackupFollowsCall, HolderIsBackedUp, HolderBackedUp
  <2>7. HolderIsBackedUp'
    BY <1>8, OneServer DEF OneServer, PrepareFail, Goto, Return, RemovePlanDir, CallsKnowTheirPlan, CallKnowsItsPlan, DumpsMatch, DumpMatches, BackupFollowsCall, HolderIsBackedUp, HolderBackedUp
  <2>8. QED
    BY <2>1, <2>2, <2>3, <2>4, <2>5, <2>6, <2>7 DEF Strengthening
<1>9. ASSUME NEW p \in Servers, ApplyCheck(p) PROVE Strengthening'
  <2>1. FreshIds'
    BY <1>9, OneServer DEF OneServer, ApplyCheck, Goto, Return, FreshIds, CallsUseDrawnIds
  <2>2. CallsUseDrawnIds'
    BY <1>9, OneServer DEF OneServer, ApplyCheck, Goto, Return, FreshIds, CallsUseDrawnIds
  <2>3. CallsKnowTheirPlan'
    BY <1>9, OneServer DEF OneServer, ApplyCheck, Goto, Return, FreshIds, CallsKnowTheirPlan, CallKnowsItsPlan
  <2>4. DumpsMatch'
    BY <1>9, OneServer DEF OneServer, ApplyCheck, Goto, Return, CallsKnowTheirPlan, CallKnowsItsPlan, DumpsMatch, DumpMatches
  <2>5. InfobaseFollowsCall'
    BY <1>9, OneServer DEF OneServer, ApplyCheck, Goto, Return, CallsKnowTheirPlan, CallKnowsItsPlan, DumpsMatch, DumpMatches, InfobaseFollowsCall, BackupFollowsCall
  <2>6. BackupFollowsCall'
    <3>1. /\ \A q \in Servers : q = p
          /\ pc[p] = "check" /\ pc'[p] = "backup" /\ main = mem[p].base
          /\ UNCHANGED <<cur, mem, plan, backup, raced, origin>>
      BY <1>9, OneServer DEF OneServer, ApplyCheck, Goto
    <3>2. cur[p] \in Plans /\ plan[cur[p]] = mem[p] /\ mem[p].state = "prepared"
      BY <3>1 DEF CallsKnowTheirPlan, CallKnowsItsPlan
    <3>3. mem[p].target \notin mem[p].base
      BY <3>2 DEF DumpsMatch, DumpMatches
    <3>4. origin # cur[p]
      BY <3>1, <3>2, <3>3, CloneDiffers DEF HolderIsBackedUp, HolderBackedUp
    <3>5. QED
      BY <3>1, <3>4 DEF BackupFollowsCall
  <2>7. HolderIsBackedUp'
    BY <1>9, OneServer DEF OneServer, ApplyCheck, Goto, Return, CallsKnowTheirPlan, CallKnowsItsPlan, DumpsMatch, DumpMatches, BackupFollowsCall, HolderIsBackedUp, HolderBackedUp
  <2>8. QED
    BY <2>1, <2>2, <2>3, <2>4, <2>5, <2>6, <2>7 DEF Strengthening
<1>10. ASSUME NEW p \in Servers, ApplyRefuse(p) PROVE Strengthening'
  BY <1>10, OneServer DEF ApplyRefuse, Goto, Return, OneServer, Strengthening, FreshIds, CallsUseDrawnIds,
     CallsKnowTheirPlan, CallKnowsItsPlan, DumpsMatch, DumpMatches, InfobaseFollowsCall,
     BackupFollowsCall, HolderIsBackedUp, HolderBackedUp, CloneOf
<1>11. ASSUME NEW p \in Servers, ApplyBackup(p) PROVE Strengthening'
  <2>1. FreshIds'
    BY <1>11, OneServer DEF OneServer, ApplyBackup, Goto, Return, FreshIds, CallsUseDrawnIds
  <2>2. CallsUseDrawnIds'
    BY <1>11, OneServer DEF OneServer, ApplyBackup, Goto, Return, FreshIds, CallsUseDrawnIds
  <2>3. CallsKnowTheirPlan'
    BY <1>11, OneServer DEF OneServer, ApplyBackup, Goto, Return, FreshIds, CallsKnowTheirPlan, CallKnowsItsPlan
  <2>4. DumpsMatch'
    BY <1>11, OneServer DEF OneServer, ApplyBackup, Goto, Return, CallsKnowTheirPlan, CallKnowsItsPlan, DumpsMatch, DumpMatches
  <2>5. InfobaseFollowsCall'
    BY <1>11, OneServer DEF OneServer, ApplyBackup, Goto, Return, CallsKnowTheirPlan, CallKnowsItsPlan, DumpsMatch, DumpMatches, InfobaseFollowsCall, BackupFollowsCall
  <2>6. BackupFollowsCall'
    BY <1>11, OneServer DEF OneServer, ApplyBackup, Goto, Return, CallsKnowTheirPlan, CallKnowsItsPlan, InfobaseFollowsCall, BackupFollowsCall, HolderIsBackedUp, HolderBackedUp
  <2>7. HolderIsBackedUp'
    BY <1>11, OneServer DEF OneServer, ApplyBackup, Goto, Return, CallsKnowTheirPlan, CallKnowsItsPlan, DumpsMatch, DumpMatches, BackupFollowsCall, HolderIsBackedUp, HolderBackedUp
  <2>8. QED
    BY <2>1, <2>2, <2>3, <2>4, <2>5, <2>6, <2>7 DEF Strengthening
<1>12. ASSUME NEW p \in Servers, ApplyBackupFail(p) PROVE Strengthening'
  BY <1>12, OneServer DEF ApplyBackupFail, Goto, Return, OneServer, Strengthening, FreshIds, CallsUseDrawnIds,
     CallsKnowTheirPlan, CallKnowsItsPlan, DumpsMatch, DumpMatches, InfobaseFollowsCall,
     BackupFollowsCall, HolderIsBackedUp, HolderBackedUp, CloneOf
<1>13. ASSUME NEW p \in Servers, ApplyRecord(p) PROVE Strengthening'
  <2>1. FreshIds'
    BY <1>13, OneServer DEF OneServer, ApplyRecord, Goto, Return, SavePlan, FreshIds, CallsUseDrawnIds
  <2>2. CallsUseDrawnIds'
    BY <1>13, OneServer DEF OneServer, ApplyRecord, Goto, Return, SavePlan, FreshIds, CallsUseDrawnIds
  <2>3. CallsKnowTheirPlan'
    BY <1>13, OneServer DEF OneServer, ApplyRecord, Goto, Return, SavePlan, FreshIds, CallsKnowTheirPlan, CallKnowsItsPlan
  <2>4. DumpsMatch'
    <3> SUFFICES ASSUME NEW id \in Plans PROVE DumpMatches(id)'
      BY DEF DumpsMatch
    <3>1. CASE id = cur[p]
      <4>1. /\ plan'[id] = [mem[p] EXCEPT !.noted = TRUE]
            /\ UNCHANGED <<canonical, removed>>
        BY <1>13, <3>1 DEF ApplyRecord, SavePlan
      <4>2. CloneOf(plan'[id]) = CloneOf(mem[p]) /\ plan'[id].target = mem[p].target
              /\ plan'[id].base = mem[p].base
        BY <4>1, NotedManifest
      <4>3. plan[id] = mem[p] /\ plan[id].state # "none"
        BY <1>13, <3>1 DEF ApplyRecord, CallsKnowTheirPlan, CallKnowsItsPlan
      <4>4. QED
        BY <4>1, <4>2, <4>3 DEF DumpsMatch, DumpMatches, CloneOf
    <3>2. CASE id # cur[p]
      BY <1>13, <3>2 DEF ApplyRecord, SavePlan, DumpsMatch, DumpMatches
    <3>3. QED
      BY <3>1, <3>2
  <2>5. InfobaseFollowsCall'
    BY <1>13, OneServer DEF OneServer, ApplyRecord, Goto, Return, SavePlan, CallsKnowTheirPlan, CallKnowsItsPlan, DumpsMatch, DumpMatches, InfobaseFollowsCall, BackupFollowsCall
  <2>6. BackupFollowsCall'
    BY <1>13, OneServer DEF OneServer, ApplyRecord, Goto, Return, SavePlan, CallsKnowTheirPlan, CallKnowsItsPlan, InfobaseFollowsCall, BackupFollowsCall, HolderIsBackedUp, HolderBackedUp
  <2>7. HolderIsBackedUp'
    BY <1>13, OneServer DEF OneServer, ApplyRecord, Goto, Return, SavePlan, CallsKnowTheirPlan, CallKnowsItsPlan, DumpsMatch, DumpMatches, BackupFollowsCall, HolderIsBackedUp, HolderBackedUp
  <2>8. QED
    BY <2>1, <2>2, <2>3, <2>4, <2>5, <2>6, <2>7 DEF Strengthening
<1>14. ASSUME NEW p \in Servers, ApplyRecordFail(p) PROVE Strengthening'
  BY <1>14, OneServer DEF ApplyRecordFail, Goto, Return, OneServer, Strengthening, FreshIds, CallsUseDrawnIds,
     CallsKnowTheirPlan, CallKnowsItsPlan, DumpsMatch, DumpMatches, InfobaseFollowsCall,
     BackupFollowsCall, HolderIsBackedUp, HolderBackedUp, CloneOf
<1>15. ASSUME NEW p \in Servers, ApplyLoad(p) PROVE Strengthening'
  <2>1. FreshIds'
    BY <1>15, OneServer DEF OneServer, ApplyLoad, Goto, Return, LoadCanonical, FreshIds, CallsUseDrawnIds
  <2>2. CallsUseDrawnIds'
    BY <1>15, OneServer DEF OneServer, ApplyLoad, Goto, Return, LoadCanonical, FreshIds, CallsUseDrawnIds
  <2>3. CallsKnowTheirPlan'
    BY <1>15, OneServer DEF OneServer, ApplyLoad, Goto, Return, LoadCanonical, FreshIds, CallsKnowTheirPlan, CallKnowsItsPlan
  <2>4. DumpsMatch'
    BY <1>15, OneServer DEF OneServer, ApplyLoad, Goto, Return, LoadCanonical, CallsKnowTheirPlan, CallKnowsItsPlan, DumpsMatch, DumpMatches
  <2>5. InfobaseFollowsCall'
    <3>1. /\ \A q \in Servers : q = p
          /\ pc[p] = "load" /\ pc'[p] = "update"
          /\ canonical[cur[p]].whole /\ main' = canonical[cur[p]].config
          /\ UNCHANGED <<cur, mem, plan, raced>>
      BY <1>15, OneServer DEF OneServer, ApplyLoad, LoadCanonical, Goto
    <3>2. plan[cur[p]] = mem[p] /\ mem[p].state = "prepared"
      BY <3>1 DEF CallsKnowTheirPlan, CallKnowsItsPlan
    <3>3. main' = CloneOf(mem[p])
      BY <3>1, <3>2 DEF DumpsMatch, DumpMatches
    <3>4. QED
      BY <3>1, <3>3 DEF InfobaseFollowsCall, CloneOf
  <2>6. BackupFollowsCall'
    BY <1>15, OneServer DEF OneServer, ApplyLoad, Goto, Return, LoadCanonical, CallsKnowTheirPlan, CallKnowsItsPlan, InfobaseFollowsCall, BackupFollowsCall, HolderIsBackedUp, HolderBackedUp
  <2>7. HolderIsBackedUp'
    <3>1. pc[p] = "load" /\ UNCHANGED <<plan, backup, raced, removed>>
      BY <1>15 DEF ApplyLoad, Goto
    <3>2. /\ plan[cur[p]] = mem[p] /\ mem[p].state = "prepared" /\ mem[p].noted
          /\ backup[cur[p]].whole
          /\ cur[p] \notin raced => backup[cur[p]].config = mem[p].base
      BY <3>1 DEF CallsKnowTheirPlan, CallKnowsItsPlan, BackupFollowsCall
    <3>3. CASE LoadCanonical(cur[p])
      <4>1. main' = CloneOf(mem[p]) /\ origin' = cur[p]
        BY <3>1, <3>2, <3>3 DEF LoadCanonical, DumpsMatch, DumpMatches
      <4>2. QED
        BY <3>1, <3>2, <4>1 DEF HolderIsBackedUp, HolderBackedUp, CloneOf
    <3>4. CASE UNCHANGED <<main, origin>>
      BY <3>1, <3>4 DEF HolderIsBackedUp, HolderBackedUp, CloneOf
    <3>5. QED
      BY <1>15, <3>3, <3>4 DEF ApplyLoad
  <2>8. QED
    BY <2>1, <2>2, <2>3, <2>4, <2>5, <2>6, <2>7 DEF Strengthening
<1>16. ASSUME NEW p \in Servers, ApplyLoadFail(p) PROVE Strengthening'
  <2>1. FreshIds'
    BY <1>16, OneServer DEF OneServer, ApplyLoadFail, Goto, Return, LoadCanonical, FreshIds, CallsUseDrawnIds
  <2>2. CallsUseDrawnIds'
    BY <1>16, OneServer DEF OneServer, ApplyLoadFail, Goto, Return, LoadCanonical, FreshIds, CallsUseDrawnIds
  <2>3. CallsKnowTheirPlan'
    BY <1>16, OneServer DEF OneServer, ApplyLoadFail, Goto, Return, LoadCanonical, FreshIds, CallsKnowTheirPlan, CallKnowsItsPlan
  <2>4. DumpsMatch'
    BY <1>16, OneServer DEF OneServer, ApplyLoadFail, Goto, Return, LoadCanonical, CallsKnowTheirPlan, CallKnowsItsPlan, DumpsMatch, DumpMatches
  <2>5. InfobaseFollowsCall'
    BY <1>16, OneServer DEF OneServer, ApplyLoadFail, Goto, Return, LoadCanonical, CallsKnowTheirPlan, CallKnowsItsPlan, DumpsMatch, DumpMatches, InfobaseFollowsCall, BackupFollowsCall
  <2>6. BackupFollowsCall'
    BY <1>16, OneServer DEF OneServer, ApplyLoadFail, Goto, Return, LoadCanonical, CallsKnowTheirPlan, CallKnowsItsPlan, InfobaseFollowsCall, BackupFollowsCall, HolderIsBackedUp, HolderBackedUp
  <2>7. HolderIsBackedUp'
    <3>1. pc[p] = "load" /\ UNCHANGED <<plan, backup, raced, removed>>
      BY <1>16 DEF ApplyLoadFail, Goto
    <3>2. /\ plan[cur[p]] = mem[p] /\ mem[p].state = "prepared" /\ mem[p].noted
          /\ backup[cur[p]].whole
          /\ cur[p] \notin raced => backup[cur[p]].config = mem[p].base
      BY <3>1 DEF CallsKnowTheirPlan, CallKnowsItsPlan, BackupFollowsCall
    <3>3. CASE LoadCanonical(cur[p])
      <4>1. main' = CloneOf(mem[p]) /\ origin' = cur[p]
        BY <3>1, <3>2, <3>3 DEF LoadCanonical, DumpsMatch, DumpMatches
      <4>2. QED
        BY <3>1, <3>2, <4>1 DEF HolderIsBackedUp, HolderBackedUp, CloneOf
    <3>4. CASE UNCHANGED <<main, origin>>
      BY <3>1, <3>4 DEF HolderIsBackedUp, HolderBackedUp, CloneOf
    <3>5. QED
      BY <1>16, <3>3, <3>4 DEF ApplyLoadFail
  <2>8. QED
    BY <2>1, <2>2, <2>3, <2>4, <2>5, <2>6, <2>7 DEF Strengthening
<1>17. ASSUME NEW p \in Servers, ApplyUpdate(p) PROVE Strengthening'
  <2>1. FreshIds'
    BY <1>17, OneServer DEF OneServer, ApplyUpdate, Goto, Return, FreshIds, CallsUseDrawnIds
  <2>2. CallsUseDrawnIds'
    BY <1>17, OneServer DEF OneServer, ApplyUpdate, Goto, Return, FreshIds, CallsUseDrawnIds
  <2>3. CallsKnowTheirPlan'
    BY <1>17, OneServer DEF OneServer, ApplyUpdate, Goto, Return, FreshIds, CallsKnowTheirPlan, CallKnowsItsPlan
  <2>4. DumpsMatch'
    BY <1>17, OneServer DEF OneServer, ApplyUpdate, Goto, Return, CallsKnowTheirPlan, CallKnowsItsPlan, DumpsMatch, DumpMatches
  <2>5. InfobaseFollowsCall'
    BY <1>17, OneServer DEF OneServer, ApplyUpdate, Goto, Return, CallsKnowTheirPlan, CallKnowsItsPlan, DumpsMatch, DumpMatches, InfobaseFollowsCall, BackupFollowsCall
  <2>6. BackupFollowsCall'
    BY <1>17, OneServer DEF OneServer, ApplyUpdate, Goto, Return, CallsKnowTheirPlan, CallKnowsItsPlan, InfobaseFollowsCall, BackupFollowsCall, HolderIsBackedUp, HolderBackedUp
  <2>7. HolderIsBackedUp'
    BY <1>17, OneServer DEF OneServer, ApplyUpdate, Goto, Return, CallsKnowTheirPlan, CallKnowsItsPlan, DumpsMatch, DumpMatches, BackupFollowsCall, HolderIsBackedUp, HolderBackedUp
  <2>8. QED
    BY <2>1, <2>2, <2>3, <2>4, <2>5, <2>6, <2>7 DEF Strengthening
<1>18. ASSUME NEW p \in Servers, ApplyUpdateFail(p) PROVE Strengthening'
  BY <1>18, OneServer DEF ApplyUpdateFail, Goto, Return, OneServer, Strengthening, FreshIds, CallsUseDrawnIds,
     CallsKnowTheirPlan, CallKnowsItsPlan, DumpsMatch, DumpMatches, InfobaseFollowsCall,
     BackupFollowsCall, HolderIsBackedUp, HolderBackedUp, CloneOf
<1>19. ASSUME NEW p \in Servers, ApplyVerify(p) PROVE Strengthening'
  <2>1. FreshIds'
    BY <1>19, OneServer DEF OneServer, ApplyVerify, Goto, Return, FreshIds, CallsUseDrawnIds
  <2>2. CallsUseDrawnIds'
    BY <1>19, OneServer DEF OneServer, ApplyVerify, Goto, Return, FreshIds, CallsUseDrawnIds
  <2>3. CallsKnowTheirPlan'
    BY <1>19, OneServer DEF OneServer, ApplyVerify, Goto, Return, FreshIds, CallsKnowTheirPlan, CallKnowsItsPlan
  <2>4. DumpsMatch'
    BY <1>19, OneServer DEF OneServer, ApplyVerify, Goto, Return, CallsKnowTheirPlan, CallKnowsItsPlan, DumpsMatch, DumpMatches
  <2>5. InfobaseFollowsCall'
    BY <1>19, OneServer DEF OneServer, ApplyVerify, Goto, Return, CallsKnowTheirPlan, CallKnowsItsPlan, DumpsMatch, DumpMatches, InfobaseFollowsCall, BackupFollowsCall
  <2>6. BackupFollowsCall'
    BY <1>19, OneServer DEF OneServer, ApplyVerify, Goto, Return, CallsKnowTheirPlan, CallKnowsItsPlan, InfobaseFollowsCall, BackupFollowsCall, HolderIsBackedUp, HolderBackedUp
  <2>7. HolderIsBackedUp'
    BY <1>19, OneServer DEF OneServer, ApplyVerify, Goto, Return, CallsKnowTheirPlan, CallKnowsItsPlan, DumpsMatch, DumpMatches, BackupFollowsCall, HolderIsBackedUp, HolderBackedUp
  <2>8. QED
    BY <2>1, <2>2, <2>3, <2>4, <2>5, <2>6, <2>7 DEF Strengthening
<1>20. ASSUME NEW p \in Servers, ApplyVerifyMissing(p) PROVE Strengthening'
  <2>1. FreshIds'
    BY <1>20, OneServer DEF OneServer, ApplyVerifyMissing, Goto, Return, FreshIds, CallsUseDrawnIds
  <2>2. CallsUseDrawnIds'
    BY <1>20, OneServer DEF OneServer, ApplyVerifyMissing, Goto, Return, FreshIds, CallsUseDrawnIds
  <2>3. CallsKnowTheirPlan'
    BY <1>20, OneServer DEF OneServer, ApplyVerifyMissing, Goto, Return, FreshIds, CallsKnowTheirPlan, CallKnowsItsPlan
  <2>4. DumpsMatch'
    BY <1>20, OneServer DEF OneServer, ApplyVerifyMissing, Goto, Return, CallsKnowTheirPlan, CallKnowsItsPlan, DumpsMatch, DumpMatches
  <2>5. InfobaseFollowsCall'
    BY <1>20, OneServer DEF OneServer, ApplyVerifyMissing, Goto, Return, CallsKnowTheirPlan, CallKnowsItsPlan, DumpsMatch, DumpMatches, InfobaseFollowsCall, BackupFollowsCall
  <2>6. BackupFollowsCall'
    BY <1>20, OneServer DEF OneServer, ApplyVerifyMissing, Goto, Return, CallsKnowTheirPlan, CallKnowsItsPlan, InfobaseFollowsCall, BackupFollowsCall, HolderIsBackedUp, HolderBackedUp
  <2>7. HolderIsBackedUp'
    BY <1>20, OneServer DEF OneServer, ApplyVerifyMissing, Goto, Return, CallsKnowTheirPlan, CallKnowsItsPlan, DumpsMatch, DumpMatches, BackupFollowsCall, HolderIsBackedUp, HolderBackedUp
  <2>8. QED
    BY <2>1, <2>2, <2>3, <2>4, <2>5, <2>6, <2>7 DEF Strengthening
<1>21. ASSUME NEW p \in Servers, ApplyVerifyUnreadable(p) PROVE Strengthening'
  BY <1>21, OneServer DEF ApplyVerifyUnreadable, Goto, Return, OneServer, Strengthening, FreshIds, CallsUseDrawnIds,
     CallsKnowTheirPlan, CallKnowsItsPlan, DumpsMatch, DumpMatches, InfobaseFollowsCall,
     BackupFollowsCall, HolderIsBackedUp, HolderBackedUp, CloneOf
<1>22. ASSUME NEW p \in Servers, ApplyCommit(p) PROVE Strengthening'
  BY <1>22, CloseStep DEF ApplyCommit, Settled
<1>23. ASSUME NEW p \in Servers, RollbackLoad(p) PROVE Strengthening'
  BY <1>23, OneServer DEF RollbackLoad, Goto, Return, Restore, OneServer, Strengthening, FreshIds, CallsUseDrawnIds,
     CallsKnowTheirPlan, CallKnowsItsPlan, DumpsMatch, DumpMatches, InfobaseFollowsCall,
     BackupFollowsCall, HolderIsBackedUp, HolderBackedUp, CloneOf
<1>24. ASSUME NEW p \in Servers, RollbackLoadFail(p) PROVE Strengthening'
  BY <1>24, OneServer DEF RollbackLoadFail, Goto, Return, Restore, OneServer, Strengthening, FreshIds, CallsUseDrawnIds,
     CallsKnowTheirPlan, CallKnowsItsPlan, DumpsMatch, DumpMatches, InfobaseFollowsCall,
     BackupFollowsCall, HolderIsBackedUp, HolderBackedUp, CloneOf
<1>25. ASSUME NEW p \in Servers, RollbackUpdate(p) PROVE Strengthening'
  <2>1. FreshIds'
    BY <1>25, OneServer DEF OneServer, RollbackUpdate, Goto, Return, FreshIds, CallsUseDrawnIds
  <2>2. CallsUseDrawnIds'
    BY <1>25, OneServer DEF OneServer, RollbackUpdate, Goto, Return, FreshIds, CallsUseDrawnIds
  <2>3. CallsKnowTheirPlan'
    BY <1>25, OneServer DEF OneServer, RollbackUpdate, Goto, Return, FreshIds, CallsKnowTheirPlan, CallKnowsItsPlan
  <2>4. DumpsMatch'
    BY <1>25, OneServer DEF OneServer, RollbackUpdate, Goto, Return, CallsKnowTheirPlan, CallKnowsItsPlan, DumpsMatch, DumpMatches
  <2>5. InfobaseFollowsCall'
    BY <1>25, OneServer DEF OneServer, RollbackUpdate, Goto, Return, CallsKnowTheirPlan, CallKnowsItsPlan, DumpsMatch, DumpMatches, InfobaseFollowsCall, BackupFollowsCall
  <2>6. BackupFollowsCall'
    BY <1>25, OneServer DEF OneServer, RollbackUpdate, Goto, Return, CallsKnowTheirPlan, CallKnowsItsPlan, InfobaseFollowsCall, BackupFollowsCall, HolderIsBackedUp, HolderBackedUp
  <2>7. HolderIsBackedUp'
    BY <1>25, OneServer DEF OneServer, RollbackUpdate, Goto, Return, CallsKnowTheirPlan, CallKnowsItsPlan, DumpsMatch, DumpMatches, BackupFollowsCall, HolderIsBackedUp, HolderBackedUp
  <2>8. QED
    BY <2>1, <2>2, <2>3, <2>4, <2>5, <2>6, <2>7 DEF Strengthening
<1>26. ASSUME NEW p \in Servers, RollbackUpdateFail(p) PROVE Strengthening'
  BY <1>26, OneServer DEF RollbackUpdateFail, Goto, Return, OneServer, Strengthening, FreshIds, CallsUseDrawnIds,
     CallsKnowTheirPlan, CallKnowsItsPlan, DumpsMatch, DumpMatches, InfobaseFollowsCall,
     BackupFollowsCall, HolderIsBackedUp, HolderBackedUp, CloneOf
<1>27. ASSUME NEW p \in Servers, RollbackDone(p) PROVE Strengthening'
  BY <1>27, CloseStep DEF RollbackDone, Settled
<1>28. ASSUME NEW p \in Servers, RollbackFailed(p) PROVE Strengthening'
  BY <1>28, CloseStep DEF RollbackFailed, Settled
<1>29. ASSUME NEW p \in Servers, DiscardRemove(p) PROVE Strengthening'
  <2>1. FreshIds'
    BY <1>29, OneServer DEF OneServer, DiscardRemove, Goto, Return, RemovePlanDir, FreshIds, CallsUseDrawnIds
  <2>2. CallsUseDrawnIds'
    BY <1>29, OneServer DEF OneServer, DiscardRemove, Goto, Return, RemovePlanDir, FreshIds, CallsUseDrawnIds
  <2>3. CallsKnowTheirPlan'
    BY <1>29, OneServer DEF OneServer, DiscardRemove, Goto, Return, RemovePlanDir, FreshIds, CallsKnowTheirPlan, CallKnowsItsPlan
  <2>4. DumpsMatch'
    <3> SUFFICES ASSUME NEW id \in Plans PROVE DumpMatches(id)'
      BY DEF DumpsMatch
    <3>1. CASE id = cur[p]
      BY <1>29, <3>1 DEF DiscardRemove, RemovePlanDir, Return, CallsKnowTheirPlan, CallKnowsItsPlan, DumpsMatch, DumpMatches
    <3>2. CASE id # cur[p]
      BY <1>29, <3>2 DEF DiscardRemove, RemovePlanDir, Return, DumpsMatch, DumpMatches
    <3>3. QED
      BY <3>1, <3>2
  <2>5. InfobaseFollowsCall'
    BY <1>29, OneServer DEF OneServer, DiscardRemove, Goto, Return, RemovePlanDir, CallsKnowTheirPlan, CallKnowsItsPlan, DumpsMatch, DumpMatches, InfobaseFollowsCall, BackupFollowsCall
  <2>6. BackupFollowsCall'
    BY <1>29, OneServer DEF OneServer, DiscardRemove, Goto, Return, RemovePlanDir, CallsKnowTheirPlan, CallKnowsItsPlan, InfobaseFollowsCall, BackupFollowsCall, HolderIsBackedUp, HolderBackedUp
  <2>7. HolderIsBackedUp'
    BY <1>29, OneServer DEF OneServer, DiscardRemove, Goto, Return, RemovePlanDir, CallsKnowTheirPlan, CallKnowsItsPlan, DumpsMatch, DumpMatches, BackupFollowsCall, HolderIsBackedUp, HolderBackedUp
  <2>8. QED
    BY <2>1, <2>2, <2>3, <2>4, <2>5, <2>6, <2>7 DEF Strengthening
<1>30. ASSUME NEW p \in Servers, Crash(p) PROVE Strengthening'
  BY <1>30, OneServer DEF Crash, Return, OneServer, Strengthening, FreshIds, CallsUseDrawnIds,
     CallsKnowTheirPlan, CallKnowsItsPlan, DumpsMatch, DumpMatches, InfobaseFollowsCall,
     BackupFollowsCall, HolderIsBackedUp, HolderBackedUp, CloneOf
<1>31. CASE EditMain
  BY <1>31, OneServer DEF EditMain, OneServer, Strengthening, FreshIds, CallsUseDrawnIds,
     CallsKnowTheirPlan, CallKnowsItsPlan, DumpsMatch, DumpMatches, InfobaseFollowsCall,
     BackupFollowsCall, HolderIsBackedUp, HolderBackedUp, CloneOf
<1>32. CASE EditDb
  BY <1>32, OneServer DEF EditDb, OneServer, Strengthening, FreshIds, CallsUseDrawnIds,
     CallsKnowTheirPlan, CallKnowsItsPlan, DumpsMatch, DumpMatches, InfobaseFollowsCall,
     BackupFollowsCall, HolderIsBackedUp, HolderBackedUp, CloneOf
<1>33. QED
  BY <1>1, <1>2, <1>3, <1>4, <1>5, <1>6, <1>7, <1>8, <1>9, <1>10, <1>11, <1>12, <1>13, <1>14, <1>15, <1>16, <1>17, <1>18, <1>19, <1>20, <1>21, <1>22, <1>23, <1>24, <1>25, <1>26, <1>27, <1>28, <1>29, <1>30, <1>31, <1>32 DEF Next, Step, Request

\* Together with the types, the strengthening is inductive.
LEMMA Inductive == OneServer => (Spec => []IInv)
<1> SUFFICES ASSUME OneServer PROVE Spec => []IInv
  OBVIOUS
<1>1. Init => IInv
  <2> SUFFICES ASSUME Init PROVE IInv
    OBVIOUS
  <2>1. TypeOK /\ Engaged
    BY ConstantsAssumption, Values DEF Init, TypeOK, Engaged
  <2>2. FreshIds /\ CallsUseDrawnIds /\ CallsKnowTheirPlan
    BY ConstantsAssumption DEF Init, FreshIds, CallsUseDrawnIds, CallsKnowTheirPlan,
       CallKnowsItsPlan, NoManifest, Applying
  <2>3. DumpsMatch /\ InfobaseFollowsCall
    BY DEF Init, DumpsMatch, DumpMatches, InfobaseFollowsCall, NoManifest, Applying
  <2>4. BackupFollowsCall /\ HolderIsBackedUp
    BY ConstantsAssumption DEF Init, BackupFollowsCall, HolderIsBackedUp, HolderBackedUp,
       Applying
  <2>5. QED
    BY <2>1, <2>2, <2>3, <2>4 DEF IInv
<1>2. IInv /\ [Next]_vars => IInv'
  <2> SUFFICES ASSUME IInv, [Next]_vars PROVE IInv'
    OBVIOUS
  <2>1. TypeOK' /\ Engaged'
    BY TypeStep DEF IInv
  <2>2. Strengthening'
    BY StrengtheningStep
  <2>3. QED
    BY <2>1, <2>2 DEF IInv, Strengthening
<1>3. QED
  BY <1>1, <1>2, PTL DEF Spec

-----------------------------------------------------------------------------
(* The properties *)

\* While the infobase holds a plan's content, its backup is on the disk and whole.
THEOREM BackupTheorem == OneServer => (Spec => []BackupOutlivesChange)
<1> SUFFICES ASSUME OneServer PROVE Spec => []BackupOutlivesChange
  OBVIOUS
<1>1. IInv => BackupOutlivesChange
  BY DEF IInv, HolderIsBackedUp, HolderBackedUp, BackupOutlivesChange
<1>2. QED
  BY <1>1, Inductive, PTL

\* A manifest on the disk belongs to a plan validated to the end.
THEOREM PreparedTheorem == OneServer => (Spec => []PreparedIsComplete)
<1> SUFFICES ASSUME OneServer PROVE Spec => []PreparedIsComplete
  OBVIOUS
<1>1. IInv => PreparedIsComplete
  BY DEF IInv, DumpsMatch, DumpMatches, PreparedIsComplete
<1>2. QED
  BY <1>1, Inductive, PTL

\* Only LoadConfigFromFiles makes a plan the holder of the infobase.
LEMMA OnlyLoadInstalls ==
  ASSUME [Next]_vars, NEW id \in Plans, origin # id, origin' = id, ConstantsAssumption
  PROVE  \E p \in Servers : pc[p] = "load" /\ cur[p] = id
<1> USE DEF infobase, disk, call, bounds, history
<1>1. CASE UNCHANGED vars
  BY <1>1 DEF vars
<1>2. CASE EditMain \/ EditDb
  BY <1>2 DEF EditMain, EditDb
<1>3. ASSUME NEW p \in Servers, Request(p) \/ Crash(p) PROVE FALSE
  BY <1>3 DEF Request, PrepareStage, ApplyBegin, DiscardBegin, Crash
<1>4. ASSUME NEW p \in Servers, Step(p) PROVE pc[p] = "load" /\ cur[p] = id
  <2>1. CASE ApplyLoad(p) \/ ApplyLoadFail(p)
    BY <2>1 DEF ApplyLoad, ApplyLoadFail, Goto, LoadCanonical
  <2>2. CASE RollbackLoad(p) \/ RollbackLoadFail(p)
    BY <2>2 DEF RollbackLoad, RollbackLoadFail, Restore, ConstantsAssumption
  <2>3. CASE ~(ApplyLoad(p) \/ ApplyLoadFail(p) \/ RollbackLoad(p) \/ RollbackLoadFail(p))
    BY <1>4, <2>3 DEF Step, PrepareValidate, PrepareSave, PrepareFinish, PrepareFail,
       ApplyCheck, ApplyRefuse, ApplyBackup, ApplyBackupFail, ApplyRecord,
       ApplyRecordFail, ApplyUpdate, ApplyUpdateFail, ApplyVerify, ApplyVerifyMissing,
       ApplyVerifyUnreadable, ApplyCommit, RollbackUpdate, RollbackUpdateFail,
       RollbackDone, RollbackFailed, DiscardRemove, Close
  <2>4. QED
    BY <2>1, <2>2, <2>3
<1>5. QED
  BY <1>1, <1>2, <1>3, <1>4 DEF Next

\* A plan is loaded only while it is prepared and its backup noted, and only over
\* the configuration it was prepared from.
THEOREM FreshPlanTheorem == OneServer => (Spec => LoadsOnlyFreshPlan)
<1> SUFFICES ASSUME OneServer PROVE Spec => LoadsOnlyFreshPlan
  OBVIOUS
<1> DEFINE LoadsFresh == \A id \in Plans : (origin # id /\ origin' = id) =>
             /\ plan[id].state = "prepared" /\ plan[id].noted
             /\ id \notin raced => main = plan[id].base
<1>1. IInv /\ [Next]_vars => [LoadsFresh]_vars
  <2> SUFFICES ASSUME IInv, [Next]_vars, NEW id \in Plans, origin # id, origin' = id
               PROVE  /\ plan[id].state = "prepared" /\ plan[id].noted
                      /\ id \notin raced => main = plan[id].base
    OBVIOUS
  <2>1. PICK p \in Servers : pc[p] = "load" /\ cur[p] = id
    BY OnlyLoadInstalls, ConstantsAssumption
  <2>2. QED
    BY <2>1 DEF IInv, CallsKnowTheirPlan, CallKnowsItsPlan, InfobaseFollowsCall, Applying
<1>2. QED
  BY <1>1, Inductive, PTL DEF Spec, LoadsOnlyFreshPlan

\* Only the three last saves of an apply settle a plan.
LEMMA OnlyCloseSettles ==
  ASSUME OneServer, IInv, [Next]_vars, NEW id \in Plans, plan'[id] # plan[id],
         plan'[id].state \in Settled
  PROVE  \E p \in Servers :
           /\ cur[p] = id
           /\ plan[id].state = "prepared" /\ plan'[id].state # "prepared"
           /\ \/ pc[p] = "commit" /\ plan'[id].state = "applied"
              \/ pc[p] = "markRolledBack" /\ plan'[id].state = "rolled_back"
              \/ pc[p] = "markFailed" /\ plan'[id].state = "rollback_failed"
<1> USE ConstantsAssumption DEF infobase, disk, call, bounds, history, IInv, TypeOK, Settled
<1>1. CASE UNCHANGED vars
  BY <1>1 DEF vars
<1>2. CASE EditMain \/ EditDb
  BY <1>2 DEF EditMain, EditDb
<1>3. ASSUME NEW p \in Servers, Request(p) \/ Crash(p) PROVE FALSE
  BY <1>3 DEF Request, PrepareStage, ApplyBegin, DiscardBegin, Crash
<1>4. ASSUME NEW p \in Servers, NEW state \in Settled,
             NEW from \in {"commit", "markRolledBack", "markFailed"}, Close(p, from, state)
      PROVE  cur[p] = id /\ pc[p] = from /\ plan[id].state = "prepared"
               /\ plan'[id].state = state
  <2>1. plan' = [plan EXCEPT ![cur[p]] = [mem[p] EXCEPT !.state = state]]
    BY <1>4 DEF Close, SavePlan
  <2>2. cur[p] = id
    BY <2>1
  <2>3. plan[id] = mem[p] /\ mem[p].state = "prepared" /\ mem[p] \in Manifest
    BY <1>4, <2>2 DEF Close, CallsKnowTheirPlan, CallKnowsItsPlan, Applying
  <2>4. plan'[id].state = state
    BY <2>1, <2>2, <2>3, SettledManifest
  <2>5. QED
    BY <1>4, <2>2, <2>3, <2>4 DEF Close
<1>5. ASSUME NEW p \in Servers, PrepareSave(p) \/ ApplyRecord(p) PROVE FALSE
  <2>1. CASE PrepareSave(p)
    BY <2>1 DEF PrepareSave, SavePlan, Goto, CallsKnowTheirPlan, CallKnowsItsPlan
  <2>2. CASE ApplyRecord(p)
    <3>1. plan' = [plan EXCEPT ![cur[p]] = [mem[p] EXCEPT !.noted = TRUE]]
      BY <2>2 DEF ApplyRecord, SavePlan
    <3>2. mem[p].state = "prepared" /\ mem[p] \in Manifest
      BY <2>2 DEF ApplyRecord, CallsKnowTheirPlan, CallKnowsItsPlan, Applying
    <3>3. QED
      BY <3>1, <3>2, NotedManifest
  <2>3. QED
    BY <1>5, <2>1, <2>2
<1>6. ASSUME NEW p \in Servers, PrepareFail(p) \/ DiscardRemove(p) PROVE FALSE
  BY <1>6 DEF PrepareFail, DiscardRemove, RemovePlanDir, NoManifest
<1>7. ASSUME NEW p \in Servers, Step(p),
             ~(PrepareFail(p) \/ DiscardRemove(p) \/ PrepareSave(p) \/ ApplyRecord(p)),
             ~(ApplyCommit(p) \/ RollbackDone(p) \/ RollbackFailed(p))
      PROVE  FALSE
  BY <1>7 DEF Step, PrepareValidate, PrepareFinish, ApplyCheck, ApplyRefuse, ApplyBackup,
     ApplyBackupFail, ApplyRecordFail, ApplyLoad, ApplyLoadFail, ApplyUpdate,
     ApplyUpdateFail, ApplyVerify, ApplyVerifyMissing, ApplyVerifyUnreadable,
     RollbackLoad, RollbackLoadFail, RollbackUpdate, RollbackUpdateFail
<1>8. QED
  BY <1>1, <1>2, <1>3, <1>4, <1>5, <1>6, <1>7
     DEF Next, ApplyCommit, RollbackDone, RollbackFailed

\* "applied" and "rolled_back" are written only when they are true of the infobase.
THEOREM TruthTheorem == OneServer => (Spec => SettlesTruthfully)
<1> SUFFICES ASSUME OneServer PROVE Spec => SettlesTruthfully
  OBVIOUS
<1> DEFINE Truth == \A id \in Plans \ raced :
             /\ Becomes(id, "applied") => main = CloneOf(plan[id]) /\ db = main
             /\ Becomes(id, "rolled_back") => main = plan[id].base /\ db = main
<1>1. IInv /\ [Next]_vars => [Truth]_vars
  <2> SUFFICES ASSUME IInv, [Next]_vars, NEW id \in Plans \ raced,
                      NEW state \in {"applied", "rolled_back"}, Becomes(id, state)
               PROVE  /\ state = "applied" => main = CloneOf(plan[id]) /\ db = main
                      /\ state = "rolled_back" => main = plan[id].base /\ db = main
    OBVIOUS
  <2>1. plan'[id] # plan[id] /\ plan'[id].state = state /\ state \in Settled
    BY DEF Becomes, Settled
  <2>2. PICK p \in Servers :
          /\ cur[p] = id
          /\ state = "applied" => pc[p] = "commit"
          /\ state = "rolled_back" => pc[p] = "markRolledBack"
    BY <2>1, OnlyCloseSettles
  <2>3. pc[p] \in {"commit", "markRolledBack"} => plan[id] = mem[p]
    BY <2>2 DEF IInv, CallsKnowTheirPlan, CallKnowsItsPlan, Applying
  <2>4. QED
    BY <2>2, <2>3 DEF IInv, InfobaseFollowsCall, Applying
<1>2. QED
  BY <1>1, Inductive, PTL DEF Spec, SettlesTruthfully

-----------------------------------------------------------------------------
(* The refinement of PlanLifecycle *)

\* A step changes neither the manifest nor the directory of any other plan.
OthersKept(id) ==
  \A other \in Plans \ {id} :
    plan'[other] = plan[other] /\ (other \in removed' <=> other \in removed)

\* The step of PlanLifecycle that changes one plan's status and nothing else.
LEMMA StatusStep ==
  ASSUME NEW id \in Plans, UNCHANGED origin,
         OthersKept(id)
  PROVE  /\ Status(id)' = Status(id) => UNCHANGED Lifecycle!vars
         /\ Status(id) = "none" /\ Status(id)' = "prepared" => Lifecycle!Prepare(id)
         /\ Status(id) \in {"none", "prepared"} /\ Status(id)' = "gone" => Lifecycle!Drop(id)
         /\ \A outcome \in Settled :
              (/\ Status(id) = "prepared" /\ Status(id)' = outcome
               /\ outcome = "rolled_back" => origin # id) => Lifecycle!Settle(id, outcome)
<1> DEFINE status == [i \in Plans |-> Status(i)]
<1>1. \A other \in Plans \ {id} : Status(other)' = Status(other)
  BY DEF Status, OthersKept
<1>2. status' = [status EXCEPT ![id] = Status(id)']
  BY <1>1
<1>3. Status(id)' = Status(id) => status' = status
  BY <1>1
<1>4. QED
  BY <1>2, <1>3 DEF Lifecycle!vars, Lifecycle!Prepare, Lifecycle!Drop, Lifecycle!Settle

\* A step that leaves manifests and directories alone is no step of PlanLifecycle,
\* unless it changes whose content the infobase holds.
LEMMA HolderStep ==
  ASSUME UNCHANGED <<plan, removed>>
  PROVE  /\ UNCHANGED origin => UNCHANGED Lifecycle!vars
         /\ origin' = NoPlan => Lifecycle!Overwrite
         /\ \A id \in Plans : origin' = id /\ Status(id) = "prepared" => Lifecycle!Install(id)
<1>1. \A id \in Plans : Status(id)' = Status(id)
  BY DEF Status
<1>2. QED
  BY <1>1 DEF Lifecycle!vars, Lifecycle!Overwrite, Lifecycle!Install

\* Every step of the manager is a step of PlanLifecycle or leaves it alone.
LEMMA LifecycleStep ==
  ASSUME OneServer, IInv, [Next]_vars
  PROVE  [Lifecycle!Next]_(Lifecycle!vars)
<1> USE DEF IInv, Applying, infobase, disk, call, bounds, history
<1>1. CASE UNCHANGED <<plan, removed, origin>>
  BY <1>1, HolderStep
<1>2. ASSUME NEW p \in Servers, PrepareSave(p) PROVE Lifecycle!Next
  <2>0. PICK id \in Plans : id = cur[p]
    BY <1>2 DEF PrepareSave, Goto, Engaged
  <2>1. Status(id) = "none" /\ id \notin removed
    BY <1>2, <2>0 DEF PrepareSave, Goto, CallsKnowTheirPlan, CallKnowsItsPlan, Engaged, Status
  <2>2. Status(id)' = "prepared"
    BY <1>2, <2>0, <2>1 DEF PrepareSave, Goto, SavePlan, CallsKnowTheirPlan, CallKnowsItsPlan,
       Status, TypeOK
  <2>3. OthersKept(id)
    BY <1>2, <2>0 DEF PrepareSave, SavePlan, TypeOK, OthersKept
  <2>4. UNCHANGED origin
    BY <1>2, <2>0 DEF PrepareSave
  <2>5. Lifecycle!Prepare(id)
    BY <2>1, <2>2, <2>3, <2>4, StatusStep
  <2>6. QED
    BY <2>1, <2>5 DEF Lifecycle!Next
<1>3. ASSUME NEW p \in Servers, PrepareFail(p) \/ DiscardRemove(p)
      PROVE  [Lifecycle!Next]_(Lifecycle!vars)
  <2>0. PICK id \in Plans : id = cur[p]
    BY <1>3 DEF PrepareFail, DiscardRemove, Preparing, Goto, Engaged
  <2>1. Status(id) \in {"none", "prepared"}
    BY <1>3, <2>0 DEF PrepareFail, DiscardRemove, Preparing, CallsKnowTheirPlan, CallKnowsItsPlan,
       Engaged, Status
  <2>2. Status(id)' \in {Status(id), "gone"}
    BY <1>3, <2>0, <2>1 DEF PrepareFail, DiscardRemove, RemovePlanDir, Status, NoManifest, TypeOK
  <2>3. OthersKept(id)
    BY <1>3, <2>0 DEF PrepareFail, DiscardRemove, RemovePlanDir, TypeOK, OthersKept
  <2>4. UNCHANGED origin
    BY <1>3, <2>0 DEF PrepareFail, DiscardRemove
  <2>5. Lifecycle!Drop(id) \/ UNCHANGED Lifecycle!vars
    BY <2>1, <2>2, <2>3, <2>4, StatusStep
  <2>6. QED
    BY <2>1, <2>5 DEF Lifecycle!Next
<1>4. ASSUME NEW p \in Servers, ApplyRecord(p) PROVE UNCHANGED Lifecycle!vars
  <2>0. PICK id \in Plans : id = cur[p]
    BY <1>4 DEF ApplyRecord, Goto, Engaged
  <2>1. /\ plan[id] = mem[p] /\ mem[p].state = "prepared"
        /\ mem[p] \in Manifest
    BY <1>4, <2>0 DEF ApplyRecord, CallsKnowTheirPlan, CallKnowsItsPlan, Engaged, TypeOK
  <2>2. mem'[p] = [mem[p] EXCEPT !.noted = TRUE] /\ plan' = [plan EXCEPT ![id] = mem'[p]]
    BY <1>4, <2>0 DEF ApplyRecord, SavePlan, TypeOK
  <2>3. Status(id)' = Status(id)
    BY <2>1, <2>2, NotedManifest DEF Status, TypeOK
  <2>4. OthersKept(id)
    BY <1>4, <2>0 DEF ApplyRecord, SavePlan, TypeOK, OthersKept
  <2>5. UNCHANGED origin
    BY <1>4, <2>0 DEF ApplyRecord
  <2>6. QED
    BY <2>1, <2>3, <2>4, <2>5, StatusStep
<1>5. ASSUME NEW p \in Servers, ApplyLoad(p) \/ ApplyLoadFail(p)
      PROVE  [Lifecycle!Next]_(Lifecycle!vars)
  <2>1. cur[p] \in Plans /\ Status(cur[p]) = "prepared"
    BY <1>5 DEF ApplyLoad, ApplyLoadFail, Goto, CallsKnowTheirPlan, CallKnowsItsPlan,
       Engaged, Status
  <2>2. UNCHANGED <<plan, removed>> /\ origin' \in {origin, cur[p]}
    BY <1>5 DEF ApplyLoad, ApplyLoadFail, LoadCanonical
  <2>3. QED
    BY <2>1, <2>2, HolderStep DEF Lifecycle!Next
<1>6. ASSUME NEW p \in Servers, RollbackLoad(p) \/ RollbackLoadFail(p)
      PROVE  [Lifecycle!Next]_(Lifecycle!vars)
  <2>1. UNCHANGED <<plan, removed>> /\ origin' \in {origin, NoPlan}
    BY <1>6 DEF RollbackLoad, RollbackLoadFail, Restore
  <2>2. QED
    BY <2>1, HolderStep DEF Lifecycle!Next
<1>7. ASSUME NEW p \in Servers, NEW state \in Settled,
             NEW from \in {"commit", "markRolledBack", "markFailed"}, Close(p, from, state),
             state = "rolled_back" => from = "markRolledBack"
      PROVE  [Lifecycle!Next]_(Lifecycle!vars)
  <2>0. PICK id \in Plans : id = cur[p]
    BY <1>7 DEF Close, Goto, Engaged
  <2>1. /\ plan[id] = mem[p] /\ mem[p].state = "prepared"
        /\ mem[p] \in Manifest
    BY <1>7, <2>0 DEF Close, CallsKnowTheirPlan, CallKnowsItsPlan, Engaged, TypeOK
  <2>2. UNCHANGED <<origin, removed>> /\ (state = "rolled_back" => origin # id)
    BY <1>7, <2>0 DEF Close, BackupFollowsCall
  <2>3. CASE UNCHANGED plan
    BY <2>2, <2>3, HolderStep
  <2>4. CASE plan' = [plan EXCEPT ![id] = [mem[p] EXCEPT !.state = state]]
    <3>1. Status(id)' = state /\ Status(id) = "prepared"
      BY <2>1, <2>4, SettledManifest DEF Status, TypeOK, Settled
    <3>2. OthersKept(id)
      BY <2>2, <2>4 DEF OthersKept
    <3>3. Lifecycle!Settle(id, state)
      BY <2>1, <2>2, <3>1, <3>2, StatusStep
    <3>4. QED
      BY <2>1, <3>3 DEF Lifecycle!Next, Lifecycle!Outcomes, Settled
  <2>5. QED
    BY <1>7, <2>0, <2>3, <2>4 DEF Close, SavePlan
<1>8. CASE EditMain
  BY <1>8, HolderStep DEF EditMain, Lifecycle!Next
<1>9. ASSUME NEW p \in Servers, Step(p),
             ~(PrepareFail(p) \/ DiscardRemove(p) \/ PrepareSave(p) \/ ApplyRecord(p)),
             ~(ApplyLoad(p) \/ ApplyLoadFail(p) \/ RollbackLoad(p) \/ RollbackLoadFail(p)),
             ~(ApplyCommit(p) \/ RollbackDone(p) \/ RollbackFailed(p))
      PROVE  UNCHANGED <<plan, removed, origin>>
  BY <1>9 DEF Step, PrepareValidate, PrepareFinish, ApplyCheck, ApplyRefuse, ApplyBackup,
     ApplyBackupFail, ApplyRecordFail, ApplyUpdate, ApplyUpdateFail, ApplyVerify,
     ApplyVerifyMissing, ApplyVerifyUnreadable, RollbackUpdate, RollbackUpdateFail
<1>10. ASSUME NEW p \in Servers, Request(p) \/ Crash(p) PROVE UNCHANGED <<plan, removed, origin>>
  BY <1>10 DEF Request, PrepareStage, ApplyBegin, DiscardBegin, Crash
<1>11. CASE EditDb
  BY <1>1, <1>11 DEF EditDb
<1>12. ASSUME NEW p \in Servers, Step(p) PROVE [Lifecycle!Next]_(Lifecycle!vars)
  BY <1>1, <1>2, <1>3, <1>4, <1>5, <1>6, <1>7, <1>9, <1>12
     DEF ApplyCommit, RollbackDone, RollbackFailed, Settled
<1>13. QED
  BY <1>1, <1>8, <1>10, <1>11, <1>12 DEF Next, vars

\* The manager implements PlanLifecycle: once settled or dropped a plan stays so,
\* whatever fails or is edited, and only a prepared plan is ever installed.
THEOREM RefinementTheorem == OneServer => (Spec => FollowsLifecycle)
<1> SUFFICES ASSUME OneServer PROVE Spec => FollowsLifecycle
  OBVIOUS
<1>1. Init => Lifecycle!Init
  BY DEF Init, Lifecycle!Init, Status, NoManifest
<1>2. IInv /\ [Next]_vars => [Lifecycle!Next]_(Lifecycle!vars)
  BY LifecycleStep
<1>3. QED
  BY <1>1, <1>2, Inductive, PTL DEF Spec, FollowsLifecycle, Lifecycle!Spec
=============================================================================
