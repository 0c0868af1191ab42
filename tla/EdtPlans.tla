------------------------------ MODULE EdtPlans ------------------------------
(***************************************************************************)
(* Clone plans inside EDT (edt-bridge, EdtMetadataService.java): a plan is *)
(* kept in memory with a fingerprint of the EDT project; applying it has   *)
(* EDT copy the source object, rename the copy and show it under the new   *)
(* name, and takes the copy out again when a step fails.                   *)
(*                                                                         *)
(* Requests run on threads of their own.  prepareClone and applyClone hold *)
(* the service's monitor, discard does not, and the developer who works in *)
(* EDT holds nothing at all.  EDT may refuse any request to change the     *)
(* project, and may be closed or killed at any time: the project stays,    *)
(* plans and requests are lost.                                            *)
(***************************************************************************)
EXTENDS Naturals, FiniteSets

CONSTANTS
  Calls,     \* requests that may run at once
  Names,     \* names of metadata objects, all of one type
  Started,   \* the objects of the project at the start
  NoObject,  \* no object has this name
  TTL,       \* how long a plan may be applied
  MaxPlans,  \* bound: plans prepared
  MaxEdits,  \* bound: changes made by the developer
  MaxTime    \* bound: the last moment

ASSUME PlansAssumption ==
  /\ NoObject \notin Nat /\ Started \subseteq Names
  /\ TTL \in Nat /\ MaxPlans \in Nat /\ MaxEdits \in Nat /\ MaxTime \in Nat

Ids == 1..MaxPlans

\* What the project holds: the UUID of the object that has a name, or NoObject.
Projects == [Names -> Nat \cup {NoObject}]

\* What a plan remembers: names, the source's UUID, the fingerprint and when it
\* was made.
Plan == [source : Names, target : Names, uuid : Nat,
         print : [objects : Projects, stamp : Nat], created : Nat]

VARIABLES
  project,  \* the objects of the EDT project
  stamp,    \* counts the changes of its files; the UUID of a new object is taken from it
  now,      \* the clock
  plans,    \* plans[id], for the plans the service holds
  nplans,   \* how many were prepared
  lock,     \* the requests that hold the service's monitor
  pc, job,  \* what each request does and with which plan
  edits,    \* counter of the bound
  copies,   \* history: copies[id], the UUIDs of the objects applying id attached
  applied,  \* history: plans answered as applied
  dropped,  \* history: plans discarded or expired while no request was applying them
  raced     \* history: requests during whose work the developer changed the project

history == <<copies, applied, dropped>>
service == <<plans, nplans, lock, pc, job>>
vars == <<project, stamp, now, plans, nplans, lock, pc, job, edits, copies,
          applied, dropped, raced>>

NoJob == [id |-> 0]

Init ==
  /\ project = [n \in Names |-> IF n \in Started THEN 0 ELSE NoObject]
  /\ stamp = 0 /\ now = 0
  /\ plans = [id \in {} |-> NoJob] /\ nplans = 0
  /\ lock = {} /\ pc = [c \in Calls |-> "idle"] /\ job = [c \in Calls |-> NoJob]
  /\ edits = 0
  /\ copies = [id \in Ids |-> {}] /\ applied = {} /\ dropped = {} /\ raced = {}

\* Mutant: the fingerprint covers the objects of the model, not the files.
FingerprintModelOnly == [objects |-> project, stamp |-> 0]

\* The objects of the model and the modification stamps of the files.
Fingerprint == [objects |-> project, stamp |-> stamp]

Exists(n) == project[n] # NoObject

Without(ids) == [id \in DOMAIN plans \ ids |-> plans[id]]

Applying(id) == {c \in Calls : pc[c] \in {"print", "copy", "rename", "find", "undo"} /\ job[c].id = id}

Expired(id) == plans[id].created + TTL < now

\* A request enters the monitor, goes on, leaves it.
Enter(c, stage, work) ==
  /\ pc[c] = "idle" /\ lock = {}
  /\ lock' = {c}
  /\ pc' = [pc EXCEPT ![c] = stage]
  /\ job' = [job EXCEPT ![c] = work]
  /\ raced' = raced \ {c}

Go(c, stage) ==
  /\ pc' = [pc EXCEPT ![c] = stage]
  /\ UNCHANGED lock

Leave(c) ==
  /\ lock' = lock \ {c}
  /\ pc' = [pc EXCEPT ![c] = "idle"]
  /\ job' = [job EXCEPT ![c] = NoJob]

-----------------------------------------------------------------------------
(* prepareClone *)

\* Expired plans are dropped, the source is found, the target is not.
PrepareLook(c, source, target) ==
  /\ nplans < MaxPlans /\ source # target
  /\ Exists(source) /\ ~Exists(target)
  /\ Enter(c, "prepare", [id |-> nplans + 1, source |-> source, target |-> target,
                          uuid |-> project[source]])
  /\ nplans' = nplans + 1
  /\ LET old == {id \in DOMAIN plans : Expired(id)} IN
       /\ plans' = Without(old)
       /\ dropped' = dropped \cup old
  /\ UNCHANGED <<project, stamp, now, edits, copies, applied>>

\* The names are refused: expired plans are dropped all the same.
PrepareRefused(source, target) ==
  /\ lock = {} /\ (source = target \/ ~Exists(source) \/ Exists(target))
  /\ LET old == {id \in DOMAIN plans : Expired(id)} IN
       /\ plans' = Without(old)
       /\ dropped' = dropped \cup old
  /\ UNCHANGED <<project, stamp, now, nplans, lock, pc, job, edits, copies, applied, raced>>

\* The fingerprint is taken and the plan is kept.
PrepareKeep(c) ==
  /\ pc[c] = "prepare"
  /\ plans' = [id \in DOMAIN plans \cup {job[c].id} |->
                 IF id = job[c].id
                   THEN [source |-> job[c].source, target |-> job[c].target, uuid |-> job[c].uuid,
                         print |-> Fingerprint, created |-> now]
                   ELSE plans[id]]
  /\ Leave(c)
  /\ UNCHANGED <<project, stamp, now, nplans, edits, history, raced>>

-----------------------------------------------------------------------------
(* applyClone *)

Attempt(id) == [id |-> id, plan |-> plans[id], copy |-> NoObject]

\* Mutant: the method is not synchronized.
ApplyLookUnsynchronized(c, id) ==
  /\ id \in DOMAIN plans /\ ~Expired(id) /\ pc[c] = "idle"
  /\ project[plans[id].source] = plans[id].uuid /\ ~Exists(plans[id].target)
  /\ lock' = lock \cup {c} /\ pc' = [pc EXCEPT ![c] = "print"]
  /\ job' = [job EXCEPT ![c] = Attempt(id)] /\ raced' = raced \ {c}
  /\ UNCHANGED <<project, stamp, now, plans, nplans, edits, history>>

\* The plan is there and has not expired, the source is the one it saw and the
\* target is still free.
ApplyLook(c, id) ==
  /\ id \in DOMAIN plans /\ ~Expired(id)
  /\ project[plans[id].source] = plans[id].uuid
  /\ ~Exists(plans[id].target)
  /\ Enter(c, "print", Attempt(id))
  /\ UNCHANGED <<project, stamp, now, plans, nplans, edits, history>>

\* requirePlan drops a plan found expired.
ApplyExpired(id) ==
  /\ lock = {} /\ id \in DOMAIN plans /\ Expired(id)
  /\ plans' = Without({id})
  /\ dropped' = dropped \cup {id}
  /\ UNCHANGED <<project, stamp, now, nplans, lock, pc, job, edits, copies, applied, raced>>

\* The project has the plan's fingerprint, or the plan is stale.
ApplyPrint(c) ==
  /\ pc[c] = "print"
  /\ IF job[c].plan.print = Fingerprint
       THEN Go(c, "copy") /\ UNCHANGED job
       ELSE Leave(c)
  /\ UNCHANGED <<project, stamp, now, plans, nplans, edits, history, raced>>

\* EDT attaches a copy of the source under a name it finds free ...
Copy(c) ==
  /\ pc[c] = "copy"
  /\ \E n \in Names : ~Exists(n) /\ project' = [project EXCEPT ![n] = stamp + 1]
  /\ stamp' = stamp + 1
  /\ Go(c, "rename")
  /\ job' = [job EXCEPT ![c].copy = stamp + 1]
  /\ copies' = [copies EXCEPT ![job[c].id] = @ \cup {stamp + 1}]
  /\ UNCHANGED <<now, plans, nplans, edits, applied, dropped, raced>>

\* Mutant: the monitor is not given back on the way out.
CopyFailHolding(c) ==
  /\ pc[c] = "copy"
  /\ pc' = [pc EXCEPT ![c] = "idle"] /\ job' = [job EXCEPT ![c] = NoJob]
  /\ UNCHANGED <<project, stamp, now, plans, nplans, lock, edits, history, raced>>

\* ... or does not, and the request fails with nothing to undo.
CopyFail(c) ==
  /\ pc[c] = "copy"
  /\ Leave(c)
  /\ UNCHANGED <<project, stamp, now, plans, nplans, edits, history, raced>>

Named(uuid) == {n \in Names : project[n] = uuid}

\* The copy is renamed unless it has the target's name already.
Rename(c) ==
  /\ pc[c] = "rename"
  /\ LET target == job[c].plan.target IN
       IF project[target] = job[c].copy THEN UNCHANGED <<project, stamp>>
       ELSE /\ ~Exists(target)
            /\ \E n \in Named(job[c].copy) :
                 project' = [project EXCEPT ![n] = NoObject, ![target] = job[c].copy]
            /\ stamp' = stamp + 1
  /\ Go(c, "find")
  /\ UNCHANGED <<now, plans, nplans, job, edits, history, raced>>

\* EDT creates no refactoring, finds problems in it or fails to perform it.
RenameRefused(c) ==
  /\ pc[c] = "rename" /\ project[job[c].plan.target] # job[c].copy
  /\ Go(c, "undo")
  /\ UNCHANGED <<project, stamp, now, plans, nplans, job, edits, history, raced>>

\* The synchronized model shows an object under the target's name: the plan is used up.
Find(c) ==
  /\ pc[c] = "find" /\ Exists(job[c].plan.target)
  /\ plans' = Without({job[c].id})
  /\ applied' = applied \cup {job[c].id}
  /\ Leave(c)
  /\ UNCHANGED <<project, stamp, now, nplans, edits, copies, dropped, raced>>

\* It does not, or the synchronization fails.
FindFail(c) ==
  /\ pc[c] = "find"
  /\ Go(c, "undo")
  /\ UNCHANGED <<project, stamp, now, plans, nplans, job, edits, history, raced>>

\* deleteQuietly: the copy is deleted, unless EDT refuses, which nobody is told.
\* The plan is kept.
Undo(c) ==
  /\ pc[c] = "undo"
  /\ \/ /\ \E n \in Named(job[c].copy) : project' = [project EXCEPT ![n] = NoObject]
        /\ stamp' = stamp + 1
     \/ UNCHANGED <<project, stamp>>
  /\ Leave(c)
  /\ UNCHANGED <<now, plans, nplans, edits, history, raced>>

-----------------------------------------------------------------------------
(* discard, which takes no lock *)

Discard(id) ==
  /\ id \in DOMAIN plans
  /\ plans' = Without({id})
  /\ dropped' = IF Applying(id) = {} THEN dropped \cup {id} ELSE dropped
  /\ UNCHANGED <<project, stamp, now, nplans, lock, pc, job, edits, copies, applied, raced>>

-----------------------------------------------------------------------------
(* The environment *)

\* The developer changes a file, creates, deletes or renames an object.
Edit ==
  /\ edits < MaxEdits /\ edits' = edits + 1
  /\ stamp' = stamp + 1
  /\ \/ UNCHANGED project
     \/ \E n \in Names : ~Exists(n) /\ project' = [project EXCEPT ![n] = stamp + 1]
     \/ \E n \in Names : Exists(n) /\ project' = [project EXCEPT ![n] = NoObject]
     \/ \E n, m \in Names : Exists(n) /\ ~Exists(m)
                              /\ project' = [project EXCEPT ![n] = NoObject, ![m] = project[n]]
  /\ raced' = raced \cup {c \in Calls : pc[c] # "idle"}
  /\ UNCHANGED <<now, service, history>>

\* EDT is closed or killed, and started again.
Restart ==
  /\ plans # [id \in {} |-> NoJob] \/ lock # {}
  /\ plans' = [id \in {} |-> NoJob]
  /\ dropped' = dropped \cup (1..nplans)
  /\ lock' = {} /\ pc' = [c \in Calls |-> "idle"] /\ job' = [c \in Calls |-> NoJob]
  /\ UNCHANGED <<project, stamp, now, nplans, edits, copies, applied, raced>>

Tick ==
  /\ now < MaxTime /\ now' = now + 1
  /\ UNCHANGED <<project, stamp, service, edits, history, raced>>

Next ==
  \/ \E c \in Calls, source, target \in Names : PrepareLook(c, source, target)
  \/ \E source, target \in Names : PrepareRefused(source, target)
  \/ \E c \in Calls, id \in Ids : ApplyLook(c, id)
  \/ \E c \in Calls :
       \/ PrepareKeep(c) \/ ApplyPrint(c) \/ Copy(c) \/ CopyFail(c) \/ Rename(c)
       \/ RenameRefused(c) \/ Find(c) \/ FindFail(c) \/ Undo(c)
  \/ \E id \in Ids : ApplyExpired(id) \/ Discard(id)
  \/ Edit \/ Restart \/ Tick

Spec == Init /\ [][Next]_vars

-----------------------------------------------------------------------------
(* Properties *)

\* Every variable has its type, and the monitor is held by the one request at work.
TypeOK ==
  /\ project \in Projects /\ stamp \in Nat /\ now \in 0..MaxTime
  /\ nplans \in 0..MaxPlans /\ DOMAIN plans \subseteq 1..nplans
  /\ \A id \in DOMAIN plans : plans[id] \in Plan
  /\ pc \in [Calls -> {"idle", "prepare", "print", "copy", "rename", "find", "undo"}]
  /\ lock = {c \in Calls : pc[c] # "idle"} /\ Cardinality(lock) <= 1
  /\ \A c \in Calls : pc[c] # "idle" => job[c].id \in 1..nplans
  /\ edits \in 0..MaxEdits
  /\ copies \in [Ids -> SUBSET (1..stamp)]
  /\ applied \subseteq 1..nplans /\ dropped \subseteq 1..nplans /\ raced \subseteq Calls

\* An apply that nobody edits across starts from the project its plan was prepared
\* for, and adds to it exactly the target if it answers "applied", and at most a copy
\* that EDT would not delete if it fails.
ApplyIsExact ==
  [][\A c \in Calls \ raced :
       (pc[c] \in {"copy", "rename", "find", "undo"} /\ pc'[c] = "idle") =>
         LET plan == job[c].plan IN
         IF job[c].id \in applied'
           THEN project' = [plan.print.objects EXCEPT ![plan.target] = job[c].copy]
           ELSE \A n \in Names : project'[n] \in {plan.print.objects[n], job[c].copy}]_vars

\* A failed apply keeps its plan, so a plan can be tried again; whatever happened to
\* the copy of the first try, there is never a second one, and none at all once the
\* plan was discarded ("Discard an unapplied in-memory EDT clone plan"), expired or
\* was lost while nobody was applying it.
AttachedOnce ==
  [][\A id \in Ids : copies'[id] # copies[id] =>
       copies[id] = {} /\ Cardinality(copies'[id]) = 1 /\ id \notin dropped]_vars

=============================================================================
