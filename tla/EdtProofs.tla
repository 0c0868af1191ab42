------------------------------ MODULE EdtProofs ------------------------------
(***************************************************************************)
(* The plug-in in EDT: its bridge (EdtBridge) and the clone plans it keeps *)
(* (EdtPlans).                                                             *)
(*                                                                         *)
(* EdtBridge, for any number of sessions, ports and calls.  SessionInv     *)
(* relates the thread in startBridge, the session and bridge.json;         *)
(* CallInv says how far a call and its request, which may part, can be     *)
(* from each other.                                                        *)
(*                                                                         *)
(* EdtPlans, for any number of requests, names, plans, edits and any time. *)
(* TypeInv is inductive by itself.  PlanInv says why a plan attaches one   *)
(* copy: the stamp of the project has outgrown every plan that did, and    *)
(* what was dropped or applied is nobody's any more.  ExactInv says how    *)
(* far the project is, at each stage of an apply that nobody edited        *)
(* across, from the one its plan was prepared for.                         *)
(***************************************************************************)
EXTENDS EdtBridge, EdtPlans, FiniteSetTheorems, TLAPS

-----------------------------------------------------------------------------
(* EdtBridge: the inductive invariants *)

\* A session that was stopped in order is past startBridge for good.
SessionInv ==
  /\ edt \in [Sessions -> {"off", "open", "serving", "stuck", "without", "closing", "ended"}]
  /\ starter \in [Sessions -> {"none", "describe", "serve"}]
  /\ descriptor \in Sessions \cup {None} /\ deleted \subseteq Sessions
  /\ \A s, t \in Sessions : (Listening(s) /\ Listening(t) /\ Port[s] = Port[t]) => s = t
  /\ \A s \in Sessions : starter[s] # "none" => edt[s] = "open"
  /\ \A s \in deleted : edt[s] \in {"without", "ended"} /\ descriptor # s

\* The request of a call: who may have it, and what became of it.
Request(c) ==
  /\ caller[c] \in {"begun", "read"} => handler[c] = "none" /\ done[c] = {} /\ outcome[c] = "none"
  /\ caller[c] = "read" => desc[c] \in Sessions
  /\ caller[c] = "sent" => outcome[c] = "none"
  /\ handler[c] # "none" => desc[c] \in Sessions /\ at[c] \in Sessions
  /\ handler[c] \in {"queued", "running"} => done[c] = {}
  /\ handler[c] \in {"running", "answer"} => desc[c] = at[c]
  /\ handler[c] = "answer" => done[c] # {}
  /\ outcome[c] \in {"ok", "refused"} => caller[c] = "idle" /\ handler[c] = "none"
  /\ outcome[c] = "ok" => done[c] # {}
  /\ outcome[c] = "refused" => done[c] = {}
  /\ done[c] \subseteq {desc[c]}

CallInv ==
  /\ caller \in [Callers -> {"idle", "begun", "read", "sent"}]
  /\ desc \in [Callers -> Sessions \cup {None}] /\ at \in [Callers -> Sessions \cup {None}]
  /\ handler \in [Callers -> {"none", "queued", "running", "answer"}]
  /\ outcome \in [Callers -> {"none", "ok", "failed", "refused", "unknown"}]
  /\ begun \in 0..MaxCalls /\ done \in [Callers -> SUBSET Sessions]
  /\ \A c \in Callers : Request(c)

-----------------------------------------------------------------------------
(* EdtBridge: sessions *)

LEMMA SessionInit == BridgeInit => SessionInv
BY BridgeAssumption DEF BridgeInit, SessionInv, Listening

\* A step of a session changes its own edt and starter only.
LEMMA SessionStep ==
  ASSUME SessionInv, NEW s \in Sessions,
         Start(s) \/ Describe(s) \/ DescribeFail(s) \/ Serve(s) \/ Close(s) \/ Delete(s) \/ Exit(s)
  PROVE  SessionInv'
<1>1. CASE Start(s)
  BY <1>1 DEF SessionInv, Start, Session, Listening
<1>2. CASE Describe(s)
  BY <1>2 DEF SessionInv, Describe, Session, Listening
<1>3. CASE DescribeFail(s)
  BY <1>3 DEF SessionInv, DescribeFail, Session, Listening
<1>4. CASE Serve(s)
  BY <1>4 DEF SessionInv, Serve, Session, Listening
<1>5. CASE Close(s)
  BY <1>5 DEF SessionInv, Close, Session, Listening
<1>6. CASE Delete(s)
  BY <1>6, BridgeAssumption DEF SessionInv, Delete, Session, Listening
<1>7. CASE Exit(s)
  BY <1>7 DEF SessionInv, Exit, Alive, Session, Listening
<1> QED  BY <1>1, <1>2, <1>3, <1>4, <1>5, <1>6, <1>7

\* Calls do not touch the sessions.
LEMMA SessionUntouched ==
  ASSUME SessionInv, UNCHANGED <<edt, starter, descriptor, deleted>>
  PROVE  SessionInv'
BY DEF SessionInv, Listening

-----------------------------------------------------------------------------
(* EdtBridge: calls *)

LEMMA CallInit == BridgeInit => CallInv
BY BridgeAssumption DEF BridgeInit, CallInv, Request

\* Sessions do not touch the calls.
LEMMA CallUntouched ==
  ASSUME CallInv, UNCHANGED <<caller, desc, at, handler, outcome, begun, done>>
  PROVE  CallInv'
BY DEF CallInv, Request

\* A step of a call, of its caller or of the plug-in, changes what belongs to it only.
LEMMA CallStepKeeps ==
  ASSUME SessionInv, CallInv, NEW c \in Callers,
         \/ Begin(c) \/ CallStep(c) \/ Accept(c) \/ Dispatch(c) \/ DispatchFail(c)
         \/ Answer(c) \/ Lose(c)
  PROVE  CallInv'
<1>1. CASE Begin(c)
  BY <1>1, BridgeAssumption DEF CallInv, Request, Begin
<1>2. CASE ReadBridge(c)
  BY <1>2 DEF SessionInv, CallInv, Request, ReadBridge, Return
<1>3. CASE Connect(c)
  <2> DEFINE owners == {s \in Sessions : Listening(s) /\ Port[s] = Port[desc[c]]}
  <2>1. CASE owners = {}
    BY <1>3, <2>1 DEF CallInv, Request, Connect, Return
  <2>2. CASE owners # {}
    <3>1. PICK s \in owners : at' = [at EXCEPT ![c] = s]
      BY <1>3, <2>2 DEF Connect
    <3> QED  BY <1>3, <2>2, <3>1 DEF CallInv, Request, Connect
  <2> QED  BY <2>1, <2>2
<1>4. CASE GiveUp(c)
  BY <1>4 DEF CallInv, Request, GiveUp, Return
<1>5. CASE Accept(c)
  BY <1>5 DEF CallInv, Request, Accept, Return
<1>6. CASE Dispatch(c)
  BY <1>6 DEF CallInv, Request, Dispatch
<1>7. CASE DispatchFail(c)
  BY <1>7 DEF CallInv, Request, DispatchFail, Return
<1>8. CASE Answer(c)
  BY <1>8 DEF CallInv, Request, Answer, Return
<1>9. CASE Lose(c)
  BY <1>9 DEF CallInv, Request, Lose, Return
<1> QED  BY <1>1, <1>2, <1>3, <1>4, <1>5, <1>6, <1>7, <1>8, <1>9 DEF CallStep

-----------------------------------------------------------------------------
(* EdtBridge: the invariants, and the properties that follow from them *)

\* Both invariants hold throughout.
LEMMA BridgeHolds == BridgeSpec => [](SessionInv /\ CallInv)
<1>1. BridgeInit => SessionInv /\ CallInv
  BY SessionInit, CallInit
<1>2. SessionInv /\ CallInv /\ [BridgeNext]_bridgeVars => (SessionInv /\ CallInv)'
  <2> SUFFICES ASSUME SessionInv, CallInv, [BridgeNext]_bridgeVars  PROVE (SessionInv /\ CallInv)'
    OBVIOUS
  <2>1. ASSUME NEW s \in Sessions,
               \/ Start(s) \/ Describe(s) \/ DescribeFail(s) \/ Serve(s)
               \/ Close(s) \/ Delete(s) \/ Exit(s)
        PROVE  (SessionInv /\ CallInv)'
    <3>1. UNCHANGED <<caller, desc, at, handler, outcome, begun, done>>
      BY <2>1 DEF Start, Describe, DescribeFail, Serve, Close, Delete, Exit, Session
    <3> QED  BY <2>1, <3>1, SessionStep, CallUntouched
  <2>2. ASSUME NEW c \in Callers,
               \/ Begin(c) \/ CallStep(c) \/ Accept(c) \/ Dispatch(c) \/ DispatchFail(c)
               \/ Answer(c) \/ Lose(c)
        PROVE  (SessionInv /\ CallInv)'
    <3>1. UNCHANGED <<edt, starter, descriptor, deleted>>
      BY <2>2 DEF Begin, CallStep, ReadBridge, Connect, GiveUp, Accept, Dispatch,
                  DispatchFail, Answer, Lose
    <3> QED  BY <2>2, <3>1, CallStepKeeps, SessionUntouched
  <2>3. CASE UNCHANGED bridgeVars
    BY <2>3, SessionUntouched, CallUntouched DEF bridgeVars
  <2> QED  BY <2>1, <2>2, <2>3 DEF BridgeNext
<1> QED  BY <1>1, <1>2, PTL DEF BridgeSpec

\* Every variable keeps its type, and no port is open twice.
THEOREM BridgeTypes == BridgeSpec => []BridgeTypeOK
<1>1. SessionInv /\ CallInv => BridgeTypeOK
  BY DEF SessionInv, CallInv, BridgeTypeOK
<1> QED  BY <1>1, BridgeHolds, PTL

\* A request is carried out by the session whose token it brought or not at all: the
\* plug-in compares the token before it runs the request (EdtBridgeServer.handle), and
\* the call never looks at bridge.json again after it has connected.
THEOREM MeantTheorem == BridgeSpec => []CarriedOutWhereMeant
<1>1. CallInv => CarriedOutWhereMeant
  BY DEF CallInv, Request, CarriedOutWhereMeant
<1> QED  BY <1>1, BridgeHolds, PTL

\* "ok" and the two refusals are true, and stay true though the handler and the caller
\* part at the timeout: who has been refused or answered has no handler left.
THEOREM OutcomeTheorem == BridgeSpec => []OutcomeIsTrue
<1>1. CallInv => OutcomeIsTrue
  BY DEF CallInv, Request, OutcomeIsTrue
<1> QED  BY <1>1, BridgeHolds, PTL

\* bridge.json never names a session that was stopped in order: Activator's lock keeps
\* stop apart from a startBridge that has yet to write the file.
THEOREM ForgottenTheorem == BridgeSpec => []StoppedIsForgotten
<1>1. SessionInv => StoppedIsForgotten
  BY BridgeAssumption DEF SessionInv, StoppedIsForgotten
<1> QED  BY <1>1, BridgeHolds, PTL

-----------------------------------------------------------------------------
(* EdtPlans: the inductive invariants *)

States == {"idle", "prepare", "print", "copy", "rename", "find", "undo"}

PrepareJob == [id : Ids, source : Names, target : Names, uuid : Nat]
ApplyJob == [id : Ids, plan : Plan, copy : Nat \cup {NoObject}]

Applies(c) == pc[c] \notin {"idle", "prepare"}

Shape ==
  /\ project \in Projects /\ stamp \in Nat /\ now \in 0..MaxTime
  /\ nplans \in 0..MaxPlans /\ edits \in 0..MaxEdits
  /\ pc \in [Calls -> States] /\ DOMAIN job = Calls /\ job = [c \in Calls |-> job[c]]
  /\ DOMAIN plans \subseteq 1..nplans
  /\ applied \subseteq 1..nplans /\ dropped \subseteq 1..nplans /\ raced \subseteq Calls

Mutex == lock = {c \in Calls : pc[c] # "idle"} /\ \A c, d \in lock : c = d

Jobs ==
  /\ \A id \in DOMAIN plans : plans[id] \in Plan
  /\ \A c \in Calls : pc[c] = "prepare" => job[c] \in PrepareJob
  /\ \A c \in Calls : Applies(c) => job[c] \in ApplyJob
  /\ \A c \in Calls : pc[c] # "idle" => job[c].id \in 1..nplans

\* The UUIDs of objects are stamps that were given.
Young == /\ \A n \in Names : project[n] # NoObject => project[n] <= stamp
         /\ copies \in [Ids -> SUBSET (1..stamp)]

TypeInv == Shape /\ Mutex /\ Jobs /\ Young

\* What a plan knows of the copies made for it.
Outgrown(id, plan) == plan.print.stamp <= stamp /\ (copies[id] # {} => plan.print.stamp < stamp)

PlanInv ==
  /\ \A id \in DOMAIN plans : Outgrown(id, plans[id]) /\ id \notin dropped \cup applied
  /\ \A id \in Ids : id > nplans => copies[id] = {}
  /\ \A c \in Calls :
       /\ pc[c] = "prepare" => copies[job[c].id] = {} /\ job[c].id \notin DOMAIN plans
       /\ pc[c] # "idle" => job[c].id \notin dropped \cup applied
       /\ Applies(c) => job[c].plan.print.stamp <= stamp
       /\ pc[c] = "print" => Outgrown(job[c].id, job[c].plan)
       /\ pc[c] = "copy" => copies[job[c].id] = {}

\* The project is the plan's and a copy under name n.
With(c, n) ==
  /\ job[c].plan.print.objects[n] = NoObject
  /\ project = [job[c].plan.print.objects EXCEPT ![n] = job[c].copy]

ExactInv ==
  \A c \in Calls \ raced :
    /\ pc[c] = "copy" => project = job[c].plan.print.objects
    /\ pc[c] \in {"rename", "find", "undo"} =>
         /\ \E n \in Names : With(c, n) /\ (pc[c] = "find" => n = job[c].plan.target)
         /\ \A n \in Names : job[c].plan.print.objects[n] # job[c].copy
         /\ job[c].copy # NoObject

-----------------------------------------------------------------------------
LEMMA TypeInit == Init => TypeInv
<1> SUFFICES ASSUME Init PROVE TypeInv
  OBVIOUS
<1>1. Shape
  BY PlansAssumption DEF Init, Shape, States, Projects
<1>2. Mutex /\ Jobs
  BY DEF Init, Mutex, Jobs, Applies
<1>3. Young
  BY DEF Init, Young
<1> QED  BY <1>1, <1>2, <1>3 DEF TypeInv

\* A request enters the monitor.
LEMMA EnterTypes ==
  ASSUME Mutex, pc \in [Calls -> States], DOMAIN job = Calls, NEW c \in Calls,
         NEW stage \in States \ {"idle"}, NEW work, Enter(c, stage, work)
  PROVE  /\ Mutex' /\ pc' \in [Calls -> States] /\ DOMAIN job' = Calls /\ job' = [d \in Calls |-> job'[d]]
         /\ pc'[c] = stage /\ job'[c] = work
         /\ \A d \in Calls : pc[d] = "idle" /\ (d # c => pc'[d] = "idle")
         /\ raced \subseteq Calls => raced' \subseteq Calls
BY DEF Enter, Mutex

\* It goes on.
LEMMA GoTypes ==
  ASSUME Mutex, pc \in [Calls -> States], NEW c \in Calls, pc[c] # "idle",
         NEW stage \in States \ {"idle"}, Go(c, stage)
  PROVE  /\ Mutex' /\ pc' \in [Calls -> States] /\ pc'[c] = stage
         /\ \A d \in Calls : d # c => pc[d] = "idle" /\ pc'[d] = "idle"
BY DEF Go, Mutex

\* It leaves.
LEMMA LeaveTypes ==
  ASSUME Mutex, pc \in [Calls -> States], DOMAIN job = Calls, NEW c \in Calls, pc[c] # "idle", Leave(c)
  PROVE  /\ Mutex' /\ pc' \in [Calls -> States] /\ DOMAIN job' = Calls /\ job' = [d \in Calls |-> job'[d]]
         /\ \A d \in Calls : pc'[d] = "idle" /\ (d # c => pc[d] = "idle")
<1>1. lock = {c} /\ \A d \in Calls : d # c => pc[d] = "idle"
  BY DEF Mutex
<1>2. /\ lock' = {} /\ pc' \in [Calls -> States] /\ DOMAIN job' = Calls /\ job' = [d \in Calls |-> job'[d]]
      /\ \A d \in Calls : pc'[d] = "idle"
  BY <1>1 DEF Leave, States
<1> QED  BY <1>1, <1>2 DEF Mutex

-----------------------------------------------------------------------------
(* EdtPlans: types *)

\* Every action keeps the types, the monitor and what the jobs and plans are.
LEMMA TypeStep == TypeInv /\ [Next]_vars => TypeInv'
<1> SUFFICES ASSUME TypeInv, [Next]_vars PROVE TypeInv'
  OBVIOUS
<1> USE DEF TypeInv
<1>a. /\ Shape /\ Mutex /\ Jobs /\ Young /\ stamp \in Nat /\ pc \in [Calls -> States] /\ DOMAIN job = Calls
      /\ MaxPlans \in Nat /\ nplans \in Nat
  BY PlansAssumption DEF Shape
<1>1. ASSUME NEW c \in Calls, NEW source \in Names, NEW target \in Names, PrepareLook(c, source, target)
      PROVE  TypeInv'
  <2> DEFINE work == [id |-> nplans + 1, source |-> source, target |-> target, uuid |-> project[source]]
  <2>1. Enter(c, "prepare", work) /\ "prepare" \in States \ {"idle"}
    BY <1>1 DEF PrepareLook, States
  <2>2. nplans' = nplans + 1 /\ nplans' \in 1..MaxPlans /\ 1..nplans \subseteq 1..nplans'
    BY <1>1, <1>a DEF PrepareLook
  <2>3. work \in PrepareJob /\ work.id \in 1..nplans'
    <3>1. project[source] \in Nat  BY <1>1, <1>a DEF PrepareLook, Exists, Shape, Projects
    <3>2. nplans + 1 \in Ids  BY <2>2 DEF Ids
    <3> QED  BY <2>2, <3>1, <3>2 DEF PrepareJob
  <2> HIDE DEF work
  <2>4. /\ plans' = Without({id \in DOMAIN plans : Expired(id)})
        /\ dropped' = dropped \cup {id \in DOMAIN plans : Expired(id)}
        /\ UNCHANGED <<project, stamp, now, edits, copies, applied>>
    BY <1>1 DEF PrepareLook
  <2>5. DOMAIN plans' \subseteq DOMAIN plans /\ \A id \in DOMAIN plans' : plans'[id] = plans[id]
    BY <2>4 DEF Without
  <2>6. Mutex' /\ pc'[c] = "prepare" /\ job'[c] = work /\ \A d \in Calls \ {c} : pc'[d] = "idle"
    BY <1>a, <2>1, EnterTypes
  <2>7. Shape'
    <3>1. pc' \in [Calls -> States] /\ DOMAIN job' = Calls /\ job' = [d \in Calls |-> job'[d]] /\ raced' \subseteq Calls
      BY <1>a, <2>1, EnterTypes DEF Shape
    <3>2. nplans' \in 0..MaxPlans
      BY <2>2
    <3>3. dropped' \subseteq 1..nplans' /\ applied' \subseteq 1..nplans' /\ DOMAIN plans' \subseteq 1..nplans'
      BY <1>a, <2>2, <2>4, <2>5 DEF Shape
    <3> QED  BY <1>a, <2>4, <3>1, <3>2, <3>3 DEF Shape
  <2>8. Jobs'
    BY <1>a, <2>3, <2>5, <2>6 DEF Jobs, Applies
  <2>9. Young'
    BY <1>a, <2>4 DEF Young
  <2> QED  BY <2>6, <2>7, <2>8, <2>9
<1>2. ASSUME NEW source \in Names, NEW target \in Names, PrepareRefused(source, target)  PROVE TypeInv'
  BY <1>2, <1>a DEF PrepareRefused, Without, Shape, Mutex, Jobs, Young, Applies
<1>3. ASSUME NEW c \in Calls, PrepareKeep(c)  PROVE TypeInv'
  <2>1. pc[c] = "prepare" /\ Leave(c) /\ UNCHANGED <<project, stamp, now, nplans, edits, history, raced>>
    BY <1>3 DEF PrepareKeep
  <2>2. job[c] \in PrepareJob /\ job[c].id \in 1..nplans
    BY <1>a, <2>1 DEF Jobs
  <2> DEFINE plan == [source |-> job[c].source, target |-> job[c].target, uuid |-> job[c].uuid,
                      print |-> Fingerprint, created |-> now]
  <2>3. plan \in Plan
    <3>1. now \in Nat  BY <1>a, PlansAssumption DEF Shape
    <3>2. Fingerprint \in [objects : Projects, stamp : Nat]  BY <1>a DEF Fingerprint, Shape
    <3> QED  BY <2>2, <3>1, <3>2 DEF Plan, PrepareJob
  <2>4. plans' = [id \in DOMAIN plans \cup {job[c].id} |-> IF id = job[c].id THEN plan ELSE plans[id]]
    BY <1>3 DEF PrepareKeep
  <2> HIDE DEF plan
  <2>5. Mutex' /\ pc' \in [Calls -> States] /\ DOMAIN job' = Calls /\ job' = [d \in Calls |-> job'[d]]
        /\ \A d \in Calls : pc'[d] = "idle"
    BY <1>a, <2>1, LeaveTypes
  <2>6. DOMAIN plans' \subseteq 1..nplans /\ \A id \in DOMAIN plans' : plans'[id] \in Plan
    BY <1>a, <2>2, <2>3, <2>4 DEF Shape, Jobs
  <2> QED  BY <1>a, <2>1, <2>5, <2>6 DEF Shape, Jobs, Young, Applies, history
<1>4. ASSUME NEW c \in Calls, NEW id \in Ids, ApplyLook(c, id)  PROVE TypeInv'
  <2>1. /\ Enter(c, "print", Attempt(id)) /\ "print" \in States \ {"idle"} /\ id \in DOMAIN plans
        /\ UNCHANGED <<project, stamp, now, plans, nplans, edits, history>>
    BY <1>4 DEF ApplyLook, States
  <2>2. Attempt(id) \in ApplyJob /\ Attempt(id).id \in 1..nplans
    BY <1>a, <2>1 DEF Attempt, ApplyJob, Shape, Jobs
  <2>3. Mutex' /\ pc'[c] = "print" /\ job'[c] = Attempt(id) /\ \A d \in Calls \ {c} : pc'[d] = "idle"
    BY <1>a, <2>1, EnterTypes
  <2>4. pc' \in [Calls -> States] /\ DOMAIN job' = Calls /\ job' = [d \in Calls |-> job'[d]] /\ raced' \subseteq Calls
    BY <1>a, <2>1, EnterTypes DEF Shape
  <2>5. Jobs'
    BY <1>a, <2>1, <2>2, <2>3 DEF Jobs, Applies
  <2> QED  BY <1>a, <2>1, <2>3, <2>4, <2>5 DEF Shape, Young, history
<1>5. ASSUME NEW id \in Ids, ApplyExpired(id) \/ Discard(id)  PROVE TypeInv'
  <2>1. /\ plans' = Without({id}) /\ id \in DOMAIN plans /\ dropped' \in {dropped, dropped \cup {id}}
        /\ UNCHANGED <<project, stamp, now, nplans, lock, pc, job, edits, copies, applied, raced>>
    BY <1>5 DEF ApplyExpired, Discard
  <2> QED  BY <1>a, <2>1 DEF Without, Shape, Mutex, Jobs, Young, Applies
<1>6. ASSUME NEW c \in Calls, Leave(c), pc[c] # "idle", stamp' \in Nat, stamp' >= stamp,
             project' \in Projects, \A n \in Names : project'[n] \in {project[n], NoObject},
             DOMAIN plans' \subseteq DOMAIN plans, \A id \in DOMAIN plans' : plans'[id] = plans[id],
             applied' \in {applied, applied \cup {job[c].id}},
             UNCHANGED <<now, nplans, edits, copies, dropped, raced>>
      PROVE  TypeInv'
  <2>1. Mutex' /\ pc' \in [Calls -> States] /\ DOMAIN job' = Calls /\ job' = [d \in Calls |-> job'[d]]
        /\ \A d \in Calls : pc'[d] = "idle"
    BY <1>a, <1>6, LeaveTypes
  <2>2. job[c].id \in 1..nplans
    BY <1>a, <1>6 DEF Jobs
  <2>3. Shape'
    BY <1>a, <1>6, <2>1, <2>2 DEF Shape
  <2>4. Jobs'
    BY <1>a, <1>6, <2>1 DEF Jobs, Applies
  <2>5. Young'
    <3>1. 1..stamp \subseteq 1..stamp'
      BY <1>a, <1>6
    <3>2. \A n \in Names : project'[n] # NoObject => project'[n] <= stamp'
      BY <1>a, <1>6 DEF Young, Shape, Projects
    <3> QED  BY <1>a, <1>6, <3>1, <3>2 DEF Young
  <2> QED  BY <2>1, <2>3, <2>4, <2>5
<1>7. ASSUME NEW c \in Calls, NEW stage \in States \ {"idle", "prepare"}, Go(c, stage), Applies(c),
             job' = job \/ (job' = [job EXCEPT ![c].copy = stamp + 1]), stamp' \in {stamp, stamp + 1},
             project' \in Projects, \A n \in Names : project'[n] # NoObject => project'[n] <= stamp',
             copies' \in [Ids -> SUBSET (1..stamp')],
             UNCHANGED <<now, plans, nplans, edits, applied, dropped, raced>>
      PROVE  TypeInv'
  <2>1. pc[c] # "idle" /\ job[c] \in ApplyJob /\ job[c].id \in 1..nplans
    BY <1>a, <1>7 DEF Applies, Jobs
  <2>2. /\ Mutex' /\ pc' \in [Calls -> States] /\ pc'[c] = stage
        /\ \A d \in Calls : d # c => pc[d] = "idle" /\ pc'[d] = "idle"
    BY <1>a, <1>7, <2>1, GoTypes
  <2>3. job'[c] \in ApplyJob /\ job'[c].id = job[c].id
    BY <1>a, <1>7, <2>1 DEF ApplyJob
  <2>4. DOMAIN job' = Calls /\ job' = [d \in Calls |-> job'[d]]
    BY <1>a, <1>7 DEF Shape
  <2>5. Shape'
    BY <1>a, <1>7, <2>2, <2>4 DEF Shape
  <2>6. Jobs'
    BY <1>a, <1>7, <2>1, <2>2, <2>3 DEF Jobs, Applies
  <2> QED  BY <1>7, <2>2, <2>5, <2>6 DEF Young
<1>y. ASSUME stamp' \in {stamp, stamp + 1}
      PROVE  copies \in [Ids -> SUBSET (1..stamp')]
  <2>1. 1..stamp \subseteq 1..stamp'  BY <1>a, <1>y
  <2> QED  BY <1>a, <2>1 DEF Young
<1>8. ASSUME NEW c \in Calls, ApplyPrint(c)  PROVE TypeInv'
  <2>1. pc[c] = "print" /\ Applies(c) /\ UNCHANGED <<project, stamp, now, plans, nplans, edits, history, raced>>
    BY <1>8 DEF ApplyPrint, Applies
  <2>2. CASE Go(c, "copy") /\ UNCHANGED job
    BY <1>a, <1>7, <2>1, <2>2, <1>y DEF States, Shape, Young, history
  <2>3. CASE Leave(c)
    BY <1>a, <1>6, <2>1, <2>3 DEF Shape, history
  <2> QED  BY <1>8, <2>2, <2>3 DEF ApplyPrint
<1>9. ASSUME NEW c \in Calls, Copy(c)  PROVE TypeInv'
  <2>1. /\ pc[c] = "copy" /\ Applies(c) /\ Go(c, "rename") /\ job' = [job EXCEPT ![c].copy = stamp + 1]
        /\ stamp' = stamp + 1 /\ copies' = [copies EXCEPT ![job[c].id] = @ \cup {stamp + 1}]
        /\ \E n \in Names : project' = [project EXCEPT ![n] = stamp + 1]
        /\ UNCHANGED <<now, plans, nplans, edits, applied, dropped, raced>>
    BY <1>9 DEF Copy, Applies
  <2>2. project' \in Projects /\ \A n \in Names : project'[n] # NoObject => project'[n] <= stamp'
    BY <1>a, <2>1 DEF Shape, Young, Projects
  <2>3. copies' \in [Ids -> SUBSET (1..stamp')]
    <3>1. stamp + 1 \in 1..stamp'  BY <1>a, <2>1
    <3>2. copies \in [Ids -> SUBSET (1..stamp')]  BY <2>1, <1>y
    <3> QED  BY <2>1, <3>1, <3>2
  <2> QED  BY <1>7, <2>1, <2>2, <2>3 DEF States
<1>10. ASSUME NEW c \in Calls, CopyFail(c)  PROVE TypeInv'
  BY <1>a, <1>6, <1>10 DEF CopyFail, Shape, history
<1>11. ASSUME NEW c \in Calls, Rename(c)  PROVE TypeInv'
  <2>1. /\ pc[c] = "rename" /\ Applies(c) /\ Go(c, "find") /\ job' = job
        /\ UNCHANGED <<now, plans, nplans, job, edits, history, raced>>
    BY <1>11 DEF Rename, Applies
  <2>2. CASE UNCHANGED <<project, stamp>>
    BY <1>a, <1>7, <2>1, <2>2, <1>y DEF States, Shape, Young, history
  <2>3. ASSUME NEW n \in Named(job[c].copy), stamp' = stamp + 1,
               project' = [project EXCEPT ![n] = NoObject, ![job[c].plan.target] = job[c].copy]
        PROVE  TypeInv'
    <3>1. n \in Names /\ job[c].copy = project[n]
      BY <2>3 DEF Named
    <3> DEFINE target == job[c].plan.target
               copy == job[c].copy
    <3>2. copy \in Nat \cup {NoObject} /\ (copy # NoObject => copy <= stamp)
      BY <1>a, <3>1 DEF Shape, Young, Projects
    <3>3. project' \in Projects /\ \A m \in Names : project'[m] \in {copy, NoObject, project[m]}
      <4> HIDE DEF copy, target
      <4>1. project' = [project EXCEPT ![n] = NoObject, ![target] = copy] /\ project \in Projects
        BY <1>a, <2>3 DEF Shape, copy, target
      <4> QED  BY <3>2, <4>1 DEF Projects
    <3>4. \A m \in Names : project'[m] # NoObject => project'[m] <= stamp'
      <4> HIDE DEF copy, target
      <4>1. \A m \in Names : project[m] # NoObject => project[m] <= stamp /\ project[m] \in Nat
        BY <1>a DEF Young, Shape, Projects
      <4>2. stamp \in Nat /\ stamp' = stamp + 1
        BY <1>a, <2>3
      <4> TAKE m \in Names
      <4> HAVE project'[m] # NoObject
      <4>3. CASE project'[m] = copy
        BY <3>2, <4>2, <4>3
      <4>4. CASE project'[m] = project[m]
        BY <4>1, <4>2, <4>4
      <4> QED  BY <3>3, <4>3, <4>4
    <3> QED  BY <1>7, <2>1, <2>3, <3>3, <3>4, <1>y DEF States, history
  <2> QED  BY <1>11, <2>2, <2>3 DEF Rename
<1>12. ASSUME NEW c \in Calls, RenameRefused(c) \/ FindFail(c)  PROVE TypeInv'
  <2>1. Applies(c) /\ Go(c, "undo") /\ UNCHANGED <<project, stamp, now, plans, nplans, job, edits, history, raced>>
    BY <1>12 DEF RenameRefused, FindFail, Applies
  <2> QED  BY <1>a, <1>7, <2>1, <1>y DEF States, Shape, Young, history
<1>13. ASSUME NEW c \in Calls, Find(c)  PROVE TypeInv'
  BY <1>a, <1>6, <1>13 DEF Find, Shape, Without
<1>14. ASSUME NEW c \in Calls, Undo(c)  PROVE TypeInv'
  <2>1. pc[c] = "undo" /\ Leave(c) /\ UNCHANGED <<now, plans, nplans, edits, history, raced>>
    BY <1>14 DEF Undo
  <2>2. /\ stamp' \in Nat /\ stamp' >= stamp /\ project' \in Projects
        /\ \A n \in Names : project'[n] \in {project[n], NoObject}
    BY <1>a, <1>14 DEF Undo, Named, Shape, Projects
  <2> QED  BY <1>6, <2>1, <2>2 DEF history
<1>15. CASE Edit
  <2>1. /\ stamp' = stamp + 1 /\ edits' = edits + 1 /\ edits < MaxEdits /\ raced' \subseteq Calls
        /\ UNCHANGED <<now, service, history>>
    BY <1>a, <1>15 DEF Edit, Shape
  <2>2. project' \in Projects /\ \A n \in Names : project'[n] # NoObject => project'[n] <= stamp'
    BY <1>a, <1>15 DEF Edit, Shape, Young, Projects, Exists
  <2>3. Shape'
    BY <1>a, <2>1, <2>2, PlansAssumption DEF Shape, service, history
  <2> QED  BY <1>a, <2>1, <2>2, <2>3, <1>y DEF Mutex, Jobs, Young, Applies, service, history
<1>16. CASE Restart
  <2>1. /\ DOMAIN plans' = {} /\ dropped' \subseteq 1..nplans /\ lock' = {} /\ pc' = [c \in Calls |-> "idle"]
        /\ job' = [c \in Calls |-> NoJob] /\ UNCHANGED <<project, stamp, now, nplans, edits, copies, applied, raced>>
    BY <1>a, <1>16 DEF Restart, Shape
  <2>2. Shape'
    BY <1>a, <2>1 DEF Shape, States
  <2> QED  BY <1>a, <2>1, <2>2 DEF Mutex, Jobs, Young, Applies
<1>17. CASE Tick
  <2>1. Shape'
    BY <1>a, <1>17, PlansAssumption DEF Tick, Shape, service, history
  <2> QED  BY <1>a, <1>17, <2>1 DEF Tick, Mutex, Jobs, Young, Applies, service, history
<1>18. CASE UNCHANGED vars
  BY <1>a, <1>18 DEF vars, Shape, Mutex, Jobs, Young, Applies
<1> QED  BY <1>1, <1>2, <1>3, <1>4, <1>5, <1>8, <1>9, <1>10, <1>11, <1>12, <1>13, <1>14, <1>15, <1>16,
            <1>17, <1>18 DEF Next

-----------------------------------------------------------------------------
(* EdtPlans: plans and their copies *)

LEMMA PlanInit == Init => PlanInv
BY DEF Init, PlanInv, Applies

\* Nobody applies or prepares any more, and the project went on.
LEMMA PlanIdle ==
  ASSUME TypeInv, PlanInv, stamp' \in Nat, stamp' >= stamp,
         DOMAIN plans' \subseteq DOMAIN plans, \A id \in DOMAIN plans' : plans'[id] = plans[id],
         \A id \in DOMAIN plans' : id \notin dropped' \cup applied',
         UNCHANGED <<copies, nplans>>, \A c \in Calls : pc'[c] = "idle"
  PROVE  PlanInv'
<1>1. ASSUME NEW id \in DOMAIN plans'  PROVE Outgrown(id, plans[id])'
  <2>1. plans[id].print.stamp \in Nat /\ stamp \in Nat
    BY DEF TypeInv, Shape, Jobs, Plan
  <2> QED  BY <2>1 DEF PlanInv, Outgrown
<1> QED  BY <1>1 DEF PlanInv, Applies, Outgrown

\* Only c may be at work, with the plan it had, and goes on to a stage after "copy".
LEMMA PlanLate ==
  ASSUME TypeInv, PlanInv, NEW c \in Calls, Applies(c), pc'[c] \notin {"idle", "prepare", "print", "copy"},
         \A d \in Calls : d # c => pc'[d] = "idle",
         job'[c].id = job[c].id, job'[c].plan = job[c].plan,
         stamp' \in Nat, stamp' >= stamp, UNCHANGED <<plans, nplans, copies, applied, dropped>>
  PROVE  PlanInv'
<1>1. ASSUME NEW id \in DOMAIN plans'  PROVE Outgrown(id, plans[id])'
  <2>1. plans[id].print.stamp \in Nat /\ stamp \in Nat
    BY DEF TypeInv, Shape, Jobs, Plan
  <2> QED  BY <2>1 DEF PlanInv, Outgrown
<1>2. job[c].plan.print.stamp \in Nat /\ stamp \in Nat /\ job[c].plan.print.stamp <= stamp
  BY DEF TypeInv, Shape, Jobs, ApplyJob, Plan, PlanInv
<1>3. job'[c].plan.print.stamp <= stamp'
  BY <1>2
<1>4. job[c].id \notin dropped \cup applied
  BY DEF PlanInv, Applies
<1> QED  BY <1>1, <1>3, <1>4 DEF PlanInv, Applies, Outgrown

LEMMA PlanStep == TypeInv /\ PlanInv /\ [Next]_vars => PlanInv'
<1> SUFFICES ASSUME TypeInv, PlanInv, [Next]_vars PROVE PlanInv'
  OBVIOUS
<1>a. /\ Mutex /\ pc \in [Calls -> States] /\ DOMAIN job = Calls /\ stamp \in Nat /\ nplans \in Nat
      /\ DOMAIN plans \subseteq 1..nplans /\ dropped \subseteq 1..nplans /\ applied \subseteq 1..nplans
  BY PlansAssumption DEF TypeInv, Shape
<1>b. \A c, d \in Calls : pc[c] # "idle" /\ pc[d] # "idle" => c = d
  BY <1>a DEF Mutex
<1>1. ASSUME NEW c \in Calls, NEW source \in Names, NEW target \in Names, PrepareLook(c, source, target)
      PROVE  PlanInv'
  <2> DEFINE work == [id |-> nplans + 1, source |-> source, target |-> target, uuid |-> project[source]]
  <2>1. /\ Enter(c, "prepare", work) /\ nplans' = nplans + 1 /\ nplans' \in Ids
        /\ DOMAIN plans' = DOMAIN plans \ {id \in DOMAIN plans : Expired(id)}
        /\ \A id \in DOMAIN plans' : plans'[id] = plans[id]
        /\ dropped' = dropped \cup {id \in DOMAIN plans : Expired(id)}
        /\ UNCHANGED <<project, stamp, copies, applied>>
    BY <1>1, <1>a, PlansAssumption DEF PrepareLook, Without, Ids
  <2>3. work.id = nplans'
    BY <2>1
  <2> HIDE DEF work
  <2>2. pc'[c] = "prepare" /\ job'[c] = work /\ \A d \in Calls : d # c => pc'[d] = "idle"
    BY <1>a, <2>1, EnterTypes DEF States
  <2>4. nplans' \notin dropped' /\ nplans' \notin applied /\ nplans' \notin DOMAIN plans /\ copies[nplans'] = {}
    BY <1>a, <2>1 DEF PlanInv
  <2>5. \A id \in Ids : id > nplans' => copies[id] = {}
    BY <1>a, <2>1 DEF PlanInv, Ids
  <2>6. \A id \in DOMAIN plans' : Outgrown(id, plans[id])' /\ id \notin dropped' \cup applied'
    BY <2>1 DEF PlanInv, Outgrown
  <2> QED  BY <2>1, <2>2, <2>3, <2>4, <2>5, <2>6 DEF PlanInv, Applies, Outgrown
<1>2. ASSUME NEW source \in Names, NEW target \in Names, PrepareRefused(source, target)  PROVE PlanInv'
  <2>1. /\ DOMAIN plans' = DOMAIN plans \ {id \in DOMAIN plans : Expired(id)}
        /\ \A id \in DOMAIN plans' : plans'[id] = plans[id]
        /\ dropped' = dropped \cup {id \in DOMAIN plans : Expired(id)}
        /\ UNCHANGED <<stamp, copies, applied, nplans, pc, job>> /\ \A c \in Calls : pc[c] = "idle"
    BY <1>2, <1>a DEF PrepareRefused, Without, Mutex
  <2> QED  BY <1>a, <2>1, PlanIdle DEF PlanInv
<1>3. ASSUME NEW c \in Calls, PrepareKeep(c)  PROVE PlanInv'
  <2> DEFINE plan == [source |-> job[c].source, target |-> job[c].target, uuid |-> job[c].uuid,
                      print |-> Fingerprint, created |-> now]
  <2>1. pc[c] = "prepare" /\ Leave(c) /\ UNCHANGED <<project, stamp, nplans, copies, applied, dropped>>
        /\ plans' = [id \in DOMAIN plans \cup {job[c].id} |-> IF id = job[c].id THEN plan ELSE plans[id]]
    BY <1>3 DEF PrepareKeep, history
  <2>2. plan.print.stamp = stamp
    BY DEF Fingerprint
  <2> HIDE DEF plan
  <2>3. \A d \in Calls : pc'[d] = "idle"
    BY <1>a, <2>1, LeaveTypes
  <2>4. job[c].id \notin dropped \cup applied /\ copies[job[c].id] = {}
    BY <2>1 DEF PlanInv
  <2>5. \A id \in DOMAIN plans' : Outgrown(id, plans'[id]) /\ id \notin dropped \cup applied
    BY <1>a, <2>1, <2>2, <2>4 DEF PlanInv, Outgrown
  <2> QED  BY <2>1, <2>3, <2>5 DEF PlanInv, Outgrown, Applies
<1>4. ASSUME NEW c \in Calls, NEW id \in Ids, ApplyLook(c, id)  PROVE PlanInv'
  <2>1. /\ Enter(c, "print", Attempt(id)) /\ id \in DOMAIN plans
        /\ UNCHANGED <<stamp, plans, nplans, copies, applied, dropped>>
    BY <1>4 DEF ApplyLook, history
  <2>2. pc'[c] = "print" /\ job'[c] = Attempt(id) /\ \A d \in Calls : d # c => pc'[d] = "idle"
    BY <1>a, <2>1, EnterTypes DEF States
  <2>3. job'[c].id = id /\ job'[c].plan = plans[id]
    BY <2>2 DEF Attempt
  <2>4. Outgrown(id, plans[id]) /\ id \notin dropped \cup applied
    BY <2>1 DEF PlanInv
  <2> QED  BY <2>1, <2>2, <2>3, <2>4 DEF PlanInv, Outgrown, Applies
<1>5. ASSUME NEW id \in Ids, ApplyExpired(id) \/ Discard(id)  PROVE PlanInv'
  <2>1. /\ DOMAIN plans' = DOMAIN plans \ {id} /\ \A i \in DOMAIN plans' : plans'[i] = plans[i]
        /\ id \in DOMAIN plans /\ UNCHANGED <<stamp, nplans, pc, job, copies, applied>>
        /\ dropped' = dropped \/ (dropped' = dropped \cup {id} /\ \A c \in Calls : Applies(c) => job[c].id # id)
    BY <1>5, <1>a DEF ApplyExpired, Discard, Without, Applying, Applies, Mutex, States
  <2>2. ASSUME NEW c \in Calls, pc[c] = "prepare"  PROVE job[c].id # id
    BY <2>1, <2>2 DEF PlanInv
  <2>3. \A c \in Calls : pc[c] # "idle" => job[c].id \notin dropped'
    BY <2>1, <2>2 DEF PlanInv, Applies
  <2> QED  BY <2>1, <2>3 DEF PlanInv, Outgrown, Applies
<1>6. ASSUME NEW c \in Calls, ApplyPrint(c)  PROVE PlanInv'
  <2>1. pc[c] = "print" /\ Applies(c) /\ UNCHANGED <<project, stamp, plans, nplans, copies, applied, dropped>>
    BY <1>6 DEF ApplyPrint, Applies, history
  <2>2. CASE Leave(c)
    BY <1>a, <2>1, <2>2, LeaveTypes, PlanIdle DEF PlanInv
  <2>3. CASE job[c].plan.print = Fingerprint /\ Go(c, "copy") /\ UNCHANGED job
    <3>1. pc'[c] = "copy" /\ \A d \in Calls : d # c => pc'[d] = "idle"
      BY <1>a, <2>1, <2>3, GoTypes DEF States
    <3>2. job[c].plan.print.stamp = stamp
      BY <2>3 DEF Fingerprint
    <3>3. copies[job[c].id] = {}
      BY <1>a, <2>1, <3>2 DEF PlanInv, Outgrown
    <3> QED  BY <2>1, <2>3, <3>1, <3>3 DEF PlanInv, Outgrown, Applies
  <2> QED  BY <1>6, <2>2, <2>3 DEF ApplyPrint
<1>7. ASSUME NEW c \in Calls, Copy(c)  PROVE PlanInv'
  <2>1. /\ pc[c] = "copy" /\ Applies(c) /\ Go(c, "rename") /\ job' = [job EXCEPT ![c].copy = stamp + 1]
        /\ stamp' = stamp + 1 /\ copies' = [copies EXCEPT ![job[c].id] = @ \cup {stamp + 1}]
        /\ UNCHANGED <<plans, nplans, applied, dropped>>
    BY <1>7 DEF Copy, Applies
  <2>2. pc'[c] = "rename" /\ \A d \in Calls : d # c => pc'[d] = "idle"
    BY <1>a, <2>1, GoTypes DEF States
  <2>3. job[c].id \in 1..nplans /\ job[c] \in ApplyJob
    BY <2>1 DEF TypeInv, Jobs, Applies
  <2>4. job'[c].id = job[c].id /\ job'[c].plan = job[c].plan
    BY <1>a, <2>1, <2>3 DEF ApplyJob
  <2>5. \A id \in Ids : id > nplans => copies'[id] = {}
    <3>1. \A id \in Ids : id > nplans => id # job[c].id
      BY <1>a, <2>3 DEF Ids
    <3> QED  BY <2>1, <3>1 DEF PlanInv, TypeInv, Young
  <2>6. ASSUME NEW id \in DOMAIN plans  PROVE Outgrown(id, plans[id])'
    <3>1. plans[id].print.stamp \in Nat /\ plans[id].print.stamp <= stamp
      BY DEF TypeInv, Jobs, Plan, PlanInv, Outgrown
    <3>2. plans[id].print.stamp < stamp'
      BY <1>a, <2>1, <3>1
    <3> QED  BY <1>a, <2>1, <3>1, <3>2 DEF Outgrown
  <2>7. job[c].plan.print.stamp <= stamp'
    <3>1. job[c].plan.print.stamp \in Nat /\ job[c].plan.print.stamp <= stamp
      BY <2>1, <2>3 DEF ApplyJob, Plan, PlanInv
    <3> QED  BY <1>a, <2>1, <3>1
  <2>8. job[c].id \notin dropped \cup applied
    BY <2>1 DEF PlanInv
  <2> QED  BY <2>1, <2>2, <2>4, <2>5, <2>6, <2>7, <2>8 DEF PlanInv, Applies
<1>8. ASSUME NEW c \in Calls, CopyFail(c)  PROVE PlanInv'
  BY <1>a, <1>8, LeaveTypes, PlanIdle DEF CopyFail, PlanInv, history
<1>9. ASSUME NEW c \in Calls, Rename(c) \/ RenameRefused(c) \/ FindFail(c)  PROVE PlanInv'
  <2>1. /\ Applies(c) /\ (Go(c, "find") \/ Go(c, "undo")) /\ stamp' \in {stamp, stamp + 1}
        /\ UNCHANGED <<plans, nplans, job, copies, applied, dropped>>
    BY <1>9 DEF Rename, RenameRefused, FindFail, Applies, history
  <2>2. pc'[c] \in {"find", "undo"} /\ \A d \in Calls : d # c => pc'[d] = "idle"
    BY <1>a, <2>1, GoTypes DEF Applies, States
  <2>3. stamp' \in Nat /\ stamp' >= stamp
    BY <1>a, <2>1
  <2> QED  BY <2>1, <2>2, <2>3, PlanLate
<1>10. ASSUME NEW c \in Calls, Find(c)  PROVE PlanInv'
  <2>1. /\ pc[c] = "find" /\ Leave(c) /\ DOMAIN plans' = DOMAIN plans \ {job[c].id}
        /\ \A i \in DOMAIN plans' : plans'[i] = plans[i]
        /\ applied' = applied \cup {job[c].id} /\ UNCHANGED <<stamp, nplans, copies, dropped>>
    BY <1>10 DEF Find, Without
  <2> QED  BY <1>a, <2>1, LeaveTypes, PlanIdle DEF PlanInv
<1>11. ASSUME NEW c \in Calls, Undo(c)  PROVE PlanInv'
  <2>1. pc[c] = "undo" /\ Leave(c) /\ stamp' \in {stamp, stamp + 1}
        /\ UNCHANGED <<plans, nplans, copies, applied, dropped>>
    BY <1>11 DEF Undo, history
  <2>2. stamp' \in Nat /\ stamp' >= stamp
    BY <1>a, <2>1
  <2> QED  BY <1>a, <2>1, <2>2, LeaveTypes, PlanIdle DEF PlanInv
<1>12. CASE Edit
  <2>1. stamp' = stamp + 1 /\ UNCHANGED <<plans, nplans, pc, job, copies, applied, dropped>>
    BY <1>12 DEF Edit, service, history
  <2>2. ASSUME NEW id, NEW plan \in Plan, Outgrown(id, plan)  PROVE Outgrown(id, plan)'
    <3>1. plan.print.stamp \in Nat  BY DEF Plan
    <3> QED  BY <1>a, <2>1, <2>2, <3>1 DEF Outgrown
  <2>3. ASSUME NEW c \in Calls, Applies(c)  PROVE job[c].plan \in Plan /\ job[c].plan.print.stamp <= stamp'
    <3>1. job[c].plan \in Plan /\ job[c].plan.print.stamp \in Nat /\ job[c].plan.print.stamp <= stamp
      BY <2>3 DEF TypeInv, Jobs, ApplyJob, Plan, PlanInv
    <3> QED  BY <1>a, <2>1, <3>1
  <2>4. \A id \in DOMAIN plans : plans[id] \in Plan
    BY DEF TypeInv, Jobs
  <2> QED  BY <2>1, <2>2, <2>3, <2>4 DEF PlanInv, Applies
<1>13. CASE Restart
  BY <1>a, <1>13, PlanIdle DEF Restart
<1>14. CASE Tick \/ UNCHANGED vars
  BY <1>14 DEF Tick, vars, service, history, PlanInv, Outgrown, Applies
<1> QED  BY <1>1, <1>2, <1>3, <1>4, <1>5, <1>6, <1>7, <1>8, <1>9, <1>10, <1>11, <1>12, <1>13, <1>14 DEF Next

-----------------------------------------------------------------------------
(* EdtPlans: the project while an apply works on it *)

\* What ExactInv says of one request is what it has to say when the others are idle.
LEMMA ExactOne ==
  ASSUME NEW c \in Calls, \A d \in Calls : d # c => pc'[d] = "idle",
         c \notin raced' =>
           /\ pc'[c] = "copy" => project' = job'[c].plan.print.objects
           /\ pc'[c] \in {"rename", "find", "undo"} =>
                /\ \E n \in Names : With(c, n)' /\ (pc'[c] = "find" => n = job'[c].plan.target)
                /\ \A n \in Names : job'[c].plan.print.objects[n] # job'[c].copy
                /\ job'[c].copy # NoObject
  PROVE  ExactInv'
BY DEF ExactInv

LEMMA ExactIdle == ASSUME \A d \in Calls : pc'[d] = "idle"  PROVE ExactInv'
BY DEF ExactInv

LEMMA ExactSame == ASSUME ExactInv, UNCHANGED <<project, pc, job, raced>>  PROVE ExactInv'
BY DEF ExactInv, With

LEMMA ExactStep == TypeInv /\ ExactInv /\ [Next]_vars => ExactInv'
<1> SUFFICES ASSUME TypeInv, ExactInv, [Next]_vars PROVE ExactInv'
  OBVIOUS
<1>a. /\ Mutex /\ pc \in [Calls -> States] /\ DOMAIN job = Calls /\ stamp \in Nat /\ project \in Projects
      /\ \A c \in Calls : Applies(c) => job[c] \in ApplyJob
  BY DEF TypeInv, Shape, Jobs
<1>1. ASSUME NEW c \in Calls, NEW source \in Names, NEW target \in Names, PrepareLook(c, source, target)
      PROVE  ExactInv'
  <2>1. PICK work : Enter(c, "prepare", work)
    BY <1>1 DEF PrepareLook
  <2>2. pc'[c] = "prepare" /\ \A d \in Calls : d # c => pc'[d] = "idle"
    BY <1>a, <2>1, EnterTypes DEF States
  <2> QED  BY <2>2, ExactOne
<1>2. ASSUME NEW c \in Calls, NEW id \in Ids, ApplyLook(c, id)  PROVE ExactInv'
  <2>1. Enter(c, "print", Attempt(id))
    BY <1>2 DEF ApplyLook
  <2>2. pc'[c] = "print" /\ \A d \in Calls : d # c => pc'[d] = "idle"
    BY <1>a, <2>1, EnterTypes DEF States
  <2> QED  BY <2>2, ExactOne
<1>3. ASSUME NEW c \in Calls, pc[c] # "idle", Leave(c)  PROVE ExactInv'
  BY <1>a, <1>3, LeaveTypes, ExactIdle
<1>4. ASSUME NEW c \in Calls, PrepareKeep(c) \/ CopyFail(c) \/ Find(c) \/ Undo(c)  PROVE ExactInv'
  BY <1>3, <1>4 DEF PrepareKeep, CopyFail, Find, Undo
<1>5. ASSUME NEW c \in Calls, ApplyPrint(c)  PROVE ExactInv'
  <2>1. pc[c] = "print" /\ UNCHANGED project
    BY <1>5 DEF ApplyPrint
  <2>2. CASE job[c].plan.print = Fingerprint /\ Go(c, "copy") /\ UNCHANGED job
    <3>1. pc'[c] = "copy" /\ \A d \in Calls : d # c => pc'[d] = "idle"
      BY <1>a, <2>1, <2>2, GoTypes DEF States
    <3>2. job'[c].plan.print.objects = project
      BY <2>2 DEF Fingerprint
    <3> QED  BY <2>1, <3>1, <3>2, ExactOne
  <2> QED  BY <1>3, <1>5, <2>1, <2>2 DEF ApplyPrint
<1>6. ASSUME NEW c \in Calls, Copy(c)  PROVE ExactInv'
  <2>1. /\ pc[c] = "copy" /\ Go(c, "rename") /\ job' = [job EXCEPT ![c].copy = stamp + 1] /\ raced' = raced
    BY <1>6 DEF Copy
  <2>2. PICK n \in Names : ~Exists(n) /\ project' = [project EXCEPT ![n] = stamp + 1]
    BY <1>6 DEF Copy
  <2>3. pc'[c] = "rename" /\ \A d \in Calls : d # c => pc'[d] = "idle"
    BY <1>a, <2>1, GoTypes DEF States
  <2>4. job'[c].plan = job[c].plan /\ job'[c].copy = stamp + 1
    BY <1>a, <2>1 DEF Applies, ApplyJob
  <2>5. ASSUME c \notin raced
        PROVE  /\ With(c, n)' /\ \A m \in Names : job'[c].plan.print.objects[m] # job'[c].copy
               /\ job'[c].copy # NoObject
    <3>1. job'[c].plan.print.objects = project
      BY <2>1, <2>4, <2>5 DEF ExactInv
    <3>2. \A m \in Names : project[m] # stamp + 1
      <4>1. stamp + 1 # NoObject /\ \A m \in Names : project[m] # NoObject => project[m] \in Nat /\ project[m] <= stamp
        BY <1>a, PlansAssumption DEF TypeInv, Young, Projects
      <4> QED  BY <1>a, <4>1
    <3>3. stamp + 1 # NoObject
      BY <1>a, PlansAssumption
    <3> QED  BY <2>2, <2>4, <3>1, <3>2, <3>3 DEF With, Exists
  <2> QED  BY <2>1, <2>3, <2>5, ExactOne
<1>7. ASSUME NEW c \in Calls, Rename(c)  PROVE ExactInv'
  <2> DEFINE target == job[c].plan.target
             objects == job[c].plan.print.objects
             copy == job[c].copy
  <2>1. /\ pc[c] = "rename" /\ Go(c, "find") /\ job' = job /\ raced' = raced
        /\ IF project[target] = copy THEN UNCHANGED project
           ELSE /\ ~Exists(target)
                /\ \E n \in Named(copy) : project' = [project EXCEPT ![n] = NoObject, ![target] = copy]
    BY <1>7 DEF Rename
  <2>2. pc'[c] = "find" /\ \A d \in Calls : d # c => pc'[d] = "idle"
    BY <1>a, <2>1, GoTypes DEF States
  <2>3. job[c] \in ApplyJob /\ target \in Names /\ objects \in Projects
    BY <1>a, <2>1 DEF Applies, ApplyJob, Plan
  <2>4. ASSUME c \notin raced
        PROVE  /\ objects[target] = NoObject /\ project' = [objects EXCEPT ![target] = copy]
               /\ \A m \in Names : objects[m] # copy
               /\ copy # NoObject
    <3>1. PICK n \in Names : objects[n] = NoObject /\ project = [objects EXCEPT ![n] = copy]
      BY <2>1, <2>4 DEF ExactInv, With
    <3>2. copy # NoObject /\ \A m \in Names : objects[m] # copy
      BY <2>1, <2>4 DEF ExactInv
    <3> HIDE DEF target, objects, copy
    <3>3. \A m \in Names : project[m] = IF m = n THEN copy ELSE objects[m]
      BY <2>3, <3>1 DEF Projects
    <3>4. CASE project[target] = copy
      BY <2>1, <2>3, <3>1, <3>2, <3>3, <3>4
    <3>5. CASE project[target] # copy
      <4>1. project[target] = NoObject /\ target # n
        BY <2>1, <2>3, <3>3, <3>5 DEF Exists
      <4>2. project' = [project EXCEPT ![n] = NoObject, ![target] = copy]
        BY <2>1, <2>3, <3>2, <3>3, <3>5 DEF Named
      <4>3. objects[target] = NoObject
        BY <2>3, <3>3, <4>1
      <4>4. [project EXCEPT ![n] = NoObject, ![target] = copy] = [objects EXCEPT ![target] = copy]
        BY <1>a, <2>3, <3>1, <3>3, <4>1 DEF Projects
      <4> QED  BY <3>2, <4>2, <4>3, <4>4
    <3> QED  BY <3>4, <3>5
  <2>5. c \notin raced => With(c, target)' /\ \A m \in Names : job'[c].plan.print.objects[m] # job'[c].copy
    BY <2>1, <2>4 DEF With
  <2> QED  BY <2>1, <2>2, <2>3, <2>4, <2>5, ExactOne
<1>8. ASSUME NEW c \in Calls, RenameRefused(c) \/ FindFail(c)  PROVE ExactInv'
  <2>1. pc[c] \in {"rename", "find"} /\ Go(c, "undo") /\ UNCHANGED <<project, job, raced>>
    BY <1>8 DEF RenameRefused, FindFail
  <2>2. pc'[c] = "undo" /\ \A d \in Calls : d # c => pc'[d] = "idle"
    BY <1>a, <2>1, GoTypes DEF States
  <2>3. c \notin raced => /\ \E n \in Names : With(c, n)
                          /\ \A n \in Names : job[c].plan.print.objects[n] # job[c].copy
                          /\ job[c].copy # NoObject
    BY <2>1 DEF ExactInv
  <2> QED  BY <2>1, <2>2, <2>3, ExactOne DEF With
<1>9. CASE Edit
  BY <1>9, <1>a DEF Edit, ExactInv, service
<1>10. CASE Restart
  BY <1>10, ExactIdle DEF Restart
<1>11. ASSUME NEW source \in Names, NEW target \in Names, PrepareRefused(source, target)  PROVE ExactInv'
  BY <1>11, ExactSame DEF PrepareRefused
<1>12. ASSUME NEW id \in Ids, ApplyExpired(id) \/ Discard(id)  PROVE ExactInv'
  BY <1>12, ExactSame DEF ApplyExpired, Discard
<1>13. CASE Tick \/ UNCHANGED vars
  BY <1>13, ExactSame DEF Tick, vars, service
<1> QED  BY <1>1, <1>2, <1>4, <1>5, <1>6, <1>7, <1>8, <1>9, <1>10, <1>11, <1>12, <1>13 DEF Next

LEMMA ExactInit == Init => ExactInv
BY DEF Init, ExactInv

LEMMA PlansHold == Spec => [](TypeInv /\ PlanInv /\ ExactInv)
<1>1. Init => TypeInv /\ PlanInv /\ ExactInv
  BY TypeInit, PlanInit, ExactInit
<1>2. TypeInv /\ PlanInv /\ ExactInv /\ [Next]_vars => (TypeInv /\ PlanInv /\ ExactInv)'
  BY TypeStep, PlanStep, ExactStep
<1> QED  BY <1>1, <1>2, PTL DEF Spec

-----------------------------------------------------------------------------
\* Every variable has its type, and the monitor is held by the one request at work.
THEOREM PlanTypes == Spec => []TypeOK
<1>1. ASSUME TypeInv  PROVE TypeOK
  <2>1. Cardinality(lock) <= 1
    <3>1. CASE lock = {}  BY <3>1, FS_EmptySet
    <3>2. CASE lock # {}
      <4>1. PICK c \in lock : lock = {c}  BY <1>1, <3>2 DEF TypeInv, Mutex
      <4> QED  BY <4>1, FS_Singleton
    <3> QED  BY <3>1, <3>2
  <2> QED  BY <1>1, <2>1 DEF TypeOK, TypeInv, Shape, Mutex, Jobs, Young, States
<1> QED  BY <1>1, PlansHold, PTL

\* A plan attaches one copy at most, and none once it was discarded, expired or was
\* lost while nobody was applying it.
THEOREM AttachedTheorem == Spec => AttachedOnce
<1>1. ASSUME TypeInv, PlanInv, [Next]_vars, NEW id \in Ids, copies'[id] # copies[id]
      PROVE  copies[id] = {} /\ Cardinality(copies'[id]) = 1 /\ id \notin dropped
  <2>1. PICK c \in Calls : Copy(c)
    BY <1>1 DEF Next, vars, history, service, PrepareLook, PrepareRefused, ApplyLook, PrepareKeep, ApplyPrint,
       CopyFail, Rename, RenameRefused, Find, FindFail, Undo, ApplyExpired, Discard, Edit, Restart, Tick
  <2>2. pc[c] = "copy" /\ copies' = [copies EXCEPT ![job[c].id] = @ \cup {stamp + 1}]
    BY <2>1 DEF Copy
  <2>3. id = job[c].id
    BY <1>1, <2>2 DEF TypeInv, Young
  <2>4. copies[id] = {} /\ id \notin dropped
    BY <1>1, <2>2, <2>3 DEF PlanInv
  <2>5. copies'[id] = {stamp + 1}
    BY <1>1, <2>2, <2>3, <2>4 DEF TypeInv, Young
  <2> QED  BY <2>4, <2>5, FS_Singleton
<1>2. TypeInv /\ PlanInv /\ [Next]_vars =>
        [\A id \in Ids : copies'[id] # copies[id] =>
           copies[id] = {} /\ Cardinality(copies'[id]) = 1 /\ id \notin dropped]_vars
  BY <1>1
<1> QED  BY <1>2, PlansHold, PTL DEF Spec, AttachedOnce

\* What an apply that nobody edits across leaves of the project its plan was prepared
\* for, whether it answers "applied" or fails.
THEOREM ExactTheorem == Spec => ApplyIsExact
<1> DEFINE Exact(c) ==
      LET plan == job[c].plan IN
      IF job[c].id \in applied'
        THEN project' = [plan.print.objects EXCEPT ![plan.target] = job[c].copy]
        ELSE \A n \in Names : project'[n] \in {plan.print.objects[n], job[c].copy}
<1>1. ASSUME TypeInv, PlanInv, ExactInv, [Next]_vars, NEW c \in Calls \ raced,
             pc[c] \in {"copy", "rename", "find", "undo"}, pc'[c] = "idle"
      PROVE  Exact(c)
  <2>1. job[c] \in ApplyJob /\ job[c].id \notin applied /\ job[c].plan.print.objects \in Projects
        /\ job[c].plan.target \in Names
    BY <1>1 DEF TypeInv, Jobs, Applies, PlanInv, ApplyJob, Plan
  <2>2. \A n \in Names : project[n] \in {job[c].plan.print.objects[n], job[c].copy}
    BY <1>1, <2>1 DEF ExactInv, With, Projects
  <2>3. \A d \in Calls : pc[d] # "idle" => d = c
    BY <1>1 DEF TypeInv, Mutex
  <2>4. CASE Find(c)
    <3>1. project' = project /\ job[c].id \in applied' /\ pc[c] = "find"
      BY <2>4 DEF Find
    <3>2. project = [job[c].plan.print.objects EXCEPT ![job[c].plan.target] = job[c].copy]
      BY <1>1, <3>1 DEF ExactInv, With
    <3> QED  BY <3>1, <3>2
  <2>5. CASE Undo(c)
    <3>1. applied' = applied /\ pc[c] = "undo"
      BY <2>5 DEF Undo, history
    <3>2. CASE UNCHANGED project
      BY <2>1, <2>2, <3>1, <3>2
    <3>3. ASSUME NEW m \in Named(job[c].copy), project' = [project EXCEPT ![m] = NoObject]
          PROVE  Exact(c)
      <4>1. PICK n \in Names : With(c, n)
        BY <1>1, <3>1 DEF ExactInv
      <4>2. \A i \in Names : job[c].plan.print.objects[i] # job[c].copy
        BY <1>1, <3>1 DEF ExactInv
      <4>3. m \in Names /\ project[m] = job[c].copy
        BY <3>3 DEF Named
      <4>4. m = n
        BY <2>1, <4>1, <4>2, <4>3 DEF With, Projects
      <4>5. \A i \in Names : project'[i] = job[c].plan.print.objects[i]
        BY <1>1, <2>1, <3>3, <4>1, <4>4 DEF With, Projects, TypeInv, Shape
      <4> QED  BY <2>1, <3>1, <4>5
    <3> QED  BY <2>5, <3>2, <3>3 DEF Undo
  <2>6. CASE CopyFail(c) \/ Restart
    BY <2>1, <2>2, <2>6 DEF CopyFail, Restart, history
  <2>7. ASSUME NEW d \in Calls, PrepareKeep(d) \/ ApplyPrint(d)  PROVE FALSE
    BY <1>1, <2>3, <2>7 DEF PrepareKeep, ApplyPrint
  <2>8. ASSUME NEW d \in Calls, Copy(d) \/ Rename(d) \/ RenameRefused(d) \/ FindFail(d)  PROVE FALSE
    <3>1. PICK stage \in {"rename", "find", "undo"} : Go(d, stage) /\ pc[d] # "idle"
      BY <2>8 DEF Copy, Rename, RenameRefused, FindFail
    <3>2. pc'[c] = stage
      BY <1>1, <2>3, <3>1 DEF Go, TypeInv, Shape
    <3> QED  BY <1>1, <3>1, <3>2
  <2>9. ASSUME NEW d \in Calls, CopyFail(d) \/ Find(d) \/ Undo(d)  PROVE d = c
    BY <2>3, <2>9 DEF CopyFail, Find, Undo
  <2>10. pc' # pc
    BY <1>1
  <2>11. ASSUME NEW d \in Calls, \/ \E source, target \in Names : PrepareLook(d, source, target)
                                 \/ \E id \in Ids : ApplyLook(d, id)
         PROVE FALSE
    BY <1>1, <2>11 DEF PrepareLook, ApplyLook, Enter, TypeInv, Mutex
  <2>12. UNCHANGED vars \/ Edit \/ Tick \/ (\E source, target \in Names : PrepareRefused(source, target))
         \/ (\E id \in Ids : ApplyExpired(id) \/ Discard(id)) => FALSE
    BY <2>10 DEF vars, service, Edit, Tick, PrepareRefused, ApplyExpired, Discard
  <2> QED  BY <1>1, <2>4, <2>5, <2>6, <2>7, <2>8, <2>9, <2>11, <2>12 DEF Next
<1>2. TypeInv /\ PlanInv /\ ExactInv /\ [Next]_vars =>
        [\A c \in Calls \ raced :
           (pc[c] \in {"copy", "rename", "find", "undo"} /\ pc'[c] = "idle") => Exact(c)]_vars
  BY <1>1
<1> QED  BY <1>2, PlansHold, PTL DEF Spec, ApplyIsExact
=============================================================================
