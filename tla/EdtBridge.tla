----------------------------- MODULE EdtBridge -----------------------------
(***************************************************************************)
(* The bridge between the MCP server and EDT: the plug-in's HTTP server    *)
(* (Activator, EdtBridgeServer) and its client (internal/edt/client.go).   *)
(*                                                                         *)
(* Each start of EDT is a session with a token of its own.  It opens the   *)
(* port, writes port and token to bridge.json and accepts connections;     *)
(* stopped in order it closes the port and deletes the file, killed it     *)
(* leaves the file.  A call reads the file each time, so it may carry the  *)
(* token of a session that is gone to whoever has the port now.  Sessions  *)
(* share bridge.json; those of another instance of EDT may overlap.        *)
(* What a request does in EDT is one step here.                            *)
(***************************************************************************)
EXTENDS Integers, FiniteSets

CONSTANTS
  Sessions, \* starts of EDT
  Port,     \* Port[s], the port a session is told to use
  Callers,  \* calls of tools that may be under way at once
  None,     \* no file, no session
  MaxCalls  \* bound: calls begun

ASSUME BridgeAssumption ==
  /\ None \notin Sessions /\ IsFiniteSet(Sessions) /\ MaxCalls \in Nat
  /\ DOMAIN Port = Sessions

VARIABLES
  edt,        \* what each session is: off, or its port open, served, closed ...
  starter,    \* the thread of the session that is in startBridge
  descriptor, \* the session whose port and token bridge.json holds, or None
  caller,     \* what the client does for each call
  desc,       \* the session whose port and token the call has read
  at,         \* the session the call is connected to
  handler,    \* what the plug-in does with the request
  outcome,    \* what the caller was told by its last call
  begun,      \* counter of the bound
  done,       \* history: sessions in which the request was carried out
  deleted     \* history: sessions that were stopped in order and could delete the file

bridgeVars ==
  <<edt, starter, descriptor, caller, desc, at, handler, outcome, begun, done, deleted>>

\* The ServerSocket is open; that of a start that failed is never closed by the code.
Listening(s) == edt[s] \in {"open", "serving", "stuck"}

Alive(s) == edt[s] \notin {"off", "ended"}

BridgeInit ==
  /\ edt = [s \in Sessions |-> "off"] /\ starter = [s \in Sessions |-> "none"]
  /\ descriptor = None
  /\ caller = [c \in Callers |-> "idle"] /\ desc = [c \in Callers |-> None]
  /\ at = [c \in Callers |-> None] /\ handler = [c \in Callers |-> "none"]
  /\ outcome = [c \in Callers |-> "none"] /\ begun = 0
  /\ done = [c \in Callers |-> {}] /\ deleted = {}

-----------------------------------------------------------------------------
(* Sessions of EDT *)

\* The session goes on as state says, the thread in startBridge as start says.
Session(s, state, start) ==
  /\ edt' = [edt EXCEPT ![s] = state] /\ starter' = [starter EXCEPT ![s] = start]
  /\ UNCHANGED <<caller, desc, at, handler, outcome, begun, done>>

\* Mutant: the port is opened as if nobody had it.
StartOnOpenPort(s) ==
  /\ edt[s] = "off"
  /\ Session(s, "open", "describe")
  /\ UNCHANGED <<descriptor, deleted>>

\* startBridge: the port is opened, unless another session has it.
Start(s) ==
  /\ edt[s] = "off"
  /\ IF \E t \in Sessions : Listening(t) /\ Port[t] = Port[s]
       THEN Session(s, "without", "none") ELSE Session(s, "open", "describe")
  /\ UNCHANGED <<descriptor, deleted>>

\* writeBridgeFile: a temporary file moved onto bridge.json.
Describe(s) ==
  /\ starter[s] = "describe" /\ Session(s, edt[s], "serve")
  /\ descriptor' = s /\ UNCHANGED deleted

\* writeBridgeFile fails: startBridge forgets the server, whose port stays open.
DescribeFail(s) ==
  /\ starter[s] = "describe" /\ Session(s, "stuck", "none")
  /\ UNCHANGED <<descriptor, deleted>>

\* The thread that accepts connections starts.
Serve(s) ==
  /\ starter[s] = "serve" /\ Session(s, IF edt[s] = "open" THEN "serving" ELSE edt[s], "none")
  /\ UNCHANGED <<descriptor, deleted>>

\* Mutant: stop does not wait for startBridge.
CloseUnsynchronized(s) ==
  /\ edt[s] \in {"open", "serving"}
  /\ Session(s, "closing", starter[s])
  /\ UNCHANGED <<descriptor, deleted>>

\* stop and startBridge are synchronized: EDT ends in order, the port is closed.
Close(s) ==
  /\ edt[s] \in {"open", "serving"} /\ starter[s] = "none"
  /\ Session(s, "closing", "none")
  /\ UNCHANGED <<descriptor, deleted>>

\* The end of close: whatever bridge.json holds is deleted.
Delete(s) ==
  /\ edt[s] = "closing" /\ Session(s, "without", starter[s])
  /\ descriptor' = None /\ deleted' = deleted \cup {s}

\* EDT is killed, or exits with or without having deleted the file.
Exit(s) ==
  /\ Alive(s) /\ Session(s, "ended", "none")
  /\ UNCHANGED <<descriptor, deleted>>

-----------------------------------------------------------------------------
(* Calls *)

Return(c, answer) ==
  /\ caller' = [caller EXCEPT ![c] = "idle"]
  /\ outcome' = [outcome EXCEPT ![c] = answer]

Begin(c) ==
  /\ caller[c] = "idle" /\ handler[c] = "none" /\ begun < MaxCalls /\ begun' = begun + 1
  /\ caller' = [caller EXCEPT ![c] = "begun"]
  /\ desc' = [desc EXCEPT ![c] = None] /\ at' = [at EXCEPT ![c] = None]
  /\ outcome' = [outcome EXCEPT ![c] = "none"] /\ done' = [done EXCEPT ![c] = {}]
  /\ UNCHANGED <<edt, starter, descriptor, handler, deleted>>

\* readBridge: without bridge.json nothing is sent.
ReadBridge(c) ==
  /\ caller[c] = "begun"
  /\ IF descriptor = None THEN Return(c, "refused") /\ UNCHANGED desc
     ELSE /\ caller' = [caller EXCEPT ![c] = "read"] /\ desc' = [desc EXCEPT ![c] = descriptor]
          /\ UNCHANGED outcome
  /\ UNCHANGED <<edt, starter, descriptor, at, handler, begun, done, deleted>>

\* The connection waits in the queue of whichever session has the port.
Connect(c) ==
  /\ caller[c] = "read"
  /\ LET owners == {s \in Sessions : Listening(s) /\ Port[s] = Port[desc[c]]} IN
       IF owners = {} THEN Return(c, "unknown") /\ UNCHANGED <<at, handler>>
       ELSE /\ caller' = [caller EXCEPT ![c] = "sent"]
            /\ \E s \in owners : at' = [at EXCEPT ![c] = s]
            /\ handler' = [handler EXCEPT ![c] = "queued"]
            /\ UNCHANGED outcome
  /\ UNCHANGED <<edt, starter, descriptor, desc, begun, done, deleted>>

\* Mutant: the token is not compared.
AcceptAnyone(c) ==
  /\ handler[c] = "queued" /\ edt[at[c]] = "serving"
  /\ handler' = [handler EXCEPT ![c] = "running"] /\ UNCHANGED <<caller, outcome>>
  /\ UNCHANGED <<edt, starter, descriptor, desc, at, begun, done, deleted>>

\* acceptLoop, readRequest, authorized: with another token the answer is 401.
Accept(c) ==
  /\ handler[c] = "queued" /\ edt[at[c]] = "serving"
  /\ IF desc[c] = at[c]
       THEN handler' = [handler EXCEPT ![c] = "running"] /\ UNCHANGED <<caller, outcome>>
       ELSE /\ handler' = [handler EXCEPT ![c] = "none"]
            /\ IF caller[c] = "sent" THEN Return(c, "refused") ELSE UNCHANGED <<caller, outcome>>
  /\ UNCHANGED <<edt, starter, descriptor, desc, at, begun, done, deleted>>

\* dispatch: the request is carried out, also when nobody waits for the answer.
Dispatch(c) ==
  /\ handler[c] = "running" /\ Alive(at[c])
  /\ handler' = [handler EXCEPT ![c] = "answer"]
  /\ done' = [done EXCEPT ![c] = @ \cup {at[c]}]
  /\ UNCHANGED <<edt, starter, descriptor, caller, desc, at, outcome, begun, deleted>>

\* dispatch ends with an exception, before or after it has changed something.
DispatchFail(c) ==
  /\ handler[c] = "running" /\ Alive(at[c])
  /\ handler' = [handler EXCEPT ![c] = "none"]
  /\ done' \in {done, [done EXCEPT ![c] = @ \cup {at[c]}]}
  /\ IF caller[c] = "sent" THEN Return(c, "failed") ELSE UNCHANGED <<caller, outcome>>
  /\ UNCHANGED <<edt, starter, descriptor, desc, at, begun, deleted>>

\* Mutant: the answer is sent before the work is done.
AnswerEarly(c) ==
  /\ handler[c] \in {"running", "answer"} /\ Alive(at[c])
  /\ UNCHANGED handler
  /\ IF caller[c] = "sent" THEN Return(c, "ok") ELSE UNCHANGED <<caller, outcome>>
  /\ UNCHANGED <<edt, starter, descriptor, desc, at, begun, done, deleted>>

Answer(c) ==
  /\ handler[c] = "answer" /\ Alive(at[c])
  /\ handler' = [handler EXCEPT ![c] = "none"]
  /\ IF caller[c] = "sent" THEN Return(c, "ok") ELSE UNCHANGED <<caller, outcome>>
  /\ UNCHANGED <<edt, starter, descriptor, desc, at, begun, done, deleted>>

\* The connection is lost, queued at a port that closes or with the session.
Lose(c) ==
  /\ handler[c] # "none"
  /\ \/ handler[c] = "queued" /\ ~Listening(at[c])
     \/ ~Alive(at[c])
  /\ handler' = [handler EXCEPT ![c] = "none"]
  /\ IF caller[c] = "sent" THEN Return(c, "unknown") ELSE UNCHANGED <<caller, outcome>>
  /\ UNCHANGED <<edt, starter, descriptor, desc, at, begun, done, deleted>>

\* Mutant: no timeout; only a call that is queued can be cancelled.
GiveUpCancelled(c) ==
  /\ caller[c] = "sent" /\ handler[c] = "queued" /\ Return(c, "unknown")
  /\ UNCHANGED <<edt, starter, descriptor, desc, at, handler, begun, done, deleted>>

\* http.Client gives up after ten minutes, or the client of the server cancels.
GiveUp(c) ==
  /\ caller[c] = "sent" /\ Return(c, "unknown")
  /\ UNCHANGED <<edt, starter, descriptor, desc, at, handler, begun, done, deleted>>

CallStep(c) == ReadBridge(c) \/ Connect(c) \/ GiveUp(c)

BridgeNext ==
  \/ \E s \in Sessions :
       Start(s) \/ Describe(s) \/ DescribeFail(s) \/ Serve(s) \/ Close(s) \/ Delete(s) \/ Exit(s)
  \/ \E c \in Callers :
       \/ Begin(c) \/ CallStep(c) \/ Accept(c) \/ Dispatch(c) \/ DispatchFail(c)
       \/ Answer(c) \/ Lose(c)

BridgeSpec == BridgeInit /\ [][BridgeNext]_bridgeVars

\* Only the caller is counted on: EDT may hang, stuck or at a dialogue.
FairSpec == BridgeSpec /\ \A c \in Callers : WF_bridgeVars(CallStep(c))

-----------------------------------------------------------------------------
(* Properties *)

\* Every variable has its type, and each port is open once.
BridgeTypeOK ==
  /\ edt \in [Sessions -> {"off", "open", "serving", "stuck", "without", "closing",
                           "ended"}]
  /\ starter \in [Sessions -> {"none", "describe", "serve"}]
  /\ \A s, t \in Sessions : (Listening(s) /\ Listening(t) /\ Port[s] = Port[t]) => s = t
  /\ descriptor \in Sessions \cup {None} /\ deleted \subseteq Sessions
  /\ caller \in [Callers -> {"idle", "begun", "read", "sent"}]
  /\ desc \in [Callers -> Sessions \cup {None}] /\ at \in [Callers -> Sessions \cup {None}]
  /\ handler \in [Callers -> {"none", "queued", "running", "answer"}]
  /\ outcome \in [Callers -> {"none", "ok", "failed", "refused", "unknown"}]
  /\ begun \in 0..MaxCalls /\ done \in [Callers -> SUBSET Sessions]

\* However sessions follow or overlap each other and whatever an old bridge.json says, a
\* request is carried out by the session it was meant for or not at all: the plans,
\* modules and infobases of one EDT are never taken for those of another.
CarriedOutWhereMeant == \A c \in Callers : done[c] \subseteq {desc[c]}

\* What the caller is told can be relied on: an answer means that the request was carried
\* out, "descriptor is unavailable" and "Unauthorized" that it was not and never will be;
\* any other error leaves it open.
OutcomeIsTrue ==
  \A c \in Callers :
    /\ outcome[c] = "ok" => done[c] # {}
    /\ outcome[c] = "refused" => done[c] = {} /\ handler[c] = "none"

\* "bridge.json is deleted when EDT ends in order": no later call is sent after a session
\* that did.
StoppedIsForgotten == descriptor \notin deleted

\* A call returns whatever becomes of EDT.
CallReturns == \A c \in Callers : caller[c] # "idle" ~> caller[c] = "idle"

=============================================================================
