---------------------------- MODULE DitrixProxy ----------------------------
(***************************************************************************)
(* The tools of a server connected to DitriX EDT-MCP, and the calls that   *)
(* go through it (cmd/main.go, internal/mcp/server.go, internal/ditrix and *)
(* ditrix_proxy.go, medium_compat.go, large_subsystems.go, rsv_compat.go   *)
(* of internal/tools).                                                     *)
(*                                                                         *)
(* At the start the server registers tools in a fixed order: its own, then *)
(* facades over the tools the plug-in offers, then the offered tools that  *)
(* were reviewed, then more of its own.  Afterwards calls run at once, each *)
(* for itself: a handler refuses, answers alone, or goes through a plan of  *)
(* steps - things it does itself, and requests to EDT, each sent again      *)
(* every half second while EDT says that the project is building.  EDT     *)
(* executes what it has taken even when nobody waits any more.             *)
(*                                                                         *)
(* A tool list is cut down to members that are treated differently.        *)
(***************************************************************************)
EXTENDS Naturals, Sequences

CONSTANTS
  Calls,       \* calls that may run at once
  Offers,      \* lists of tools the plug-in may offer
  Operations,  \* operations a caller may name
  Requests,    \* Requests[c], what call c may ask
  MaxAttempts, \* sendings that fit in projectBuildRetryTimeout
  MaxPages,    \* bound: pages of a module (1000 in the code)
  MaxBuilds    \* bound: builds of the project

-----------------------------------------------------------------------------
(* The plug-in's tools and the reviewed ones: ditrixToolPolicies *)

ReadPolicy == {"get_metadata_details", "get_module_structure", "read_module_source", "read_method_source",
               "find_references", "search_in_code", "get_project_errors", "list_breakpoints", "debug_status",
               "get_profiling_results"}
WritePolicy == {"write_module_source", "create_metadata", "modify_metadata", "debug_launch",
                "set_variable", "start_profiling", "run_yaxunit_tests"}
DestructivePolicy == {"delete_metadata"}
Reviewed == ReadPolicy \cup WritePolicy \cup DestructivePolicy

RemoteTools == Reviewed \cup {"list_projects", "update_configuration", "new_tool"}

\* What handlers do themselves: to the work directory and the project (ConfigMerge),
\* to logcfg.xml and its logs (Techlog), to an infobase.
OwnSteps == {"PrepareSource", "Merge", "Cleanup", "Techlog", "Vanessa"}

\* properties of the input schema name projectName
AcceptsProject(tool) == tool \notin OwnSteps \cup {"list_projects", "debug_status", "set_variable"}

\* A step of a handler: a request as EDT gets it, or one of its own.  op and dryRun
\* are told only to update_configuration.
Step == [tool : RemoteTools \cup OwnSteps, project : {"none", "fixed", "other"},
         op : Operations, dryRun : BOOLEAN]
Fixed(tool) == [tool |-> tool, project |-> "fixed", op |-> "", dryRun |-> FALSE]
Bare(tool) == [tool |-> tool, project |-> "none", op |-> "", dryRun |-> FALSE]

\* Steps that change something when they are taken.
Changes(r) == \/ r.tool \in WritePolicy \cup DestructivePolicy \cup {"new_tool"} \cup OwnSteps
              \/ /\ r.tool = "update_configuration" /\ ~r.dryRun
                 /\ r.op \in {"merge", "updateVendor", "replayCustomizations", "cleanupSources"}

-----------------------------------------------------------------------------
(* Tools of this server *)

Tool(name, origin, reads, destroys) ==
  [name |-> name, origin |-> origin, readOnly |-> reads, destructive |-> destroys]

\* RegisterWithOptions; some of these ask EDT when it is there.
BaseTools == {Tool("get_object_structure", "native", FALSE, FALSE),
              Tool("get_metadata_tree", "native", FALSE, FALSE)}

\* registerRSVCompatibilityTools: the tool, and what EDT has to offer for it.
CompatibilityNeeds ==
  [list_workspace_projects |-> {"list_projects"},
   ai_context |-> {"get_metadata_details", "get_module_structure", "read_module_source"},
   code_search |-> {"search_in_code"},
   write_module_source |-> {"read_module_source", "write_module_source"},
   get_object_help |-> {"list_projects", "get_metadata_details"}]

\* registerMediumCompatibilityTools and registerLargeSubsystems
MediumTools == {"launch_debugger", "edit_metadata", "code_review"}
LargeSubsystems == {"diagnostics", "vanessa", "update_configuration"}

ReadingFacades == {"list_workspace_projects", "ai_context", "code_search", "get_object_help", "code_review"}

CompatibilityTools(has) ==
  {Tool(name, "facade", name \in ReadingFacades, FALSE) :
     name \in {n \in DOMAIN CompatibilityNeeds : CompatibilityNeeds[n] \subseteq has}
              \cup MediumTools \cup LargeSubsystems}

\* get_ditrix_edt_capabilities, RegisterAnalysis, RegisterWorkspace
LaterTools == {Tool("get_ditrix_edt_capabilities", "native", TRUE, FALSE),
               Tool("find_references", "native", TRUE, FALSE),
               Tool("memory_put", "native", FALSE, FALSE)}

\* annotationsForRemote: the reviewed policy, whatever the plug-in says of itself.
Proxied(name) == Tool(name, "proxy", name \in ReadPolicy, name \in DestructivePolicy)

ToolNames == RemoteTools \cup DOMAIN CompatibilityNeeds \cup MediumTools \cup LargeSubsystems
             \cup {"get_object_structure", "get_metadata_tree", "get_ditrix_edt_capabilities", "memory_put",
                   "run_tests", ""}

HasTool(registry, name) == \E t \in registry : t.name = name
AddIfMissing(registry, tools) == registry \cup {t \in tools : ~HasTool(registry, t.name)}

-----------------------------------------------------------------------------
(* Handlers.  An argument record says what of a call the handlers look at:  *)
(* `op` is the operation, the mode of an edit or the kind of target of      *)
(* ai_context; `pages` is what EDT makes of the module that is named.       *)

Arguments == [name : ToolNames, op : Operations, depth : {"minimal", "standard", "full"},
              project : {"none", "fixed", "other"}, directory : BOOLEAN,
              confirm : BOOLEAN, dryRun : {"absent", "true", "false"},
              acceptAll : BOOLEAN, pages : 1..MaxPages]

\* At least one attempt is made, and the offers hold tools this module knows.
ASSUME ProxyAssumption ==
  /\ MaxAttempts \in Nat \ {0} /\ MaxPages \in Nat \ {0} /\ MaxBuilds \in Nat
  /\ Offers \subseteq Seq(RemoteTools) /\ "" \in Operations
  /\ \A c \in Calls : Requests[c] \subseteq Arguments

\* The steps of a call, and how it ends when all of them succeeded.
Ask(plan) == [plan |-> plan, end |-> "ok"]
InVain(plan) == [plan |-> plan, end |-> "refused"]
Refuse == InVain(<<>>)
Alone == Ask(<<>>)   \* answered, or previewed, without EDT
\* A step that is taken only when something holds.
Where(ok, request) == IF ok THEN <<request>> ELSE <<>>

\* Mutant: the project is only filled in.
ForwardFillingIn(tool, a) ==
  IF a.directory THEN Refuse
  ELSE Ask(<<[Bare(tool) EXCEPT !.project =
                IF AcceptsProject(tool) /\ a.project = "none" THEN "fixed" ELSE a.project]>>)

\* lockDitrixArguments
Forward(tool, a) ==
  IF a.directory \/ (AcceptsProject(tool) /\ a.project = "other") THEN Refuse
  ELSE Ask(<<[Bare(tool) EXCEPT !.project = IF AcceptsProject(tool) THEN "fixed" ELSE a.project]>>)

\* nestedArguments
NestedRefused(a) == a.directory \/ a.project # "none"

DebuggerTool == [status |-> "debug_status", listBreakpoints |-> "list_breakpoints",
                 setVariable |-> "set_variable", launch |-> "debug_launch"]

LaunchDebugger(a, has) ==
  IF \/ a.op \notin DOMAIN DebuggerTool \/ NestedRefused(a)
     \/ DebuggerTool[a.op] \notin has
     \/ (a.op \notin {"status", "listBreakpoints"} /\ ~a.confirm)
  THEN Refuse
  ELSE Ask(<<IF a.op \in {"listBreakpoints", "launch"} THEN Fixed(DebuggerTool[a.op])
             ELSE Bare(DebuggerTool[a.op])>>)

MetadataTool == [details |-> "get_metadata_details", create |-> "create_metadata",
                 delete |-> "delete_metadata", addField |-> "modify_metadata"]

\* Mutant: deletion is taken for one of the reads.
EditMetadataEagerly(a, has) ==
  IF a.op \notin DOMAIN MetadataTool \/ MetadataTool[a.op] \notin has \/ NestedRefused(a) THEN Refuse
  ELSE IF a.op \notin {"details", "delete"} /\ ~a.confirm THEN Alone
  ELSE Ask(<<Fixed(MetadataTool[a.op])>>)

EditMetadata(a, has) ==
  IF a.op \notin DOMAIN MetadataTool \/ MetadataTool[a.op] \notin has \/ NestedRefused(a) THEN Refuse
  ELSE IF a.op # "details" /\ ~a.confirm THEN Alone
  ELSE Ask(<<Fixed(MetadataTool[a.op])>>)

MeasureTool == [measureStart |-> "start_profiling", measureResults |-> "get_profiling_results"]

\* Techlog says what the operations on the technological log do.
Diagnostics(a, has) ==
  IF NestedRefused(a) THEN Refuse
  ELSE IF a.op \in DOMAIN MeasureTool
    THEN IF MeasureTool[a.op] \in has THEN Ask(<<Fixed(MeasureTool[a.op])>>) ELSE Refuse
  ELSE IF a.op \in {"status", "techlogAnalyze", "eventlogRead"} THEN Alone
  ELSE IF a.op \notin {"techlogEnable", "techlogDisable", "techlogClear"} THEN Refuse
  ELSE IF a.confirm THEN Ask(<<Bare("Techlog")>>)
  ELSE IF a.op = "techlogEnable" THEN Alone ELSE Refuse

Vanessa(a) ==
  IF NestedRefused(a) \/ a.op \notin {"status", "steps", "checkSyntax", "run"} THEN Refuse
  ELSE IF a.op = "run" /\ a.confirm THEN Ask(<<Bare("Vanessa")>>) ELSE Alone

\* ConfigMerge's Merge, after the steps its caller took: a preview unless dryRun is
\* false, and then only with the confirmation.
Merging(a, steps) ==
  IF a.dryRun # "false" THEN Ask(steps)
  ELSE IF a.confirm THEN Ask(Append(steps, Bare("Merge")))
  ELSE InVain(steps)

\* The tool says that updateVendor needs a confirmation; its source is prepared - by
\* Designer, below the work directory - before anybody looks for one.
UpdateSources(a) ==
  LET prepared == <<Bare("PrepareSource"), Bare("list_projects")>>
  IN CASE a.op = "prepareSource" -> Ask(<<Bare("PrepareSource")>>)
       [] a.op = "compare" -> Ask(<<Bare("list_projects")>>)
       [] a.op = "updateVendor" -> IF a.acceptAll THEN Merging(a, prepared) ELSE Ask(prepared)
       [] a.op \in {"merge", "replayCustomizations"} -> Merging(a, <<>>)
       [] a.op = "cleanupSources" -> IF a.confirm THEN Ask(<<Bare("Cleanup")>>) ELSE Refuse
       [] a.op \in {"help", "differences", "exportDifferences", "status", "cancel"} -> Alone
       [] OTHER -> Refuse

\* EDT's own update when it has one.
UpdateConfiguration(a, has) ==
  IF NestedRefused(a) THEN Refuse
  ELSE IF "update_configuration" \notin has \/ a.op = "help" THEN UpdateSources(a)
  ELSE LET dry == a.op \in {"merge", "updateVendor", "cleanupSources"} /\ ~(a.confirm /\ a.dryRun = "false")
       IN Ask(<<[tool |-> "update_configuration", project |-> "fixed", op |-> a.op, dryRun |-> dry]>>)

GetObjectHelp == Ask(<<Bare("list_projects"), Fixed("get_metadata_details")>>)

\* The analyzer runs on the directory EDT names.
CodeReview(has) == IF "list_projects" \in has THEN Ask(<<Bare("list_projects")>>) ELSE Refuse

AiContext(a, has) ==
  LET errors == Where(a.depth = "full" /\ "get_project_errors" \in has, Fixed("get_project_errors"))
  IN CASE a.op = "object" ->
            Ask(<<Fixed("get_metadata_details")>>
                \o Where(a.depth = "full" /\ "find_references" \in has, Fixed("find_references")) \o errors)
       [] a.op = "module" ->
            Ask(<<Fixed("get_module_structure")>>
                \o Where(a.depth # "minimal", Fixed("read_module_source")) \o errors)
       [] OTHER -> Refuse

CodeSearch(a, has) ==
  CASE a.op = "textSearch" -> Ask(<<Fixed("search_in_code")>>)
    [] a.op = "objectReferences" /\ "find_references" \in has -> Ask(<<Fixed("find_references")>>)
    [] a.op = "help" -> Alone
    [] OTHER -> Refuse

\* The guarded write of ModuleWrite: it reads the module page by page, and writes when
\* asked to in so many words.  What it finds in the answers is in Conclude.
WriteModule(a, has) ==
  LET pages == [n \in 1..a.pages |-> Fixed("read_module_source")]
      reads == pages \o Where(a.op = "replaceMethod", Fixed("read_method_source"))
      write == a.dryRun = "false"
  IN IF a.op = "replaceMethod" /\ "read_method_source" \notin has THEN InVain(pages)
     ELSE Ask(reads \o Where(write, Fixed("write_module_source"))
                    \o Where(write /\ "get_project_errors" \in has, Fixed("get_project_errors")))

\* A facade, or a tool of the server's own.
NativeHandler(t, a, has) ==
  CASE t.name = "get_object_structure" -> Ask(<<Fixed("get_metadata_details")>>)
    [] t.name = "list_workspace_projects" -> Ask(<<Bare("list_projects")>>)
    [] t.name = "get_object_help" -> GetObjectHelp
    [] t.name = "code_review" -> CodeReview(has)
    [] t.name = "ai_context" -> AiContext(a, has)
    [] t.name = "code_search" -> CodeSearch(a, has)
    [] t.name = "write_module_source" -> WriteModule(a, has)
    [] t.name = "launch_debugger" -> LaunchDebugger(a, has)
    [] t.name = "edit_metadata" -> EditMetadata(a, has)
    [] t.name = "diagnostics" -> Diagnostics(a, has)
    [] t.name = "vanessa" -> Vanessa(a)
    [] t.name = "update_configuration" -> UpdateConfiguration(a, has)
    [] OTHER -> Alone

Handler(t, a, has) ==
  CASE t.origin = "proxy" -> Forward(t.name, a)
    [] t.origin = "alias" -> Forward("run_yaxunit_tests", a)
    [] OTHER -> NativeHandler(t, a, has)

-----------------------------------------------------------------------------
NoTool == Tool("", "none", FALSE, FALSE)

\* What is to be known of a call: what was called, the step it is at, the attempts made
\* and the requests on their way, the last answer, the steps that were executed, how
\* it ended.
Begun(t, confirm, op, h, outcome) ==
  [tool |-> t, confirm |-> confirm, op |-> op, plan |-> h.plan, end |-> h.end, at |-> 1,
   attempts |-> 0, inflight |-> 0, reply |-> "none", ran |-> <<>>,
   outcome |-> outcome]

NoJob == Begun(NoTool, FALSE, "", Alone, "none")

VARIABLES
  phase,    \* how far the start is
  offered,  \* the list tools/list answered
  next,     \* the offered tool the loop is at
  registry, \* tools of the server
  report,   \* DitrixProxyReport
  building, \* EDT builds the project
  builds,   \* counter of the bound
  pc, job   \* where each call is; its tool, requests and answers

startVars == <<phase, offered, next, registry, report>>
vars == <<startVars, building, builds, pc, job>>

Has == {offered[i] : i \in DOMAIN offered}

Init ==
  /\ phase = "flags" /\ offered \in Offers /\ next = 1 /\ registry = {}
  /\ report = [registered |-> {}, nativeWins |-> {}, excluded |-> {}]
  /\ building = FALSE /\ builds = 0
  /\ pc = [c \in Calls |-> "idle"] /\ job = [c \in Calls |-> NoJob]

-----------------------------------------------------------------------------
(* The start: legacyMain, RegisterDitrixEDTWithOptions *)

callVars == <<building, builds, pc, job>>

\* The URL has to be a loopback one and come with the name of a project.
Configure ==
  /\ phase = "flags" /\ phase' \in {"base", "exited"}
  /\ UNCHANGED <<offered, next, registry, report, callVars>>

RegisterBase ==
  /\ phase = "base" /\ phase' = "discover"
  /\ registry' = registry \cup BaseTools
  /\ UNCHANGED <<offered, next, report, callVars>>

\* Initialize and ListTools; a failure ends the process.
Discover ==
  /\ phase = "discover" /\ phase' \in {"compat", "exited"}
  /\ UNCHANGED <<offered, next, registry, report, callVars>>

RegisterCompatibility ==
  /\ phase = "compat" /\ phase' = "proxy"
  /\ registry' = AddIfMissing(registry, CompatibilityTools(Has))
  /\ UNCHANGED <<offered, next, report, callVars>>

\* Mutant: only the policy is asked.
RegisterRemoteOverNative ==
  /\ phase = "proxy" /\ next \in DOMAIN offered /\ next' = next + 1
  /\ LET name == offered[next]
     IN IF name \notin Reviewed
          THEN /\ report' = [report EXCEPT !.excluded = @ \cup {name}] /\ UNCHANGED registry
          ELSE /\ report' = [report EXCEPT !.registered = @ \cup {name}]
               /\ registry' = registry \cup {Proxied(name)}
  /\ UNCHANGED <<phase, offered, callVars>>

\* One turn of the loop over the offered tools.
RegisterRemote ==
  /\ phase = "proxy" /\ next \in DOMAIN offered /\ next' = next + 1
  /\ LET name == offered[next]
     IN \/ /\ HasTool(registry, name)
           /\ report' = [report EXCEPT !.nativeWins = @ \cup {name}] /\ UNCHANGED registry
        \/ /\ ~HasTool(registry, name) /\ name \notin Reviewed
           /\ report' = [report EXCEPT !.excluded = @ \cup {name}] /\ UNCHANGED registry
        \/ /\ ~HasTool(registry, name) /\ name \in Reviewed
           /\ report' = [report EXCEPT !.registered = @ \cup {name}]
           /\ registry' = registry \cup {Proxied(name)}
  /\ UNCHANGED <<phase, offered, callVars>>

\* run_tests stands for run_yaxunit_tests.
RegisterAlias ==
  /\ phase = "proxy" /\ next \notin DOMAIN offered /\ phase' = "later"
  /\ LET found == "run_yaxunit_tests" \in Has /\ ~HasTool(registry, "run_tests")
     IN /\ registry' = IF found THEN registry \cup {Tool("run_tests", "alias", FALSE, FALSE)} ELSE registry
        /\ report' = IF found THEN [report EXCEPT !.registered = @ \cup {"run_tests"}] ELSE report
  /\ UNCHANGED <<offered, next, callVars>>

RegisterLater ==
  /\ phase = "later" /\ phase' = "serving"
  /\ registry' = AddIfMissing(registry, LaterTools)
  /\ UNCHANGED <<offered, next, report, callVars>>

Start == \/ Configure \/ RegisterBase \/ Discover \/ RegisterCompatibility
         \/ RegisterRemote \/ RegisterAlias \/ RegisterLater

-----------------------------------------------------------------------------
(* Calls *)

Goto(c, place) == pc' = [pc EXCEPT ![c] = place]
Note(c, fields) == job' = [job EXCEPT ![c] = fields]
Finish(c, outcome) == Goto(c, "done") /\ Note(c, [job[c] EXCEPT !.outcome = outcome])

Current(c) == job[c].plan[job[c].at]

\* The guarded write asks for the errors of the project once it has written, and says
\* in its answer when it got none.
GuardedWrite(t) == t.name = "write_module_source" /\ t.origin = "facade"
Tolerated(j) == /\ GuardedWrite(j.tool) /\ j.at = Len(j.plan)
                /\ j.plan[j.at].tool = "get_project_errors"

\* A request failed: the end of the call, except where failures are tolerated.
GiveUp(c, outcome) == Finish(c, IF Tolerated(job[c]) THEN "ok" ELSE outcome)

\* The call of a served tool: its handler refuses, answers, or has steps to take.
Call(c, a) ==
  /\ phase = "serving" /\ pc[c] = "idle"
  /\ \E t \in registry :
       /\ t.name = a.name
       /\ LET h == Handler(t, a, Has)
          IN IF h.plan = <<>>
               THEN Goto(c, "done") /\ Note(c, Begun(t, a.confirm, a.op, h, h.end))
               ELSE Goto(c, "ready") /\ Note(c, Begun(t, a.confirm, a.op, h, "none"))
  /\ UNCHANGED <<startVars, building, builds>>

\* A step of the handler's own is done, half done or not done.
DoOwn(c) ==
  /\ pc[c] = "ready" /\ Current(c).tool \in OwnSteps
  /\ LET j == job[c]
         did == [j EXCEPT !.ran = Append(@, j.at)]
     IN \/ j.at < Len(j.plan) /\ Note(c, [did EXCEPT !.at = @ + 1]) /\ UNCHANGED pc
        \/ j.at = Len(j.plan) /\ Goto(c, "done") /\ Note(c, [did EXCEPT !.outcome = j.end])
        \/ \E k \in {j, did} : Goto(c, "done") /\ Note(c, [k EXCEPT !.outcome = "failed"])
  /\ UNCHANGED <<startVars, building, builds>>

\* callToolOnce
Send(c) ==
  /\ pc[c] = "ready" /\ Current(c).tool \notin OwnSteps /\ Goto(c, "wait")
  /\ Note(c, [job[c] EXCEPT !.attempts = @ + 1, !.inflight = @ + 1, !.reply = "none"])
  /\ UNCHANGED <<startVars, building, builds>>

\* A result: the next step of the handler, or the end of the call.
Receive(c) ==
  /\ pc[c] = "wait" /\ job[c].reply = "ok"
  /\ IF job[c].at < Len(job[c].plan)
       THEN Goto(c, "ready") /\ Note(c, [job[c] EXCEPT !.at = @ + 1, !.attempts = 0, !.reply = "none"])
       ELSE Finish(c, job[c].end)
  /\ UNCHANGED <<startVars, building, builds>>

\* resolveEDTProjectRoot and what follows it: the list does not name the
\* project, its directory or the file wanted is not there.
ReceiveUnusable(c) ==
  /\ pc[c] = "wait" /\ job[c].reply = "ok"
  /\ Current(c).tool = "list_projects" /\ job[c].tool.name # "list_workspace_projects"
  /\ Finish(c, "failed")
  /\ UNCHANGED <<startVars, building, builds>>

\* The guarded write ends with what it has read: a page without source, a module that
\* is not the expected one, an edit that does not fit, is too long or deletes too much,
\* a backup that fails; or there is nothing to write.
Conclude(c) ==
  /\ pc[c] = "wait" /\ job[c].reply = "ok" /\ GuardedWrite(job[c].tool)
  /\ Current(c).tool \in {"read_module_source", "read_method_source"}
  /\ \/ Finish(c, "refused")
     \/ /\ job[c].at < Len(job[c].plan) /\ job[c].plan[job[c].at + 1].tool = "write_module_source"
        /\ Finish(c, "preview")
  /\ UNCHANGED <<startVars, building, builds>>

\* A tool failed, or EDT answered with an error.
ReceiveFailure(c) ==
  /\ pc[c] = "wait" /\ job[c].reply = "failed"
  /\ GiveUp(c, "failed")
  /\ UNCHANGED <<startVars, building, builds>>

IsProjectBuilding(c) == pc[c] = "wait" /\ job[c].reply = "building"

\* Mutant: the time that is left is not looked at.
PauseUnchecked(c) ==
  /\ IsProjectBuilding(c) /\ Goto(c, "pause")
  /\ UNCHANGED <<startVars, building, builds, job>>

\* Mutant: the deadline begins again with every attempt.
PauseAlways(c) ==
  /\ IsProjectBuilding(c)
  /\ Goto(c, "pause") /\ Note(c, [job[c] EXCEPT !.attempts = 0])
  /\ UNCHANGED <<startVars, building, builds>>

\* The next attempt would not be too late.
Pause(c) ==
  /\ IsProjectBuilding(c) /\ job[c].attempts < MaxAttempts
  /\ Goto(c, "pause")
  /\ UNCHANGED <<startVars, building, builds, job>>

\* ... or it would: attempts may be slow.
TooLate(c) ==
  /\ IsProjectBuilding(c) /\ GiveUp(c, "building")
  /\ UNCHANGED <<startVars, building, builds>>

Retry(c) ==
  /\ pc[c] = "pause" /\ Goto(c, "ready")
  /\ UNCHANGED <<startVars, building, builds, job>>

\* Mutant: a request that got no answer is sent again.
LoseAndResend(c) ==
  /\ pc[c] = "wait"
  /\ IF job[c].attempts < MaxAttempts
       THEN Goto(c, "pause") /\ UNCHANGED job ELSE GiveUp(c, "lost")
  /\ UNCHANGED <<startVars, building, builds>>

\* The ten minutes of the HTTP client, a broken connection, an answer that is too
\* long or cannot be decoded, a call cancelled while it waits for EDT.
Lose(c) ==
  /\ pc[c] = "wait" /\ GiveUp(c, "lost")
  /\ UNCHANGED <<startVars, building, builds>>

Cancel(c) ==
  /\ pc[c] = "pause" /\ GiveUp(c, "cancelled")
  /\ UNCHANGED <<startVars, building, builds>>

-----------------------------------------------------------------------------
(* EDT *)

\* The answer goes to whoever waits for it.
Answer(c, fields, reply) ==
  Note(c, [fields EXCEPT !.inflight = @ - 1, !.reply = IF pc[c] = "wait" THEN reply ELSE @])

RefuseBuilding(c) ==
  /\ job[c].inflight > 0 /\ building
  /\ Answer(c, job[c], "building")
  /\ UNCHANGED <<startVars, building, builds, pc>>

Execute(c) ==
  /\ job[c].inflight > 0 /\ ~building /\ Current(c).tool \in Has
  /\ \E reply \in {"ok", "failed"} :
       Answer(c, [job[c] EXCEPT !.ran = Append(@, job[c].at)], reply)
  /\ UNCHANGED <<startVars, building, builds, pc>>

\* An unknown tool, arguments EDT does not accept.
Reject(c) ==
  /\ job[c].inflight > 0 /\ Answer(c, job[c], "failed")
  /\ UNCHANGED <<startVars, building, builds, pc>>

StartBuild ==
  /\ ~building /\ builds < MaxBuilds /\ building' = TRUE /\ builds' = builds + 1
  /\ UNCHANGED <<startVars, pc, job>>

EndBuild == building /\ building' = FALSE /\ UNCHANGED <<startVars, builds, pc, job>>

-----------------------------------------------------------------------------
CallStep(c) == \/ DoOwn(c) \/ Send(c) \/ Receive(c) \/ ReceiveUnusable(c) \/ Conclude(c)
               \/ ReceiveFailure(c) \/ Pause(c) \/ TooLate(c) \/ Retry(c) \/ Lose(c)

Next ==
  \/ Start
  \/ \E c \in Calls : CallStep(c) \/ Cancel(c) \/ RefuseBuilding(c) \/ Execute(c) \/ Reject(c)
  \/ \E c \in Calls : \E a \in Requests[c] : Call(c, a)
  \/ StartBuild \/ EndBuild

Spec == Init /\ [][Next]_vars

\* Only the server and its timers are counted on: EDT may build, or say nothing, forever.
FairSpec == Spec /\ WF_vars(Start) /\ \A c \in Calls : WF_vars(CallStep(c))

-----------------------------------------------------------------------------
(* Properties *)

Names(tools) == {t.name : t \in tools}
Kinds == [name : ToolNames, origin : {"native", "facade", "proxy", "alias", "none"},
          readOnly : BOOLEAN, destructive : BOOLEAN]
Job == [tool : Kinds, confirm : BOOLEAN, op : Operations, plan : Seq(Step), end : {"ok", "refused"},
        at : Nat \ {0}, attempts : 0..MaxAttempts, inflight : Nat,
        reply : {"none", "ok", "failed", "building"}, ran : Seq(Nat \ {0}),
        outcome : {"none", "ok", "refused", "preview", "failed", "building", "lost", "cancelled"}]

TypeOK ==
  /\ phase \in {"flags", "base", "discover", "compat", "proxy", "later", "serving", "exited"}
  /\ offered \in Offers /\ next \in 1..(Len(offered) + 1)
  /\ registry \subseteq Kinds
  /\ report \in [registered : SUBSET ToolNames, nativeWins : SUBSET ToolNames, excluded : SUBSET ToolNames]
  /\ building \in BOOLEAN /\ builds \in 0..MaxBuilds
  /\ pc \in [Calls -> {"idle", "ready", "wait", "pause", "done"}]
  /\ job \in [Calls -> Job]

\* A name is served by one tool, although the SDK serves the last of two tools of
\* one name and findTool the first; what was registered before the plug-in was
\* asked is not replaced by its tools; a tool nobody reviewed is not served, even
\* when the list is odd; and the report accounts for every offered tool.
RegistryIsSound ==
  /\ \A t, u \in registry : t.name = u.name => t = u
  /\ \A t \in registry : t.origin = "proxy" =>
       t.name \in (Reviewed \cap Has) \ Names(BaseTools \cup CompatibilityTools(Has))
  /\ report.excluded \cap (Names(registry) \cup Reviewed) = {}
  /\ phase = "serving" =>
       Has = (report.registered \ {"run_tests"}) \cup report.nativeWins \cup report.excluded

\* Whatever the arguments and the way - proxy, alias or facade - a request on a
\* project is on the fixed one.
StaysInProject ==
  \A c \in Calls : \A i \in DOMAIN job[c].plan :
    LET r == job[c].plan[i] IN AcceptsProject(r.tool) => r.project = "fixed"

\* Steps of a tool that asks for confirmation which are taken without it: EDT's own
\* update gets replayCustomizations as it is, and sources are prepared at once, those of
\* updateVendor too, although `confirm` is said to be required for it.
Unasked(j, r) == \/ r.tool = "update_configuration" /\ j.op = "replayCustomizations"
                 \/ r.tool = "PrepareSource"

\* Nothing is changed through a tool announced as a read, which clients approve
\* without asking; nor, by EDT for a facade that asks for confirmation or by the server
\* itself, before the caller confirmed - whatever comes of the call afterwards.
AsAnnounced ==
  \A c \in Calls :
    LET j == job[c]
    IN \A i \in DOMAIN j.ran :
         LET r == j.plan[j.ran[i]]
         IN Changes(r) =>
              /\ ~j.tool.readOnly
              /\ \/ j.tool.name \in {"launch_debugger", "edit_metadata", "update_configuration"}
                 \/ r.tool \in OwnSteps
                 => j.confirm \/ Unasked(j, r)

\* A step is executed at most once and in the handler's order, however often it was
\* sent; an answered call had every step executed, but for the errors the guarded write
\* asks for last; a call that was refused, or found nothing to write, has changed
\* nothing but prepared a source; and where the build was the reason to give up nothing
\* is executed later.
OutcomeIsTrue ==
  \A c \in Calls :
    LET j == job[c]
    IN /\ \A i \in DOMAIN j.ran : j.ran[i] = i
       /\ j.outcome = "ok" => \A i \in DOMAIN j.plan :
            i \in DOMAIN j.ran \/ (GuardedWrite(j.tool) /\ j.plan[i].tool = "get_project_errors")
       /\ j.outcome \in {"refused", "preview"} =>
            \A i \in DOMAIN j.ran : Changes(j.plan[i]) => j.plan[i].tool = "PrepareSource"
       /\ j.outcome \in {"building", "cancelled"} => Len(j.ran) < j.at /\ j.inflight = 0

\* A call returns whatever EDT does, were it to build or to keep silent forever.
CallReturns == \A c \in Calls : pc[c] # "idle" ~> pc[c] = "done"
=============================================================================
